--------------------------- MODULE McpStreamLimit ---------------------------
(***************************************************************************)
(* Admission of MCP streams in one process: MCPStreamLimitMiddleware       *)
(* (backend/mcp_stream_limit.py).  A step runs from one await to the next. *)
(***************************************************************************)
EXTENDS Integers, FiniteSets

CONSTANTS StreamRequest,  \* GET requests to /mcp
          Client,         \* addresses they come from
          MaxStreams,     \* max_streams
          MaxPerClient    \* max_per_client

LimitAssumption ==
  /\ IsFiniteSet(StreamRequest)
  /\ MaxStreams \in Nat /\ MaxPerClient \in Nat
  /\ 0 < MaxPerClient /\ MaxPerClient <= MaxStreams

VARIABLES active,          \* streams counted
          activeByClient,  \* active_by_client: only clients that have some
          stream           \* stream[s]: where it is, and its client

vars == <<active, activeByClient, stream>>

Places == {"new", "open", "refused", "closed"}

TypeOK ==
  /\ active \in Int
  /\ \E C \in SUBSET Client : activeByClient \in [C -> Int]
  /\ stream \in [StreamRequest -> [at : Places, client : Client]]

Init ==
  /\ active = 0
  /\ activeByClient = [c \in {} |-> 0]
  /\ stream \in [StreamRequest -> [at : {"new"}, client : Client]]

\* active_by_client.get(client, 0)
Count(c) == IF c \in DOMAIN activeByClient THEN activeByClient[c] ELSE 0

Moved(s, place) == stream' = [stream EXCEPT ![s].at = place]

Full(c) == active >= MaxStreams \/ Count(c) >= MaxPerClient

\* 503 or 429
Refuse(s) ==
  /\ stream[s].at = "new"
  /\ Full(stream[s].client)
  /\ Moved(s, "refused")
  /\ UNCHANGED <<active, activeByClient>>

Claim(c) ==
  /\ active' = active + 1
  /\ activeByClient' =
       [k \in DOMAIN activeByClient \union {c} |->
          IF k = c THEN Count(c) + 1 ELSE activeByClient[k]]

\* No await stands between the check and the claim
Admit(s) ==
  /\ stream[s].at = "new"
  /\ ~Full(stream[s].client)
  /\ Claim(stream[s].client)
  /\ Moved(s, "open")

\* Mutant: the entry of a client whose last stream ends is kept
ReleaseKeepsEntry(s) ==
  /\ stream[s].at = "open"
  /\ active' = active - 1
  /\ activeByClient' = [activeByClient EXCEPT ![stream[s].client] = @ - 1]
  /\ Moved(s, "closed")

\* However the stream ends: the release is in a finally
Release(s) ==
  LET c == stream[s].client
      remaining == activeByClient[c] - 1
  IN  /\ stream[s].at = "open"
      /\ active' = active - 1
      /\ activeByClient' =
           IF remaining # 0 THEN [activeByClient EXCEPT ![c] = remaining]
           ELSE [k \in DOMAIN activeByClient \ {c} |-> activeByClient[k]]
      /\ Moved(s, "closed")

Next == \E s \in StreamRequest : Refuse(s) \/ Admit(s) \/ Release(s)

Spec == Init /\ [][Next]_vars
-----------------------------------------------------------------------------
Open == {s \in StreamRequest : stream[s].at = "open"}
OpenOf(c) == {s \in Open : stream[s].client = c}

\* The counters are those of the open streams, and a client without any is
\* forgotten.
CountersBalanced ==
  /\ active = Cardinality(Open)
  /\ \A c \in Client : Count(c) = Cardinality(OpenOf(c))
  /\ DOMAIN activeByClient = {c \in Client : OpenOf(c) # {}}

WithinLimits ==
  /\ Cardinality(Open) <= MaxStreams
  /\ \A c \in Client : Cardinality(OpenOf(c)) <= MaxPerClient

\* mcp_stream_limit.py:16-18, 74-87: the allowance covers the entire response.
\* What was claimed is given back once, on every exit, and never are more streams
\* open than the limits allow, per process and per client.
SlotsAccounted == CountersBalanced /\ WithinLimits
=============================================================================
