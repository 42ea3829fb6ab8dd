------------------------------ MODULE MCWorker ------------------------------
(***************************************************************************)
(* For TLC: what a worker begins comes to an end.  The turns of a          *)
(* conversation, what they hand on, and the services of a worker.  The     *)
(* parts share nothing here, so that each behaviour is one of a single     *)
(* part: the others stay as they begin.                                    *)
(***************************************************************************)
EXTENDS FollowUp, WorkerServices, TLC

CONSTANTS s1, e1, r1, r2, r3, r4, c1, c2, w1, w2, w3, d1, d2, d3, k1, k2, f1, f2,
          q1, q2, a, b, b1, b2, x1, x2,
          fred, worldbank, gdp, inflation, us, japan, quarterly,
          m1, NoCtx, NoUpdate, NoLock, Orphan

\* A fetch of two requests, one at a time, and one of a single request
TwoAndOne == (b1 :> {x1, x2}) @@ (b2 :> {x1})

\* A provider whose codes look like any word in capitals and name their place, and
\* one whose codes do neither
OneFamily == [p \in {fred, worldbank} |-> "macro"]
TwoCoverages == (fred :> {japan}) @@ (worldbank :> {us, japan})

VARIABLES part,
          messages, outcome, prev, pc, kept, lock, retried, intent, overdue, staged,
          clock, up, redis, key, client, mem, at, upd, conn, held, base, born, sent, written

Turns == INSTANCE QueryTurn
  WITH Sync <- {s1}, Stream <- {e1}, Pro <- {}, state <- kept

\* The conversation's store, with slow sections and outages
Manager == INSTANCE ConversationStore
  WITH Msg <- {m1}, Value <- {}, OwnerKeys <- {}, MaxMessages <- 2, MaxAge <- 1, MaxClock <- 0,
       Kinds <- {"add_message"}, Faults <- {"slow", "outage"}, lock <- key, pc <- at

Parts == {"turns", "updates", "mcp", "loader", "store", "feedback", "multi", "path", "paths", "choice",
          "talk", "timed", "trade"}

MCInit ==
  /\ part \in Parts
  /\ Turns!Init /\ staged
  /\ Manager!Init
  /\ Init
  /\ Mcp!Init /\ (part # "mcp" => \A s \in {r1, r2, r3, r4} : stream[s].client = c1)
  /\ Loader!Init
  /\ Store!Init /\ (part # "store" => \A r \in {r1, r2} : reader[r].id = d1)
  /\ Feedbacks!Init
  /\ Multi!Init
  /\ Path!Init /\ (part \notin {"path", "paths"} => \A c \in {a, b} : kind[c] = "dead")
  /\ Choice!Init
  /\ Trade!Init
  /\ \A f \in {b1, b2} : part # "trade" \/ f = b2 => plan[f] = [oneWay |-> FALSE, sparse |-> FALSE]

dialogue == <<messages, outcome, prev, pc, kept, lock, retried, intent, overdue, staged>>
storage ==
  <<clock, up, redis, key, client, mem, at, upd, conn, held, base, born, sent, written>>
conversation == <<dialogue, storage>>

\* A query is followed with all its retries and other providers, or beside a second
\* one without the providers
OnePath == Path!Next /\ query'[q2] = query[q2]
TwoPaths == Path!Next /\ \A q \in Query : query'[q].pc # "fallingBack"

\* A conversation about two places, or one about the first and a frequency
OfPlaces ==
  Next /\ (turn' # None => turn'.intent.frequency = None /\ turn'.staged.frequency = None)
OfTimes ==
  Next /\ (turn' # None => turn'.intent.places \union turn'.staged.places \subseteq {us})

MCNext ==
  /\ UNCHANGED part
  /\ \/ part = "turns" /\ Turns!Next /\ UNCHANGED <<storage, mcp, loader, store, feedback, multi>>
     \/ part = "updates" /\ Manager!Next /\ UNCHANGED <<dialogue, mcp, loader, store, feedback, multi>>
     \/ part = "mcp" /\ Mcp!Next /\ UNCHANGED <<conversation, loader, store, feedback, multi>>
     \/ part = "loader" /\ Loader!Next /\ UNCHANGED <<conversation, mcp, store, feedback, multi>>
     \/ part = "store" /\ Store!Next /\ UNCHANGED <<conversation, mcp, loader, feedback, multi>>
     \/ part = "feedback" /\ Feedbacks!Next /\ UNCHANGED <<conversation, mcp, loader, store, multi>>
     \/ part = "multi" /\ Multi!Next /\ UNCHANGED <<conversation, mcp, loader, store, feedback>>
     \/ part \in {"path", "paths", "choice", "talk", "timed", "trade"}
        /\ UNCHANGED <<conversation, mcp, loader, store, feedback, multi>>
  /\ \/ part = "path" /\ OnePath /\ UNCHANGED <<choice, fvars, commerce>>
     \/ part = "paths" /\ TwoPaths /\ UNCHANGED <<choice, fvars, commerce>>
     \/ part = "choice" /\ Choice!Next /\ UNCHANGED <<path, fvars, commerce>>
     \/ part = "talk" /\ OfPlaces /\ UNCHANGED <<path, choice, commerce>>
     \/ part = "timed" /\ OfTimes /\ UNCHANGED <<path, choice, commerce>>
     \/ part = "trade" /\ Trade!Next /\ UNCHANGED <<path, choice, fvars>>
     \/ /\ part \notin {"path", "paths", "choice", "talk", "timed", "trade"}
        /\ UNCHANGED <<path, choice, fvars, commerce>>

MCVars ==
  <<part, conversation, fvars, mcp, loader, store, feedback, multi, path, choice, commerce>>

MCSpec ==
  /\ MCInit /\ [][MCNext]_MCVars
  /\ Turns!Fairness /\ Manager!Fairness /\ Loader!Fairness /\ Trade!Fairness
-----------------------------------------------------------------------------
\* main.py:1435-1436, 1691-1703: a stuck turn does not hold the lock for ever; a
\* stuck stream may, once its client has been told.
LockIsFreed == Turns!LockIsFreed

\* _locked_redis_update (conversation.py:296-366) ends, whatever lock was left behind and
\* whatever Redis does.
UpdatesEnd == Manager!UpdatesEnd
=============================================================================
