------------------------------ MODULE FetchPath ------------------------------
(***************************************************************************)
(* How a query finds the series it serves (backend/services/query.py,      *)
(* indicator_selector.py, data_fetcher.py, indicator_resolution.py): the   *)
(* choice of a code by the model, with the cache of choices that the       *)
(* queries of a worker share; another code when one has no data; retries   *)
(* of a transient error; other providers when the first has failed; and a  *)
(* second run when what was served is not about the region asked for.      *)
(* All queries ask for the same thing, so that they share one entry of     *)
(* the selection cache.  A step runs from one await to the next.  A query  *)
(* that is cancelled just stops.                                           *)
(***************************************************************************)
EXTENDS Naturals, FiniteSets

CONSTANTS Query,
          Candidate,      \* codes of the first provider that fit the question
          Shaped,         \* those that look like the provider's codes
          Renamed,        \* those that the catalogue lists under a longer name: BIS_...
          None,
          Foreign,        \* a code of another provider
          MaxAlternates,  \* _MAX_ALTERNATE_CODE_RETRIES
          MaxAttempts,    \* max_attempts of retry_async
          MaxFallbacks    \* bound: fallback providers

PathAssumption ==
  /\ Shaped \subseteq Candidate /\ Renamed \subseteq Candidate /\ IsFiniteSet(Candidate)
  /\ None \notin Candidate /\ Foreign \notin Candidate \union {None}
  /\ MaxAlternates \in Nat /\ MaxAttempts \in Nat \ {0} /\ MaxFallbacks \in Nat

VARIABLES kind,   \* kind[c]: what the provider has under a code
          cache,  \* _SELECTION_CACHE: the code kept for the question
          putBy,  \* history: the query that has put it there
          query

vars == <<kind, cache, putBy, query>>

\* "outside": there are observations, none of them in the time asked for
Kinds == {"regional", "national", "outside", "dead"}

Pcs == {"idle", "resolving", "fetching", "failed", "fallingBack", "served",
        "answered", "refused"}
Paths == {"phrase", "code", "title"}
Answers == {"awaited", "none", "regional", "national"}

QueryState ==
  [pc : Pcs,
   path : Paths, named : Candidate \union {None},   \* how the user names the series
   code : Candidate \union {None},                  \* params["indicator"]
   barred : SUBSET (Candidate \union {Foreign}),    \* params["__exclude_indicator_codes"]
   excluded : SUBSET Candidate,                     \* excluded of _fetch_data
   attempt : 1..MaxAttempts,
   discarded : Candidate \union {None, Foreign},    \* _SUBNATIONAL_RETRY_EXCLUDES
   fallback : UNION {[1..n -> Answers] : n \in 0..MaxFallbacks},
   server : 0..MaxFallbacks]                   \* who has served, 0: the first provider

TypeOK ==
  /\ kind \in [Candidate -> Kinds]
  /\ cache \in Candidate \union {None}
  /\ putBy \in Query \union {None}
  /\ query \in [Query -> QueryState]

NoAnswers == [p \in 1..0 |-> "none"]

Fresh == [pc |-> "idle", path |-> "phrase", named |-> None, code |-> None,
          barred |-> {}, excluded |-> {}, attempt |-> 1, discarded |-> None,
          fallback |-> NoAnswers, server |-> 0]

Init ==
  /\ kind \in [Candidate -> Kinds]
  /\ cache = None /\ putBy = None
  /\ query = [q \in Query |-> Fresh]

Becomes(q, state) == query' = [query EXCEPT ![q] = state]

\* The first provider has failed: what it was asked is of no use any more
Failed(state) ==
  [state EXCEPT !.pc = "failed", !.code = None, !.barred = {}, !.excluded = {}, !.attempt = 1]

Ended(state, pc) == [Fresh EXCEPT !.pc = pc, !.discarded = state.discarded]
-----------------------------------------------------------------------------
\* Mutant: the cache is asked although codes are excluded
ResolvedByCache(state, held) ==
  CASE state.path = "title" ->
         [state EXCEPT !.pc = "fetching", !.code = state.named]
    [] held # None /\ state.path # "title" ->
         [state EXCEPT !.pc = "fetching", !.code = held]
    [] held = None /\ state.path # "title" /\ cache # None ->
         [state EXCEPT !.pc = "fetching", !.code = cache]
    [] OTHER ->
         [state EXCEPT !.pc = "resolving", !.code = None]

\* resolve_indicator_for_fetch up to its first await.  An exact title is resolved
\* without the selector, a code held with authority is kept, and only a choice
\* without exclusions is looked up in the cache.
Resolved(state, held) ==
  CASE state.path = "title" ->
         [state EXCEPT !.pc = "fetching", !.code = state.named]
    [] held # None /\ state.path # "title" ->
         [state EXCEPT !.pc = "fetching", !.code = held]
    [] held = None /\ state.path # "title" /\ state.barred = {} /\ cache # None ->
         [state EXCEPT !.pc = "fetching", !.code = cache]
    [] OTHER ->
         [state EXCEPT !.pc = "resolving", !.code = None]

\* A code picked earlier that does not look like one is picked again
Held(state) ==
  IF state.code \in Shaped \union {state.named} THEN state.code ELSE None

\* _fetch_data's entry: what was discarded joins the codes excluded by an earlier call,
\* and a code held that is one of them is dropped
Entered(state) ==
  LET barred == state.barred \union {state.discarded}
  IN  IF state.discarded = None THEN Resolved(state, Held(state))
      ELSE Resolved([state EXCEPT !.barred = barred],
                    IF state.code \in barred THEN None ELSE Held(state))

Start(q) ==
  /\ query[q].pc = "idle"
  /\ \/ Becomes(q, Entered(query[q]))
     \/ \E path \in {"code", "title"}, c \in Candidate :
          Becomes(q, Entered([query[q] EXCEPT !.path = path, !.named = c, !.code = c]))
  /\ UNCHANGED <<kind, cache, putBy>>

\* The model has picked a code.  _drop_excluded compares the names in the catalogue with
\* codes that have lost their prefix, and leaves a renamed one among the candidates.  A
\* pick without exclusions is kept for the next query.
Pick(q) ==
  /\ query[q].pc = "resolving"
  /\ \E c \in Candidate \ (query[q].barred \ Renamed) :
       /\ Becomes(q, [query[q] EXCEPT !.pc = "fetching", !.code = c])
       /\ \/ query[q].barred = {} /\ cache' = c /\ putBy' = q
          \/ query[q].barred # {} /\ UNCHANGED <<cache, putBy>>
  /\ UNCHANGED kind

\* It has picked none: the provider refuses a phrase without authority
PickNone(q) ==
  /\ query[q].pc = "resolving"
  /\ Becomes(q, Failed(query[q]))
  /\ UNCHANGED <<kind, cache, putBy>>

Serve(q) ==
  /\ query[q].pc = "fetching"
  /\ kind[query[q].code] \in {"regional", "national"}
  /\ Becomes(q, [query[q] EXCEPT !.pc = "served"])
  /\ UNCHANGED <<kind, cache, putBy>>

\* The probe without a time window finds observations, and the query is refused
OutsideWindow(q) ==
  /\ query[q].pc = "fetching"
  /\ kind[query[q].code] = "outside"
  /\ Becomes(q, Ended(query[q], "refused"))
  /\ UNCHANGED <<kind, cache, putBy>>

\* __decision_source = "llm_pick"
Picked(state) == state.path # "title" /\ state.code # state.named

\* No data, and no probe has told why: the code is excluded and the choice made
\* again.  The list that replaces __exclude_indicator_codes has the codes of this
\* call only.
AnotherCode(q) ==
  /\ query[q].pc = "fetching"
  /\ kind[query[q].code] \in {"outside", "dead"}
  /\ Picked(query[q])
  /\ Cardinality(query[q].excluded) < MaxAlternates
  /\ query[q].code \notin query[q].excluded
  /\ LET excluded == query[q].excluded \union {query[q].code}
     IN  Becomes(q, Resolved([query[q] EXCEPT !.excluded = excluded, !.barred = excluded], None))
  /\ UNCHANGED <<kind, cache, putBy>>

NoData(q) ==
  /\ query[q].pc = "fetching"
  /\ kind[query[q].code] \in {"outside", "dead"}
  /\ \/ ~Picked(query[q])
     \/ Cardinality(query[q].excluded) >= MaxAlternates
     \/ query[q].code \in query[q].excluded
  /\ Becomes(q, Failed(query[q]))
  /\ UNCHANGED <<kind, cache, putBy>>

\* An error that retry_async knows: _fetch_data is entered again with the same parameters
Retry(q) ==
  /\ query[q].pc = "fetching"
  /\ query[q].attempt < MaxAttempts
  /\ Becomes(q, Entered([query[q] EXCEPT !.attempt = @ + 1, !.excluded = {}]))
  /\ UNCHANGED <<kind, cache, putBy>>

\* ... for the last time; or any other error
GiveUp(q) ==
  /\ query[q].pc = "fetching"
  /\ Becomes(q, Failed(query[q]))
  /\ UNCHANGED <<kind, cache, putBy>>
-----------------------------------------------------------------------------
(* Other providers: _try_with_fallback, in the order of their preference.  *)

FallBack(q) ==
  /\ query[q].pc = "failed"
  /\ \E n \in 1..MaxFallbacks :
       Becomes(q, [query[q] EXCEPT !.pc = "fallingBack",
                                   !.fallback = [p \in 1..n |-> "awaited"]])
  /\ UNCHANGED <<kind, cache, putBy>>

\* The user asks for this provider, or there is no other
NoFallback(q) ==
  /\ query[q].pc = "failed"
  /\ Becomes(q, Ended(query[q], "refused"))
  /\ UNCHANGED <<kind, cache, putBy>>

\* The first two are asked together, the others one after the other
FallbackAnswers(q) ==
  /\ query[q].pc = "fallingBack"
  /\ \E p \in DOMAIN query[q].fallback, answer \in Answers \ {"awaited"} :
       /\ query[q].fallback[p] = "awaited"
       /\ p <= 2 \/ \A earlier \in 1..(p - 1) : query[q].fallback[earlier] = "none"
       /\ Becomes(q, [query[q] EXCEPT !.fallback[p] = answer])
  /\ UNCHANGED <<kind, cache, putBy>>

Serves(q, p) == query[q].fallback[p] \in {"regional", "national"}

\* gather waits for both of the first two
FallbackServes(q) ==
  /\ query[q].pc = "fallingBack"
  /\ \A p \in DOMAIN query[q].fallback : p <= 2 => query[q].fallback[p] # "awaited"
  /\ \E p \in DOMAIN query[q].fallback :
       /\ Serves(q, p)
       /\ \A earlier \in 1..(p - 1) : ~Serves(q, earlier)
       /\ Becomes(q, [query[q] EXCEPT !.pc = "served", !.server = p])
  /\ UNCHANGED <<kind, cache, putBy>>

FallbacksFail(q) ==
  /\ query[q].pc = "fallingBack"
  /\ \A p \in DOMAIN query[q].fallback : query[q].fallback[p] = "none"
  /\ Becomes(q, Ended(query[q], "refused"))
  /\ UNCHANGED <<kind, cache, putBy>>
-----------------------------------------------------------------------------
(* process_query: is what was served about the region?                     *)

ServedKind(q) ==
  IF query[q].server = 0 THEN kind[query[q].code] ELSE query[q].fallback[query[q].server]

ServedCode(q) == IF query[q].server = 0 THEN query[q].code ELSE Foreign

AcceptServed(q) ==
  /\ query[q].pc = "served"
  /\ ServedKind(q) = "regional"
  /\ Becomes(q, Ended(query[q], "answered"))
  /\ UNCHANGED <<kind, cache, putBy>>

\* The query as it is parsed once more
Again(state, discarded) ==
  [Fresh EXCEPT !.path = state.path, !.named = state.named, !.code = state.named,
                !.discarded = discarded]

\* Mutant: the discarded choice stays in the cache
DiscardKeeping(q) ==
  /\ query[q].pc = "served"
  /\ ServedKind(q) = "national" /\ query[q].discarded = None
  /\ Becomes(q, Entered(Again(query[q], ServedCode(q))))
  /\ UNCHANGED <<kind, cache, putBy>>

\* invalidate_selection_cache_entry, and _process_query_impl runs again
Discard(q) ==
  /\ query[q].pc = "served"
  /\ ServedKind(q) = "national" /\ query[q].discarded = None
  /\ IF cache = ServedCode(q) THEN cache' = None /\ putBy' = None
     ELSE UNCHANGED <<cache, putBy>>
  /\ Becomes(q, Entered(Again(query[q], ServedCode(q))))
  /\ UNCHANGED kind

\* The second run has not helped
RefuseServed(q) ==
  /\ query[q].pc = "served"
  /\ ServedKind(q) = "national" /\ query[q].discarded # None
  /\ Becomes(q, Ended(query[q], "refused"))
  /\ UNCHANGED <<kind, cache, putBy>>

Step(q) ==
  \/ Start(q) \/ Pick(q) \/ PickNone(q)
  \/ Serve(q) \/ OutsideWindow(q) \/ AnotherCode(q) \/ NoData(q) \/ Retry(q) \/ GiveUp(q)
  \/ FallBack(q) \/ NoFallback(q) \/ FallbackAnswers(q) \/ FallbackServes(q) \/ FallbacksFail(q)
  \/ AcceptServed(q) \/ Discard(q) \/ RefuseServed(q)

Next == \E q \in Query : Step(q)

Spec == Init /\ [][Next]_vars
-----------------------------------------------------------------------------
\* query.py:6216-6327: between two entries of _fetch_data no code is fetched again
\* that has given no data, neither from the cache of choices nor by a new choice;
\* nor is the code whose data were discarded, as long as none has been excluded
\* since: the exclusion at 6316 replaces that of 4626.  A code that the catalogue lists
\* under another name is out of its reach (indicator_selector.py:606-619, 2014-2019),
\* and so is an exact title, which is resolved without the selector.
NoCodeTwice ==
  \A q \in Query :
    /\ query[q].pc = "fetching" /\ query[q].path # "title"
    /\ query[q].code \notin Renamed
    => /\ query[q].code \notin query[q].excluded
       /\ query[q].excluded = {} => query[q].code # query[q].discarded

\* query.py:4622-4638: a choice whose data were discarded comes back into the cache
\* only as the choice of another query.
EvictionHolds ==
  cache # None => query[putBy].discarded # cache
=============================================================================
