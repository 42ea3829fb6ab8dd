---------------------------- MODULE FetchProofs ----------------------------
(***************************************************************************)
(* Proofs about what a worker fetches: how a query finds the series it     *)
(* serves, several indicators at once, and data of trade.                  *)
(***************************************************************************)
EXTENDS ServiceProofs

-----------------------------------------------------------------------------
(* FetchPath                                                               *)

Chain == UNION {[1..n -> Path!Answers] : n \in 0..MaxFallbacks}

\* A query whose chain of other providers is a member of Chain
Shape ==
  [pc : Path!Pcs,
   path : Path!Paths, named : Candidate \union {Nothing},
   code : Candidate \union {Nothing},
   barred : SUBSET (Candidate \union {Foreign}),
   excluded : SUBSET Candidate,
   attempt : 1..MaxAttempts,
   discarded : Candidate \union {Nothing, Foreign},
   fallback : Chain,
   server : 0..MaxFallbacks]

\* Unless it is an exact title, or listed under another name, what a query fetches is
\* not barred
Sound(s) ==
  s.pc = "fetching" =>
    /\ s.code \in Candidate
    /\ s.path # "title" => s.code \in Renamed \/ s.code \notin s.barred

\* What must not be fetched again is barred; a choice that bars nothing is made by a
\* query that has discarded nothing
Excludes(s) ==
  s.pc \in {"resolving", "fetching"} =>
    /\ s.excluded \subseteq s.barred
    /\ s.excluded = {} /\ s.discarded # Nothing => s.discarded \in s.barred

Fits(s) ==
  /\ s \in Shape
  /\ s.pc = "idle" => s = Path!Fresh
  /\ s.path = "title" => s.named \in Candidate
  /\ Sound(s) /\ Excludes(s)

PathInv ==
  /\ kind \in [Candidate -> Path!Kinds]
  /\ cache \in Candidate \union {Nothing} /\ putBy \in Query \union {Nothing}
  /\ cache # Nothing => putBy \in Query
  /\ query \in [Query -> Shape]
  /\ \A q \in Query : Fits(query[q])
  /\ EvictionHolds

\* What the proofs use of the constants.
LEMMA PathConstants ==
  /\ Shaped \subseteq Candidate /\ Renamed \subseteq Candidate /\ Nothing \notin Candidate
  /\ Foreign \notin Candidate /\ Foreign # Nothing
  /\ MaxAttempts \in Nat \ {0} /\ MaxFallbacks \in Nat
BY ServicesAssumption DEF Path!PathAssumption

\* The fields of a query, with its chain of providers as a set of functions.
LEMMA PathShape == Path!QueryState = Shape
BY DEF Path!QueryState, Shape, Chain

\* The chain of a fresh query is empty.
LEMMA FreshFits == Path!Fresh \in Shape /\ Fits(Path!Fresh)
<1>1. Path!NoAnswers \in [1..0 -> Path!Answers]
  BY DEF Path!NoAnswers, Path!Answers
<1>2. Path!NoAnswers \in Chain
  BY <1>1, PathConstants DEF Chain
<1>3. Path!Fresh \in Shape
  BY <1>2, PathConstants DEF Path!Fresh, Shape, Path!Pcs, Path!Paths
<1> QED BY <1>3, PathConstants DEF Fits, Sound, Excludes, Path!Fresh

\* resolve_indicator_for_fetch: whichever way the code is found, it is none of those
\* that are barred.
LEMMA ResolvedFits ==
  ASSUME cache \in Candidate \union {Nothing},
         NEW state \in Shape, state.path = "title" => state.named \in Candidate,
         NEW held \in Candidate \union {Nothing},
         state.path # "title" /\ held # Nothing =>
           held \in Renamed \/ held \notin state.barred,
         state.excluded \subseteq state.barred,
         state.excluded = {} /\ state.discarded # Nothing => state.discarded \in state.barred
  PROVE  /\ Fits(Path!Resolved(state, held))
         /\ Path!Resolved(state, held).discarded = state.discarded
         /\ Path!Resolved(state, held).pc # "idle"
<1> DEFINE r == Path!Resolved(state, held)
<1>1. CASE state.path = "title"
  <2>1. r = [state EXCEPT !.pc = "fetching", !.code = state.named]
    BY <1>1 DEF Path!Resolved
  <2> HIDE DEF r
  <2>2. r \in Shape
    BY <1>1, <2>1 DEF Shape, Path!Pcs
  <2>3. /\ r.path = state.path /\ r.named = state.named /\ r.excluded = state.excluded
        /\ r.discarded = state.discarded /\ r.barred = state.barred /\ r.pc = "fetching" /\ r.code = state.named
    BY <2>1 DEF Shape
  <2>4. Fits(r)
    BY <1>1, <2>2, <2>3 DEF Fits, Sound, Excludes
  <2> QED BY <2>3, <2>4 DEF r
<1>2. CASE state.path # "title" /\ held # Nothing
  <2>1. r = [state EXCEPT !.pc = "fetching", !.code = held]
    BY <1>2 DEF Path!Resolved
  <2> HIDE DEF r
  <2>2. r \in Shape
    BY <1>2, <2>1 DEF Shape, Path!Pcs
  <2>3. /\ r.path = state.path /\ r.named = state.named /\ r.excluded = state.excluded
        /\ r.discarded = state.discarded /\ r.barred = state.barred /\ r.pc = "fetching" /\ r.code = held
    BY <2>1 DEF Shape
  <2>4. Fits(r)
    BY <1>2, <2>2, <2>3 DEF Fits, Sound, Excludes
  <2> QED BY <2>3, <2>4 DEF r
<1>3. CASE state.path # "title" /\ held = Nothing /\ state.barred = {} /\ cache # Nothing
  <2>1. r = [state EXCEPT !.pc = "fetching", !.code = cache]
    BY <1>3 DEF Path!Resolved
  <2> HIDE DEF r
  <2>2. r \in Shape
    BY <1>3, <2>1 DEF Shape, Path!Pcs
  <2>3. /\ r.path = state.path /\ r.named = state.named /\ r.excluded = state.excluded
        /\ r.discarded = state.discarded /\ r.barred = state.barred /\ r.pc = "fetching" /\ r.code = cache
    BY <2>1 DEF Shape
  <2>4. Fits(r)
    BY <1>3, <2>2, <2>3 DEF Fits, Sound, Excludes
  <2> QED BY <2>3, <2>4 DEF r
<1>4. CASE state.path # "title" /\ held = Nothing /\ ~(state.barred = {} /\ cache # Nothing)
  <2>1. r = [state EXCEPT !.pc = "resolving", !.code = Nothing]
    BY <1>4 DEF Path!Resolved
  <2> HIDE DEF r
  <2>2. r \in Shape
    BY <1>4, <2>1 DEF Shape, Path!Pcs
  <2>3. /\ r.path = state.path /\ r.named = state.named /\ r.excluded = state.excluded
        /\ r.discarded = state.discarded /\ r.barred = state.barred /\ r.pc = "resolving"
    BY <2>1 DEF Shape
  <2>4. Fits(r)
    BY <1>4, <2>2, <2>3 DEF Fits, Sound, Excludes
  <2> QED BY <2>3, <2>4 DEF r
<1> QED BY <1>1, <1>2, <1>3, <1>4

\* The entry of _fetch_data bars what was discarded, and drops a code that is barred.
LEMMA EnteredFits ==
  ASSUME cache \in Candidate \union {Nothing},
         NEW state \in Shape, state.path = "title" => state.named \in Candidate,
         state.excluded = {},
         state.path = "title" \/ state.code \in Renamed \/ state.code \notin state.barred
  PROVE  /\ Fits(Path!Entered(state))
         /\ Path!Entered(state).discarded = state.discarded
         /\ Path!Entered(state).pc # "idle"
<1>1. Path!Held(state) \in Candidate \union {Nothing}
      /\ (Path!Held(state) # Nothing => Path!Held(state) = state.code)
  BY PathConstants DEF Path!Held, Shape
<1>2. CASE state.discarded = Nothing
  <2>1. Path!Entered(state) = Path!Resolved(state, Path!Held(state))
    BY <1>2 DEF Path!Entered
  <2> QED BY <1>1, <1>2, <2>1, ResolvedFits
<1>3. CASE state.discarded # Nothing
  <2> DEFINE barred == state.barred \union {state.discarded}
             t == [state EXCEPT !.barred = barred]
             held == IF state.code \in barred THEN Nothing ELSE Path!Held(state)
  <2>1. Path!Entered(state) = Path!Resolved(t, held)
    BY <1>3 DEF Path!Entered
  <2>2. held \in Candidate \union {Nothing} /\ (held # Nothing => held \notin barred)
    BY <1>1
  <2>3. barred \in SUBSET (Candidate \union {Foreign}) /\ state.discarded \in barred
    BY <1>3 DEF Shape
  <2> HIDE DEF held, barred
  <2>4. /\ t \in Shape /\ t.path = state.path /\ t.named = state.named /\ t.excluded = {}
        /\ t.discarded = state.discarded /\ t.barred = barred
    BY <2>3 DEF Shape
  <2> HIDE DEF t
  <2> QED BY <1>3, <2>1, <2>2, <2>3, <2>4, ResolvedFits
<1> QED BY <1>2, <1>3
\* A query that has failed, or has ended, keeps what it has discarded.
LEMMA FailedFits ==
  ASSUME NEW s \in Shape, Fits(s)
  PROVE  Fits(Path!Failed(s)) /\ Path!Failed(s).discarded = s.discarded
<1> DEFINE r == Path!Failed(s)
<1>1. r = [s EXCEPT !.pc = "failed", !.code = Nothing, !.barred = {}, !.excluded = {}, !.attempt = 1]
  BY DEF Path!Failed
<1> HIDE DEF r
<1>2. r \in Shape
  <2>1. 1 \in 1..MaxAttempts
    BY PathConstants
  <2> QED BY <1>1, <2>1 DEF Shape, Path!Pcs
<1>3. r.pc = "failed" /\ r.path = s.path /\ r.named = s.named /\ r.discarded = s.discarded
  BY <1>1 DEF Shape
<1> QED BY <1>2, <1>3 DEF Fits, Sound, Excludes, r

\* What is left of a query that has ended.
LEMMA EndedFits ==
  ASSUME NEW s \in Shape, NEW pc \in {"answered", "refused"}
  PROVE  Fits(Path!Ended(s, pc)) /\ Path!Ended(s, pc).discarded = s.discarded
<1> DEFINE r == Path!Ended(s, pc)
<1>1. r = [Path!Fresh EXCEPT !.pc = pc, !.discarded = s.discarded]
  BY DEF Path!Ended
<1>2. s.discarded \in Candidate \union {Nothing, Foreign}
  BY DEF Shape
<1> HIDE DEF r
<1>3. r \in Shape
  BY <1>1, <1>2, FreshFits DEF Shape, Path!Pcs
<1>4. r.pc = pc /\ r.path = "phrase" /\ r.discarded = s.discarded
  BY <1>1 DEF Path!Fresh
<1> QED BY <1>3, <1>4 DEF Fits, Sound, Excludes, r

\* A query that goes on without a new choice in the cache, and without discarding what
\* the cache holds.
LEMMA PathBecomes ==
  ASSUME PathInv, NEW q \in Query, NEW s, Fits(s), Path!Becomes(q, s),
         UNCHANGED <<kind, cache, putBy>>,
         s.discarded = query[q].discarded \/ s.discarded # cache
  PROVE  PathInv'
<1>1. s \in Shape /\ query' = [query EXCEPT ![q] = s]
  BY DEF Fits, Path!Becomes
<1>2. query' \in [Query -> Shape] /\ \A p \in Query : Fits(query'[p])
  BY <1>1 DEF PathInv
<1>3. EvictionHolds'
  BY <1>1 DEF PathInv, EvictionHolds, Path!EvictionHolds
<1> QED BY <1>2, <1>3 DEF PathInv

\* A query enters with a phrase or a code, and nothing excluded yet.
LEMMA PathStarts ==
  ASSUME PathInv, NEW q \in Query, Path!Start(q)
  PROVE  PathInv'
<1>1. query[q] = Path!Fresh /\ Path!Fresh.discarded = Nothing /\ Path!Fresh.excluded = {}
      /\ Path!Fresh.path = "phrase" /\ Path!Fresh.barred = {}
  BY DEF PathInv, Fits, Path!Start, Path!Fresh
<1>2. CASE Path!Becomes(q, Path!Entered(query[q]))
  <2>1. Fits(Path!Entered(query[q])) /\ Path!Entered(query[q]).discarded = query[q].discarded
    BY <1>1, FreshFits, EnteredFits DEF PathInv
  <2> QED BY <1>2, <2>1, PathBecomes DEF Path!Start
<1>3. ASSUME NEW way \in {"code", "title"}, NEW c \in Candidate,
             Path!Becomes(q, Path!Entered([query[q] EXCEPT !.path = way, !.named = c, !.code = c]))
      PROVE  PathInv'
  <2> DEFINE s == [Path!Fresh EXCEPT !.path = way, !.named = c, !.code = c]
  <2>1. s \in Shape
    BY FreshFits DEF Shape, Path!Paths
  <2>2. s.named = c /\ s.excluded = {} /\ s.discarded = Nothing /\ s.barred = {}
    BY DEF Path!Fresh
  <2>3. [query[q] EXCEPT !.path = way, !.named = c, !.code = c] = s
    BY <1>1
  <2> HIDE DEF s
  <2>4. Fits(Path!Entered(s)) /\ Path!Entered(s).discarded = Nothing
    BY <2>1, <2>2, EnteredFits DEF PathInv
  <2> QED BY <1>1, <1>3, <2>3, <2>4, PathBecomes DEF Path!Start
<1> QED BY <1>2, <1>3 DEF Path!Start

\* The model picks none of the codes that are barred, unless it goes by another name; a
\* pick that goes into the cache is one of a query that has discarded nothing.
LEMMA PathPicks ==
  ASSUME PathInv, NEW q \in Query, Path!Pick(q)
  PROVE  PathInv'
<1>1. PICK c \in Candidate \ (query[q].barred \ Renamed) :
        /\ query' = [query EXCEPT ![q] = [query[q] EXCEPT !.pc = "fetching", !.code = c]]
        /\ \/ query[q].barred = {} /\ cache' = c /\ putBy' = q
           \/ query[q].barred # {} /\ UNCHANGED <<cache, putBy>>
  BY DEF Path!Pick, Path!Becomes
<1> DEFINE s == query[q]
           r == [s EXCEPT !.pc = "fetching", !.code = c]
<1>2. s \in Shape /\ Fits(s) /\ s.pc = "resolving" /\ kind' = kind
  BY DEF PathInv, Path!Pick
<1> HIDE DEF s
<1>3. r \in Shape
  BY <1>2 DEF Shape, Path!Pcs
<1>4. /\ r.pc = "fetching" /\ r.code = c /\ r.path = s.path /\ r.named = s.named
      /\ r.excluded = s.excluded /\ r.discarded = s.discarded /\ r.barred = s.barred
  BY <1>2 DEF Shape
<1>5. query' = [query EXCEPT ![q] = r]
  BY <1>1 DEF s
<1> HIDE DEF r
<1>6. c \in Candidate /\ (c \in Renamed \/ c \notin s.barred)
  BY DEF s
<1>7. Fits(r)
  BY <1>2, <1>3, <1>4, <1>6 DEF Fits, Sound, Excludes
<1>8. query' \in [Query -> Shape] /\ \A p \in Query : Fits(query'[p])
  BY <1>3, <1>5, <1>7 DEF PathInv
<1>9. query'[q] = r /\ \A p \in Query : query'[p].discarded = query[p].discarded
  BY <1>4, <1>5 DEF PathInv, s
<1>10. CASE s.barred = {} /\ cache' = c /\ putBy' = q
  <2>1. s.discarded = Nothing
    BY <1>2, <1>10 DEF Fits, Excludes
  <2>2. EvictionHolds'
    BY <1>4, <1>6, <1>9, <1>10, <2>1, PathConstants DEF EvictionHolds, Path!EvictionHolds
  <2> QED BY <1>2, <1>6, <1>8, <1>10, <2>2 DEF PathInv
<1>11. CASE UNCHANGED <<cache, putBy>>
  <2>1. EvictionHolds'
    BY <1>9, <1>11 DEF PathInv, EvictionHolds, Path!EvictionHolds
  <2> QED BY <1>2, <1>8, <1>11, <2>1 DEF PathInv
<1> QED BY <1>1, <1>10, <1>11 DEF s

\* After no data the code is barred with those before it in the same call.
LEMMA PathTriesAnother ==
  ASSUME PathInv, NEW q \in Query, Path!AnotherCode(q)
  PROVE  PathInv'
<1> DEFINE s == query[q]
           excluded == s.excluded \union {s.code}
           t == [s EXCEPT !.excluded = excluded, !.barred = excluded]
           r == Path!Resolved(t, Nothing)
<1>1. /\ s \in Shape /\ Fits(s) /\ s.pc = "fetching" /\ s.path # "title"
      /\ Path!Becomes(q, r) /\ UNCHANGED <<kind, cache, putBy>>
  BY DEF PathInv, Path!AnotherCode, Path!Picked
<1> HIDE DEF s
<1>2. s.code \in Candidate
  BY <1>1 DEF Fits, Sound
<1>3. excluded \in SUBSET Candidate /\ excluded # {}
  BY <1>1, <1>2 DEF Shape
<1> HIDE DEF excluded
<1>4. /\ t \in Shape /\ t.path = s.path /\ t.excluded = excluded /\ t.discarded = s.discarded
      /\ t.barred = excluded
  BY <1>1, <1>3 DEF Shape
<1> HIDE DEF t
<1>5. Fits(r) /\ r.discarded = s.discarded
  BY <1>1, <1>3, <1>4, ResolvedFits DEF PathInv
<1> HIDE DEF r
<1> QED BY <1>1, <1>5, PathBecomes DEF s

\* A retry of the transport begins again with what is barred.
LEMMA PathRetries ==
  ASSUME PathInv, NEW q \in Query, Path!Retry(q)
  PROVE  PathInv'
<1> DEFINE s == query[q]
           t == [s EXCEPT !.attempt = @ + 1, !.excluded = {}]
<1>1. /\ s \in Shape /\ Fits(s) /\ s.attempt < MaxAttempts /\ s.pc = "fetching"
      /\ Path!Becomes(q, Path!Entered(t)) /\ UNCHANGED <<kind, cache, putBy>>
  BY DEF PathInv, Path!Retry
<1> HIDE DEF s
<1>2. s.attempt + 1 \in 1..MaxAttempts
  BY <1>1, PathConstants DEF Shape
<1>3. /\ t \in Shape /\ t.path = s.path /\ t.named = s.named /\ t.code = s.code
      /\ t.excluded = {} /\ t.discarded = s.discarded /\ t.barred = s.barred
  BY <1>1, <1>2 DEF Shape
<1> HIDE DEF t
<1>4. s.path = "title" \/ s.code \in Renamed \/ s.code \notin s.barred
  BY <1>1 DEF Fits, Sound
<1>5. Fits(Path!Entered(t)) /\ Path!Entered(t).discarded = s.discarded
  BY <1>1, <1>3, <1>4, EnteredFits DEF PathInv, Fits
<1> QED BY <1>1, <1>5, PathBecomes DEF s

\* The other providers are asked, and answer, without a code of the first one.
LEMMA PathFallsBack ==
  ASSUME PathInv, NEW q \in Query,
         Path!FallBack(q) \/ Path!FallbackAnswers(q) \/ Path!FallbackServes(q)
  PROVE  PathInv'
<1>1. query[q] \in Shape /\ Fits(query[q])
  BY DEF PathInv
<1>2. ASSUME NEW chain \in Chain, NEW pc \in {"fallingBack", "served"},
             NEW server \in 0..MaxFallbacks,
             Path!Becomes(q, [query[q] EXCEPT !.pc = pc, !.fallback = chain, !.server = server]),
             UNCHANGED <<kind, cache, putBy>>
      PROVE  PathInv'
  <2> DEFINE s == query[q]
             r == [s EXCEPT !.pc = pc, !.fallback = chain, !.server = server]
  <2> HIDE DEF s
  <2>1. r \in Shape
    BY <1>1 DEF s, Shape, Path!Pcs
  <2>2. r.pc = pc /\ r.path = s.path /\ r.named = s.named /\ r.discarded = s.discarded
    BY <1>1 DEF s, Shape
  <2>3. Path!Becomes(q, r)
    BY <1>2 DEF s
  <2> HIDE DEF r
  <2>4. Fits(r)
    BY <1>1, <2>1, <2>2 DEF s, Fits, Sound, Excludes
  <2> QED BY <1>2, <2>2, <2>3, <2>4, PathBecomes DEF s
<1>3. /\ query[q].fallback \in Chain /\ query[q].server \in 0..MaxFallbacks
      /\ \A pc : [query[q] EXCEPT !.pc = pc, !.fallback = query[q].fallback, !.server = query[q].server]
                   = [query[q] EXCEPT !.pc = pc]
  BY <1>1 DEF Shape
<1>4. CASE Path!FallBack(q)
  <2>1. PICK n \in 1..MaxFallbacks :
          Path!Becomes(q, [query[q] EXCEPT !.pc = "fallingBack",
                                           !.fallback = [p \in 1..n |-> "awaited"]])
    BY <1>4 DEF Path!FallBack
  <2> DEFINE chain == [p \in 1..n |-> "awaited"]
  <2>2. chain \in Chain
    <3>1. chain \in [1..n -> Path!Answers]
      BY DEF Path!Answers
    <3> QED BY <3>1, PathConstants DEF Chain
  <2> HIDE DEF chain
  <2>3. [query[q] EXCEPT !.pc = "fallingBack", !.fallback = chain]
          = [query[q] EXCEPT !.pc = "fallingBack", !.fallback = chain, !.server = query[q].server]
    BY <1>1 DEF Shape
  <2> QED BY <1>2, <1>3, <1>4, <2>1, <2>2, <2>3 DEF Path!FallBack, chain
<1>5. CASE Path!FallbackAnswers(q)
  <2>1. PICK p \in DOMAIN query[q].fallback, outcome \in Path!Answers :
          Path!Becomes(q, [query[q] EXCEPT !.fallback[p] = outcome])
    BY <1>5 DEF Path!FallbackAnswers
  <2> DEFINE chain == [query[q].fallback EXCEPT ![p] = outcome]
  <2>2. chain \in Chain
    <3>1. PICK n \in 0..MaxFallbacks : query[q].fallback \in [1..n -> Path!Answers]
      BY <1>3 DEF Chain
    <3>2. chain \in [1..n -> Path!Answers]
      BY <3>1
    <3> QED BY <3>2 DEF Chain
  <2>3. query[q].pc = "fallingBack"
    BY <1>5 DEF Path!FallbackAnswers
  <2>4. [query[q] EXCEPT !.fallback[p] = outcome]
          = [query[q] EXCEPT !.pc = "fallingBack", !.fallback = chain, !.server = query[q].server]
    BY <1>1, <2>3 DEF Shape
  <2> HIDE DEF chain
  <2> QED BY <1>2, <1>3, <1>5, <2>1, <2>2, <2>4 DEF Path!FallbackAnswers
<1>6. CASE Path!FallbackServes(q)
  <2>1. PICK p \in DOMAIN query[q].fallback :
          Path!Becomes(q, [query[q] EXCEPT !.pc = "served", !.server = p])
    BY <1>6 DEF Path!FallbackServes
  <2>2. p \in 0..MaxFallbacks
    <3>1. PICK n \in 0..MaxFallbacks : query[q].fallback \in [1..n -> Path!Answers]
      BY <1>3 DEF Chain
    <3> QED BY <3>1, PathConstants
  <2>3. [query[q] EXCEPT !.pc = "served", !.server = p]
          = [query[q] EXCEPT !.pc = "served", !.fallback = query[q].fallback, !.server = p]
    BY <1>1 DEF Shape
  <2> QED BY <1>2, <1>3, <1>6, <2>1, <2>2, <2>3 DEF Path!FallbackServes
<1> QED BY <1>4, <1>5, <1>6

\* What is discarded leaves the cache with it.
LEMMA PathDiscards ==
  ASSUME PathInv, NEW q \in Query, Path!Discard(q)
  PROVE  PathInv'
<1> DEFINE s == query[q]
           code == Path!ServedCode(q)
           t == Path!Again(s, code)
           r == Path!Entered(t)
<1>1. /\ s \in Shape /\ Fits(s) /\ query' = [query EXCEPT ![q] = r] /\ kind' = kind
      /\ IF cache = code THEN cache' = Nothing /\ putBy' = Nothing ELSE UNCHANGED <<cache, putBy>>
  BY DEF PathInv, Path!Discard, Path!Becomes
<1>2. code \in Candidate \union {Nothing, Foreign}
  BY <1>1 DEF Path!ServedCode, Shape
<1> HIDE DEF code, s
<1>3. t = [Path!Fresh EXCEPT !.path = s.path, !.named = s.named, !.code = s.named, !.discarded = code]
  BY DEF Path!Again
<1> HIDE DEF t
<1>4. t \in Shape
  BY <1>1, <1>2, <1>3, FreshFits DEF Shape
<1>5. /\ t.path = s.path /\ t.named = s.named /\ t.excluded = {} /\ t.discarded = code
      /\ t.barred = {}
  BY <1>3 DEF Path!Fresh
<1>6. Fits(r) /\ r.discarded = code
  BY <1>1, <1>4, <1>5, EnteredFits DEF PathInv, Fits
<1> HIDE DEF r
<1>7. query' \in [Query -> Shape] /\ \A p \in Query : Fits(query'[p])
  BY <1>1, <1>6 DEF PathInv, Fits
<1>8. cache' # Nothing => cache' # code /\ UNCHANGED <<cache, putBy>>
  BY <1>1
<1>9. EvictionHolds'
  BY <1>1, <1>6, <1>8 DEF PathInv, EvictionHolds, Path!EvictionHolds
<1> QED BY <1>1, <1>7, <1>9 DEF PathInv

\* Every step of a query keeps the invariant.
LEMMA PathStep ==
  ASSUME PathInv, NEW q \in Query, Path!Step(q)
  PROVE  PathInv'
<1>1. query[q] \in Shape /\ Fits(query[q])
  BY DEF PathInv
<1>2. CASE Path!PickNone(q) \/ Path!NoData(q) \/ Path!GiveUp(q)
  <2>1. Path!Becomes(q, Path!Failed(query[q])) /\ UNCHANGED <<kind, cache, putBy>>
    BY <1>2 DEF Path!PickNone, Path!NoData, Path!GiveUp
  <2> QED BY <1>1, <2>1, FailedFits, PathBecomes
<1>3. CASE \/ Path!OutsideWindow(q) \/ Path!NoFallback(q) \/ Path!FallbacksFail(q)
           \/ Path!AcceptServed(q) \/ Path!RefuseServed(q)
  <2>1. /\ \E pc \in {"answered", "refused"} : Path!Becomes(q, Path!Ended(query[q], pc))
        /\ UNCHANGED <<kind, cache, putBy>>
    BY <1>3 DEF Path!OutsideWindow, Path!NoFallback, Path!FallbacksFail, Path!AcceptServed,
       Path!RefuseServed
  <2> QED BY <1>1, <2>1, EndedFits, PathBecomes
<1>4. CASE Path!Serve(q)
  <2> DEFINE s == query[q]
             r == [s EXCEPT !.pc = "served"]
  <2>1. Path!Becomes(q, r) /\ UNCHANGED <<kind, cache, putBy>>
    BY <1>4 DEF Path!Serve
  <2> HIDE DEF s
  <2>2. r \in Shape /\ r.pc = "served" /\ r.path = s.path /\ r.named = s.named
        /\ r.discarded = s.discarded
    BY <1>1 DEF s, Shape, Path!Pcs
  <2> HIDE DEF r
  <2>3. Fits(r)
    BY <1>1, <2>2 DEF s, Fits, Sound, Excludes
  <2> QED BY <2>1, <2>2, <2>3, PathBecomes DEF s
<1> QED BY <1>2, <1>3, <1>4, PathStarts, PathPicks, PathTriesAnother, PathRetries,
     PathFallsBack, PathDiscards DEF Path!Step

\* query.py:4622-4638, 6216-6327: for any number of queries, codes, attempts and
\* providers, no code that has given no data is fetched again between two entries of
\* _fetch_data, save one listed under another name, and a discarded choice is not in the cache by the query that discarded it.
THEOREM PathAlwaysSound == Path!Spec => [](Path!TypeOK /\ NoCodeTwice /\ EvictionHolds)
<1>1. Path!Init => PathInv
  <2> SUFFICES ASSUME Path!Init PROVE PathInv
    OBVIOUS
  <2>1. /\ kind \in [Candidate -> Path!Kinds] /\ cache = Nothing /\ putBy = Nothing
        /\ query = [q \in Query |-> Path!Fresh]
    BY DEF Path!Init
  <2>2. query \in [Query -> Shape] /\ \A q \in Query : Fits(query[q])
    BY <2>1, FreshFits
  <2> QED BY <2>1, <2>2 DEF PathInv, EvictionHolds, Path!EvictionHolds
<1>2. PathInv /\ [Path!Next]_(Path!vars) => PathInv'
  <2> SUFFICES ASSUME PathInv, [Path!Next]_(Path!vars) PROVE PathInv'
    OBVIOUS
  <2>1. CASE UNCHANGED Path!vars
    BY <2>1 DEF Path!vars, PathInv, EvictionHolds, Path!EvictionHolds
  <2>2. CASE Path!Next
    BY <2>2, PathStep DEF Path!Next
  <2> QED BY <2>1, <2>2
<1>3. PathInv => Path!TypeOK /\ NoCodeTwice /\ EvictionHolds
  <2> SUFFICES ASSUME PathInv PROVE Path!TypeOK /\ NoCodeTwice /\ EvictionHolds
    OBVIOUS
  <2>1. Path!TypeOK /\ EvictionHolds
    BY PathShape DEF PathInv, Path!TypeOK
  <2>2. ASSUME NEW q \in Query, query[q].pc = "fetching", query[q].path # "title",
               query[q].code \notin Renamed
        PROVE  /\ query[q].code \notin query[q].excluded
               /\ query[q].excluded = {} => query[q].code # query[q].discarded
    <3> DEFINE s == query[q]
    <3>1. Sound(s) /\ Excludes(s) /\ s.pc = "fetching" /\ s.path # "title" /\ s.code \notin Renamed
      BY <2>2 DEF PathInv, Fits
    <3> HIDE DEF s
    <3>2. s.code \in Candidate /\ s.code \notin s.barred /\ s.excluded \subseteq s.barred
          /\ (s.excluded = {} /\ s.discarded # Nothing => s.discarded \in s.barred)
      BY <3>1 DEF Sound, Excludes
    <3>3. s.code \notin s.excluded /\ (s.excluded = {} => s.code # s.discarded)
      BY <3>2, PathConstants
    <3> QED BY <3>3 DEF s
  <2> QED BY <2>1, <2>2 DEF NoCodeTwice, Path!NoCodeTwice
<1> QED BY <1>1, <1>2, <1>3, PTL DEF Path!Spec

\* query.py:4622-4638: what was discarded comes back only by another query's choice.
THEOREM EvictionAlwaysHolds == Path!Spec => []EvictionHolds
BY PathAlwaysSound, PTL
-----------------------------------------------------------------------------
(* ComtradeFetch                                                           *)

Call(f) ==
  [pc : {"idle", "running", "answered", "noRecords", "raised", "refused", "cancelled"},
   pass : Trade!Passes, rows : SUBSET Subs[f], lastError : BOOLEAN]

\* The requests that are out
Out == UNION {{f} \X Trade!Holding(f) : f \in Fetch}

TradeTypes ==
  /\ plan \in [Fetch -> Trade!Plan]
  /\ trade = [f \in Fetch |-> trade[f]] /\ subtask = [f \in Fetch |-> subtask[f]]
  /\ \A f \in Fetch : trade[f] \in Call(f) /\ subtask[f] \in [Subs[f] -> Trade!Places]
  /\ past \in [Fetch -> [cut : BOOLEAN, erred : BOOLEAN, kept : BOOLEAN, received : BOOLEAN]]

TradeGate ==
  /\ gate \in Nat /\ IsFiniteSet(Out)
  /\ gate = GateSize - Cardinality(Out)

TradeTurns ==
  \A f \in Fetch :
    /\ Cardinality(Trade!Guarded(f)) <= Local
    /\ ~Trade!Running(f) => Trade!Guarded(f) = {}

\* The error that a fetch remembers is one that it has kept of a pass; the failures and
\* the rows it has seen are in the pass that runs, kept, or were cut off
TradeReasons(f) ==
  /\ trade[f].lastError <=> past[f].kept
  /\ trade[f].pc = "idle" => ~past[f].received /\ ~past[f].erred
  /\ trade[f].pc = "running" /\ past[f].received =>
       past[f].cut \/ \E i \in Subs[f] : subtask[f][i] = "rows"
  /\ trade[f].pc = "running" /\ past[f].erred =>
       past[f].cut \/ past[f].kept \/ \E i \in Subs[f] : subtask[f][i] = "error"
  /\ trade[f].pc = "noRecords" =>
       ~past[f].kept /\ (past[f].erred \/ past[f].received => past[f].cut)
  /\ trade[f].pc = "raised" => past[f].kept

TradeInv ==
  /\ TradeTypes /\ TradeGate /\ TradeTurns
  /\ \A f \in Fetch : TradeReasons(f)

\* The instance counts sets as this module does.
LEMMA TradeSets ==
  /\ \A S : Trade!IsFiniteSet(S) <=> IsFiniteSet(S)
  /\ \A S : Trade!Cardinality(S) = Cardinality(S)
BY DEF IsFiniteSet, Trade!IsFiniteSet, Cardinality, Trade!Cardinality

\* What the proofs use of the constants.
LEMMA TradeConstants ==
  /\ \A f \in Fetch : IsFiniteSet(Subs[f])
  /\ Local \in Nat \ {0} /\ GateSize \in Nat \ {0}
BY ServicesAssumption, TradeSets DEF Trade!GateAssumption

\* The sub-tasks of one fetch are finitely many.
LEMMA TradeFinite ==
  ASSUME NEW f \in Fetch
  PROVE  /\ IsFiniteSet(Trade!Holding(f)) /\ Cardinality(Trade!Holding(f)) \in Nat
         /\ IsFiniteSet(Trade!Guarded(f)) /\ Cardinality(Trade!Guarded(f)) \in Nat
<1>1. IsFiniteSet(Subs[f])
  BY TradeConstants
<1>2. Trade!Holding(f) \in SUBSET Subs[f] /\ Trade!Guarded(f) \in SUBSET Subs[f]
  BY DEF Trade!Holding, Trade!Guarded
<1> QED BY <1>1, <1>2, FS_Subset, FS_CardinalityType

\* The requests that are out, one pair of a fetch and a sub-task for each.
LEMMA OutMembers ==
  \A x : x \in Out <=> \E f \in Fetch : \E i \in Trade!Holding(f) : x = <<f, i>>
BY DEF Out

\* One sub-task of a fetch goes on.
LEMMA TradeGoes ==
  ASSUME TradeTypes, NEW f \in Fetch, NEW i \in Subs[f], NEW place \in Trade!Places,
         Trade!Goes(f, i, place)
  PROVE  /\ subtask' = [g \in Fetch |-> subtask'[g]]
         /\ \A g \in Fetch : subtask'[g] \in [Subs[g] -> Trade!Places]
         /\ \A g \in Fetch \ {f} : subtask'[g] = subtask[g]
         /\ subtask'[f][i] = place
         /\ \A j \in Subs[f] \ {i} : subtask'[f][j] = subtask[f][j]
<1>1. subtask' = [subtask EXCEPT ![f] = [subtask[f] EXCEPT ![i] = place]]
  BY DEF Trade!Goes
<1> QED BY <1>1 DEF TradeTypes

\* All sub-tasks of a fetch are queued again: it holds nothing any more.
LEMMA TradeRequeues ==
  ASSUME TradeInv, NEW f \in Fetch, subtask' = [subtask EXCEPT ![f] = Trade!Queued(f)]
  PROVE  /\ subtask' = [g \in Fetch |-> subtask'[g]]
         /\ \A g \in Fetch : subtask'[g] \in [Subs[g] -> Trade!Places]
         /\ \A g \in Fetch \ {f} : subtask'[g] = subtask[g]
         /\ Trade!Guarded(f)' = {} /\ \A g \in Fetch \ {f} : Trade!Guarded(g)' = Trade!Guarded(g)
         /\ Out' = Out \ ({f} \X Trade!Holding(f))
         /\ IsFiniteSet(Out')
         /\ Cardinality(Out') = Cardinality(Out) - Cardinality(Trade!Holding(f))
<1>1. /\ subtask' = [g \in Fetch |-> subtask'[g]]
      /\ \A g \in Fetch \ {f} : subtask'[g] = subtask[g]
      /\ \A j \in Subs[f] : subtask'[f][j] = "queued"
      /\ subtask'[f] \in [Subs[f] -> Trade!Places]
  BY DEF TradeInv, TradeTypes, Trade!Queued, Trade!Places
<1>2. \A g \in Fetch : subtask'[g] \in [Subs[g] -> Trade!Places]
  BY <1>1 DEF TradeInv, TradeTypes
<1>3. Trade!Guarded(f)' = {} /\ \A g \in Fetch \ {f} : Trade!Guarded(g)' = Trade!Guarded(g)
  BY <1>1 DEF Trade!Guarded
<1>4. Trade!Holding(f)' = {} /\ \A g \in Fetch \ {f} : Trade!Holding(g)' = Trade!Holding(g)
  BY <1>1 DEF Trade!Holding
<1>5. \A x : x \in Out' <=> \E g \in Fetch : \E i \in Trade!Holding(g)' : x = <<g, i>>
  BY DEF Out
<1> DEFINE H == Trade!Holding(f)
           B == {f} \X H
<1>6. Out' = Out \ B
  BY <1>4, <1>5, OutMembers
<1>7. B \subseteq Out
  BY OutMembers
<1>8. IsFiniteSet(H) /\ Cardinality(H) \in Nat
  BY TradeFinite
<1>9. IsFiniteSet(B) /\ Cardinality(B) = Cardinality(H)
  <2>1. IsFiniteSet({f}) /\ Cardinality({f}) = 1
    BY FS_Singleton
  <2> HIDE DEF H
  <2>2. IsFiniteSet(B) /\ Cardinality(B) = Cardinality({f}) * Cardinality(H)
    BY <1>8, <2>1, FS_Product
  <2> QED BY <1>8, <2>1, <2>2
<1> HIDE DEF H, B
<1>10. IsFiniteSet(Out) /\ IsFiniteSet(Out')
  BY <1>6, FS_Subset DEF TradeInv, TradeGate
<1>11. Cardinality(Out) = Cardinality(Out') + Cardinality(B) - Cardinality(Out' \cap B)
       /\ Out' \cap B = {}
  <2>1. Out = Out' \union B /\ Out' \cap B = {}
    BY <1>6, <1>7
  <2> QED BY <1>9, <1>10, <2>1, FS_Union
<1>12. Cardinality(Out') = Cardinality(Out) - Cardinality(H)
  <2>1. Cardinality({}) = 0 /\ Cardinality(Out') \in Nat /\ Cardinality(Out) \in Nat
    BY <1>10, FS_EmptySet, FS_CardinalityType
  <2>2. Cardinality(Out' \cap B) = 0
    BY <1>11, <2>1
  <2> QED BY <1>8, <1>9, <1>11, <2>1, <2>2
<1> QED BY <1>1, <1>2, <1>3, <1>6, <1>10, <1>12 DEF H, B

\* The turns of the other fetches are as they were.
LEMMA TradeTurnsHold ==
  ASSUME TradeInv, NEW f \in Fetch, NEW G, Trade!Guarded(f)' = G, Cardinality(G) <= Local,
         trade'[f].pc = "running" \/ G = {},
         \A g \in Fetch \ {f} : trade'[g] = trade[g] /\ Trade!Guarded(g)' = Trade!Guarded(g)
  PROVE  TradeTurns'
<1> SUFFICES ASSUME NEW g \in Fetch
             PROVE  /\ Cardinality(Trade!Guarded(g)') <= Local
                    /\ trade'[g].pc = "running" \/ Trade!Guarded(g)' = {}
  BY DEF TradeTurns, Trade!Running
<1>1. CASE g = f
  BY <1>1
<1>2. CASE g # f
  <2>1. trade'[g] = trade[g] /\ Trade!Guarded(g)' = Trade!Guarded(g)
    BY <1>2
  <2> QED BY <2>1 DEF TradeInv, TradeTurns, Trade!Running
<1> QED BY <1>1, <1>2

\* A fetch begins or is refused, and nothing of it is on its way yet.
LEMMA TradeBegins ==
  ASSUME TradeInv, NEW f \in Fetch, Trade!Begin(f)
  PROVE  TradeInv'
<1>1. PICK pc \in {"running", "refused"} : trade' = [trade EXCEPT ![f].pc = pc]
  BY DEF Trade!Begin
<1>2. UNCHANGED <<gate, plan, subtask, past>> /\ trade[f].pc = "idle"
  BY DEF Trade!Begin
<1>3. TradeTypes'
  BY <1>1, <1>2 DEF TradeInv, TradeTypes, Call
<1>4. /\ Out' = Out
      /\ \A g \in Fetch : Trade!Guarded(g)' = Trade!Guarded(g)
  BY <1>2 DEF Out, Trade!Holding, Trade!Guarded
<1>5. /\ \A g \in Fetch \ {f} : trade'[g] = trade[g]
      /\ trade'[f].pc = pc /\ trade'[f].lastError = trade[f].lastError
  BY <1>1 DEF TradeInv, TradeTypes, Call
<1>6. TradeGate' /\ TradeTurns'
  BY <1>2, <1>4, <1>5 DEF TradeInv, TradeGate, TradeTurns, Trade!Running
<1>7. \A g \in Fetch : TradeReasons(g)'
  BY <1>2, <1>5 DEF TradeInv, TradeReasons
<1> QED BY <1>3, <1>6, <1>7 DEF TradeInv

\* The fetch's own semaphore admits one more, and it is not through the gate yet.
LEMMA TradeTakesTurn ==
  ASSUME TradeInv, NEW f \in Fetch, NEW i \in Subs[f], Trade!TakesTurn(f, i)
  PROVE  TradeInv'
<1>1. /\ UNCHANGED <<gate, plan, trade, past>> /\ subtask[f][i] = "queued"
      /\ Trade!Running(f) /\ Cardinality(Trade!Guarded(f)) < Local
      /\ Trade!Goes(f, i, "atGate")
  BY TradeSets DEF Trade!TakesTurn
<1>2. "atGate" \in Trade!Places
  BY DEF Trade!Places
<1>3. /\ subtask' = [g \in Fetch |-> subtask'[g]]
      /\ \A g \in Fetch : subtask'[g] \in [Subs[g] -> Trade!Places]
      /\ \A g \in Fetch \ {f} : subtask'[g] = subtask[g]
      /\ subtask'[f][i] = "atGate"
      /\ \A j \in Subs[f] \ {i} : subtask'[f][j] = subtask[f][j]
  BY <1>1, <1>2, TradeGoes DEF TradeInv
<1>4. TradeTypes'
  BY <1>1, <1>3 DEF TradeInv, TradeTypes
<1>5. \A g \in Fetch : Trade!Holding(g)' = Trade!Holding(g)
  BY <1>1, <1>3 DEF Trade!Holding
<1>6. Trade!Guarded(f)' = Trade!Guarded(f) \union {i}
      /\ \A g \in Fetch \ {f} : Trade!Guarded(g)' = Trade!Guarded(g)
  BY <1>1, <1>3 DEF Trade!Guarded
<1>7. TradeGate'
  <2>1. Out' = Out
    BY <1>5 DEF Out
  <2> QED BY <1>1, <2>1 DEF TradeInv, TradeGate
<1>8. TradeTurns'
  <2> DEFINE G == Trade!Guarded(f)
             H == G \union {i}
  <2>1. IsFiniteSet(G) /\ Cardinality(G) \in Nat /\ Cardinality(G) < Local
    BY <1>1, TradeFinite
  <2>2. Trade!Guarded(f)' = H
    BY <1>6
  <2>3. trade'[f].pc = "running"
    BY <1>1 DEF Trade!Running
  <2> HIDE DEF G
  <2>4. Cardinality(H) <= Local
    <3>1. Cardinality(H) = IF i \in G THEN Cardinality(G) ELSE Cardinality(G) + 1
      BY <2>1, FS_AddElement
    <3>2. Local \in Nat
      BY TradeConstants
    <3> QED BY <2>1, <3>1, <3>2
  <2> HIDE DEF H
  <2> QED BY <1>1, <1>6, <2>2, <2>3, <2>4, TradeTurnsHold
<1>9. \A g \in Fetch : TradeReasons(g)'
  BY <1>1, <1>3 DEF TradeInv, TradeReasons
<1> QED BY <1>4, <1>7, <1>8, <1>9 DEF TradeInv

\* A sub-task takes one of the places that are free.
LEMMA TradePassesGate ==
  ASSUME TradeInv, NEW f \in Fetch, NEW i \in Subs[f], Trade!PassesGate(f, i)
  PROVE  TradeInv'
<1>1. /\ UNCHANGED <<plan, trade, past>> /\ subtask[f][i] = "atGate"
      /\ gate > 0 /\ gate' = gate - 1
      /\ Trade!Running(f) /\ Trade!Goes(f, i, "asking")
  BY DEF Trade!PassesGate
<1>2. "asking" \in Trade!Places
  BY DEF Trade!Places
<1>3. /\ subtask' = [g \in Fetch |-> subtask'[g]]
      /\ \A g \in Fetch : subtask'[g] \in [Subs[g] -> Trade!Places]
      /\ \A g \in Fetch \ {f} : subtask'[g] = subtask[g]
      /\ subtask'[f][i] = "asking"
      /\ \A j \in Subs[f] \ {i} : subtask'[f][j] = subtask[f][j]
  BY <1>1, <1>2, TradeGoes DEF TradeInv
<1>4. TradeTypes'
  BY <1>1, <1>3 DEF TradeInv, TradeTypes
<1>5. Trade!Holding(f)' = Trade!Holding(f) \union {i} /\ i \notin Trade!Holding(f)
      /\ \A g \in Fetch \ {f} : Trade!Holding(g)' = Trade!Holding(g)
  BY <1>1, <1>3 DEF Trade!Holding
<1>6. \A g \in Fetch : Trade!Guarded(g)' = Trade!Guarded(g)
  BY <1>1, <1>3 DEF Trade!Guarded
<1>7. TradeGate'
  <2>1. \A x : x \in Out' <=> \E g \in Fetch : \E j \in Trade!Holding(g)' : x = <<g, j>>
    BY DEF Out
  <2>2. Out' = Out \union {<<f, i>>} /\ <<f, i>> \notin Out
    BY <1>5, <2>1, OutMembers
  <2>3. IsFiniteSet(Out') /\ Cardinality(Out') = Cardinality(Out) + 1
    BY <2>2, FS_AddElement DEF TradeInv, TradeGate
  <2>4. Cardinality(Out) \in Nat
    BY FS_CardinalityType DEF TradeInv, TradeGate
  <2> QED BY <1>1, <2>3, <2>4, TradeConstants DEF TradeInv, TradeGate
<1>8. TradeTurns'
  BY <1>1, <1>6 DEF TradeInv, TradeTurns, Trade!Running
<1>9. \A g \in Fetch : TradeReasons(g)'
  BY <1>1, <1>3 DEF TradeInv, TradeReasons
<1> QED BY <1>4, <1>7, <1>8, <1>9 DEF TradeInv

\* A request gives the gate back with its answer.
LEMMA TradeReturns ==
  ASSUME TradeInv, NEW f \in Fetch, NEW i \in Subs[f], Trade!Returns(f, i)
  PROVE  TradeInv'
<1>1. PICK outcome \in Trade!Outcomes :
        /\ Trade!Goes(f, i, outcome)
        /\ past' = [past EXCEPT ![f].erred = @ \/ outcome = "error",
                                ![f].received = @ \/ outcome = "rows"]
  BY DEF Trade!Returns
<1>2. UNCHANGED <<plan, trade>> /\ subtask[f][i] = "asking" /\ gate' = gate + 1 /\ Trade!Running(f)
  BY DEF Trade!Returns
<1>3. outcome \in Trade!Places /\ outcome \notin {"queued", "atGate", "asking"}
  BY DEF Trade!Places, Trade!Outcomes
<1>4. /\ subtask' = [g \in Fetch |-> subtask'[g]]
      /\ \A g \in Fetch : subtask'[g] \in [Subs[g] -> Trade!Places]
      /\ \A g \in Fetch \ {f} : subtask'[g] = subtask[g]
      /\ subtask'[f][i] = outcome
      /\ \A j \in Subs[f] \ {i} : subtask'[f][j] = subtask[f][j]
  BY <1>1, <1>3, TradeGoes DEF TradeInv
<1>5. /\ past' \in [Fetch -> [cut : BOOLEAN, erred : BOOLEAN, kept : BOOLEAN, received : BOOLEAN]]
      /\ \A g \in Fetch \ {f} : past'[g] = past[g]
      /\ past'[f].cut = past[f].cut /\ past'[f].kept = past[f].kept
      /\ past'[f].erred <=> past[f].erred \/ outcome = "error"
      /\ past'[f].received <=> past[f].received \/ outcome = "rows"
  <2> DEFINE erred == past[f].erred \/ outcome = "error"
             received == past[f].received \/ outcome = "rows"
  <2>1. past' = [past EXCEPT ![f] = [past[f] EXCEPT !.erred = erred, !.received = received]]
    BY <1>1 DEF TradeInv, TradeTypes
  <2>2. erred \in BOOLEAN /\ received \in BOOLEAN
    OBVIOUS
  <2>3. past \in [Fetch -> [cut : BOOLEAN, erred : BOOLEAN, kept : BOOLEAN, received : BOOLEAN]]
    BY DEF TradeInv, TradeTypes
  <2> HIDE DEF erred, received
  <2>4. /\ past' \in [Fetch -> [cut : BOOLEAN, erred : BOOLEAN, kept : BOOLEAN, received : BOOLEAN]]
        /\ \A g \in Fetch \ {f} : past'[g] = past[g]
        /\ past'[f].cut = past[f].cut /\ past'[f].kept = past[f].kept
        /\ past'[f].erred = erred /\ past'[f].received = received
    BY <2>1, <2>2, <2>3
  <2> QED BY <2>4 DEF erred, received
<1>6. TradeTypes'
  BY <1>2, <1>4, <1>5 DEF TradeInv, TradeTypes
<1>7. Trade!Holding(f)' = Trade!Holding(f) \ {i} /\ i \in Trade!Holding(f)
      /\ \A g \in Fetch \ {f} : Trade!Holding(g)' = Trade!Holding(g)
  BY <1>2, <1>3, <1>4 DEF Trade!Holding
<1>8. Trade!Guarded(f)' = Trade!Guarded(f) \ {i}
      /\ \A g \in Fetch \ {f} : Trade!Guarded(g)' = Trade!Guarded(g)
  BY <1>2, <1>3, <1>4 DEF Trade!Guarded
<1>9. TradeGate'
  <2>1. \A x : x \in Out' <=> \E g \in Fetch : \E j \in Trade!Holding(g)' : x = <<g, j>>
    BY DEF Out
  <2>2. Out' = Out \ {<<f, i>>} /\ <<f, i>> \in Out
    BY <1>7, <2>1, OutMembers
  <2>3. IsFiniteSet(Out') /\ Cardinality(Out') = Cardinality(Out) - 1
    BY <2>2, FS_RemoveElement DEF TradeInv, TradeGate
  <2>4. Cardinality(Out) \in Nat
    BY FS_CardinalityType DEF TradeInv, TradeGate
  <2> QED BY <1>2, <2>3, <2>4, TradeConstants DEF TradeInv, TradeGate
<1>10. TradeTurns'
  <2> DEFINE G == Trade!Guarded(f)
             H == G \ {i}
  <2>1. IsFiniteSet(G) /\ Cardinality(G) \in Nat /\ Cardinality(G) <= Local
    BY TradeFinite DEF TradeInv, TradeTurns
  <2>2. Trade!Guarded(f)' = H
    BY <1>8
  <2>3. trade'[f].pc = "running"
    BY <1>2 DEF Trade!Running
  <2> HIDE DEF G
  <2>4. Cardinality(H) <= Local
    <3>1. Cardinality(H) = IF i \in G THEN Cardinality(G) - 1 ELSE Cardinality(G)
      BY <2>1, FS_RemoveElement
    <3>2. Local \in Nat
      BY TradeConstants
    <3> QED BY <2>1, <3>1, <3>2
  <2> HIDE DEF H
  <2> QED BY <1>2, <1>8, <2>2, <2>3, <2>4, TradeTurnsHold
<1>11. TradeReasons(f)'
  BY <1>2, <1>4, <1>5 DEF TradeInv, TradeReasons, Trade!Running
<1>12. \A g \in Fetch \ {f} : TradeReasons(g)'
  BY <1>2, <1>4, <1>5 DEF TradeInv, TradeReasons
<1> QED BY <1>6, <1>9, <1>10, <1>11, <1>12 DEF TradeInv

\* What a fetch does when a pass is over: another pass, or an end that is told by
\* what it has seen.
LEMMA TradeContinues ==
  ASSUME TradeTypes, NEW f \in Fetch, Trade!Running(f),
         NEW rows \in SUBSET Subs[f], NEW erred \in BOOLEAN, Trade!Continue(f, rows, erred)
  PROVE  \E s \in Call(f) :
           /\ trade' = [trade EXCEPT ![f] = s]
           /\ s.lastError <=> trade[f].lastError \/ erred
           /\ \/ s.pc = "running" /\ rows = {}
              \/ s.pc = "answered"
              \/ s.pc = "raised" /\ s.lastError
              \/ s.pc = "noRecords" /\ rows = {} /\ ~s.lastError
<1> DEFINE lastError == trade[f].lastError \/ erred
           state == [trade[f] EXCEPT !.rows = rows, !.lastError = lastError]
<1>1. trade[f] \in Call(f) /\ trade[f].pc = "running"
  BY DEF TradeTypes, Trade!Running
<1>2. state \in Call(f) /\ state.pc = "running" /\ (state.lastError <=> lastError)
  BY <1>1 DEF Call
<1>3. CASE rows = {} /\ Trade!Following(f) # {}
  <2>1. PICK next \in Trade!Following(f) : trade' = [trade EXCEPT ![f] = [state EXCEPT !.pass = next]]
    BY <1>3 DEF Trade!Continue
  <2>2. next \in Trade!Passes
    BY DEF Trade!Following
  <2> HIDE DEF state
  <2> DEFINE s == [state EXCEPT !.pass = next]
  <2>3. s \in Call(f) /\ s.pc = "running" /\ (s.lastError <=> lastError)
    BY <1>2, <2>2 DEF Call
  <2> QED BY <1>3, <2>1, <2>3
<1>4. CASE ~(rows = {} /\ Trade!Following(f) # {})
  <2> DEFINE ending == Trade!Told(rows, lastError)
             s == [state EXCEPT !.pc = ending]
  <2>1. trade' = [trade EXCEPT ![f] = s]
    BY <1>4 DEF Trade!Continue
  <2>2. \/ ending = "answered"
        \/ ending = "raised" /\ lastError
        \/ ending = "noRecords" /\ rows = {} /\ ~lastError
    BY DEF Trade!Told
  <2> HIDE DEF state, ending
  <2>3. s \in Call(f) /\ s.pc = ending /\ (s.lastError <=> lastError)
    BY <1>2, <2>2 DEF Call
  <2> QED BY <2>1, <2>2, <2>3
<1> QED BY <1>3, <1>4

\* All sub-tasks of a pass are done: none holds a place.
LEMMA TradePassEnds ==
  ASSUME TradeInv, NEW f \in Fetch, Trade!PassEnds(f)
  PROVE  TradeInv'
<1> DEFINE erred == \E i \in Subs[f] : subtask[f][i] = "error"
           rows == {i \in Subs[f] : subtask[f][i] = "rows"}
<1>1. /\ Trade!Running(f) /\ Trade!Finished(f) /\ Trade!Continue(f, rows, erred)
      /\ past' = [past EXCEPT ![f].kept = @ \/ erred]
      /\ UNCHANGED <<gate, plan>>
      /\ subtask' = [subtask EXCEPT ![f] = Trade!Queued(f)]
  BY DEF Trade!PassEnds, Trade!Continue
<1>2. PICK s \in Call(f) :
        /\ trade' = [trade EXCEPT ![f] = s]
        /\ s.lastError <=> trade[f].lastError \/ erred
        /\ \/ s.pc = "running" /\ rows = {}
           \/ s.pc = "answered"
           \/ s.pc = "raised" /\ s.lastError
           \/ s.pc = "noRecords" /\ rows = {} /\ ~s.lastError
  <2>1. rows \in SUBSET Subs[f] /\ erred \in BOOLEAN
    OBVIOUS
  <2> HIDE DEF rows, erred
  <2> QED BY <1>1, <2>1, TradeContinues DEF TradeInv
<1>3. /\ rows = {} => \A i \in Subs[f] : subtask[f][i] # "rows"
      /\ (\E i \in Subs[f] : subtask[f][i] = "error") => erred
  OBVIOUS
<1> HIDE DEF rows
<1>4. erred \in BOOLEAN
  OBVIOUS
<1> HIDE DEF erred
<1>5. Trade!Holding(f) = {}
  BY <1>1 DEF Trade!Finished, Trade!Holding, Trade!Outcomes
<1>6. past' \in [Fetch -> [cut : BOOLEAN, erred : BOOLEAN, kept : BOOLEAN, received : BOOLEAN]]
      /\ \A g \in Fetch \ {f} : past'[g] = past[g]
      /\ past'[f].cut = past[f].cut /\ past'[f].received = past[f].received
      /\ past'[f].erred = past[f].erred
      /\ (past'[f].kept <=> past[f].kept \/ erred)
  BY <1>1, <1>4 DEF TradeInv, TradeTypes
<1>7. /\ trade' = [g \in Fetch |-> trade'[g]]
      /\ \A g \in Fetch \ {f} : trade'[g] = trade[g]
      /\ trade'[f] = s
  BY <1>2 DEF TradeInv, TradeTypes
<1>8. TradeTypes'
  BY <1>1, <1>2, <1>6, <1>7, TradeRequeues DEF TradeInv, TradeTypes
<1>9. TradeGate'
  <2>1. Cardinality(Trade!Holding(f)) = 0
    BY <1>5, FS_EmptySet
  <2>2. IsFiniteSet(Out') /\ Cardinality(Out') = Cardinality(Out) - 0
    BY <1>1, <2>1, TradeRequeues
  <2>3. Cardinality(Out) \in Nat
    BY FS_CardinalityType DEF TradeInv, TradeGate
  <2> QED BY <1>1, <2>2, <2>3 DEF TradeInv, TradeGate
<1>10. TradeTurns'
  <2>1. Cardinality({}) <= Local
    BY FS_EmptySet, TradeConstants
  <2>2. Trade!Guarded(f)' = {} /\ \A g \in Fetch \ {f} : Trade!Guarded(g)' = Trade!Guarded(g)
    BY <1>1, TradeRequeues
  <2> QED BY <1>7, <2>1, <2>2, TradeTurnsHold
<1>11. \A g \in Fetch \ {f} : TradeReasons(g)'
  BY <1>1, <1>6, <1>7, TradeRequeues DEF TradeInv, TradeReasons
<1>12. TradeReasons(f)'
  BY <1>1, <1>2, <1>3, <1>6, <1>7 DEF TradeInv, TradeReasons, Trade!Running
<1> QED BY <1>8, <1>9, <1>10, <1>11, <1>12 DEF TradeInv

\* A pass that is cut off gives back what its requests hold.
LEMMA TradeGivesBack ==
  ASSUME TradeInv, NEW f \in Fetch, subtask' = [subtask EXCEPT ![f] = Trade!Queued(f)],
         gate' = gate + Trade!Cardinality(Trade!Holding(f))
  PROVE  TradeGate'
<1>1. IsFiniteSet(Out') /\ Cardinality(Out') = Cardinality(Out) - Cardinality(Trade!Holding(f))
  BY TradeRequeues
<1>2. Cardinality(Out) \in Nat
  BY FS_CardinalityType DEF TradeInv, TradeGate
<1> QED BY <1>1, <1>2, TradeFinite, TradeSets, TradeConstants DEF TradeInv, TradeGate

\* A pass is cut off: the places its sub-tasks hold are given back together.
LEMMA TradeBudgetEnds ==
  ASSUME TradeInv, NEW f \in Fetch, Trade!BudgetEnds(f)
  PROVE  TradeInv'
<1>1. /\ Trade!Running(f) /\ Trade!Continue(f, {}, FALSE)
      /\ past' = [past EXCEPT ![f].cut = TRUE]
      /\ plan' = plan /\ gate' = gate + Trade!Cardinality(Trade!Holding(f))
      /\ subtask' = [subtask EXCEPT ![f] = Trade!Queued(f)]
  BY DEF Trade!BudgetEnds, Trade!Continue
<1>2. PICK s \in Call(f) :
        /\ trade' = [trade EXCEPT ![f] = s]
        /\ s.lastError <=> trade[f].lastError \/ FALSE
        /\ \/ s.pc = "running"
           \/ s.pc = "answered"
           \/ s.pc = "raised" /\ s.lastError
           \/ s.pc = "noRecords" /\ ~s.lastError
  <2>1. {} \in SUBSET Subs[f] /\ FALSE \in BOOLEAN
    OBVIOUS
  <2> QED BY <1>1, <2>1, TradeContinues DEF TradeInv
<1>3. past' \in [Fetch -> [cut : BOOLEAN, erred : BOOLEAN, kept : BOOLEAN, received : BOOLEAN]]
      /\ \A g \in Fetch \ {f} : past'[g] = past[g]
      /\ past'[f].cut /\ past'[f].received = past[f].received
      /\ past'[f].erred = past[f].erred /\ past'[f].kept = past[f].kept
  BY <1>1 DEF TradeInv, TradeTypes
<1>4. /\ trade' = [g \in Fetch |-> trade'[g]]
      /\ \A g \in Fetch \ {f} : trade'[g] = trade[g]
      /\ trade'[f] = s
  BY <1>2 DEF TradeInv, TradeTypes
<1>5. TradeTypes'
  BY <1>1, <1>2, <1>3, <1>4, TradeRequeues DEF TradeInv, TradeTypes
<1>6. TradeGate'
  BY <1>1, TradeGivesBack
<1>7. TradeTurns'
  <2>1. Cardinality({}) <= Local
    BY FS_EmptySet, TradeConstants
  <2>2. Trade!Guarded(f)' = {} /\ \A g \in Fetch \ {f} : Trade!Guarded(g)' = Trade!Guarded(g)
    BY <1>1, TradeRequeues
  <2> QED BY <1>4, <2>1, <2>2, TradeTurnsHold
<1>8. \A g \in Fetch \ {f} : TradeReasons(g)'
  BY <1>1, <1>3, <1>4, TradeRequeues DEF TradeInv, TradeReasons
<1>9. TradeReasons(f)'
  BY <1>1, <1>2, <1>3, <1>4 DEF TradeInv, TradeReasons, Trade!Running
<1> QED BY <1>5, <1>6, <1>7, <1>8, <1>9 DEF TradeInv

\* So they are when the turn is cancelled.
LEMMA TradeCancelled ==
  ASSUME TradeInv, NEW f \in Fetch, Trade!Cancelled(f)
  PROVE  TradeInv'
<1>1. /\ trade' = [trade EXCEPT ![f].pc = "cancelled"]
      /\ UNCHANGED <<plan, past>> /\ gate' = gate + Trade!Cardinality(Trade!Holding(f))
      /\ subtask' = [subtask EXCEPT ![f] = Trade!Queued(f)]
  BY DEF Trade!Cancelled
<1>2. /\ trade' = [g \in Fetch |-> trade'[g]]
      /\ \A g \in Fetch \ {f} : trade'[g] = trade[g]
      /\ trade'[f].pc = "cancelled" /\ trade'[f].lastError = trade[f].lastError
      /\ trade'[f] \in Call(f)
  BY <1>1 DEF TradeInv, TradeTypes, Call
<1>3. TradeTypes'
  BY <1>1, <1>2, TradeRequeues DEF TradeInv, TradeTypes
<1>4. TradeGate'
  BY <1>1, TradeGivesBack
<1>5. TradeTurns'
  <2>1. Cardinality({}) <= Local
    BY FS_EmptySet, TradeConstants
  <2>2. Trade!Guarded(f)' = {} /\ \A g \in Fetch \ {f} : Trade!Guarded(g)' = Trade!Guarded(g)
    BY <1>1, TradeRequeues
  <2> QED BY <1>2, <2>1, <2>2, TradeTurnsHold
<1>6. \A g \in Fetch \ {f} : TradeReasons(g)'
  BY <1>1, <1>2, TradeRequeues DEF TradeInv, TradeReasons
<1>7. TradeReasons(f)'
  BY <1>1, <1>2 DEF TradeInv, TradeReasons
<1> QED BY <1>3, <1>4, <1>5, <1>6, <1>7 DEF TradeInv

\* comtrade.py:121-150, 1329-1462: for any number of fetches, sub-tasks and places at
\* the gate, the gate is as wide as it was less the requests that are out, and an
\* absence of records is told for a reason.
THEOREM TradeAlwaysAccounted == Trade!Spec => [](Trade!TypeOK /\ GateAccounted /\ AbsenceHasReason)
<1>1. Trade!Init => TradeInv
  <2> SUFFICES ASSUME Trade!Init PROVE TradeInv
    OBVIOUS
  <2>1. \A f \in Fetch :
          /\ trade[f] = [pc |-> "idle", pass |-> "asked", rows |-> {}, lastError |-> FALSE]
          /\ subtask[f] = Trade!Queued(f)
          /\ past[f] = [cut |-> FALSE, erred |-> FALSE, kept |-> FALSE, received |-> FALSE]
    BY DEF Trade!Init
  <2>2. \A f \in Fetch : Trade!Holding(f) = {} /\ Trade!Guarded(f) = {}
    BY <2>1 DEF Trade!Holding, Trade!Guarded, Trade!Queued
  <2>3. Out = {}
    BY <2>2, OutMembers
  <2>4. \A f \in Fetch : trade[f] \in Call(f)
    <3> SUFFICES ASSUME NEW f \in Fetch PROVE trade[f] \in Call(f)
      OBVIOUS
    <3>1. "asked" \in Trade!Passes /\ {} \in SUBSET Subs[f]
      BY DEF Trade!Passes
    <3>2. trade[f] = [pc |-> "idle", pass |-> "asked", rows |-> {}, lastError |-> FALSE]
      BY <2>1
    <3> QED BY <3>1, <3>2 DEF Call
  <2>5. \A f \in Fetch : subtask[f] \in [Subs[f] -> Trade!Places]
    BY <2>1 DEF Trade!Queued, Trade!Places
  <2>6. past \in [Fetch -> [cut : BOOLEAN, erred : BOOLEAN, kept : BOOLEAN, received : BOOLEAN]]
    BY DEF Trade!Init
  <2>7. TradeTypes
    BY <2>4, <2>5, <2>6 DEF Trade!Init, TradeTypes
  <2>8. TradeGate /\ TradeTurns
    <3>1. IsFiniteSet({}) /\ Cardinality({}) = 0 /\ gate = GateSize
      BY FS_EmptySet DEF Trade!Init
    <3>2. TradeGate
      BY <2>3, <3>1, TradeConstants DEF TradeGate
    <3>3. \A f \in Fetch : Cardinality(Trade!Guarded(f)) = 0
      BY <2>2, <3>1
    <3> QED BY <2>2, <3>2, <3>3, TradeConstants DEF TradeTurns
  <2>9. \A f \in Fetch : TradeReasons(f)
    BY <2>1 DEF TradeReasons
  <2> QED BY <2>7, <2>8, <2>9 DEF TradeInv
<1>2. TradeInv /\ [Trade!Next]_(Trade!vars) => TradeInv'
  <2> SUFFICES ASSUME TradeInv, [Trade!Next]_(Trade!vars) PROVE TradeInv'
    OBVIOUS
  <2>1. CASE UNCHANGED Trade!vars
    BY <2>1 DEF Trade!vars, TradeInv, TradeTypes, TradeGate, TradeTurns, TradeReasons, Out,
       Trade!Holding, Trade!Guarded, Trade!Running
  <2>2. ASSUME NEW f \in Fetch, Trade!Begin(f) \/ Trade!Proceeds(f) \/ Trade!Cancelled(f)
        PROVE  TradeInv'
    BY <2>2, TradeBegins, TradePassEnds, TradeBudgetEnds, TradeCancelled DEF Trade!Proceeds
  <2>3. ASSUME NEW f \in Fetch, NEW i \in Subs[f],
               Trade!TakesTurn(f, i) \/ Trade!PassesGate(f, i) \/ Trade!Returns(f, i)
        PROVE  TradeInv'
    BY <2>3, TradeTakesTurn, TradePassesGate, TradeReturns
  <2> QED BY <2>1, <2>2, <2>3 DEF Trade!Next
<1>3. TradeInv => Trade!TypeOK /\ GateAccounted /\ AbsenceHasReason
  <2> SUFFICES ASSUME TradeInv PROVE Trade!TypeOK /\ GateAccounted /\ AbsenceHasReason
    OBVIOUS
  <2>1. Cardinality(Out) \in Nat
    BY FS_CardinalityType DEF TradeInv, TradeGate
  <2>2. gate \in 0..GateSize
    BY <2>1, TradeConstants DEF TradeInv, TradeGate
  <2>3. Trade!TypeOK
    BY <2>2 DEF TradeInv, TradeTypes, Trade!TypeOK, Call
  <2>4. GateAccounted
    BY TradeSets DEF TradeInv, TradeGate, TradeTurns, GateAccounted, Trade!GateAccounted, Out
  <2>5. AbsenceHasReason
    BY DEF TradeInv, TradeReasons, AbsenceHasReason, Trade!AbsenceHasReason
  <2> QED BY <2>3, <2>4, <2>5
<1> QED BY <1>1, <1>2, <1>3, PTL DEF Trade!Spec

\* comtrade.py:1329-1462: that there are no records is said for a reason.
THEOREM AbsenceAlwaysHasReason == Trade!Spec => []AbsenceHasReason
BY TradeAlwaysAccounted, PTL
-----------------------------------------------------------------------------
(* MultiFetch                                                              *)

\* What holds of 0, and of n whenever it holds of n - 1, holds up to N.
LEMMA UpToN ==
  ASSUME NEW good, 0 \in good, \A n \in 1..N : n - 1 \in good => n \in good
  PROVE  \A n \in 0..N : n \in good
<1> DEFINE bad == {n \in 0..N : n \notin good}
<1>1. SUFFICES ASSUME bad # {} PROVE FALSE
  OBVIOUS
<1>2. PICK m \in bad : \A n \in bad : m <= n
  <2>1. bad \subseteq Nat
    BY ServicesAssumption DEF Multi!FetchAssumption
  <2> HIDE DEF bad
  <2> QED BY <1>1, <2>1, LeastOfNat
<1>3. N \in Nat /\ m \in 0..N /\ m # 0
  BY <1>2, ServicesAssumption DEF Multi!FetchAssumption
<1>4. m - 1 \in 0..N /\ m - 1 \notin bad
  BY <1>2, <1>3
<1> QED BY <1>2, <1>3, <1>4

\* One turn of the loop over the tasks
Grown(f, done, n) ==
  IF n = 0 THEN <<>> ELSE IF n \in done THEN Append(f[n - 1], n) ELSE f[n - 1]

Loop(f, done, n) == f = [m \in 0..n |-> Grown(f, done, m)]

\* The loop over the tasks comes to an end.
LEMMA LoopEnds ==
  ASSUME NEW done
  PROVE  \E f : Loop(f, done, N)
<1> DEFINE good == {n \in 0..N : \E f : Loop(f, done, n)}
<1>1. N \in Nat
  BY ServicesAssumption DEF Multi!FetchAssumption
<1>2. 0 \in good
  <2>1. Loop([m \in 0..0 |-> <<>>], done, 0)
    BY DEF Loop, Grown
  <2> QED BY <1>1, <2>1
<1>3. ASSUME NEW n \in 1..N, n - 1 \in good PROVE n \in good
  <2>1. PICK f : Loop(f, done, n - 1)
    BY <1>3
  <2> DEFINE g == [m \in 0..n |-> IF m = n THEN Grown(f, done, n) ELSE f[m]]
  <2>2. \A m \in 0..(n - 1) : f[m] = Grown(f, done, m)
    BY <2>1 DEF Loop
  <2>3. \A m \in 0..n : m # 0 => g[m - 1] = f[m - 1]
    BY <1>1
  <2>4. \A m \in 0..n : Grown(g, done, m) = Grown(f, done, m)
    BY <2>3 DEF Grown
  <2>5. \A m \in 0..n : g[m] = Grown(g, done, m)
    BY <1>1, <2>2, <2>4
  <2>6. Loop(g, done, n)
    BY <2>5 DEF Loop
  <2> QED BY <1>1, <2>6
<1> HIDE DEF good
<1>4. N \in good
  BY <1>1, <1>2, <1>3, UpToN
<1> QED BY <1>4 DEF good

\* What the loop over the tasks has lined up is the end of such a function.
LEMMA InOrderLoops ==
  ASSUME NEW done
  PROVE  \E f : Loop(f, done, N) /\ Multi!InOrder(done) = f[N]
<1> DEFINE F == CHOOSE f : f = [n \in 0..N |->
                  IF n = 0 THEN <<>> ELSE IF n \in done THEN Append(f[n - 1], n) ELSE f[n - 1]]
<1>1. \E f : f = [n \in 0..N |->
                  IF n = 0 THEN <<>> ELSE IF n \in done THEN Append(f[n - 1], n) ELSE f[n - 1]]
  BY LoopEnds DEF Loop, Grown
<1>2. F = [n \in 0..N |->
                  IF n = 0 THEN <<>> ELSE IF n \in done THEN Append(F[n - 1], n) ELSE F[n - 1]]
  BY <1>1, Zenon
<1>3. Multi!InOrder(done) = F[N]
  BY DEF Multi!InOrder
<1> HIDE DEF F
<1> QED BY <1>2, <1>3 DEF Loop, Grown

\* s lines up those of the first n tasks that are done
Lined(s, done, n) ==
  /\ s \in Seq(1..N)
  /\ \A j \in 1..Len(s) : s[j] \in done /\ s[j] <= n
  /\ \A i \in done : i <= n => \E j \in 1..Len(s) : s[j] = i
  /\ \A j, k \in 1..Len(s) : j < k => s[j] < s[k]

\* One more task at the end of the line.
LEMMA LinedAppend ==
  ASSUME NEW n \in 1..N, NEW done \in SUBSET (1..N), n \in done,
         NEW s, Lined(s, done, n - 1)
  PROVE  Lined(Append(s, n), done, n)
<1> DEFINE t == Append(s, n)
<1>1. N \in Nat
  BY ServicesAssumption DEF Multi!FetchAssumption
<1>2. s \in Seq(1..N) /\ Len(s) \in Nat
  BY DEF Lined
<1>3. /\ t \in Seq(1..N) /\ Len(t) = Len(s) + 1 /\ t[Len(s) + 1] = n
      /\ \A j \in 1..Len(s) : t[j] = s[j]
  BY <1>2
<1> HIDE DEF t
<1>4. \A j \in 1..Len(t) : j \in 1..Len(s) \/ j = Len(s) + 1
  BY <1>2, <1>3
<1>5. \A j \in 1..Len(s) : s[j] \in done /\ s[j] \in 1..N /\ s[j] <= n - 1
  BY <1>2 DEF Lined
<1>6. ASSUME NEW j \in 1..Len(t) PROVE t[j] \in done /\ t[j] <= n
  <2>1. CASE j \in 1..Len(s)
    <3>1. t[j] = s[j] /\ s[j] \in done /\ s[j] \in 1..N /\ s[j] <= n - 1
      BY <1>3, <1>5, <2>1
    <3> QED BY <1>1, <3>1
  <2>2. CASE j = Len(s) + 1
    <3>1. t[j] = n
      BY <1>3, <2>2
    <3> QED BY <1>1, <3>1
  <2> QED BY <1>4, <2>1, <2>2
<1>7. ASSUME NEW i \in done, i <= n PROVE \E j \in 1..Len(t) : t[j] = i
  <2>1. CASE i = n
    BY <1>2, <1>3, <2>1
  <2>2. CASE i # n
    <3>1. i <= n - 1
      BY <1>1, <1>7, <2>2
    <3>2. PICK j \in 1..Len(s) : s[j] = i
      BY <3>1 DEF Lined
    <3> QED BY <1>2, <1>3, <3>2
  <2> QED BY <2>1, <2>2
<1>8. ASSUME NEW j \in 1..Len(t), NEW k \in 1..Len(t), j < k PROVE t[j] < t[k]
  <2>1. j \in 1..Len(s)
    BY <1>2, <1>3, <1>8
  <2>2. CASE k \in 1..Len(s)
    BY <1>3, <1>8, <2>1, <2>2 DEF Lined
  <2>3. CASE k = Len(s) + 1
    BY <1>1, <1>3, <1>5, <2>1, <2>3
  <2> QED BY <1>4, <2>2, <2>3
<1> QED BY <1>3, <1>6, <1>7, <1>8 DEF Lined, t

\* The results are the tasks that are done, in the order of the tasks.
LEMMA InOrderLinesUp ==
  ASSUME NEW done \in SUBSET Multi!Indicator
  PROVE  /\ Multi!InOrder(done) \in Seq(Multi!Indicator)
         /\ Multi!ToSet(Multi!InOrder(done)) = done
         /\ \A j, k \in DOMAIN Multi!InOrder(done) :
              j < k => Multi!InOrder(done)[j] < Multi!InOrder(done)[k]
<1>1. PICK f : Loop(f, done, N) /\ Multi!InOrder(done) = f[N]
  BY InOrderLoops
<1> DEFINE good == {n \in 0..N : Lined(f[n], done, n)}
<1>2. N \in Nat /\ done \in SUBSET (1..N)
  BY ServicesAssumption DEF Multi!FetchAssumption, Multi!Indicator
<1>3. \A n \in 0..N : f[n] = Grown(f, done, n)
  BY <1>1 DEF Loop
<1>4. 0 \in good
  <2>1. 0 \in 0..N
    BY <1>2
  <2>2. f[0] = <<>>
    BY <1>3, <2>1 DEF Grown
  <2>3. Lined(<<>>, done, 0)
    BY <1>2 DEF Lined
  <2> QED BY <2>1, <2>2, <2>3
<1>5. ASSUME NEW n \in 1..N, n - 1 \in good PROVE n \in good
  <2>1. Lined(f[n - 1], done, n - 1)
    BY <1>5
  <2>2. n \in 0..N /\ n # 0
    BY <1>2
  <2>3. f[n] = IF n \in done THEN Append(f[n - 1], n) ELSE f[n - 1]
    BY <1>3, <2>2 DEF Grown
  <2>4. CASE n \in done
    BY <1>2, <2>1, <2>2, <2>3, <2>4, LinedAppend
  <2>5. CASE n \notin done
    <3>1. \A i \in done : i <= n => i <= n - 1
      BY <1>2, <2>2, <2>5
    <3>2. Lined(f[n - 1], done, n)
      BY <1>2, <2>1, <2>2, <3>1 DEF Lined
    <3> QED BY <2>2, <2>3, <2>5, <3>2
  <2> QED BY <2>4, <2>5
<1> HIDE DEF good
<1>6. N \in good
  BY <1>2, <1>4, <1>5, UpToN
<1> DEFINE s == Multi!InOrder(done)
<1>7. Lined(s, done, N)
  BY <1>1, <1>6 DEF good
<1> HIDE DEF s
<1>8. DOMAIN s = 1..Len(s) /\ \A j \in DOMAIN s : s[j] \in done
  BY <1>7 DEF Lined
<1>9. \A i \in done : \E j \in DOMAIN s : s[j] = i
  BY <1>2, <1>7, <1>8 DEF Lined
<1>10. Multi!ToSet(s) = done
  BY <1>8, <1>9 DEF Multi!ToSet
<1> QED BY <1>7, <1>8, <1>10 DEF s, Multi!Indicator, Lined

\* A task that is done has been saved; none is left to run once the query is answered,
\* and none has begun before it waits.
MultiInv ==
  /\ Multi!TypeOK
  /\ phase = "routing" => \A i \in Multi!Indicator : fetch[i] = "new"
  /\ \A i \in Multi!Indicator : fetch[i] = "pausing" => tries[i] < MaxAttempts
  /\ Multi!Done \subseteq saved
  /\ phase \in {"answered", "raised"} => Multi!Running = {}
  /\ phase = "answered" =>
       /\ Multi!ToSet(answer) = Multi!Done /\ missing = Multi!Indicator \ Multi!Done
       /\ \A j, k \in DOMAIN answer : j < k => answer[j] < answer[k]
  /\ phase = "raised" => Multi!Done = {}

\* The results are told as they are: the tasks that are done stay done, and no other runs.
LEMMA MultiHarvests ==
  ASSUME MultiInv, phase = "waiting", Multi!Harvest, UNCHANGED <<tries, saved>>,
         fetch' \in [Multi!Indicator -> Multi!Pending \union {"new", "data", "nothing", "cancelled"}],
         \A i \in Multi!Indicator :
           /\ fetch'[i] = "data" <=> fetch[i] = "data"
           /\ fetch'[i] \notin Multi!Pending
  PROVE  MultiInv'
<1>1. Multi!Done' = Multi!Done /\ Multi!Running' = {}
  BY DEF Multi!Done, Multi!Running
<1>2. \A i \in Multi!Indicator : fetch'[i] # "pausing"
  BY DEF Multi!Pending
<1>3. CASE Multi!Done = {}
  <2>1. phase' = "raised" /\ UNCHANGED <<answer, missing>>
    BY <1>3 DEF Multi!Harvest
  <2>2. Multi!TypeOK'
    BY <2>1 DEF MultiInv, Multi!TypeOK
  <2> QED BY <1>1, <1>2, <1>3, <2>1, <2>2 DEF MultiInv
<1>4. CASE Multi!Done # {}
  <2>1. /\ phase' = "answered" /\ answer' = Multi!InOrder(Multi!Done)
        /\ missing' = Multi!Indicator \ Multi!Done
    BY <1>4 DEF Multi!Harvest
  <2>2. Multi!Done \in SUBSET Multi!Indicator
    BY DEF Multi!Done
  <2>3. /\ answer' \in Seq(Multi!Indicator)
        /\ Multi!ToSet(answer') = Multi!Done
        /\ \A j, k \in DOMAIN answer' : j < k => answer'[j] < answer'[k]
    BY <2>1, <2>2, InOrderLinesUp
  <2>4. Multi!TypeOK'
    BY <2>1, <2>2, <2>3 DEF MultiInv, Multi!TypeOK
  <2>5. Multi!ToSet(answer)' = Multi!Done'
    BY <1>1, <2>3 DEF Multi!ToSet
  <2> QED BY <1>1, <1>2, <2>1, <2>3, <2>4, <2>5 DEF MultiInv
<1> QED BY <1>3, <1>4

\* A task goes on: it is one that runs, and is done only when it has saved.
LEMMA MultiGoes ==
  ASSUME MultiInv, NEW i \in Multi!Indicator, NEW place \in Multi!Pending \union {"data", "nothing"},
         Multi!Goes(i, place), fetch[i] \in Multi!Pending, UNCHANGED <<phase, answer, missing>>,
         tries' \in [Multi!Indicator -> 1..MaxAttempts],
         place = "pausing" => tries'[i] < MaxAttempts,
         \A j \in Multi!Indicator \ {i} : tries'[j] = tries[j],
         saved' = IF place = "data" THEN saved \union {i} ELSE saved
  PROVE  MultiInv'
<1>1. /\ fetch' \in [Multi!Indicator -> Multi!Pending \union {"new", "data", "nothing", "cancelled"}]
      /\ fetch'[i] = place
      /\ \A j \in Multi!Indicator \ {i} : fetch'[j] = fetch[j]
  BY DEF MultiInv, Multi!TypeOK, Multi!Goes
<1>2. phase \in {"waiting", "cut"}
  <2>1. Multi!Running # {}
    BY DEF Multi!Running
  <2>2. fetch[i] # "new"
    BY DEF Multi!Pending
  <2> QED BY <2>1, <2>2 DEF MultiInv, Multi!TypeOK
<1>3. Multi!TypeOK'
  BY <1>1 DEF MultiInv, Multi!TypeOK
<1>4. \A j \in Multi!Indicator : fetch'[j] = "pausing" => tries'[j] < MaxAttempts
  BY <1>1 DEF MultiInv
<1>5. Multi!Done' \subseteq saved'
  BY <1>1 DEF MultiInv, Multi!Done
<1> QED BY <1>2, <1>3, <1>4, <1>5 DEF MultiInv

\* data_fetcher.py:3418-3480: for any number of indicators and of attempts, what is
\* there at the deadline is returned in the order asked for, the rest is named, and
\* nothing goes on after the query has its result.
THEOREM IndicatorsAlwaysAccounted == Multi!Spec => [](Multi!TypeOK /\ EveryIndicatorAccounted)
<1>1. Multi!Init => MultiInv
  <2> SUFFICES ASSUME Multi!Init PROVE MultiInv
    OBVIOUS
  <2>1. <<>> \in Seq(Multi!Indicator) /\ 1 \in 1..MaxAttempts
    BY ServicesAssumption DEF Multi!FetchAssumption
  <2>2. Multi!TypeOK
    BY <2>1 DEF Multi!Init, Multi!TypeOK
  <2>3. \A i \in Multi!Indicator : fetch[i] = "new"
    BY DEF Multi!Init
  <2>4. Multi!Done = {}
    BY <2>3 DEF Multi!Done
  <2> QED BY <2>2, <2>3, <2>4 DEF Multi!Init, MultiInv
<1>2. MultiInv /\ [Multi!Next]_(Multi!vars) => MultiInv'
  <2> SUFFICES ASSUME MultiInv, [Multi!Next]_(Multi!vars) PROVE MultiInv'
    OBVIOUS
  <2>1. CASE UNCHANGED Multi!vars
    BY <2>1 DEF Multi!vars, MultiInv, Multi!TypeOK, Multi!Done, Multi!Running, Multi!ToSet
  <2>2. CASE Multi!Launch
    <3>1. /\ phase' = "waiting" /\ UNCHANGED <<tries, saved, answer, missing>>
          /\ fetch' = [i \in Multi!Indicator |-> "asking"]
      BY <2>2 DEF Multi!Launch
    <3>2. Multi!TypeOK'
      BY <3>1 DEF MultiInv, Multi!TypeOK, Multi!Pending
    <3>3. \A i \in Multi!Indicator : fetch'[i] = "asking"
      BY <3>1
    <3>4. Multi!Done' = {}
      BY <3>3 DEF Multi!Done
    <3> QED BY <3>1, <3>2, <3>3, <3>4 DEF MultiInv
  <2>3. CASE Multi!AllDone
    <3>1. phase = "waiting" /\ Multi!Running = {} /\ Multi!Harvest /\ UNCHANGED <<fetch, tries, saved>>
      BY <2>3 DEF Multi!AllDone
    <3>2. \A i \in Multi!Indicator : fetch'[i] = fetch[i] /\ fetch[i] \notin Multi!Pending
      BY <3>1 DEF Multi!Running
    <3> QED BY <3>1, <3>2, MultiHarvests DEF MultiInv, Multi!TypeOK
  <2>4. CASE Multi!Deadline
    <3>1. /\ phase = "waiting" /\ Multi!Harvest /\ UNCHANGED <<tries, saved>>
          /\ fetch' = [i \in Multi!Indicator |-> IF i \in Multi!Running THEN "cancelled" ELSE fetch[i]]
      BY <2>4 DEF Multi!Deadline
    <3>2. \A i \in Multi!Indicator :
            /\ i \in Multi!Running <=> fetch[i] \in Multi!Pending
            /\ fetch'[i] = IF i \in Multi!Running THEN "cancelled" ELSE fetch[i]
      BY <3>1 DEF Multi!Running
    <3>3. \A i \in Multi!Indicator :
            /\ fetch'[i] = "data" <=> fetch[i] = "data"
            /\ fetch'[i] \notin Multi!Pending
      BY <3>2 DEF Multi!Pending
    <3>4. fetch' \in [Multi!Indicator -> Multi!Pending \union {"new", "data", "nothing", "cancelled"}]
      BY <3>1 DEF MultiInv, Multi!TypeOK
    <3> QED BY <3>1, <3>3, <3>4, MultiHarvests
  <2>5. CASE Multi!Cut
    <3>1. phase \in {"routing", "waiting"} /\ phase' = "cut" /\ UNCHANGED <<fetch, tries, saved, answer, missing>>
      BY <2>5 DEF Multi!Cut
    <3>2. Multi!TypeOK' /\ Multi!Done' = Multi!Done
      BY <3>1 DEF MultiInv, Multi!TypeOK, Multi!Done
    <3> QED BY <3>1, <3>2 DEF MultiInv
  <2>6. ASSUME NEW i \in Multi!Indicator, Multi!Task(i) PROVE MultiInv'
    <3>1. tries \in [Multi!Indicator -> 1..MaxAttempts] /\ MaxAttempts \in Nat
      BY ServicesAssumption DEF Multi!FetchAssumption, MultiInv, Multi!TypeOK
    <3>2. {"asking", "saving", "pausing"} = Multi!Pending
      BY DEF Multi!Pending
    <3>3. CASE Multi!GetsData(i)
      BY <3>1, <3>2, <3>3, MultiGoes DEF Multi!GetsData
    <3>4. CASE Multi!Saves(i)
      BY <3>1, <3>2, <3>4, MultiGoes DEF Multi!Saves
    <3>5. CASE Multi!GetsNothing(i)
      BY <3>1, <3>2, <3>5, MultiGoes DEF Multi!GetsNothing
    <3>6. CASE Multi!Fails(i)
      BY <3>1, <3>2, <3>6, MultiGoes DEF Multi!Fails
    <3>7. CASE Multi!TriesAgain(i)
      <4>1. fetch[i] = "pausing" /\ Multi!Goes(i, "asking") /\ UNCHANGED <<phase, saved, answer, missing>>
        BY <3>7 DEF Multi!TriesAgain
      <4>2. tries' = [tries EXCEPT ![i] = @ + 1] /\ tries[i] < MaxAttempts
        BY <3>7 DEF Multi!TriesAgain, MultiInv
      <4>3. /\ tries' \in [Multi!Indicator -> 1..MaxAttempts]
            /\ \A j \in Multi!Indicator \ {i} : tries'[j] = tries[j]
        BY <3>1, <4>2
      <4> QED BY <3>2, <4>1, <4>3, MultiGoes
    <3> QED BY <2>6, <3>3, <3>4, <3>5, <3>6, <3>7 DEF Multi!Task
  <2> QED BY <2>1, <2>2, <2>3, <2>4, <2>5, <2>6 DEF Multi!Next
<1>3. MultiInv => Multi!TypeOK /\ EveryIndicatorAccounted
  <2> SUFFICES ASSUME MultiInv PROVE Multi!TypeOK /\ EveryIndicatorAccounted
    OBVIOUS
  <2>1. Multi!TypeOK
    BY DEF MultiInv
  <2>2. Multi!Running # {} => phase \in {"waiting", "cut"}
    <3>1. phase = "routing" => Multi!Running = {}
      BY DEF MultiInv, Multi!Running, Multi!Pending
    <3> QED BY <2>1, <3>1 DEF MultiInv, Multi!TypeOK
  <2> QED BY <2>1, <2>2 DEF MultiInv, EveryIndicatorAccounted, Multi!EveryIndicatorAccounted
<1> QED BY <1>1, <1>2, <1>3, PTL DEF Multi!Spec
=============================================================================
