--------------------------- MODULE DataCacheProofs ---------------------------
(***************************************************************************)
(* Types of DataCache, and how old its copies get, for any workers,        *)
(* callers, series, ttls and bounds.                                       *)
(*                                                                         *)
(* The argument: age plus remaining life of a stored copy never grows.  It *)
(* starts at most at Ceiling (SaveTtl) and the time that the save awaits    *)
(* Redis, and in Redis and in a fallback cache keeps that bound.  Only a    *)
(* mirrored copy starts a new life, of FrequencyTtl; it is in memory then,  *)
(* from where nothing is mirrored.                                          *)
(***************************************************************************)
EXTENDS DataCache, TLAPS

Entry == Copy \union {NoCopy}
Store == [Series -> Entry]

Saved(copy) == copy.left >= 0 /\ copy.age + copy.left <= Ceiling + Patience
Mirrorable(copy) == copy.age + copy.left <= Ceiling + FrequencyTtl + 2 * Patience
\* a copy on its way to Redis, for so many ticks
Fresh(copy, ticks) == copy.age <= ticks /\ copy.left \in 0..Ceiling

\* what a request may carry
Carried(k) ==
  /\ k.pc = "answered" /\ k.copy # NoCopy => k.copy.age <= Ceiling + Patience + k.waited
  /\ k.pc \in {"reconnecting", "writing", "written"} => k.copy \in Copy /\ Fresh(k.copy, k.waited)
  /\ k.pc = "hit" => k.copy \in Copy /\ k.copy.age <= Ceiling + FrequencyTtl + 2 * Patience

RedisAges == \A s \in Series : redis[s] # NoCopy => Saved(redis[s])
FallbackAges == \A w \in Worker, s \in Series : Live(fallback[w][s]) => Saved(fallback[w][s])
MemoryAges == \A w \in Worker, s \in Series : Live(memory[w][s]) => Mirrorable(memory[w][s])
CallAges == \A c \in Caller : Carried(call[c])

LocalOK ==
  /\ memory \in [Worker -> Store] /\ fallback \in [Worker -> Store]
  /\ memorySweep \in [Worker -> 0..CleanupAfter]
  /\ fallbackSweep \in [Worker -> 0..CleanupAfter]
  /\ FallbackAges /\ MemoryAges

LinkOK ==
  /\ redisUp \in BOOLEAN
  /\ created \in [Worker -> BOOLEAN] /\ connected \in [Worker -> BOOLEAN]
  /\ retryIn \in [Worker -> 0..ReconnectAfter]

RedisOK == redis \in Store /\ RedisAges

CallOK == call \in [Caller -> Call] /\ CallAges

RestOK == clearing \in [Worker -> BOOLEAN] /\ upsets \in 0..MaxUpsets

IInv == LocalOK /\ LinkOK /\ RedisOK /\ CallOK /\ RestOK

-----------------------------------------------------------------------------
(* Lemmas about the stores.                                                *)

\* A cleanup keeps the live entries it keeps as they are.
LEMMA SweptThins ==
  ASSUME NEW store \in Store, NEW due \in BOOLEAN, NEW t \in Swept(store, due)
  PROVE  t \in Store /\ \A s \in Series : Live(t[s]) => t[s] = store[s]
<1> DEFINE rest == WithoutExpired(store)
<1>1. rest \in Store /\ \A s \in Series : Live(rest[s]) => rest[s] = store[s]
  BY DEF WithoutExpired, Store, Entry, Live
<1>2. CASE ~due
  BY <1>2 DEF Swept
<1>3. CASE due /\ Cardinality(Held(rest)) <= MaxEntries
  BY <1>1, <1>3 DEF Swept
<1>4. CASE due /\ ~(Cardinality(Held(rest)) <= MaxEntries)
  <2>1. PICK V \in Victims(rest) : t = [s \in Series |-> IF s \in V THEN NoCopy ELSE rest[s]]
    BY <1>4 DEF Swept
  <2>2. \A s \in Series : t[s] = NoCopy \/ t[s] = rest[s]
    BY <2>1
  <2>3. t \in Store
    <3> HIDE DEF rest
    <3> QED BY <1>1, <2>1 DEF Store, Entry
  <2>4. \A s \in Series : Live(t[s]) => t[s] = rest[s]
    BY <2>2 DEF Live
  <2> QED BY <1>1, <2>3, <2>4
<1> QED BY <1>2, <1>3, <1>4

\* A read keeps the live entries as they are.
LEMMA PoppedThins ==
  ASSUME NEW store \in Store, NEW s \in Series
  PROVE  /\ Popped(store, s) \in Store
         /\ \A x \in Series : Live(Popped(store, s)[x]) => Popped(store, s)[x] = store[x]
BY DEF Popped, Store, Entry, Live

\* What is saved lives at most as long as the ceiling.
LEMMA SaveTtlBounded ==
  ASSUME NEW single \in BOOLEAN
  PROVE  [age |-> 0, left |-> SaveTtl(single)] \in Copy
         /\ SaveTtl(single) \in 0..Ceiling
<1>1. SaveTtl(single) \in Nat /\ SaveTtl(single) <= Ceiling
  BY CacheAssumption DEF SaveTtl
<1> QED BY <1>1, CacheAssumption DEF Copy

\* What has been on its way to Redis may be put into the stores.
LEMMA FreshIsSaved ==
  ASSUME NEW copy \in Copy, NEW ticks \in 0..Patience, Fresh(copy, ticks)
  PROVE  Saved(copy)
BY CacheAssumption DEF Fresh, Saved, Copy

\* A copy that is not older than a saved one on its way here can be mirrored.
LEMMA MirroredBounded ==
  ASSUME NEW copy \in Copy, copy.age <= Ceiling + 2 * Patience
  PROVE  Mirrored(copy) \in Copy /\ Mirrorable(Mirrored(copy))
         /\ copy.age <= Ceiling + FrequencyTtl + 2 * Patience
<1>1. copy.age \in Nat /\ copy.left \in Int
  BY CacheAssumption DEF Copy
<1>2. Mirrored(copy) = [age |-> copy.age, left |-> FrequencyTtl]
  BY DEF Mirrored, Copy
<1>3. Mirrored(copy) \in Copy
  BY <1>2, CacheAssumption DEF Copy
<1>4. Mirrored(copy).age = copy.age /\ Mirrored(copy).left = FrequencyTtl
  BY <1>2
<1> QED BY <1>1, <1>3, <1>4, CacheAssumption DEF Mirrorable

\* The age of a saved copy.
LEMMA SavedAge ==
  ASSUME NEW copy \in Copy, Saved(copy)
  PROVE  copy.age <= Ceiling + Patience /\ copy.age <= Ceiling + 2 * Patience
BY CacheAssumption DEF Saved, Copy

\* Whatever a step puts into a request, the requests stay as they should.
LEMMA CallSet ==
  ASSUME CallOK, NEW c \in Caller, NEW k \in Call, Carried(k),
         call' = [call EXCEPT ![c] = k]
  PROVE  CallOK'
<1>1. call' \in [Caller -> Call]
  BY DEF CallOK
<1>2. \A d \in Caller : Carried(call'[d])
  BY DEF CallOK, CallAges
<1> QED BY <1>1, <1>2 DEF CallOK, CallAges, Carried, Fresh

\* ... in the form that Advance gives it.
LEMMA AdvanceSet ==
  ASSUME CallOK, NEW c \in Caller, NEW pc \in Pcs, NEW copy \in Entry,
         Carried([call[c] EXCEPT !.pc = pc, !.copy = copy]),
         Advance(c, pc, copy)
  PROVE  CallOK'
<1> DEFINE k == [call[c] EXCEPT !.pc = pc, !.copy = copy]
<1>1. k \in Call
  BY DEF CallOK, Call, Entry
<1>2. call' = [call EXCEPT ![c] = k]
  BY DEF Advance, CallOK
<1> QED
  <2>1. Carried(k)
    OBVIOUS
  <2> HIDE DEF k
  <2> QED BY <1>1, <1>2, <2>1, CallSet

\* A copy put into one store of a worker.
LEMMA MemorySet ==
  ASSUME LocalOK, NEW w \in Worker, NEW s \in Series, NEW copy \in Entry,
         Live(copy) => Mirrorable(copy),
         memory' = [memory EXCEPT ![w] = [@ EXCEPT ![s] = copy]]
  PROVE  memory' \in [Worker -> Store] /\ MemoryAges'
<1>1. memory' \in [Worker -> Store]
  BY DEF LocalOK, Store
<1>2. \A v \in Worker, x \in Series :
        memory'[v][x] = IF v = w /\ x = s THEN copy ELSE memory[v][x]
  BY DEF LocalOK, Store
<1>3. \A v \in Worker, x \in Series : Live(memory'[v][x]) => Mirrorable(memory'[v][x])
  BY <1>2 DEF LocalOK, MemoryAges
<1> QED BY <1>1, <1>3 DEF MemoryAges, Live, Mirrorable

\* One series is put into the fallback of a worker.
LEMMA FallbackSet ==
  ASSUME LocalOK, NEW w \in Worker, NEW s \in Series, NEW copy \in Entry,
         Live(copy) => Saved(copy),
         fallback' = [fallback EXCEPT ![w] = [@ EXCEPT ![s] = copy]]
  PROVE  fallback' \in [Worker -> Store] /\ FallbackAges'
<1>1. fallback' \in [Worker -> Store]
  BY DEF LocalOK, Store
<1>2. \A v \in Worker, x \in Series :
        fallback'[v][x] = IF v = w /\ x = s THEN copy ELSE fallback[v][x]
  BY DEF LocalOK, Store
<1>3. \A v \in Worker, x \in Series : Live(fallback'[v][x]) => Saved(fallback'[v][x])
  BY <1>2 DEF LocalOK, FallbackAges
<1> QED BY <1>1, <1>3 DEF FallbackAges, Live, Saved

\* A saved copy satisfies the weaker bound of memory.
LEMMA SavedIsMirrorable ==
  ASSUME NEW copy \in Copy, Saved(copy)
  PROVE  Mirrorable(copy)
BY CacheAssumption DEF Saved, Mirrorable, Copy

\* A store of a worker replaced by one that has only some of its live entries.
LEMMA MemoryThinned ==
  ASSUME LocalOK, NEW w \in Worker, NEW t \in Store,
         \A x \in Series : Live(t[x]) => t[x] = memory[w][x],
         memory' = [memory EXCEPT ![w] = t]
  PROVE  memory' \in [Worker -> Store] /\ MemoryAges'
<1>1. memory' \in [Worker -> Store]
  BY DEF LocalOK
<1>2. \A v \in Worker, x \in Series :
        Live(memory'[v][x]) => memory'[v][x] = memory[v][x]
  BY DEF LocalOK
<1>3. \A v \in Worker, x \in Series : Live(memory'[v][x]) => Mirrorable(memory'[v][x])
  BY <1>2 DEF LocalOK, MemoryAges
<1> QED BY <1>1, <1>3 DEF MemoryAges, Live, Mirrorable

\* The fallback of a worker loses entries.
LEMMA FallbackThinned ==
  ASSUME LocalOK, NEW w \in Worker, NEW t \in Store,
         \A x \in Series : Live(t[x]) => t[x] = fallback[w][x],
         fallback' = [fallback EXCEPT ![w] = t]
  PROVE  fallback' \in [Worker -> Store] /\ FallbackAges'
<1>1. fallback' \in [Worker -> Store]
  BY DEF LocalOK
<1>2. \A v \in Worker, x \in Series :
        Live(fallback'[v][x]) => fallback'[v][x] = fallback[v][x]
  BY DEF LocalOK
<1>3. \A v \in Worker, x \in Series : Live(fallback'[v][x]) => Saved(fallback'[v][x])
  BY <1>2 DEF LocalOK, FallbackAges
<1> QED BY <1>1, <1>3 DEF FallbackAges, Live, Saved

\* A request that ends, or that goes on to the provider.
LEMMA EndSet ==
  ASSUME CallOK, NEW c \in Caller, NEW w \in Worker, NEW s \in Series,
         NEW pc \in Pcs, NEW copy \in Entry, NEW had \in BOOLEAN,
         pc \notin {"answered", "reconnecting", "writing", "written"},
         pc = "hit" => copy \in Copy /\ copy.age <= Ceiling + FrequencyTtl + 2 * Patience,
         End(c, w, s, pc, copy, had)
  PROVE  CallOK'
<1> DEFINE k == [pc |-> pc, worker |-> w, series |-> s, copy |-> copy,
                waited |-> 0, had |-> had]
<1>0. 0 \in 0..Patience
  BY CacheAssumption
<1>1. k \in Call
  BY <1>0 DEF Call, Entry
<1>2. Carried(k)
  BY DEF Carried
<1>3. call' = [call EXCEPT ![c] = k]
  BY DEF End
<1> HIDE DEF k
<1> QED BY <1>1, <1>2, <1>3, CallSet

\* The counter to the next clean-up stays in its range.
LEMMA SweepTyped ==
  ASSUME NEW n \in 0..CleanupAfter
  PROVE  SweepAfter(n) \in 0..CleanupAfter
BY CacheAssumption DEF SweepAfter

\* Reading the caches of a process keeps every bound.
LEMMA ReadLocalKeeps ==
  ASSUME LocalOK, CallOK, NEW c \in Caller, NEW w \in Worker, NEW s \in Series,
         NEW had \in BOOLEAN, ReadLocal(c, w, s, had)
  PROVE  LocalOK' /\ CallOK'
<1>1. PICK f \in Swept(fallback[w], fallbackSweep[w] = 0) :
    /\ fallback' = [fallback EXCEPT ![w] = Popped(f, s)]
    /\ fallbackSweep' = [fallbackSweep EXCEPT ![w] = SweepAfter(@)]
    /\ \/ /\ Live(f[s])
          /\ memory' = [memory EXCEPT ![w] = [@ EXCEPT ![s] = Mirrored(f[s])]]
          /\ End(c, w, s, "hit", f[s], FALSE)
          /\ UNCHANGED memorySweep
       \/ /\ ~Live(f[s])
          /\ \E m \in Swept(memory[w], memorySweep[w] = 0) :
               /\ memory' = [memory EXCEPT ![w] = Popped(m, s)]
               /\ IF Live(m[s]) THEN End(c, w, s, "hit", m[s], FALSE)
                  ELSE End(c, w, s, "fetching", NoCopy, had)
          /\ memorySweep' = [memorySweep EXCEPT ![w] = SweepAfter(@)]
  BY DEF ReadLocal
<1>2. f \in Store /\ \A x \in Series : Live(f[x]) => f[x] = fallback[w][x]
  <2>1. fallback[w] \in Store /\ (fallbackSweep[w] = 0) \in BOOLEAN
    BY DEF LocalOK
  <2> QED BY <2>1, SweptThins
<1>3. /\ Popped(f, s) \in Store
      /\ \A x \in Series : Live(Popped(f, s)[x]) => Popped(f, s)[x] = fallback[w][x]
  BY <1>2, PoppedThins
<1>4. fallback' \in [Worker -> Store] /\ FallbackAges'
  <2>1. fallback' = [fallback EXCEPT ![w] = Popped(f, s)]
    BY <1>1
  <2> QED BY <2>1, <1>3, FallbackThinned
<1>5. fallbackSweep' \in [Worker -> 0..CleanupAfter]
  BY <1>1, SweepTyped DEF LocalOK
<1>6. CASE Live(f[s])
  <2>1. f[s] \in Copy /\ Saved(f[s])
    BY <1>2, <1>6 DEF LocalOK, FallbackAges, Live, Store, Entry
  <2>2. /\ Mirrored(f[s]) \in Entry /\ Mirrorable(Mirrored(f[s]))
        /\ f[s].age <= Ceiling + FrequencyTtl + 2 * Patience
    BY <2>1, SavedAge, MirroredBounded DEF Entry
  <2>3. memory' \in [Worker -> Store] /\ MemoryAges'
    BY <1>1, <1>6, <2>2, MemorySet
  <2>4. memorySweep' \in [Worker -> 0..CleanupAfter]
    BY <1>1, <1>6 DEF LocalOK
  <2>5. CallOK'
    BY <1>1, <1>6, <2>1, <2>2, EndSet DEF Pcs, Ended, Entry
  <2> QED BY <1>4, <1>5, <2>3, <2>4, <2>5 DEF LocalOK
<1>7. CASE ~Live(f[s])
  <2>1. PICK m \in Swept(memory[w], memorySweep[w] = 0) :
               /\ memory' = [memory EXCEPT ![w] = Popped(m, s)]
               /\ IF Live(m[s]) THEN End(c, w, s, "hit", m[s], FALSE)
                  ELSE End(c, w, s, "fetching", NoCopy, had)
    BY <1>1, <1>7
  <2>2. m \in Store /\ \A x \in Series : Live(m[x]) => m[x] = memory[w][x]
    <3>1. memory[w] \in Store /\ (memorySweep[w] = 0) \in BOOLEAN
      BY DEF LocalOK
    <3> QED BY <3>1, SweptThins
  <2>3. /\ Popped(m, s) \in Store
        /\ \A x \in Series : Live(Popped(m, s)[x]) => Popped(m, s)[x] = memory[w][x]
    BY <2>2, PoppedThins
  <2>4. memory' \in [Worker -> Store] /\ MemoryAges'
    BY <2>1, <2>3, MemoryThinned
  <2>5. memorySweep' \in [Worker -> 0..CleanupAfter]
    <3>1. memorySweep' = [memorySweep EXCEPT ![w] = SweepAfter(memorySweep[w])]
      BY <1>1, <1>7
    <3>2. SweepAfter(memorySweep[w]) \in 0..CleanupAfter
      BY SweepTyped DEF LocalOK
    <3> QED BY <3>1, <3>2 DEF LocalOK
  <2>6. CASE Live(m[s])
    <3>1. m[s] \in Copy /\ Mirrorable(m[s]) /\ m[s].left >= 0
      BY <2>2, <2>6 DEF LocalOK, MemoryAges, Live, Store, Entry
    <3>2. m[s].age <= Ceiling + FrequencyTtl + 2 * Patience
      BY <3>1, CacheAssumption DEF Mirrorable, Copy
    <3>3. CallOK'
      BY <2>1, <2>6, <3>1, <3>2, EndSet DEF Pcs, Ended, Entry
    <3> QED BY <1>4, <1>5, <2>4, <2>5, <3>3 DEF LocalOK
  <2>7. CASE ~Live(m[s])
    <3>1. CallOK'
      BY <2>1, <2>7, EndSet DEF Pcs, Ended, Entry
    <3> QED BY <1>4, <1>5, <2>4, <2>5, <3>1 DEF LocalOK
  <2> QED BY <2>6, <2>7
<1> QED BY <1>6, <1>7

\* Saving in the caches of a process keeps every bound.
LEMMA SaveLocalKeeps ==
  ASSUME LocalOK, CallOK, NEW c \in Caller, NEW w \in Worker, NEW s \in Series,
         NEW copy \in Copy, Saved(copy), SaveLocal(c, w, s, copy)
  PROVE  LocalOK' /\ CallOK'
<1>1. copy \in Entry /\ Mirrorable(copy)
  BY SavedIsMirrorable DEF Entry
<1>2. memory' \in [Worker -> Store] /\ MemoryAges'
  BY <1>1, MemorySet DEF SaveLocal, KeepInMemory
<1>3. fallback' \in [Worker -> Store] /\ FallbackAges'
  BY <1>1, FallbackSet DEF SaveLocal
<1>4. CallOK'
  BY EndSet DEF SaveLocal, Pcs, Ended, Entry
<1> QED BY <1>2, <1>3, <1>4 DEF SaveLocal, LocalOK

\* While the stores of the processes stay, so do their bounds.
LEMMA LocalUnchanged ==
  ASSUME LocalOK, UNCHANGED stores
  PROVE  LocalOK'
BY DEF LocalOK, stores, MemoryAges, FallbackAges, Live, Saved, Mirrorable

\* So it is with Redis,
LEMMA RedisUnchanged ==
  ASSUME RedisOK, UNCHANGED redis
  PROVE  RedisOK'
BY DEF RedisOK, RedisAges, Saved

\* and with what the requests carry.
LEMMA CallUnchanged ==
  ASSUME CallOK, UNCHANGED call
  PROVE  CallOK'
BY DEF CallOK, CallAges, Carried, Fresh

\* Asking Redis, or reading past it.
LEMMA ReadRedisKeeps ==
  ASSUME LocalOK, CallOK, retryIn \in [Worker -> 0..ReconnectAfter],
         NEW c \in Caller, NEW w \in Worker, NEW s \in Series,
         NEW had \in BOOLEAN, ReadRedis(c, w, s, had)
  PROVE  LocalOK' /\ CallOK' /\ retryIn' \in [Worker -> 0..ReconnectAfter]
<1>1. CASE /\ connected'[w]
           /\ End(c, w, s, "asking", NoCopy, had)
           /\ UNCHANGED <<retryIn, stores>>
  <2>1. CallOK'
    BY <1>1, EndSet DEF Pcs, RoundTrip, Entry
  <2> QED BY <1>1, <2>1, LocalUnchanged
<1>2. CASE /\ ~connected'[w] /\ retryIn[w] = 0
           /\ retryIn' = [retryIn EXCEPT ![w] = ReconnectAfter]
           /\ End(c, w, s, "connecting", NoCopy, had)
           /\ UNCHANGED stores
  <2>1. CallOK'
    BY <1>2, EndSet DEF Pcs, RoundTrip, Entry
  <2>2. retryIn' \in [Worker -> 0..ReconnectAfter]
    BY <1>2, CacheAssumption
  <2> QED BY <1>2, <2>1, <2>2, LocalUnchanged
<1>3. CASE /\ ~connected'[w] /\ retryIn[w] > 0
           /\ ReadLocal(c, w, s, had)
           /\ UNCHANGED retryIn
  BY <1>3, ReadLocalKeeps
<1> QED BY <1>1, <1>2, <1>3 DEF ReadRedis

-----------------------------------------------------------------------------
(* Every step keeps the invariant.                                         *)

\* All caches are empty at the start.
LEMMA InitIInv == Init => IInv
<1> SUFFICES ASSUME Init PROVE IInv
  OBVIOUS
<1>1. Empty \in Store /\ \A s \in Series : Empty[s] = NoCopy
  BY DEF Empty, Store, Entry
<1>2. LocalOK
  BY <1>1, CacheAssumption DEF Init, LocalOK, FallbackAges, MemoryAges, Live
<1>3. LinkOK /\ RestOK
  BY CacheAssumption DEF Init, LinkOK, RestOK
<1>4. RedisOK
  BY <1>1 DEF Init, RedisOK, RedisAges
<1>5. CallOK
  <2>1. PICK w \in Worker, s \in Series :
          call = [c \in Caller |->
                    [pc |-> "idle", worker |-> w, series |-> s, copy |-> NoCopy,
                     waited |-> 0, had |-> FALSE]]
    BY DEF Init
  <2> QED BY <2>1, CacheAssumption DEF CallOK, CallAges, Carried, Call, Pcs, Ended, Entry
<1> QED BY <1>2, <1>3, <1>4, <1>5 DEF IInv

\* A request's fields, and what it carries in each state.
LEMMA CallFields ==
  ASSUME CallOK, NEW c \in Caller
  PROVE  /\ call[c] \in Call /\ Carried(call[c])
         /\ call[c].worker \in Worker /\ call[c].series \in Series
         /\ call[c].had \in BOOLEAN /\ call[c].copy \in Entry
         /\ call[c].waited \in 0..Patience
BY DEF CallOK, CallAges, Call, Entry

\* A request that ends where it is.
LEMMA EndHere ==
  ASSUME CallOK, NEW c \in Caller, NEW pc \in Ended, NEW copy \in Entry,
         pc = "hit" => copy \in Copy /\ copy.age <= Ceiling + FrequencyTtl + 2 * Patience,
         End(c, call[c].worker, call[c].series, pc, copy, FALSE)
  PROVE  CallOK'
<1>1. call[c].worker \in Worker /\ call[c].series \in Series
  BY CallFields
<1>2. pc \in Pcs /\ pc \notin {"answered", "reconnecting", "writing", "written"}
  BY DEF Pcs, Ended
<1> QED BY <1>1, <1>2, EndSet

\* A copy that Redis sends.
LEMMA AdvanceAnswered ==
  ASSUME CallOK, NEW c \in Caller, NEW copy \in Copy, Saved(copy), Advance(c, "answered", copy)
  PROVE  CallOK'
<1> DEFINE k == [call[c] EXCEPT !.pc = "answered", !.copy = copy]
<1>1. k.pc = "answered" /\ k.copy = copy /\ k.waited = call[c].waited
  BY DEF CallOK, Call
<1>2. copy.age \in Nat /\ copy.age <= Ceiling + Patience /\ call[c].waited \in Nat
  BY SavedAge, CallFields, CacheAssumption DEF Copy
<1>3. Carried(k)
  <2> HIDE DEF k
  <2> QED BY <1>1, <1>2, CacheAssumption DEF Carried
<1>4. copy \in Entry /\ "answered" \in Pcs
  BY DEF Entry, Pcs, RoundTrip
<1> QED BY <1>3, <1>4, AdvanceSet

\* A copy on its way to Redis, moved on as it is.
LEMMA AdvanceFresh ==
  ASSUME CallOK, NEW c \in Caller, NEW pc \in {"reconnecting", "writing", "written"},
         NEW copy \in Copy, Fresh(copy, call[c].waited), Advance(c, pc, copy)
  PROVE  CallOK'
<1> DEFINE k == [call[c] EXCEPT !.pc = pc, !.copy = copy]
<1>1. k.pc = pc /\ k.copy = copy /\ k.waited = call[c].waited
  BY DEF CallOK, Call
<1>2. Carried(k)
  <2> HIDE DEF k
  <2> QED BY <1>1 DEF Carried
<1>3. copy \in Entry /\ pc \in Pcs
  BY DEF Entry, Pcs, RoundTrip
<1> QED BY <1>2, <1>3, AdvanceSet

\* A request moved on with nothing to carry.
LEMMA AdvanceEmpty ==
  ASSUME CallOK, NEW c \in Caller, NEW pc \in Pcs,
         pc \notin {"reconnecting", "writing", "written", "hit"}, Advance(c, pc, NoCopy)
  PROVE  CallOK'
<1> DEFINE k == [call[c] EXCEPT !.pc = pc, !.copy = NoCopy]
<1>1. k.pc = pc /\ k.copy = NoCopy
  BY DEF CallOK, Call
<1>2. Carried(k)
  <2> HIDE DEF k
  <2> QED BY <1>1 DEF Carried
<1>3. NoCopy \in Entry
  BY DEF Entry
<1> QED BY <1>2, <1>3, AdvanceSet

\* A request reads the caches of its process, and goes on to Redis.
LEMMA AskKeeps ==
  ASSUME IInv, NEW c \in Caller, NEW w \in Worker, NEW s \in Series, Ask(c, w, s)
  PROVE  IInv'
<1>1. RedisOK' /\ RestOK'
  BY RedisUnchanged DEF IInv, Ask, RestOK
<1>2. CASE /\ ~created[w]
           /\ created' = [created EXCEPT ![w] = TRUE]
           /\ End(c, w, s, "creating", NoCopy, memory[w][s] # NoCopy)
           /\ UNCHANGED <<retryIn, stores>>
  <2>1. CallOK'
    BY <1>2, EndSet DEF IInv, Pcs, RoundTrip, Entry
  <2>2. LinkOK'
    BY <1>2 DEF IInv, LinkOK, Ask
  <2> QED BY <1>1, <1>2, <2>1, <2>2, LocalUnchanged DEF IInv
<1>3. CASE /\ created[w]
           /\ ReadRedis(c, w, s, memory[w][s] # NoCopy)
           /\ UNCHANGED created
  <2>1. LocalOK' /\ CallOK' /\ retryIn' \in [Worker -> 0..ReconnectAfter]
    <3>1. (memory[w][s] # NoCopy) \in BOOLEAN
      OBVIOUS
    <3> QED BY <1>3, <3>1, ReadRedisKeeps DEF IInv, LinkOK
  <2>2. LinkOK'
    BY <1>3, <2>1 DEF IInv, LinkOK, Ask
  <2> QED BY <1>1, <2>1, <2>2 DEF IInv
<1> QED BY <1>2, <1>3 DEF Ask

\* The first request of a process has its client.
LEMMA CreatedKeeps ==
  ASSUME IInv, NEW c \in Caller, Created(c)
  PROVE  IInv'
<1>1. RedisOK' /\ RestOK'
  BY RedisUnchanged DEF IInv, Created, RestOK
<1>2. LocalOK' /\ CallOK' /\ retryIn' \in [Worker -> 0..ReconnectAfter]
  BY CallFields, ReadRedisKeeps DEF IInv, LinkOK, Created
<1>3. LinkOK'
  BY <1>2 DEF IInv, LinkOK, Created
<1> QED BY <1>1, <1>2, <1>3 DEF IInv

\* The client connects, or fails to.
LEMMA ConnectKeeps ==
  ASSUME IInv, NEW c \in Caller, Connect(c)
  PROVE  IInv'
<1>1. RedisOK' /\ RestOK' /\ LinkOK'
  BY RedisUnchanged DEF IInv, Connect, RestOK, LinkOK
<1>2. CASE Advance(c, "asking", NoCopy) /\ UNCHANGED stores
  BY <1>1, <1>2, AdvanceEmpty, LocalUnchanged DEF IInv, Pcs, RoundTrip
<1>3. CASE ReadLocal(c, call[c].worker, call[c].series, call[c].had)
  BY <1>1, <1>3, CallFields, ReadLocalKeeps DEF IInv
<1> QED BY <1>2, <1>3 DEF Connect

\* Redis answers.
LEMMA RedisGetKeeps ==
  ASSUME IInv, NEW c \in Caller, RedisGet(c)
  PROVE  IInv'
<1>1. RedisOK' /\ RestOK' /\ LinkOK' /\ LocalOK'
  BY RedisUnchanged, LocalUnchanged DEF IInv, RedisGet, RestOK, LinkOK, link
<1>2. Advance(c, "answered", redis[call[c].series])
  BY DEF RedisGet
<1>3. \/ redis[call[c].series] = NoCopy
      \/ redis[call[c].series] \in Copy /\ Saved(redis[call[c].series])
  BY CallFields DEF IInv, RedisOK, RedisAges, Store, Entry
<1>4. CASE redis[call[c].series] = NoCopy
  BY <1>1, <1>2, <1>4, AdvanceEmpty DEF IInv, Pcs, RoundTrip
<1>5. CASE redis[call[c].series] \in Copy /\ Saved(redis[call[c].series])
  BY <1>1, <1>2, <1>5, AdvanceAnswered DEF IInv
<1> QED BY <1>3, <1>4, <1>5

\* The GET fails.
LEMMA RedisGetFailsKeeps ==
  ASSUME IInv, NEW c \in Caller, RedisGetFails(c)
  PROVE  IInv'
<1>1. RedisOK' /\ RestOK' /\ LinkOK'
  BY RedisUnchanged DEF IInv, RedisGetFails, RestOK, LinkOK
<1>2. LocalOK' /\ CallOK'
  BY CallFields, ReadLocalKeeps DEF IInv, RedisGetFails
<1> QED BY <1>1, <1>2 DEF IInv

\* A copy from Redis is put into the memory of the process.
LEMMA RedisReplyKeeps ==
  ASSUME IInv, NEW c \in Caller, RedisReply(c)
  PROVE  IInv'
<1>1. RedisOK' /\ RestOK' /\ LinkOK'
  BY RedisUnchanged DEF IInv, RedisReply, RestOK, LinkOK, link
<1>2. CASE /\ call[c].copy # NoCopy
           /\ memory' = [memory EXCEPT ![call[c].worker] =
                           [@ EXCEPT ![call[c].series] = Mirrored(call[c].copy)]]
           /\ End(c, call[c].worker, call[c].series, "hit", call[c].copy, FALSE)
           /\ UNCHANGED <<fallback, memorySweep, fallbackSweep>>
  <2>0. call[c].copy \in Copy /\ call[c].copy.age <= Ceiling + Patience + call[c].waited
    BY <1>2, CallFields DEF IInv, RedisReply, Carried, Entry
  <2>1. call[c].copy \in Copy /\ call[c].copy.age <= Ceiling + 2 * Patience
    BY <2>0, CallFields, CacheAssumption DEF IInv, Copy
  <2>2. /\ Mirrored(call[c].copy) \in Entry /\ Mirrorable(Mirrored(call[c].copy))
        /\ call[c].copy.age <= Ceiling + FrequencyTtl + 2 * Patience
    BY <2>1, MirroredBounded DEF Entry
  <2>3. memory' \in [Worker -> Store] /\ MemoryAges'
    BY <1>2, <2>2, CallFields, MemorySet DEF IInv
  <2>4. CallOK'
    BY <1>2, <2>1, <2>2, EndHere DEF IInv, Ended, Entry
  <2>5. FallbackAges'
    BY <1>2 DEF IInv, LocalOK, FallbackAges, Live, Saved
  <2>6. LocalOK'
    BY <1>2, <2>3, <2>5 DEF IInv, LocalOK
  <2> QED BY <1>1, <2>4, <2>6 DEF IInv
<1>3. CASE ReadLocal(c, call[c].worker, call[c].series, call[c].had)
  BY <1>1, <1>3, CallFields, ReadLocalKeeps DEF IInv
<1> QED BY <1>2, <1>3 DEF RedisReply

\* Fresh data begin a new life.
LEMMA ProviderAnswersKeeps ==
  ASSUME IInv, NEW c \in Caller, ProviderAnswers(c)
  PROVE  IInv'
<1> PICK single \in BOOLEAN :
      LET w == call[c].worker
          new == [age |-> 0, left |-> SaveTtl(single)]
      IN  \/ /\ connected[w]
             /\ Advance(c, "writing", new)
             /\ UNCHANGED <<retryIn, stores>>
          \/ /\ ~connected[w] /\ retryIn[w] = 0
             /\ retryIn' = [retryIn EXCEPT ![w] = ReconnectAfter]
             /\ Advance(c, "reconnecting", new)
             /\ UNCHANGED stores
          \/ /\ ~connected[w] /\ retryIn[w] > 0
             /\ SaveLocal(c, w, call[c].series, new)
             /\ UNCHANGED retryIn
  BY DEF ProviderAnswers
<1> DEFINE w == call[c].worker
           new == [age |-> 0, left |-> SaveTtl(single)]
<1>1. new \in Copy /\ Fresh(new, call[c].waited) /\ Saved(new)
  <2>1. new \in Copy /\ Fresh(new, call[c].waited)
    BY SaveTtlBounded, CallFields DEF IInv, Fresh
  <2> QED BY <2>1, CallFields, FreshIsSaved DEF IInv
<1>2. RedisOK' /\ RestOK'
  BY RedisUnchanged DEF IInv, ProviderAnswers, RestOK
<1>3. LinkOK'
  BY CacheAssumption DEF IInv, LinkOK, ProviderAnswers
<1> HIDE DEF new
<1>4. CASE Advance(c, "writing", new) /\ UNCHANGED stores
  BY <1>1, <1>2, <1>3, <1>4, AdvanceFresh, LocalUnchanged DEF IInv
<1>5. CASE Advance(c, "reconnecting", new) /\ UNCHANGED stores
  BY <1>1, <1>2, <1>3, <1>5, AdvanceFresh, LocalUnchanged DEF IInv
<1>6. CASE SaveLocal(c, w, call[c].series, new)
  BY <1>1, <1>2, <1>3, <1>6, CallFields, SaveLocalKeeps DEF IInv
<1> QED BY <1>4, <1>5, <1>6 DEF new

\* A reconnection succeeds or fails, with the data that wait to be saved.
LEMMA ReconnectKeeps ==
  ASSUME IInv, NEW c \in Caller, Reconnect(c)
  PROVE  IInv'
<1>1. RedisOK' /\ RestOK' /\ LinkOK'
  BY RedisUnchanged DEF IInv, Reconnect, RestOK, LinkOK
<1>2. call[c].copy \in Copy /\ Fresh(call[c].copy, call[c].waited) /\ Saved(call[c].copy)
  BY CallFields, FreshIsSaved DEF IInv, Reconnect, Carried
<1>3. CASE Advance(c, "writing", call[c].copy) /\ UNCHANGED stores
  BY <1>1, <1>2, <1>3, AdvanceFresh, LocalUnchanged DEF IInv
<1>4. CASE SaveLocal(c, call[c].worker, call[c].series, call[c].copy)
  BY <1>1, <1>2, <1>4, CallFields, SaveLocalKeeps DEF IInv
<1> QED BY <1>3, <1>4 DEF Reconnect

\* Redis takes a copy.
LEMMA RedisSetKeeps ==
  ASSUME IInv, NEW c \in Caller, RedisSet(c)
  PROVE  IInv'
<1>1. RestOK' /\ LinkOK' /\ LocalOK'
  BY LocalUnchanged DEF IInv, RedisSet, RestOK, LinkOK, link
<1>2. call[c].copy \in Copy /\ Fresh(call[c].copy, call[c].waited) /\ Saved(call[c].copy)
  BY CallFields, FreshIsSaved DEF IInv, RedisSet, Carried
<1>3. RedisOK'
  <2>1. redis' \in Store
    BY <1>2 DEF RedisSet, IInv, RedisOK, Store, Entry
  <2>2. \A s \in Series : redis'[s] = redis[s] \/ redis'[s] = call[c].copy
    BY DEF RedisSet, IInv, RedisOK, Store
  <2>3. \A s \in Series : redis'[s] # NoCopy => Saved(redis'[s])
    BY <1>2, <2>2 DEF IInv, RedisOK, RedisAges
  <2> QED BY <2>1, <2>3 DEF RedisOK, RedisAges, Saved
<1>4. CallOK'
  BY <1>2, AdvanceFresh DEF IInv, RedisSet
<1> QED BY <1>1, <1>3, <1>4 DEF IInv

\* The SETEX fails, and the caches of the process take the copy.
LEMMA RedisSetFailsKeeps ==
  ASSUME IInv, NEW c \in Caller, RedisSetFails(c)
  PROVE  IInv'
<1>1. RedisOK' /\ RestOK' /\ LinkOK'
  BY RedisUnchanged DEF IInv, RedisSetFails, RestOK, LinkOK
<1>2. call[c].copy \in Copy /\ Saved(call[c].copy)
  BY CallFields, FreshIsSaved DEF IInv, RedisSetFails, Carried
<1>3. LocalOK' /\ CallOK'
  BY <1>2, CallFields, SaveLocalKeeps DEF IInv, RedisSetFails
<1> QED BY <1>1, <1>3 DEF IInv

\* The memory of the process takes it.
LEMMA SaveInMemoryKeeps ==
  ASSUME IInv, NEW c \in Caller, SaveInMemory(c)
  PROVE  IInv'
<1>1. RedisOK' /\ RestOK' /\ LinkOK'
  BY RedisUnchanged DEF IInv, SaveInMemory, RestOK, LinkOK, link
<1>2. call[c].copy \in Copy /\ Saved(call[c].copy)
  BY CallFields, FreshIsSaved DEF IInv, SaveInMemory, Carried
<1>3. call[c].copy \in Entry /\ Mirrorable(call[c].copy)
  BY <1>2, SavedIsMirrorable DEF Entry
<1>4. memory' \in [Worker -> Store] /\ MemoryAges'
  BY <1>3, CallFields, MemorySet DEF IInv, SaveInMemory, KeepInMemory
<1>5. LocalOK'
  BY <1>4 DEF IInv, LocalOK, SaveInMemory, FallbackAges, Live, Saved
<1>6. CallOK'
  BY EndHere DEF IInv, SaveInMemory, Ended, Entry
<1> QED BY <1>1, <1>5, <1>6 DEF IInv

\* The steps that only move a request: a partial answer, a failure, the last resort.
LEMMA MovesKeep ==
  ASSUME IInv, NEW c \in Caller,
         ProviderAnswersPartly(c) \/ ProviderFails(c) \/ ServeStale(c)
  PROVE  IInv'
<1>1. UNCHANGED <<redis, link, stores, clearing, upsets>>
  BY DEF ProviderAnswersPartly, ProviderFails, ServeStale
<1>2. RedisOK' /\ RestOK' /\ LinkOK' /\ LocalOK'
  BY <1>1, RedisUnchanged, LocalUnchanged DEF IInv, RestOK, LinkOK, link
<1>3. CASE ProviderAnswersPartly(c)
  BY <1>2, <1>3, EndHere DEF IInv, ProviderAnswersPartly, Ended, Entry
<1>4. CASE ProviderFails(c)
  BY <1>2, <1>4, AdvanceEmpty DEF IInv, ProviderFails, Pcs
<1>5. CASE ServeStale(c)
  <2> DEFINE kept == memory[call[c].worker][call[c].series]
  <2>1. kept \in Entry
    BY CallFields DEF IInv, LocalOK, Store
  <2>2. CASE kept # NoCopy
    BY <1>2, <1>5, <2>1, <2>2, EndHere DEF IInv, ServeStale, Ended
  <2>3. CASE kept = NoCopy
    BY <1>2, <1>5, <2>3, AdvanceEmpty DEF IInv, ServeStale, Pcs, Ended
  <2> QED BY <2>2, <2>3
<1> QED BY <1>3, <1>4, <1>5

\* Emptied caches keep every bound.
LEMMA Emptied ==
  ASSUME LocalOK, NEW w \in Worker,
         memory' = [memory EXCEPT ![w] = Empty],
         fallback' = [fallback EXCEPT ![w] = Empty],
         memorySweep' = [memorySweep EXCEPT ![w] = CleanupAfter],
         fallbackSweep' = [fallbackSweep EXCEPT ![w] = CleanupAfter]
  PROVE  LocalOK'
<1>1. Empty \in Store /\ \A s \in Series : ~Live(Empty[s])
  BY DEF Empty, Store, Entry, Live
<1>2. memory' \in [Worker -> Store] /\ MemoryAges'
  BY <1>1, MemoryThinned
<1>3. fallback' \in [Worker -> Store] /\ FallbackAges'
  BY <1>1, FallbackThinned
<1> QED BY <1>2, <1>3, CacheAssumption DEF LocalOK

\* A health check changes no cache.
LEMMA HealthKeeps ==
  ASSUME IInv, NEW w \in Worker, Health(w)
  PROVE  IInv'
BY RedisUnchanged, LocalUnchanged, CallUnchanged DEF IInv, Health, LinkOK, RestOK

\* An empty Redis is within every bound.
LEMMA RedisEmptied ==
  ASSUME RedisOK, redis' \in {redis, Empty}
  PROVE  RedisOK'
<1>1. Empty \in Store /\ \A s \in Series : Empty[s] = NoCopy
  BY DEF Empty, Store, Entry
<1> QED BY <1>1, RedisUnchanged DEF RedisOK, RedisAges

\* Redis is cleared by hand,
LEMMA ClearRedisKeeps ==
  ASSUME IInv, NEW w \in Worker, ClearRedis(w)
  PROVE  IInv'
<1>1. RedisOK'
  BY RedisEmptied DEF IInv, ClearRedis
<1>2. LinkOK'
  BY DEF IInv, LinkOK, ClearRedis
<1>3. RestOK'
  BY CacheAssumption DEF IInv, RestOK, ClearRedis
<1> QED BY <1>1, <1>2, <1>3, LocalUnchanged, CallUnchanged DEF IInv, ClearRedis

\* and so are the caches of a process.
LEMMA ClearLocalKeeps ==
  ASSUME IInv, NEW w \in Worker, ClearLocal(w)
  PROVE  IInv'
<1>1. LocalOK'
  BY Emptied DEF IInv, ClearLocal
<1>2. LinkOK' /\ RestOK'
  BY DEF IInv, LinkOK, RestOK, ClearLocal, link
<1> QED BY <1>1, <1>2, RedisUnchanged, CallUnchanged DEF IInv, ClearLocal

\* A process that restarts has nothing.
LEMMA RestartKeeps ==
  ASSUME IInv, NEW w \in Worker, Restart(w)
  PROVE  IInv'
<1>1. LocalOK'
  BY Emptied DEF IInv, Restart
<1>2. LinkOK' /\ RestOK'
  <2>0. /\ retryIn' = [retryIn EXCEPT ![w] = 0]
        /\ upsets < MaxUpsets /\ upsets' = upsets + 1
    BY DEF Restart
  <2>1. retryIn' \in [Worker -> 0..ReconnectAfter]
    BY <2>0, CacheAssumption DEF IInv, LinkOK
  <2>2. upsets' \in 0..MaxUpsets
    BY <2>0, CacheAssumption DEF IInv, RestOK
  <2>3. clearing' \in [Worker -> BOOLEAN]
    BY DEF IInv, RestOK, Restart
  <2>4. created' \in [Worker -> BOOLEAN] /\ connected' \in [Worker -> BOOLEAN]
    BY DEF IInv, LinkOK, Restart
  <2>5. redisUp' \in BOOLEAN
    BY DEF IInv, LinkOK, Restart
  <2> QED BY <2>1, <2>2, <2>3, <2>4, <2>5 DEF LinkOK, RestOK
<1>3. CallOK'
  <2>1. \A c \in Caller : call'[c] \in Call /\ Carried(call'[c])
    <3> TAKE c \in Caller
    <3> DEFINE k == [call[c] EXCEPT !.pc = "idle", !.copy = NoCopy, !.waited = 0, !.had = FALSE]
    <3>0. 0 \in 0..Patience /\ call[c] \in Call /\ "idle" \in Pcs
      BY CallFields, CacheAssumption DEF IInv, Pcs, Ended
    <3>1. k \in Call /\ k.pc = "idle"
      BY <3>0 DEF Call
    <3>2. Carried(k)
      <4> HIDE DEF k
      <4> QED BY <3>1 DEF Carried
    <3>3. call'[c] = k \/ call'[c] = call[c]
      BY DEF Restart
    <3> HIDE DEF k
    <3> QED BY <3>1, <3>2, <3>3, CallFields DEF IInv
  <2>2. call' \in [Caller -> Call]
    <3>1. call' = [c \in Caller |-> call'[c]]
      BY DEF Restart
    <3> QED BY <2>1, <3>1
  <2> QED BY <2>1, <2>2 DEF CallOK, CallAges, Carried, Fresh
<1> QED BY <1>1, <1>2, <1>3, RedisUnchanged DEF IInv, Restart

\* Redis goes away, comes back, or evicts.
LEMMA RedisStepsKeep ==
  ASSUME IInv, RedisFails \/ RedisReturns \/ \E s \in Series : RedisEvicts(s)
  PROVE  IInv'
<1>1. LocalOK' /\ CallOK' /\ RestOK' /\ LinkOK'
  BY LocalUnchanged, CallUnchanged
     DEF IInv, RestOK, LinkOK, link, RedisFails, RedisReturns, RedisEvicts
<1>2. CASE RedisFails
  BY <1>1, <1>2, RedisUnchanged DEF IInv, RedisFails
<1>3. CASE RedisReturns
  BY <1>1, <1>3, RedisEmptied DEF IInv, RedisReturns
<1>4. ASSUME NEW s \in Series, RedisEvicts(s) PROVE IInv'
  <2>1. redis' \in Store
    BY <1>4 DEF IInv, RedisOK, RedisEvicts, Store, Entry
  <2>2. \A x \in Series : redis'[x] # NoCopy => redis'[x] = redis[x]
    BY <1>4 DEF IInv, RedisOK, RedisEvicts, Store
  <2>3. \A x \in Series : redis'[x] # NoCopy => Saved(redis'[x])
    BY <2>2 DEF IInv, RedisOK, RedisAges
  <2> QED BY <1>1, <2>1, <2>3 DEF IInv, RedisOK, RedisAges, Saved
<1> QED BY <1>2, <1>3, <1>4

\* Growing older does not bring age and remaining life together over a bound.
LEMMA AgedBounded ==
  ASSUME NEW copy \in Entry
  PROVE  /\ Aged(copy) \in Entry
         /\ Live(Aged(copy)) =>
              /\ copy \in Copy /\ Live(copy)
              /\ Aged(copy).left >= 0
              /\ Aged(copy).age + Aged(copy).left <= copy.age + copy.left
<1>1. CASE copy = NoCopy
  BY <1>1 DEF Aged, Entry, Live
<1>2. CASE copy # NoCopy
  <2>1. copy \in Copy /\ copy.age \in 0..MaxAge /\ copy.left \in Int
    BY <1>2 DEF Entry, Copy
  <2> DEFINE older == [age |-> OlderBy1(copy.age),
                       left |-> IF copy.left >= 0 THEN copy.left - 1 ELSE copy.left]
  <2>2. Aged(copy) = older
    BY <1>2 DEF Aged
  <2>3. older \in Copy /\ older.age <= copy.age + 1
    BY <2>1, CacheAssumption DEF Copy, OlderBy1
  <2>4. older.left = IF copy.left >= 0 THEN copy.left - 1 ELSE copy.left
    OBVIOUS
  <2> HIDE DEF older
  <2>5. older.age \in Nat /\ older.left \in Int
    BY <2>3, CacheAssumption DEF Copy
  <2>6. older.left >= 0 => copy.left >= 0 /\ older.age + older.left <= copy.age + copy.left
    BY <2>1, <2>3, <2>4, <2>5, CacheAssumption
  <2> QED BY <1>2, <2>1, <2>2, <2>3, <2>6 DEF Live, Entry
<1> QED BY <1>1, <1>2

\* A tick ages what Redis holds, and expires it.
LEMMA AgedInRedisBounded ==
  ASSUME NEW copy \in Entry, copy # NoCopy => Saved(copy)
  PROVE  /\ AgedInRedis(copy) \in Entry
         /\ AgedInRedis(copy) # NoCopy => Saved(AgedInRedis(copy))
<1>1. CASE copy = NoCopy \/ copy.left <= 1
  BY <1>1 DEF AgedInRedis, Entry
<1>2. CASE ~(copy = NoCopy \/ copy.left <= 1)
  <2>1. copy \in Copy /\ copy.age \in 0..MaxAge /\ copy.left \in Int
    BY <1>2 DEF Entry, Copy
  <2> DEFINE older == [age |-> OlderBy1(copy.age), left |-> copy.left - 1]
  <2>2. AgedInRedis(copy) = older
    BY <1>2 DEF AgedInRedis
  <2>3. older \in Copy /\ older.age <= copy.age + 1 /\ older.left = copy.left - 1
    BY <2>1, CacheAssumption DEF Copy, OlderBy1
  <2> HIDE DEF older
  <2>4. older.age \in Nat /\ older.left \in Int
    BY <2>3, CacheAssumption DEF Copy
  <2>5. copy.age + copy.left <= Ceiling + Patience
    BY <1>2 DEF Saved
  <2>6. older.left >= 0 /\ older.age + older.left <= Ceiling + Patience
    BY <1>2, <2>1, <2>3, <2>4, <2>5, CacheAssumption
  <2> QED BY <2>2, <2>3, <2>6 DEF Saved, Entry
<1> QED BY <1>1, <1>2

\* A request that awaits Redis, and the copy under way, by a tick.
LEMMA WaitingBounded ==
  ASSUME NEW k \in Call, Carried(k), k.pc \in RoundTrip => k.waited < Patience
  PROVE  Waiting(k) \in Call /\ Carried(Waiting(k))
<1>1. CASE k.pc \notin RoundTrip
  BY <1>1 DEF Waiting
<1>2. CASE k.pc \in RoundTrip
  <2> DEFINE old == OnItsWay(k.copy)
             l == [k EXCEPT !.waited = k.waited + 1, !.copy = old]
  <2>1. Waiting(k) = l
    BY <1>2 DEF Waiting
  <2>2. k.waited \in Nat /\ k.waited + 1 \in 0..Patience
    BY <1>2, CacheAssumption DEF Call
  <2>3. k.copy = NoCopy => old = NoCopy
    BY DEF OnItsWay
  <2>4. k.copy # NoCopy => /\ k.copy \in Copy /\ k.copy.age \in Nat /\ old \in Copy
                           /\ old.left = k.copy.left
                           /\ old.age \in Nat /\ old.age <= k.copy.age + 1
    BY CacheAssumption DEF OnItsWay, Call, Copy, OlderBy1
  <2>5. old \in Copy \union {NoCopy}
    BY <2>3, <2>4
  <2> HIDE DEF old
  <2>6. l \in Call
    BY <2>2, <2>5 DEF Call
  <2>7. l.pc = k.pc /\ l.copy = old /\ l.waited = k.waited + 1
    BY DEF Call
  <2> HIDE DEF l
  <2>8. k.pc # "hit"
    BY <1>2 DEF RoundTrip
  <2>9. k.pc = "answered" /\ old # NoCopy => old.age <= Ceiling + Patience + l.waited
    BY <2>2, <2>3, <2>4, <2>7, CacheAssumption DEF Carried
  <2>10. k.pc \in {"reconnecting", "writing", "written"}
         => old \in Copy /\ Fresh(old, l.waited)
    <3> SUFFICES ASSUME k.pc \in {"reconnecting", "writing", "written"}
                 PROVE  old \in Copy /\ Fresh(old, l.waited)
      OBVIOUS
    <3>1. k.copy \in Copy /\ Fresh(k.copy, k.waited)
      BY DEF Carried
    <3>2. CASE k.copy = NoCopy
      <4>1. old = k.copy /\ k.copy.age \in Nat
        BY <3>1, <3>2, <2>3, CacheAssumption DEF Copy
      <4> QED BY <3>1, <4>1, <2>2, <2>7 DEF Fresh
    <3>3. CASE k.copy # NoCopy
      BY <3>1, <3>3, <2>2, <2>4, <2>7, CacheAssumption DEF Fresh
    <3> QED BY <3>2, <3>3
  <2>11. Carried(l)
    BY <2>7, <2>8, <2>9, <2>10 DEF Carried
  <2> QED BY <2>1, <2>6, <2>11
<1> QED BY <1>1, <1>2

\* Everything is older by a tick, the copies and what requests carry.
LEMMA TickKeeps ==
  ASSUME IInv, Tick
  PROVE  IInv'
<1>1. RedisOK'
  <2>1. \A s \in Series : AgedInRedis(redis[s]) \in Entry
                          /\ (AgedInRedis(redis[s]) # NoCopy => Saved(AgedInRedis(redis[s])))
    BY AgedInRedisBounded DEF IInv, RedisOK, RedisAges, Store
  <2> QED BY <2>1 DEF Tick, RedisOK, RedisAges, Store, Saved
<1>2. memory' \in [Worker -> Store] /\ MemoryAges'
  <2>1. \A w \in Worker, s \in Series :
          /\ Aged(memory[w][s]) \in Entry
          /\ Live(Aged(memory[w][s])) => Mirrorable(Aged(memory[w][s]))
    <3> TAKE w \in Worker, s \in Series
    <3> DEFINE copy == memory[w][s]
               old == Aged(copy)
    <3>1. copy \in Entry /\ (Live(copy) => Mirrorable(copy))
      BY DEF IInv, LocalOK, MemoryAges, Store
    <3>2. /\ old \in Entry
          /\ Live(old) => /\ copy \in Copy /\ Live(copy)
                          /\ old.age + old.left <= copy.age + copy.left
      BY <3>1, AgedBounded
    <3>3. Live(old) => Mirrorable(old)
      <4> SUFFICES ASSUME Live(old) PROVE Mirrorable(old)
        OBVIOUS
      <4> HIDE DEF old, copy
      <4>1. old \in Copy /\ copy \in Copy /\ Mirrorable(copy)
        BY <3>1, <3>2 DEF Live, Entry
      <4> QED BY <3>2, <4>1, CacheAssumption DEF Mirrorable, Copy
    <3> QED BY <3>2, <3>3
  <2>2. memory' \in [Worker -> Store]
    BY <2>1 DEF Tick, Store
  <2>3. \A w \in Worker, s \in Series : memory'[w][s] = Aged(memory[w][s])
    BY DEF Tick
  <2>4. \A w \in Worker, s \in Series : Live(memory'[w][s]) => Mirrorable(memory'[w][s])
    BY <2>1, <2>3
  <2> QED BY <2>2, <2>4 DEF MemoryAges, Live, Mirrorable
<1>3. fallback' \in [Worker -> Store] /\ FallbackAges'
  <2>1. \A w \in Worker, s \in Series :
          /\ Aged(fallback[w][s]) \in Entry
          /\ Live(Aged(fallback[w][s])) => Saved(Aged(fallback[w][s]))
    <3> TAKE w \in Worker, s \in Series
    <3> DEFINE copy == fallback[w][s]
               old == Aged(copy)
    <3>1. copy \in Entry /\ (Live(copy) => Saved(copy))
      BY DEF IInv, LocalOK, FallbackAges, Store
    <3>2. /\ old \in Entry
          /\ Live(old) => /\ copy \in Copy /\ Live(copy) /\ old.left >= 0
                          /\ old.age + old.left <= copy.age + copy.left
      BY <3>1, AgedBounded
    <3>3. Live(old) => Saved(old)
      <4> SUFFICES ASSUME Live(old) PROVE Saved(old)
        OBVIOUS
      <4> HIDE DEF old, copy
      <4>1. old \in Copy /\ copy \in Copy /\ Saved(copy)
        BY <3>1, <3>2 DEF Live, Entry
      <4> QED BY <3>2, <4>1, CacheAssumption DEF Saved, Copy
    <3> QED BY <3>2, <3>3
  <2>2. fallback' \in [Worker -> Store]
    BY <2>1 DEF Tick, Store
  <2>3. \A w \in Worker, s \in Series : fallback'[w][s] = Aged(fallback[w][s])
    BY DEF Tick
  <2>4. \A w \in Worker, s \in Series : Live(fallback'[w][s]) => Saved(fallback'[w][s])
    BY <2>1, <2>3
  <2> QED BY <2>2, <2>4 DEF FallbackAges, Live, Saved
<1>4. /\ memorySweep' \in [Worker -> 0..CleanupAfter]
      /\ fallbackSweep' \in [Worker -> 0..CleanupAfter]
  BY CacheAssumption DEF IInv, LocalOK, Tick, LessBy1
<1>5. LinkOK' /\ RestOK'
  BY CacheAssumption DEF IInv, LinkOK, RestOK, Tick, LessBy1
<1>6. CallOK'
  <2>1. \A c \in Caller : call'[c] \in Call /\ Carried(call'[c])
    <3> TAKE c \in Caller
    <3>1. call'[c] = Waiting(call[c])
      BY DEF Tick
    <3>2. call[c] \in Call /\ Carried(call[c])
          /\ (call[c].pc \in RoundTrip => call[c].waited < Patience)
      BY CallFields DEF IInv, Tick
    <3> QED BY <3>1, <3>2, WaitingBounded
  <2>2. call' = [c \in Caller |-> call'[c]]
    BY DEF Tick
  <2>3. call' \in [Caller -> Call]
    BY <2>1, <2>2
  <2> QED BY <2>1, <2>3 DEF CallOK, CallAges, Carried, Fresh
<1> QED BY <1>1, <1>2, <1>3, <1>4, <1>5, <1>6 DEF IInv, LocalOK

\* Every step keeps the invariant.
LEMMA NextIInv == IInv /\ [Next]_vars => IInv'
<1> SUFFICES ASSUME IInv, [Next]_vars PROVE IInv'
  OBVIOUS
<1>1. ASSUME NEW c \in Caller, NEW w \in Worker, NEW s \in Series, Ask(c, w, s) PROVE IInv'
  BY <1>1, AskKeeps
<1>2. ASSUME NEW c \in Caller, Step(c) PROVE IInv'
  BY <1>2, CreatedKeeps, ConnectKeeps, RedisGetKeeps, RedisGetFailsKeeps, RedisReplyKeeps,
     ProviderAnswersKeeps, ReconnectKeeps, RedisSetKeeps, RedisSetFailsKeeps, SaveInMemoryKeeps, MovesKeep DEF Step
<1>3. ASSUME NEW w \in Worker, Health(w) \/ ClearRedis(w) \/ ClearLocal(w) \/ Restart(w)
      PROVE  IInv'
  BY <1>3, HealthKeeps, ClearRedisKeeps, ClearLocalKeeps, RestartKeeps
<1>4. CASE RedisFails \/ RedisReturns \/ \E s \in Series : RedisEvicts(s)
  BY <1>4, RedisStepsKeep
<1>5. CASE Tick
  BY <1>5, TickKeeps
<1>6. CASE UNCHANGED vars
  BY <1>6, LocalUnchanged, RedisUnchanged, CallUnchanged DEF IInv, vars, link, LinkOK, RestOK
<1> QED BY <1>1, <1>2, <1>3, <1>4, <1>5, <1>6 DEF Next

\* So it always holds.
LEMMA IInvAlways == Spec => []IInv
BY InitIInv, NextIInv, PTL DEF Spec

-----------------------------------------------------------------------------
(* The spacing of attempts: the requests of a process that await a         *)
(* reconnect have done so since its attempts of then, the last of which    *)
(* the process has noted.                                                  *)

\* what is left of the interval is at most what an attempt has not waited of it
AttemptNoted ==
  \A c \in Caller :
    Reconnecting(call[c]) => call[c].waited + retryIn[call[c].worker] >= ReconnectAfter

NotYetWaited == \A c \in Caller : call[c].pc = "fetching" => call[c].waited = 0

Attempts == AttemptNoted /\ NotYetWaited /\ AttemptsSpaced

\* a step after which no other request awaits a reconnect than before
Calm ==
  \A d \in Caller :
    /\ Reconnecting(call'[d]) => call'[d] = call[d]
    /\ call'[d].pc = "fetching" => call'[d].waited = 0

\* a request of worker w that begins to await one
Opens(c, w) ==
  /\ \A d \in Caller : d # c => call'[d] = call[d]
  /\ call'[c].worker = w /\ call'[c].waited = 0 /\ Reconnecting(call'[c])
  /\ retryIn[w] = 0 /\ retryIn' = [retryIn EXCEPT ![w] = ReconnectAfter]

\* Steps that begin no attempt leave the others alone.
LEMMA CalmKeeps ==
  ASSUME Attempts, Calm, UNCHANGED retryIn
  PROVE  Attempts'
<1>1. AttemptNoted'
  BY DEF Attempts, AttemptNoted, Calm, Reconnecting
<1>2. AttemptsSpaced'
  BY DEF Attempts, AttemptsSpaced, Calm, Reconnecting
<1>3. NotYetWaited'
  BY DEF NotYetWaited, Calm
<1> QED BY <1>1, <1>2, <1>3 DEF Attempts

\* An attempt begins when those under way have lasted for the interval.
LEMMA OpensKeeps ==
  ASSUME IInv, Attempts, NEW c \in Caller, NEW w \in Worker, Opens(c, w)
  PROVE  Attempts'
<1>1. \A d \in Caller : call[d].worker \in Worker /\ call[d].waited \in Nat
  BY CacheAssumption DEF IInv, CallOK, Call
<1>2. \A d \in Caller : d # c /\ Reconnecting(call[d]) /\ call[d].worker = w =>
        call[d].waited >= ReconnectAfter
  BY <1>1, CacheAssumption DEF Attempts, AttemptNoted, Opens
<1>3. /\ retryIn'[w] = ReconnectAfter /\ retryIn[w] = 0
      /\ \A v \in Worker \ {w} : retryIn'[v] = retryIn[v]
  BY CacheAssumption DEF Opens, IInv, LinkOK
<1>4. AttemptNoted'
  <2> SUFFICES ASSUME NEW d \in Caller, Reconnecting(call'[d])
               PROVE  call'[d].waited + retryIn'[call'[d].worker] >= ReconnectAfter
    BY DEF AttemptNoted, Reconnecting
  <2>1. CASE d = c
    BY <2>1, <1>3, CacheAssumption DEF Opens
  <2>2. CASE d # c
    <3>1. call'[d] = call[d]
          /\ call[d].waited + retryIn[call[d].worker] >= ReconnectAfter
      BY <2>2 DEF Opens, Attempts, AttemptNoted
    <3>2. CASE call[d].worker = w
      BY <2>2, <3>1, <3>2, <1>1, <1>3, CacheAssumption
    <3>3. CASE call[d].worker # w
      BY <2>2, <3>1, <3>3, <1>1, <1>3
    <3> QED BY <3>2, <3>3
  <2> QED BY <2>1, <2>2
<1>5. AttemptsSpaced'
  <2> SUFFICES ASSUME NEW d \in Caller, NEW e \in Caller, d # e,
                      Reconnecting(call'[d]), Reconnecting(call'[e]),
                      call'[d].worker = call'[e].worker,
                      call'[d].waited <= call'[e].waited
               PROVE  call'[d].waited + ReconnectAfter <= call'[e].waited
    BY DEF AttemptsSpaced, Reconnecting
  <2>1. CASE d # c /\ e # c
    BY <2>1 DEF Opens, Attempts, AttemptsSpaced
  <2>2. CASE d = c
    BY <2>2, <1>1, <1>2, CacheAssumption DEF Opens
  <2>3. CASE e = c
    BY <2>3, <1>1, <1>2, CacheAssumption DEF Opens
  <2> QED BY <2>1, <2>2, <2>3
<1>6. NotYetWaited'
  BY DEF Opens, Attempts, NotYetWaited, Reconnecting
<1> QED BY <1>4, <1>5, <1>6 DEF Attempts

\* a request that goes on to anything but a reconnect
Moves(c) ==
  /\ \A d \in Caller : d # c => call'[d] = call[d]
  /\ ~Reconnecting(call'[c])
  /\ call'[c].pc = "fetching" => call'[c].waited = 0

\* Such a request leaves the attempts as they are,
LEMMA MovesKeepAttempts ==
  ASSUME Attempts, NEW c \in Caller, Moves(c), UNCHANGED retryIn
  PROVE  Attempts'
<1>1. Calm
  BY DEF Calm, Moves, Attempts, NotYetWaited
<1> QED BY <1>1, CalmKeeps

\* and so does one that keeps on waiting.
LEMMA AdvanceMoves ==
  ASSUME IInv, NEW c \in Caller, NEW pc, NEW copy,
         pc \notin {"connecting", "reconnecting", "fetching"}, Advance(c, pc, copy)
  PROVE  Moves(c)
<1>1. \A d \in Caller : d # c => call'[d] = call[d]
  BY DEF IInv, CallOK, Advance
<1>2. call'[c].pc = pc
  BY DEF IInv, CallOK, Call, Advance
<1> QED BY <1>1, <1>2 DEF Moves, Reconnecting

\* The caches of a process send a request to its end or to the provider.
LEMMA ReadLocalMoves ==
  ASSUME IInv, NEW c \in Caller, NEW w, NEW s, NEW had, ReadLocal(c, w, s, had)
  PROVE  Moves(c)
<1>1. \A d \in Caller : d # c => call'[d] = call[d]
  BY DEF ReadLocal, End, IInv, CallOK
<1>2. call'[c].pc \in {"hit", "fetching"} /\ call'[c].waited = 0
  BY DEF ReadLocal, End, IInv, CallOK
<1> QED BY <1>1, <1>2 DEF Moves, Reconnecting

\* A request that reads from Redis may begin one.
LEMMA ReadRedisAttempts ==
  ASSUME IInv, Attempts, NEW c \in Caller, NEW w \in Worker, NEW s, NEW had,
         ReadRedis(c, w, s, had)
  PROVE  Attempts'
<1>1. CASE End(c, w, s, "asking", NoCopy, had) /\ UNCHANGED retryIn
  <2>1. Moves(c)
    BY <1>1 DEF Moves, Reconnecting, End, IInv, CallOK
  <2> QED BY <1>1, <2>1, MovesKeepAttempts
<1>2. CASE /\ retryIn[w] = 0 /\ retryIn' = [retryIn EXCEPT ![w] = ReconnectAfter]
           /\ End(c, w, s, "connecting", NoCopy, had)
  <2>1. Opens(c, w)
    BY <1>2 DEF Opens, End, Reconnecting, IInv, CallOK
  <2> QED BY <2>1, OpensKeeps
<1>3. CASE ReadLocal(c, w, s, had) /\ UNCHANGED retryIn
  BY <1>3, ReadLocalMoves, MovesKeepAttempts
<1> QED BY <1>1, <1>2, <1>3 DEF ReadRedis

\* A request that may begin one to save what it has fetched.
LEMMA ProviderAnswersAttempts ==
  ASSUME IInv, Attempts, NEW c \in Caller, ProviderAnswers(c)
  PROVE  Attempts'
<1> DEFINE w == call[c].worker
<1>1. PICK single \in BOOLEAN :
       LET new == [age |-> 0, left |-> SaveTtl(single)]
       IN  \/ Advance(c, "writing", new) /\ UNCHANGED retryIn
           \/ /\ retryIn[w] = 0
              /\ retryIn' = [retryIn EXCEPT ![w] = ReconnectAfter]
              /\ Advance(c, "reconnecting", new)
           \/ SaveLocal(c, w, call[c].series, new) /\ UNCHANGED retryIn
  BY DEF ProviderAnswers
<1> DEFINE new == [age |-> 0, left |-> SaveTtl(single)]
<1>2. CASE Advance(c, "writing", new) /\ UNCHANGED retryIn
  BY <1>2, AdvanceMoves, MovesKeepAttempts
<1>3. CASE /\ retryIn[w] = 0 /\ retryIn' = [retryIn EXCEPT ![w] = ReconnectAfter]
           /\ Advance(c, "reconnecting", new)
  <2>1. call[c].worker \in Worker /\ call[c].waited = 0
    BY CallFields DEF IInv, Attempts, NotYetWaited, ProviderAnswers
  <2>2. Opens(c, w)
    BY <1>3, <2>1 DEF Opens, Advance, Reconnecting, IInv, CallOK, Call
  <2> QED BY <2>1, <2>2, OpensKeeps
<1>4. CASE SaveLocal(c, w, call[c].series, new) /\ UNCHANGED retryIn
  <2>1. Moves(c)
    BY <1>4 DEF Moves, Reconnecting, SaveLocal, End, IInv, CallOK
  <2> QED BY <1>4, <2>1, MovesKeepAttempts
<1> QED BY <1>1, <1>2, <1>3, <1>4

\* Every other step of a request begins none.
LEMMA OtherStepsMove ==
  ASSUME IInv, NEW c \in Caller,
         \/ Connect(c) \/ RedisGet(c) \/ RedisGetFails(c) \/ RedisReply(c)
         \/ ProviderAnswersPartly(c) \/ ProviderFails(c) \/ Reconnect(c) \/ RedisSet(c)
         \/ RedisSetFails(c) \/ SaveInMemory(c) \/ ServeStale(c)
  PROVE  Moves(c) /\ UNCHANGED retryIn
<1>1. CASE Connect(c)
  BY <1>1, AdvanceMoves, ReadLocalMoves DEF Connect
<1>2. CASE RedisGet(c)
  BY <1>2, AdvanceMoves DEF RedisGet, link
<1>3. CASE RedisGetFails(c)
  BY <1>3, ReadLocalMoves DEF RedisGetFails
<1>4. CASE RedisReply(c)
  <2>1. CASE End(c, call[c].worker, call[c].series, "hit", call[c].copy, FALSE)
    BY <1>4, <2>1 DEF RedisReply, link, Moves, Reconnecting, End, IInv, CallOK
  <2>2. CASE ReadLocal(c, call[c].worker, call[c].series, call[c].had)
    BY <1>4, <2>2, ReadLocalMoves DEF RedisReply, link
  <2> QED BY <1>4, <2>1, <2>2 DEF RedisReply
<1>5. CASE ProviderAnswersPartly(c)
  BY <1>5 DEF ProviderAnswersPartly, link, Moves, Reconnecting, End, IInv, CallOK
<1>6. CASE ProviderFails(c)
  BY <1>6, AdvanceMoves DEF ProviderFails, link
<1>7. CASE Reconnect(c)
  <2>1. CASE Advance(c, "writing", call[c].copy)
    BY <1>7, <2>1, AdvanceMoves DEF Reconnect
  <2>2. CASE SaveLocal(c, call[c].worker, call[c].series, call[c].copy)
    BY <1>7, <2>2 DEF Reconnect, Moves, Reconnecting, SaveLocal, End, IInv, CallOK
  <2> QED BY <1>7, <2>1, <2>2 DEF Reconnect
<1>8. CASE RedisSet(c)
  BY <1>8, AdvanceMoves DEF RedisSet, link
<1>9. CASE RedisSetFails(c)
  BY <1>9 DEF RedisSetFails, Moves, Reconnecting, SaveLocal, End, IInv, CallOK
<1>10. CASE SaveInMemory(c)
  BY <1>10 DEF SaveInMemory, link, Moves, Reconnecting, End, IInv, CallOK
<1>11. CASE ServeStale(c)
  <2>1. CASE Advance(c, "nothing", NoCopy)
    BY <1>11, <2>1, AdvanceMoves DEF ServeStale, link
  <2>2. CASE End(c, call[c].worker, call[c].series, "stale",
                 memory[call[c].worker][call[c].series], FALSE)
    BY <1>11, <2>2 DEF ServeStale, link, Moves, Reconnecting, End, IInv, CallOK
  <2> QED BY <1>11, <2>1, <2>2 DEF ServeStale
<1> QED BY <1>1, <1>2, <1>3, <1>4, <1>5, <1>6, <1>7, <1>8, <1>9, <1>10, <1>11

\* Every step of a request.
LEMMA StepAttempts ==
  ASSUME IInv, Attempts, NEW c \in Caller, Step(c)
  PROVE  Attempts'
<1>1. CASE Created(c)
  BY <1>1, CallFields, ReadRedisAttempts DEF IInv, Created
<1>2. CASE ProviderAnswers(c)
  BY <1>2, ProviderAnswersAttempts
<1>3. CASE ~Created(c) /\ ~ProviderAnswers(c)
  <2>1. Moves(c) /\ UNCHANGED retryIn
    BY <1>3, OtherStepsMove DEF Step
  <2> QED BY <2>1, MovesKeepAttempts
<1> QED BY <1>1, <1>2, <1>3

\* A restart ends the attempts of its process.
LEMMA RestartAttempts ==
  ASSUME IInv, Attempts, NEW w \in Worker, Restart(w)
  PROVE  Attempts'
<1>1. \A d \in Caller : Reconnecting(call'[d]) => call'[d] = call[d] /\ call[d].worker # w
  BY DEF Restart, Reconnecting, IInv, CallOK, Call
<1>2. \A v \in Worker : v # w => retryIn'[v] = retryIn[v]
  BY DEF Restart, IInv, LinkOK
<1>3. \A d \in Caller : call[d].worker \in Worker
  BY DEF IInv, CallOK, Call
<1>4. AttemptNoted'
  BY <1>1, <1>2, <1>3 DEF Attempts, AttemptNoted, Reconnecting
<1>5. AttemptsSpaced'
  BY <1>1 DEF Attempts, AttemptsSpaced, Reconnecting
<1>6. NotYetWaited'
  BY DEF Restart, Attempts, NotYetWaited, IInv, CallOK, Call
<1> QED BY <1>4, <1>5, <1>6 DEF Attempts

\* A tick brings the end of the interval nearer and lets the attempts wait.
LEMMA TickAttempts ==
  ASSUME IInv, Attempts, Tick
  PROVE  Attempts'
<1>1. \A d \in Caller :
        /\ call'[d].pc = call[d].pc /\ call'[d].worker = call[d].worker
        /\ call[d].waited \in Nat /\ call[d].worker \in Worker
        /\ call'[d].waited = IF call[d].pc \in RoundTrip THEN call[d].waited + 1
                             ELSE call[d].waited
  <2> TAKE d \in Caller
  <2>1. call'[d] = Waiting(call[d]) /\ call[d] \in Call
    BY CallFields DEF Tick, IInv
  <2> QED BY <2>1, CacheAssumption DEF Waiting, Call
<1>2. \A w \in Worker : /\ retryIn[w] \in Nat /\ retryIn'[w] \in Nat
                        /\ retryIn'[w] + 1 >= retryIn[w]
  BY CacheAssumption DEF Tick, IInv, LinkOK, LessBy1
<1>3. \A d \in Caller : Reconnecting(call[d]) => call'[d].waited = call[d].waited + 1
  BY <1>1 DEF Reconnecting, RoundTrip
<1>4. AttemptNoted'
  <2> SUFFICES ASSUME NEW d \in Caller, Reconnecting(call'[d])
               PROVE  call'[d].waited + retryIn'[call'[d].worker] >= ReconnectAfter
    BY DEF AttemptNoted, Reconnecting
  <2>1. Reconnecting(call[d]) /\ call'[d].waited = call[d].waited + 1
    BY <1>1, <1>3 DEF Reconnecting
  <2>2. call[d].waited + retryIn[call[d].worker] >= ReconnectAfter
    BY <2>1 DEF Attempts, AttemptNoted
  <2>3. call'[d].worker = call[d].worker /\ call[d].worker \in Worker
    BY <1>1
  <2> QED BY <1>1, <1>2, <2>1, <2>2, <2>3, CacheAssumption
<1>5. AttemptsSpaced'
  <2> SUFFICES ASSUME NEW d \in Caller, NEW e \in Caller, d # e,
                      Reconnecting(call'[d]), Reconnecting(call'[e]),
                      call'[d].worker = call'[e].worker,
                      call'[d].waited <= call'[e].waited
               PROVE  call'[d].waited + ReconnectAfter <= call'[e].waited
    BY DEF AttemptsSpaced, Reconnecting
  <2>1. /\ Reconnecting(call[d]) /\ call'[d].waited = call[d].waited + 1
        /\ Reconnecting(call[e]) /\ call'[e].waited = call[e].waited + 1
    BY <1>1, <1>3 DEF Reconnecting
  <2>2. call[d].worker = call[e].worker /\ call[d].waited <= call[e].waited
    BY <1>1, <2>1
  <2>3. call[d].waited + ReconnectAfter <= call[e].waited
    BY <2>1, <2>2 DEF Attempts, AttemptsSpaced
  <2> QED BY <1>1, <2>1, <2>3, CacheAssumption
<1>6. NotYetWaited'
  BY <1>1 DEF Attempts, NotYetWaited, RoundTrip
<1> QED BY <1>4, <1>5, <1>6 DEF Attempts

\* Every step keeps attempts apart.
LEMMA NextAttempts == IInv /\ Attempts /\ [Next]_vars => Attempts'
<1> SUFFICES ASSUME IInv, Attempts, [Next]_vars PROVE Attempts'
  OBVIOUS
<1>0. UNCHANGED <<call, retryIn>> => Attempts'
  BY DEF Attempts, AttemptNoted, NotYetWaited, AttemptsSpaced, Reconnecting
<1>1. ASSUME NEW c \in Caller, NEW w \in Worker, NEW s \in Series, Ask(c, w, s)
      PROVE  Attempts'
  <2>1. CASE End(c, w, s, "creating", NoCopy, memory[w][s] # NoCopy) /\ UNCHANGED retryIn
    <3>1. Moves(c)
      BY <2>1 DEF Moves, Reconnecting, End, IInv, CallOK
    <3> QED BY <2>1, <3>1, MovesKeepAttempts
  <2>2. CASE ReadRedis(c, w, s, memory[w][s] # NoCopy)
    BY <2>2, ReadRedisAttempts
  <2> QED BY <1>1, <2>1, <2>2 DEF Ask
<1>2. ASSUME NEW c \in Caller, Step(c) PROVE Attempts'
  BY <1>2, StepAttempts
<1>3. ASSUME NEW w \in Worker, Health(w) \/ ClearRedis(w) \/ ClearLocal(w) PROVE Attempts'
  BY <1>0, <1>3 DEF Health, ClearRedis, ClearLocal, link
<1>4. ASSUME NEW w \in Worker, Restart(w) PROVE Attempts'
  BY <1>4, RestartAttempts
<1>5. CASE RedisFails \/ RedisReturns \/ \E s \in Series : RedisEvicts(s)
  BY <1>0, <1>5 DEF RedisFails, RedisReturns, RedisEvicts, link
<1>6. CASE Tick
  BY <1>6, TickAttempts
<1>7. CASE UNCHANGED vars
  BY <1>0, <1>7 DEF vars, link
<1> QED BY <1>1, <1>2, <1>3, <1>4, <1>5, <1>6, <1>7 DEF Next

-----------------------------------------------------------------------------
(* Theorems.                                                               *)

\* The variables keep their types: no store ever holds anything but copies, no
\* countdown leaves its range, whatever Redis, restarts and clears do.
THEOREM TypeCorrect == Spec => []TypeOK
<1>1. IInv => TypeOK
  BY DEF IInv, LocalOK, LinkOK, RedisOK, CallOK, RestOK, TypeOK, Store, Entry
<1> QED BY <1>1, IInvAlways, PTL

\* No cache hit is older than the ceiling plus the frequency ttl, and the time its
\* data awaited Redis on the way there and back: see _save_to_cache and the
\* mirroring in _get_from_cache of query.py.
THEOREM TwoLives == Spec => []HitsWithinTwoLives
<1>1. IInv => HitsWithinTwoLives
  BY DEF IInv, CallOK, CallAges, Carried, HitsWithinTwoLives
<1> QED BY <1>1, IInvAlways, PTL

\* What is in Redis or in a fallback cache of redis_cache.py is gone before it
\* is older than the provider's ceiling and the time that its save awaited Redis.
THEOREM SavedTiersWithinCeiling == Spec => []CeilingBoundsSavedTiers
<1>1. IInv => CeilingBoundsSavedTiers
  BY DEF IInv, LocalOK, RedisOK, RedisAges, FallbackAges, Saved, CeilingBoundsSavedTiers
<1> QED BY <1>1, IInvAlways, PTL

\* Of two requests of a process that await a reconnect, one began it at least an
\* interval before the other, for any numbers of both and however long a reconnect
\* lasts: _maybe_reconnect of redis_cache.py notes its attempt before it awaits.
THEOREM AttemptsAlwaysSpaced == Spec => []AttemptsSpaced
<1>1. Init => Attempts
  <2> SUFFICES ASSUME Init PROVE Attempts
    OBVIOUS
  <2>1. \A c \in Caller : call[c].pc = "idle"
    BY DEF Init
  <2> QED BY <2>1 DEF Attempts, AttemptNoted, NotYetWaited, AttemptsSpaced, Reconnecting
<1>2. Attempts => AttemptsSpaced
  BY DEF Attempts
<1> QED BY <1>1, <1>2, NextAttempts, IInvAlways, PTL DEF Spec
=============================================================================
