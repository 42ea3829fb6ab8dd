------------------------------ MODULE DataCache ------------------------------
(***************************************************************************)
(* The cache in front of the data providers (backend/services/cache.py,    *)
(* redis_cache.py and the cache methods of query.py), as fetch_data of     *)
(* data_fetcher.py uses it.  Every worker process has two CacheServices:   *)
(* the module's cache_service, here memory, and the fallback_cache of its  *)
(* RedisCacheService.  All workers share one Redis.                        *)
(*                                                                         *)
(* A copy of a series is its age since the provider answered and the ticks *)
(* it has left before it expires (-1: expired, but still stored).  A Redis *)
(* command is as long as its timeouts and retries make it, at most         *)
(* Patience ticks with the connect() before it; one that redis-py repeats  *)
(* is taken for its last execution.                                        *)
(***************************************************************************)
EXTENDS Integers, FiniteSets, FiniteSetsExt

CONSTANTS Worker,          \* backend processes
          Caller,          \* concurrent requests
          Series,          \* cache keys: a provider with its parameters
          NoCopy,          \* no entry
          Ceiling,         \* ttl_config[provider]
          FrequencyTtl,    \* _ttl_for_frequency of the series' frequency
          DefaultTtl,      \* DEFAULT_TTL
          ReconnectAfter,  \* RECONNECT_INTERVAL
          Patience,        \* ticks that a request awaits Redis for, at most
          CleanupAfter,    \* CLEANUP_INTERVAL
          MaxEntries,      \* MAX_CACHE_ENTRIES
          EvictBatch,      \* the 10 of to_remove
          MaxAge,          \* bound of the model: ages are counted up to it
          MaxUpsets        \* bound of the model: restarts and clears

ASSUME CacheAssumption ==
  /\ IsFiniteSet(Series)
  /\ Ceiling \in Nat \ {0} /\ FrequencyTtl \in Nat \ {0} /\ DefaultTtl \in Nat \ {0}
  /\ ReconnectAfter \in Nat \ {0} /\ Patience \in Nat /\ CleanupAfter \in Nat
  /\ MaxEntries \in Nat /\ EvictBatch \in Nat \ {0}
  /\ MaxAge \in Nat /\ MaxUpsets \in Nat

VARIABLES redis,      \* redis[s]: the copy that Redis holds
          redisUp,    \* whether Redis can be reached
          created,    \* created[w]: get_redis_cache has made its instance
          connected,  \* connected[w]: _connected
          retryIn,    \* retryIn[w]: ticks until _maybe_reconnect tries again
          memory,     \* memory[w][s]: cache_service
          fallback,   \* fallback[w][s]: RedisCacheService.fallback_cache
          memorySweep, fallbackSweep,  \* ticks until their next cleanup
          clearing,   \* clearing[w]: /api/cache/clear has flushed Redis
          call,       \* call[c]: the request of caller c
          upsets      \* restarts and clears so far

stores == <<memory, fallback, memorySweep, fallbackSweep>>
link == <<redisUp, created, connected, retryIn>>
vars == <<redis, link, stores, clearing, call, upsets>>

Copy == [age : 0..MaxAge, left : Int]

Ended == {"idle", "hit", "fresh", "stale", "nothing"}
RoundTrip == {"creating", "connecting", "asking", "answered", "reconnecting", "writing", "written"}
Pcs == Ended \union RoundTrip \union {"fetching", "failed"}

\* waited: the ticks since it first awaited Redis, for its GET or for its SETEX;
\* had: a ghost, whether the worker's memory held a copy when the request began
Call == [pc : Pcs, worker : Worker, series : Series, copy : Copy \union {NoCopy},
         waited : 0..Patience, had : BOOLEAN]

Empty == [s \in Series |-> NoCopy]

Init ==
  /\ redis = Empty
  /\ redisUp \in BOOLEAN
  /\ created = [w \in Worker |-> FALSE]
  /\ connected = [w \in Worker |-> FALSE]
  /\ retryIn = [w \in Worker |-> 0]
  /\ memory = [w \in Worker |-> Empty] /\ fallback = [w \in Worker |-> Empty]
  /\ memorySweep = [w \in Worker |-> CleanupAfter]
  /\ fallbackSweep = [w \in Worker |-> CleanupAfter]
  /\ clearing = [w \in Worker |-> FALSE]
  /\ \E w \in Worker, s \in Series :
       call = [c \in Caller |->
                 [pc |-> "idle", worker |-> w, series |-> s, copy |-> NoCopy,
                  waited |-> 0, had |-> FALSE]]
  /\ upsets = 0

-----------------------------------------------------------------------------
(* CacheService: a store is a function from series to copies.              *)

\* mutant: a read that does not look at the expiry
LiveForEver(copy) == copy # NoCopy

Live(copy) == copy # NoCopy /\ copy.left >= 0

WithoutExpired(store) == [s \in Series |-> IF Live(store[s]) THEN store[s] ELSE NoCopy]

Held(store) == {s \in Series : store[s] # NoCopy}

\* the entries that a full cache drops: those that expire first
Victims(store) ==
  {V \in SUBSET Held(store) :
     /\ Cardinality(V) = LET tenth == Cardinality(Held(store)) \div 10
                             batch == IF tenth > EvictBatch THEN tenth ELSE EvictBatch
                         IN  IF batch < Cardinality(Held(store))
                             THEN batch ELSE Cardinality(Held(store))
     /\ \A v \in V, s \in Held(store) \ V : store[v].left <= store[s].left}

\* what _maybe_cleanup may make of a store
Swept(store, due) ==
  IF ~due THEN {store}
  ELSE LET rest == WithoutExpired(store)
       IN  IF Cardinality(Held(rest)) <= MaxEntries THEN {rest}
           ELSE {[s \in Series |-> IF s \in V THEN NoCopy ELSE rest[s]] : V \in Victims(rest)}

\* a read pops the entry it finds expired
Popped(store, s) == IF Live(store[s]) THEN store ELSE [store EXCEPT ![s] = NoCopy]

SweepAfter(left) == IF left = 0 THEN CleanupAfter ELSE left

\* cache_data without a ttl: the copy gets the life of its frequency anew
Mirrored(copy) == [copy EXCEPT !.left = FrequencyTtl]

\* mutant: a save under the ttl of the frequency alone
SaveTtlOfFrequency(single) == FrequencyTtl

\* the one ttl for both tiers; a payload of one series is no list, and then
\* _save_to_cache does not look at its frequency
SaveTtl(single) ==
  LET life == IF single THEN DefaultTtl ELSE FrequencyTtl
  IN  IF life < Ceiling THEN life ELSE Ceiling

-----------------------------------------------------------------------------
(* A request: reading the tiers.                                           *)

End(c, w, s, pc, copy, had) ==
  call' = [call EXCEPT ![c] =
             [pc |-> pc, worker |-> w, series |-> s, copy |-> copy,
              waited |-> 0, had |-> had]]

Advance(c, pc, copy) == call' = [call EXCEPT ![c].pc = pc, ![c].copy = copy]

\* Redis gave nothing: its fallback cache, whose hit is mirrored like Redis's
\* own, then memory, then the provider
ReadLocal(c, w, s, had) ==
  \E f \in Swept(fallback[w], fallbackSweep[w] = 0) :
    /\ fallback' = [fallback EXCEPT ![w] = Popped(f, s)]
    /\ fallbackSweep' = [fallbackSweep EXCEPT ![w] = SweepAfter(@)]
    /\ \/ /\ Live(f[s])
          /\ memory' = [memory EXCEPT ![w] = [@ EXCEPT ![s] = Mirrored(f[s])]]
          /\ End(c, w, s, "hit", f[s], FALSE)
          /\ UNCHANGED memorySweep
       \/ /\ ~Live(f[s])
          /\ \E m \in Swept(memory[w], memorySweep[w] = 0) :
               /\ memory' = [memory EXCEPT ![w] = Popped(m, s)]
               /\ IF Live(m[s]) THEN End(c, w, s, "hit", m[s], FALSE)
                  ELSE End(c, w, s, "fetching", NoCopy, had)
          /\ memorySweep' = [memorySweep EXCEPT ![w] = SweepAfter(@)]

\* mutant: nothing on the request path reconnects
ReadRedisNoReconnect(c, w, s, had) ==
  /\ IF connected'[w] THEN End(c, w, s, "asking", NoCopy, had) /\ UNCHANGED stores
     ELSE ReadLocal(c, w, s, had)
  /\ UNCHANGED retryIn

\* mutant: the attempt is not noted before connect() is awaited
ReadRedisUngated(c, w, s, had) ==
  /\ \/ /\ connected'[w]
        /\ End(c, w, s, "asking", NoCopy, had)
        /\ UNCHANGED stores
     \/ /\ ~connected'[w] /\ retryIn[w] = 0
        /\ End(c, w, s, "connecting", NoCopy, had)
        /\ UNCHANGED stores
     \/ /\ ~connected'[w] /\ retryIn[w] > 0
        /\ ReadLocal(c, w, s, had)
  /\ UNCHANGED retryIn

\* RedisCacheService.get with its _maybe_reconnect, up to its first await
ReadRedis(c, w, s, had) ==
  \/ /\ connected'[w]
     /\ End(c, w, s, "asking", NoCopy, had)
     /\ UNCHANGED <<retryIn, stores>>
  \/ /\ ~connected'[w] /\ retryIn[w] = 0
     /\ retryIn' = [retryIn EXCEPT ![w] = ReconnectAfter]
     /\ End(c, w, s, "connecting", NoCopy, had)
     /\ UNCHANGED stores
  \/ /\ ~connected'[w] /\ retryIn[w] > 0
     /\ ReadLocal(c, w, s, had)
     /\ UNCHANGED retryIn

\* A request at worker w enters _get_from_cache.  The first one of a process
\* makes the RedisCacheService and awaits its connect(); the others go on.
Ask(c, w, s) ==
  /\ call[c].pc \in Ended
  /\ UNCHANGED connected
  /\ \/ /\ ~created[w]
        /\ created' = [created EXCEPT ![w] = TRUE]
        /\ End(c, w, s, "creating", NoCopy, memory[w][s] # NoCopy)
        /\ UNCHANGED <<retryIn, stores>>
     \/ /\ created[w]
        /\ ReadRedis(c, w, s, memory[w][s] # NoCopy)
        /\ UNCHANGED created
  /\ UNCHANGED <<redis, redisUp, clearing, upsets>>

\* get_redis_cache returns to the request that made the instance
Created(c) ==
  /\ call[c].pc = "creating"
  /\ connected' = [connected EXCEPT ![call[c].worker] = @ \/ redisUp]
  /\ ReadRedis(c, call[c].worker, call[c].series, call[c].had)
  /\ UNCHANGED <<redis, redisUp, created, clearing, upsets>>

\* connect() returns to the read that awaited it
Connect(c) ==
  /\ call[c].pc = "connecting"
  /\ connected' = [connected EXCEPT ![call[c].worker] = @ \/ redisUp]
  /\ \/ /\ connected'[call[c].worker]
        /\ Advance(c, "asking", NoCopy)
        /\ UNCHANGED stores
     \/ /\ ~connected'[call[c].worker]
        /\ ReadLocal(c, call[c].worker, call[c].series, call[c].had)
  /\ UNCHANGED <<redis, redisUp, created, retryIn, clearing, upsets>>

\* Redis executes the GET
RedisGet(c) ==
  /\ call[c].pc = "asking"
  /\ redisUp
  /\ Advance(c, "answered", redis[call[c].series])
  /\ UNCHANGED <<redis, link, stores, clearing, upsets>>

\* the GET fails, before Redis saw it or after
RedisGetFails(c) ==
  /\ call[c].pc \in {"asking", "answered"}
  /\ ~redisUp
  /\ connected' = [connected EXCEPT ![call[c].worker] = FALSE]
  /\ ReadLocal(c, call[c].worker, call[c].series, call[c].had)
  /\ UNCHANGED <<redis, redisUp, created, retryIn, clearing, upsets>>

\* the answer of Redis reaches the request: a hit is mirrored into memory
RedisReply(c) ==
  /\ call[c].pc = "answered"
  /\ \/ /\ call[c].copy # NoCopy
        /\ memory' = [memory EXCEPT ![call[c].worker] =
                        [@ EXCEPT ![call[c].series] = Mirrored(call[c].copy)]]
        /\ End(c, call[c].worker, call[c].series, "hit", call[c].copy, FALSE)
        /\ UNCHANGED <<fallback, memorySweep, fallbackSweep>>
     \/ /\ call[c].copy = NoCopy
        /\ ReadLocal(c, call[c].worker, call[c].series, call[c].had)
  /\ UNCHANGED <<redis, link, clearing, upsets>>

-----------------------------------------------------------------------------
(* A request: fetching and saving.                                         *)

KeepInMemory(w, s, copy) ==
  memory' = [memory EXCEPT ![w] = [@ EXCEPT ![s] = copy]]

\* Redis did not take the copy: its fallback cache does, and memory
SaveLocal(c, w, s, copy) ==
  /\ fallback' = [fallback EXCEPT ![w] = [@ EXCEPT ![s] = copy]]
  /\ KeepInMemory(w, s, copy)
  /\ End(c, w, s, "fresh", NoCopy, FALSE)
  /\ UNCHANGED <<memorySweep, fallbackSweep>>

\* The provider answers and _save_to_cache starts, up to its first await.
ProviderAnswers(c) ==
  /\ call[c].pc = "fetching"
  /\ \E single \in BOOLEAN :
       LET w == call[c].worker
           new == [age |-> 0, left |-> SaveTtl(single)]
       IN  \/ /\ connected[w]
              /\ Advance(c, "writing", new)
              /\ UNCHANGED <<retryIn, stores>>
           \/ /\ ~connected[w] /\ retryIn[w] = 0
              /\ retryIn' = [retryIn EXCEPT ![w] = ReconnectAfter]
              /\ Advance(c, "reconnecting", new)
              /\ UNCHANGED stores
           \/ /\ ~connected[w] /\ retryIn[w] > 0
              /\ SaveLocal(c, w, call[c].series, new)
              /\ UNCHANGED retryIn
  /\ UNCHANGED <<redis, redisUp, created, connected, clearing, upsets>>

\* the answer lacks some of the countries, or comes from a fallback provider
\* under its own key: nothing is saved here
ProviderAnswersPartly(c) ==
  /\ call[c].pc = "fetching"
  /\ End(c, call[c].worker, call[c].series, "fresh", NoCopy, FALSE)
  /\ UNCHANGED <<redis, link, stores, clearing, upsets>>

\* connect() returns to the save that awaited it
Reconnect(c) ==
  /\ call[c].pc = "reconnecting"
  /\ connected' = [connected EXCEPT ![call[c].worker] = @ \/ redisUp]
  /\ \/ /\ connected'[call[c].worker]
        /\ Advance(c, "writing", call[c].copy)
        /\ UNCHANGED stores
     \/ /\ ~connected'[call[c].worker]
        /\ SaveLocal(c, call[c].worker, call[c].series, call[c].copy)
  /\ UNCHANGED <<redis, redisUp, created, retryIn, clearing, upsets>>

\* Redis executes the SETEX
RedisSet(c) ==
  /\ call[c].pc = "writing"
  /\ redisUp
  /\ redis' = [redis EXCEPT ![call[c].series] = call[c].copy]
  /\ Advance(c, "written", call[c].copy)
  /\ UNCHANGED <<link, stores, clearing, upsets>>

\* the SETEX fails, before Redis saw it or after
RedisSetFails(c) ==
  /\ call[c].pc \in {"writing", "written"}
  /\ ~redisUp
  /\ connected' = [connected EXCEPT ![call[c].worker] = FALSE]
  /\ SaveLocal(c, call[c].worker, call[c].series, call[c].copy)
  /\ UNCHANGED <<redis, redisUp, created, retryIn, clearing, upsets>>

\* the SETEX returns and _save_to_cache writes the memory copy
SaveInMemory(c) ==
  /\ call[c].pc = "written"
  /\ KeepInMemory(call[c].worker, call[c].series, call[c].copy)
  /\ End(c, call[c].worker, call[c].series, "fresh", NoCopy, FALSE)
  /\ UNCHANGED <<redis, link, fallback, memorySweep, fallbackSweep, clearing, upsets>>

\* the provider, its retries and its alternatives all fail
ProviderFails(c) ==
  /\ call[c].pc = "fetching"
  /\ Advance(c, "failed", NoCopy)
  /\ UNCHANGED <<redis, link, stores, clearing, upsets>>

\* _get_stale_from_cache: the last resort is memory, expired or not
ServeStale(c) ==
  /\ call[c].pc = "failed"
  /\ LET kept == memory[call[c].worker][call[c].series]
     IN  IF kept # NoCopy
         THEN End(c, call[c].worker, call[c].series, "stale", kept, FALSE)
         ELSE Advance(c, "nothing", NoCopy)
  /\ UNCHANGED <<redis, link, stores, clearing, upsets>>

-----------------------------------------------------------------------------
(* The other endpoints, the processes, Redis and time.                     *)

\* /api/health: get_redis_cache and connect(), which does not ping when it is
\* connected; a probe that times out leaves things as they are
Health(w) ==
  /\ created' = [created EXCEPT ![w] = TRUE]
  /\ connected' = [connected EXCEPT ![w] = @ \/ redisUp]
  /\ UNCHANGED <<redis, redisUp, retryIn, stores, clearing, call, upsets>>

\* /api/cache/clear: get_redis_cache, and clear_all's scan of Redis, which it
\* skips when it is not connected and gives up when Redis fails
ClearRedis(w) ==
  /\ ~clearing[w] /\ upsets < MaxUpsets
  /\ created' = [created EXCEPT ![w] = TRUE]
  /\ connected' = [connected EXCEPT ![w] = @ \/ (~created[w] /\ redisUp)]
  /\ redis' = IF connected'[w] /\ redisUp THEN Empty ELSE redis
  /\ clearing' = [clearing EXCEPT ![w] = TRUE]
  /\ upsets' = upsets + 1
  /\ UNCHANGED <<redisUp, retryIn, stores, call>>

\* ... then the two CacheServices of this process
ClearLocal(w) ==
  /\ clearing[w]
  /\ memory' = [memory EXCEPT ![w] = Empty]
  /\ fallback' = [fallback EXCEPT ![w] = Empty]
  /\ memorySweep' = [memorySweep EXCEPT ![w] = CleanupAfter]
  /\ fallbackSweep' = [fallbackSweep EXCEPT ![w] = CleanupAfter]
  /\ clearing' = [clearing EXCEPT ![w] = FALSE]
  /\ UNCHANGED <<redis, link, call, upsets>>

\* a worker process dies and is started again
Restart(w) ==
  /\ upsets < MaxUpsets
  /\ upsets' = upsets + 1
  /\ created' = [created EXCEPT ![w] = FALSE]
  /\ connected' = [connected EXCEPT ![w] = FALSE]
  /\ retryIn' = [retryIn EXCEPT ![w] = 0]
  /\ memory' = [memory EXCEPT ![w] = Empty]
  /\ fallback' = [fallback EXCEPT ![w] = Empty]
  /\ memorySweep' = [memorySweep EXCEPT ![w] = CleanupAfter]
  /\ fallbackSweep' = [fallbackSweep EXCEPT ![w] = CleanupAfter]
  /\ clearing' = [clearing EXCEPT ![w] = FALSE]
  /\ call' = [c \in Caller |->
                IF call[c].worker = w
                THEN [call[c] EXCEPT !.pc = "idle", !.copy = NoCopy, !.waited = 0, !.had = FALSE]
                ELSE call[c]]
  /\ UNCHANGED <<redis, redisUp>>

\* Redis becomes unreachable, comes back with its data or without, or drops
\* an entry to make room
RedisFails ==
  /\ redisUp
  /\ redisUp' = FALSE
  /\ UNCHANGED <<redis, created, connected, retryIn, stores, clearing, call, upsets>>

RedisReturns ==
  /\ ~redisUp
  /\ redisUp' = TRUE
  /\ redis' \in {redis, Empty}
  /\ UNCHANGED <<created, connected, retryIn, stores, clearing, call, upsets>>

RedisEvicts(s) ==
  /\ redis[s] # NoCopy
  /\ redis' = [redis EXCEPT ![s] = NoCopy]
  /\ UNCHANGED <<link, stores, clearing, call, upsets>>

OlderBy1(age) == IF age < MaxAge THEN age + 1 ELSE age
\* mutant: a countdown that runs below zero
LessBy1Always(n) == n - 1
LessBy1(n) == IF n > 0 THEN n - 1 ELSE n

Aged(copy) ==
  IF copy = NoCopy THEN NoCopy
  ELSE [age |-> OlderBy1(copy.age), left |-> IF copy.left >= 0 THEN copy.left - 1 ELSE copy.left]

\* Redis drops what expires
AgedInRedis(copy) ==
  IF copy = NoCopy \/ copy.left <= 1 THEN NoCopy
  ELSE [age |-> OlderBy1(copy.age), left |-> copy.left - 1]

\* a copy that is under way
OnItsWay(copy) == IF copy = NoCopy THEN NoCopy ELSE [copy EXCEPT !.age = OlderBy1(@)]

\* a request that awaits Redis
Waiting(k) ==
  IF k.pc \notin RoundTrip THEN k
  ELSE [k EXCEPT !.waited = @ + 1, !.copy = OnItsWay(@)]

\* The timeouts and retries of connect() and of the client it makes bound how
\* long a request awaits Redis.
Tick ==
  /\ \A c \in Caller : call[c].pc \in RoundTrip => call[c].waited < Patience
  /\ call' = [c \in Caller |-> Waiting(call[c])]
  /\ redis' = [s \in Series |-> AgedInRedis(redis[s])]
  /\ memory' = [w \in Worker |-> [s \in Series |-> Aged(memory[w][s])]]
  /\ fallback' = [w \in Worker |-> [s \in Series |-> Aged(fallback[w][s])]]
  /\ retryIn' = [w \in Worker |-> LessBy1(retryIn[w])]
  /\ memorySweep' = [w \in Worker |-> LessBy1(memorySweep[w])]
  /\ fallbackSweep' = [w \in Worker |-> LessBy1(fallbackSweep[w])]
  /\ UNCHANGED <<redisUp, created, connected, clearing, upsets>>

Step(c) ==
  \/ Created(c) \/ Connect(c) \/ RedisGet(c) \/ RedisGetFails(c) \/ RedisReply(c)
  \/ ProviderAnswers(c) \/ ProviderAnswersPartly(c) \/ ProviderFails(c)
  \/ Reconnect(c) \/ RedisSet(c) \/ RedisSetFails(c) \/ SaveInMemory(c) \/ ServeStale(c)

Next ==
  \/ \E c \in Caller, w \in Worker, s \in Series : Ask(c, w, s)
  \/ \E c \in Caller : Step(c)
  \/ \E w \in Worker : Health(w) \/ ClearRedis(w) \/ ClearLocal(w) \/ Restart(w)
  \/ RedisFails \/ RedisReturns \/ \E s \in Series : RedisEvicts(s)
  \/ Tick

Spec == Init /\ [][Next]_vars

\* Time does not stop, and so no request awaits Redis for ever.  Nothing makes users
\* ask, providers answer, or Redis fail or return.
Fairness == []<><<Tick>>_vars

LiveSpec == Spec /\ Fairness
-----------------------------------------------------------------------------
(* Properties.                                                             *)

TypeOK ==
  /\ redis \in [Series -> Copy \union {NoCopy}]
  /\ redisUp \in BOOLEAN
  /\ created \in [Worker -> BOOLEAN] /\ connected \in [Worker -> BOOLEAN]
  /\ retryIn \in [Worker -> 0..ReconnectAfter]
  /\ memory \in [Worker -> [Series -> Copy \union {NoCopy}]]
  /\ fallback \in [Worker -> [Series -> Copy \union {NoCopy}]]
  /\ memorySweep \in [Worker -> 0..CleanupAfter]
  /\ fallbackSweep \in [Worker -> 0..CleanupAfter]
  /\ clearing \in [Worker -> BOOLEAN]
  /\ call \in [Caller -> Call]
  /\ upsets \in 0..MaxUpsets

\* No cache hit is older than the two lives a copy can have: one under the
\* ttl it was saved with and, since a hit of Redis or of its fallback is put
\* into memory with a ttl of its own, one more there; and than the time it was
\* under way, once to Redis and once from it.  Nothing brings a copy back from
\* memory into the other tiers, which would renew it without end.
HitsWithinTwoLives ==
  \A c \in Caller :
    call[c].pc = "hit" => call[c].copy.age <= Ceiling + FrequencyTtl + 2 * Patience

\* Whatever the requests, failures and clears do, a copy in Redis or in the
\* fallback cache is gone before it is older than the provider's ceiling and the
\* time that its save awaited Redis: the part of "one coherent ttl" (query.py)
\* that the code keeps.
CeilingBoundsSavedTiers ==
  \A s \in Series :
    /\ redis[s] # NoCopy => redis[s].age + redis[s].left <= Ceiling + Patience
    /\ \A w \in Worker :
         Live(fallback[w][s]) => fallback[w][s].age + fallback[w][s].left <= Ceiling + Patience

Reconnecting(k) == k.pc \in {"connecting", "reconnecting"}

\* "At most once every RECONNECT_INTERVAL" (redis_cache.py:187): an attempt can
\* outlast the interval, and then a second request makes one beside it; but of two
\* requests of a process that await a reconnect, one began it at least an interval
\* before the other, so that a Redis that hangs is not tried by all requests at once.
AttemptsSpaced ==
  \A c, d \in Caller :
    /\ c # d /\ Reconnecting(call[c]) /\ Reconnecting(call[d])
    /\ call[c].worker = call[d].worker
    /\ call[c].waited <= call[d].waited
    => call[c].waited + ReconnectAfter <= call[d].waited

\* If Redis is back for good and requests keep coming to a process, the process
\* uses Redis again, without /api/health: what _maybe_reconnect was written for.
ReconnectsWhenAsked ==
  \A w \in Worker :
    <>[]redisUp /\ []<><<\E c \in Caller, s \in Series : Ask(c, w, s)>>_vars
      => <>[]connected[w]

-----------------------------------------------------------------------------
(* What the docs say and the code does not do.                             *)

\* "Get stale (expired) cached data as fallback when provider is down": a
\* request that found a copy stored, expired or not, does not end with nothing.
StaleBeatsNothing ==
  \A c \in Caller : call[c].pc = "nothing" => ~call[c].had
=============================================================================
