# Verification of SmatEconData

TLA+ specifications of the stateful core of SmatEconData (a natural-language front end to public
economic data providers: a FastAPI backend, a React client), the TLC configurations that
model-check them, and proofs that TLAPS checks.

Paths below are relative to the repository. `backend/services/` is abbreviated `services/`.
`PROJECT.json` maps each definition to the lines it stands for and lists runs, hazards, findings
and theorems.

## 1. Inventory

### 1.1 How a question is answered

A question enters at `/api/query`, `/api/query/stream` or `/api/query/pro` (`backend/main.py`). The
endpoint takes the conversation's turn lock and awaits `QueryService.process_query`
(`services/query.py`), which parses the question with a language model, records the intent in the
conversation (`services/conversation.py`), fetches (`services/data_fetcher.py`) and answers. A fetch
looks first into the cache (`services/cache.py`, `services/redis_cache.py`), then calls a provider
connector (`backend/providers/*.py`), whose HTTP request goes through `backend/providers/base.py`:
rate limiter, circuit breaker, retries. Production runs several uvicorn workers. What they share is
Redis: conversation blobs and cached series. All the rest is a dictionary per process. The dataset
API (`backend/smatecondata/`) assembles tables from several series over the same connectors, and
`backend/agents/` runs graphs of agents inside a turn.

### 1.2 The components with state

**Conversation store** (`services/conversation.py`).
*State*: a dictionary of contexts per worker; the blob `conv:<id>` and the lock key
`conv:lock:<id>` in Redis; a lazily made Redis client with a back-off after a failure.
*Operations*: getters (which may load or delete the blob), `refresh_from_redis`, `cleanup`,
`create_conversation`, `get_or_create`, and the setters, all of which go through
`_locked_redis_update`: lock, re-read, mutate, save, release.
*Hard*: two workers between any two Redis commands; a wait for the lock that runs out; a lock that
expires under its holder; Redis failing half-way; a worker that dies with the lock; one copy that
ages while the other is used.
*Correct when*: without faults all workers together are one record with atomic operations; with
faults messages are never duplicated or swapped, a lock is only released by its owner, nothing
expired comes back, the two kinds of clarification exclude each other, and updates end.

**Query turns** (`backend/main.py` 95-140, 1400-1870; `services/query.py`).
*State*: one `asyncio.Lock` per conversation and worker; the snapshot `_prev_good_intent`,
`_prev_good_state` of the running turn; the conversation's `last_intent`, `conversation_state` and
messages.
*Operations*: arrive, acquire, the steps and exits of `process_query`, deliver (with the guaranteed
save of the state), deadline, stream timeout, disconnect, Pro turns, the one rerun after withheld
data.
*Hard*: cancellation at any await; a dozen exits, each with its own rollback; streams that queue
again; the setting `use_staged_state_commit`.
*Correct when*: the lock covers all of a turn's work, a failed turn leaves no trace, a delivered
answer is remembered, unverified state is never committed in staged mode, and the lock is freed.

**Provider access** (`backend/providers/base.py`, `services/rate_limiter.py`).
*State*: per provider the time of the last request, deques of send times (minute, hour, day), the
429 cooldown, the pybreaker circuit.
*Operations*: begin, wait, send, record, retry, and the five ways an attempt ends; cancellation.
*Hard*: everything read before a sleep is old after it; answers arrive in any order; the circuit
and the cooldown are looked at before the first attempt only.
*Correct when*: requests stay near the provider's limits whatever the callers do, the windows forget
nothing that counts, a cooldown is never longer than the 429s call for, and a circuit closes again.

**Data cache** (`services/cache.py`, `services/redis_cache.py`, `_get_from_cache`, `_save_to_cache`
and `_get_stale_from_cache` of `services/query.py`, `fetch_data` of `services/data_fetcher.py`).
*State*: two `CacheService`s per process (the module's own, and the fallback of its
`RedisCacheService`), Redis, the connection flag and the time of the last reconnect attempt.
*Operations*: the read path over three tiers, the save path with one ttl for two tiers, the stale
fallback, the periodic cleanup, `/api/health`, `/api/cache/clear`, restarts.
*Hard*: a copy read from one tier gets a new life in another; a connect is awaited; a SETEX whose
reply is lost.
*Correct when*: the age of what is served is bounded, the stricter ttl wins, a process
begins reconnect attempts at least an interval apart, and a worker finds its way back to Redis.

**The path of a fetch** (`_fetch_data`, `_try_with_fallback` and the rerun of `process_query` in
`services/query.py`; `resolve_indicator_for_fetch`, `services/indicator_selector.py`,
`utils/retry.py`).
*State*: per query the code it holds, the codes it excludes, the attempt, the answers of other
providers, the discarded code (a context variable); per process the cache of choices.
*Operations*: resolve (from an exact title, a code held with authority, the cache, or a language
model's choice), fetch, another code when one has no data, retry of a transient error, other
providers, one rerun after data that are not about the region asked for.
*Hard*: three nested loops, each with its own memory of what not to try again; the cache is shared by
queries that run at once, and the rerun evicts from it while others put into it.
*Correct when*: no code is fetched again that has given no data (two ways round the exclusion apart: an
exact title, and a code that the catalogue lists under a longer name), and a discarded choice comes
back only as the choice of another query.

**Parallel fetches** (`fetch_multi_indicator_data` of `services/data_fetcher.py`, `utils/retry.py`).
*State*: one task per indicator, one deadline. *Operations*: launch, the ends of an attempt, harvest
when all are done or at the deadline, cancellation of the turn.
*Correct when*: what was there at the deadline is returned, in order, and all else is named.

**The Comtrade connector** (`providers/comtrade.py`).
*State*: a gate (semaphore) that all fetches of a process share, a semaphore per fetch, its passes (as
asked, both flows, older years, both again), each with a time budget, and the error kept for the end.
*Hard*: waiting at the gate uses up the budget of a pass; a cut pass must give the gate back; errors
and absence come from different passes.
*Correct when*: the gate is never lost, an error is not told as the absence of records unless a pass ran
out of its budget, fetches end.

**Pending choices** (`services/indicator_clarification.py`, `services/conversation.py`, `query.py`).
*State*: the question a turn left, its options, what the client's last response showed. *Operations*:
ask, choose by number or by name, ask again, a choice that fails, turns that drop the question and
turns that do not look at it.
*Correct when*: a reply is applied to the question on the screen, and to the option on its line.

**The state that follow-ups build on** (`services/conversation_state_v2.py`, `services/query.py`).
*State*: the `ConversationState`: measure, code, list of indicators, provider and its lock, places,
frequency. *Operations*: extraction from an intent, merges of a new state and of a delta, reset of
the topic, the read-time sanitizer, materialization of the next intent, rerouting, persisting after an
answer by this or by another provider.
*Hard*: a code is carried over any number of turns, while each of them may change one of the things it
was resolved for, fail, or be answered by another provider.
*Correct when*: a code that is sent unseen by the selector belongs to the measure asked about, and to a
provider whose codes look like it.

**Small services of a worker.** *MCP stream admission* (`mcp_stream_limit.py`): counters per process and
client, claimed when a stream opens and given back on each exit. *Metadata loading*
(`services/async_metadata_loader.py`): one task with attempts, and callers that wait for it, with or
without patience. *Dataset store* (`smatecondata/api/routes.py`): a bounded dictionary with a lifetime
that the threads of the endpoints read and write. *Feedback* (`services/feedback.py`): a list per
worker, read from a shared file at start-up and written back whole.

### 1.3 The components that are not modelled

`PROJECT.json` lists each with its files and the reason. In short:

- *decisions over text* (parsing, routing, the ranking of indicators, reranking, agents): their results
  are nondeterministic choices in the models; they keep no protocol state of their own;
- *stateless or external*: the connectors' request building (Comtrade's passes apart), dataset assembly,
  recipes, statistics and exports (floating point, pandas), Supabase and authentication, the HTTP
  connection pool, the sandbox of Pro Mode, the front end, scripts and generated data;
- *small state machines left for later*: the circuit and the time budget of a local language model
  (`services/openrouter.py` 37-340), the hand-written limiter sequences of `oecd.py` and `statscan.py`,
  the cache of parsed questions (`query.py` 282-345). The registry of `services/circuit_breaker.py` is read
  by a statistics route only, and calls nothing;
- *parts of modelled components*: semantic work inside a turn, table dimensions, decompositions and dates
  of the state handed on, the options of a clarification, the e-mail after feedback.

The modelled definitions stand for about 5% of the repository's lines. The rest is not a protocol that
was passed over: it is prompts, text rules and catalogues, translation between a dozen providers'
formats, and table work, whose outcomes the models take as choices. A model of it would repeat it.

## 2. The modules

| module | role |
|---|---|
| `ConversationRegister` | abstract: one conversation, atomic operations |
| `ConversationStore` | detailed: workers, Redis, the lock; refines `ConversationRegister` |
| `QueryTurn` | turns of a conversation in one worker, over atomic conversation operations |
| `PendingChoice` | the question a turn leaves behind, and the reply |
| `FollowUp` | the state a turn hands on, and the intent the next one makes of it |
| `FetchPath` | how a query finds the series it serves |
| `MultiFetch` | several series under one deadline |
| `ComtradeFetch` | trade fetches through one gate |
| `ProviderAccess` | requests of one process to one provider |
| `DataCache` | tiers of the cache, requests, Redis |
| `McpStreamLimit`, `MetadataLoader`, `DatasetStore`, `FeedbackFile` | small services |
| `WorkerServices` | the services of a worker side by side, and what is stated of each |
| `MC*` | the same modules instantiated for TLC |
| `ConversationStoreProofs`, `QueryTurnProofs`, `ProviderAccessProofs`, `DataCacheProofs`, `FollowUpProofs` | theorems about the module of that name |
| `ServiceProofs`, `FetchProofs`, `WorkerProofs` | theorems about the instances of `WorkerServices`: the small services; the fetches; pending choices and all services together |

The modules meet at interfaces. `QueryTurn` takes the operations on the conversation as atomic,
which is what `ConversationStore` implements without faults (`AtomicConversation`). What happens between
its `Record` and `Fetched`, `FetchFails`, ... is a behaviour of `FetchPath` or `MultiFetch`; each fetch in
these is a request of `DataCache`, whose `ProviderAnswers` and `ProviderFails` are in turn the ends of
a request of `ProviderAccess`, or of a fetch of `ComtradeFetch`. `PendingChoice` and `FollowUp` follow
the turns of one conversation, which `QueryTurn` shows to be one after the other. Each module leaves
the other side as a choice among all its outcomes, so that its properties do not depend on the other.

An operator whose comment starts with "Mutant" is not part of the specification: it is a changed form
of the definition after it, the one a plausible bug would give, against which the properties were
tried.

### 2.1 ConversationStore

| variable | code |
|---|---|
| `redis`, `lock` | the values at `conv:<id>` and `conv:lock:<id>` |
| `mem[w]`, `client[w]` | worker w's `_conversations` entry; `_get_sync_redis`'s client, or its back-off |
| `pc`, `upd`, `conn`, `held`, `base` | w inside `_locked_redis_update`: how far, which mutation, and the local variables `client`, `acquired`, `fresh` |
| `clock`, `up` | time, in fractions of MAX_AGE; whether Redis answers |
| `born`, `sent`, `written` | history, for the properties and the refinement |

The manager is synchronous code on a worker's event loop. So an operation of one worker is not
interleaved with another of the same worker, but any two Redis commands of it may have another
worker's steps between them: an update is the actions `BeginUpdate` (or `GetOrCreate`,
`ContinueUpdate`), `AcquireLock` or `GoOnWithoutLock`, `ReadBase`, `Save`, `Release`; a getter, with
one command or two that nobody can tell from one, is one action. `Mutate` is the field by field effect
of each setter, the truncation of the message list included. Faults are a constant: "slow" (a section or a wait outlasts the
lock's time limits), "outage", "crash".

The refinement mapping is `AsConv(redis)`: the conversation is what Redis holds; an update takes
effect at `Save`. All other steps stutter.

Left out: the throttled log of degraded continuity, JSON serialisation, and the second id that
`add_message_safe` makes for a conversation that has vanished (it is another conversation).

### 2.2 QueryTurn

An intent, and the state extracted from it, are named by the turn they come from: `intent = t` reads
"the last intent is turn t's". `pc[t]` follows a request: new, waiting (for the lock), parsing,
fetching, rescuing (after an exception or an empty answer), answered (the response exists; the
guaranteed save and the release have still to come), ended, gone. `prev[t]` is the snapshot.
`Record` stands for the block that snapshots, adds the user's message and stores the intent;
`Fetched`, `FetchedElsewhere`, `Rescued`, `Ask`, `Refuse`, `GiveUp`, `Unparsed`, `Inform` for the exits,
grouped by what they do to the conversation; `Discard` for the withheld answer and its rerun;
`Deadline`, `StreamTimeout`, `Disconnect` for cancellation. `staged` is chosen once.

The paths that answer without the main fetch have steps of their own: `RecordDelta` and
`CollectiveAnswers` for follow-ups, `Choose` and `Chosen` for the answer to a clarification, `Code` and
`Coded` for Pro Mode on the classifier's word, `Unsupported` for a refused surface of the IMF.
`RescuedUnheard` is an exception after the parse and before the record: a fallback provider may still
answer with data, and then the conversation hears neither the question nor the intent.

Left out: all semantic work, the orchestrator path (`query.py:6329`, which no caller asks for), and
`main.py`'s other endpoints.

### 2.3 ProviderAccess

`last`, `window`, `openUntil`, `errors429` are the limiter's fields; `breaker`, `fails`, `openedAt`
pybreaker's (external: modelled by how `base.py` uses it); `pc`, `until`, `tries` the request;
`sent` a history of what reached the provider. `Begin` is `call_through_breaker` up to the first
await, with `check_circuit_breaker`; `WaitOrSend` is `wait_for_provider`, which computes its delay
once; `WakeUp` and `Retry` send without looking at either circuit again, as the code does; a 4xx
counts as a success for pybreaker, a cancellation as a failure, as `except BaseException` makes it.

Left out: statistics, `set_config`, and the two connectors that repeat the sequence by hand.

### 2.4 DataCache

A copy is its age and the ticks it has left; -1 is "expired, but still stored", which matters because
the stale fallback wants such copies. `memory[w]`, `fallback[w]` and `redis` are the tiers;
`memorySweep`, `fallbackSweep` and `retryIn` count down to the next cleanup and reconnect attempt.
A request's `pc` names the await it is at; between two awaits a worker runs one action. `Swept` is
the cleanup with its eviction of the oldest entries, `SaveTtl` the one ttl for both tiers. `had` is a
history bit for the stale property.

A request may await Redis over several ticks (`waited`), whatever it awaits: a ping of the client it has,
a `connect()` with its pings, retries and timeouts, a GET, a SETEX. `connect()` alone may last longer than
`RECONNECT_INTERVAL`. `Patience` bounds the wait of a read, and that of a save; a copy on its way ages with it.

Left out: statistics, `delete`, `clear_provider`, `disconnect` (no request uses them), key hashing,
and the entries that two other files put into the cache under keys of their own.

### 2.5 FetchPath

All queries ask for the same thing, so that they share the one entry of the cache of choices (`cache`;
`putBy` is history). `kind[c]` is what the provider has under a code: data for the region, for the
nation only, outside the time asked for, or none. A query's record holds the locals of the functions it
is in: `code`, `excluded` and `attempt` of the running call, `barred`
(`params["__exclude_indicator_codes"]`, which outlives the call and its retries), `discarded`, the answers
of `fallback`. A code in `Renamed` is listed by the catalogue under a longer name (`BIS_WS_EER`), which is
shortened after the pick: excluding the short name does not keep the long one from being picked. `Resolved` is
`resolve_indicator_for_fetch` up to its first await, `Entered` the entry of `_fetch_data`; `AnotherCode`,
`Retry`, `FallBack` and `Discard` are the four ways to try again. Left out: which providers are asked
and whether an answer is close enough (choices), and the language model's reasons.

### 2.6 MultiFetch

`fetch[i]` is the task of an indicator under `retry_async`, `phase` the query. A task that has data still
saves them (`Saves`). `Deadline` is the timeout of `asyncio.wait`; `Cut` the turn's own, which leaves the
tasks running, as `asyncio.wait` does.

### 2.7 ComtradeFetch

`gate` is the value of the global semaphore, `task[f]` the sub-tasks of the pass that fetch f is at,
`fetch[f]` its pass, its rows and `last_error`. `plan` says which passes may follow, `past` is history: a pass was
cut off, a sub-task failed (in whichever pass), an error was kept for the end, rows came.
A sub-task is queued at the fetch's semaphore, then at the gate, then asks; `Returns` is the request with
its retries. `BudgetEnds` is the timeout of a pass, which cancels its sub-tasks and lets them give the
gate back before it goes on. Time is not modelled: a budget may end at any moment. Left out: names and
codes, the adaptation of records, and the trade balance, which is two fetches one after the other.

### 2.8 PendingChoice

`pending` is the pending clarification with the options left of its lines, `screen` the question the
client sees. `ChooseIndicator` is a reply by number or by name, `ChoiceFails` the option dropped because
it has no usable data, `AnsweredApart` the turns that answer before they look (Pro, a refused surface).
`failed` and `missed` are history. Left out: building the options, and matching text.

### 2.9 FollowUp

`state` is the `ConversationState`, `turn` the turn under way with its intent and its staged state. A
`Code` is named by the provider and the measure it was resolved for; `LooksLike` is the test of shape,
which is all the program has. `Ask` is a question of its own, `FollowUp` a delta: `MergeState`,
`Materialize`, `Sanitized` and the rerouting follow the functions of these names. `QuestionAnswered` and
`FollowUpAnswered` persist what an answer by the same provider, by several, or by another one in its
place leaves. Left out: dates, table dimensions, decompositions, trade and crypto scopes.

### 2.10 The small services

`McpStreamLimit`: `Refuse`, `Admit` and `Release` per stream, with no await between check and claim.
`MetadataLoader`: the task's attempts, `wait_for_completion`, and `WaitTimesOut`, which cancels the task, as
`asyncio.wait_for` does. `DatasetStore`: a get is three steps, two of them under the lock. `FeedbackFile`: a
submission opens the file, which empties it, and writes it; in between another worker may read or write,
and this one may crash.

`WorkerServices` instantiates the modules of 2.5 to 2.8 and of this section, over variables of their own,
and names the property of each, so that runs and theorems are about one formula. `MCWorker` adds
`QueryTurn`, `FollowUp` and the updates of `ConversationStore`. They share nothing there, so each of its behaviours is one of a single part
(`part`), the others staying as they begin; this explores the sum of their state spaces instead of the
product.

## 3. The runs

Every property is preceded by a comment that states it and names the code.

| run | question | properties |
|---|---|---|
| `conversation_healthy` | without faults, are two workers one atomic conversation? | `TypeOK`, `SectionsExclusive`, `FreshBase`, `AtomicConversation` (the abstract specification) |
| `conversation_faulty` | what survives slow sections, outages, crashes and expiry? | `MessagesInOrder`, `PendingExclusive`, `TokenHasOwner`, `ReleaseOnlyOwn` |
| `conversation_active` | does an active conversation stay? (violated) | `ActiveConversationKept` |
| `turn_serial` | what do turns leave behind, for each other and after failing? | `TypeOK`, `TurnHoldsLock`, `TurnsUnmixed`, `FailureRolledBack`, `StagedStateVerified`, `AnswerRemembered` |
| `turn_deadline` | does what a worker begins end, with its books balanced? | by part, see below |
| `turn_failed` | does a failed turn's intent ever stay? (violated) | `FailedIntentNeverKept` |
| `choice_numbers` | does a number mean the line it stands on? (violated) | `NumberMeansItsLine` |
| `provider_limits` | how far can concurrent callers overrun a limit? | `TypeOK`, `OverrunBounded`, `WindowsRemember`, `CooldownOnLadder` |
| `provider_stuck` | does an open circuit let a trial through in time? (violated) | `BreakerResets` |
| `cache_tiers` | how old can a hit be, how often is Redis tried and is it found again, through outages, restarts and clears? | `TypeOK`, `HitsWithinTwoLives`, `CeilingBoundsSavedTiers`, `AttemptsSpaced`, `ReconnectsWhenAsked` |
| `cache_stale` | does a stored copy beat an error? (violated) | `StaleBeatsNothing` |
| `loader_retry` | is what a retry has loaded ready? (violated) | `RetriedIsReady` |

The parts of `turn_deadline`:

| part | properties |
|---|---|
| all | `ServicesTypeOK`; `ServicesEnd`: loading ends, trade fetches end |
| turns | `LockIsFreed`: whether parsing or fetching hangs |
| `ConversationStore` | `UpdatesEnd`: past slow sections, locks left behind and outages |
| `PendingChoice` | `AppliesWhatWasShown`: a reply goes to the question on the screen, except for the ways listed |
| `FollowUp` | `NoForeignCode`: a code sent as it is belongs to the measure and looks right to the provider |
| `FetchPath` | `NoCodeTwice`, `EvictionHolds` (alone with all retries, and two queries at once) |
| `MultiFetch` | `EveryIndicatorAccounted` |
| `ComtradeFetch` | `GateAccounted`; `AbsenceHasReason`: no records are told after an error only if a pass was cut off |
| `McpStreamLimit` | `SlotsAccounted` |
| `MetadataLoader` | `WaitersToldTruth`: what a waiter is told holds, and one that sleeps will be woken |
| `DatasetStore` | `LostOnlyIfCrowded` |
| `FeedbackFile` | `ThankedIsKept`: without the four mishaps that the code does not prevent |

### 3.1 Where the code and its texts disagree

Six runs end in a violation; each checks one sentence of the repository.

- `conversation_active`: the comment at `services/conversation.py:375` says that active
  conversations do not expire. A worker whose *own* entry has expired deletes the blob without
  looking at it (line 394), also when the other worker has used the conversation a moment ago.
- `turn_failed`: the docstring at `services/conversation.py:491-494` says that a failed round is
  rolled back. A refused surface of the IMF is not (`query.py:4737`), nor a turn cut off at its deadline
  (`main.py:1448`), nor the first turn (no snapshot to restore), nor three of the error exits.
- `choice_numbers`: the question says that one may reply with the number of an option
  (`indicator_clarification.py:2976`). After an option has failed its line stays, and numbers are looked
  up in the shorter list (line 2483).
- `provider_stuck`: the comment at `providers/base.py:33-34` says that the circuit opens for 60
  seconds. `call_through_breaker` refuses on the raw state `open`, so pybreaker's own transition to
  half-open is never reached; only a late answer of a call that began earlier can move it.
- `cache_stale`: `services/query.py:3446-3449` promises stale data when the provider is down. The
  read before the fetch has popped the expired entry from memory.
- `loader_retry`: the loader's docstring promises "Automatic retry on failure"
  (`async_metadata_loader.py:26`). A failed attempt sets `_error` (lines 102, 110), the one that succeeds after
  it does not clear it, and lines 142, 185 and 189 ask for it to be `None`: what it has loaded is never ready.

Other properties hold with an exemption, which is where the code departs from its own words. Their comments
name it:

- `ThankedIsKept`: four mishaps lose feedback whose sender was thanked;
- `AbsenceHasReason`: a pass of a trade fetch that runs out of its budget throws away what it has, rows and
  errors alike. Its log says "returning partial results" (`comtrade.py:1366-1373`), and the comment before "no
  records" says "Every sub-task succeeded" (line 1456), which need not be so then;
- `NoCodeTwice`: the exclusion of a BIS code compares the shortened code with the catalogue's long one
  (`indicator_selector.py:606-619`, 2014-2019), so that the code that gave no data is picked and fetched again,
  which the guard at `query.py:6306` is there to stop;
- `AttemptsSpaced`: `redis_cache.py:187` has a reconnect "at most once every RECONNECT_INTERVAL". Attempts
  begin that far apart, but may overlap;
- `AnswerRemembered`: an answer given before the intent is recorded leaves the intent of the turn before as
  the last one (`query.py:6132-6152`), on which the next follow-up then builds;
- `HitsWithinTwoLives`: a hit may be older than the provider's ceiling (`query.py:3481-3485`).

Further disagreements that were met, without a run: a wait for metadata that reports "still loading" has
ended the loading, since `asyncio.wait_for` cancels the task it waits for
(`async_metadata_loader.py:144-162`); a late success clears a cooldown that a 429 has set since
(`rate_limiter.py:183`); two workers do overwrite each other's update after
the lock wait ran out (against `conversation.py:127`); a request that sleeps is sent although the circuit
has opened meanwhile (`rate_limiter.py:160`); a cancelled caller counts as a provider failure
(`base.py:46-48`); a stream that was told that it timed out goes on holding the turn lock (`main.py:1749`); a
clear leaves copies in other workers and, when disconnected, in Redis (`docs/reference/api.md:459`).
In the state handed on:

- after an answer by another provider the state saves the new provider with the old code (`query.py:5224`;
  only the intent's is dropped, `query.py:4320`, though `data_fetcher.py:241-249` says otherwise). What
  stands between it and the next request is the sanitizer (`query.py:239`, 4838), which knows shapes only;
- a label in capitals, such as "GDP", passes for a FRED code once `merge_state` has dropped the code;
- a follow-up that adds an indicator and changes the provider loses what it added (`query.py:5134`), and a
  change of frequency loses the list;
- adding a place and removing the old one keeps the old place's code with providers whose codes name a
  place (`conversation_state_v2.py:785-820`);
- `provider_locked` survives an answer by another provider, and pins the substitute.

In trade fetches: the budget of a pass is said to cover one whole request with its retries
(`comtrade.py:1354-1361`), but it also pays for waiting at the gate behind other fetches; and a trade balance
sums exports and imports of whichever members answered in each of its two fetches, with a note that
counts them but does not compare them (`comtrade.py:1656-1671`).

### 3.2 Bounds, and why they are enough

- *Symmetry*: workers, messages, callers and sync turns are interchangeable (no definition names one),
  so the conversation runs `healthy` and `faulty`, `turn_serial` and `provider_limits` use permutations of
  them; runs with liveness properties do not.
- *Workers*: two, which is production's number, and every conversation hazard is between a pair.
- *conversation_healthy*: one kept message of two (`MaxMessages = 1`), so that the truncation
  happens; the kinds of update that a turn and a clarification make, an owner and requests without
  one. No ticks: expiry is the subject of `conversation_faulty` and `conversation_active`, where
  `MaxClock = 2 > MaxAge = 1`, so that a copy can outlive its time to live. Theorem `UpdatesAreAtomic`
  covers all kinds and any number of workers and messages.
- *conversation_faulty*: two messages, the fewest that can be swapped; all three faults, any number of
  times. The constraint `Scope` keeps messages, at any age of the conversation, and clarifications, while it
  is young, apart. The updates of `turn_deadline`: one message, slow sections and outages, no ticks; locks
  left behind come from releases that failed, so a crash adds nothing to what an update can run into.
- *turn_serial*: two sync turns, a stream and a Pro turn: a turn between two others, a stream that
  disconnects at any point, a snapshot of a turn that itself failed; both values of `staged`. The constraint
  `Scope` keeps of more than two begun turns only those without a Pro turn and without a rerun. The turns
  of `turn_deadline`: one sync turn and one stream, staged, whose lock the stream's timeout does not
  free (3.1). `turn_failed`: two sync turns.
- *provider_limits*: three callers against a quota of two, a window of three ticks, a spacing of two,
  two attempts, two steps of the cooldown ladder, a circuit that opens at the second failure, clock up
  to 5, so that a window fills, drains and fills again. Requests may begin until tick 4.
  Deadlock is checked in the conversation and cache runs; in the others what may begin is finite, and the
  system stops when it has ended.
- *cache_tiers*: one process, two callers of one series, the ceiling below the frequency ttl, as for an
  annual OECD series (30 minutes and 24 hours); a request awaits Redis for up to a tick, which is a reconnect
  interval too, so that a second attempt begins beside the first; `MaxAge` is above
  `Ceiling + FrequencyTtl + 2 * Patience`, so that an age that broke the bound would be seen; room for one
  entry; one upset (restart or clear), outages of Redis at
  any time. Several processes and series are left to the theorems, which have any number of both.
- *FetchPath*: two codes, one of them neither shaped like the provider's nor listed under its own name; two
  alternates and two attempts, so
  that both loops run out; three other providers for one query (two at once, one after), none for two
  queries at once, which are about the cache.
- *MultiFetch*: three indicators, two attempts: every subset of them done at the deadline.
- *ComtradeFetch*: a fetch of two requests with all four passes beside a fetch of one, one at a time, so
  that each waits for the other at the gate.
- *PendingChoice*: three options, so that one that failed leaves two whose numbers shift; four turns: asked,
  failed, missed, answered.
- *FollowUp*: a provider whose codes look like any word in capitals and name their place (as FRED's), one
  whose codes do neither; a measure in capitals and one that is not; two places, of which the first
  provider covers one, or one place and a frequency (`talk` and `timed`). Turns are not bounded. The theorems have any number of each.
- *The small services*: four streams of two clients against limits of three and two; three attempts and
  three waiters, one without a timeout (`loader_retry`: one waiter); three datasets for a store of two, ages up to twice the lifetime;
  two workers, two submissions, two crashes.

### 3.3 Fairness

- `ConversationStore!Fairness`: a begun update goes on. It is straight-line code; its wait has a
  deadline and Redis commands have socket timeouts.
- `QueryTurn!Fairness`: lock hand-over, delivery and timers, which the event loop runs. Nothing makes
  parsing or fetching end: they may hang.
- `MetadataLoader!Fairness`: an attempt ends by itself or at its own timeout, and pauses are sleeps.
- `ComtradeFetch!Fairness`: a pass whose sub-tasks are done goes on, and one that is not is cut off at its
  budget (`asyncio.wait_for`). Nothing makes a request end, or the gate be handed over.
- `DataCache!LiveSpec`: time passes for ever (`[]<><<Tick>>_vars`), and no more. A request that has awaited
  Redis for `Patience` ticks holds the clock back, so none awaits it for ever: its client has timeouts and
  a bounded number of retries. Users need not ask, providers need not answer, Redis need not return.

## 4. The proofs

The proof modules state their results for every value of the constants that satisfies the named
assumptions: `StoreAssumption` and `NoCtxAssumption`, `TurnAssumption`, `AccessAssumption`,
`CacheAssumption`, `FollowUpAssumption`, and `ServicesAssumption`, which collects those of the services.
These say that limits and lives are natural numbers (positive
where zero would mean nothing), that callers and the sub-tasks of a fetch are finitely many, that kinds of requests do not overlap, and that a "none" value is not a
member of the set it is absent from. TLC evaluates each in every run of its module; `MCWorker` assumes
those of the modules it instantiates.

**ConversationStoreProofs.**
`TypeCorrect`: the type invariant, which includes that a saved update has a base. `PendingNeverBoth`
and `TokenAlwaysOwned`: inductive as they stand, given the types, with all faults. `ReleasesOnlyOwn`
follows from the same invariant: a release compares the token.
`MessagesAlwaysInOrder`, with all faults, needs `Ordered`: messages are asked for in one order; every
message in a copy was asked for; no copy holds a message that is still in flight; and a message in
flight is the last one its worker asked for. Then a mutation appends what is in no copy, after
everything that any copy may hold from the same worker (`QuietOrder` for steps that only drop or copy, `AskOrder` for a
request, `OrderStep` for all).
`SectionsAlwaysExclusive` needs `Excluding`: without faults whoever is in the section is the value of
the lock key, since every update has a connection and nobody gives up waiting. `BaseAlwaysFresh` needs
`Fresh`: the base of an update about to be saved is the blob (or blank, if there is none), there is no
dictionary entry without a blob, and an id that was never given out is unused. Its
assumption `MaxClock <= MaxAge` says that nothing expires. `UpdatesAreAtomic` is the refinement: from
`Fresh` and `AddedOnce` (a message on its way is not yet in the blob) `SaveIsAtomic` maps a save, for
each kind of update, to the abstract operation, and `StepIsAtomic` every other step to a stutter or a
creation.

**QueryTurnProofs.** `LockCoversTurns`; `FailuresStayRolledBack`, from `FailureForgotten`: a failed
turn is in no other turn's snapshot either; `StagedStateAlwaysVerified`, from `SnapshotsVerified`, the
same for unverified states; `AnswersAlwaysRemembered`, an action property, from `IntentIsCurrent`: a
turn that fetches still finds its own intent, and so does one that has data, if the conversation has heard
of it (`Heard`). All rest on `TurnInv`: only the holder of
the lock writes, and a turn that has not recorded itself is nowhere (`Unseen`, `Unrecorded`). `TurnsNeverMix` needs `MessagesKept`, about the list of messages itself:
whoever has written holds the lock or is done, and after the first message of the holder only Pro turns
write. Without the second a turn that resumes could write behind a later one; with it, `TurnsUnmixed` is
kept because every step appends messages of one turn (`AppendsItsOwn`).

**ProviderAccessProofs.** `TypeCorrect` bounds the deques by their quotas and the attempts by their
number. `CooldownAlwaysOnLadder` holds for any number of callers and any order of late answers.

`WindowsAlwaysRemember` and `OverrunAlwaysBounded` need `History`, which relates the deques to the
history of requests: times are recorded in their order, the last one is `last_request_time`, and each
deque *recalls* the history (`Recalls`): it is a suffix of it, either as long as the quota or complete
from the start of the span. Cleaning, recording and the clock keep that (`RecallsDropped`,
`RecallsAppended`, `RecallsLater`), and it makes the two counts of `WindowsRemember` agree
(`RecallsCount`). These lemmas rest on one about ordered sequences, that the times later than x are the
last ones (`LaterOnesLast`, by the least place of such a time).
`OverrunBounded` is not inductive: a state may have spent its margin and still have sleepers who will
send. `Overrun` is its strengthening. For every time x from now on, the requests in the span before x
*and the sleepers who will wake by x* are fewer than quota and callers together. A caller who goes to
sleep until r adds one to the second number, but `RoomWhenReady` says that less than a quota of requests
is left in the span before r, and there are no more sleepers than callers; a caller who is let through at
once adds one to the first and is none of the sleepers; one who wakes up moves from the second to the
first.

**DataCacheProofs.** `IInv` bounds age plus remaining life for every live copy in every tier and in
every request: by the ceiling, and one wait for Redis, in Redis and the fallbacks
(`SavedTiersWithinCeiling`), by that, the frequency ttl and one more wait in memory (`TwoLives`). It is inductive because memory is never copied back. It is split
into what a step disturbs together (`LocalOK`, `LinkOK`, `RedisOK`, `CallOK`, `RestOK`), with a lemma
per action. A copy that is under way ages with
the request, which `Patience` bounds. `AttemptsAlwaysSpaced`, for any number of requests of a process: what is
left of the interval since the last attempt, and what a request has awaited its own, are an interval
together at least (`AttemptNoted`), for an attempt is noted before it is awaited; a new one begins when
nothing is left, so that every earlier one has by then lasted an interval.

**FollowUpProofs.** `IInv` adds to the types `Carried`: whatever the state, the staged state and the intent
carry as a code was resolved for the measure they name, and a turn's intent and staged state name the
same measure. It is inductive because each operator that changes the measure drops the code
(`MergeNewKeeps` and its likes, one lemma per operator). `CodesCarried` states that, `SentCodesBelong` that
`NoForeignCode` follows, after any number of turns, with any providers and any shapes of their codes.

**ServiceProofs.** One inductive invariant per service, with a lemma for each of its actions.
`SlotsAlwaysAccounted`: `SlotsAccounted` is inductive with the types, counting the open streams before and
after each step. `WaitersAlwaysToldTruth` needs what the three flags say of the task (`LoaderFlags`), that an
attempt after the first remembers an error (`LoaderAttempts`), and who waits for what (`LoaderWaiters`).
`ThankedAlwaysKept`: until the first mishap one worker writes at a time, from a list that has all that was
thanked for, while every other worker is down or known to be stale (`FeedbackWriter`, `FeedbackLists`);
after it nothing need hold but the property, which then allows the loss. `LostAlwaysCrowded`: a reader
that is about to pop has found an entry that has expired, and an id belongs to one put (`StoreReaders`,
`StoreIds`), so popping by id loses nothing within its time; an eviction loses place i only if
`MAX_DATASETS - 1` live places come after it (`LaterBound`, `NewestBound`), and the put adds one.

**FetchProofs.** `PathAlwaysSound` and `EvictionAlwaysHolds`: a choice that is awaited excludes what must
not be fetched again (the renamed codes apart, which an exclusion does not reach), and one that excludes nothing is made by a query that has discarded nothing
(`Excludes`). Without it the end of the await could fetch, or put into the shared cache, a code ruled out
before. `TradeAlwaysAccounted` and `AbsenceAlwaysHasReason`: the gate counts pairs of a fetch and a
sub-task (`Out`), so that giving back all of one fetch at once is a disjoint difference; the error that a
fetch remembers is one that it has seen, and as long as no pass was cut off, the errors and rows it has seen
are remembered or in the pass that runs (`TradeReasons`). `IndicatorsAlwaysAccounted`: done tasks have saved, and none runs once the query is
answered. The loop that lines up the results is a recursive function: `LoopEnds` and `InOrderLoops` show,
by a least counterexample, that it exists and what it returns (`InOrderLinesUp`).

**WorkerProofs.** `AlwaysAppliesWhatWasShown`: the pending question is on the screen, or there is a reason
(`Seen`); its options differ and none has failed (`Sensible`); an id is given once, for a turn that has
not ended has not asked (`AskedOnce`). `ServicesAlwaysTyped` composes the theorems about each service
into one about the worker.

Every safety property of a passing run is a theorem, stated as the run states it. *Only model-checked*:
the liveness properties `UpdatesEnd`, `LockIsFreed`, `ServicesEnd` and
`ReconnectsWhenAsked`, since fairness and ENABLED are outside what the prover does. The properties whose
violation a run shows are, of course, not theorems.

## 5. Plan

Done: the modules and theorems above. Next:

1. Theorems: that a single caller stays within every limit (the case of one task of `OverrunAlwaysBounded`,
   for the gaps between requests), that a stream admitted under `McpStreamLimit` is a slot of an abstract
   counter, and the refinement of one step of `QueryTurn` by the operations of `ConversationRegister`.
2. `ProviderAccess`: the `oecd.py` and `statscan.py` variants, which wait with a cap and send by themselves.
3. The circuit and the budget of a local language model (`openrouter.py`).
4. The pairing of partial outcomes and the deduplication of aliases in `smatecondata/datasets`, as pure
   algorithms.
