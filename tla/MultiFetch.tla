----------------------------- MODULE MultiFetch -----------------------------
(***************************************************************************)
(* A query for several indicators: fetch_multi_indicator_data              *)
(* (backend/services/data_fetcher.py) starts one task per indicator, each  *)
(* a fetch under retry_async, and collects what is done when all are, or   *)
(* at one deadline.  A step runs from one await to the next.               *)
(***************************************************************************)
EXTENDS Naturals, Sequences, FiniteSets, SequencesExt

CONSTANTS N,           \* indicators asked for, in the order of intent.indicators
          MaxAttempts  \* max_attempts

FetchAssumption == N \in Nat \ {0} /\ MaxAttempts \in Nat \ {0}

Indicator == 1..N

VARIABLES phase,   \* of the query: "routing", "waiting" in asyncio.wait, and how it has ended
          fetch,   \* fetch[i]: the task of indicator i
          tries,   \* tries[i]: calls its task has made
          saved,   \* indicators whose series are in the data cache
          answer,  \* the indicators whose series are returned, in order
          missing  \* those named in the note

vars == <<phase, fetch, tries, saved, answer, missing>>

Pending == {"asking", "saving", "pausing"}

TypeOK ==
  /\ phase \in {"routing", "waiting", "answered", "raised", "cut"}
  /\ fetch \in [Indicator -> Pending \union {"new", "data", "nothing", "cancelled"}]
  /\ tries \in [Indicator -> 1..MaxAttempts]
  /\ saved \subseteq Indicator
  /\ answer \in Seq(Indicator)
  /\ missing \subseteq Indicator

Init ==
  /\ phase = "routing"
  /\ fetch = [i \in Indicator |-> "new"]
  /\ tries = [i \in Indicator |-> 1]
  /\ saved = {}
  /\ answer = <<>>
  /\ missing = {}

Goes(i, place) == fetch' = [fetch EXCEPT ![i] = place]

\* Each indicator has its provider; all tasks start
Launch ==
  /\ phase = "routing"
  /\ phase' = "waiting"
  /\ fetch' = [i \in Indicator |-> "asking"]
  /\ UNCHANGED <<tries, saved, answer, missing>>

GetsData(i) ==
  /\ fetch[i] = "asking"
  /\ Goes(i, "saving")
  /\ UNCHANGED <<phase, tries, saved, answer, missing>>

\* fetch_data saves before it returns
Saves(i) ==
  /\ fetch[i] = "saving"
  /\ Goes(i, "data")
  /\ saved' = saved \union {i}
  /\ UNCHANGED <<phase, tries, answer, missing>>

\* DataNotAvailableError, an empty list: not retried
GetsNothing(i) ==
  /\ fetch[i] = "asking"
  /\ Goes(i, "nothing")
  /\ UNCHANGED <<phase, tries, saved, answer, missing>>

\* Mutant: one attempt too many
FailsOnceMore(i) ==
  /\ fetch[i] = "asking"
  /\ Goes(i, IF tries[i] <= MaxAttempts THEN "pausing" ELSE "nothing")
  /\ UNCHANGED <<phase, tries, saved, answer, missing>>

\* A transport error or a timeout
Fails(i) ==
  /\ fetch[i] = "asking"
  /\ Goes(i, IF tries[i] < MaxAttempts THEN "pausing" ELSE "nothing")
  /\ UNCHANGED <<phase, tries, saved, answer, missing>>

TriesAgain(i) ==
  /\ fetch[i] = "pausing"
  /\ Goes(i, "asking")
  /\ tries' = [tries EXCEPT ![i] = @ + 1]
  /\ UNCHANGED <<phase, saved, answer, missing>>

Running == {i \in Indicator : fetch[i] \in Pending}
Done == {i \in Indicator : fetch[i] = "data"}

\* The results, as the loop over the tasks lines them up
InOrder(done) ==
  LET upTo[n \in 0..N] ==
        IF n = 0 THEN <<>>
        ELSE IF n \in done THEN Append(upTo[n - 1], n) ELSE upTo[n - 1]
  IN  upTo[N]

\* Mutant: only a full set of results is returned
HarvestAllOrNothing ==
  /\ phase' = IF Done = Indicator THEN "answered" ELSE "raised"
  /\ answer' = IF Done = Indicator THEN InOrder(Done) ELSE <<>>
  /\ missing' = {}

\* What is there is returned and the rest is named; without any, an error
Harvest ==
  IF Done = {}
  THEN phase' = "raised" /\ UNCHANGED <<answer, missing>>
  ELSE /\ phase' = "answered"
       /\ answer' = InOrder(Done)
       /\ missing' = Indicator \ Done

AllDone ==
  /\ phase = "waiting" /\ Running = {}
  /\ Harvest
  /\ UNCHANGED <<fetch, tries, saved>>

\* total_timeout: what is done is kept, the rest is cancelled
Deadline ==
  /\ phase = "waiting" /\ Running # {}
  /\ Harvest
  /\ fetch' = [i \in Indicator |-> IF i \in Running THEN "cancelled" ELSE fetch[i]]
  /\ UNCHANGED <<tries, saved>>

\* The turn itself is cancelled: asyncio.wait leaves the tasks alone
Cut ==
  /\ phase \in {"routing", "waiting"}
  /\ phase' = "cut"
  /\ UNCHANGED <<fetch, tries, saved, answer, missing>>

Task(i) ==
  GetsData(i) \/ Saves(i) \/ GetsNothing(i) \/ Fails(i) \/ TriesAgain(i)

Next == Launch \/ AllDone \/ Deadline \/ Cut \/ \E i \in Indicator : Task(i)

Spec == Init /\ [][Next]_vars
-----------------------------------------------------------------------------
\* data_fetcher.py:3418-3480: every series that was there at the deadline is
\* returned, in the order asked for, and every other indicator is named: none is
\* dropped in silence, none comes after it was given up.  No task goes on, and
\* spends the provider's quota, after the query has its result; only a turn cut
\* off by its own deadline leaves some behind, which may still write to the cache.
EveryIndicatorAccounted ==
  /\ phase = "answered" =>
       /\ ToSet(answer) = Done
       /\ ToSet(answer) \subseteq saved
       /\ missing = Indicator \ ToSet(answer)
       /\ \A j, k \in DOMAIN answer : j < k => answer[j] < answer[k]
  /\ phase = "raised" => Done = {}
  /\ Running # {} => phase \in {"waiting", "cut"}
=============================================================================
