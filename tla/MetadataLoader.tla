--------------------------- MODULE MetadataLoader ---------------------------
(***************************************************************************)
(* The background loader of provider metadata, AsyncMetadataLoader         *)
(* (backend/services/async_metadata_loader.py), and the tasks that wait    *)
(* for it.  A step runs from one await to the next.                        *)
(***************************************************************************)
EXTENDS Naturals, FiniteSets

CONSTANTS Waiter,     \* callers of wait_for_completion
          Patient,    \* those of them that pass no timeout
          MaxRetries  \* max_retries

LoaderAssumption ==
  /\ Patient \subseteq Waiter
  /\ MaxRetries \in Nat \ {0}

VARIABLES isLoading,   \* _is_loading
          isComplete,  \* _is_complete
          result,      \* _result is set
          error,       \* _error is set
          task,        \* what _task does, or how it has ended
          attempt,     \* the attempt that runs, or has run last
          waiter       \* waiter[w]: where a waiter is

vars == <<isLoading, isComplete, result, error, task, attempt, waiter>>

Running == {"trying", "pausing"}

\* "late": wait_for_completion has timed out, and said "still loading"
WaiterPcs == {"idle", "waiting", "loaded", "notLoaded", "late", "thrown"}

TypeOK ==
  /\ isLoading \in BOOLEAN /\ isComplete \in BOOLEAN
  /\ result \in BOOLEAN /\ error \in BOOLEAN
  /\ task \in Running \union {"none", "done", "cancelled"}
  /\ attempt \in 0..MaxRetries
  /\ waiter \in [Waiter -> WaiterPcs]

Init ==
  /\ isLoading = FALSE /\ isComplete = FALSE
  /\ result = FALSE /\ error = FALSE
  /\ task = "none"
  /\ attempt = 0
  /\ waiter = [w \in Waiter |-> "idle"]

start ==
  /\ ~isLoading /\ ~isComplete
  /\ isLoading' = TRUE
  /\ task' = "trying"
  /\ attempt' = 1
  /\ UNCHANGED <<isComplete, result, error, waiter>>

is_ready == isComplete /\ ~error

\* What waiters are told when the task has ended
Woken(told) == [w \in Waiter |-> IF waiter[w] = "waiting" THEN told ELSE waiter[w]]

LoadSucceeds ==
  /\ task = "trying"
  /\ task' = "done"
  /\ result' = TRUE /\ isComplete' = TRUE
  /\ waiter' = Woken(IF error THEN "notLoaded" ELSE "loaded")
  /\ UNCHANGED <<isLoading, error, attempt>>

\* Mutant: the last attempt is taken for the one before it
LoadFailsEarly ==
  /\ task = "trying"
  /\ error' = TRUE
  /\ \/ /\ attempt < MaxRetries - 1
        /\ task' = "pausing"
        /\ UNCHANGED <<isComplete, waiter>>
     \/ /\ attempt >= MaxRetries - 1
        /\ task' = "done"
        /\ isComplete' = TRUE
        /\ waiter' = Woken("notLoaded")
  /\ UNCHANGED <<isLoading, result, attempt>>

\* An exception, or the attempt's own timeout
LoadFails ==
  /\ task = "trying"
  /\ error' = TRUE
  /\ \/ /\ attempt < MaxRetries
        /\ task' = "pausing"
        /\ UNCHANGED <<isComplete, waiter>>
     \/ /\ attempt = MaxRetries
        /\ task' = "done"
        /\ isComplete' = TRUE
        /\ waiter' = Woken("notLoaded")
  /\ UNCHANGED <<isLoading, result, attempt>>

\* Mutant: the attempts are counted from one again
TryAgainForEver ==
  /\ task = "pausing"
  /\ task' = "trying"
  /\ attempt' = 1
  /\ UNCHANGED <<isLoading, isComplete, result, error, waiter>>

TryAgain ==
  /\ task = "pausing"
  /\ task' = "trying"
  /\ attempt' = attempt + 1
  /\ UNCHANGED <<isLoading, isComplete, result, error, waiter>>

wait_for_completion(w) ==
  /\ waiter[w] = "idle"
  /\ waiter' = [waiter EXCEPT ![w] =
       CASE task = "none" -> "notLoaded"
         [] task = "cancelled" -> "thrown"
         [] task = "done" -> (IF is_ready THEN "loaded" ELSE "notLoaded")
         [] task \in Running -> "waiting"]
  /\ UNCHANGED <<isLoading, isComplete, result, error, task, attempt>>

\* asyncio.wait_for cancels the task it waits for
WaitTimesOut(w) ==
  /\ waiter[w] = "waiting" /\ w \notin Patient
  /\ task' = "cancelled"
  /\ waiter' = [Woken("thrown") EXCEPT ![w] = "late"]
  /\ UNCHANGED <<isLoading, isComplete, result, error, attempt>>

\* At shutdown
cancel ==
  /\ task \in Running
  /\ task' = "cancelled"
  /\ waiter' = Woken("thrown")
  /\ UNCHANGED <<isLoading, isComplete, result, error, attempt>>

\* The loading task: an attempt ends by itself or at its timeout
Load == LoadSucceeds \/ LoadFails \/ TryAgain

Next ==
  \/ start \/ Load \/ cancel
  \/ \E w \in Waiter : wait_for_completion(w) \/ WaitTimesOut(w)

Fairness == WF_vars(Load)

Spec == Init /\ [][Next]_vars /\ Fairness
-----------------------------------------------------------------------------
\* async_metadata_loader.py:76-119, 144-162: whatever the order of attempts, timeouts
\* and callers, a waiter is told that the metadata are there only when they are, and
\* sleeps only while somebody will wake it; and the loader is complete without a result
\* only when all its attempts are used up.
WaitersToldTruth ==
  /\ \A w \in Waiter :
       /\ waiter[w] = "loaded" => is_ready /\ result
       /\ waiter[w] = "waiting" => task \in Running
  /\ isComplete /\ ~result => attempt = MaxRetries

\* async_metadata_loader.py:26 promises "Automatic retry on failure": what an attempt
\* has loaded is ready, whichever attempt it is.  The error of an attempt outlives the
\* success of a later one (183-189).
RetriedIsReady == isComplete /\ result => is_ready

\* async_metadata_loader.py:76-119: attempts are bounded in number and in time, so
\* loading comes to an end, and nobody waits for ever.
LoadingEnds ==
  []<>(task \notin Running /\ \A w \in Waiter : waiter[w] # "waiting")
=============================================================================
