--------------------------- MODULE WorkerServices ---------------------------
(***************************************************************************)
(* The services that work beside and below the turns of a worker, and what *)
(* is to hold of each.  They share no variable: a worker is the            *)
(* conjunction of their specifications.                                    *)
(***************************************************************************)
EXTENDS Naturals

CONSTANTS StreamRequest, Client, MaxStreams, MaxPerClient,     \* McpStreamLimit
          Waiter, Patient, MaxRetries,                         \* MetadataLoader
          Dataset, Reader, MAX_DATASETS, DATASET_TTL, MaxNow,  \* DatasetStore
          Worker, Feedback, MaxCrashes,                        \* FeedbackFile
          N, MaxAttempts,                                      \* MultiFetch
          Query, Candidate, Shaped, Renamed, Foreign,          \* FetchPath
          MaxAlternates, MaxFallbacks, Nothing,
          Fetch, Subs, Local, GateSize,                        \* ComtradeFetch
          MaxOptions, MaxTurns                                 \* PendingChoice

VARIABLES active, activeByClient, stream,
          isLoading, isComplete, result, error, task, attempt, waiter,
          puts, items, now, reader,
          file, memory, worker, entry, told, stale, spoiled, crashes,
          phase, fetch, tries, saved, answer, missing,
          kind, cache, putBy, query,
          gate, plan, trade, subtask, past,
          pending, screen, reply, asked, turns, failed, missed

Mcp == INSTANCE McpStreamLimit
Loader == INSTANCE MetadataLoader
Store == INSTANCE DatasetStore
Feedbacks == INSTANCE FeedbackFile
Multi == INSTANCE MultiFetch
Path == INSTANCE FetchPath WITH None <- Nothing
Trade == INSTANCE ComtradeFetch WITH fetch <- trade, task <- subtask
Choice == INSTANCE PendingChoice WITH None <- Nothing, turn <- reply

ASSUME ServicesAssumption ==
  /\ Mcp!LimitAssumption /\ Loader!LoaderAssumption /\ Store!StoreAssumption
  /\ Feedbacks!FileAssumption /\ Multi!FetchAssumption /\ Path!PathAssumption
  /\ Trade!GateAssumption /\ Choice!ChoiceAssumption

mcp == <<active, activeByClient, stream>>
loader == <<isLoading, isComplete, result, error, task, attempt, waiter>>
store == <<puts, items, now, reader>>
feedback == <<file, memory, worker, entry, told, stale, spoiled, crashes>>
multi == <<phase, fetch, tries, saved, answer, missing>>
path == <<kind, cache, putBy, query>>
commerce == <<gate, plan, trade, subtask, past>>
choice == <<pending, screen, reply, asked, turns, failed, missed>>

Services ==
  /\ Mcp!Spec /\ Loader!Spec /\ Store!Spec /\ Feedbacks!Spec
  /\ Multi!Spec /\ Path!Spec /\ Trade!Spec /\ Choice!Spec
-----------------------------------------------------------------------------
(* What is stated in each module, of the worker.                           *)

\* Every service keeps to its types.
ServicesTypeOK ==
  /\ Mcp!TypeOK /\ Loader!TypeOK /\ Store!TypeOK /\ Feedbacks!TypeOK
  /\ Multi!TypeOK /\ Path!TypeOK /\ Trade!TypeOK /\ Choice!TypeOK

\* mcp_stream_limit.py:74-87: what is claimed for a stream is given back, once.
SlotsAccounted == Mcp!SlotsAccounted

\* async_metadata_loader.py:76-162: a waiter is told that the metadata are there only
\* when they are, and the loader gives up only after its last attempt.
WaitersToldTruth == Loader!WaitersToldTruth

\* routes.py:87-97: a dataset within its time goes only to make room for newer ones.
LostOnlyIfCrowded == Store!LostOnlyIfCrowded

\* feedback.py:58-80: what was thanked for is kept, but for four mishaps.
ThankedIsKept == Feedbacks!ThankedIsKept

\* data_fetcher.py:3418-3480: what is there at the deadline is returned, in order,
\* the rest is named, and nothing goes on.
EveryIndicatorAccounted == Multi!EveryIndicatorAccounted

\* query.py:6216-6327: no code that has given no data is fetched again, save one that
\* the catalogue lists under another name.
NoCodeTwice == Path!NoCodeTwice

\* query.py:4622-4638: what was discarded comes back only by another query's choice.
EvictionHolds == Path!EvictionHolds

\* comtrade.py:121-150: the gate is as wide as it was, less the requests that are out.
GateAccounted == Trade!GateAccounted

\* comtrade.py:1329-1462: an absence of records is said for a reason.
AbsenceHasReason == Trade!AbsenceHasReason

\* query.py:4824-4828: a reply is applied to the question on the screen.
AppliesWhatWasShown == Choice!AppliesWhatWasShown

\* Loading ends, and so does every fetch of trade data.
ServicesEnd == Loader!LoadingEnds /\ Trade!FetchesEnd
=============================================================================
