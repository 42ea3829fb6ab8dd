---------------------------- MODULE ComtradeFetch ----------------------------
(***************************************************************************)
(* The fetches of the UN Comtrade connector in one event loop:             *)
(* ComtradeProvider.fetch_trade_data (backend/providers/comtrade.py).  A   *)
(* fetch makes up to four passes over its sub-tasks, each under a time     *)
(* budget of its own; the requests of all fetches go through one gate.  A  *)
(* step runs from one await to the next.                                   *)
(***************************************************************************)
EXTENDS Naturals, FiniteSets

CONSTANTS Fetch,     \* calls of fetch_trade_data
          Subs,      \* Subs[f]: its sub-tasks: reporters, partners and chunks of periods
          Local,     \* max_concurrent_requests
          GateSize   \* GLOBAL_REQUEST_CONCURRENCY

GateAssumption ==
  /\ \A f \in Fetch : IsFiniteSet(Subs[f]) /\ Subs[f] # {}
  /\ Local \in Nat \ {0} /\ GateSize \in Nat \ {0}

VARIABLES gate,   \* the value of the global semaphore
          plan,   \* plan[f]: which passes may follow the first
          fetch,  \* fetch[f]: where it is, the rows it returns, and last_error
          task,   \* task[f]: its sub-tasks in this pass
          past    \* past[f]: history: a pass was cut off, a sub-task has failed, one
                  \* of a pass that was not cut off has, and one has brought rows

vars == <<gate, plan, fetch, task, past>>

\* "both": with the flow "M,X"; "old": the years before the default window
Passes == {"asked", "both", "old", "oldBoth"}
Outcomes == {"rows", "otherFlow", "empty", "error"}
Places == {"queued", "atGate", "asking"} \union Outcomes

\* oneWay: exports or imports only; sparse: an annual fetch of one commodity, for
\* which the user has named no years
Plan == [oneWay : BOOLEAN, sparse : BOOLEAN]

TypeOK ==
  /\ gate \in 0..GateSize
  /\ plan \in [Fetch -> Plan]
  /\ \A f \in Fetch :
       /\ fetch[f] \in [pc : {"idle", "running", "answered", "noRecords", "raised", "refused", "cancelled"},
                        pass : Passes, rows : SUBSET Subs[f], lastError : BOOLEAN]
       /\ task[f] \in [Subs[f] -> Places]
       /\ past[f] \in [cut : BOOLEAN, erred : BOOLEAN, kept : BOOLEAN, received : BOOLEAN]

Queued(f) == [i \in Subs[f] |-> "queued"]

Init ==
  /\ gate = GateSize
  /\ plan \in [Fetch -> Plan]
  /\ fetch = [f \in Fetch |->
                [pc |-> "idle", pass |-> "asked", rows |-> {}, lastError |-> FALSE]]
  /\ task = [f \in Fetch |-> Queued(f)]
  /\ past = [f \in Fetch |->
               [cut |-> FALSE, erred |-> FALSE, kept |-> FALSE, received |-> FALSE]]

Running(f) == fetch[f].pc = "running"
Holding(f) == {i \in Subs[f] : task[f][i] = "asking"}
Guarded(f) == {i \in Subs[f] : task[f][i] \in {"atGate", "asking"}}
Finished(f) == \A i \in Subs[f] : task[f][i] \in Outcomes

Goes(f, i, place) == task' = [task EXCEPT ![f][i] = place]

\* A partner that is no country is refused at once
Begin(f) ==
  /\ fetch[f].pc = "idle"
  /\ \E pc \in {"running", "refused"} : fetch' = [fetch EXCEPT ![f].pc = pc]
  /\ UNCHANGED <<gate, plan, task, past>>

\* The fetch's own semaphore
TakesTurn(f, i) ==
  /\ Running(f) /\ task[f][i] = "queued"
  /\ Cardinality(Guarded(f)) < Local
  /\ Goes(f, i, "atGate")
  /\ UNCHANGED <<gate, plan, fetch, past>>

\* Through the gate, where it waits for its distance to the request before
PassesGate(f, i) ==
  /\ Running(f) /\ task[f][i] = "atGate" /\ gate > 0
  /\ gate' = gate - 1
  /\ Goes(f, i, "asking")
  /\ UNCHANGED <<plan, fetch, past>>

\* _fetch_single_reporter_data, its retries included, returns or raises
Returns(f, i) ==
  /\ Running(f) /\ task[f][i] = "asking"
  /\ gate' = gate + 1
  /\ \E outcome \in Outcomes :
       /\ outcome = "otherFlow" => fetch[f].pass \in {"both", "oldBoth"}
       /\ Goes(f, i, outcome)
       /\ past' = [past EXCEPT ![f].erred = @ \/ outcome = "error",
                               ![f].received = @ \/ outcome = "rows"]
  /\ UNCHANGED <<plan, fetch>>
-----------------------------------------------------------------------------
\* What follows a pass without rows
Following(f) ==
  {next \in Passes :
     \/ next = "both" /\ plan[f].oneWay /\ fetch[f].pass = "asked"
     \/ next = "old" /\ plan[f].sparse
          /\ fetch[f].pass = (IF plan[f].oneWay THEN "both" ELSE "asked")
     \/ next = "oldBoth" /\ plan[f].oneWay /\ fetch[f].pass = "old"}

Told(rows, lastError) ==
  CASE rows # {} -> "answered" [] lastError -> "raised" [] OTHER -> "noRecords"

\* Mutant: a pass without errors clears the one before
ContinueForgetting(f, rows, error) ==
  LET state == [fetch[f] EXCEPT !.rows = rows, !.lastError = error]
  IN /\ task' = [task EXCEPT ![f] = Queued(f)]
     /\ IF rows = {} /\ Following(f) # {}
        THEN \E next \in Following(f) : fetch' = [fetch EXCEPT ![f] = [state EXCEPT !.pass = next]]
        ELSE fetch' = [fetch EXCEPT ![f] = [state EXCEPT !.pc = Told(rows, error)]]

\* A pass has come back with these rows, and with the error of a sub-task or none
Continue(f, rows, error) ==
  LET lastError == fetch[f].lastError \/ error
      state == [fetch[f] EXCEPT !.rows = rows, !.lastError = lastError]
  IN /\ task' = [task EXCEPT ![f] = Queued(f)]
     /\ IF rows = {} /\ Following(f) # {}
        THEN \E next \in Following(f) : fetch' = [fetch EXCEPT ![f] = [state EXCEPT !.pass = next]]
        ELSE fetch' = [fetch EXCEPT ![f] = [state EXCEPT !.pc = Told(rows, lastError)]]

PassEnds(f) ==
  LET error == \E i \in Subs[f] : task[f][i] = "error"
  IN /\ Running(f) /\ Finished(f)
     /\ Continue(f, {i \in Subs[f] : task[f][i] = "rows"}, error)
     /\ past' = [past EXCEPT ![f].kept = @ \/ error]
     /\ UNCHANGED <<gate, plan>>

\* Mutant: a request that is cancelled keeps the gate
BudgetEndsHolding(f) ==
  /\ Running(f) /\ ~Finished(f)
  /\ Continue(f, {}, FALSE)
  /\ past' = [past EXCEPT ![f].cut = TRUE]
  /\ UNCHANGED <<gate, plan>>

\* wait_for cancels all sub-tasks, and the pass counts as one without rows and errors
BudgetEnds(f) ==
  /\ Running(f) /\ ~Finished(f)
  /\ gate' = gate + Cardinality(Holding(f))
  /\ Continue(f, {}, FALSE)
  /\ past' = [past EXCEPT ![f].cut = TRUE]
  /\ UNCHANGED plan

\* The turn is cancelled
Cancelled(f) ==
  /\ Running(f)
  /\ gate' = gate + Cardinality(Holding(f))
  /\ fetch' = [fetch EXCEPT ![f].pc = "cancelled"]
  /\ task' = [task EXCEPT ![f] = Queued(f)]
  /\ UNCHANGED <<plan, past>>

\* What the fetch does when a pass is over
Proceeds(f) == PassEnds(f) \/ BudgetEnds(f)

Next ==
  \E f \in Fetch :
    \/ Begin(f) \/ Proceeds(f) \/ Cancelled(f)
    \/ \E i \in Subs[f] : TakesTurn(f, i) \/ PassesGate(f, i) \/ Returns(f, i)

Fairness == WF_vars(\E f \in Fetch : Proceeds(f))

Spec == Init /\ [][Next]_vars /\ Fairness
-----------------------------------------------------------------------------
\* comtrade.py:121-150, 1329-1330: the gate is as wide as it was, less the requests
\* that are out; a pass that is cut off, and a turn that is cancelled, give it back
\* and leave no request behind, so that the other fetches of the process go on.
GateAccounted ==
  /\ gate = GateSize - Cardinality(UNION {{f} \X Holding(f) : f \in Fetch})
  /\ \A f \in Fetch : Cardinality(Guarded(f)) <= Local /\ (~Running(f) => Guarded(f) = {})

\* comtrade.py:1329-1462: that Comtrade has no records is said only when no sub-task of
\* a pass that came to its end failed, and when sub-tasks failed, or brought rows, at
\* most in passes that were cut off at their budget: an error of a whole pass outlives
\* the passes after it, and what is lost is lost to the budget alone.  The comment at
\* 1456, that every sub-task succeeded, holds of fetches without a cut.
AbsenceHasReason ==
  \A f \in Fetch :
    /\ fetch[f].pc = "noRecords" =>
         ~past[f].kept /\ (past[f].erred \/ past[f].received => past[f].cut)
    /\ fetch[f].pc = "raised" => past[f].kept

\* comtrade.py:102-118, 1357-1366: each pass has a budget, however long the gate is
\* held by other fetches, and there are at most four: a fetch comes to an end.
FetchesEnd == []<>(\A f \in Fetch : ~Running(f))
=============================================================================
