--------------------------- MODULE ServiceProofs ---------------------------
(***************************************************************************)
(* Proofs about the services of a worker that keep what they were given:   *)
(* the slots of the MCP streams, the metadata, the datasets, the feedback. *)
(***************************************************************************)
EXTENDS WorkerServices, Integers, Sequences, FiniteSets,
        FiniteSetTheorems, WellFoundedInduction, TLAPS

-----------------------------------------------------------------------------
(* McpStreamLimit                                                          *)

McpInv == Mcp!TypeOK /\ SlotsAccounted

\* The instance counts sets as this module does.
LEMMA McpSets ==
  /\ \A S : Mcp!IsFiniteSet(S) <=> IsFiniteSet(S)
  /\ \A S : Mcp!Cardinality(S) = Cardinality(S)
BY DEF IsFiniteSet, Mcp!IsFiniteSet, Cardinality, Mcp!Cardinality

\* Moving one stream leaves the others, and its client, alone.
LEMMA McpMoves ==
  ASSUME Mcp!TypeOK, NEW s \in StreamRequest, NEW place \in Mcp!Places, Mcp!Moved(s, place)
  PROVE  /\ stream' \in [StreamRequest -> [at : Mcp!Places, client : Client]]
         /\ stream'[s].at = place
         /\ \A t \in StreamRequest : stream'[t].client = stream[t].client
         /\ \A t \in StreamRequest \ {s} : stream'[t] = stream[t]
BY DEF Mcp!TypeOK, Mcp!Moved, Mcp!Places

\* The open streams, and those of a client, are finitely many.
LEMMA McpFinite ==
  /\ IsFiniteSet(Mcp!Open) /\ Cardinality(Mcp!Open) \in Nat
  /\ \A c : IsFiniteSet(Mcp!OpenOf(c)) /\ Cardinality(Mcp!OpenOf(c)) \in Nat
<1>1. IsFiniteSet(StreamRequest)
  BY ServicesAssumption, McpSets DEF Mcp!LimitAssumption
<1>2. IsFiniteSet(Mcp!Open)
  BY <1>1, FS_Subset DEF Mcp!Open
<1>3. ASSUME NEW c PROVE IsFiniteSet(Mcp!OpenOf(c))
  BY <1>2, FS_Subset DEF Mcp!OpenOf
<1> QED BY <1>2, <1>3, FS_CardinalityType

\* No stream is open at the start.
LEMMA McpInitial == ASSUME Mcp!Init PROVE McpInv
<1>1. Mcp!Open = {} /\ \A c : Mcp!OpenOf(c) = {}
  BY DEF Mcp!Init, Mcp!Open, Mcp!OpenOf
<1>2. Mcp!TypeOK
  BY DEF Mcp!Init, Mcp!TypeOK, Mcp!Places
<1>3. Mcp!CountersBalanced
  BY <1>1, FS_EmptySet, McpSets DEF Mcp!Init, Mcp!CountersBalanced, Mcp!Count
<1>4. Mcp!WithinLimits
  BY <1>1, FS_EmptySet, McpSets, ServicesAssumption DEF Mcp!LimitAssumption, Mcp!WithinLimits
<1> QED BY <1>2, <1>3, <1>4 DEF McpInv, SlotsAccounted, Mcp!SlotsAccounted

\* A stream that is refused was not counted, and is not.
LEMMA McpRefuse ==
  ASSUME McpInv, NEW s \in StreamRequest, Mcp!Refuse(s)
  PROVE  McpInv'
<1>1. /\ stream' \in [StreamRequest -> [at : Mcp!Places, client : Client]]
      /\ \A t \in StreamRequest : stream'[t].client = stream[t].client
      /\ \A t \in StreamRequest : stream'[t].at = "open" <=> stream[t].at = "open"
  BY McpMoves DEF McpInv, Mcp!Refuse, Mcp!Places
<1>2. Mcp!Open' = Mcp!Open /\ \A c : Mcp!OpenOf(c)' = Mcp!OpenOf(c)
  BY <1>1 DEF Mcp!Open, Mcp!OpenOf
<1>3. Mcp!TypeOK'
  BY <1>1 DEF McpInv, Mcp!TypeOK, Mcp!Refuse
<1>4. Mcp!CountersBalanced' /\ Mcp!WithinLimits'
  BY <1>2, McpSets DEF McpInv, Mcp!Refuse, SlotsAccounted, Mcp!SlotsAccounted,
     Mcp!CountersBalanced, Mcp!WithinLimits, Mcp!Count
<1> QED BY <1>3, <1>4 DEF McpInv, SlotsAccounted, Mcp!SlotsAccounted

\* A stream is admitted below both limits, and counted in both places.
LEMMA McpAdmit ==
  ASSUME McpInv, NEW s \in StreamRequest, Mcp!Admit(s)
  PROVE  McpInv'
<1> PICK c \in Client : c = stream[s].client
  BY DEF McpInv, Mcp!TypeOK
<1>1. /\ stream' \in [StreamRequest -> [at : Mcp!Places, client : Client]]
      /\ stream'[s].at = "open" /\ stream[s].at = "new"
      /\ \A t \in StreamRequest : stream'[t].client = stream[t].client
      /\ \A t \in StreamRequest \ {s} : stream'[t] = stream[t]
  BY McpMoves DEF McpInv, Mcp!Admit, Mcp!Places
<1>3. /\ Mcp!Open' = Mcp!Open \union {s} /\ s \notin Mcp!Open
      /\ Mcp!OpenOf(c)' = Mcp!OpenOf(c) \union {s} /\ s \notin Mcp!OpenOf(c)
      /\ \A d \in Client \ {c} : Mcp!OpenOf(d)' = Mcp!OpenOf(d)
  BY <1>1 DEF Mcp!Open, Mcp!OpenOf
<1>4. /\ Cardinality(Mcp!Open') = Cardinality(Mcp!Open) + 1
      /\ Cardinality(Mcp!OpenOf(c)') = Cardinality(Mcp!OpenOf(c)) + 1
  BY <1>3, McpFinite, FS_AddElement
<1>5. /\ active < MaxStreams /\ Mcp!Count(c) < MaxPerClient /\ active' = active + 1
      /\ activeByClient' = [k \in DOMAIN activeByClient \union {c} |->
                              IF k = c THEN Mcp!Count(c) + 1 ELSE activeByClient[k]]
  <2>1. active = Cardinality(Mcp!Open) /\ Mcp!Count(c) = Cardinality(Mcp!OpenOf(c))
    BY McpSets DEF McpInv, SlotsAccounted, Mcp!SlotsAccounted, Mcp!CountersBalanced
  <2> QED BY <2>1, McpFinite, ServicesAssumption DEF Mcp!Admit, Mcp!Full, Mcp!Claim, Mcp!LimitAssumption
<1>6. Mcp!Count(c)' = Mcp!Count(c) + 1 /\ \A d \in Client \ {c} : Mcp!Count(d)' = Mcp!Count(d)
  BY <1>5 DEF Mcp!Count
<1>7. Mcp!CountersBalanced'
  <2>1. \A d \in Client : Mcp!Count(d)' = Cardinality(Mcp!OpenOf(d)')
    BY <1>3, <1>4, <1>6, McpSets DEF McpInv, SlotsAccounted, Mcp!SlotsAccounted, Mcp!CountersBalanced
  <2>2. active' = Cardinality(Mcp!Open')
    BY <1>4, <1>5, McpSets DEF McpInv, SlotsAccounted, Mcp!SlotsAccounted, Mcp!CountersBalanced
  <2>3. (DOMAIN activeByClient)' = {d \in Client : Mcp!OpenOf(d) # {}}'
    BY <1>3, <1>5 DEF McpInv, SlotsAccounted, Mcp!SlotsAccounted, Mcp!CountersBalanced
  <2> QED BY <2>1, <2>2, <2>3, McpSets DEF Mcp!CountersBalanced
<1>8. Mcp!WithinLimits'
  <2>1. /\ active = Cardinality(Mcp!Open) /\ Mcp!Count(c) = Cardinality(Mcp!OpenOf(c))
        /\ \A d \in Client : Cardinality(Mcp!OpenOf(d)) <= MaxPerClient
    BY McpSets DEF McpInv, SlotsAccounted, Mcp!SlotsAccounted, Mcp!CountersBalanced, Mcp!WithinLimits
  <2>2. MaxStreams \in Nat /\ MaxPerClient \in Nat
    BY ServicesAssumption DEF Mcp!LimitAssumption
  <2>3. Cardinality(Mcp!Open') <= MaxStreams
    BY <1>4, <1>5, <2>1, <2>2, McpFinite
  <2>4. Cardinality(Mcp!OpenOf(c)') <= MaxPerClient
    BY <1>4, <1>5, <2>1, <2>2, McpFinite
  <2>5. \A d \in Client : Cardinality(Mcp!OpenOf(d)') <= MaxPerClient
    BY <1>3, <2>1, <2>4
  <2> QED BY <2>3, <2>5, McpSets DEF Mcp!WithinLimits
<1>9. Mcp!TypeOK'
  <2>1. activeByClient \in [DOMAIN activeByClient -> Int] /\ DOMAIN activeByClient \subseteq Client
        /\ active \in Int
    BY DEF McpInv, Mcp!TypeOK
  <2>2. Mcp!Count(c) \in Int
    BY <2>1 DEF Mcp!Count
  <2>3. activeByClient' \in [DOMAIN activeByClient \union {c} -> Int]
    BY <1>5, <2>1, <2>2
  <2> QED BY <1>1, <1>5, <2>1, <2>3 DEF Mcp!TypeOK
<1> QED BY <1>7, <1>8, <1>9 DEF McpInv, SlotsAccounted, Mcp!SlotsAccounted

\* A stream that ends is counted no more, and the last of a client takes the
\* client's entry with it.
LEMMA McpRelease ==
  ASSUME McpInv, NEW s \in StreamRequest, Mcp!Release(s)
  PROVE  McpInv'
<1> PICK c \in Client : c = stream[s].client
  BY DEF McpInv, Mcp!TypeOK
<1>1. /\ stream' \in [StreamRequest -> [at : Mcp!Places, client : Client]]
      /\ stream'[s].at = "closed" /\ stream[s].at = "open"
      /\ \A t \in StreamRequest : stream'[t].client = stream[t].client
      /\ \A t \in StreamRequest \ {s} : stream'[t] = stream[t]
  BY McpMoves DEF McpInv, Mcp!Release, Mcp!Places
<1>3. /\ Mcp!Open' = Mcp!Open \ {s} /\ s \in Mcp!Open
      /\ Mcp!OpenOf(c)' = Mcp!OpenOf(c) \ {s} /\ s \in Mcp!OpenOf(c)
      /\ \A d \in Client \ {c} : Mcp!OpenOf(d)' = Mcp!OpenOf(d)
  BY <1>1 DEF Mcp!Open, Mcp!OpenOf
<1>4. /\ Cardinality(Mcp!Open') = Cardinality(Mcp!Open) - 1
      /\ Cardinality(Mcp!OpenOf(c)') = Cardinality(Mcp!OpenOf(c)) - 1
      /\ Cardinality(Mcp!OpenOf(c)) = 1 <=> Mcp!OpenOf(c)' = {}
  <2>1. Cardinality(Mcp!Open') = Cardinality(Mcp!Open) - 1
    BY <1>3, McpFinite, FS_RemoveElement
  <2>2. /\ Cardinality(Mcp!OpenOf(c)') = Cardinality(Mcp!OpenOf(c)) - 1
        /\ IsFiniteSet(Mcp!OpenOf(c)')
    BY <1>3, McpFinite, FS_RemoveElement
  <2>3. Cardinality(Mcp!OpenOf(c)') = 0 <=> Mcp!OpenOf(c)' = {}
    BY <2>2, FS_EmptySet
  <2> QED BY <2>1, <2>2, <2>3, McpFinite
<1>5. /\ c \in DOMAIN activeByClient /\ activeByClient[c] = Cardinality(Mcp!OpenOf(c))
      /\ DOMAIN activeByClient = {d \in Client : Mcp!OpenOf(d) # {}}
      /\ active = Cardinality(Mcp!Open)
      /\ \A d \in Client : Mcp!Count(d) = Cardinality(Mcp!OpenOf(d))
    BY <1>3, McpSets DEF McpInv, SlotsAccounted, Mcp!SlotsAccounted, Mcp!CountersBalanced, Mcp!Count
<1>6. active' = active - 1
  BY DEF Mcp!Release
<1>7. activeByClient' = IF activeByClient[c] - 1 # 0
                        THEN [activeByClient EXCEPT ![c] = activeByClient[c] - 1]
                        ELSE [k \in DOMAIN activeByClient \ {c} |-> activeByClient[k]]
  BY DEF Mcp!Release
<1>8. activeByClient \in [DOMAIN activeByClient -> Int] /\ DOMAIN activeByClient \subseteq Client
      /\ active \in Int
  BY DEF McpInv, Mcp!TypeOK
<1>9. (DOMAIN activeByClient)' = {d \in Client : Mcp!OpenOf(d) # {}}'
      /\ activeByClient' \in [DOMAIN activeByClient' -> Int]
  <2>1. CASE activeByClient[c] = 1
    BY <2>1, <1>3, <1>4, <1>5, <1>7, <1>8
  <2>2. CASE activeByClient[c] # 1
    BY <2>2, <1>3, <1>4, <1>5, <1>7, <1>8, McpFinite
  <2> QED BY <2>1, <2>2
<1>10. /\ Mcp!Count(c)' = Mcp!Count(c) - 1
       /\ \A d \in Client \ {c} : Mcp!Count(d)' = Mcp!Count(d)
  <2>1. CASE activeByClient[c] = 1
    BY <2>1, <1>5, <1>7, <1>8 DEF Mcp!Count
  <2>2. CASE activeByClient[c] # 1
    BY <2>2, <1>5, <1>7, <1>8, McpFinite DEF Mcp!Count
  <2> QED BY <2>1, <2>2
<1>11. Mcp!CountersBalanced'
  <2>1. \A d \in Client : Mcp!Count(d)' = Cardinality(Mcp!OpenOf(d)')
    BY <1>3, <1>4, <1>5, <1>10
  <2> QED BY <1>4, <1>5, <1>6, <1>9, <2>1, McpSets DEF Mcp!CountersBalanced
<1>12. Mcp!WithinLimits'
  <2>1. /\ Cardinality(Mcp!Open) <= MaxStreams
        /\ \A d \in Client : Cardinality(Mcp!OpenOf(d)) <= MaxPerClient
    BY McpSets DEF McpInv, SlotsAccounted, Mcp!SlotsAccounted, Mcp!WithinLimits
  <2>2. MaxStreams \in Nat /\ MaxPerClient \in Nat
    BY ServicesAssumption DEF Mcp!LimitAssumption
  <2>3. Cardinality(Mcp!Open') <= MaxStreams /\ Cardinality(Mcp!OpenOf(c)') <= MaxPerClient
    BY <1>4, <2>1, <2>2, McpFinite
  <2>4. \A d \in Client : Cardinality(Mcp!OpenOf(d)') <= MaxPerClient
    BY <1>3, <2>1, <2>3
  <2> QED BY <2>3, <2>4, McpSets DEF Mcp!WithinLimits
<1>13. Mcp!TypeOK'
  <2>1. (DOMAIN activeByClient)' \in SUBSET Client
    BY <1>9
  <2>2. \E C \in SUBSET Client : activeByClient' \in [C -> Int]
    BY <1>9, <2>1
  <2>3. active' \in Int
    BY <1>6, <1>8
  <2> QED BY <1>1, <2>2, <2>3 DEF Mcp!TypeOK
<1> QED BY <1>11, <1>12, <1>13 DEF McpInv, SlotsAccounted, Mcp!SlotsAccounted

\* mcp_stream_limit.py:74-87: for any number of clients, streams and slots, the
\* counters are those of the open streams, within both limits.
THEOREM SlotsAlwaysAccounted == Mcp!Spec => [](Mcp!TypeOK /\ SlotsAccounted)
<1>1. Mcp!Init => McpInv
  BY McpInitial
<1>2. McpInv /\ [Mcp!Next]_(Mcp!vars) => McpInv'
  <2> SUFFICES ASSUME McpInv, [Mcp!Next]_(Mcp!vars) PROVE McpInv'
    OBVIOUS
  <2>1. CASE UNCHANGED Mcp!vars
    BY <2>1 DEF Mcp!vars, McpInv, Mcp!TypeOK, SlotsAccounted, Mcp!SlotsAccounted,
       Mcp!CountersBalanced, Mcp!WithinLimits, Mcp!Count, Mcp!Open, Mcp!OpenOf
  <2>2. ASSUME NEW s \in StreamRequest, Mcp!Refuse(s) \/ Mcp!Admit(s) \/ Mcp!Release(s)
        PROVE  McpInv'
    BY <2>2, McpRefuse, McpAdmit, McpRelease
  <2> QED BY <2>1, <2>2 DEF Mcp!Next
<1> QED BY <1>1, <1>2, PTL DEF Mcp!Spec, McpInv
-----------------------------------------------------------------------------
(* MetadataLoader                                                          *)

\* What the flags say of the task
LoaderFlags ==
  /\ isLoading <=> task # "none"
  /\ isComplete <=> task = "done"
  /\ result => task = "done"
  /\ task = "none" => ~error

\* An attempt after the first remembers an error, and so does a task that ended
\* without a result, which has used up its attempts
LoaderAttempts ==
  /\ task # "none" => attempt >= 1
  /\ task = "trying" => (error <=> attempt > 1)
  /\ task = "pausing" => error /\ attempt < MaxRetries
  /\ task = "done" => (error <=> ~(attempt = 1 /\ result))
  /\ task = "done" /\ ~result => attempt = MaxRetries

\* Who waits, waits for a task that runs; who was told has been told the truth
LoaderWaiters ==
  \A w \in Waiter :
    /\ waiter[w] = "waiting" => task \in Loader!Running
    /\ waiter[w] = "loaded" => task = "done" /\ ~error
    /\ waiter[w] = "late" => task = "cancelled"

LoaderInv == Loader!TypeOK /\ LoaderFlags /\ LoaderAttempts /\ LoaderWaiters

\* Waking changes nothing but the waiting.
LEMMA LoaderWakes ==
  ASSUME Loader!TypeOK, NEW outcome \in Loader!WaiterPcs
  PROVE  /\ Loader!Woken(outcome) \in [Waiter -> Loader!WaiterPcs]
         /\ \A w \in Waiter :
              Loader!Woken(outcome)[w] = IF waiter[w] = "waiting" THEN outcome ELSE waiter[w]
BY DEF Loader!TypeOK, Loader!Woken

\* start begins a first attempt, or does nothing.
LEMMA LoaderStarts == ASSUME LoaderInv, Loader!start PROVE LoaderInv'
BY ServicesAssumption DEF Loader!LoaderAssumption, Loader!start, LoaderInv, Loader!TypeOK,
   LoaderFlags, LoaderAttempts, LoaderWaiters, Loader!Running

\* An attempt succeeds, fails for good, or makes room for the next one.
LEMMA LoaderLoads == ASSUME LoaderInv, Loader!Load PROVE LoaderInv'
<1>1. MaxRetries \in Nat \ {0}
  BY ServicesAssumption DEF Loader!LoaderAssumption
<1>2. CASE Loader!LoadSucceeds
  <2>1. PICK outcome \in {"loaded", "notLoaded"} :
          waiter' = Loader!Woken(outcome) /\ (outcome = "loaded" <=> ~error)
    BY <1>2 DEF Loader!LoadSucceeds
  <2>2. /\ waiter' \in [Waiter -> Loader!WaiterPcs]
        /\ \A w \in Waiter : waiter'[w] = IF waiter[w] = "waiting" THEN outcome ELSE waiter[w]
    BY <2>1, LoaderWakes DEF LoaderInv, Loader!WaiterPcs
  <2> QED BY <1>1, <1>2, <2>1, <2>2 DEF Loader!LoadSucceeds, LoaderInv, Loader!TypeOK,
       LoaderFlags, LoaderAttempts, LoaderWaiters, Loader!Running
<1>3. CASE Loader!LoadFails
  <2>1. CASE attempt < MaxRetries /\ task' = "pausing" /\ UNCHANGED <<isComplete, waiter>>
    BY <1>1, <1>3, <2>1 DEF Loader!LoadFails, LoaderInv, Loader!TypeOK,
       LoaderFlags, LoaderAttempts, LoaderWaiters, Loader!Running
  <2>2. CASE attempt = MaxRetries /\ task' = "done" /\ isComplete' = TRUE
             /\ waiter' = Loader!Woken("notLoaded")
    <3>1. /\ waiter' \in [Waiter -> Loader!WaiterPcs]
          /\ \A w \in Waiter :
               waiter'[w] = IF waiter[w] = "waiting" THEN "notLoaded" ELSE waiter[w]
      BY <2>2, LoaderWakes DEF LoaderInv, Loader!WaiterPcs
    <3> QED BY <1>1, <1>3, <2>2, <3>1 DEF Loader!LoadFails, LoaderInv, Loader!TypeOK,
         LoaderFlags, LoaderAttempts, LoaderWaiters, Loader!Running
  <2> QED BY <1>3, <2>1, <2>2 DEF Loader!LoadFails
<1>4. CASE Loader!TryAgain
  BY <1>1, <1>4 DEF Loader!TryAgain, LoaderInv, Loader!TypeOK,
     LoaderFlags, LoaderAttempts, LoaderWaiters, Loader!Running
<1> QED BY <1>2, <1>3, <1>4 DEF Loader!Load

\* Whoever waits for a task that is cancelled gets the cancellation.
LEMMA LoaderIsCancelled == ASSUME LoaderInv, Loader!cancel PROVE LoaderInv'
<1>1. /\ waiter' \in [Waiter -> Loader!WaiterPcs]
      /\ \A w \in Waiter :
           waiter'[w] = IF waiter[w] = "waiting" THEN "thrown" ELSE waiter[w]
  BY LoaderWakes DEF Loader!cancel, LoaderInv, Loader!WaiterPcs
<1> QED BY <1>1 DEF Loader!cancel, LoaderInv, Loader!TypeOK,
     LoaderFlags, LoaderAttempts, LoaderWaiters, Loader!Running

\* A waiter asks, and may run out of patience: the task goes with it.
LEMMA LoaderIsAwaited ==
  ASSUME LoaderInv, NEW w \in Waiter,
         Loader!wait_for_completion(w) \/ Loader!WaitTimesOut(w)
  PROVE  LoaderInv'
<1>1. CASE Loader!wait_for_completion(w)
  <2> DEFINE outcome == CASE task = "none" -> "notLoaded"
                       [] task = "cancelled" -> "thrown"
                       [] task = "done" -> (IF Loader!is_ready THEN "loaded" ELSE "notLoaded")
                       [] task \in Loader!Running -> "waiting"
  <2>1. /\ outcome \in Loader!WaiterPcs \ {"late"}
        /\ outcome = "waiting" => task \in Loader!Running
        /\ outcome = "loaded" => task = "done" /\ ~error
    BY DEF LoaderInv, Loader!TypeOK, Loader!Running, Loader!WaiterPcs, Loader!is_ready
  <2>2. waiter' = [waiter EXCEPT ![w] = outcome]
    BY <1>1 DEF Loader!wait_for_completion
  <2> HIDE DEF outcome
  <2> QED BY <1>1, <2>1, <2>2 DEF Loader!wait_for_completion, LoaderInv, Loader!TypeOK,
       LoaderFlags, LoaderAttempts, LoaderWaiters, Loader!Running
<1>2. CASE Loader!WaitTimesOut(w)
  <2>1. /\ Loader!Woken("thrown") \in [Waiter -> Loader!WaiterPcs]
        /\ \A v \in Waiter : Loader!Woken("thrown")[v] \notin {"waiting"}
                             /\ (Loader!Woken("thrown")[v] = "loaded" => waiter[v] = "loaded")
    BY LoaderWakes DEF LoaderInv, Loader!WaiterPcs
  <2>2. task \in Loader!Running
    BY <1>2 DEF Loader!WaitTimesOut, LoaderInv, LoaderWaiters
  <2>3. waiter' = [Loader!Woken("thrown") EXCEPT ![w] = "late"] /\ task' = "cancelled"
        /\ UNCHANGED <<isLoading, isComplete, result, error, attempt>>
    BY <1>2 DEF Loader!WaitTimesOut
  <2> QED BY <2>1, <2>2, <2>3 DEF LoaderInv, Loader!TypeOK, Loader!WaiterPcs,
       LoaderFlags, LoaderAttempts, LoaderWaiters, Loader!Running
<1> QED BY <1>1, <1>2

\* async_metadata_loader.py:76-162: for any number of waiters and attempts, who is told
\* that the metadata are there is told the truth, nobody waits for a task that has
\* ended, and the loader gives up only after its last attempt.
THEOREM WaitersAlwaysToldTruth == Loader!Spec => [](Loader!TypeOK /\ WaitersToldTruth)
<1>1. Loader!Init => LoaderInv
  <2>1. Loader!Init => Loader!TypeOK
    <3>1. 0 \in 0..MaxRetries
      BY ServicesAssumption DEF Loader!LoaderAssumption
    <3>2. [w \in Waiter |-> "idle"] \in [Waiter -> Loader!WaiterPcs]
      BY DEF Loader!WaiterPcs
    <3> QED BY <3>1, <3>2 DEF Loader!Init, Loader!TypeOK
  <2>2. Loader!Init => LoaderFlags /\ LoaderAttempts /\ LoaderWaiters
    BY DEF Loader!Init, LoaderFlags, LoaderAttempts, LoaderWaiters
  <2> QED BY <2>1, <2>2 DEF LoaderInv
<1>2. LoaderInv /\ [Loader!Next]_(Loader!vars) => LoaderInv'
  <2> SUFFICES ASSUME LoaderInv, [Loader!Next]_(Loader!vars) PROVE LoaderInv'
    OBVIOUS
  <2>1. CASE UNCHANGED Loader!vars
    BY <2>1 DEF Loader!vars, LoaderInv, Loader!TypeOK, LoaderFlags, LoaderAttempts, LoaderWaiters
  <2>2. CASE Loader!start \/ Loader!Load \/ Loader!cancel
    BY <2>2, LoaderStarts, LoaderLoads, LoaderIsCancelled
  <2>3. ASSUME NEW w \in Waiter, Loader!wait_for_completion(w) \/ Loader!WaitTimesOut(w)
        PROVE  LoaderInv'
    BY <2>3, LoaderIsAwaited
  <2> QED BY <2>1, <2>2, <2>3 DEF Loader!Next
<1>3. LoaderInv => WaitersToldTruth
  BY DEF LoaderInv, LoaderFlags, LoaderAttempts, LoaderWaiters, WaitersToldTruth,
     Loader!TypeOK, Loader!WaitersToldTruth, Loader!is_ready, Loader!Running
<1>4. LoaderInv => Loader!TypeOK
  BY DEF LoaderInv
<1> QED BY <1>1, <1>2, <1>3, <1>4, PTL DEF Loader!Spec
-----------------------------------------------------------------------------
(* FeedbackFile                                                            *)

\* Before the first mishap one worker writes at a time, from a list that has all
\* that was thanked for, and no other worker that runs believes its own list
FeedbackWriter ==
  \A w \in Worker : worker[w] = "writing" =>
    /\ ~stale[w] /\ entry[w] \in memory[w]
    /\ \A v \in Worker \ {w} : worker[v] # "writing" /\ (worker[v] = "down" \/ stale[v])

\* A list that is not stale has it too
FeedbackLists ==
  \A w \in Worker : worker[w] # "down" /\ ~stale[w] => Feedbacks!Thanked \subseteq memory[w]

FeedbackInv ==
  /\ Feedbacks!TypeOK /\ ThankedIsKept
  /\ ~spoiled => FeedbackWriter /\ FeedbackLists

\* A worker that starts knows what it can read of the file.
LEMMA FeedbackLoads ==
  ASSUME FeedbackInv, NEW w \in Worker, Feedbacks!_load_feedback(w)
  PROVE  FeedbackInv'
<1>1. Feedbacks!TypeOK'
  BY DEF FeedbackInv, Feedbacks!TypeOK, Feedbacks!_load_feedback
<1>2. Feedbacks!Thanked' = Feedbacks!Thanked /\ UNCHANGED file
  BY DEF Feedbacks!Thanked, Feedbacks!_load_feedback
<1>3. ASSUME ~spoiled'
      PROVE  FeedbackWriter' /\ FeedbackLists' /\ ThankedIsKept'
  <2>1. ~spoiled /\ Feedbacks!Writing = {} /\ Feedbacks!Writing' = {}
    BY <1>3 DEF FeedbackInv, Feedbacks!TypeOK, Feedbacks!_load_feedback, Feedbacks!Writing
  <2>2. file.parses /\ Feedbacks!Thanked \subseteq file.entries
    BY <2>1 DEF FeedbackInv, ThankedIsKept, Feedbacks!ThankedIsKept
  <2>3. ThankedIsKept' /\ FeedbackWriter'
    BY <1>2, <2>1, <2>2 DEF ThankedIsKept, Feedbacks!ThankedIsKept, FeedbackWriter, Feedbacks!Writing
  <2>4. FeedbackLists'
    BY <1>1, <1>2, <2>1, <2>2
       DEF FeedbackInv, FeedbackLists, Feedbacks!TypeOK, Feedbacks!_load_feedback
  <2> QED BY <2>3, <2>4
<1> QED BY <1>1, <1>3 DEF FeedbackInv, ThankedIsKept, Feedbacks!ThankedIsKept

\* A worker has put an entry into its list and emptied the file.
LEMMA FeedbackRecorded ==
  ASSUME FeedbackInv, NEW w \in Worker, NEW f \in Feedback, Feedbacks!_record_feedback(w, f)
  PROVE  FeedbackInv'
<1>1. Feedbacks!TypeOK'
  BY DEF FeedbackInv, Feedbacks!TypeOK, Feedbacks!_record_feedback, Feedbacks!Torn
<1>2. Feedbacks!Thanked' = Feedbacks!Thanked
  BY DEF FeedbackInv, Feedbacks!TypeOK, Feedbacks!Thanked, Feedbacks!_record_feedback
<1>3. worker'[w] = "writing" /\ w \in Feedbacks!Writing'
  BY DEF FeedbackInv, Feedbacks!TypeOK, Feedbacks!_record_feedback, Feedbacks!Writing
<1>4. ASSUME ~spoiled'
      PROVE  FeedbackWriter' /\ FeedbackLists'
  <2>1. ~spoiled /\ Feedbacks!Writing = {} /\ ~stale[w]
    BY <1>4 DEF FeedbackInv, Feedbacks!TypeOK, Feedbacks!_record_feedback
  <2>2. /\ memory' = [memory EXCEPT ![w] = @ \union {f}]
        /\ entry' = [entry EXCEPT ![w] = f]
        /\ stale' = [x \in Worker |-> stale[x] \/ x # w]
        /\ worker' = [worker EXCEPT ![w] = "writing"]
        /\ worker[w] = "up"
    BY DEF Feedbacks!_record_feedback
  <2>3. FeedbackWriter'
    BY <2>1, <2>2 DEF FeedbackInv, Feedbacks!TypeOK, Feedbacks!Writing, FeedbackWriter
  <2>4. FeedbackLists'
    BY <1>2, <2>1, <2>2 DEF FeedbackInv, Feedbacks!TypeOK, FeedbackLists
  <2> QED BY <2>3, <2>4
<1> QED BY <1>1, <1>3, <1>4 DEF FeedbackInv, ThankedIsKept, Feedbacks!ThankedIsKept

\* The file could not be opened: nothing is lost.
LEMMA FeedbackNotOpened ==
  ASSUME FeedbackInv, NEW w \in Worker, NEW f \in Feedback, Feedbacks!OpenFails(w, f)
  PROVE  FeedbackInv'
<1>1. Feedbacks!TypeOK'
  BY DEF FeedbackInv, Feedbacks!TypeOK, Feedbacks!OpenFails
<1>2. Feedbacks!Thanked' = Feedbacks!Thanked /\ Feedbacks!Writing' = Feedbacks!Writing
  BY DEF FeedbackInv, Feedbacks!TypeOK, Feedbacks!Thanked, Feedbacks!Writing, Feedbacks!OpenFails
<1>3. \A v \in Worker : memory[v] \subseteq memory'[v]
  BY DEF FeedbackInv, Feedbacks!TypeOK, Feedbacks!OpenFails
<1>4. UNCHANGED <<file, worker, entry, stale, spoiled>>
  BY DEF Feedbacks!OpenFails
<1>5. ThankedIsKept'
  BY <1>2, <1>4 DEF FeedbackInv, ThankedIsKept, Feedbacks!ThankedIsKept
<1>6. ~spoiled' => FeedbackWriter' /\ FeedbackLists'
  BY <1>2, <1>3, <1>4 DEF FeedbackInv, FeedbackWriter, FeedbackLists
<1> QED BY <1>1, <1>5, <1>6 DEF FeedbackInv

\* A worker writes its list: what it does not hold is gone from the file, and is stale.
LEMMA FeedbackSaved ==
  ASSUME FeedbackInv, NEW w \in Worker, Feedbacks!_save_feedback(w)
  PROVE  FeedbackInv'
<1>1. /\ worker[w] = "writing" /\ worker' = [worker EXCEPT ![w] = "up"]
      /\ told' = [told EXCEPT ![entry[w]] = "thanks"]
      /\ UNCHANGED <<memory, entry, stale, crashes, spoiled>>
      /\ file' \in {[parses |-> TRUE, entries |-> memory[w]]}
                     \union IF spoiled THEN {Feedbacks!Torn} ELSE {}
  BY DEF Feedbacks!_save_feedback, Feedbacks!Ends
<1>2. Feedbacks!TypeOK'
  <2>1. memory[w] \in SUBSET Feedback /\ spoiled \in BOOLEAN
    BY DEF FeedbackInv, Feedbacks!TypeOK
  <2>2. file' \in [parses : BOOLEAN, entries : SUBSET Feedback]
    <3>1. file' = [parses |-> TRUE, entries |-> memory[w]] \/ file' = Feedbacks!Torn
      BY <1>1
    <3>2. /\ [parses |-> TRUE, entries |-> memory[w]] \in [parses : BOOLEAN, entries : SUBSET Feedback]
          /\ Feedbacks!Torn \in [parses : BOOLEAN, entries : SUBSET Feedback]
      BY <2>1 DEF Feedbacks!Torn
    <3> QED BY <3>1, <3>2, Zenon
  <2> QED BY <1>1, <2>2 DEF FeedbackInv, Feedbacks!TypeOK
<1>3. Feedbacks!Thanked' \subseteq Feedbacks!Thanked \union {entry[w]}
  BY <1>1 DEF FeedbackInv, Feedbacks!TypeOK, Feedbacks!Thanked
<1>4. ASSUME ~spoiled PROVE FeedbackWriter' /\ FeedbackLists' /\ ThankedIsKept'
  <2>1. file' = [parses |-> TRUE, entries |-> memory[w]]
    BY <1>1, <1>4
  <2>2. /\ ~stale[w] /\ entry[w] \in memory[w] /\ Feedbacks!Thanked \subseteq memory[w]
        /\ \A v \in Worker \ {w} : worker[v] # "writing" /\ (worker[v] = "down" \/ stale[v])
    BY <1>1, <1>4 DEF FeedbackInv, FeedbackWriter, FeedbackLists
  <2>3. ThankedIsKept'
    BY <1>3, <2>1, <2>2 DEF ThankedIsKept, Feedbacks!ThankedIsKept
  <2>4. FeedbackWriter' /\ FeedbackLists'
    BY <1>1, <1>3, <2>2 DEF FeedbackInv, Feedbacks!TypeOK, FeedbackWriter, FeedbackLists
  <2> QED BY <2>3, <2>4
<1> QED BY <1>1, <1>2, <1>4 DEF FeedbackInv, ThankedIsKept, Feedbacks!ThankedIsKept

\* Before any mishap a crash takes one list away, and nothing that was thanked for.
LEMMA FeedbackCrash ==
  ASSUME FeedbackInv, NEW w \in Worker, Feedbacks!Crash(w)
  PROVE  FeedbackInv'
<1>1. Feedbacks!TypeOK'
  BY ServicesAssumption DEF Feedbacks!FileAssumption, FeedbackInv, Feedbacks!TypeOK, Feedbacks!Crash
<1>2. ASSUME ~spoiled' PROVE FeedbackWriter' /\ FeedbackLists' /\ ThankedIsKept'
  <2>1. /\ ~spoiled /\ worker[w] # "writing" /\ UNCHANGED <<file, entry, stale, told>>
        /\ worker' = [worker EXCEPT ![w] = "down"] /\ memory' = [memory EXCEPT ![w] = {}]
    BY <1>2 DEF FeedbackInv, Feedbacks!TypeOK, Feedbacks!Crash
  <2>2. Feedbacks!Thanked' = Feedbacks!Thanked /\ Feedbacks!Writing' = Feedbacks!Writing
    BY <2>1 DEF FeedbackInv, Feedbacks!TypeOK, Feedbacks!Thanked, Feedbacks!Writing
  <2>3. ThankedIsKept'
    BY <2>1, <2>2 DEF FeedbackInv, ThankedIsKept, Feedbacks!ThankedIsKept
  <2>4. FeedbackWriter'
    BY <2>1 DEF FeedbackInv, Feedbacks!TypeOK, FeedbackWriter
  <2>5. FeedbackLists'
    BY <2>1, <2>2 DEF FeedbackInv, Feedbacks!TypeOK, FeedbackLists
  <2> QED BY <2>3, <2>4, <2>5
<1> QED BY <1>1, <1>2 DEF FeedbackInv, ThankedIsKept, Feedbacks!ThankedIsKept

\* feedback.py:58-80: for any number of workers, submissions and restarts, only the
\* four mishaps can lose what a client was thanked for.
THEOREM ThankedAlwaysKept == Feedbacks!Spec => [](Feedbacks!TypeOK /\ ThankedIsKept)
<1>1. Feedbacks!Init => FeedbackInv
  <2>1. ASSUME Feedbacks!Init PROVE Feedbacks!TypeOK
    <3>1. (CHOOSE f \in Feedback : TRUE) \in Feedback /\ MaxCrashes \in Nat
      BY ServicesAssumption DEF Feedbacks!FileAssumption
    <3>2. file \in [parses : BOOLEAN, entries : SUBSET Feedback]
      BY <2>1 DEF Feedbacks!Init
    <3>3. entry \in [Worker -> Feedback] /\ memory \in [Worker -> SUBSET Feedback]
      BY <2>1, <3>1 DEF Feedbacks!Init
    <3>4. /\ worker \in [Worker -> {"down", "up", "writing"}]
          /\ told \in [Feedback -> {"nothing", "wait", "thanks", "sorry"}]
      BY <2>1 DEF Feedbacks!Init
    <3>5. crashes \in 0..MaxCrashes
      BY <2>1, <3>1 DEF Feedbacks!Init
    <3>6. spoiled \in BOOLEAN
      BY <2>1 DEF Feedbacks!Init
    <3>7. stale \in [Worker -> BOOLEAN]
      BY <2>1 DEF Feedbacks!Init
    <3> QED BY <3>2, <3>3, <3>4, <3>5, <3>6, <3>7 DEF Feedbacks!TypeOK
  <2>2. ASSUME Feedbacks!Init PROVE ThankedIsKept /\ FeedbackWriter /\ FeedbackLists
    BY <2>2 DEF Feedbacks!Init, ThankedIsKept, Feedbacks!ThankedIsKept, Feedbacks!Thanked,
       FeedbackWriter, FeedbackLists
  <2> QED BY <2>1, <2>2 DEF FeedbackInv
<1>2. FeedbackInv /\ [Feedbacks!Next]_(Feedbacks!vars) => FeedbackInv'
  <2> SUFFICES ASSUME FeedbackInv, [Feedbacks!Next]_(Feedbacks!vars) PROVE FeedbackInv'
    OBVIOUS
  <2>1. CASE UNCHANGED Feedbacks!vars
    BY <2>1 DEF Feedbacks!vars, FeedbackInv, Feedbacks!TypeOK, ThankedIsKept,
       Feedbacks!ThankedIsKept, Feedbacks!Thanked, Feedbacks!Writing, FeedbackWriter, FeedbackLists
  <2>2. ASSUME NEW w \in Worker, Feedbacks!WriteFails(w)
        PROVE  FeedbackInv'
    BY <2>2 DEF Feedbacks!WriteFails, Feedbacks!Ends, FeedbackInv, Feedbacks!TypeOK,
       ThankedIsKept, Feedbacks!ThankedIsKept
  <2>3. ASSUME NEW w \in Worker,
               \/ Feedbacks!_load_feedback(w) \/ Feedbacks!_save_feedback(w) \/ Feedbacks!Crash(w)
               \/ \E f \in Feedback : Feedbacks!_record_feedback(w, f) \/ Feedbacks!OpenFails(w, f)
        PROVE  FeedbackInv'
    BY <2>3, FeedbackLoads, FeedbackSaved, FeedbackCrash, FeedbackRecorded, FeedbackNotOpened
  <2> QED BY <2>1, <2>2, <2>3 DEF Feedbacks!Next
<1> QED BY <1>1, <1>2, PTL DEF Feedbacks!Spec, FeedbackInv
-----------------------------------------------------------------------------
(* DatasetStore                                                            *)

\* What a reader holds is the entry of its dataset, and it gives up one that has expired
StoreReaders ==
  \A r \in Reader : reader[r].at \in {"found", "popping"} =>
    /\ \E i \in DOMAIN puts : Store!Id(i) = reader[r].id /\ Store!Created(i) = reader[r].created
    /\ reader[r].at = "popping" => Store!Expired(reader[r].created)

\* A dataset is put once
StoreIds == \A i, j \in DOMAIN puts : Store!Id(i) = Store!Id(j) => i = j

StoreInv == Store!TypeOK /\ LostOnlyIfCrowded /\ StoreReaders /\ StoreIds

\* The instance counts sets as this module does.
LEMMA StoreSets ==
  /\ \A S : Store!IsFiniteSet(S) <=> IsFiniteSet(S)
  /\ \A S : Store!Cardinality(S) = Cardinality(S)
BY DEF IsFiniteSet, Store!IsFiniteSet, Cardinality, Store!Cardinality

\* A set of natural numbers that is not empty has a least element.
LEMMA LeastOfNat ==
  ASSUME NEW S, S \subseteq Nat, S # {}
  PROVE  \E m \in S : \A n \in S : m <= n
<1>1. PICK m \in S : \A n \in S : <<n, m>> \notin OpToRel(<, Nat)
  BY NatLessThanWellFounded, WFMin
<1>2. \A n \in S : ~ (n < m)
  BY <1>1 DEF OpToRel
<1> QED BY <1>2

\* Places are finitely many, and those after the i-th of n at most n - i.
LEMMA LaterBound ==
  ASSUME NEW n \in Nat, NEW live \in SUBSET (1..n), NEW i \in 1..n
  PROVE  LET after == {j \in live : j > i}
         IN  IsFiniteSet(after) /\ Cardinality(after) \in Nat /\ Cardinality(after) <= n - i
<1> DEFINE after == {j \in live : j > i}
<1>1. after \in SUBSET ((i + 1)..n)
  <2>1. ASSUME NEW j \in live, j > i PROVE j \in (i + 1)..n
    <3>1. j \in 1..n
      OBVIOUS
    <3> QED BY <2>1, <3>1
  <2> QED BY <2>1
<1>2. i + 1 \in Int /\ n \in Int
  OBVIOUS
<1>3. /\ IsFiniteSet((i + 1)..n)
      /\ Cardinality((i + 1)..n) = IF i + 1 > n THEN 0 ELSE n - (i + 1) + 1
  BY <1>2, FS_Interval
<1> HIDE DEF after
<1>4. IsFiniteSet(after) /\ Cardinality(after) <= Cardinality((i + 1)..n)
  BY <1>1, <1>3, FS_Subset
<1>5. Cardinality(after) \in Nat
  BY <1>4, FS_CardinalityType
<1>6. Cardinality((i + 1)..n) = n - i
  BY <1>3
<1> QED BY <1>4, <1>5, <1>6 DEF after

\* Of a set of places those that have fewer than k after them are at most k.
LEMMA NewestBound ==
  ASSUME NEW n \in Nat, NEW live \in SUBSET (1..n), NEW k \in Nat
  PROVE  LET kept == {i \in live : Cardinality({j \in live : j > i}) < k}
         IN  IsFiniteSet(kept) /\ Cardinality(kept) <= k
<1> DEFINE after(i) == {j \in live : j > i}
           kept == {i \in live : Cardinality(after(i)) < k}
<1>1. IsFiniteSet(1..n)
  BY FS_Interval
<1>2. kept \in SUBSET (1..n) /\ kept \subseteq live /\ kept \subseteq Nat
  <2>1. kept \subseteq live
    OBVIOUS
  <2> HIDE DEF kept
  <2> QED BY <2>1
<1> HIDE DEF kept
<1>3. IsFiniteSet(kept) /\ Cardinality(kept) \in Nat
  BY <1>1, <1>2, FS_Subset, FS_CardinalityType
<1>4. CASE kept = {}
  <2>1. Cardinality(kept) = 0
    BY <1>4, FS_EmptySet
  <2> QED BY <1>3, <2>1 DEF kept
<1>5. CASE kept # {}
  <2>1. PICK m \in kept : \A i \in kept : m <= i
    BY <1>2, <1>5, LeastOfNat
  <2>2. m \in 1..n
    BY <1>2
  <2>3. IsFiniteSet(after(m)) /\ Cardinality(after(m)) \in Nat
    BY <2>2, LaterBound
  <2>4. Cardinality(after(m)) < k
    BY DEF kept
  <2>5. kept \in SUBSET (after(m) \union {m}) /\ m \notin after(m)
    BY <1>2, <2>1, <2>2
  <2> HIDE DEF after
  <2>6. IsFiniteSet(after(m) \union {m})
        /\ Cardinality(after(m) \union {m}) = Cardinality(after(m)) + 1
    BY <2>3, <2>5, FS_AddElement
  <2>7. Cardinality(kept) <= Cardinality(after(m)) + 1
    BY <2>5, <2>6, FS_Subset
  <2>8. Cardinality(kept) <= k
    BY <1>3, <2>3, <2>4, <2>7
  <2> QED BY <1>3, <2>8 DEF kept, after
<1> QED BY <1>4, <1>5

\* _evict leaves room for one more, and takes what has expired or is crowded out.
LEMMA StoreEvicts ==
  ASSUME Store!TypeOK
  PROVE  /\ Store!Evict \subseteq items
         /\ IsFiniteSet(Store!Evict) /\ Cardinality(Store!Evict) <= MAX_DATASETS - 1
         /\ \A i \in items \ Store!Evict :
              Store!Expired(Store!Created(i)) \/ Len(puts) - i >= MAX_DATASETS - 1
<1> DEFINE live == {i \in items : ~Store!Expired(Store!Created(i))}
<1>1. MAX_DATASETS - 1 \in Nat
  BY ServicesAssumption DEF Store!StoreAssumption
<1>2. Len(puts) \in Nat /\ live \in SUBSET (1..Len(puts))
  BY DEF Store!TypeOK
<1>3. Store!Evict = {i \in live : Cardinality({j \in live : j > i}) < MAX_DATASETS - 1}
  BY StoreSets DEF Store!Evict
<1> HIDE DEF live
<1>4. IsFiniteSet(Store!Evict) /\ Cardinality(Store!Evict) <= MAX_DATASETS - 1
  BY <1>1, <1>2, <1>3, NewestBound
<1>5. ASSUME NEW i \in items \ Store!Evict, ~Store!Expired(Store!Created(i))
      PROVE  Len(puts) - i >= MAX_DATASETS - 1
  <2>1. i \in live /\ i \in 1..Len(puts)
    BY <1>2, <1>5 DEF live
  <2>2. ~(Cardinality({j \in live : j > i}) < MAX_DATASETS - 1)
    BY <1>3, <1>5, <2>1
  <2>3. /\ Cardinality({j \in live : j > i}) <= Len(puts) - i
        /\ Cardinality({j \in live : j > i}) \in Nat
    BY <1>2, <2>1, LaterBound
  <2> QED BY <1>1, <1>2, <2>1, <2>2, <2>3
<1>6. Store!Evict \subseteq items
  BY <1>3 DEF live
<1> QED BY <1>4, <1>5, <1>6

\* Each put has its time.
LEMMA StoreCreated ==
  ASSUME Store!TypeOK, NEW i \in DOMAIN puts
  PROVE  Store!Created(i) \in 0..MaxNow
<1>1. puts[i] \in Store!Entry
  BY DEF Store!TypeOK
<1> QED BY <1>1 DEF Store!Entry, Store!Created

\* A put leaves the newest entries, one fewer than there may be, and adds its own.
LEMMA StorePut ==
  ASSUME StoreInv, NEW d \in Dataset, Store!put(d)
  PROVE  StoreInv'
<1>1. /\ puts \in Seq(Store!Entry) /\ Len(puts) \in Nat /\ DOMAIN puts = 1..Len(puts)
      /\ [id |-> d, created |-> now] \in Store!Entry
  BY DEF StoreInv, Store!TypeOK, Store!Entry
<1>2. /\ puts' = Append(puts, [id |-> d, created |-> now])
      /\ items' = Store!Evict \union {Len(puts) + 1}
      /\ UNCHANGED <<now, reader>>
      /\ \A i \in DOMAIN puts : Store!Id(i) # d
  BY DEF Store!put
<1>3. /\ puts' \in Seq(Store!Entry) /\ Len(puts') = Len(puts) + 1
      /\ DOMAIN puts' = 1..(Len(puts) + 1)
      /\ \A i \in DOMAIN puts : puts'[i] = puts[i]
      /\ puts'[Len(puts) + 1] = [id |-> d, created |-> now]
  BY <1>1, <1>2
<1>4. \A i \in DOMAIN puts : Store!Id(i)' = Store!Id(i) /\ Store!Created(i)' = Store!Created(i)
  BY <1>3 DEF Store!Id, Store!Created
<1>5. \A c : Store!Expired(c)' = Store!Expired(c)
  BY <1>2 DEF Store!Expired
<1>6. MAX_DATASETS \in Nat \ {0}
  BY ServicesAssumption DEF Store!StoreAssumption
<1>7. Store!TypeOK'
  <2>1. items' \subseteq DOMAIN puts'
    BY <1>1, <1>2, <1>3, StoreEvicts DEF StoreInv, Store!TypeOK
  <2>2. IsFiniteSet(Store!Evict) /\ Cardinality(Store!Evict) <= MAX_DATASETS - 1
        /\ Len(puts) + 1 \notin Store!Evict
    BY <1>1, StoreEvicts DEF StoreInv, Store!TypeOK
  <2>3. Cardinality(Store!Evict) \in Nat /\ Cardinality(items') = Cardinality(Store!Evict) + 1
    BY <1>2, <2>2, FS_AddElement, FS_CardinalityType
  <2>4. Cardinality(items') <= MAX_DATASETS
    BY <1>6, <2>2, <2>3
  <2> QED BY <1>2, <1>3, <2>1, <2>4, StoreSets DEF StoreInv, Store!TypeOK
<1>8. LostOnlyIfCrowded'
  <2>1. SUFFICES ASSUME NEW i \in DOMAIN puts', i \notin items', ~Store!Expired(Store!Created(i))'
                 PROVE  Len(puts') - i >= MAX_DATASETS
    BY DEF LostOnlyIfCrowded, Store!LostOnlyIfCrowded
  <2>2. i \in DOMAIN puts /\ i \notin Store!Evict
    BY <1>1, <1>2, <1>3, <2>1
  <2>3. ~Store!Expired(Store!Created(i))
    BY <1>2, <1>4, <2>1, <2>2 DEF Store!Expired
  <2>4. CASE i \in items
    BY <1>1, <1>3, <1>6, <2>2, <2>3, <2>4, StoreEvicts DEF StoreInv
  <2>5. CASE i \notin items
    BY <1>1, <1>3, <1>6, <2>2, <2>3, <2>5 DEF StoreInv, LostOnlyIfCrowded, Store!LostOnlyIfCrowded
  <2> QED BY <2>4, <2>5
<1>9. StoreReaders'
  BY <1>1, <1>2, <1>3, <1>4, <1>5 DEF StoreInv, StoreReaders
<1>10. StoreIds'
  <2>1. PICK k : k = Len(puts) + 1
    OBVIOUS
  <2>2. Store!Id(k)' = d
    BY <1>3, <2>1 DEF Store!Id
  <2>3. \A i \in DOMAIN puts' : i \in DOMAIN puts \/ i = k
    BY <1>1, <1>3, <2>1
  <2>4. ASSUME NEW i \in DOMAIN puts', NEW j \in DOMAIN puts', Store!Id(i)' = Store!Id(j)'
        PROVE  i = j
    <3>1. CASE i \in DOMAIN puts /\ j \in DOMAIN puts
      BY <1>4, <2>4, <3>1 DEF StoreInv, StoreIds
    <3> QED BY <1>2, <1>4, <2>2, <2>3, <2>4, <3>1
  <2> QED BY <2>4 DEF StoreIds
<1> QED BY <1>7, <1>8, <1>9, <1>10 DEF StoreInv

\* Reading changes nothing but the reader.
LEMMA StoreReads ==
  ASSUME StoreInv, NEW r \in Reader, Store!Lookup(r) \/ Store!CheckAge(r)
  PROVE  StoreInv'
<1>1. UNCHANGED <<puts, items, now>>
  BY DEF Store!Lookup, Store!CheckAge
<1>2. /\ \A i : Store!Id(i)' = Store!Id(i) /\ Store!Created(i)' = Store!Created(i)
      /\ \A c : Store!Expired(c)' = Store!Expired(c)
  BY <1>1 DEF Store!Id, Store!Created, Store!Expired
<1>3. LostOnlyIfCrowded' /\ StoreIds'
  BY <1>1 DEF StoreInv, LostOnlyIfCrowded, Store!LostOnlyIfCrowded, StoreIds,
     Store!Id, Store!Created, Store!Expired
<1>4. /\ \A i \in DOMAIN puts : Store!Created(i) \in 0..MaxNow
      /\ items \subseteq DOMAIN puts
  BY StoreCreated DEF StoreInv, Store!TypeOK
<1>5. reader' \in [Reader -> [at : Store!ReaderPcs, id : Dataset, created : 0..MaxNow]]
  <2>1. CASE Store!CheckAge(r)
    BY <2>1 DEF StoreInv, Store!TypeOK, Store!CheckAge, Store!Goes, Store!ReaderPcs
  <2>2. CASE Store!Lookup(r) /\ Store!Goes(r, "unknown")
    BY <2>2 DEF StoreInv, Store!TypeOK, Store!Goes, Store!ReaderPcs
  <2>3. ASSUME NEW i \in items,
               reader' = [reader EXCEPT ![r].at = "found", ![r].created = Store!Created(i)]
        PROVE  reader' \in [Reader -> [at : Store!ReaderPcs, id : Dataset, created : 0..MaxNow]]
    <3>1. Store!Created(i) \in 0..MaxNow
      BY <1>4
    <3> QED BY <2>3, <3>1 DEF StoreInv, Store!TypeOK, Store!ReaderPcs
  <2> QED BY <2>1, <2>2, <2>3 DEF Store!Lookup
<1>6. Store!TypeOK'
  BY <1>1, <1>5, StoreSets DEF StoreInv, Store!TypeOK
<1>7. StoreReaders'
  <2>1. CASE Store!CheckAge(r)
    BY <1>1, <1>2, <2>1 DEF StoreInv, Store!TypeOK, StoreReaders, Store!CheckAge, Store!Goes
  <2>2. CASE Store!Lookup(r)
    <3>1. CASE Store!Goes(r, "unknown")
      BY <1>1, <1>2, <3>1 DEF StoreInv, Store!TypeOK, StoreReaders, Store!Goes
    <3>2. ASSUME NEW i \in items, Store!Id(i) = reader[r].id,
                 reader' = [reader EXCEPT ![r].at = "found", ![r].created = Store!Created(i)]
          PROVE  StoreReaders'
      BY <1>1, <1>2, <1>4, <3>2 DEF StoreInv, Store!TypeOK, StoreReaders
    <3> QED BY <2>2, <3>1, <3>2 DEF Store!Lookup
  <2> QED BY <2>1, <2>2
<1> QED BY <1>3, <1>6, <1>7 DEF StoreInv

\* What a reader pops has expired: datasets are put once.
LEMMA StorePops ==
  ASSUME StoreInv, NEW r \in Reader, Store!Pop(r)
  PROVE  StoreInv'
<1>1. /\ UNCHANGED <<puts, now>> /\ items' = {i \in items : Store!Id(i) # reader[r].id}
      /\ reader[r].at = "popping" /\ reader' = [reader EXCEPT ![r].at = "expired"]
  BY DEF Store!Pop, Store!Goes
<1>2. /\ \A i : Store!Id(i)' = Store!Id(i) /\ Store!Created(i)' = Store!Created(i)
      /\ \A c : Store!Expired(c)' = Store!Expired(c)
  BY <1>1 DEF Store!Id, Store!Created, Store!Expired
<1>3. \A i \in items \ items' : Store!Expired(Store!Created(i))
  BY <1>1 DEF StoreInv, Store!TypeOK, StoreReaders, StoreIds
<1>4. LostOnlyIfCrowded'
  BY <1>1, <1>2, <1>3 DEF StoreInv, Store!TypeOK, LostOnlyIfCrowded, Store!LostOnlyIfCrowded,
     Store!Created, Store!Expired
<1>5. Store!TypeOK'
  <2>1. IsFiniteSet(items)
    BY FS_Interval, FS_Subset DEF StoreInv, Store!TypeOK
  <2>2. Cardinality(items') <= Cardinality(items) /\ IsFiniteSet(items')
    BY <1>1, <2>1, FS_Subset
  <2>3. Cardinality(items) <= MAX_DATASETS /\ MAX_DATASETS \in Nat
    BY StoreSets, ServicesAssumption DEF StoreInv, Store!TypeOK, Store!StoreAssumption
  <2>4. Cardinality(items') <= MAX_DATASETS
    BY <2>1, <2>2, <2>3, FS_CardinalityType
  <2>5. reader' \in [Reader -> [at : Store!ReaderPcs, id : Dataset, created : 0..MaxNow]]
    BY <1>1 DEF StoreInv, Store!TypeOK, Store!ReaderPcs
  <2> QED BY <1>1, <2>4, <2>5, StoreSets DEF StoreInv, Store!TypeOK
<1>6. StoreReaders' /\ StoreIds'
  BY <1>1, <1>2 DEF StoreInv, Store!TypeOK, StoreReaders, StoreIds
<1> QED BY <1>4, <1>5, <1>6 DEF StoreInv

\* What has expired stays expired.
LEMMA StoreTicks == ASSUME StoreInv, Store!Tick PROVE StoreInv'
<1>1. UNCHANGED <<puts, items, reader>> /\ now' = now + 1 /\ now < MaxNow
  BY DEF Store!Tick
<1>2. now \in Nat /\ MaxNow \in Nat /\ DATASET_TTL \in Nat
  BY ServicesAssumption DEF StoreInv, Store!TypeOK, Store!StoreAssumption
<1>3. \A c \in 0..MaxNow : Store!Expired(c) => Store!Expired(c)'
  BY <1>1, <1>2 DEF Store!Expired
<1>4. \A i \in DOMAIN puts : Store!Created(i) \in 0..MaxNow
  BY StoreCreated DEF StoreInv
<1>5. Store!TypeOK'
  BY <1>1, <1>2, StoreSets DEF StoreInv, Store!TypeOK
<1>6. LostOnlyIfCrowded'
  BY <1>1, <1>2, <1>4 DEF StoreInv, LostOnlyIfCrowded, Store!LostOnlyIfCrowded,
     Store!Created, Store!Expired
<1>7. StoreReaders' /\ StoreIds'
  BY <1>1, <1>3 DEF StoreInv, Store!TypeOK, StoreReaders, StoreIds, Store!Id, Store!Created
<1> QED BY <1>5, <1>6, <1>7 DEF StoreInv

\* routes.py:87-97: for any number of datasets, readers and places, the store stays
\* within its size, and no dataset within its time goes but for newer ones.
THEOREM LostAlwaysCrowded == Store!Spec => [](Store!TypeOK /\ LostOnlyIfCrowded)
<1>1. Store!Init => StoreInv
  <2> SUFFICES ASSUME Store!Init PROVE StoreInv
    OBVIOUS
  <2>1. puts = <<>> /\ items = {} /\ now = 0
        /\ reader \in [Reader -> [at : {"idle"}, id : Dataset, created : {0}]]
    BY DEF Store!Init
  <2>2. 0 \in 0..MaxNow /\ Cardinality({}) <= MAX_DATASETS
    BY ServicesAssumption, FS_EmptySet DEF Store!StoreAssumption
  <2>3. Store!TypeOK
    BY <2>1, <2>2, StoreSets DEF Store!TypeOK, Store!ReaderPcs
  <2>4. LostOnlyIfCrowded /\ StoreReaders /\ StoreIds
    BY <2>1 DEF LostOnlyIfCrowded, Store!LostOnlyIfCrowded, StoreReaders, StoreIds
  <2> QED BY <2>3, <2>4 DEF StoreInv
<1>2. StoreInv /\ [Store!Next]_(Store!vars) => StoreInv'
  <2> SUFFICES ASSUME StoreInv, [Store!Next]_(Store!vars) PROVE StoreInv'
    OBVIOUS
  <2>1. CASE UNCHANGED Store!vars
    BY <2>1, StoreSets DEF Store!vars, StoreInv, Store!TypeOK, LostOnlyIfCrowded,
       Store!LostOnlyIfCrowded, StoreReaders, StoreIds, Store!Id, Store!Created, Store!Expired
  <2>2. CASE Store!Tick
    BY <2>2, StoreTicks
  <2>3. ASSUME NEW d \in Dataset, Store!put(d) PROVE StoreInv'
    BY <2>3, StorePut
  <2>4. ASSUME NEW r \in Reader, Store!Lookup(r) \/ Store!CheckAge(r) \/ Store!Pop(r)
        PROVE  StoreInv'
    BY <2>4, StoreReads, StorePops
  <2> QED BY <2>1, <2>2, <2>3, <2>4 DEF Store!Next
<1> QED BY <1>1, <1>2, PTL DEF Store!Spec, StoreInv
=============================================================================
