---------------------------- MODULE DatasetStore ----------------------------
(***************************************************************************)
(* The datasets a worker keeps between requests: _DatasetStore             *)
(* (backend/smatecondata/api/routes.py).  Its endpoints run in a pool of   *)
(* threads; a step holds the store's lock, or none.  The clock does not go *)
(* backwards.                                                              *)
(***************************************************************************)
EXTENDS Naturals, Sequences, FiniteSets

CONSTANTS Dataset,      \* datasets built, by the id that put gives them
          Reader,       \* requests for a dataset
          MAX_DATASETS,
          DATASET_TTL,  \* in ticks of the clock
          MaxNow        \* bound: ticks

StoreAssumption ==
  MAX_DATASETS \in Nat \ {0} /\ DATASET_TTL \in Nat /\ MaxNow \in Nat

VARIABLES puts,    \* history: the puts so far, [id, created], in their order
          items,   \* _items: the places in puts of the datasets that are kept
          now,     \* the clock
          reader   \* reader[r]: where a get is, its dataset, and created as it has read it

vars == <<puts, items, now, reader>>

Entry == [id : Dataset, created : 0..MaxNow]
Id(i) == puts[i].id
Created(i) == puts[i].created
ReaderPcs == {"idle", "found", "popping", "served", "expired", "unknown"}

TypeOK ==
  /\ puts \in Seq(Entry)
  /\ items \subseteq DOMAIN puts /\ Cardinality(items) <= MAX_DATASETS
  /\ now \in 0..MaxNow
  /\ reader \in [Reader -> [at : ReaderPcs, id : Dataset, created : 0..MaxNow]]

Init ==
  /\ puts = <<>> /\ items = {}
  /\ now = 0
  /\ reader \in [Reader -> [at : {"idle"}, id : Dataset, created : {0}]]

Expired(created) == now - created > DATASET_TTL

\* Mutant: the newest entries go
EvictNewest ==
  LET live == {i \in items : ~Expired(Created(i))}
  IN  {i \in live : Cardinality({j \in live : j < i}) < MAX_DATASETS - 1}

\* _evict: the expired, then the oldest until one more fits.  The clock orders the
\* entries as the puts do.
Evict ==
  LET live == {i \in items : ~Expired(Created(i))}
  IN  {i \in live : Cardinality({j \in live : j > i}) < MAX_DATASETS - 1}

put(d) ==
  /\ \A i \in DOMAIN puts : Id(i) # d
  /\ puts' = Append(puts, [id |-> d, created |-> now])
  /\ items' = Evict \union {Len(puts) + 1}
  /\ UNCHANGED <<now, reader>>

Goes(r, place) == reader' = [reader EXCEPT ![r].at = place]

\* get: the lookup under the lock
Lookup(r) ==
  /\ reader[r].at = "idle"
  /\ \/ /\ \A i \in items : Id(i) # reader[r].id
        /\ Goes(r, "unknown")
     \/ \E i \in items :
          /\ Id(i) = reader[r].id
          /\ reader' = [reader EXCEPT ![r].at = "found", ![r].created = Created(i)]
  /\ UNCHANGED <<puts, items, now>>

\* get: the age of what was found, without the lock
CheckAge(r) ==
  /\ reader[r].at = "found"
  /\ Goes(r, IF Expired(reader[r].created) THEN "popping" ELSE "served")
  /\ UNCHANGED <<puts, items, now>>

\* get: the lock is taken again, and someone may have been faster
Pop(r) ==
  /\ reader[r].at = "popping"
  /\ items' = {i \in items : Id(i) # reader[r].id}
  /\ Goes(r, "expired")
  /\ UNCHANGED <<puts, now>>

Tick ==
  /\ now < MaxNow
  /\ now' = now + 1
  /\ UNCHANGED <<puts, items, reader>>

Next ==
  \/ Tick
  \/ \E d \in Dataset : put(d)
  \/ \E r \in Reader : Lookup(r) \/ CheckAge(r) \/ Pop(r)

Spec == Init /\ [][Next]_vars
-----------------------------------------------------------------------------
\* routes.py:87-97: a dataset within its time is missing only when MAX_DATASETS
\* others were put after it.
LostOnlyIfCrowded ==
  \A i \in DOMAIN puts :
    i \in items \/ Expired(Created(i)) \/ Len(puts) - i >= MAX_DATASETS
=============================================================================
