------------------------ MODULE ProviderAccessProofs ------------------------
(***************************************************************************)
(* Proofs about ProviderAccess: its types, the limiter's circuit, and how  *)
(* far callers overrun the limits of their provider.                       *)
(***************************************************************************)
EXTENDS ProviderAccess, TLAPS, SequenceTheorems, FiniteSetTheorems,
        WellFoundedInduction

Deques == {q \in [Window -> Seq(Nat)] : \A w \in Window : Len(q[w]) <= Quota[w]}

\* Cleaning a window leaves a shorter deque of times
LEMMA CleanedType ==
  ASSUME TypeOK
  PROVE  Cleaned \in Deques
<1> USE AccessAssumption
<1>1. ASSUME NEW w \in Window
      PROVE  /\ SubSeq(window[w], Outdated(w) + 1, Len(window[w])) \in Seq(Nat)
             /\ Len(SubSeq(window[w], Outdated(w) + 1, Len(window[w]))) <= Quota[w]
  <2> DEFINE q == window[w]
             S == {i \in DOMAIN q : q[i] < clock - Span[w]}
  <2>1. q \in Seq(Nat) /\ Len(q) \in Nat /\ Len(q) <= Quota[w] /\ DOMAIN q = 1..Len(q)
    BY DEF TypeOK
  <2>2. IsFiniteSet(1..Len(q)) /\ Cardinality(1..Len(q)) = Len(q)
    <3> DEFINE n == Len(q)
    <3>1. n \in Nat /\ 1 \in Int /\ n \in Int
      BY <2>1
    <3> HIDE DEF n
    <3>2. /\ IsFiniteSet(1..n)
          /\ Cardinality(1..n) = IF 1 > n THEN 0 ELSE n - 1 + 1
      BY <3>1, FS_Interval, Zenon
    <3>3. Cardinality(1..n) = n
      BY <3>1, <3>2
    <3>4. QED
      BY <3>2, <3>3 DEF n
  <2>3. S \subseteq 1..Len(q)
    BY <2>1
  <2>4. Cardinality(S) \in Nat /\ Cardinality(S) <= Len(q)
    BY <2>2, <2>3, FS_Subset, FS_CardinalityType
  <2>5. Outdated(w) \in Nat /\ Outdated(w) <= Len(q)
    BY <2>4 DEF Outdated
  <2> HIDE DEF q
  <2>6. /\ SubSeq(q, Outdated(w) + 1, Len(q)) \in Seq(Nat)
        /\ Len(SubSeq(q, Outdated(w) + 1, Len(q))) <= Len(q)
    <3> DEFINE m == Outdated(w) + 1
    <3>1. m \in 1..(Len(q) + 1) /\ Len(q) \in Nat
      BY <2>1, <2>5
    <3> HIDE DEF m
    <3>2. \A i \in m..Len(q) : q[i] \in Nat
      BY <2>1, <3>1, SMTT(30)
    <3>3. QED
      BY <2>1, <3>1, <3>2, SubSeqProperties DEF m
  <2>7. Len(SubSeq(q, Outdated(w) + 1, Len(q))) \in Nat
    BY <2>6
  <2>8. Quota[w] \in Nat
    BY AccessAssumption
  <2>9. Len(SubSeq(q, Outdated(w) + 1, Len(q))) <= Quota[w]
    BY <2>1, <2>6, <2>7, <2>8
  <2>10. QED
    BY <2>6, <2>9 DEF q
<1>2. QED
  BY <1>1 DEF Cleaned, Deques

\* Recording a request keeps every deque within its maxlen
LEMMA RecordedType ==
  ASSUME NEW q \in Deques, clock \in Nat
  PROVE  Recorded(q) \in Deques
<1> USE AccessAssumption
<1>1. ASSUME NEW w \in Window, Len(q[w]) < Quota[w]
      PROVE  Append(q[w], clock) \in Seq(Nat) /\ Len(Append(q[w], clock)) <= Quota[w]
  BY <1>1 DEF Deques
<1>2. ASSUME NEW w \in Window, ~(Len(q[w]) < Quota[w])
      PROVE  Append(Tail(q[w]), clock) \in Seq(Nat) /\ Len(Append(Tail(q[w]), clock)) <= Quota[w]
  <2>1. q[w] \in Seq(Nat) /\ Len(q[w]) = Quota[w] /\ Quota[w] \in Nat \ {0}
    BY <1>2 DEF Deques
  <2>2. q[w] # <<>>
    BY <2>1
  <2>3. Tail(q[w]) \in Seq(Nat) /\ Len(Tail(q[w])) = Quota[w] - 1
    BY <2>1, <2>2
  <2>4. QED
    BY <2>1, <2>3
<1>3. QED
  BY <1>1, <1>2 DEF Recorded, Deques

\* The oldest entry of a deque that is not empty is a time
LEMMA OldestIsTime ==
  ASSUME NEW s \in Seq(Nat), Len(s) >= 1
  PROVE  s[1] \in Nat
OBVIOUS

\* A request can only be held back until some point in time
LEMMA ReadyTimesType ==
  ASSUME TypeOK, NEW q \in Deques
  PROVE  ReadyTimes(q) \subseteq Nat
<1> USE AccessAssumption
<1>1. clock \in Nat /\ (last # None => last \in Nat)
  BY DEF TypeOK
<1>2. ASSUME NEW w \in Window, Len(q[w]) >= Quota[w]
      PROVE  q[w][1] + Span[w] \in Nat
  <2>1. q[w] \in Seq(Nat) /\ Quota[w] \in Nat \ {0} /\ Span[w] \in Nat
    BY DEF Deques
  <2>2. q[w][1] \in Nat
    <3>1. Len(q[w]) >= 1
      BY <1>2, <2>1
    <3>2. QED
      BY <2>1, <3>1, OldestIsTime
  <2> DEFINE x == q[w][1]
  <2>3. x \in Nat
    BY <2>2
  <2> HIDE DEF x
  <2>4. x + Span[w] \in Nat
    BY <2>1, <2>3
  <2>5. QED
    BY <2>4 DEF x
<1>3. \A l \in {last} \ {None} : last + MinDelay \in Nat
  BY <1>1
<1>4. QED
  BY <1>1, <1>2, <1>3 DEF ReadyTimes

\* The types of what a request may change while it waits for the limiter
LEMMA WaitOrSendType ==
  ASSUME TypeOK, NEW t \in Task, WaitOrSend(t), tries[t] < MaxAttempts
  PROVE  /\ last' \in Nat \union {None}
         /\ window' \in Deques
         /\ pc' \in [Task -> Pcs]
         /\ until' \in [Task -> Nat]
         /\ tries' \in [Task -> 0..MaxAttempts]
         /\ sent' \in Seq(Nat)
<1> USE AccessAssumption
<1>1. clock \in Nat /\ clock \in 0..MaxClock
  BY DEF TypeOK
<1>2. CASE Send(t, Cleaned) /\ UNCHANGED until
  <2>1. window' \in Deques
    BY <1>1, <1>2, CleanedType, RecordedType DEF Send
  <2>2. tries[t] + 1 \in 0..MaxAttempts
    BY DEF TypeOK
  <2>3. sent' = Append(sent, clock) /\ sent \in Seq(Nat)
    BY <1>2 DEF Send, TypeOK
  <2>4. sent' \in Seq(Nat)
    BY <1>1, <2>3
  <2>5. tries' \in [Task -> 0..MaxAttempts]
    BY <1>2, <2>2 DEF Send, TypeOK
  <2>6. QED
    BY <1>1, <1>2, <2>1, <2>4, <2>5 DEF Send, TypeOK, Pcs
<1>3. CASE \E r \in ReadyTimes(Cleaned) :
             /\ window' = Cleaned
             /\ pc' = [pc EXCEPT ![t] = "sleep"]
             /\ until' = [until EXCEPT ![t] = r]
             /\ UNCHANGED <<last, tries, sent>>
  <2>1. PICK r \in ReadyTimes(Cleaned) :
             /\ window' = Cleaned
             /\ pc' = [pc EXCEPT ![t] = "sleep"]
             /\ until' = [until EXCEPT ![t] = r]
             /\ UNCHANGED <<last, tries, sent>>
    BY <1>3
  <2>2. r \in Nat
    BY <2>1, CleanedType, ReadyTimesType
  <2>3. QED
    BY <2>1, <2>2, CleanedType DEF TypeOK, Pcs
<1>4. QED
  BY <1>2, <1>3 DEF WaitOrSend

\* Recording an outcome keeps the types of the breaker
LEMMA OutcomeType ==
  ASSUME TypeOK, NEW failed \in BOOLEAN, RecordOutcome(failed)
  PROVE  breaker' \in {"closed", "open"} /\ fails' \in 0..FailMax /\ openedAt' \in Nat
<1> USE AccessAssumption
<1>1. clock \in Nat /\ breaker \in {"closed", "open"} /\ fails \in 0..FailMax /\ openedAt \in Nat
  BY DEF TypeOK
<1>2. fails' \in 0..FailMax
  BY <1>1 DEF RecordOutcome, circuit
<1>3. breaker' \in {"closed", "open"} /\ openedAt' \in Nat
  BY <1>1 DEF RecordOutcome, circuit
<1>4. QED
  BY <1>2, <1>3

\* Ending a request keeps all types
LEMMA FinishType ==
  ASSUME TypeOK, NEW t \in Task, NEW failed \in BOOLEAN, Finish(t, failed)
  PROVE  /\ breaker' \in {"closed", "open"} /\ fails' \in 0..FailMax /\ openedAt' \in Nat
         /\ pc' \in [Task -> Pcs] /\ until' \in [Task -> Nat]
         /\ tries' \in [Task -> 0..MaxAttempts]
         /\ pc' = [pc EXCEPT ![t] = "idle"] /\ tries' = [tries EXCEPT ![t] = 0]
<1>1. breaker' \in {"closed", "open"} /\ fails' \in 0..FailMax /\ openedAt' \in Nat
  BY OutcomeType DEF Finish
<1>2. QED
  BY <1>1, AccessAssumption DEF Finish, TypeOK, Pcs, Idle

\* So does the choice between another attempt and the end
LEMMA RetryOrGiveUpType ==
  ASSUME TypeOK, NEW t \in Task, pc[t] = "sent", RetryOrGiveUp(t)
  PROVE  /\ breaker' \in {"closed", "open"} /\ fails' \in 0..FailMax /\ openedAt' \in Nat
         /\ pc' \in [Task -> Pcs] /\ until' \in [Task -> Nat]
         /\ tries' \in [Task -> 0..MaxAttempts]
         /\ \/ /\ pc' = [pc EXCEPT ![t] = "backoff"]
               /\ tries' = tries /\ tries[t] < MaxAttempts
            \/ /\ pc' = [pc EXCEPT ![t] = "idle"]
               /\ tries' = [tries EXCEPT ![t] = 0]
<1>1. CASE Finish(t, TRUE)
  BY <1>1, FinishType
<1>2. CASE /\ tries[t] < MaxAttempts
           /\ pc' = [pc EXCEPT ![t] = "backoff"]
           /\ until' = [until EXCEPT ![t] = clock + Backoff[tries[t]]]
           /\ UNCHANGED <<circuit, tries>>
  <2>1. clock \in Nat /\ tries[t] \in 1..MaxAttempts
    BY AccessAssumption DEF TypeOK, TriesFit
  <2>2. clock + Backoff[tries[t]] \in Nat
    BY <2>1, AccessAssumption
  <2>3. QED
    BY <1>2, <2>2 DEF TypeOK, Pcs, circuit
<1>3. QED
  BY <1>1, <1>2 DEF RetryOrGiveUp

\* A task that is done has sent nothing of its next request
LEMMA IdleTriesFit ==
  ASSUME TypeOK, NEW t \in Task,
         pc' = [pc EXCEPT ![t] = "idle"], tries' = [tries EXCEPT ![t] = 0]
  PROVE  TriesFit'
  BY AccessAssumption DEF TypeOK, TriesFit, Idle

\* A task that sends, or sleeps before it does, has attempts left for it
LEMMA WaitTriesFit ==
  ASSUME TypeOK, NEW t \in Task, tries[t] < MaxAttempts,
         \/ pc' = [pc EXCEPT ![t] = "sent"] /\ tries' = [tries EXCEPT ![t] = @ + 1]
         \/ pc' = [pc EXCEPT ![t] = "sleep"] /\ tries' = tries
  PROVE  TriesFit'
  BY AccessAssumption, SMTT(30) DEF TypeOK, TriesFit, Idle

\* Every step keeps the types
LEMMA TypeStep == TypeOK /\ [Next]_vars => TypeOK'
<1> SUFFICES ASSUME TypeOK, [Next]_vars PROVE TypeOK'
  OBVIOUS
<1> USE AccessAssumption
<1>1. CASE Tick
  BY <1>1 DEF Tick, TypeOK, TriesFit, limiter, circuit
<1>2. ASSUME NEW t \in Task, Begin(t) PROVE TypeOK'
  <2>1. tries[t] = 0 /\ tries[t] < MaxAttempts
    BY <1>2 DEF Begin, TypeOK, TriesFit
  <2>2. openUntil' \in Nat \union {None}
    BY <1>2 DEF Begin, TypeOK
  <2>3. CASE WaitOrSend(t)
    <3>1. /\ \/ pc' = [pc EXCEPT ![t] = "sent"] /\ tries' = [tries EXCEPT ![t] = @ + 1]
             \/ pc' = [pc EXCEPT ![t] = "sleep"] /\ tries' = tries
      BY <2>3 DEF WaitOrSend, Send
    <3>2. TriesFit'
      BY <2>1, <3>1, WaitTriesFit
    <3>3. QED
      BY <1>2, <2>1, <2>2, <2>3, <3>2, WaitOrSendType DEF Begin, TypeOK, Deques, circuit
  <2>4. CASE /\ pc' = [pc EXCEPT ![t] = "cooling"] \/ pc' = [pc EXCEPT ![t] = "broken"]
             /\ UNCHANGED <<last, window, until, tries, sent>>
    <3>1. TriesFit'
      BY <2>1, <2>4 DEF TypeOK, TriesFit, Idle
    <3>2. QED
      BY <1>2, <2>2, <2>4, <3>1 DEF Begin, TypeOK, circuit, Idle, Pcs
  <2>5. QED
    BY <1>2, <2>3, <2>4 DEF Begin
<1>3. ASSUME NEW t \in Task, WakeUp(t) PROVE TypeOK'
  <2>1. window \in Deques /\ clock \in Nat /\ clock \in 0..MaxClock /\ tries[t] < MaxAttempts
    BY <1>3 DEF WakeUp, TypeOK, TriesFit, Deques
  <2>2. window' \in Deques
    BY <1>3, <2>1, RecordedType DEF WakeUp, Send
  <2>3. sent' \in Seq(Nat)
    <3>1. sent' = Append(sent, clock) /\ sent \in Seq(Nat)
      BY <1>3 DEF WakeUp, Send, TypeOK
    <3>2. QED
      BY <2>1, <3>1, SMTT(20)
  <2>4. /\ pc' = [pc EXCEPT ![t] = "sent"] /\ tries' = [tries EXCEPT ![t] = @ + 1]
        /\ last' = clock
    BY <1>3 DEF WakeUp, Send
  <2>5. QED
    <3>1. TriesFit'
      BY <2>1, <2>4, WaitTriesFit
    <3>2. tries[t] + 1 \in 0..MaxAttempts
      BY <2>1, SMTT(20) DEF TypeOK
    <3>3. QED
      BY <1>3, <2>1, <2>2, <2>3, <2>4, <3>1, <3>2 DEF WakeUp, TypeOK, Deques, circuit, Pcs
<1>4. ASSUME NEW t \in Task, Retry(t) PROVE TypeOK'
  <2>1. tries[t] < MaxAttempts /\ pc[t] = "backoff" /\ WaitOrSend(t)
    BY <1>4 DEF Retry, TypeOK, TriesFit
  <2>2. /\ \/ pc' = [pc EXCEPT ![t] = "sent"] /\ tries' = [tries EXCEPT ![t] = @ + 1]
           \/ pc' = [pc EXCEPT ![t] = "sleep"] /\ tries' = tries
    BY <2>1 DEF WaitOrSend, Send
  <2>3. QED
    <3>1. TriesFit'
      BY <2>1, <2>2, WaitTriesFit
    <3>2. QED
      BY <1>4, <2>1, <3>1, WaitOrSendType DEF Retry, TypeOK, Deques, circuit
<1>5. ASSUME NEW t \in Task, NEW failed \in BOOLEAN, Finish(t, failed),
             openUntil' \in Nat \union {None}, errors429' \in 0..Len(Cooldown),
             UNCHANGED <<clock, last, window, sent>>
      PROVE  TypeOK'
  <2>1. TriesFit'
    BY <1>5, FinishType, IdleTriesFit
  <2>2. /\ breaker' \in {"closed", "open"} /\ fails' \in 0..FailMax /\ openedAt' \in Nat
        /\ pc' \in [Task -> Pcs] /\ until' \in [Task -> Nat]
        /\ tries' \in [Task -> 0..MaxAttempts]
    BY <1>5, FinishType
  <2>3. QED
    BY <1>5, <2>1, <2>2 DEF TypeOK
<1>6. ASSUME NEW t \in Task, RetryOrGiveUp(t), pc[t] = "sent",
             openUntil' \in Nat \union {None}, errors429' \in 0..Len(Cooldown),
             UNCHANGED <<clock, last, window, sent>>
      PROVE  TypeOK'
  <2>1. CASE pc' = [pc EXCEPT ![t] = "idle"] /\ tries' = [tries EXCEPT ![t] = 0]
    <3>1. TriesFit'
      BY <2>1, IdleTriesFit
    <3>2. QED
      BY <1>6, <3>1, RetryOrGiveUpType DEF TypeOK
  <2>2. CASE pc' = [pc EXCEPT ![t] = "backoff"] /\ tries' = tries /\ tries[t] < MaxAttempts
    <3>1. TriesFit'
      BY <2>2 DEF TypeOK, TriesFit, Idle
    <3>2. QED
      BY <1>6, <3>1, RetryOrGiveUpType DEF TypeOK
  <2>3. QED
    BY <1>6, <2>1, <2>2, RetryOrGiveUpType
<1>7. errors429 \in 0..Len(Cooldown) /\ openUntil \in Nat \union {None} /\ clock \in Nat
  BY DEF TypeOK
<1>8. ASSUME NEW t \in Task, Succeed(t) PROVE TypeOK'
  <2>1. 0 \in 0..Len(Cooldown)
    OBVIOUS
  <2>2. openUntil' \in Nat \union {None} /\ errors429' \in 0..Len(Cooldown)
    BY <1>8, <2>1 DEF Succeed, RecordSuccess
  <2>3. Finish(t, FALSE) /\ UNCHANGED <<clock, last, window, sent>>
    BY <1>8 DEF Succeed
  <2>4. QED
    BY <1>5, <2>2, <2>3
<1>9. ASSUME NEW t \in Task, ClientError(t) \/ Broken(t) \/ Cancel(t) PROVE TypeOK'
  BY <1>5, <1>7, <1>9 DEF ClientError, Broken, Cancel, limiter
<1>10. ASSUME NEW t \in Task, RateLimited(t) PROVE TypeOK'
  <2>1. errors429' \in 1..Len(Cooldown)
    BY <1>7, <1>10 DEF RateLimited, RecordRateLimitError
  <2>2. openUntil' \in Nat
    BY <1>7, <1>10, <2>1 DEF RateLimited, RecordRateLimitError
  <2>3. QED
    BY <1>6, <1>10, <2>1, <2>2 DEF RateLimited
<1>11. ASSUME NEW t \in Task, Unavailable(t) PROVE TypeOK'
  BY <1>6, <1>7, <1>11 DEF Unavailable, limiter
<1>12. CASE UNCHANGED vars
  BY <1>12 DEF vars, limiter, circuit, TypeOK, TriesFit
<1>13. QED
  BY <1>1, <1>2, <1>3, <1>4, <1>8, <1>9, <1>10, <1>11, <1>12 DEF Next, Proceed

\* The limiter's deques never outgrow their quotas, its clocks are times, and a
\* request is never sent more often than MAX_RETRIES allows.
THEOREM TypeCorrect == Spec => []TypeOK
<1>1. Init => TypeOK
  BY AccessAssumption DEF Init, TypeOK, TriesFit, Pcs, Idle
<1>2. QED
  BY <1>1, TypeStep, PTL DEF Spec

\* Answers in whatever order: after a success nobody waits, and a cooldown is
\* never longer than the 429s since the last success call for.
THEOREM CooldownAlwaysOnLadder == Spec => []CooldownOnLadder
<1> USE AccessAssumption
<1>1. Init => CooldownOnLadder
  BY DEF Init, CooldownOnLadder
<1>2. TypeOK /\ CooldownOnLadder /\ [Next]_vars => CooldownOnLadder'
  <2> SUFFICES ASSUME TypeOK, CooldownOnLadder, [Next]_vars PROVE CooldownOnLadder'
    OBVIOUS
  <2>1. /\ clock \in Nat /\ openUntil \in Nat \union {None}
        /\ errors429 \in 0..Len(Cooldown) /\ Len(Cooldown) \in Nat
    BY DEF TypeOK
  <2>2. ASSUME errors429 > 0 PROVE Cooldown[errors429] \in Nat
    BY <2>1, <2>2
  <2>3. CASE Tick
    BY <2>1, <2>2, <2>3 DEF Tick, limiter, CooldownOnLadder
  <2>4. ASSUME UNCHANGED <<clock, errors429>>, openUntil' \in {openUntil, None}
        PROVE  CooldownOnLadder'
    BY <2>4 DEF CooldownOnLadder
  <2>5. ASSUME NEW t \in Task, Succeed(t) PROVE CooldownOnLadder'
    BY <2>5 DEF Succeed, RecordSuccess, CooldownOnLadder
  <2>6. ASSUME NEW t \in Task, RateLimited(t) PROVE CooldownOnLadder'
    <3>1. errors429' \in 1..Len(Cooldown)
      BY <2>1, <2>6 DEF RateLimited, RecordRateLimitError
    <3>2. openUntil' = clock' + Cooldown[errors429'] /\ clock' \in Nat
      BY <2>1, <2>6 DEF RateLimited, RecordRateLimitError
    <3>3. Cooldown[errors429'] \in Nat
      BY <3>1
    <3>4. QED
      BY <3>1, <3>2, <3>3 DEF CooldownOnLadder
  <2>7. ASSUME NEW t \in Task, Begin(t) PROVE CooldownOnLadder'
    BY <2>4, <2>7 DEF Begin
  <2>8. ASSUME NEW t \in Task,
               WakeUp(t) \/ Retry(t) \/ ClientError(t) \/ Unavailable(t) \/ Broken(t) \/ Cancel(t)
        PROVE  CooldownOnLadder'
    BY <2>4, <2>8 DEF WakeUp, Retry, ClientError, Unavailable, Broken, Cancel, limiter
  <2>9. CASE UNCHANGED vars
    BY <2>4, <2>9 DEF vars, limiter
  <2>10. QED
    BY <2>3, <2>5, <2>6, <2>7, <2>8, <2>9 DEF Next, Proceed
<1>3. QED
  BY <1>1, <1>2, TypeCorrect, PTL DEF Spec
-----------------------------------------------------------------------------
(* Times that never decrease, and how many of them are later than a given  *)
(* one: what the limiter counts, in its deques and in the history.         *)

Ordered(s) == \A i, j \in DOMAIN s : i <= j => s[i] <= s[j]

After(s, x) == Cardinality({i \in DOMAIN s : s[i] > x})

\* A set of natural numbers that is not empty has a least element.
LEMMA LeastTime ==
  ASSUME NEW S, S \subseteq Nat, S # {}
  PROVE  \E m \in S : \A n \in S : m <= n
<1>1. PICK m \in S : \A n \in S : <<n, m>> \notin OpToRel(<, Nat)
  BY NatLessThanWellFounded, WFMin
<1>2. \A n \in S : ~ (n < m)
  BY <1>1 DEF OpToRel
<1> QED BY <1>2

\* The places after the f-th of n are n - f.
LEMMA PlacesAfter ==
  ASSUME NEW n \in Nat, NEW f \in 0..n
  PROVE  /\ IsFiniteSet({i \in 1..n : i > f})
         /\ Cardinality({i \in 1..n : i > f}) = n - f
<1>1. {i \in 1..n : i > f} = (f + 1)..n
  OBVIOUS
<1>2. f + 1 \in Int /\ n \in Int
  OBVIOUS
<1>3. /\ IsFiniteSet((f + 1)..n)
      /\ Cardinality((f + 1)..n) = IF f + 1 > n THEN 0 ELSE n - (f + 1) + 1
  BY <1>2, FS_Interval
<1>4. Cardinality((f + 1)..n) = n - f
  BY <1>3
<1> QED BY <1>1, <1>3, <1>4

\* The places up to the f-th are f.
LEMMA PlacesUpTo ==
  ASSUME NEW n \in Nat, NEW f \in 0..n
  PROVE  /\ IsFiniteSet({i \in 1..n : i <= f})
         /\ Cardinality({i \in 1..n : i <= f}) = f
<1>1. {i \in 1..n : i <= f} = 1..f
  OBVIOUS
<1>2. 1 \in Int /\ f \in Int
  OBVIOUS
<1>3. IsFiniteSet(1..f) /\ Cardinality(1..f) = IF 1 > f THEN 0 ELSE f - 1 + 1
  BY <1>2, FS_Interval
<1>4. Cardinality(1..f) = f
  BY <1>3
<1> QED BY <1>1, <1>3, <1>4

\* In times that never decrease, those later than x are the last ones.
LEMMA LaterOnesLast ==
  ASSUME NEW s \in Seq(Nat), Ordered(s), NEW x \in Int
  PROVE  \E f \in 0..Len(s) : \A i \in 1..Len(s) : s[i] > x <=> i > f
<1> DEFINE n == Len(s)
           S == {f \in 0..n : f = n \/ s[f + 1] > x}
<1>1. n \in Nat /\ DOMAIN s = 1..n /\ \A i \in 1..n : s[i] \in Nat
  OBVIOUS
<1>2. n \in S /\ S \subseteq Nat
  BY <1>1
<1> HIDE DEF S
<1>3. PICK f \in S : \A g \in S : f <= g
  BY <1>2, LeastTime
<1>4. f \in 0..n /\ (f = n \/ s[f + 1] > x)
  BY <1>3 DEF S
<1> HIDE DEF n
<1>5. ASSUME NEW i \in 1..n, i > f PROVE s[i] > x
  <2>1. f + 1 \in 1..n /\ f + 1 <= i /\ f # n
    BY <1>1, <1>4, <1>5
  <2>2. s[f + 1] <= s[i] /\ s[f + 1] > x
    BY <1>1, <1>4, <2>1 DEF Ordered
  <2>3. s[f + 1] \in Nat /\ s[i] \in Nat
    BY <1>1, <2>1
  <2> QED BY <2>2, <2>3
<1>6. ASSUME NEW i \in 1..n, i <= f PROVE ~ (s[i] > x)
  <2>1. i - 1 \in 0..n /\ ~ (f <= i - 1) /\ (i - 1) + 1 = i
    BY <1>1, <1>4, <1>6
  <2>2. i - 1 \notin S
    BY <1>3, <2>1
  <2> QED BY <2>1, <2>2 DEF S
<1>7. f \in 0..n /\ \A i \in 1..n : s[i] > x <=> i > f
  BY <1>1, <1>4, <1>5, <1>6
<1> QED BY <1>7 DEF n

\* So they are as many as the places after the last earlier one.
LEMMA AfterCounts ==
  ASSUME NEW s \in Seq(Nat), NEW x \in Int, NEW f \in 0..Len(s),
         \A i \in 1..Len(s) : s[i] > x <=> i > f
  PROVE  After(s, x) = Len(s) - f
<1>1. Len(s) \in Nat /\ DOMAIN s = 1..Len(s)
  OBVIOUS
<1>2. {i \in DOMAIN s : s[i] > x} = {i \in 1..Len(s) : i > f}
  BY <1>1
<1> QED BY <1>1, <1>2, PlacesAfter DEF After

\* If the first m times are not later than x, at most the others are.
LEMMA AfterBound ==
  ASSUME NEW s \in Seq(Nat), NEW x \in Int, NEW m \in 0..Len(s),
         \A i \in 1..m : s[i] <= x
  PROVE  After(s, x) \in Nat /\ After(s, x) <= Len(s) - m
<1> DEFINE late == {i \in DOMAIN s : s[i] > x}
           rest == {i \in 1..Len(s) : i > m}
<1>1. Len(s) \in Nat /\ DOMAIN s = 1..Len(s) /\ \A i \in 1..Len(s) : s[i] \in Nat
  OBVIOUS
<1>2. late \in SUBSET rest
  <2>1. ASSUME NEW i \in late PROVE i \in rest
    <3>1. i \in 1..Len(s) /\ s[i] > x /\ s[i] \in Nat
      BY <1>1
    <3>2. ~ (i \in 1..m)
      BY <3>1
    <3> QED BY <1>1, <3>1, <3>2
  <2> QED BY <2>1
<1>3. IsFiniteSet(rest) /\ Cardinality(rest) = Len(s) - m
  BY <1>1, PlacesAfter
<1> HIDE DEF late, rest
<1>4. IsFiniteSet(late) /\ Cardinality(late) <= Cardinality(rest)
  BY <1>2, <1>3, FS_Subset
<1>5. Cardinality(late) \in Nat
  BY <1>4, FS_CardinalityType
<1> QED BY <1>3, <1>4, <1>5 DEF After, late

\* They are counted by a natural number.
LEMMA AfterType ==
  ASSUME NEW s \in Seq(Nat), NEW x \in Int
  PROVE  After(s, x) \in Nat
<1>1. 0 \in 0..Len(s) /\ \A i \in 1..0 : s[i] <= x
  OBVIOUS
<1> QED BY <1>1, AfterBound

\* The later the time, the fewer are later still.
LEMMA AfterShrinks ==
  ASSUME NEW s \in Seq(Nat), NEW x \in Int, NEW y \in Int, x <= y
  PROVE  After(s, y) \in Nat /\ After(s, x) \in Nat /\ After(s, y) <= After(s, x)
<1>1. Len(s) \in Nat /\ DOMAIN s = 1..Len(s) /\ \A i \in 1..Len(s) : s[i] \in Nat
  OBVIOUS
<1>2. 0 \in 0..Len(s) /\ \A i \in 1..0 : s[i] <= x /\ s[i] <= y
  BY <1>1
<1>3. After(s, y) \in Nat /\ After(s, x) \in Nat
  BY <1>2, AfterBound
<1> DEFINE at(z) == {i \in DOMAIN s : s[i] > z}
<1>4. at(y) \in SUBSET at(x)
  BY <1>1
<1>5. IsFiniteSet(at(x))
  <2>1. IsFiniteSet(1..Len(s)) /\ at(x) \in SUBSET (1..Len(s))
    BY <1>1, FS_Interval
  <2> HIDE DEF at
  <2> QED BY <2>1, FS_Subset
<1> HIDE DEF at
<1>6. Cardinality(at(y)) <= Cardinality(at(x))
  BY <1>4, <1>5, FS_Subset
<1> QED BY <1>3, <1>6 DEF After, at

\* One more time is at most one more that is late.
LEMMA AfterAppend ==
  ASSUME NEW s \in Seq(Nat), NEW c \in Nat, NEW x \in Int
  PROVE  After(Append(s, c), x) \in Nat /\ After(Append(s, c), x) <= After(s, x) + 1
<1> DEFINE r == Append(s, c)
           late == {i \in DOMAIN s : s[i] > x}
           now  == {i \in DOMAIN r : r[i] > x}
           new  == Len(s) + 1
<1>1. /\ Len(s) \in Nat /\ DOMAIN s = 1..Len(s)
      /\ r \in Seq(Nat) /\ Len(r) = new /\ DOMAIN r = 1..new
      /\ \A i \in 1..Len(s) : r[i] = s[i]
  OBVIOUS
<1>2. now \in SUBSET (late \union {new})
  <2>1. ASSUME NEW i \in now PROVE i \in late \union {new}
    <3>1. i \in 1..new /\ r[i] > x
      BY <1>1
    <3>2. i = new \/ i \in 1..Len(s)
      BY <1>1, <3>1
    <3> QED BY <1>1, <3>1, <3>2
  <2> QED BY <2>1
<1>3. IsFiniteSet(late)
  <2>1. IsFiniteSet(1..Len(s)) /\ late \in SUBSET (1..Len(s))
    BY <1>1, FS_Interval
  <2> HIDE DEF late
  <2> QED BY <2>1, FS_Subset
<1> HIDE DEF late, now, new
<1>4. /\ IsFiniteSet(late \union {new})
      /\ Cardinality(late \union {new})
           = IF new \in late THEN Cardinality(late) ELSE Cardinality(late) + 1
  BY <1>3, FS_AddElement
<1>5. IsFiniteSet(now) /\ Cardinality(now) <= Cardinality(late \union {new})
  BY <1>2, <1>4, FS_Subset
<1>6. Cardinality(now) \in Nat /\ Cardinality(late) \in Nat
  BY <1>3, <1>5, FS_CardinalityType
<1>7. Cardinality(now) \in Nat /\ Cardinality(now) <= Cardinality(late) + 1
  BY <1>4, <1>5, <1>6
<1> QED BY <1>7 DEF After, now, late
-----------------------------------------------------------------------------
(* A deque holds the latest of the requests sent: as many as its quota, or *)
(* else all those that were sent since x.                                  *)

Recalls(q, s, quota, x) ==
  /\ Len(q) <= quota /\ Len(q) <= Len(s)
  /\ \A i \in 1..Len(q) : q[i] = s[Len(s) - Len(q) + i]
  /\ Len(q) = quota \/ \A i \in 1..(Len(s) - Len(q)) : s[i] < x

\* What a deque holds never decreases either.
LEMMA RecalledOrdered ==
  ASSUME NEW q \in Seq(Nat), NEW s \in Seq(Nat), NEW quota \in Nat \ {0}, NEW x \in Int,
         Ordered(s), Recalls(q, s, quota, x)
  PROVE  Ordered(q)
<1> DEFINE n == Len(s)
           k == Len(q)
<1>1. n \in Nat /\ k \in Nat /\ k <= n /\ DOMAIN s = 1..n /\ DOMAIN q = 1..k
  BY DEF Recalls
<1>2. \A i \in 1..k : q[i] = s[n - k + i]
  BY DEF Recalls
<1> HIDE DEF n, k
<1>3. ASSUME NEW i \in 1..k, NEW j \in 1..k, i <= j PROVE q[i] <= q[j]
  <2>1. n - k + i \in 1..n /\ n - k + j \in 1..n /\ n - k + i <= n - k + j
    BY <1>1, <1>3
  <2>2. s[n - k + i] <= s[n - k + j]
    BY <1>1, <2>1 DEF Ordered
  <2> QED BY <1>2, <2>2
<1> QED BY <1>1, <1>3 DEF Ordered

\* A deque that lets the outdated times go, and they are its first ones.
LEMMA RecallsDropped ==
  ASSUME NEW q \in Seq(Nat), NEW s \in Seq(Nat), NEW quota \in Nat \ {0}, NEW x \in Int,
         Ordered(s), Recalls(q, s, quota, x)
  PROVE  Recalls(SubSeq(q, Cardinality({i \in DOMAIN q : q[i] < x}) + 1, Len(q)), s, quota, x)
<1> DEFINE n == Len(s)
           k == Len(q)
           old == Cardinality({i \in DOMAIN q : q[i] < x})
<1>1. /\ n \in Nat /\ k \in Nat /\ k <= n /\ k <= quota
      /\ DOMAIN s = 1..n /\ DOMAIN q = 1..k
      /\ \A i \in 1..k : q[i] \in Nat
      /\ \A i \in 1..n : s[i] \in Nat
  BY DEF Recalls
<1>2. \A i \in 1..k : q[i] = s[n - k + i]
  BY DEF Recalls
<1>3. k = quota \/ \A i \in 1..(n - k) : s[i] < x
  BY DEF Recalls
<1>4. Ordered(q) /\ x - 1 \in Int
  BY RecalledOrdered
<1>5. PICK f \in 0..k : \A i \in 1..k : q[i] > x - 1 <=> i > f
  BY <1>4, LaterOnesLast
<1>6. old = f
  <2>1. {i \in DOMAIN q : q[i] < x} = {i \in 1..k : i <= f}
    <3> HIDE DEF k
    <3>1. ASSUME NEW i \in 1..k PROVE q[i] < x <=> i <= f
      <4>1. q[i] \in Nat /\ i \in Nat /\ f \in Nat
        BY <1>1
      <4>2. q[i] > x - 1 <=> i > f
        BY <1>5
      <4> QED BY <4>1, <4>2
    <3> QED BY <1>1, <3>1
  <2>2. Cardinality({i \in 1..k : i <= f}) = f
    BY <1>1, PlacesUpTo
  <2> QED BY <2>1, <2>2
<1> DEFINE p == SubSeq(q, f + 1, k)
<1> HIDE DEF n, k, old
<1>7. Len(p) = k - f /\ \A i \in 1..(k - f) : p[i] = q[f + i]
  <2>1. f + 1 \in Int /\ k \in Int /\ \A i \in (f + 1)..k : q[i] \in Nat
    BY <1>1
  <2>2. /\ Len(p) = IF f + 1 <= k THEN k - (f + 1) + 1 ELSE 0
        /\ \A i \in 1..(k - (f + 1) + 1) : p[i] = q[(f + 1) + i - 1]
    BY <2>1, SubSeqProperties
  <2>3. Len(p) = k - f /\ k - (f + 1) + 1 = k - f
    BY <1>1, <2>2
  <2>4. ASSUME NEW i \in 1..(k - f) PROVE p[i] = q[f + i]
    <3>1. p[i] = q[(f + 1) + i - 1]
      BY <2>2, <2>3
    <3>2. (f + 1) + i - 1 = f + i
      BY <1>1
    <3> QED BY <3>1, <3>2
  <2> QED BY <2>3, <2>4
<1>8. \A i \in 1..(k - f) : p[i] = s[n - (k - f) + i]
  <2> TAKE i \in 1..(k - f)
  <2>1. f + i \in 1..k /\ n - k + (f + i) = n - (k - f) + i
    BY <1>1
  <2> QED BY <1>2, <1>7, <2>1
<1>9. ASSUME f # 0, NEW i \in 1..(n - (k - f)) PROVE s[i] < x
  <2>1. \A j \in 1..f : q[j] < x
    <3> TAKE j \in 1..f
    <3>1. j \in 1..k /\ ~ (j > f) /\ q[j] \in Nat
      BY <1>1
    <3> QED BY <1>5, <3>1
  <2>2. CASE i > n - k
    <3>1. i - (n - k) \in 1..f /\ i - (n - k) \in 1..k /\ n - k + (i - (n - k)) = i
      BY <1>1, <1>9, <2>2
    <3>2. q[i - (n - k)] = s[i]
      BY <1>2, <3>1
    <3> QED BY <2>1, <3>1, <3>2
  <2>3. CASE i <= n - k
    <3>1. 1 \in 1..f /\ 1 \in 1..k /\ i \in 1..n /\ n - k + 1 \in 1..n /\ i <= n - k + 1
      BY <1>1, <1>9, <2>3
    <3>2. q[1] = s[n - k + 1] /\ q[1] < x
      BY <1>2, <2>1, <3>1
    <3>3. s[i] <= s[n - k + 1]
      BY <1>1, <3>1 DEF Ordered
    <3>4. s[i] \in Nat /\ s[n - k + 1] \in Nat
      BY <1>1, <3>1
    <3> QED BY <3>2, <3>3, <3>4
  <2>4. i \in Int /\ n - k \in Int
    BY <1>1
  <2> QED BY <2>2, <2>3, <2>4
<1>10. ASSUME f = 0 PROVE k - f = quota \/ \A i \in 1..(n - (k - f)) : s[i] < x
  BY <1>1, <1>3, <1>10
<1>11. k - f <= quota /\ k - f <= n
  BY <1>1
<1>12. Recalls(p, s, quota, x)
  BY <1>7, <1>8, <1>9, <1>10, <1>11 DEF Recalls, n
<1> QED BY <1>6, <1>12 DEF old, k

\* A deque with a maxlen that takes the time of the request that is sent.
LEMMA RecallsAppended ==
  ASSUME NEW q \in Seq(Nat), NEW s \in Seq(Nat), NEW quota \in Nat \ {0}, NEW x \in Int,
         NEW c \in Nat, Recalls(q, s, quota, x)
  PROVE  Recalls(IF Len(q) < quota THEN Append(q, c) ELSE Append(Tail(q), c),
                 Append(s, c), quota, x)
<1> DEFINE n == Len(s)
           k == Len(q)
           r == Append(s, c)
<1>1. /\ n \in Nat /\ k \in Nat /\ k <= n /\ k <= quota
      /\ DOMAIN s = 1..n /\ DOMAIN q = 1..k
      /\ Len(r) = n + 1 /\ r[n + 1] = c
      /\ \A i \in 1..n : r[i] = s[i]
  BY DEF Recalls
<1>2. \A i \in 1..k : q[i] = s[n - k + i]
  BY DEF Recalls
<1>3. k = quota \/ \A i \in 1..(n - k) : s[i] < x
  BY DEF Recalls
<1>4. CASE k < quota
  <2> DEFINE p == Append(q, c)
  <2>1. Len(p) = k + 1 /\ p[k + 1] = c /\ \A i \in 1..k : p[i] = q[i]
    BY AppendProperties
  <2> HIDE DEF p, k, n, r
  <2>2. ASSUME NEW i \in 1..(k + 1) PROVE p[i] = r[(n + 1) - (k + 1) + i]
    <3>1. CASE i = k + 1
      <4>1. (n + 1) - (k + 1) + i = n + 1
        BY <1>1, <3>1
      <4> QED BY <1>1, <2>1, <3>1, <4>1
    <3>2. CASE i # k + 1
      <4>1. i \in 1..k /\ n - k + i \in 1..n /\ (n + 1) - (k + 1) + i = n - k + i
        BY <1>1, <3>2
      <4>2. p[i] = q[i] /\ q[i] = s[n - k + i] /\ r[n - k + i] = s[n - k + i]
        BY <1>1, <1>2, <2>1, <4>1
      <4> QED BY <4>1, <4>2
    <3> QED BY <3>1, <3>2
  <2>3. ASSUME NEW i \in 1..((n + 1) - (k + 1)) PROVE r[i] < x
    <3>1. i \in 1..(n - k) /\ i \in 1..n
      BY <1>1
    <3> QED BY <1>1, <1>3, <1>4, <3>1
  <2>4. k + 1 <= quota /\ k + 1 <= n + 1
    BY <1>1, <1>4
  <2>5. Recalls(p, r, quota, x)
    BY <1>1, <2>1, <2>2, <2>3, <2>4 DEF Recalls
  <2> QED BY <1>4, <2>5 DEF p, k, r
<1>5. CASE ~ (k < quota)
  <2> DEFINE u == Tail(q)
             p == Append(Tail(q), c)
  <2>1. k = quota /\ k >= 1 /\ q # <<>>
    <3> HIDE DEF k
    <3>1. k = quota /\ k >= 1
      BY <1>1, <1>5
    <3>2. q # <<>>
      BY <3>1 DEF k
    <3> QED BY <3>1, <3>2
  <2>2. u \in Seq(Nat) /\ Len(u) = k - 1 /\ \A i \in 1..(k - 1) : u[i] = q[i + 1]
    BY <2>1, HeadTailProperties
  <2> HIDE DEF u
  <2>3. Len(Append(u, c)) = k /\ Append(u, c)[k] = c /\ \A i \in 1..(k - 1) : Append(u, c)[i] = u[i]
    <3>1. /\ Len(Append(u, c)) = Len(u) + 1 /\ Append(u, c)[Len(u) + 1] = c
          /\ \A i \in 1..Len(u) : Append(u, c)[i] = u[i]
      BY <2>2, AppendProperties
    <3>2. Len(u) + 1 = k
      BY <1>1, <2>2
    <3> QED BY <2>2, <3>1, <3>2
  <2>4. Len(p) = k /\ p[k] = c /\ \A i \in 1..(k - 1) : p[i] = q[i + 1]
    BY <2>2, <2>3 DEF u
  <2> HIDE DEF p, k, n, r
  <2>5. ASSUME NEW i \in 1..k PROVE p[i] = r[(n + 1) - k + i]
    <3>1. CASE i = k
      <4>1. (n + 1) - k + i = n + 1
        BY <1>1, <3>1
      <4> QED BY <1>1, <2>4, <3>1, <4>1
    <3>2. CASE i # k
      <4>1. /\ i \in 1..(k - 1) /\ i + 1 \in 1..k
            /\ n - k + (i + 1) \in 1..n /\ (n + 1) - k + i = n - k + (i + 1)
        BY <1>1, <3>2
      <4>2. p[i] = q[i + 1] /\ q[i + 1] = s[n - k + (i + 1)]
        BY <1>2, <2>4, <4>1
      <4>3. r[n - k + (i + 1)] = s[n - k + (i + 1)]
        BY <1>1, <4>1
      <4> QED BY <4>1, <4>2, <4>3
    <3> QED BY <3>1, <3>2
  <2>6. k <= quota /\ k <= n + 1
    BY <1>1
  <2>7. Recalls(p, r, quota, x)
    BY <1>1, <2>1, <2>4, <2>5, <2>6 DEF Recalls
  <2> QED BY <1>5, <2>7 DEF p, k, r
<1> QED BY <1>4, <1>5 DEF k

\* Time goes on: what a deque no longer holds stays out of date.
LEMMA RecallsLater ==
  ASSUME NEW q \in Seq(Nat), NEW s \in Seq(Nat), NEW quota \in Nat \ {0},
         NEW x \in Int, NEW y \in Int, x <= y, Recalls(q, s, quota, x)
  PROVE  Recalls(q, s, quota, y)
<1>1. ASSUME NEW i \in 1..(Len(s) - Len(q)), s[i] < x PROVE s[i] < y
  <2>1. i \in 1..Len(s)
    OBVIOUS
  <2>2. s[i] \in Nat
    BY <2>1
  <2> QED BY <1>1, <2>2
<1> QED BY <1>1 DEF Recalls

\* A full deque, or all that counts: the deque and the history count alike, up to the quota.
LEMMA RecallsCount ==
  ASSUME NEW q \in Seq(Nat), NEW s \in Seq(Nat), NEW quota \in Nat \ {0}, NEW x \in Int,
         Ordered(s), Recalls(q, s, quota, x)
  PROVE  After(q, x) = Min({quota, After(s, x)})
<1> DEFINE n == Len(s)
           k == Len(q)
<1>1. /\ n \in Nat /\ k \in Nat /\ k <= n /\ k <= quota
      /\ DOMAIN s = 1..n /\ DOMAIN q = 1..k
      /\ \A i \in 1..n : s[i] \in Nat
  BY DEF Recalls
<1>2. \A i \in 1..k : q[i] = s[n - k + i]
  BY DEF Recalls
<1>3. k = quota \/ \A i \in 1..(n - k) : s[i] < x
  BY DEF Recalls
<1>4. PICK f \in 0..n : \A i \in 1..n : s[i] > x <=> i > f
  BY LaterOnesLast
<1>5. After(s, x) = n - f
  BY <1>4, AfterCounts
<1>6. CASE f < n - k
  <2>1. n - k \in 1..n /\ n - k \in 1..(n - k) /\ n - k > f
    BY <1>1, <1>6
  <2>2. s[n - k] > x /\ s[n - k] \in Nat
    BY <1>1, <1>4, <2>1
  <2>3. k = quota
    <3>1. s[n - k] < x => ~ (s[n - k] > x)
      BY <2>2
    <3> HIDE DEF n, k
    <3> QED BY <1>3, <2>1, <2>2, <3>1
  <2>4. \A i \in 1..k : q[i] > x <=> i > 0
    <3> TAKE i \in 1..k
    <3>1. n - k + i \in 1..n /\ n - k + i > f /\ i > 0
      BY <1>1, <1>6
    <3> QED BY <1>2, <1>4, <3>1
  <2>5. After(q, x) = k
    <3>1. 0 \in 0..Len(q)
      BY <1>1
    <3>2. After(q, x) = Len(q) - 0
      BY <2>4, <3>1, AfterCounts
    <3> QED BY <1>1, <3>2
  <2>6. quota <= n - f /\ n - f \in Nat
    BY <1>1, <1>6, <2>3
  <2>7. Min({quota, n - f}) = quota
    <3>1. \A z \in {quota, n - f} : quota <= z
      BY <2>6
    <3>2. \A z \in {quota, n - f} : (\A y \in {quota, n - f} : z <= y) => z = quota
      BY <2>6
    <3> QED BY <3>1, <3>2, Zenon DEF Min
  <2> QED BY <1>5, <2>3, <2>5, <2>7
<1>7. CASE ~ (f < n - k)
  <2> DEFINE g == f - (n - k)
  <2>1. g \in 0..k /\ k - g = n - f
    BY <1>1, <1>7
  <2>2. \A i \in 1..k : q[i] > x <=> i > g
    <3> TAKE i \in 1..k
    <3>1. n - k + i \in 1..n /\ (n - k + i > f <=> i > g)
      BY <1>1, <1>7
    <3> QED BY <1>2, <1>4, <3>1
  <2> HIDE DEF g
  <2>3. After(q, x) = k - g
    BY <2>1, <2>2, AfterCounts
  <2>4. n - f <= quota /\ n - f \in Nat
    BY <1>1, <2>1
  <2>5. Min({quota, n - f}) = n - f
    <3>1. \A z \in {quota, n - f} : n - f <= z
      BY <2>4
    <3>2. \A z \in {quota, n - f} : (\A y \in {quota, n - f} : z <= y) => z = n - f
      BY <2>4
    <3> QED BY <3>1, <3>2, Zenon DEF Min
  <2> QED BY <1>5, <2>1, <2>3, <2>5
<1>8. f \in Int /\ n - k \in Int
  BY <1>1
<1> QED BY <1>6, <1>7, <1>8

\* A deque that is not full, or whose oldest time is not later than x, leaves less
\* than its quota of requests that are.
LEMMA RecallsFew ==
  ASSUME NEW q \in Seq(Nat), NEW s \in Seq(Nat), NEW quota \in Nat \ {0},
         NEW x \in Int, NEW y \in Int, x <= y, Ordered(s), Recalls(q, s, quota, x),
         Len(q) >= quota => q[1] <= y
  PROVE  After(s, y) \in Nat /\ After(s, y) < quota
<1> DEFINE n == Len(s)
           k == Len(q)
<1>1. /\ n \in Nat /\ k \in Nat /\ k <= n /\ k <= quota
      /\ DOMAIN s = 1..n /\ DOMAIN q = 1..k
      /\ \A i \in 1..n : s[i] \in Nat
  BY DEF Recalls
<1>2. \A i \in 1..k : q[i] = s[n - k + i]
  BY DEF Recalls
<1>3. k = quota \/ \A i \in 1..(n - k) : s[i] < x
  BY DEF Recalls
<1>6. k = quota => q[1] <= y
  BY DEF Recalls
<1> HIDE DEF n, k
<1>4. CASE k < quota
  <2>1. n - k \in 0..n /\ \A i \in 1..(n - k) : s[i] <= y
    <3>1. n - k \in 0..n
      BY <1>1
    <3>2. ASSUME NEW i \in 1..(n - k) PROVE s[i] <= y
      <4>1. i \in 1..n /\ s[i] < x
        BY <1>1, <1>3, <1>4
      <4>2. s[i] \in Nat
        BY <1>1, <4>1
      <4> QED BY <4>1, <4>2
    <3> QED BY <3>1, <3>2
  <2>2. After(s, y) \in Nat /\ After(s, y) <= n - (n - k)
    BY <2>1, AfterBound DEF n
  <2> QED BY <1>1, <1>4, <2>2
<1>5. CASE ~ (k < quota)
  <2>1. k = quota /\ 1 \in 1..k /\ n - k + 1 \in 1..n /\ n - k + 1 \in 0..n
    BY <1>1, <1>5
  <2>2. s[n - k + 1] <= y
    <3>1. q[1] = s[n - k + 1]
      BY <1>2, <2>1
    <3> QED BY <1>6, <2>1, <3>1
  <2>3. ASSUME NEW i \in 1..(n - k + 1) PROVE s[i] <= y
    <3>1. i \in 1..n /\ i <= n - k + 1
      BY <1>1, <2>1
    <3>2. s[i] <= s[n - k + 1]
      BY <1>1, <2>1, <3>1 DEF Ordered
    <3>3. s[i] \in Nat /\ s[n - k + 1] \in Nat
      BY <1>1, <2>1, <3>1
    <3> QED BY <2>2, <3>2, <3>3
  <2>4. After(s, y) \in Nat /\ After(s, y) <= n - (n - k + 1)
    BY <2>1, <2>3, AfterBound DEF n
  <2> QED BY <1>1, <2>1, <2>4
<1> QED BY <1>4, <1>5
-----------------------------------------------------------------------------
(* What the limiter keeps, and the history of the requests: times are      *)
(* recorded in their order, the last of them is last_request_time, and     *)
(* every deque recalls the history.                                        *)

Recalled(q) == \A w \in Window : Recalls(q[w], sent, Quota[w], clock - Span[w])

History ==
  /\ Ordered(sent)
  /\ last # None => last <= clock
  /\ \A i \in DOMAIN sent : last # None /\ sent[i] <= last
  /\ Recalled(window)

\* Cleaned deques recall the history as well.
LEMMA CleanedRecalls ==
  ASSUME TypeOK, History
  PROVE  Recalled(Cleaned)
<1> SUFFICES ASSUME NEW w \in Window
             PROVE  Recalls(Cleaned[w], sent, Quota[w], clock - Span[w])
  BY DEF Recalled
<1> DEFINE q == window[w]
           x == clock - Span[w]
<1>1. q \in Seq(Nat) /\ sent \in Seq(Nat) /\ Quota[w] \in Nat \ {0} /\ x \in Int
  BY AccessAssumption DEF TypeOK
<1>2. Ordered(sent) /\ Recalls(q, sent, Quota[w], x)
  BY DEF History, Recalled
<1>3. Cleaned[w] = SubSeq(q, Cardinality({i \in DOMAIN q : q[i] < x}) + 1, Len(q))
  BY DEF Cleaned, Outdated
<1> HIDE DEF q, x
<1>4. Recalls(SubSeq(q, Cardinality({i \in DOMAIN q : q[i] < x}) + 1, Len(q)), sent, Quota[w], x)
  BY <1>1, <1>2, RecallsDropped
<1> QED BY <1>3, <1>4 DEF x

\* A request that is recorded as it is sent.
LEMMA HistorySends ==
  ASSUME TypeOK, History, NEW q \in Deques, Recalled(q),
         last' = clock, window' = Recorded(q), sent' = Append(sent, clock), clock' = clock
  PROVE  History'
<1>1. /\ sent \in Seq(Nat) /\ clock \in Nat /\ last \in Nat \union {None}
      /\ Quota \in [Window -> Nat \ {0}] /\ Span \in [Window -> Nat \ {0}] /\ None \notin Nat
  BY AccessAssumption DEF TypeOK
<1> DEFINE n == Len(sent)
           r == Append(sent, clock)
<1>2. /\ n \in Nat /\ DOMAIN sent = 1..n /\ DOMAIN r = 1..(n + 1) /\ r[n + 1] = clock
      /\ \A i \in 1..n : r[i] = sent[i]
      /\ \A i \in 1..n : sent[i] \in Nat
  BY <1>1
<1>3. \A i \in 1..n : sent[i] <= clock
  <2> TAKE i \in 1..n
  <2>1. last # None /\ sent[i] <= last /\ last <= clock
    BY <1>2 DEF History
  <2>2. sent[i] \in Nat /\ last \in Nat
    BY <1>1, <1>2, <2>1
  <2> QED BY <1>1, <2>1, <2>2
<1> HIDE DEF n, r
<1>4. \A i \in 1..(n + 1) : r[i] <= clock
  <2> TAKE i \in 1..(n + 1)
  <2>1. i = n + 1 \/ i \in 1..n
    BY <1>2
  <2> QED BY <1>1, <1>2, <1>3, <2>1
<1>5. Ordered(r)
  <2>1. ASSUME NEW i \in 1..(n + 1), NEW j \in 1..(n + 1), i <= j PROVE r[i] <= r[j]
    <3>1. CASE j = n + 1
      BY <1>2, <1>4, <3>1
    <3>2. CASE j # n + 1
      <4>1. i \in 1..n /\ j \in 1..n
        BY <1>2, <2>1, <3>2
      <4>2. sent[i] <= sent[j]
        BY <1>2, <2>1, <4>1 DEF History, Ordered
      <4> QED BY <1>2, <4>1, <4>2
    <3> QED BY <3>1, <3>2
  <2> QED BY <1>2, <2>1 DEF Ordered
<1>6. ASSUME NEW w \in Window PROVE Recalls(Recorded(q)[w], r, Quota[w], clock - Span[w])
  <2>1. q[w] \in Seq(Nat) /\ Quota[w] \in Nat \ {0} /\ clock - Span[w] \in Int
    BY <1>1 DEF Deques
  <2>2. Recalls(q[w], sent, Quota[w], clock - Span[w])
    BY DEF Recalled
  <2> DEFINE x == clock - Span[w]
             d == q[w]
  <2>3. d \in Seq(Nat) /\ x \in Int /\ Recalls(d, sent, Quota[w], x)
    BY <2>1, <2>2
  <2>4. Recorded(q)[w] = IF Len(d) < Quota[w] THEN Append(d, clock) ELSE Append(Tail(d), clock)
    BY DEF Recorded
  <2> HIDE DEF x, d
  <2>5. Recalls(IF Len(d) < Quota[w] THEN Append(d, clock) ELSE Append(Tail(d), clock),
                Append(sent, clock), Quota[w], x)
    BY <1>1, <2>1, <2>3, RecallsAppended
  <2> QED BY <2>4, <2>5 DEF r, x
<1>7. sent' = r
  BY DEF r
<1>8. Ordered(sent')
  BY <1>5, <1>7
<1>9. last' # None /\ last' <= clock' /\ \A i \in DOMAIN sent' : sent'[i] <= last'
  BY <1>1, <1>2, <1>4, <1>7
<1>10. \A w \in Window : Recalls(window'[w], sent', Quota[w], clock' - Span[w])
  BY <1>6, <1>7
<1> QED BY <1>8, <1>9, <1>10 DEF History, Recalled

\* While a request waits for the limiter, or goes past it.
LEMMA HistoryWaits ==
  ASSUME TypeOK, History, NEW t \in Task, WaitOrSend(t), clock' = clock
  PROVE  History'
<1>1. Cleaned \in Deques /\ Recalled(Cleaned)
  BY CleanedType, CleanedRecalls
<1>2. CASE Send(t, Cleaned)
  BY <1>1, <1>2, HistorySends DEF Send
<1>3. CASE window' = Cleaned /\ UNCHANGED <<last, sent>>
  <2>1. Recalled(window)'
    BY <1>1, <1>3 DEF Recalled
  <2> QED BY <1>3, <2>1 DEF History, Ordered
<1> QED BY <1>2, <1>3 DEF WaitOrSend

\* Every step keeps the history.
LEMMA HistoryStep == TypeOK /\ History /\ [Next]_vars => History'
<1> SUFFICES ASSUME TypeOK, History, [Next]_vars PROVE History'
  OBVIOUS
<1>1. CASE Tick
  <2>1. /\ clock' = clock + 1 /\ last' = last /\ window' = window /\ sent' = sent
        /\ clock \in Nat /\ last \in Nat \union {None}
    BY <1>1 DEF Tick, limiter, TypeOK
  <2>2. ASSUME NEW w \in Window PROVE Recalls(window[w], sent, Quota[w], clock' - Span[w])
    <3> DEFINE x == clock - Span[w]
               y == clock' - Span[w]
               q == window[w]
    <3>1. q \in Seq(Nat) /\ sent \in Seq(Nat) /\ Quota[w] \in Nat \ {0} /\ Span[w] \in Nat
      BY AccessAssumption DEF TypeOK
    <3>2. x \in Int /\ y \in Int /\ x <= y
      BY <2>1, <3>1
    <3>3. Recalls(q, sent, Quota[w], x)
      BY DEF History, Recalled
    <3> HIDE DEF x, y, q
    <3>4. Recalls(q, sent, Quota[w], y)
      BY <3>1, <3>2, <3>3, RecallsLater
    <3> QED BY <3>4 DEF y, q
  <2>3. Recalled(window)'
    <3>1. ASSUME NEW w \in Window PROVE Recalls(window'[w], sent', Quota[w], clock' - Span[w])
      <4>1. Recalls(window[w], sent, Quota[w], clock' - Span[w])
        BY <2>2
      <4> QED BY <2>1, <4>1
    <3> QED BY <3>1 DEF Recalled
  <2>4. last' # None => last' <= clock'
    BY <2>1, AccessAssumption DEF History
  <2> QED BY <2>1, <2>3, <2>4 DEF History, Ordered
<1>2. ASSUME UNCHANGED <<clock, last, window, sent>> PROVE History'
  BY <1>2 DEF History, Recalled, Ordered
<1>3. ASSUME NEW t \in Task, Begin(t) PROVE History'
  BY <1>2, <1>3, HistoryWaits DEF Begin
<1>4. ASSUME NEW t \in Task, WakeUp(t) PROVE History'
  <2>1. window \in Deques /\ Recalled(window)
    BY DEF TypeOK, Deques, History
  <2> QED BY <1>4, <2>1, HistorySends DEF WakeUp, Send
<1>5. ASSUME NEW t \in Task, Retry(t) PROVE History'
  BY <1>5, HistoryWaits DEF Retry
<1>6. ASSUME NEW t \in Task,
             \/ Succeed(t) \/ ClientError(t) \/ RateLimited(t) \/ Unavailable(t)
             \/ Broken(t) \/ Cancel(t)
      PROVE  History'
  BY <1>2, <1>6 DEF Succeed, ClientError, RateLimited, Unavailable, Broken, Cancel, limiter
<1>7. CASE UNCHANGED vars
  BY <1>2, <1>7 DEF vars, limiter
<1> QED BY <1>1, <1>3, <1>4, <1>5, <1>6, <1>7 DEF Next, Proceed

\* At the start nothing was sent.
LEMMA HistoryStarts == Init => History
<1> SUFFICES ASSUME Init PROVE History
  OBVIOUS
<1> USE AccessAssumption
<1>1. sent = <<>> /\ last = None /\ Ordered(sent) /\ DOMAIN sent = {}
  BY DEF Init, Ordered
<1>2. ASSUME NEW w \in Window PROVE Recalls(window[w], sent, Quota[w], clock - Span[w])
  <2>1. window[w] = <<>> /\ sent = <<>> /\ Quota[w] \in Nat
    BY DEF Init
  <2> QED BY <2>1 DEF Recalls
<1> QED BY <1>1, <1>2 DEF History, Recalled

\* Whatever callers do, and even after they have overrun it together, a window's
\* deque holds every request that still counts, up to its quota.
THEOREM WindowsAlwaysRemember == Spec => []WindowsRemember
<1>1. TypeOK /\ History => WindowsRemember
  <2> SUFFICES ASSUME TypeOK, History, NEW w \in Window
               PROVE  After(window[w], clock - Span[w])
                        = Min({Quota[w], After(sent, clock - Span[w])})
    BY DEF WindowsRemember, SentSince, After
  <2> DEFINE x == clock - Span[w]
             q == window[w]
  <2>1. q \in Seq(Nat) /\ sent \in Seq(Nat) /\ Quota[w] \in Nat \ {0} /\ x \in Int
    BY AccessAssumption DEF TypeOK
  <2>2. Ordered(sent) /\ Recalls(q, sent, Quota[w], x)
    BY DEF History, Recalled
  <2> HIDE DEF x, q
  <2>3. After(q, x) = Min({Quota[w], After(sent, x)})
    BY <2>1, <2>2, RecallsCount
  <2> QED BY <2>3 DEF x, q
<1>2. QED
  BY <1>1, HistoryStarts, HistoryStep, TypeCorrect, PTL DEF Spec
-----------------------------------------------------------------------------
(* How far callers overrun a limit together.  A caller that is let through *)
(* at r finds less than a quota of requests in the span before r; what     *)
(* comes on top by then are those that were let through before it.         *)

\* When the limiter lets a caller through, every limit has room.
LEMMA RoomWhenReady ==
  ASSUME TypeOK, History, NEW r \in ReadyTimes(Cleaned),
         \A s \in ReadyTimes(Cleaned) : s <= r, NEW l \in Spans
  PROVE  /\ r \in Nat /\ r >= clock /\ l.span \in Nat /\ l.quota \in Nat \ {0}
         /\ After(sent, r - l.span) \in Nat /\ After(sent, r - l.span) < l.quota
<1> USE AccessAssumption
<1>1. /\ clock \in Nat /\ sent \in Seq(Nat) /\ last \in Nat \union {None} /\ MinDelay \in Nat
      /\ Cleaned \in Deques
  BY CleanedType DEF TypeOK
<1>2. r \in Nat
  BY <1>1, ReadyTimesType
<1>3. r >= clock
  BY DEF ReadyTimes
<1>4. ASSUME NEW w \in Window, l = [quota |-> Quota[w], span |-> Span[w]]
      PROVE  /\ l.span \in Nat /\ l.quota \in Nat \ {0}
             /\ After(sent, r - l.span) \in Nat /\ After(sent, r - l.span) < l.quota
  <2> DEFINE q == Cleaned[w]
             x == clock - Span[w]
             y == r - Span[w]
  <2>1. q \in Seq(Nat) /\ Quota[w] \in Nat \ {0} /\ Span[w] \in Nat
    BY <1>1 DEF Deques
  <2>2. x \in Int /\ y \in Int /\ x <= y
    BY <1>1, <1>2, <1>3, <2>1
  <2>3. Ordered(sent) /\ Recalls(q, sent, Quota[w], x)
    BY CleanedRecalls DEF History, Recalled
  <2>4. ASSUME Len(q) >= Quota[w] PROVE q[1] <= y
    <3>1. q[1] + Span[w] \in ReadyTimes(Cleaned)
      BY <2>4 DEF ReadyTimes
    <3>2. q[1] + Span[w] <= r
      BY <3>1
    <3> HIDE DEF q
    <3>3. q[1] \in Nat
      <4>1. Len(q) >= 1
        BY <2>1, <2>4
      <4> QED BY <2>1, <4>1, OldestIsTime
    <3> QED BY <1>2, <2>1, <3>2, <3>3
  <2> HIDE DEF q, x, y
  <2>5. After(sent, y) \in Nat /\ After(sent, y) < Quota[w]
    BY <1>1, <2>1, <2>2, <2>3, <2>4, RecallsFew
  <2> QED BY <1>4, <2>1, <2>5 DEF y
<1>5. ASSUME l = [quota |-> 1, span |-> MinDelay]
      PROVE  /\ l.span \in Nat /\ l.quota \in Nat \ {0}
             /\ After(sent, r - l.span) \in Nat /\ After(sent, r - l.span) < l.quota
  <2> DEFINE y == r - MinDelay
             n == Len(sent)
  <2>1. y \in Int /\ n \in Nat /\ n \in 0..n /\ DOMAIN sent = 1..n
        /\ \A i \in 1..n : sent[i] \in Nat
    BY <1>1, <1>2
  <2>2. \A i \in 1..n : sent[i] <= y
    <3> TAKE i \in 1..n
    <3>1. last # None /\ sent[i] <= last /\ sent[i] \in Nat
      BY <2>1 DEF History
    <3>2. last + MinDelay \in ReadyTimes(Cleaned) /\ last \in Nat
      BY <1>1, <3>1 DEF ReadyTimes
    <3>3. last + MinDelay <= r
      BY <3>2
    <3> HIDE DEF n
    <3> QED BY <1>1, <1>2, <3>1, <3>2, <3>3
  <2>3. After(sent, y) \in Nat /\ After(sent, y) <= n - n
    <3> HIDE DEF y
    <3> QED BY <1>1, <2>1, <2>2, AfterBound
  <2> HIDE DEF n
  <2> QED BY <1>1, <1>5, <2>1, <2>3 DEF y
<1> QED BY <1>2, <1>3, <1>4, <1>5 DEF Spans

\* Callers the limiter let through for x or before, who have not sent yet
Sleepers(x) == {t \in Task : pc[t] = "sleep" /\ until[t] <= x}

\* At no time to come will there be more, even when all of them have sent
Overrun ==
  \A l \in Spans : \A x \in Nat :
    x >= clock => After(sent, x - l.span) + Cardinality(Sleepers(x))
                    < l.quota + Cardinality(Task)

\* The limits are proper ones.
LEMMA SpansType ==
  ASSUME NEW l \in Spans
  PROVE  l.span \in Nat /\ l.quota \in Nat \ {0}
BY AccessAssumption DEF Spans

\* Sleepers are callers, finitely many.
LEMMA SleepersCount ==
  ASSUME NEW x
  PROVE  /\ IsFiniteSet(Sleepers(x)) /\ Cardinality(Sleepers(x)) \in Nat
         /\ Cardinality(Sleepers(x)) <= Cardinality(Task) /\ Cardinality(Task) \in Nat
<1>1. Sleepers(x) \in SUBSET Task /\ IsFiniteSet(Task)
  BY AccessAssumption DEF Sleepers
<1> QED BY <1>1, FS_Subset, FS_CardinalityType

\* At the start there is nothing to overrun.
LEMMA OverrunStarts == Init => Overrun
<1> SUFFICES ASSUME Init, NEW l \in Spans, NEW x \in Nat
             PROVE  After(sent, x - l.span) + Cardinality(Sleepers(x)) < l.quota + Cardinality(Task)
  BY DEF Overrun
<1>1. l.span \in Nat /\ l.quota \in Nat \ {0}
  BY SpansType
<1>2. After(sent, x - l.span) = 0
  <2>1. {i \in DOMAIN sent : sent[i] > x - l.span} = {}
    BY DEF Init
  <2> QED BY <2>1, FS_EmptySet DEF After
<1> QED BY <1>1, <1>2, SleepersCount

\* While nothing is sent and nobody lies down to sleep, it stays that way.
LEMMA OverrunQuiet ==
  ASSUME Overrun, TypeOK, clock' >= clock, sent' = sent, clock' \in Nat,
         \A t \in Task : pc'[t] = "sleep" => pc[t] = "sleep" /\ until'[t] = until[t]
  PROVE  Overrun'
<1> SUFFICES ASSUME NEW l \in Spans, NEW x \in Nat, x >= clock'
             PROVE  After(sent, x - l.span) + Cardinality(Sleepers(x)')
                      < l.quota + Cardinality(Task)
  BY DEF Overrun, Spans, After
<1>1. /\ sent \in Seq(Nat) /\ clock \in Nat /\ x >= clock
      /\ l.span \in Nat /\ l.quota \in Nat \ {0}
  BY SpansType DEF TypeOK
<1>2. After(sent, x - l.span) + Cardinality(Sleepers(x)) < l.quota + Cardinality(Task)
  BY <1>1 DEF Overrun
<1>3. Sleepers(x)' \in SUBSET Sleepers(x)
  BY DEF Sleepers
<1>4. IsFiniteSet(Sleepers(x)) /\ Cardinality(Sleepers(x)) \in Nat /\ Cardinality(Task) \in Nat
  BY SleepersCount
<1>5. /\ IsFiniteSet(Sleepers(x)')
      /\ Cardinality(Sleepers(x)') <= Cardinality(Sleepers(x))
  BY <1>3, <1>4, FS_Subset
<1>6. Cardinality(Sleepers(x)') \in Nat
  BY <1>5, FS_CardinalityType
<1>7. After(sent, x - l.span) \in Nat
  <2>1. x - l.span \in Int
    BY <1>1
  <2> QED BY <1>1, <2>1, AfterType
<1> QED BY <1>1, <1>2, <1>4, <1>5, <1>6, <1>7

\* A caller who is let through at once sends one more than there was room for.
LEMMA OverrunSends ==
  ASSUME Overrun, TypeOK, History, NEW t \in Task, pc[t] # "sleep",
         clock \in ReadyTimes(Cleaned), \A s \in ReadyTimes(Cleaned) : s <= clock,
         clock' = clock, sent' = Append(sent, clock), until' = until,
         pc' = [pc EXCEPT ![t] = "sent"]
  PROVE  Overrun'
<1> SUFFICES ASSUME NEW l \in Spans, NEW x \in Nat, x >= clock
             PROVE  After(Append(sent, clock), x - l.span) + Cardinality(Sleepers(x)')
                      < l.quota + Cardinality(Task)
  BY DEF Overrun, Spans, After
<1>1. sent \in Seq(Nat) /\ clock \in Nat /\ l.span \in Nat /\ l.quota \in Nat \ {0}
  BY SpansType DEF TypeOK
<1>2. After(sent, clock - l.span) \in Nat /\ After(sent, clock - l.span) < l.quota
  BY RoomWhenReady
<1>3. clock - l.span \in Int /\ x - l.span \in Int /\ clock - l.span <= x - l.span
  BY <1>1
<1>4. After(sent, x - l.span) \in Nat /\ After(sent, x - l.span) <= After(sent, clock - l.span)
  BY <1>1, <1>3, AfterShrinks
<1>5. /\ After(Append(sent, clock), x - l.span) \in Nat
      /\ After(Append(sent, clock), x - l.span) <= After(sent, x - l.span) + 1
  BY <1>1, <1>3, AfterAppend
<1>6. Sleepers(x)' \in SUBSET (Task \ {t})
  BY DEF Sleepers, TypeOK
<1>7. /\ IsFiniteSet(Task \ {t})
      /\ Cardinality(Task \ {t}) = IF t \in Task THEN Cardinality(Task) - 1 ELSE Cardinality(Task)
  BY AccessAssumption, FS_RemoveElement
<1>8. /\ IsFiniteSet(Sleepers(x)')
      /\ Cardinality(Sleepers(x)') <= Cardinality(Task \ {t})
  BY <1>6, <1>7, FS_Subset
<1>9. Cardinality(Sleepers(x)') \in Nat /\ Cardinality(Task) \in Nat
  BY <1>8, AccessAssumption, FS_CardinalityType
<1> QED BY <1>1, <1>2, <1>4, <1>5, <1>7, <1>8, <1>9

\* A caller who sleeps until there is room.
LEMMA OverrunSleeps ==
  ASSUME Overrun, TypeOK, History, NEW t \in Task, pc[t] # "sleep",
         NEW r \in ReadyTimes(Cleaned), \A s \in ReadyTimes(Cleaned) : s <= r,
         clock' = clock, sent' = sent,
         pc' = [pc EXCEPT ![t] = "sleep"], until' = [until EXCEPT ![t] = r]
  PROVE  Overrun'
<1> SUFFICES ASSUME NEW l \in Spans, NEW x \in Nat, x >= clock
             PROVE  After(sent, x - l.span) + Cardinality(Sleepers(x)')
                      < l.quota + Cardinality(Task)
  BY DEF Overrun, Spans, After
<1>1. sent \in Seq(Nat) /\ clock \in Nat /\ l.span \in Nat /\ l.quota \in Nat \ {0} /\ r \in Nat
  <2>1. sent \in Seq(Nat) /\ clock \in Nat
    BY DEF TypeOK
  <2> QED BY <2>1, SpansType, RoomWhenReady
<1>2. After(sent, r - l.span) \in Nat /\ After(sent, r - l.span) < l.quota
  BY RoomWhenReady
<1>3. r - l.span \in Int /\ x - l.span \in Int
  BY <1>1
<1>4. IsFiniteSet(Sleepers(x)) /\ Cardinality(Sleepers(x)) \in Nat /\ Cardinality(Task) \in Nat
  BY SleepersCount
<1>5. CASE x >= r
  <2>1. r - l.span <= x - l.span
    BY <1>1, <1>5
  <2>2. After(sent, x - l.span) \in Nat /\ After(sent, x - l.span) <= After(sent, r - l.span)
    BY <1>1, <1>3, <2>1, AfterShrinks
  <2>3. Sleepers(x)' \in SUBSET Task /\ IsFiniteSet(Task)
    BY AccessAssumption DEF Sleepers
  <2>4. IsFiniteSet(Sleepers(x)') /\ Cardinality(Sleepers(x)') <= Cardinality(Task)
    BY <2>3, FS_Subset
  <2>5. Cardinality(Sleepers(x)') \in Nat
    BY <2>4, FS_CardinalityType
  <2> QED BY <1>1, <1>2, <1>4, <2>2, <2>4, <2>5
<1>6. CASE ~ (x >= r)
  <2>1. Sleepers(x)' \in SUBSET Sleepers(x)
    BY <1>6 DEF Sleepers, TypeOK
  <2>2. IsFiniteSet(Sleepers(x)') /\ Cardinality(Sleepers(x)') <= Cardinality(Sleepers(x))
    BY <1>4, <2>1, FS_Subset
  <2>3. Cardinality(Sleepers(x)') \in Nat
    BY <2>2, FS_CardinalityType
  <2>4. After(sent, x - l.span) + Cardinality(Sleepers(x)) < l.quota + Cardinality(Task)
    BY DEF Overrun
  <2>5. After(sent, x - l.span) \in Nat
    BY <1>1, <1>3, AfterType
  <2> QED BY <1>1, <1>4, <2>2, <2>3, <2>4, <2>5
<1> QED BY <1>5, <1>6

\* A sleeper who wakes up sends the request that was counted already.
LEMMA OverrunWakes ==
  ASSUME Overrun, TypeOK, NEW t \in Task, pc[t] = "sleep", clock >= until[t],
         clock' = clock, sent' = Append(sent, clock), until' = until,
         pc' = [pc EXCEPT ![t] = "sent"]
  PROVE  Overrun'
<1> SUFFICES ASSUME NEW l \in Spans, NEW x \in Nat, x >= clock
             PROVE  After(Append(sent, clock), x - l.span) + Cardinality(Sleepers(x)')
                      < l.quota + Cardinality(Task)
  BY DEF Overrun, Spans, After
<1>1. /\ sent \in Seq(Nat) /\ clock \in Nat /\ l.span \in Nat /\ l.quota \in Nat \ {0}
      /\ until[t] \in Nat
  BY SpansType DEF TypeOK
<1>2. After(sent, x - l.span) + Cardinality(Sleepers(x)) < l.quota + Cardinality(Task)
  BY DEF Overrun
<1>3. x - l.span \in Int
  BY <1>1
<1>4. /\ After(Append(sent, clock), x - l.span) \in Nat
      /\ After(Append(sent, clock), x - l.span) <= After(sent, x - l.span) + 1
  BY <1>1, <1>3, AfterAppend
<1>5. After(sent, x - l.span) \in Nat
  BY <1>1, <1>3, AfterType
<1>6. IsFiniteSet(Sleepers(x)) /\ Cardinality(Sleepers(x)) \in Nat /\ Cardinality(Task) \in Nat
  BY SleepersCount
<1>7. t \in Sleepers(x)
  BY <1>1 DEF Sleepers
<1>8. Sleepers(x)' = Sleepers(x) \ {t}
  BY DEF Sleepers, TypeOK
<1>9. /\ IsFiniteSet(Sleepers(x) \ {t})
      /\ Cardinality(Sleepers(x) \ {t})
           = IF t \in Sleepers(x) THEN Cardinality(Sleepers(x)) - 1 ELSE Cardinality(Sleepers(x))
  BY <1>6, FS_RemoveElement
<1>10. Cardinality(Sleepers(x)') = Cardinality(Sleepers(x)) - 1
  BY <1>7, <1>8, <1>9
<1> QED BY <1>1, <1>2, <1>4, <1>5, <1>6, <1>10

\* A caller at the limiter does one of the two.
LEMMA OverrunWaits ==
  ASSUME Overrun, TypeOK, History, NEW t \in Task, pc[t] # "sleep", WaitOrSend(t), clock' = clock
  PROVE  Overrun'
<1>1. PICK r \in ReadyTimes(Cleaned) :
        /\ \A s \in ReadyTimes(Cleaned) : s <= r
        /\ \/ /\ r = clock
              /\ Send(t, Cleaned)
              /\ UNCHANGED until
           \/ /\ pc' = [pc EXCEPT ![t] = "sleep"]
              /\ until' = [until EXCEPT ![t] = r]
              /\ UNCHANGED sent
  BY DEF WaitOrSend
<1>2. CASE r = clock /\ Send(t, Cleaned) /\ UNCHANGED until
  <2>1. /\ sent' = Append(sent, clock) /\ until' = until /\ pc' = [pc EXCEPT ![t] = "sent"]
        /\ clock \in ReadyTimes(Cleaned) /\ \A s \in ReadyTimes(Cleaned) : s <= clock
    BY <1>1, <1>2 DEF Send
  <2> QED BY <2>1, OverrunSends
<1>3. CASE /\ pc' = [pc EXCEPT ![t] = "sleep"]
           /\ until' = [until EXCEPT ![t] = r]
           /\ UNCHANGED sent
  BY <1>1, <1>3, OverrunSleeps
<1> QED BY <1>1, <1>2, <1>3

\* Every step keeps the overrun bounded.
LEMMA OverrunStep == TypeOK /\ History /\ Overrun /\ [Next]_vars => Overrun'
<1> SUFFICES ASSUME TypeOK, History, Overrun, [Next]_vars PROVE Overrun'
  OBVIOUS
<1>1. clock \in Nat /\ pc \in [Task -> Pcs] /\ until \in [Task -> Nat]
  BY DEF TypeOK
<1>2. CASE Tick
  BY <1>1, <1>2, OverrunQuiet DEF Tick
<1>3. ASSUME NEW t \in Task, NEW place \in Pcs \ {"sleep"}, pc' = [pc EXCEPT ![t] = place],
             \A u \in Task \ {t} : until'[u] = until[u], clock' = clock, sent' = sent
      PROVE  Overrun'
  <2>1. \A u \in Task : pc'[u] = "sleep" => pc[u] = "sleep" /\ until'[u] = until[u]
    BY <1>1, <1>3
  <2> QED BY <1>1, <1>3, <2>1, OverrunQuiet
<1>4. ASSUME NEW t \in Task, Begin(t) PROVE Overrun'
  <2>1. pc[t] # "sleep" /\ clock' = clock
    BY <1>4 DEF Begin, Idle
  <2>2. CASE WaitOrSend(t)
    BY <2>1, <2>2, OverrunWaits
  <2>3. CASE /\ pc' = [pc EXCEPT ![t] = "cooling"] \/ pc' = [pc EXCEPT ![t] = "broken"]
             /\ UNCHANGED <<until, sent>>
    BY <1>3, <2>1, <2>3 DEF Pcs, Idle
  <2> QED BY <1>4, <2>2, <2>3 DEF Begin
<1>5. ASSUME NEW t \in Task, WakeUp(t) PROVE Overrun'
  BY <1>5, OverrunWakes DEF WakeUp, Send
<1>6. ASSUME NEW t \in Task, Retry(t) PROVE Overrun'
  <2>1. pc[t] # "sleep" /\ clock' = clock /\ WaitOrSend(t)
    BY <1>6 DEF Retry
  <2> QED BY <2>1, OverrunWaits
<1>7. ASSUME NEW t \in Task, NEW failed \in BOOLEAN, Finish(t, failed), clock' = clock, sent' = sent
      PROVE  Overrun'
  <2>1. pc' = [pc EXCEPT ![t] = "idle"] /\ \A u \in Task \ {t} : until'[u] = until[u]
    BY <1>1, <1>7 DEF Finish
  <2> QED BY <1>3, <1>7, <2>1 DEF Pcs, Idle
<1>8. ASSUME NEW t \in Task, RetryOrGiveUp(t), clock' = clock, sent' = sent
      PROVE  Overrun'
  <2>1. CASE Finish(t, TRUE)
    BY <1>7, <1>8, <2>1
  <2>2. CASE /\ pc' = [pc EXCEPT ![t] = "backoff"]
             /\ until' = [until EXCEPT ![t] = clock + Backoff[tries[t]]]
    <3>1. \A u \in Task \ {t} : until'[u] = until[u]
      BY <1>1, <2>2
    <3> QED BY <1>3, <1>8, <2>2, <3>1 DEF Pcs, Idle
  <2> QED BY <1>8, <2>1, <2>2 DEF RetryOrGiveUp
<1>9. ASSUME NEW t \in Task, Succeed(t) \/ ClientError(t) PROVE Overrun'
  BY <1>7, <1>9 DEF Succeed, ClientError
<1>10. ASSUME NEW t \in Task, Broken(t) \/ Cancel(t) PROVE Overrun'
  BY <1>7, <1>10 DEF Broken, Cancel
<1>11. ASSUME NEW t \in Task, RateLimited(t) \/ Unavailable(t) PROVE Overrun'
  BY <1>8, <1>11 DEF RateLimited, Unavailable
<1>12. CASE UNCHANGED vars
  BY <1>1, <1>12, OverrunQuiet DEF vars
<1> QED BY <1>2, <1>4, <1>5, <1>6, <1>9, <1>10, <1>11, <1>12 DEF Next, Proceed

\* Callers that slept through the same wait overrun a limit together: for any
\* number of callers, windows and ticks, by at most one request for each of them
\* beyond the first.
THEOREM OverrunAlwaysBounded == Spec => []OverrunBounded
<1>1. TypeOK /\ Overrun => OverrunBounded
  <2> SUFFICES ASSUME TypeOK, Overrun, NEW l \in Spans
               PROVE  After(sent, clock - l.span) < l.quota + Cardinality(Task)
    BY DEF OverrunBounded, SentSince, After
  <2>1. sent \in Seq(Nat) /\ clock \in Nat /\ l.span \in Nat /\ l.quota \in Nat \ {0}
    BY SpansType DEF TypeOK
  <2>2. After(sent, clock - l.span) + Cardinality(Sleepers(clock)) < l.quota + Cardinality(Task)
    BY <2>1 DEF Overrun
  <2>3. Cardinality(Sleepers(clock)) \in Nat /\ Cardinality(Task) \in Nat
    BY SleepersCount
  <2>4. clock - l.span \in Int
    BY <2>1
  <2>5. After(sent, clock - l.span) \in Nat
    BY <2>1, <2>4, AfterType
  <2> QED BY <2>1, <2>2, <2>3, <2>5
<1>2. QED
  BY <1>1, HistoryStarts, HistoryStep, OverrunStarts, OverrunStep, TypeCorrect, PTL DEF Spec
=============================================================================
