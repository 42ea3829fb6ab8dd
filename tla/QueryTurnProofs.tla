-------------------------- MODULE QueryTurnProofs --------------------------
(***************************************************************************)
(* Proofs about QueryTurn, for any number of turns.  The lock makes a turn *)
(* the only one to record, to roll back and to save while it works; so a   *)
(* snapshot never holds what a turn that is still at work has written, and *)
(* rolling back cannot bring a failed turn's intent back.                  *)
(***************************************************************************)
EXTENDS QueryTurn, TLAPS

\* A turn that has not entered process_query has found nothing
Unbegun ==
  \A t \in Turn : pc[t] \in {"new", "waiting", "pro"} => outcome[t] = "none" /\ ~retried[t]

\* The turns that no snapshot holds, the conversation neither before they record
FirstRun(t) == pc[t] \in Working \union {"new", "waiting"} /\ ~retried[t]

Unseen ==
  \A t \in Turn : FirstRun(t) =>
    \A u \in Turn : prev[u].intent # t /\ prev[u].state # t

Unrecorded ==
  \A t \in Turn : FirstRun(t) /\ pc[t] \notin Fetching \union {"rescuing"} =>
    intent # t /\ state # t

FailureForgotten ==
  \A t \in Turn : outcome[t] = "failed" =>
    /\ prev[t].intent # None =>
         intent # t /\ \A u \in Turn : prev[u].intent # t
    /\ prev[t].state # None =>
         state # t /\ \A u \in Turn : prev[u].state # t

SnapshotsVerified ==
  staged => \A t, u \in Turn :
    prev[u].state = t => outcome[t] = "data" \/ retried[t]

TurnInv == TypeOK /\ TurnHoldsLock /\ Unbegun /\ Unseen /\ Unrecorded
RollbackInv == TurnInv /\ FailureForgotten
StagedInv == TurnInv /\ StagedStateVerified /\ SnapshotsVerified
-----------------------------------------------------------------------------
\* A step keeps every variable in its type, and the outcomes where they fit.
LEMMA TypeStep ==
  ASSUME TypeOK, Unbegun, [Next]_vars
  PROVE  TypeOK'
<1> USE TurnAssumption DEF Turn
<1>1. ASSUME NEW t \in Turn, Process(t)
      PROVE  TypeOK'
  <2> USE DEF TypeOK, OutcomesFit, Pcs, Outcomes, Working, Fetching, conversation, Says, Answer
  <2>1. CASE Unparsed(t)  BY <2>1 DEF Unparsed
  <2>2. CASE Inform(t)  BY <2>2 DEF Inform
  <2>3. CASE Record(t)
    <3>1. messages' \in Seq([turn : Turn, role : {"user", "assistant"}])
      BY <2>3 DEF Record
    <3>2. /\ prev' \in [Turn -> [intent : Turn \union {None}, state : Turn \union {None}]]
          /\ intent' \in Turn \union {None} /\ state' \in Turn \union {None}
      BY <2>3 DEF Record
    <3>3. ASSUME NEW p \in Fetching, pc' = [pc EXCEPT ![t] = p],
                 UNCHANGED <<staged, lock, outcome, retried, overdue>>
          PROVE  TypeOK'
      BY <2>3, <3>1, <3>2, <3>3 DEF Record
    <3>4. CASE Answer(t, "asked")
      BY <2>3, <3>1, <3>2, <3>4 DEF Record
    <3> QED  BY <2>3, <3>3, <3>4 DEF Record
  <2>4. CASE Fetched(t)  BY <2>4 DEF Fetched
  <2>5. CASE FetchedElsewhere(t)  BY <2>5 DEF FetchedElsewhere
  <2>6. CASE FetchFails(t)  BY <2>6 DEF FetchFails
  <2>7. CASE Rescued(t)  BY <2>7 DEF Rescued
  <2>8. CASE Ask(t)  BY <2>8 DEF Ask
  <2>9. CASE Refuse(t)  BY <2>9 DEF Refuse
  <2>10. CASE GiveUp(t)  BY <2>10 DEF GiveUp, RollBack
  <2>11. CASE Discard(t)  BY <2>11, ZenonT(40) DEF Discard
  <2>12. CASE AskEarly(t) \/ RescuedUnheard(t)  BY <2>12 DEF AskEarly, RescuedUnheard
  <2>13. CASE Unsupported(t)  BY <2>13 DEF Unsupported
  <2>14. CASE CollectiveAnswers(t)  BY <2>14 DEF CollectiveAnswers
  <2>15. CASE Choose(t)  BY <2>15 DEF Choose
  <2>16. CASE Chosen(t)
    <3>1. CASE Answer(t, "data") /\ intent' = t
               /\ messages' = Append(messages, Says(t, "assistant"))
      BY <2>16, <3>1 DEF Chosen
    <3>2. CASE Answer(t, "asked") /\ UNCHANGED <<intent, messages>>
      BY <2>16, <3>2 DEF Chosen
    <3> QED
      <4> HIDE DEF Answer, TypeOK, Says
      <4> QED  BY <2>16, <3>1, <3>2 DEF Chosen
  <2>17. CASE Code(t)  BY <2>17 DEF Code
  <2>18. CASE Coded(t)  BY <2>18 DEF Coded
  <2>19. CASE RecordDelta(t)  BY <2>19 DEF RecordDelta
  <2> QED  BY <1>1, <2>1, <2>2, <2>3, <2>4, <2>5, <2>6, <2>7, <2>8, <2>9, <2>10, <2>11,
          <2>12, <2>13, <2>14, <2>15, <2>16, <2>17, <2>18, <2>19 DEF Process
<1>2. ASSUME NEW t \in Turn, Serve(t)
      PROVE  TypeOK'
  <2> USE DEF TypeOK, OutcomesFit, Pcs, Outcomes, Working, Fetching, conversation, Says
  <2>1. CASE Arrive(t)  BY <2>1 DEF Arrive
  <2>2. CASE Acquire(t)  BY <2>2 DEF Acquire, Unbegun
  <2>3. CASE Deliver(t)  BY <2>3 DEF Deliver
  <2>4. CASE Deadline(t)  BY <2>4 DEF Deadline
  <2>5. CASE StreamTimeout(t)  BY <2>5 DEF StreamTimeout
  <2>6. CASE Disconnect(t)  BY <2>6 DEF Disconnect
  <2>7. CASE ProStart(t)  BY <2>7 DEF ProStart
  <2>8. CASE ProEnd(t)
    <3> DEFINE M == [turn : Turn, role : {"user", "assistant"}]
    <3>a. Says(t, "assistant") \in M /\ messages \in Seq(M)
      OBVIOUS
    <3>b. messages' = messages \/ messages' = Append(messages, Says(t, "assistant"))
      BY <2>8 DEF ProEnd
    <3>1. messages' \in Seq(M)
      <4> HIDE DEF M, Says
      <4> QED  BY <3>a, <3>b, SMTT(20)
    <3> QED  BY <2>8, <3>1 DEF ProEnd
  <2> QED  BY <1>2, <2>1, <2>2, <2>3, <2>4, <2>5, <2>6, <2>7, <2>8 DEF Serve
<1>3. CASE UNCHANGED vars
  BY <1>3 DEF TypeOK, OutcomesFit, vars, conversation
<1> QED  BY <1>1, <1>2, <1>3 DEF Next

\* Only the holder of the lock moves on, and only a free lock is taken.
LEMMA LockStep ==
  ASSUME TypeOK, TurnHoldsLock, [Next]_vars
  PROVE  TurnHoldsLock'
<1> USE TurnAssumption DEF TypeOK, TurnHoldsLock, Working, Fetching, Turn
<1>1. ASSUME NEW t \in Turn, Process(t)
      PROVE  TurnHoldsLock'
  BY <1>1 DEF Process, Answer, Unparsed, Inform, Record, Fetched, FetchedElsewhere,
              FetchFails, Rescued, Ask, Refuse, GiveUp, Discard, AskEarly, RescuedUnheard, Unsupported,
              CollectiveAnswers, Choose, Chosen, Code, Coded, RecordDelta
<1>2. ASSUME NEW t \in Turn, Serve(t)
      PROVE  TurnHoldsLock'
  BY <1>2 DEF Serve, Arrive, Acquire, Deliver, Deadline, StreamTimeout, Disconnect,
              ProStart, ProEnd
<1>3. CASE UNCHANGED vars
  BY <1>3 DEF vars
<1> QED  BY <1>1, <1>2, <1>3 DEF Next

\* Nothing is found outside process_query.
LEMMA UnbegunStep ==
  ASSUME TypeOK, Unbegun, [Next]_vars
  PROVE  Unbegun'
<1> USE DEF TypeOK, Unbegun, Working, Fetching
<1>1. ASSUME NEW t \in Turn, Process(t)
      PROVE  Unbegun'
  BY <1>1 DEF Process, Answer, Unparsed, Inform, Record, Fetched, FetchedElsewhere,
              FetchFails, Rescued, Ask, Refuse, GiveUp, Discard, AskEarly, RescuedUnheard, Unsupported,
              CollectiveAnswers, Choose, Chosen, Code, Coded, RecordDelta
<1>2. ASSUME NEW t \in Turn, Serve(t)
      PROVE  Unbegun'
  BY <1>2 DEF Serve, Arrive, Acquire, Deliver, Deadline, StreamTimeout, Disconnect,
              ProStart, ProEnd
<1>3. CASE UNCHANGED vars
  BY <1>3 DEF vars
<1> QED  BY <1>1, <1>2, <1>3 DEF Next

\* While a turn is on its first run no snapshot and, until it records, neither
\* the intent nor the state is its own: the others record and roll back in their
\* own turns only.
LEMMA UnseenStep ==
  ASSUME TurnInv, [Next]_vars
  PROVE  Unseen' /\ Unrecorded'
<1> USE TurnAssumption DEF TypeOK, TurnHoldsLock, Unbegun, Unseen, Unrecorded, FirstRun,
                            Working, Fetching, conversation, TurnInv
<1>1. ASSUME NEW t \in Turn, Process(t)
      PROVE  Unseen' /\ Unrecorded'
  <2>1. CASE Unparsed(t)  BY <2>1 DEF Unparsed, Answer
  <2>2. CASE Inform(t)  BY <2>2 DEF Inform, Answer
  <2>3. CASE Record(t)
    <3>1. /\ prev' = [prev EXCEPT ![t] = [intent |-> intent, state |-> state]]
          /\ pc[t] = "parsing" /\ intent' = t /\ state' \in {state, t}
      BY <2>3 DEF Record
    <3>2. /\ \A u \in Turn \ {t} : pc'[u] = pc[u] /\ retried'[u] = retried[u]
          /\ pc'[t] \in {"fetching", "resolving", "answered"} /\ retried'[t] = retried[t]
      BY <2>3 DEF Record, Answer
    <3> QED  BY <3>1, <3>2
  <2>4. CASE Fetched(t)  BY <2>4 DEF Fetched, Answer
  <2>5. CASE FetchedElsewhere(t)  BY <2>5 DEF FetchedElsewhere, Answer
  <2>6. CASE FetchFails(t)  BY <2>6 DEF FetchFails
  <2>7. CASE Rescued(t)  BY <2>7 DEF Rescued, Answer
  <2>8. CASE Ask(t)  BY <2>8 DEF Ask, Answer
  <2>9. CASE Refuse(t)  BY <2>9 DEF Refuse, Answer
  <2>10. CASE GiveUp(t)  BY <2>10 DEF GiveUp, RollBack, Answer
  <2>11. CASE Discard(t)  BY <2>11 DEF Discard
  <2>12. CASE AskEarly(t) \/ RescuedUnheard(t)  BY <2>12 DEF AskEarly, RescuedUnheard, Answer
  <2>13. CASE Unsupported(t)  BY <2>13 DEF Unsupported, Answer
  <2>14. CASE CollectiveAnswers(t)  BY <2>14 DEF CollectiveAnswers, Answer
  <2>15. CASE Choose(t)  BY <2>15 DEF Choose
  <2>16. CASE Chosen(t)  BY <2>16 DEF Chosen, Answer
  <2>17. CASE Code(t)  BY <2>17 DEF Code
  <2>18. CASE Coded(t)  BY <2>18 DEF Coded, Answer
  <2>19. CASE RecordDelta(t)  BY <2>19 DEF RecordDelta
  <2> QED  BY <1>1, <2>1, <2>2, <2>3, <2>4, <2>5, <2>6, <2>7, <2>8, <2>9, <2>10, <2>11,
          <2>12, <2>13, <2>14, <2>15, <2>16, <2>17, <2>18, <2>19 DEF Process
<1>2. ASSUME NEW t \in Turn, Serve(t)
      PROVE  Unseen' /\ Unrecorded'
  <2>1. CASE Arrive(t)  BY <2>1 DEF Arrive
  <2>2. CASE Acquire(t)  BY <2>2 DEF Acquire
  <2>3. CASE Deliver(t)  BY <2>3 DEF Deliver
  <2>4. CASE Deadline(t)  BY <2>4 DEF Deadline
  <2>5. CASE StreamTimeout(t)  BY <2>5 DEF StreamTimeout
  <2>6. CASE Disconnect(t)  BY <2>6 DEF Disconnect
  <2>7. CASE ProStart(t)  BY <2>7 DEF ProStart
  <2>8. CASE ProEnd(t)  BY <2>8 DEF ProEnd
  <2> QED  BY <1>2, <2>1, <2>2, <2>3, <2>4, <2>5, <2>6, <2>7, <2>8 DEF Serve
<1>3. CASE UNCHANGED vars
  BY <1>3 DEF vars
<1> QED  BY <1>1, <1>2, <1>3 DEF Next

\* The parts of TurnInv together.
LEMMA TurnInvHolds == Spec => []TurnInv
<1>1. Init => TurnInv
  BY TurnAssumption DEF Init, TurnInv, TypeOK, OutcomesFit, Pcs, Outcomes, Working, Fetching, TurnHoldsLock,
                        Unbegun, Unseen, Unrecorded, FirstRun
<1>2. TurnInv /\ [Next]_vars => TurnInv'
  <2> SUFFICES ASSUME TurnInv, [Next]_vars
               PROVE  TurnInv'
    OBVIOUS
  <2>1. TypeOK'  BY TypeStep DEF TurnInv
  <2>2. TurnHoldsLock'  BY LockStep DEF TurnInv
  <2>3. Unbegun'  BY UnbegunStep DEF TurnInv
  <2>4. Unseen' /\ Unrecorded'  BY UnseenStep
  <2> QED  BY <2>1, <2>2, <2>3, <2>4 DEF TurnInv
<1> QED  BY <1>1, <1>2, PTL DEF Spec

\* Every reachable state is well typed, and a rerun keeps its first refusal unless
\* it finds data (QueryTurn's OutcomesFit).
THEOREM TypeCorrect == Spec => []TypeOK
<1>1. TurnInv => TypeOK  BY DEF TurnInv
<1> QED  BY <1>1, TurnInvHolds, PTL

\* The turns of a conversation are serialized: whoever works on it, or has still to
\* save its answer, holds the lock of main.py:93-133.
THEOREM LockCoversTurns == Spec => []TurnHoldsLock
<1>1. TurnInv => TurnHoldsLock  BY DEF TurnInv
<1> QED  BY <1>1, TurnInvHolds, PTL
-----------------------------------------------------------------------------
\* No step brings back what a failed turn has written.
LEMMA FailureStep ==
  ASSUME RollbackInv, [Next]_vars
  PROVE  FailureForgotten'
<1> USE TurnAssumption DEF TypeOK, OutcomesFit, TurnHoldsLock, Unbegun, Unseen, Unrecorded,
                            FirstRun, Working, Fetching, conversation, TurnInv, RollbackInv, FailureForgotten
<1>1. ASSUME NEW t \in Turn, Process(t)
      PROVE  FailureForgotten'
  <2>1. CASE Unparsed(t)  BY <2>1 DEF Unparsed, Answer
  <2>2. CASE Inform(t)  BY <2>2 DEF Inform, Answer
  <2>3. CASE Record(t)  BY <2>3 DEF Record, Answer
  <2>4. CASE Fetched(t)  BY <2>4 DEF Fetched, Answer
  <2>5. CASE FetchedElsewhere(t)  BY <2>5 DEF FetchedElsewhere, Answer
  <2>6. CASE FetchFails(t)  BY <2>6 DEF FetchFails
  <2>7. CASE Rescued(t)  BY <2>7 DEF Rescued, Answer
  <2>8. CASE Ask(t)  BY <2>8 DEF Ask, Answer
  <2>9. CASE Refuse(t)  BY <2>9 DEF Refuse, Answer
  <2>10. CASE GiveUp(t)  BY <2>10 DEF GiveUp, RollBack, Answer
  <2>11. CASE Discard(t)  BY <2>11 DEF Discard
  <2>12. CASE AskEarly(t) \/ RescuedUnheard(t)  BY <2>12 DEF AskEarly, RescuedUnheard, Answer
  <2>13. CASE Unsupported(t)  BY <2>13 DEF Unsupported, Answer
  <2>14. CASE CollectiveAnswers(t)  BY <2>14 DEF CollectiveAnswers, Answer
  <2>15. CASE Choose(t)  BY <2>15 DEF Choose
  <2>16. CASE Chosen(t)  BY <2>16 DEF Chosen, Answer
  <2>17. CASE Code(t)  BY <2>17 DEF Code
  <2>18. CASE Coded(t)  BY <2>18 DEF Coded, Answer
  <2>19. CASE RecordDelta(t)  BY <2>19 DEF RecordDelta
  <2> QED  BY <1>1, <2>1, <2>2, <2>3, <2>4, <2>5, <2>6, <2>7, <2>8, <2>9, <2>10, <2>11,
          <2>12, <2>13, <2>14, <2>15, <2>16, <2>17, <2>18, <2>19 DEF Process
<1>2. ASSUME NEW t \in Turn, Serve(t)
      PROVE  FailureForgotten'
  BY <1>2 DEF Serve, Arrive, Acquire, Deliver, Deadline, StreamTimeout, Disconnect,
              ProStart, ProEnd
<1>3. CASE UNCHANGED vars
  BY <1>3 DEF vars
<1> QED  BY <1>1, <1>2, <1>3 DEF Next

\* A failed turn leaves the last good intent and state if there were any
\* (query.py:5637-5641), however the turns of the conversation follow each other.
THEOREM FailuresStayRolledBack == Spec => []FailureRolledBack
<1>1. Init => FailureForgotten
  BY DEF Init, FailureForgotten
<1>2. RollbackInv /\ [Next]_vars => FailureForgotten'
  BY FailureStep
<1>3. TurnInv /\ FailureForgotten => RollbackInv
  BY DEF RollbackInv
<1>4. FailureForgotten => FailureRolledBack
  BY DEF FailureForgotten, FailureRolledBack
<1> QED  BY <1>1, <1>2, <1>3, <1>4, TurnInvHolds, PTL DEF Spec
-----------------------------------------------------------------------------
\* With staged commits a turn's state enters the conversation, and so a snapshot,
\* only with its data.
LEMMA StagedStep ==
  ASSUME StagedInv, [Next]_vars
  PROVE  StagedStateVerified' /\ SnapshotsVerified'
<1> USE TurnAssumption DEF TypeOK, OutcomesFit, Unbegun, Working, Fetching, conversation, TurnInv, StagedInv,
                            StagedStateVerified, SnapshotsVerified
<1>1. ASSUME NEW t \in Turn, Process(t)
      PROVE  StagedStateVerified' /\ SnapshotsVerified'
  <2>1. CASE Unparsed(t)  BY <2>1 DEF Unparsed, Answer
  <2>2. CASE Inform(t)  BY <2>2 DEF Inform, Answer
  <2>3. CASE Record(t)  BY <2>3 DEF Record, Answer
  <2>4. CASE Fetched(t)  BY <2>4 DEF Fetched, Answer
  <2>5. CASE FetchedElsewhere(t)  BY <2>5 DEF FetchedElsewhere, Answer
  <2>6. CASE FetchFails(t)  BY <2>6 DEF FetchFails
  <2>7. CASE Rescued(t)  BY <2>7 DEF Rescued, Answer
  <2>8. CASE Ask(t)  BY <2>8 DEF Ask, Answer
  <2>9. CASE Refuse(t)  BY <2>9 DEF Refuse, Answer
  <2>10. CASE GiveUp(t)  BY <2>10 DEF GiveUp, RollBack, Answer
  <2>11. CASE Discard(t)  BY <2>11 DEF Discard
  <2>12. CASE AskEarly(t) \/ RescuedUnheard(t)  BY <2>12 DEF AskEarly, RescuedUnheard, Answer
  <2>13. CASE Unsupported(t)  BY <2>13 DEF Unsupported, Answer
  <2>14. CASE CollectiveAnswers(t)  BY <2>14 DEF CollectiveAnswers, Answer
  <2>15. CASE Choose(t)  BY <2>15 DEF Choose
  <2>16. CASE Chosen(t)  BY <2>16 DEF Chosen, Answer
  <2>17. CASE Code(t)  BY <2>17 DEF Code
  <2>18. CASE Coded(t)  BY <2>18 DEF Coded, Answer
  <2>19. CASE RecordDelta(t)  BY <2>19 DEF RecordDelta
  <2> QED  BY <1>1, <2>1, <2>2, <2>3, <2>4, <2>5, <2>6, <2>7, <2>8, <2>9, <2>10, <2>11,
          <2>12, <2>13, <2>14, <2>15, <2>16, <2>17, <2>18, <2>19 DEF Process
<1>2. ASSUME NEW t \in Turn, Serve(t)
      PROVE  StagedStateVerified' /\ SnapshotsVerified'
  BY <1>2 DEF Serve, Arrive, Acquire, Deliver, Deadline, StreamTimeout, Disconnect,
              ProStart, ProEnd
<1>3. CASE UNCHANGED vars
  BY <1>3 DEF vars
<1> QED  BY <1>1, <1>2, <1>3 DEF Next

\* With use_staged_state_commit the conversation's state always comes from an answer
\* that was verified (config.py:133).
THEOREM StagedStateAlwaysVerified == Spec => []StagedStateVerified
<1>1. Init => StagedStateVerified /\ SnapshotsVerified
  BY TurnAssumption DEF Init, StagedStateVerified, SnapshotsVerified
<1>2. StagedInv /\ [Next]_vars => (StagedStateVerified /\ SnapshotsVerified)'
  BY StagedStep
<1>3. TurnInv /\ StagedStateVerified /\ SnapshotsVerified => StagedInv
  BY DEF StagedInv
<1> QED  BY <1>1, <1>2, <1>3, TurnInvHolds, PTL DEF Spec
-----------------------------------------------------------------------------
\* Who has written holds the lock, or is done; after the holder's first message only
\* Pro turns write beside it
Written(i) == messages[i].turn

MessagesKept ==
  /\ \A t \in Turn : pc[t] = "pro" => t \in Pro
  /\ \A i \in DOMAIN messages : Written(i) \notin Pro => pc[Written(i)] \notin {"new", "waiting"}
  /\ \A i \in DOMAIN messages : Written(i) = lock /\ lock \notin Pro =>
       \A j \in DOMAIN messages : i <= j => Written(j) \in Pro \union {lock}
  /\ TurnsUnmixed

UnmixedInv == TurnInv /\ MessagesKept

\* Turn t writes at the end of the messages, if it writes at all
Writes(t) ==
  /\ Len(messages) <= Len(messages')
  /\ \A i \in 1..Len(messages) : messages'[i] = messages[i]
  /\ \A i \in (Len(messages) + 1)..Len(messages') : messages'[i].turn = t

\* Every message is of a turn.
LEMMA SaidByTurns ==
  ASSUME NEW s \in Seq([turn : Turn, role : {"user", "assistant"}]), NEW i \in DOMAIN s
  PROVE  s[i].turn \in Turn
<1> DEFINE M == [turn : Turn, role : {"user", "assistant"}]
<1>1. s \in Seq(M)
  OBVIOUS
<1> HIDE DEF M
<1>2. s[i] \in M
  BY <1>1
<1> QED BY <1>2 DEF M

\* What a turn appends is its own.
LEMMA AppendsItsOwn ==
  ASSUME TypeOK, NEW t \in Turn,
         \/ messages' = messages
         \/ \E role \in {"user", "assistant"} : messages' = Append(messages, Says(t, role))
         \/ messages' = messages \o <<Says(t, "user"), Says(t, "assistant")>>
  PROVE  Writes(t) /\ messages' \in Seq([turn : Turn, role : {"user", "assistant"}])
<1> DEFINE M == [turn : Turn, role : {"user", "assistant"}]
<1>1. messages \in Seq(M) /\ Len(messages) \in Nat
  BY DEF TypeOK
<1>2. \A role \in {"user", "assistant"} : Says(t, role) \in M /\ Says(t, role).turn = t
  BY DEF Says
<1> SUFFICES Writes(t) /\ messages' \in Seq(M)
  OBVIOUS
<1> HIDE DEF M
<1>3. CASE messages' = messages
  <2>1. Len(messages') = Len(messages) /\ \A i \in (Len(messages) + 1)..Len(messages) : FALSE
    BY <1>1, <1>3
  <2> QED BY <1>1, <1>3, <2>1 DEF Writes
<1>4. ASSUME NEW role \in {"user", "assistant"}, messages' = Append(messages, Says(t, role))
      PROVE  Writes(t) /\ messages' \in Seq(M)
  <2> DEFINE m == Says(t, role)
  <2>1. m \in M /\ m.turn = t /\ messages' = Append(messages, m)
    BY <1>2, <1>4
  <2> HIDE DEF m
  <2>2. /\ messages' \in Seq(M) /\ Len(messages') = Len(messages) + 1
        /\ messages'[Len(messages) + 1] = m
        /\ \A i \in 1..Len(messages) : messages'[i] = messages[i]
    BY <1>1, <2>1
  <2> QED BY <1>1, <2>1, <2>2 DEF Writes
<1>5. CASE messages' = messages \o <<Says(t, "user"), Says(t, "assistant")>>
  <2> DEFINE m == Says(t, "user")
             n == Says(t, "assistant")
  <2>1. m \in M /\ m.turn = t /\ n \in M /\ n.turn = t /\ messages' = messages \o <<m, n>>
    BY <1>2, <1>5
  <2> HIDE DEF m, n
  <2>2. <<m, n>> \in Seq(M) /\ Len(<<m, n>>) = 2
    BY <2>1
  <2>3. /\ messages' \in Seq(M) /\ Len(messages') = Len(messages) + 2
        /\ messages'[Len(messages) + 1] = m /\ messages'[Len(messages) + 2] = n
        /\ \A i \in 1..Len(messages) : messages'[i] = messages[i]
    BY <1>1, <2>1, <2>2
  <2>4. \A i \in (Len(messages) + 1)..Len(messages') : i = Len(messages) + 1 \/ i = Len(messages) + 2
    BY <1>1, <2>3
  <2>5. \A i \in (Len(messages) + 1)..Len(messages') : messages'[i].turn = t
    BY <2>1, <2>3, <2>4
  <2> QED BY <1>1, <2>3, <2>5 DEF Writes
<1> QED BY <1>3, <1>4, <1>5 DEF M

\* A turn that may write mixes with none: it is a Pro turn, or it holds the lock.
LEMMA WritesUnmixed ==
  ASSUME UnmixedInv, NEW t \in Turn, Writes(t),
         messages' \in Seq([turn : Turn, role : {"user", "assistant"}]),
         t \in Pro \/ lock = t,
         lock' = lock \/ lock' = None,
         \A u \in Turn \ {t} : pc'[u] = pc[u],
         t \notin Pro => pc'[t] \notin {"new", "waiting"},
         pc'[t] = "pro" => t \in Pro
  PROVE  MessagesKept'
<1>1. Len(messages) \in Nat /\ Len(messages') \in Nat /\ Len(messages) <= Len(messages')
      /\ DOMAIN messages = 1..Len(messages) /\ DOMAIN messages' = 1..Len(messages')
  BY DEF UnmixedInv, TurnInv, TypeOK, Writes
<1> DEFINE old(i) == messages[i].turn
           new(i) == messages'[i].turn
<1>2. \A i \in DOMAIN messages' :
        \/ i \in DOMAIN messages /\ new(i) = old(i)
        \/ i \notin DOMAIN messages /\ new(i) = t /\ \A j \in DOMAIN messages : j < i
  BY <1>1 DEF Writes
<1>3. /\ \A i \in DOMAIN messages : old(i) \in Turn
      /\ \A i \in DOMAIN messages' : new(i) \in Turn
  BY SaidByTurns DEF UnmixedInv, TurnInv, TypeOK
<1>4. /\ \A i \in DOMAIN messages : old(i) \notin Pro => pc[old(i)] \notin {"new", "waiting"}
      /\ \A i \in DOMAIN messages : old(i) = lock /\ lock \notin Pro =>
           \A j \in DOMAIN messages : i <= j => old(j) \in Pro \union {lock}
      /\ \A i, k \in DOMAIN messages : old(i) = old(k) /\ old(i) \notin Pro =>
           \A j \in i..k : old(j) \in Pro \union {old(i)}
  BY DEF UnmixedInv, MessagesKept, TurnsUnmixed, Written
<1>5. \A u \in Turn : pc'[u] = "pro" => u \in Pro
  BY DEF UnmixedInv, MessagesKept
<1>6. \A i, j, k \in DOMAIN messages' : j \in DOMAIN messages' /\ i <= j /\ j <= k /\ k \in DOMAIN messages =>
        i \in DOMAIN messages /\ j \in DOMAIN messages
  BY <1>1
<1> HIDE DEF old, new
<1>7. \A i \in DOMAIN messages' : new(i) \notin Pro => pc'[new(i)] \notin {"new", "waiting"}
  BY <1>2, <1>3, <1>4
<1>8. ASSUME NEW i \in DOMAIN messages', new(i) = lock', lock' \notin Pro,
             NEW j \in DOMAIN messages', i <= j
      PROVE  new(j) \in Pro \union {lock'}
  <2>1. lock' = lock /\ lock \in Turn
    BY <1>3, <1>8, TurnAssumption DEF Turn
  <2>2. CASE j \notin DOMAIN messages
    BY <1>2, <1>8, <2>1, <2>2
  <2>3. CASE j \in DOMAIN messages
    BY <1>2, <1>4, <1>6, <1>8, <2>1, <2>3
  <2> QED BY <2>2, <2>3
<1>9. ASSUME NEW i \in DOMAIN messages', NEW k \in DOMAIN messages',
             new(i) = new(k), new(i) \notin Pro, NEW j \in i..k
      PROVE  new(j) \in Pro \union {new(i)}
  <2>1. j \in DOMAIN messages' /\ i <= j /\ j <= k
    BY <1>1
  <2>2. CASE k \in DOMAIN messages
    <3>1. i \in DOMAIN messages /\ j \in DOMAIN messages
      BY <1>6, <2>1, <2>2
    <3>2. new(i) = old(i) /\ new(j) = old(j) /\ new(k) = old(k)
      BY <1>2, <2>2, <3>1
    <3> QED BY <1>4, <1>9, <2>2, <3>1, <3>2
  <2>3. CASE k \notin DOMAIN messages
    <3>1. new(k) = t /\ new(i) = t /\ lock = t
      BY <1>2, <1>9, <2>3
    <3>2. CASE j \in DOMAIN messages
      <4>1. i \in DOMAIN messages
        BY <1>6, <2>1, <3>2
      <4> QED BY <1>2, <1>4, <1>9, <2>1, <3>1, <3>2, <4>1
    <3>3. CASE j \notin DOMAIN messages
      BY <1>2, <2>1, <3>1, <3>3
    <3> QED BY <3>2, <3>3
  <2> QED BY <2>2, <2>3
<1> QED BY <1>5, <1>7, <1>8, <1>9 DEF MessagesKept, TurnsUnmixed, Written, old, new

\* What Process(t) appends, if anything, is t's, and it goes on.
LEMMA ProcessWrites ==
  ASSUME UnmixedInv, NEW t \in Turn, Process(t)
  PROVE  /\ \/ messages' = messages
            \/ \E role \in {"user", "assistant"} : messages' = Append(messages, Says(t, role))
            \/ messages' = messages \o <<Says(t, "user"), Says(t, "assistant")>>
         /\ pc[t] \in Working \union {"answered"} /\ lock' = lock
         /\ \A u \in Turn \ {t} : pc'[u] = pc[u]
         /\ pc'[t] \in Working \union {"answered"}
<1> USE DEF UnmixedInv, TurnInv, TypeOK, Working, Fetching, Answer, conversation
<1>1. CASE Unparsed(t)  BY <1>1 DEF Unparsed
<1>2. CASE Inform(t)  BY <1>2 DEF Inform
<1>3. CASE Record(t)  BY <1>3 DEF Record
<1>4. CASE Fetched(t)  BY <1>4 DEF Fetched
<1>5. CASE FetchedElsewhere(t)  BY <1>5 DEF FetchedElsewhere
<1>6. CASE FetchFails(t)  BY <1>6 DEF FetchFails
<1>7. CASE Rescued(t)  BY <1>7 DEF Rescued
<1>8. CASE Ask(t)  BY <1>8 DEF Ask
<1>9. CASE Refuse(t)  BY <1>9 DEF Refuse
<1>10. CASE GiveUp(t)  BY <1>10 DEF GiveUp
<1>11. CASE Discard(t)  BY <1>11 DEF Discard
<1>12. CASE AskEarly(t) \/ RescuedUnheard(t)  BY <1>12 DEF AskEarly, RescuedUnheard
<1>13. CASE Unsupported(t)  BY <1>13 DEF Unsupported
<1>14. CASE CollectiveAnswers(t)  BY <1>14 DEF CollectiveAnswers
<1>15. CASE Choose(t)  BY <1>15 DEF Choose
<1>16. CASE Chosen(t)  BY <1>16 DEF Chosen
<1>17. CASE Code(t)  BY <1>17 DEF Code
<1>18. CASE Coded(t)  BY <1>18 DEF Coded
<1>19. CASE RecordDelta(t)  BY <1>19 DEF RecordDelta
<1> HIDE DEF UnmixedInv, Answer
<1> QED  BY <1>1, <1>2, <1>3, <1>4, <1>5, <1>6, <1>7, <1>8, <1>9, <1>10, <1>11,
          <1>12, <1>13, <1>14, <1>15, <1>16, <1>17, <1>18, <1>19 DEF Process

\* Where nothing is written, the lock is only taken by a turn that has written nothing.
LEMMA ServeUnmixed ==
  ASSUME UnmixedInv, NEW t \in Turn, Serve(t)
  PROVE  MessagesKept'
<1>1. CASE ProStart(t)
  <2>1. /\ t \in Pro /\ lock' = lock /\ pc' = [pc EXCEPT ![t] = "pro"]
        /\ messages' = Append(messages, Says(t, "user"))
    BY <1>1 DEF ProStart
  <2> QED BY <2>1, AppendsItsOwn, WritesUnmixed DEF UnmixedInv, TurnInv, TypeOK
<1>2. CASE ProEnd(t)
  <2>1. /\ t \in Pro /\ lock' = lock /\ pc' = [pc EXCEPT ![t] = "ended"]
        /\ messages' = messages \/ messages' = Append(messages, Says(t, "assistant"))
    BY <1>2 DEF ProEnd, UnmixedInv, MessagesKept
  <2> QED BY <2>1, AppendsItsOwn, WritesUnmixed DEF UnmixedInv, TurnInv, TypeOK
<1>3. CASE Deliver(t) \/ Deadline(t) \/ StreamTimeout(t)
  <2>1. /\ messages' = messages /\ lock = t /\ lock' \in {lock, None}
        /\ pc' = pc \/ pc' = [pc EXCEPT ![t] = "ended"]
    BY <1>3 DEF Deliver, Deadline, StreamTimeout, UnmixedInv, TurnInv, TypeOK, TurnHoldsLock, conversation
  <2>2. pc[t] \in Working \union {"answered"}
    BY <2>1 DEF UnmixedInv, TurnInv, TurnHoldsLock
  <2>3. /\ \A u \in Turn \ {t} : pc'[u] = pc[u]
        /\ pc'[t] \notin {"new", "waiting"} /\ (pc'[t] = "pro" => t \in Pro)
    BY <2>1, <2>2 DEF UnmixedInv, TurnInv, TypeOK, MessagesKept, Working, Fetching
  <2> QED BY <2>1, <2>3, AppendsItsOwn, WritesUnmixed DEF UnmixedInv, TurnInv
<1>4. CASE Arrive(t) \/ Acquire(t) \/ Disconnect(t)
  <2>1. /\ messages' = messages /\ \A u \in Turn \ {t} : pc'[u] = pc[u]
        /\ pc'[t] \in {"waiting", "parsing", "gone"}
        /\ pc'[t] = "waiting" => pc[t] = "new"
        /\ \/ lock' \in {lock, None}
           \/ lock' = t /\ pc[t] = "waiting"
    BY <1>4 DEF Arrive, Acquire, Disconnect, UnmixedInv, TurnInv, TypeOK, conversation
  <2>2. \A i \in DOMAIN messages : Written(i) \in Turn
    BY SaidByTurns DEF UnmixedInv, TurnInv, TypeOK, Written
  <2>3. \A i \in DOMAIN messages : Written(i) \notin Pro => pc'[Written(i)] \notin {"new", "waiting"}
    BY <2>1, <2>2 DEF UnmixedInv, MessagesKept
  <2>4. \A i \in DOMAIN messages : Written(i) = lock' /\ lock' \notin Pro => lock' = lock
    BY <2>1, <2>2, TurnAssumption DEF UnmixedInv, MessagesKept
  <2>5. \A u \in Turn : pc'[u] = "pro" => u \in Pro
    BY <2>1 DEF UnmixedInv, MessagesKept
  <2> QED BY <2>1, <2>3, <2>4, <2>5 DEF UnmixedInv, MessagesKept, TurnsUnmixed, Written
<1> QED BY <1>1, <1>2, <1>3, <1>4 DEF Serve

\* What the conversation's messages say of its turns holds throughout.
LEMMA MessagesKeptHolds == Spec => []UnmixedInv
<1>1. Init => MessagesKept
  BY DEF Init, MessagesKept, TurnsUnmixed
<1>2. UnmixedInv /\ [Next]_vars => MessagesKept'
  <2> SUFFICES ASSUME UnmixedInv, [Next]_vars PROVE MessagesKept'
    OBVIOUS
  <2>1. ASSUME NEW t \in Turn, Process(t) PROVE MessagesKept'
    <3>1. lock = t /\ pc'[t] \notin {"new", "waiting", "pro"}
      BY <2>1, ProcessWrites DEF UnmixedInv, TurnInv, TurnHoldsLock, Working, Fetching
    <3>2. Writes(t) /\ messages' \in Seq([turn : Turn, role : {"user", "assistant"}])
      BY <2>1, ProcessWrites, AppendsItsOwn DEF UnmixedInv, TurnInv
    <3> QED BY <2>1, <3>1, <3>2, ProcessWrites, WritesUnmixed
  <2>2. ASSUME NEW t \in Turn, Serve(t) PROVE MessagesKept'
    BY <2>2, ServeUnmixed
  <2>3. CASE UNCHANGED vars
    BY <2>3 DEF vars, conversation, UnmixedInv, MessagesKept, TurnsUnmixed, Written
  <2> QED BY <2>1, <2>2, <2>3 DEF Next
<1>3. TurnInv /\ MessagesKept <=> UnmixedInv
  BY DEF UnmixedInv
<1> QED BY <1>1, <1>2, <1>3, TurnInvHolds, PTL DEF Spec

\* main.py:95-98: whatever the turns and their order, the messages of a turn under the
\* lock stand together, but for those of Pro turns.
THEOREM TurnsNeverMix == Spec => []TurnsUnmixed
<1>1. UnmixedInv => TurnsUnmixed
  BY DEF UnmixedInv, MessagesKept
<1> QED BY <1>1, MessagesKeptHolds, PTL
-----------------------------------------------------------------------------
\* A turn that fetches is the one the conversation is about; one that parses, or has
\* data, is so if the conversation has heard of it
IntentIsCurrent ==
  \A t \in Turn :
    /\ pc[t] \in Fetching \union {"rescuing"} => intent = t
    /\ pc[t] = "parsing" \/ (pc[t] = "answered" /\ outcome[t] = "data") =>
         (Heard(t) => intent = t)
    /\ pc[t] = "waiting" => t \notin Pro

IntentInv == UnmixedInv /\ IntentIsCurrent

\* A turn speaks only for itself.
LEMMA HeardOfItself ==
  ASSUME TypeOK, NEW t \in Turn, Writes(t), messages' \in Seq([turn : Turn, role : {"user", "assistant"}]),
         NEW u \in Turn, u # t, Heard(u)'
  PROVE  Heard(u)
<1>1. /\ Len(messages) \in Nat /\ Len(messages') \in Nat
      /\ DOMAIN messages = 1..Len(messages) /\ DOMAIN messages' = 1..Len(messages')
  BY DEF TypeOK
<1>2. PICK i \in DOMAIN messages' : messages'[i].turn = u
  BY DEF Heard
<1>3. i \in 1..Len(messages)
  BY <1>1, <1>2 DEF Writes
<1> QED  BY <1>1, <1>2, <1>3 DEF Writes, Heard

\* Only the holder of the lock changes the intent, and every step of its that is heard
\* of, and goes on or finds data, leaves the intent its own.
LEMMA IntentStep ==
  ASSUME IntentInv, [Next]_vars
  PROVE  IntentIsCurrent'
<1> USE TurnAssumption
<1>1. ASSUME NEW t \in Turn, Process(t)
      PROVE  IntentIsCurrent'
  <2>1. /\ Writes(t) /\ messages' \in Seq([turn : Turn, role : {"user", "assistant"}])
        /\ lock = t /\ \A u \in Turn \ {t} : pc'[u] = pc[u]
    BY <1>1, ProcessWrites, AppendsItsOwn DEF IntentInv, UnmixedInv, TurnInv, TurnHoldsLock
  <2>2. ASSUME NEW u \in Turn, u # t
        PROVE  pc'[u] \notin Working \union {"answered"}
    BY <2>1, <2>2 DEF IntentInv, UnmixedInv, TurnInv, TurnHoldsLock
  <2>3. /\ pc'[t] \in Fetching \union {"rescuing"} => intent' = t
        /\ pc'[t] = "parsing" \/ (pc'[t] = "answered" /\ outcome'[t] = "data") =>
             (Heard(t)' => intent' = t)
    <3> USE DEF IntentInv, UnmixedInv, TurnInv, TypeOK, OutcomesFit, Working, Fetching,
                conversation, IntentIsCurrent
    <3>1. CASE Unparsed(t) \/ AskEarly(t) \/ Ask(t) \/ Refuse(t)
      BY <3>1 DEF Unparsed, AskEarly, Ask, Refuse, Answer
    <3>2. CASE RescuedUnheard(t)
      BY <3>2 DEF RescuedUnheard, Answer, Heard
    <3>3. CASE Inform(t) \/ Unsupported(t) \/ CollectiveAnswers(t)
      BY <3>3 DEF Inform, Unsupported, CollectiveAnswers, Answer
    <3>4. CASE Choose(t) \/ Code(t)
      BY <3>4 DEF Choose, Code
    <3>5. CASE Chosen(t) \/ Coded(t)
      BY <3>5 DEF Chosen, Coded, Answer
    <3>6. CASE Record(t) \/ RecordDelta(t)
      BY <3>6 DEF Record, RecordDelta, Answer
    <3>7. CASE Fetched(t) \/ FetchedElsewhere(t) \/ Rescued(t)
      BY <3>7 DEF Fetched, FetchedElsewhere, Rescued, Answer
    <3>8. CASE FetchFails(t)
      BY <3>8 DEF FetchFails
    <3>9. CASE GiveUp(t)
      BY <3>9 DEF GiveUp, RollBack, Answer
    <3>10. CASE Discard(t)
      BY <3>10 DEF Discard, Heard
    <3> QED
      <4> HIDE DEF IntentInv, IntentIsCurrent, Fetching
      <4> QED  BY <1>1, <3>1, <3>2, <3>3, <3>4, <3>5, <3>6, <3>7, <3>8, <3>9, <3>10 DEF Process
  <2>4. /\ pc'[t] # "waiting"
        /\ \A u \in Turn \ {t} : pc'[u] = "waiting" => u \notin Pro
    BY <1>1, <2>1, ProcessWrites DEF IntentInv, IntentIsCurrent, Working, Fetching
  <2> QED  BY <2>2, <2>3, <2>4 DEF IntentIsCurrent, Working, Fetching
<1>2. ASSUME NEW t \in Turn, Serve(t)
      PROVE  IntentIsCurrent'
  <2>1. intent' = intent
    BY <1>2 DEF Serve, Arrive, Acquire, Deliver, Deadline, StreamTimeout, Disconnect,
                ProStart, ProEnd, conversation
  <2>2. \/ messages' = messages
        \/ \E role \in {"user", "assistant"} : messages' = Append(messages, Says(t, role))
    BY <1>2 DEF Serve, Arrive, Acquire, Deliver, Deadline, StreamTimeout, Disconnect,
                ProStart, ProEnd, conversation
  <2>3. Writes(t) /\ messages' \in Seq([turn : Turn, role : {"user", "assistant"}])
    BY <2>2, AppendsItsOwn DEF IntentInv, UnmixedInv, TurnInv
  <2>4. ASSUME NEW u \in Turn, u # t
        PROVE  pc'[u] = pc[u] /\ outcome'[u] = outcome[u] /\ (Heard(u)' => Heard(u))
    <3>1. pc'[u] = pc[u] /\ outcome'[u] = outcome[u]
      BY <1>2, <2>4 DEF Serve, Arrive, Acquire, Deliver, Deadline, StreamTimeout, Disconnect,
                        ProStart, ProEnd, IntentInv, UnmixedInv, TurnInv, TypeOK
    <3> QED  BY <2>3, <2>4, <3>1, HeardOfItself DEF IntentInv, UnmixedInv, TurnInv
  <2>5. \/ pc'[t] \notin Fetching \union {"rescuing", "parsing", "answered", "waiting"}
        \/ pc'[t] = pc[t] /\ outcome' = outcome /\ messages' = messages
        \/ pc'[t] = "parsing" /\ pc[t] = "waiting" /\ messages' = messages
        \/ pc'[t] = "waiting" /\ t \notin Pro
    BY <1>2 DEF Serve, Arrive, Acquire, Deliver, Deadline, StreamTimeout, Disconnect,
                ProStart, ProEnd, conversation, IntentInv, UnmixedInv, TurnInv, TypeOK, Fetching
  <2>6. pc[t] = "waiting" => ~Heard(t)
    BY DEF IntentInv, UnmixedInv, MessagesKept, Written, IntentIsCurrent, Heard
  <2>7. messages' = messages => (Heard(t)' <=> Heard(t))
    BY DEF Heard
  <2>8. /\ pc'[t] \in Fetching \union {"rescuing"} => intent' = t
        /\ pc'[t] = "parsing" \/ (pc'[t] = "answered" /\ outcome'[t] = "data") =>
             (Heard(t)' => intent' = t)
        /\ pc'[t] = "waiting" => t \notin Pro
    BY <2>1, <2>5, <2>6, <2>7 DEF IntentInv, IntentIsCurrent, Fetching
  <2>9. ASSUME NEW u \in Turn, u # t
        PROVE  /\ pc'[u] \in Fetching \union {"rescuing"} => intent' = u
               /\ pc'[u] = "parsing" \/ (pc'[u] = "answered" /\ outcome'[u] = "data") =>
                    (Heard(u)' => intent' = u)
               /\ pc'[u] = "waiting" => u \notin Pro
    BY <2>1, <2>4, <2>9 DEF IntentInv, IntentIsCurrent
  <2> QED  BY <2>8, <2>9 DEF IntentIsCurrent
<1>3. CASE UNCHANGED vars
  BY <1>3 DEF vars, conversation, IntentInv, IntentIsCurrent, Heard
<1> QED  BY <1>1, <1>2, <1>3 DEF Next

\* Whatever its path through process_query, a turn that delivers data leaves the
\* conversation's state its own, and its intent if the conversation has heard of the
\* turn (main.py:1470-1472).
THEOREM AnswersAlwaysRemembered == Spec => AnswerRemembered
<1> DEFINE Remembered ==
      \A t \in Turn :
        pc[t] # "ended" /\ pc'[t] = "ended" /\ outcome'[t] = "data"
          => state' = t /\ (Heard(t) => intent' = t)
<1>1. Init => IntentIsCurrent
  BY DEF Init, IntentIsCurrent, Fetching
<1>2. UnmixedInv /\ IntentIsCurrent /\ [Next]_vars => IntentIsCurrent'
  BY IntentStep DEF IntentInv
<1>3. UnmixedInv /\ IntentIsCurrent /\ [Next]_vars => [Remembered]_vars
  <2> SUFFICES ASSUME UnmixedInv, IntentIsCurrent, NEW u \in Turn, Process(u) \/ Serve(u)
               PROVE  Remembered
    BY DEF Next
  <2> USE DEF TypeOK, UnmixedInv, TurnInv, IntentIsCurrent
  <2>1. CASE Process(u)
    <3>1. ASSUME NEW found, Answer(u, found)
          PROVE  \A t \in Turn : pc'[t] = "ended" => pc[t] = "ended"
      BY <3>1 DEF Answer
    <3>2. CASE Choose(u) \/ Code(u) \/ RecordDelta(u) \/ FetchFails(u) \/ Discard(u)
      BY <3>2 DEF Choose, Code, RecordDelta, FetchFails, Discard
    <3>3. CASE Record(u)
      BY <3>1, <3>3 DEF Record, Fetching
    <3>4. CASE Chosen(u) \/ Coded(u) \/ Unparsed(u) \/ RescuedUnheard(u) \/ AskEarly(u) \/ Inform(u)
               \/ Unsupported(u) \/ CollectiveAnswers(u)
      BY <3>1, <3>4 DEF Chosen, Coded, Unparsed, RescuedUnheard, AskEarly, Inform, Unsupported, CollectiveAnswers
    <3>5. CASE Fetched(u) \/ FetchedElsewhere(u) \/ Rescued(u) \/ Ask(u) \/ Refuse(u)
               \/ GiveUp(u)
      BY <3>1, <3>5 DEF Fetched, FetchedElsewhere, Rescued, Ask, Refuse, GiveUp
    <3> QED
      <4> HIDE DEF Remembered
      <4> QED  BY <2>1, <3>2, <3>3, <3>4, <3>5 DEF Process
  <2>2. CASE Serve(u)
    <3>1. CASE Deliver(u)  BY <3>1 DEF Deliver
    <3>2. CASE ProEnd(u)  BY <3>2 DEF ProEnd, Unbegun
    <3>3. CASE Arrive(u) \/ Acquire(u) \/ Deadline(u) \/ StreamTimeout(u) \/ Disconnect(u)
               \/ ProStart(u)
      BY <3>3 DEF Arrive, Acquire, Deadline, StreamTimeout, Disconnect, ProStart
    <3> QED  BY <2>2, <3>1, <3>2, <3>3 DEF Serve
  <2> QED  BY <2>1, <2>2
<1> QED  BY <1>1, <1>2, <1>3, MessagesKeptHolds, PTL DEF Spec, AnswerRemembered
=============================================================================
