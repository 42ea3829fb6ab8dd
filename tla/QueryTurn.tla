----------------------------- MODULE QueryTurn -----------------------------
(***************************************************************************)
(* The turns of one conversation in one worker: /api/query,                *)
(* /api/query/stream and /api/query/pro (backend/main.py) around           *)
(* QueryService.process_query (backend/services/query.py).  A step runs    *)
(* from one await to the next.  The conversation's operations are atomic   *)
(* here; ConversationStore says when they are.                             *)
(*                                                                         *)
(* An intent, and the ConversationState extracted from it, are named by    *)
(* the turn they come from.                                                *)
(***************************************************************************)
EXTENDS Naturals, Sequences, FiniteSets

CONSTANTS Sync,    \* requests to /api/query
          Stream,  \* requests to /api/query/stream
          Pro,     \* requests to /api/query/pro
          None     \* Python's None

Turn == Sync \union Stream \union Pro

ASSUME TurnAssumption ==
  /\ Sync \intersect Stream = {} /\ (Sync \union Stream) \intersect Pro = {}
  /\ None \notin Turn

VARIABLES staged,    \* settings.use_staged_state_commit
          lock,      \* the turn that holds the conversation's lock
          intent,    \* last_intent of the conversation
          state,     \* its conversation_state
          messages,  \* its messages
          pc,        \* pc[t]: where the request is
          prev,      \* prev[t]: _prev_good_intent and _prev_good_state
          outcome,   \* outcome[t]: what process_query has found so far
          retried,   \* retried[t]: its one-shot re-adjudication was used
          overdue    \* overdue[t]: its client was told that it timed out

conversation == <<intent, state, messages>>
vars == <<staged, lock, conversation, pc, prev, outcome, retried, overdue>>

\* At an await after the intent is recorded: on the main path, or in
\* _execute_resolved_intent (a delta, or the answer to a clarification)
Fetching == {"fetching", "resolving"}

\* Inside process_query, at an await
Working == Fetching \union {"parsing", "choosing", "coding", "rescuing"}
Pcs == Working \union {"new", "waiting", "answered", "pro", "ended", "gone"}

\* "told": answered without data; "asked": a clarification; "failed": an error
\* whose exit restores the snapshot; "refused": an error whose exit does not;
\* "cut": cancelled
Outcomes == {"none", "data", "told", "asked", "failed", "refused", "cut"}

\* query.py:4659: a retry can only improve on "the honest first answer"
OutcomesFit ==
  \A t \in Turn :
    /\ pc[t] \in Working => outcome[t] = IF retried[t] THEN "refused" ELSE "none"
    /\ pc[t] = "answered" =>
         outcome[t] \in IF retried[t] THEN {"data", "refused"} ELSE Outcomes \ {"none", "cut"}

TypeOK ==
  /\ staged \in BOOLEAN
  /\ lock \in Turn \union {None}
  /\ intent \in Turn \union {None}
  /\ state \in Turn \union {None}
  /\ messages \in Seq([turn : Turn, role : {"user", "assistant"}])
  /\ pc \in [Turn -> Pcs]
  /\ prev \in [Turn -> [intent : Turn \union {None}, state : Turn \union {None}]]
  /\ outcome \in [Turn -> Outcomes]
  /\ retried \in [Turn -> BOOLEAN]
  /\ overdue \in [Turn -> BOOLEAN]
  /\ OutcomesFit

Init ==
  /\ staged \in BOOLEAN
  /\ lock = None
  /\ intent = None
  /\ state = None
  /\ messages = <<>>
  /\ pc = [t \in Turn |-> "new"]
  /\ prev = [t \in Turn |-> [intent |-> None, state |-> None]]
  /\ outcome = [t \in Turn |-> "none"]
  /\ retried = [t \in Turn |-> FALSE]
  /\ overdue = [t \in Turn |-> FALSE]
-----------------------------------------------------------------------------
(* Inside process_query.                                                    *)

Says(t, role) == [turn |-> t, role |-> role]

\* Mutant: the retry's response is taken whatever it is
AnswerAnew(t, found) ==
  /\ pc' = [pc EXCEPT ![t] = "answered"]
  /\ outcome' = [outcome EXCEPT ![t] = found]
  /\ UNCHANGED <<staged, lock, retried, overdue>>

\* A response of process_query; a retry without data leaves the first one
Answer(t, found) ==
  /\ pc' = [pc EXCEPT ![t] = "answered"]
  /\ outcome' = [outcome EXCEPT ![t] = IF retried[t] /\ found # "data" THEN @ ELSE found]
  /\ UNCHANGED <<staged, lock, retried, overdue>>

\* A snapshot that is None is not restored
RollBack(t) ==
  /\ intent' = IF prev[t].intent # None THEN prev[t].intent ELSE intent
  /\ state' = IF prev[t].state # None THEN prev[t].state ELSE state

\* An error before the intent is recorded, or of the generated code
Unparsed(t) ==
  /\ pc[t] \in {"parsing", "coding"}
  /\ Answer(t, "failed")
  /\ UNCHANGED <<conversation, prev>>

\* The intent is parsed but not yet recorded when an exception comes: a fallback
\* provider may have the data all the same, and the conversation learns of neither
RescuedUnheard(t) ==
  /\ pc[t] = "parsing"
  /\ Answer(t, "data")
  /\ UNCHANGED <<conversation, prev>>

\* A clarification that leaves no trace in the conversation
AskEarly(t) ==
  /\ pc[t] = "parsing"
  /\ Answer(t, "asked")
  /\ UNCHANGED <<conversation, prev>>

Inform(t) ==
  /\ pc[t] = "parsing"
  /\ intent' = t
  /\ messages' = messages \o <<Says(t, "user"), Says(t, "assistant")>>
  /\ Answer(t, "told")
  /\ UNCHANGED <<state, prev>>

\* A data surface of the IMF that is known not to be served
Unsupported(t) ==
  /\ pc[t] = "parsing"
  /\ intent' = t
  /\ messages' = messages \o <<Says(t, "user"), Says(t, "assistant")>>
  /\ Answer(t, "refused")
  /\ UNCHANGED <<state, prev>>

\* A delta on an answer with several members: each was fetched before the first write
CollectiveAnswers(t) ==
  /\ pc[t] = "parsing"
  /\ state # None
  /\ intent' = t
  /\ state' = t
  /\ messages' = messages \o <<Says(t, "user"), Says(t, "assistant")>>
  /\ Answer(t, "data")
  /\ UNCHANGED prev

\* The reply names an option of an earlier clarification
Choose(t) ==
  /\ pc[t] = "parsing"
  /\ \E u \in Turn \ {t} : outcome[u] = "asked"
  /\ messages' = Append(messages, Says(t, "user"))
  /\ pc' = [pc EXCEPT ![t] = "choosing"]
  /\ UNCHANGED <<staged, lock, intent, state, prev, outcome, retried, overdue>>

\* The option's data, or the question again; the intent is recorded with the data
Chosen(t) ==
  /\ pc[t] = "choosing"
  /\ \/ /\ intent' = t
        /\ messages' = Append(messages, Says(t, "assistant"))
        /\ Answer(t, "data")
     \/ /\ Answer(t, "asked")
        /\ UNCHANGED <<intent, messages>>
  /\ UNCHANGED <<state, prev>>

\* Pro mode on the classifier's word
Code(t) ==
  /\ pc[t] = "parsing"
  /\ messages' = Append(messages, Says(t, "user"))
  /\ pc' = [pc EXCEPT ![t] = "coding"]
  /\ UNCHANGED <<staged, lock, intent, state, prev, outcome, retried, overdue>>

Coded(t) ==
  /\ pc[t] = "coding"
  /\ messages' = Append(messages, Says(t, "assistant"))
  /\ Answer(t, "told")
  /\ UNCHANGED <<intent, state, prev>>

\* Mutant: use_staged_state_commit is not looked at
RecordUnstaged(t) ==
  /\ pc[t] = "parsing"
  /\ prev' = [prev EXCEPT ![t] = [intent |-> intent, state |-> state]]
  /\ intent' = t
  /\ state' = t
  /\ messages' = Append(messages, Says(t, "user"))
  /\ pc' = [pc EXCEPT ![t] = "fetching"]
  /\ UNCHANGED <<staged, lock, outcome, retried, overdue>>

\* Mutant: the snapshot is taken after the intent is recorded
RecordThenSnapshot(t) ==
  /\ pc[t] = "parsing"
  /\ intent' = t
  /\ prev' = [prev EXCEPT ![t] = [intent |-> t, state |-> state]]
  /\ state' = IF staged THEN state ELSE t
  /\ messages' = Append(messages, Says(t, "user"))
  /\ pc' = [pc EXCEPT ![t] = "fetching"]
  /\ UNCHANGED <<staged, lock, outcome, retried, overdue>>

\* The snapshot, the user's message and the new intent
Record(t) ==
  /\ pc[t] = "parsing"
  /\ prev' = [prev EXCEPT ![t] = [intent |-> intent, state |-> state]]
  /\ intent' = t
  /\ state' = IF staged THEN state ELSE t
  /\ messages' = Append(messages, Says(t, "user"))
  /\ \/ /\ \E p \in Fetching : pc' = [pc EXCEPT ![t] = p]
        /\ UNCHANGED <<staged, lock, outcome, retried, overdue>>
     \/ Answer(t, "asked")

\* A delta merges its state aside, staged commits or not
RecordDelta(t) ==
  /\ pc[t] = "parsing"
  /\ state # None
  /\ prev' = [prev EXCEPT ![t] = [intent |-> intent, state |-> state]]
  /\ intent' = t
  /\ messages' = Append(messages, Says(t, "user"))
  /\ pc' = [pc EXCEPT ![t] = "resolving"]
  /\ UNCHANGED <<staged, lock, state, outcome, retried, overdue>>

Fetched(t) ==
  /\ pc[t] \in Fetching
  /\ state' = t
  /\ messages' = Append(messages, Says(t, "assistant"))
  /\ Answer(t, "data")
  /\ UNCHANGED <<intent, prev>>

\* The provider had nothing; a fallback or the semantic recovery has
FetchedElsewhere(t) ==
  /\ pc[t] \in Fetching
  /\ state' = t
  /\ Answer(t, "data")
  /\ UNCHANGED <<intent, messages, prev>>

FetchFails(t) ==
  /\ pc[t] = "fetching"
  /\ pc' = [pc EXCEPT ![t] = "rescuing"]
  /\ UNCHANGED <<staged, lock, conversation, prev, outcome, retried, overdue>>

\* A fallback provider, or stale data; after an unexpected exception the state
\* is left to the endpoint
Rescued(t) ==
  /\ pc[t] = "rescuing"
  /\ state' \in {state, t}
  /\ Answer(t, "data")
  /\ UNCHANGED <<intent, messages, prev>>

Ask(t) ==
  /\ pc[t] \in Fetching \union {"rescuing"}
  /\ Answer(t, "asked")
  /\ UNCHANGED <<conversation, prev>>

\* Outside the requested window, or unavailable from the provider asked for; in
\* _execute_resolved_intent any other exception, whose handler has no snapshot
Refuse(t) ==
  /\ pc[t] \in Fetching \union {"rescuing"}
  /\ Answer(t, "refused")
  /\ UNCHANGED <<conversation, prev>>

GiveUp(t) ==
  /\ pc[t] \in Fetching \union {"rescuing"}
  /\ RollBack(t)
  /\ Answer(t, "failed")
  /\ UNCHANGED <<messages, prev>>

\* National data for a region: withheld, and the first time the turn is rerun
Discard(t) ==
  /\ pc[t] = "answered" /\ outcome[t] = "data"
  /\ outcome' = [outcome EXCEPT ![t] = "refused"]
  /\ \/ /\ ~retried[t]
        /\ retried' = [retried EXCEPT ![t] = TRUE]
        /\ pc' = [pc EXCEPT ![t] = "parsing"]
     \/ /\ retried[t]
        /\ UNCHANGED <<retried, pc>>
  /\ UNCHANGED <<staged, lock, conversation, prev, overdue>>
-----------------------------------------------------------------------------
(* The endpoints.                                                           *)

Arrive(t) ==
  /\ t \notin Pro /\ pc[t] = "new"
  /\ pc' = [pc EXCEPT ![t] = "waiting"]
  /\ UNCHANGED <<staged, lock, conversation, prev, outcome, retried, overdue>>

\* Mutant: streams do not take the lock
AcquireUnlessStream(t) ==
  /\ pc[t] = "waiting"
  /\ t \in Sync => lock = None
  /\ lock' = IF t \in Sync THEN t ELSE lock
  /\ pc' = [pc EXCEPT ![t] = "parsing"]
  /\ UNCHANGED <<staged, conversation, prev, outcome, retried, overdue>>

\* Any waiter may be the next: a stream queues again after each keepalive
Acquire(t) ==
  /\ pc[t] = "waiting"
  /\ lock = None
  /\ lock' = t
  /\ pc' = [pc EXCEPT ![t] = "parsing"]
  /\ UNCHANGED <<staged, conversation, prev, outcome, retried, overdue>>

\* Mutant: no guaranteed save
DeliverUnsaved(t) ==
  /\ pc[t] = "answered"
  /\ pc' = [pc EXCEPT ![t] = "ended"]
  /\ lock' = None
  /\ UNCHANGED <<staged, conversation, prev, outcome, retried, overdue>>

\* The response, the guaranteed save of the state and the lock's release: no await
\* lets another turn in between
Deliver(t) ==
  /\ pc[t] = "answered"
  /\ pc' = [pc EXCEPT ![t] = "ended"]
  /\ lock' = None
  /\ state' = IF outcome[t] = "data" THEN t ELSE state
  /\ UNCHANGED <<staged, intent, messages, prev, outcome, retried, overdue>>

\* Mutant: the lock is not released on a timeout
DeadlineKeepsLock(t) ==
  /\ t \in Sync /\ pc[t] \in Working
  /\ pc' = [pc EXCEPT ![t] = "ended"]
  /\ outcome' = [outcome EXCEPT ![t] = "cut"]
  /\ UNCHANGED <<staged, lock, conversation, prev, retried, overdue>>

\* asyncio.wait_for(process_query)
Deadline(t) ==
  /\ t \in Sync /\ pc[t] \in Working
  /\ pc' = [pc EXCEPT ![t] = "ended"]
  /\ outcome' = [outcome EXCEPT ![t] = "cut"]
  /\ lock' = None
  /\ UNCHANGED <<staged, conversation, prev, retried, overdue>>

\* _STREAM_TIMEOUT: the client is told, and query_task awaited all the same
StreamTimeout(t) ==
  /\ t \in Stream /\ pc[t] \in Working /\ ~overdue[t]
  /\ overdue' = [overdue EXCEPT ![t] = TRUE]
  /\ UNCHANGED <<staged, lock, conversation, pc, prev, outcome, retried>>

\* Mutant: the lock is released by a stream that still waits for it
DisconnectReleasing(t) ==
  /\ t \in Stream /\ pc[t] \in Working \union {"waiting", "answered"}
  /\ pc' = [pc EXCEPT ![t] = "gone"]
  /\ outcome' = [outcome EXCEPT ![t] = IF pc[t] = "answered" THEN @ ELSE "cut"]
  /\ lock' = None
  /\ UNCHANGED <<staged, conversation, prev, retried, overdue>>

\* The client of a stream goes away: the query is cancelled before the release
Disconnect(t) ==
  /\ t \in Stream /\ pc[t] \in Working \union {"waiting", "answered"}
  /\ pc' = [pc EXCEPT ![t] = "gone"]
  /\ outcome' = [outcome EXCEPT ![t] = IF pc[t] = "answered" THEN @ ELSE "cut"]
  /\ lock' = IF lock = t THEN None ELSE lock
  /\ UNCHANGED <<staged, conversation, prev, retried, overdue>>

\* Pro turns do not take the lock
ProStart(t) ==
  /\ t \in Pro /\ pc[t] = "new"
  /\ pc' = [pc EXCEPT ![t] = "pro"]
  /\ messages' = Append(messages, Says(t, "user"))
  /\ UNCHANGED <<staged, lock, intent, state, prev, outcome, retried, overdue>>

ProEnd(t) ==
  /\ pc[t] = "pro"
  /\ pc' = [pc EXCEPT ![t] = "ended"]
  /\ messages' \in {messages, Append(messages, Says(t, "assistant"))}
  /\ UNCHANGED <<staged, lock, intent, state, prev, outcome, retried, overdue>>

Process(t) ==
  \/ Unparsed(t) \/ RescuedUnheard(t) \/ AskEarly(t) \/ Inform(t) \/ Unsupported(t)
  \/ CollectiveAnswers(t) \/ Choose(t) \/ Chosen(t) \/ Code(t) \/ Coded(t)
  \/ Record(t) \/ RecordDelta(t)
  \/ Fetched(t) \/ FetchedElsewhere(t) \/ FetchFails(t) \/ Rescued(t)
  \/ Ask(t) \/ Refuse(t) \/ GiveUp(t) \/ Discard(t)

Serve(t) ==
  \/ Arrive(t) \/ Acquire(t) \/ Deliver(t)
  \/ Deadline(t) \/ StreamTimeout(t) \/ Disconnect(t)
  \/ ProStart(t) \/ ProEnd(t)

Next == \E t \in Turn : Process(t) \/ Serve(t)

\* Parsing and fetching may hang; the event loop and its timers do not
Fairness ==
  \A t \in Turn :
    /\ WF_vars(Acquire(t)) /\ WF_vars(Deliver(t))
    /\ WF_vars(Deadline(t)) /\ WF_vars(StreamTimeout(t))

Spec == Init /\ [][Next]_vars
FairSpec == Spec /\ Fairness
-----------------------------------------------------------------------------
(* Properties.                                                              *)

\* main.py:95-98: turns of one conversation are serialized; whoever works on the
\* conversation, or has still to save its answer, holds the lock.
TurnHoldsLock ==
  \A t \in Turn : pc[t] \in Working \union {"answered"} <=> lock = t

\* No other locked turn writes into a turn: its messages stand together, except
\* for those of Pro turns.
TurnsUnmixed ==
  \A i, k \in DOMAIN messages :
    messages[i].turn = messages[k].turn /\ messages[i].turn \notin Pro =>
      \A j \in i..k : messages[j].turn \in Pro \union {messages[i].turn}

\* query.py:5637-5641: a turn that fails leaves the last good intent and state,
\* if there were any, whatever the other turns do.
FailureRolledBack ==
  \A t \in Turn : outcome[t] = "failed" =>
    /\ prev[t].intent # None => intent # t
    /\ prev[t].state # None => state # t

\* The conversation has a message of the turn
Heard(t) == \E i \in DOMAIN messages : messages[i].turn = t

\* main.py:1470-1472: the state is saved after every turn that delivers data,
\* regardless of its path through process_query; the last intent is that turn's as
\* well, but for a turn that was rescued before the conversation heard of it.
AnswerRemembered ==
  [][\A t \in Turn :
       pc[t] # "ended" /\ pc'[t] = "ended" /\ outcome'[t] = "data"
         => state' = t /\ (Heard(t) => intent' = t)]_vars

\* config.py:133: with staged commits the state comes from verified answers only.
StagedStateVerified ==
  staged => \A t \in Turn : state = t => outcome[t] = "data" \/ retried[t]

\* main.py:1435-1436, 1691-1703: "a stuck turn can't hold it forever"; a stuck
\* stream can, but its client has been told by then.
LockIsFreed == \A t \in Turn : lock = t ~> lock # t \/ overdue[t]

\* conversation.py:491-494: "This prevents failed queries from corrupting
\* conversation state.  When a round fails, the previous successful intent is
\* restored": the first round of a conversation, one whose error exit is another
\* than the usual and one cut off at the deadline included.
FailedIntentNeverKept ==
  \A t \in Turn : pc[t] = "ended" /\ outcome[t] \in {"failed", "refused", "cut"} => intent # t
=============================================================================
