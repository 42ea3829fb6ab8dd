------------------------- MODULE ConversationRegister -------------------------
(***************************************************************************)
(* What ConversationManager promises of one conversation, whatever worker  *)
(* a request lands on: a single record on which every operation acts       *)
(* atomically, on top of everything written before it.  A message is       *)
(* appended once; of the messages the last MaxMessages are kept; at most   *)
(* one clarification is pending, of one of two kinds.                      *)
(***************************************************************************)
EXTENDS Naturals, Sequences

CONSTANTS Msg,          \* messages of the turns
          Value,        \* values of an intent, a state or an owner key
          None,         \* Python's None
          NoConv,       \* the conversation does not exist
          MaxMessages   \* MAX_MESSAGES

VARIABLES conv,         \* the conversation, or NoConv
          appended      \* the messages appended so far

regVars == <<conv, appended>>

LastKept(s) == IF Len(s) > MaxMessages THEN Tail(s) ELSE s

Blank == [msgs |-> <<>>, intent |-> None, state |-> None, owner |-> None,
          pending |-> "nothing"]

Init == conv = NoConv /\ appended = {}

Exists == conv # NoConv

CreateFor(v) ==
  /\ conv' = IF Exists
             THEN [conv EXCEPT !.owner = IF @ = None THEN v ELSE @]
             ELSE [Blank EXCEPT !.owner = v]
  /\ UNCHANGED appended

AppendMessage(m, v) ==
  /\ Exists
  /\ m \notin appended
  /\ conv' = [conv EXCEPT !.msgs = LastKept(Append(@, m)),
                          !.intent = IF v = None THEN @ ELSE v]
  /\ appended' = appended \union {m}

SetIntent(v) ==
  /\ Exists
  /\ conv' = [conv EXCEPT !.intent = v]
  /\ UNCHANGED appended

SetState(v) ==
  /\ Exists
  /\ conv' = [conv EXCEPT !.state = v]
  /\ UNCHANGED appended

SetOwner(v) ==
  /\ Exists
  /\ conv' = [conv EXCEPT !.owner = v]
  /\ UNCHANGED appended

Ask(kind) ==
  /\ Exists
  /\ conv' = [conv EXCEPT !.pending = kind]
  /\ UNCHANGED appended

Answer(kinds) ==
  /\ Exists
  /\ conv' = [conv EXCEPT !.pending = IF @ \in kinds THEN "nothing" ELSE @]
  /\ UNCHANGED appended

Next ==
  \/ \E v \in Value \union {None} :
       CreateFor(v) \/ SetIntent(v) \/ SetState(v) \/ SetOwner(v)
  \/ \E m \in Msg, v \in Value \union {None} : AppendMessage(m, v)
  \/ \E kind \in {"indicator", "semantic"} : Ask(kind)
  \/ \E kinds \in SUBSET {"indicator", "semantic"} : Answer(kinds)

Spec == Init /\ [][Next]_regVars
=============================================================================
