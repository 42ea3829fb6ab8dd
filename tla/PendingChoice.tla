---------------------------- MODULE PendingChoice ----------------------------
(***************************************************************************)
(* The question a turn leaves behind and the reply that answers it: the    *)
(* pending clarifications of a conversation (backend/services/             *)
(* conversation.py, indicator_clarification.py and query.py).  The turns   *)
(* of a conversation follow each other (see QueryTurn); a step runs from   *)
(* one await to the next.  The options of a question are numbered as its   *)
(* lines number them when it is first asked.                               *)
(***************************************************************************)
EXTENDS Naturals, Sequences, SequencesExt

CONSTANTS None,
          MaxOptions,  \* options of a question
          MaxTurns     \* bound: turns

ChoiceAssumption == MaxOptions \in Nat /\ MaxTurns \in Nat

VARIABLES pending,  \* the pending clarification; there is one kind at a time
          screen,   \* the question that the last response has shown, or 0
          turn,     \* where the turn is, and the option it applies
          asked,    \* questions asked so far
          turns,    \* turns so far
          failed,   \* history: options of the pending question that have failed
          missed    \* history: why the pending question is not on the screen

vars == <<pending, screen, turn, asked, turns, failed, missed>>

Option == 1..MaxOptions

\* options: those that are left of the lines of the question
Question ==
  [kind : {"indicator", "semantic"}, id : 1..(2 * MaxTurns), options : Seq(Option)]

Idle == [pc |-> "idle", run |-> 1, chosen |-> 0, number |-> 0]

TypeOK ==
  /\ pending = None \/ pending \in Question
  /\ screen \in 0..asked /\ asked \in 0..(2 * MaxTurns) /\ turns \in 0..MaxTurns
  /\ turn \in [pc : {"idle", "applying", "executing"}, run : 1..2,
               chosen : 0..MaxOptions, number : 0..MaxOptions]
  /\ failed \subseteq Option
  /\ missed \subseteq {"pro", "unsupported", "cut", "unseen"}

Init ==
  /\ pending = None /\ screen = 0
  /\ turn = Idle
  /\ asked = 0 /\ turns = 0
  /\ failed = {} /\ missed = {}

Chooses(n, chosen) == turn' = [pc |-> "applying", run |-> 1, chosen |-> chosen, number |-> n]

Executes(run) == turn' = [Idle EXCEPT !.pc = "executing", !.run = run]

Forget == pending' = None /\ failed' = {} /\ missed' = {}

\* What the response shows: a question, or none
Shows(id) == screen' = id

Misses(why) == missed' = IF pending = None THEN {} ELSE missed \union {why}

Begin ==
  /\ turn.pc = "idle" /\ turns < MaxTurns
  /\ turns' = turns + 1
  /\ UNCHANGED asked
-----------------------------------------------------------------------------
(* What a turn finds.                                                      *)

\* The Pro endpoint, and a question about a surface of the IMF that is not
\* supported, are answered before the pending clarification is looked at.
AnsweredApart(why) ==
  /\ Begin
  /\ Shows(0) /\ Misses(why)
  /\ UNCHANGED <<turn, pending, failed>>

\* An option by its number or by its name
ChooseIndicator ==
  /\ Begin
  /\ pending # None /\ pending.kind = "indicator"
  /\ \E n \in DOMAIN pending.options :
       Chooses(n, pending.options[n]) \/ Chooses(0, pending.options[n])
  /\ UNCHANGED <<pending, screen, failed, missed>>

\* A bare number that is none: the question once more
AskAgain ==
  /\ Begin
  /\ pending # None /\ pending.kind = "indicator"
  /\ Shows(pending.id) /\ missed' = {}
  /\ UNCHANGED <<turn, pending, failed>>

\* A choice of a semantic clarification, or the countries of a group, with the
\* pending clarification cleared first
ChooseMeaning ==
  /\ Begin
  /\ pending # None /\ pending.kind = "semantic"
  /\ Executes(1)
  /\ Forget
  /\ UNCHANGED screen

\* Anything else: the question is dropped, and the turn is a turn like any other
MoveOn ==
  /\ Begin
  /\ Executes(1)
  /\ Forget
  /\ UNCHANGED screen
-----------------------------------------------------------------------------
(* How it ends.  What the second run of process_query asks is not shown.   *)

Ends == turn' = Idle /\ UNCHANGED turns

Ask ==
  /\ turn.pc # "idle"
  /\ \E kind \in {"indicator", "semantic"}, lines \in 2..MaxOptions :
       pending' = [kind |-> kind, id |-> asked + 1, options |-> [o \in 1..lines |-> o]]
  /\ asked' = asked + 1
  /\ failed' = {}
  /\ IF turn.run = 1 THEN Shows(asked') /\ missed' = {}
     ELSE Shows(0) /\ missed' = {"unseen"}
  /\ Ends

\* No usable data for the option: the others are asked for once more
ChoiceFails ==
  /\ turn.pc = "applying"
  /\ \E n \in DOMAIN pending.options :
       /\ pending.options[n] = turn.chosen
       /\ LET rest == RemoveAt(pending.options, n)
          IN  \/ /\ rest # <<>>
                 /\ pending' = [pending EXCEPT !.options = rest, !.id = asked + 1]
                 /\ asked' = asked + 1
                 /\ failed' = failed \union {turn.chosen}
                 /\ Shows(asked') /\ missed' = {}
              \/ /\ rest = <<>>
                 /\ Forget /\ Shows(0)
                 /\ UNCHANGED asked
  /\ Ends

\* Mutant: the choice that was made stays pending
AnswerKeeping ==
  /\ turn.pc # "idle"
  /\ Shows(0)
  /\ Ends
  /\ UNCHANGED <<asked, pending, failed, missed>>

Answer ==
  /\ turn.pc # "idle"
  /\ Shows(0)
  /\ Forget
  /\ Ends
  /\ UNCHANGED asked

\* What was found is not about the region: _process_query_impl once more, with
\* the same words, which now find nothing pending
AnswerDiscarded ==
  /\ turn.pc # "idle" /\ turn.run = 1
  /\ Forget
  /\ Executes(2)
  /\ UNCHANGED <<asked, turns, screen>>

\* The deadline, or an error behind the fetch
Cut ==
  /\ turn.pc # "idle"
  /\ Shows(0) /\ Misses("cut")
  /\ Ends
  /\ UNCHANGED <<asked, pending, failed>>

Next ==
  \/ \E why \in {"pro", "unsupported"} : AnsweredApart(why)
  \/ ChooseIndicator \/ AskAgain \/ ChooseMeaning \/ MoveOn
  \/ Ask \/ ChoiceFails \/ Answer \/ AnswerDiscarded \/ Cut

Spec == Init /\ [][Next]_vars
-----------------------------------------------------------------------------
\* query.py:4824-4828, indicator_clarification.py:515-522: a reply is applied to the
\* question on the screen, and to none of its options that has failed before; to
\* another one only after turns that do not look at what is pending, or that were
\* cut off, or when a second run has asked and was not heard.
AppliesWhatWasShown ==
  turn.pc = "applying" =>
    /\ pending # None /\ turn.chosen \notin failed
    /\ screen = pending.id \/ missed # {}

\* What the question says (indicator_clarification.py:2976): "Reply with the option
\* number"; its lines number the options from the first.
NumberMeansItsLine ==
  turn.pc = "applying" /\ turn.number > 0 => turn.chosen = turn.number
=============================================================================
