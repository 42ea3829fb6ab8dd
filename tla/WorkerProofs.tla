---------------------------- MODULE WorkerProofs ----------------------------
(***************************************************************************)
(* Proofs about the question a turn leaves behind, and of the worker as a  *)
(* whole: all its services keep their types.                               *)
(***************************************************************************)
EXTENDS FetchProofs

-----------------------------------------------------------------------------
(* PendingChoice                                                           *)

\* A question asks for options that differ, and for none that has failed
Sensible(question) ==
  LET options == question.options
  IN  /\ Len(options) <= MaxOptions
      /\ \A m, n \in 1..Len(options) : options[m] = options[n] => m = n
      /\ \A n \in 1..Len(options) : options[n] \notin failed

\* The pending question is on the screen, but for a reason
Seen == pending # Nothing => screen = pending.id \/ missed # {}

\* A turn that has not ended has asked nothing yet
AskedOnce == IF reply.pc = "idle" THEN asked <= turns ELSE asked < turns

ChoiceInv ==
  /\ Choice!TypeOK /\ Seen /\ AskedOnce
  /\ pending # Nothing => Sensible(pending) /\ pending.id <= asked
  /\ reply.pc = "applying" =>
       /\ pending # Nothing
       /\ \E n \in 1..Len(pending.options) : pending.options[n] = reply.chosen
  /\ reply.pc = "executing" => pending = Nothing

\* What the proofs use of the constants.
LEMMA ChoiceConstants == MaxOptions \in Nat /\ MaxTurns \in Nat
BY ServicesAssumption DEF Choice!ChoiceAssumption

\* What is left of a sequence without one of its places.
LEMMA ChoiceRemoves ==
  ASSUME NEW S, NEW s \in Seq(S), NEW n \in 1..Len(s)
  PROVE  /\ Choice!RemoveAt(s, n) \in Seq(S)
         /\ Len(Choice!RemoveAt(s, n)) = Len(s) - 1
         /\ \A j \in 1..(Len(s) - 1) :
              Choice!RemoveAt(s, n)[j] = IF j < n THEN s[j] ELSE s[j + 1]
<1> DEFINE a == SubSeq(s, 1, n - 1)
           b == SubSeq(s, n + 1, Len(s))
<1>1. Len(s) \in Nat /\ n \in Nat
  OBVIOUS
<1>2. a \in Seq(S) /\ Len(a) = n - 1 /\ \A j \in 1..(n - 1) : a[j] = s[j]
  BY <1>1
<1>3. b \in Seq(S) /\ Len(b) = Len(s) - n /\ \A j \in 1..(Len(s) - n) : b[j] = s[n + j]
  BY <1>1
<1>4. Choice!RemoveAt(s, n) = a \o b
  BY DEF Choice!RemoveAt
<1> HIDE DEF a, b
<1>5. /\ a \o b \in Seq(S) /\ Len(a \o b) = Len(s) - 1
      /\ \A j \in 1..(Len(s) - 1) : (a \o b)[j] = IF j <= n - 1 THEN a[j] ELSE b[j - (n - 1)]
  BY <1>1, <1>2, <1>3
<1>6. ASSUME NEW j \in 1..(Len(s) - 1)
      PROVE  (a \o b)[j] = IF j < n THEN s[j] ELSE s[j + 1]
  <2>1. CASE j < n
    BY <1>1, <1>2, <1>5, <2>1
  <2>2. CASE ~(j < n)
    <3>1. j - (n - 1) \in 1..(Len(s) - n) /\ n + (j - (n - 1)) = j + 1
      BY <1>1, <2>2
    <3>2. (a \o b)[j] = b[j - (n - 1)]
      BY <1>1, <1>5, <2>2
    <3> QED BY <1>3, <2>2, <3>1, <3>2
  <2> QED BY <2>1, <2>2
<1> QED BY <1>4, <1>5, <1>6

\* The turn before has ended: one more may ask one more question.
LEMMA ChoiceBegun ==
  ASSUME ChoiceInv, Choice!Begin
  PROVE  /\ reply.pc = "idle" /\ asked' = asked /\ turns' = turns + 1
         /\ turns' \in 0..MaxTurns /\ asked < turns' /\ asked \in 0..(2 * MaxTurns)
<1>1. reply.pc = "idle" /\ turns < MaxTurns /\ turns' = turns + 1 /\ asked' = asked
  BY DEF Choice!Begin
<1>2. asked <= turns /\ asked \in 0..(2 * MaxTurns) /\ turns \in 0..MaxTurns
  BY <1>1 DEF ChoiceInv, Choice!TypeOK, AskedOnce
<1> QED BY <1>1, <1>2, ChoiceConstants

\* A turn that is answered without a look at what is pending says so.
LEMMA ChoiceAnsweredApart ==
  ASSUME ChoiceInv, NEW why \in {"pro", "unsupported"}, Choice!AnsweredApart(why)
  PROVE  ChoiceInv'
<1>1. /\ Choice!Begin /\ UNCHANGED <<reply, pending, failed>> /\ screen' = 0
      /\ missed' = IF pending = Nothing THEN {} ELSE missed \union {why}
  BY DEF Choice!AnsweredApart, Choice!Shows, Choice!Misses
<1>2. /\ reply.pc = "idle" /\ asked' = asked /\ turns' = turns + 1
      /\ turns' \in 0..MaxTurns /\ asked < turns' /\ asked \in 0..(2 * MaxTurns)
  BY <1>1, ChoiceBegun
<1>3. Choice!TypeOK'
  <2>1. missed' \subseteq {"pro", "unsupported", "cut", "unseen"}
    BY <1>1 DEF ChoiceInv, Choice!TypeOK
  <2>2. screen' \in 0..asked'
    BY <1>1, <1>2
  <2> QED BY <1>1, <1>2, <2>1, <2>2 DEF ChoiceInv, Choice!TypeOK, Choice!Question
<1>4. Seen' /\ AskedOnce'
  BY <1>1, <1>2 DEF Seen, AskedOnce
<1>5. pending' # Nothing => Sensible(pending)' /\ pending'.id <= asked'
  BY <1>1, <1>2 DEF ChoiceInv, Sensible
<1> QED BY <1>1, <1>2, <1>3, <1>4, <1>5 DEF ChoiceInv

\* An option is chosen of those that the pending question has.
LEMMA ChoiceChooses ==
  ASSUME ChoiceInv, Choice!ChooseIndicator
  PROVE  ChoiceInv'
<1>1. /\ Choice!Begin /\ pending # Nothing /\ UNCHANGED <<pending, screen, failed, missed>>
      /\ \E n \in DOMAIN pending.options :
           Choice!Chooses(n, pending.options[n]) \/ Choice!Chooses(0, pending.options[n])
  BY DEF Choice!ChooseIndicator
<1>2. /\ asked' = asked /\ turns' \in 0..MaxTurns /\ asked < turns' /\ asked \in 0..(2 * MaxTurns)
  BY <1>1, ChoiceBegun
<1>3. pending \in Choice!Question /\ Sensible(pending)
  BY <1>1 DEF ChoiceInv, Choice!TypeOK
<1> DEFINE options == pending.options
<1>4. options \in Seq(1..MaxOptions) /\ Len(options) <= MaxOptions
  BY <1>3 DEF Choice!Question, Choice!Option, Sensible
<1>5. PICK n \in 1..Len(options) :
        Choice!Chooses(n, options[n]) \/ Choice!Chooses(0, options[n])
  BY <1>1, <1>4
<1>6. PICK number \in {0, n} :
        reply' = [pc |-> "applying", run |-> 1, chosen |-> options[n], number |-> number]
  BY <1>5 DEF Choice!Chooses
<1>7. options[n] \in 0..MaxOptions /\ number \in 0..MaxOptions
  BY <1>4, ChoiceConstants
<1>8. /\ reply' \in [pc : {"idle", "applying", "executing"}, run : 1..2,
                     chosen : 0..MaxOptions, number : 0..MaxOptions]
      /\ reply'.pc = "applying" /\ reply'.chosen = options[n]
  BY <1>6, <1>7
<1>9. Choice!TypeOK'
  BY <1>1, <1>2, <1>8 DEF ChoiceInv, Choice!TypeOK, Choice!Question
<1>10. Seen' /\ AskedOnce'
  BY <1>1, <1>2, <1>8 DEF ChoiceInv, Seen, AskedOnce
<1>11. Sensible(pending)' /\ pending'.id <= asked'
  BY <1>1, <1>2, <1>3 DEF ChoiceInv, Sensible
<1> QED BY <1>1, <1>5, <1>8, <1>9, <1>10, <1>11 DEF ChoiceInv

\* The question once more, which puts it back on the screen.
LEMMA ChoiceAsksAgain ==
  ASSUME ChoiceInv, Choice!AskAgain
  PROVE  ChoiceInv'
<1>1. /\ Choice!Begin /\ UNCHANGED <<reply, pending, failed>> /\ pending # Nothing
      /\ screen' = pending.id /\ missed' = {}
  BY DEF Choice!AskAgain, Choice!Shows
<1>2. /\ reply.pc = "idle" /\ asked' = asked /\ turns' = turns + 1
      /\ turns' \in 0..MaxTurns /\ asked < turns' /\ asked \in 0..(2 * MaxTurns)
  BY <1>1, ChoiceBegun
<1>3. pending.id \in 0..asked
  <2>1. pending.id \in Nat /\ pending.id <= asked
    BY <1>1, ChoiceConstants DEF ChoiceInv, Choice!TypeOK, Choice!Question
  <2> QED BY <1>2, <2>1
<1>4. Choice!TypeOK'
  BY <1>1, <1>2, <1>3 DEF ChoiceInv, Choice!TypeOK, Choice!Question
<1>5. Seen' /\ AskedOnce'
  BY <1>1, <1>2 DEF Seen, AskedOnce
<1>6. pending' # Nothing => Sensible(pending)' /\ pending'.id <= asked'
  BY <1>1, <1>2 DEF ChoiceInv, Sensible
<1> QED BY <1>1, <1>2, <1>4, <1>5, <1>6 DEF ChoiceInv

\* A turn that executes has nothing pending.
LEMMA ChoiceExecutes ==
  ASSUME ChoiceInv, NEW run \in 1..2, Choice!Executes(run), Choice!Forget, screen' = screen,
         asked' = asked, turns' \in 0..MaxTurns, asked < turns'
  PROVE  ChoiceInv'
<1>1. pending' = Nothing /\ failed' = {} /\ missed' = {}
  BY DEF Choice!Forget
<1>2. 0 \in 0..MaxOptions
  BY ChoiceConstants
<1>3. reply' = [pc |-> "executing", run |-> run, chosen |-> 0, number |-> 0]
  BY DEF Choice!Executes, Choice!Idle
<1>4. /\ reply' \in [pc : {"idle", "applying", "executing"}, run : 1..2,
                     chosen : 0..MaxOptions, number : 0..MaxOptions]
      /\ reply'.pc = "executing"
  BY <1>2, <1>3
<1>5. Choice!TypeOK'
  BY <1>1, <1>4 DEF ChoiceInv, Choice!TypeOK
<1> QED BY <1>1, <1>4, <1>5 DEF ChoiceInv, Seen, AskedOnce

\* A turn that answers no indicator question drops what is pending.
LEMMA ChoiceMovesOn ==
  ASSUME ChoiceInv, Choice!ChooseMeaning \/ Choice!MoveOn
  PROVE  ChoiceInv'
<1>1. Choice!Begin /\ Choice!Executes(1) /\ Choice!Forget /\ screen' = screen
  BY DEF Choice!ChooseMeaning, Choice!MoveOn
<1>2. 1 \in 1..2
  OBVIOUS
<1> QED BY <1>1, <1>2, ChoiceBegun, ChoiceExecutes

\* The rerun begins with nothing pending.
LEMMA ChoiceDiscards ==
  ASSUME ChoiceInv, Choice!AnswerDiscarded
  PROVE  ChoiceInv'
<1>1. /\ Choice!Executes(2) /\ Choice!Forget /\ UNCHANGED <<asked, turns, screen>>
      /\ reply.pc # "idle"
  BY DEF Choice!AnswerDiscarded
<1>2. turns' \in 0..MaxTurns /\ asked < turns' /\ 2 \in 1..2
  BY <1>1 DEF ChoiceInv, Choice!TypeOK, AskedOnce
<1> QED BY <1>1, <1>2, ChoiceExecutes

\* A turn ends with nothing pending, or with a question that is sensible and has a
\* number of its own, on the screen but for a reason.
LEMMA ChoiceEnds ==
  ASSUME ChoiceInv, reply.pc # "idle", Choice!Ends,
         asked' = asked \/ asked' = asked + 1,
         screen' \in 0..asked',
         failed' \subseteq Choice!Option,
         missed' \subseteq {"pro", "unsupported", "cut", "unseen"},
         \/ pending' = Nothing
         \/ /\ pending' \in [kind : {"indicator", "semantic"}, id : 1..asked',
                             options : Seq(Choice!Option)]
            /\ Sensible(pending)' /\ (screen' = pending'.id \/ missed' # {})
  PROVE  ChoiceInv'
<1>1. turns' = turns /\ reply' = [pc |-> "idle", run |-> 1, chosen |-> 0, number |-> 0]
  BY DEF Choice!Ends, Choice!Idle
<1>2. asked \in 0..(2 * MaxTurns) /\ turns \in 0..MaxTurns /\ asked < turns
  BY DEF ChoiceInv, Choice!TypeOK, AskedOnce
<1>3. asked' \in 0..(2 * MaxTurns) /\ asked' <= turns'
  BY <1>1, <1>2, ChoiceConstants
<1>4. 0 \in 0..MaxOptions /\ 1 \in 1..2
  BY ChoiceConstants
<1>5. /\ reply' \in [pc : {"idle", "applying", "executing"}, run : 1..2,
                     chosen : 0..MaxOptions, number : 0..MaxOptions]
      /\ reply'.pc = "idle"
  BY <1>1, <1>4
<1>6. CASE pending' = Nothing
  BY <1>1, <1>2, <1>3, <1>5, <1>6 DEF ChoiceInv, Choice!TypeOK, Seen, AskedOnce
<1>7. CASE /\ pending' \in [kind : {"indicator", "semantic"}, id : 1..asked',
                            options : Seq(Choice!Option)]
           /\ Sensible(pending)' /\ (screen' = pending'.id \/ missed' # {})
  <2>1. 1..asked' \subseteq 1..(2 * MaxTurns)
    BY <1>3, ChoiceConstants
  <2>2. pending' \in Choice!Question /\ pending'.id <= asked'
    BY <1>3, <1>7, <2>1 DEF Choice!Question
  <2>3. Choice!TypeOK'
    BY <1>1, <1>2, <1>3, <1>5, <2>2 DEF Choice!TypeOK, Choice!Question
  <2> QED BY <1>3, <1>5, <1>7, <2>2, <2>3 DEF ChoiceInv, Seen, AskedOnce
<1> QED BY <1>6, <1>7

\* A new question has an id of its own, and none of its options has failed.
LEMMA ChoiceAsks ==
  ASSUME ChoiceInv, Choice!Ask
  PROVE  ChoiceInv'
<1>1. PICK kin \in {"indicator", "semantic"}, lines \in 2..MaxOptions :
        pending' = [kind |-> kin, id |-> asked + 1, options |-> [o \in 1..lines |-> o]]
  BY DEF Choice!Ask
<1>2. /\ reply.pc # "idle" /\ Choice!Ends /\ asked' = asked + 1 /\ failed' = {}
      /\ \/ screen' = asked' /\ missed' = {}
         \/ screen' = 0 /\ missed' = {"unseen"}
  BY DEF Choice!Ask, Choice!Shows
<1>3. asked \in Nat
  BY ChoiceConstants DEF ChoiceInv, Choice!TypeOK
<1> DEFINE options == [o \in 1..lines |-> o]
<1>4. /\ options \in Seq(Choice!Option) /\ Len(options) = lines /\ lines <= MaxOptions
      /\ \A n \in 1..lines : options[n] = n
  BY ChoiceConstants DEF Choice!Option
<1> HIDE DEF options
<1>5. pending' \in [kind : {"indicator", "semantic"}, id : 1..asked', options : Seq(Choice!Option)]
      /\ pending'.options = options /\ pending'.id = asked'
  BY <1>1, <1>2, <1>3, <1>4 DEF options
<1>6. Sensible(pending)'
  BY <1>2, <1>4, <1>5 DEF Sensible
<1>7. screen' \in 0..asked'
  BY <1>2, <1>3
<1> QED BY <1>2, <1>5, <1>6, <1>7, ChoiceEnds

\* The option that has failed is not among those that are asked for once more.
LEMMA ChoiceFailed ==
  ASSUME ChoiceInv, Choice!ChoiceFails
  PROVE  ChoiceInv'
<1>1. reply.pc = "applying" /\ pending # Nothing /\ Choice!Ends
  BY DEF Choice!ChoiceFails, ChoiceInv
<1> DEFINE options == pending.options
<1>2. pending \in Choice!Question /\ options \in Seq(Choice!Option) /\ asked \in Nat
  BY <1>1, ChoiceConstants DEF ChoiceInv, Choice!TypeOK, Choice!Question
<1>3. /\ Len(options) <= MaxOptions
      /\ \A m, n \in 1..Len(options) : options[m] = options[n] => m = n
      /\ \A n \in 1..Len(options) : options[n] \notin failed
  BY <1>1 DEF ChoiceInv, Sensible
<1>4. PICK n \in 1..Len(options) :
        /\ options[n] = reply.chosen
        /\ \/ /\ pending' = [pending EXCEPT !.options = Choice!RemoveAt(options, n), !.id = asked + 1]
              /\ asked' = asked + 1
              /\ failed' = failed \union {reply.chosen}
              /\ screen' = asked' /\ missed' = {}
           \/ Choice!Forget /\ screen' = 0 /\ asked' = asked
  <2>1. DOMAIN options = 1..Len(options)
    BY <1>2
  <2> QED BY <2>1 DEF Choice!ChoiceFails, Choice!Shows
<1> DEFINE rest == Choice!RemoveAt(options, n)
<1>5. CASE Choice!Forget /\ screen' = 0 /\ asked' = asked
  <2>1. 0 \in 0..asked' /\ {} \subseteq Choice!Option
    BY <1>2, <1>5
  <2> QED BY <1>1, <1>5, <2>1, ChoiceEnds DEF Choice!Forget
<1>6. CASE /\ pending' = [pending EXCEPT !.options = rest, !.id = asked + 1]
           /\ asked' = asked + 1
           /\ failed' = failed \union {reply.chosen}
           /\ screen' = asked' /\ missed' = {}
  <2>1. /\ rest \in Seq(Choice!Option) /\ Len(rest) = Len(options) - 1
        /\ \A j \in 1..(Len(options) - 1) : rest[j] = IF j < n THEN options[j] ELSE options[j + 1]
    BY <1>2, ChoiceRemoves
  <2>2. Len(options) \in Nat
    BY <1>2
  <2> HIDE DEF rest
  <2>3. /\ pending' \in [kind : {"indicator", "semantic"}, id : 1..asked', options : Seq(Choice!Option)]
        /\ pending'.options = rest /\ pending'.id = asked'
    <3>1. asked' \in Nat /\ asked' \in 1..asked'
      BY <1>2, <1>6
    <3>2. pending \in [kind : {"indicator", "semantic"}, id : 1..(2 * MaxTurns), options : Seq(Choice!Option)]
      BY <1>2 DEF Choice!Question
    <3>3. pending' = [pending EXCEPT !.options = rest, !.id = asked']
      BY <1>6
    <3> HIDE DEF options
    <3> QED BY <2>1, <3>1, <3>2, <3>3
  <2> HIDE DEF options
  <2>4. \A j \in 1..Len(rest) :
          \E k \in 1..Len(options) : k # n /\ rest[j] = options[k] /\ k = IF j < n THEN j ELSE j + 1
    BY <2>1, <2>2
  <2>5. \A j, k \in 1..Len(rest) : rest[j] = rest[k] => j = k
    BY <1>3, <2>1, <2>2, <2>4
  <2>6. \A j \in 1..Len(rest) : rest[j] \notin failed'
    BY <1>3, <1>4, <1>6, <2>4
  <2>7. Sensible(pending)'
    <3>1. Len(rest) <= MaxOptions
      BY <1>3, <2>1, <2>2, ChoiceConstants
    <3> QED BY <2>3, <2>5, <2>6, <3>1 DEF Sensible
  <2>8. failed' \subseteq Choice!Option
    BY <1>2, <1>4, <1>6 DEF ChoiceInv, Choice!TypeOK, options
  <2>9. screen' \in 0..asked'
    BY <1>2, <1>6
  <2> QED BY <1>1, <1>6, <2>3, <2>7, <2>8, <2>9, ChoiceEnds
<1> QED BY <1>4, <1>5, <1>6

\* An answer leaves no question.
LEMMA ChoiceIsAnswered ==
  ASSUME ChoiceInv, Choice!Answer
  PROVE  ChoiceInv'
<1>1. /\ reply.pc # "idle" /\ Choice!Ends /\ screen' = 0 /\ asked' = asked
      /\ pending' = Nothing /\ failed' = {} /\ missed' = {}
  BY DEF Choice!Answer, Choice!Shows, Choice!Forget
<1>2. 0 \in 0..asked' /\ failed' \subseteq Choice!Option
  BY <1>1, ChoiceConstants DEF ChoiceInv, Choice!TypeOK
<1> QED BY <1>1, <1>2, ChoiceEnds

\* A turn that is cut off leaves its question pending, off the screen.
LEMMA ChoiceIsCut ==
  ASSUME ChoiceInv, Choice!Cut
  PROVE  ChoiceInv'
<1>1. /\ reply.pc # "idle" /\ Choice!Ends /\ screen' = 0 /\ UNCHANGED <<asked, pending, failed>>
      /\ missed' = IF pending = Nothing THEN {} ELSE missed \union {"cut"}
  BY DEF Choice!Cut, Choice!Shows, Choice!Misses
<1>2. /\ 0 \in 0..asked' /\ failed' \subseteq Choice!Option
      /\ missed' \subseteq {"pro", "unsupported", "cut", "unseen"}
  <2>1. missed' \subseteq {"pro", "unsupported", "cut", "unseen"}
    BY <1>1 DEF ChoiceInv, Choice!TypeOK
  <2>2. 0 \in 0..asked'
    BY <1>1, ChoiceConstants DEF ChoiceInv, Choice!TypeOK
  <2> QED BY <1>1, <2>1, <2>2 DEF ChoiceInv, Choice!TypeOK
<1>3. CASE pending = Nothing
  BY <1>1, <1>2, <1>3, ChoiceEnds
<1>4. CASE pending # Nothing
  <2>1. pending \in Choice!Question /\ pending.id <= asked /\ asked \in Nat
    BY <1>4, ChoiceConstants DEF ChoiceInv, Choice!TypeOK
  <2>2. pending.id \in 1..asked
    BY <2>1, ChoiceConstants DEF Choice!Question
  <2>3. pending' \in [kind : {"indicator", "semantic"}, id : 1..asked', options : Seq(Choice!Option)]
    BY <1>1, <2>1, <2>2 DEF Choice!Question
  <2>4. Sensible(pending)' /\ missed' # {}
    BY <1>1, <1>4 DEF ChoiceInv, Sensible
  <2> QED BY <1>1, <1>2, <2>3, <2>4, ChoiceEnds
<1> QED BY <1>3, <1>4

\* query.py:4824-4828, indicator_clarification.py:515-522: for any number of options
\* and of turns, a reply is applied to the question on the screen, unless one of the
\* reasons has kept it off, and never to an option that has failed before.
THEOREM AlwaysAppliesWhatWasShown == Choice!Spec => [](Choice!TypeOK /\ AppliesWhatWasShown)
<1>1. Choice!Init => ChoiceInv
  <2> SUFFICES ASSUME Choice!Init PROVE ChoiceInv
    OBVIOUS
  <2>1. reply = [pc |-> "idle", run |-> 1, chosen |-> 0, number |-> 0]
    BY DEF Choice!Init, Choice!Idle
  <2>2. 0 \in 0..MaxOptions /\ 0 \in 0..MaxTurns /\ 0 \in 0..(2 * MaxTurns) /\ 0 \in 0..0 /\ 1 \in 1..2
    BY ChoiceConstants
  <2>3. /\ reply \in [pc : {"idle", "applying", "executing"}, run : 1..2,
                      chosen : 0..MaxOptions, number : 0..MaxOptions]
        /\ reply.pc = "idle"
    BY <2>1, <2>2
  <2>4. Choice!TypeOK
    BY <2>2, <2>3 DEF Choice!Init, Choice!TypeOK
  <2> QED BY <2>3, <2>4 DEF Choice!Init, ChoiceInv, Seen, AskedOnce
<1>2. ChoiceInv /\ [Choice!Next]_(Choice!vars) => ChoiceInv'
  <2> SUFFICES ASSUME ChoiceInv, [Choice!Next]_(Choice!vars) PROVE ChoiceInv'
    OBVIOUS
  <2>1. CASE UNCHANGED Choice!vars
    BY <2>1 DEF Choice!vars, ChoiceInv, Choice!TypeOK, Choice!Question, Seen, AskedOnce, Sensible
  <2>2. CASE Choice!Next
    BY <2>2, ChoiceAnsweredApart, ChoiceChooses, ChoiceAsksAgain, ChoiceMovesOn, ChoiceAsks,
       ChoiceFailed, ChoiceIsAnswered, ChoiceDiscards, ChoiceIsCut DEF Choice!Next
  <2> QED BY <2>1, <2>2
<1>3. ChoiceInv => Choice!TypeOK /\ AppliesWhatWasShown
  BY DEF ChoiceInv, Seen, Sensible, AppliesWhatWasShown, Choice!AppliesWhatWasShown
<1> QED BY <1>1, <1>2, <1>3, PTL DEF Choice!Spec
-----------------------------------------------------------------------------
(* The worker                                                              *)

\* Whatever the number of its clients, datasets, queries and turns, every service of a
\* worker keeps to its types.
THEOREM ServicesAlwaysTyped == Services => []ServicesTypeOK
<1>1. /\ Mcp!TypeOK /\ Loader!TypeOK /\ Store!TypeOK /\ Feedbacks!TypeOK
      /\ Multi!TypeOK /\ Path!TypeOK /\ Trade!TypeOK /\ Choice!TypeOK
      => ServicesTypeOK
  BY DEF ServicesTypeOK
<1> QED BY <1>1, SlotsAlwaysAccounted, WaitersAlwaysToldTruth, LostAlwaysCrowded, ThankedAlwaysKept,
        IndicatorsAlwaysAccounted, PathAlwaysSound, TradeAlwaysAccounted,
        AlwaysAppliesWhatWasShown, PTL DEF Services
=============================================================================
