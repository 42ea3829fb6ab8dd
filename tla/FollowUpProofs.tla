--------------------------- MODULE FollowUpProofs ---------------------------
(***************************************************************************)
(* A code that is sent as it is was resolved for the measure asked about.  *)
(***************************************************************************)
EXTENDS FollowUp, TLAPS

\* What a state or an intent carries as its code belongs to its measure
Own(s) == s.code \in Code => s.code.for = s.indicator

\* The induction: the measure of a turn is that of the state it will save, and
\* all that is carried belongs to it
Carried ==
  /\ state # None => Own(state)
  /\ turn # None =>
       /\ turn.staged.indicator = turn.intent.indicator
       /\ Own(turn.staged) /\ Own(turn.intent)
       /\ turn.intent.name \in Code => turn.intent.name.for = turn.intent.indicator

IInv == TypeOK /\ Carried /\ NoForeignCode

\* extract_state_from_intent keeps what an intent carries.
LEMMA ExtractKeeps ==
  ASSUME FollowUpAssumption, NEW i \in Intent, Own(i)
  PROVE  /\ Extract(i) \in ConversationState
         /\ Extract(i).indicator = i.indicator
         /\ Own(Extract(i))
BY DEF FollowUpAssumption, Extract, Intent, ConversationState, Own, Text

\* merge_new_state_with_previous carries a code only to the measure it was for.
LEMMA MergeNewKeeps ==
  ASSUME FollowUpAssumption, NEW new \in ConversationState, Own(new),
         NEW previous \in Staged \union {None}, previous # None => Own(previous)
  PROVE  /\ MergeNew(new, previous) \in ConversationState
         /\ MergeNew(new, previous).indicator = new.indicator
         /\ Own(MergeNew(new, previous))
<1>1. CASE previous = None
  BY <1>1 DEF MergeNew
<1>2. CASE previous # None
  <2> DEFINE sameCode == /\ new.indicator = previous.indicator
                         /\ new.provider = previous.provider
                         /\ new.frequency \in {previous.frequency, None}
             code == IF new.code = None /\ sameCode THEN previous.code ELSE new.code
             locked == new.locked \/ previous.locked
             places == IF new.places = {} THEN previous.places ELSE new.places
             frequency == IF new.frequency = None THEN previous.frequency ELSE new.frequency
             m == [new EXCEPT !.code = code, !.locked = locked,
                              !.places = places, !.frequency = frequency]
  <2>1. previous \in Staged
    BY <1>2
  <2>2. MergeNew(new, previous) = m
    BY <1>2, Zenon DEF MergeNew
  <2>3. code \in Text \union {None} /\ places \in SUBSET Place
        /\ frequency \in Frequency \union {None}
    BY <2>1 DEF ConversationState, Staged
  <2>4. locked \in BOOLEAN
    OBVIOUS
  <2>5. code = new.code \/ (code = previous.code /\ new.indicator = previous.indicator)
    OBVIOUS
  <2> HIDE DEF code, locked, places, frequency
  <2>6. m \in ConversationState /\ m.indicator = new.indicator /\ m.code = code
    BY <2>3, <2>4 DEF ConversationState
  <2> HIDE DEF m
  <2> QED BY <1>2, <2>2, <2>5, <2>6 DEF Own
<1> QED BY <1>1, <1>2

\* reset_state_for_topic_change touches neither measure nor code.
LEMMA ResetTopicKeeps ==
  ASSUME FollowUpAssumption, NEW new \in ConversationState, Own(new), NEW previous, NEW newQuery
  PROVE  /\ ResetTopic(new, previous, newQuery) \in ConversationState
         /\ ResetTopic(new, previous, newQuery).indicator = new.indicator
         /\ Own(ResetTopic(new, previous, newQuery))
BY DEF ResetTopic, ConversationState, Own

\* The read-time sanitizer leaves only codes that look like the provider's own.
LEMMA SanitizedLooks ==
  ASSUME FollowUpAssumption, NEW s \in ConversationState, Own(s)
  PROVE  /\ Sanitized(s) \in ConversationState
         /\ Sanitized(s).indicator = s.indicator
         /\ Own(Sanitized(s))
         /\ Sanitized(s).code \in Code => LooksLike(Sanitized(s).provider, Sanitized(s).code)
<1> DEFINE foreign == /\ s.code # None
                      /\ ~LooksLike(s.provider, s.code)
                      /\ \E p \in Provider \ {s.provider} : LooksLike(p, s.code)
<1>1. CASE foreign
  <2>1. Sanitized(s) = [s EXCEPT !.code = None, !.several = FALSE]
    BY <1>1 DEF Sanitized
  <2> QED BY <2>1 DEF ConversationState, Own, FollowUpAssumption
<1>2. CASE ~foreign
  <2>1. Sanitized(s) = s
    BY <1>2 DEF Sanitized
  <2>2. ASSUME s.code \in Code PROVE LooksLike(s.provider, s.code)
    <3>1. s.code.by \in Provider /\ LooksLike(s.code.by, s.code) /\ s.code # None
      BY <2>2 DEF LooksLike, Code, FollowUpAssumption
    <3> QED BY <1>2, <3>1
  <2> QED BY <2>1, <2>2
<1> QED BY <1>1, <1>2

\* What a follow-up says, by type.
LEMMA DeltaType ==
  ASSUME FollowUpAssumption, NEW d \in Delta
  PROVE  /\ d.indicator \in Measure \union {None} /\ d.added \in Measure \union {None}
         /\ d.places \in SUBSET Place /\ d.adds \in SUBSET Place
         /\ d.removes \in SUBSET Place
         /\ d.provider \in Provider \union {None} /\ d.frequency \in Frequency \union {None}
         /\ d.isNew \in BOOLEAN /\ (d.isNew => d.indicator # None)
<1> DEFINE Typed(new) ==
      [indicator : Measure \union {None}, added : Measure \union {None},
       places : SUBSET Place, adds : SUBSET Place, removes : SUBSET Place,
       provider : Provider \union {None}, frequency : Frequency \union {None},
       isNew : new]
<1>1. Keep \in Typed({FALSE})
  BY DEF Keep
<1>2. ASSUME NEW x \in OneChange PROVE x \in Typed({FALSE})
  <2>1. CASE x = Keep
    BY <1>1, <2>1
  <2>2. CASE x \in {[Keep EXCEPT !.indicator = m] : m \in Measure}
    BY <1>1, <2>2
  <2>3. CASE x \in {[Keep EXCEPT !.added = m] : m \in Measure}
    BY <1>1, <2>3
  <2>4. CASE \E p \in Place : x \in {[Keep EXCEPT !.places = {p}], [Keep EXCEPT !.adds = {p}],
                                     [Keep EXCEPT !.removes = {p}]}
    <3>1. PICK p \in Place : \/ x = [Keep EXCEPT !.places = {p}]
                             \/ x = [Keep EXCEPT !.adds = {p}]
                             \/ x = [Keep EXCEPT !.removes = {p}]
      BY <2>4
    <3>2. {p} \in SUBSET Place
      OBVIOUS
    <3> QED BY <1>1, <3>1, <3>2
  <2> QED BY <1>2, <2>1, <2>2, <2>3, <2>4 DEF OneChange
<1>3. ASSUME NEW p \in Provider, d \in WithProvider(p) PROVE d \in Typed({FALSE})
  BY <1>2, <1>3 DEF WithProvider
<1>4. ASSUME NEW f \in Frequency, d \in WithFrequency(f) PROVE d \in Typed({FALSE})
  BY <1>2, <1>4 DEF WithFrequency
<1>5. ASSUME NEW m \in Measure, d \in Elsewhere(m)
      PROVE  d \in Typed(BOOLEAN) /\ d.indicator # None
  <2>1. PICK p \in Place, b \in BOOLEAN :
          d = [Keep EXCEPT !.indicator = m, !.places = {p}, !.isNew = b]
    BY <1>5 DEF Elsewhere
  <2>2. d = [indicator |-> m, added |-> None, places |-> {p}, adds |-> {}, removes |-> {},
             provider |-> None, frequency |-> None, isNew |-> b]
    BY <2>1 DEF Keep
  <2>3. {p} \in SUBSET Place /\ m # None
    BY DEF FollowUpAssumption
  <2> QED BY <2>2, <2>3
<1>6. \/ d \in OneChange
      \/ \E p \in Provider : d \in WithProvider(p)
      \/ \E f \in Frequency : d \in WithFrequency(f)
      \/ \E m \in Measure : d \in Elsewhere(m)
  BY Zenon DEF Delta
<1>7. d \in Typed({FALSE}) \/ (d \in Typed(BOOLEAN) /\ d.indicator # None)
  <2> HIDE DEF Typed
  <2> QED BY <1>2, <1>3, <1>4, <1>5, <1>6
<1> QED BY <1>7

\* merge_state keeps a code only for its measure, and for the provider it was
\* resolved for unless one is named.
LEMMA MergeStateKeeps ==
  ASSUME FollowUpAssumption, NEW s \in ConversationState, Own(s), NEW d \in Delta
  PROVE  LET m == MergeState(s, d)
         IN /\ m \in Staged
            /\ Own(m)
            /\ m.code \in Code => /\ m.code = s.code
                                  /\ ~d.isNew /\ d.provider = None /\ d.indicator = None
                                  /\ m.provider = s.provider

<1> DEFINE m == MergeState(s, d)
<1>1. CASE d.isNew
  <2>1. m = Fresh(d)
    BY <1>1 DEF MergeState
  <2>2. /\ m.code = None /\ m \in Staged
    BY <2>1, <1>1, DeltaType DEF Fresh, Staged, Text
  <2> QED BY <2>2 DEF Own, FollowUpAssumption
<1>2. CASE ~d.isNew
  <2> DEFINE several == Adds(s, d) \/ (s.several /\ ~DropsCode(s, d))
             locked == s.locked \/ d.provider # None
             code == IF DropsCode(s, d) THEN None ELSE s.code
             provider == IF d.provider = None THEN s.provider ELSE d.provider
             frequency == IF d.frequency = None THEN s.frequency ELSE d.frequency
             r == [indicator |-> MergedIndicator(s, d), code |-> code, several |-> several,
                   provider |-> provider, locked |-> locked,
                   places |-> MergedPlaces(s, d), frequency |-> frequency]
  <2>1. m = r
    BY <1>2, Zenon DEF MergeState
  <2>2. several \in BOOLEAN /\ locked \in BOOLEAN
    BY Zenon DEF Adds, DropsCode
  <2>3. MergedPlaces(s, d) \in SUBSET Place
    BY DeltaType DEF MergedPlaces, ConversationState
  <2>4. MergedIndicator(s, d) \in Measure
    BY DeltaType DEF MergedIndicator, ConversationState
  <2>5. /\ code \in Text \union {None} /\ provider \in Provider
        /\ frequency \in Frequency \union {None}
    BY DeltaType DEF ConversationState
  <2>6. code # None => /\ code = s.code /\ d.provider = None /\ d.indicator = None
                       /\ provider = s.provider /\ MergedIndicator(s, d) = s.indicator
    BY DEF DropsCode, MergedIndicator
  <2> HIDE DEF several, locked, code, provider, frequency
  <2>7. m \in Staged /\ m.code = code /\ m.provider = provider
        /\ m.indicator = MergedIndicator(s, d)
    BY <2>1, <2>2, <2>3, <2>4, <2>5 DEF Staged
  <2>8. ASSUME m.code \in Code
        PROVE  /\ m.code = s.code /\ d.provider = None /\ d.indicator = None
               /\ m.provider = s.provider /\ m.indicator = s.indicator
    <3>1. code # None
      BY <2>7, <2>8 DEF FollowUpAssumption
    <3> QED BY <3>1, <2>6, <2>7
  <2> HIDE DEF r, m
  <2>9. Own(m)
    BY <2>8 DEF Own
  <2> QED BY <1>2, <2>7, <2>8, <2>9 DEF m
<1> QED BY <1>1, <1>2, DeltaType

\* materialize_intent names the code only where the state carries it.
LEMMA MaterializeKeeps ==
  ASSUME FollowUpAssumption, NEW s \in Staged, Own(s)
  PROVE  LET i == Materialize(s)
         IN /\ i \in Intent /\ Own(i)
            /\ i.indicator = s.indicator /\ i.code = s.code
            /\ i.name \in {s.indicator, s.code}
            /\ s.provider # None => i.provider = s.provider
            /\ i.name \in Code => i.name = s.code
<1> USE DEF FollowUpAssumption
<1> DEFINE i == Materialize(s)
<1>1. i.name \in Text
  BY DEF Materialize, Staged, Text
<1>2. i.provider \in Provider
  BY DEF Materialize, Staged
<1>3. i \in Intent
  BY <1>1, <1>2 DEF Materialize, Staged, Intent
<1>4. /\ i.indicator = s.indicator /\ i.code = s.code /\ i.name \in {s.indicator, s.code}
      /\ s.provider # None => i.provider = s.provider
  BY DEF Materialize
<1>5. s.indicator \notin Code
  BY DEF Staged
<1> QED BY <1>3, <1>4, <1>5 DEF Own

\* A follow-up sends a code as it is only if it looks like its provider's.
LEMMA FollowUpStep ==
  ASSUME FollowUpAssumption, IInv,
         NEW d \in Delta, NEW preserve \in BOOLEAN, NEW routed \in Provider,
         FollowUp(d, preserve, routed)
  PROVE  IInv'
<1> DEFINE cur == Sanitized(state)
           m == MergeState(cur, d)
           i == Materialize(m)
           covered == m.places = {} \/ Covered(i.provider, m.places)
           held == (m.locked \/ preserve) /\ ~(preserve /\ ScopeChanged(d) /\ ~covered)
           asksAnew == d.isNew \/ d.indicator # None \/ d.added # None
           rerouted == /\ m.provider = None \/ d.provider = None
                       /\ m.provider = None \/ (asksAnew /\ ~(held /\ ~d.isNew))
           overridden == ~rerouted /\ ScopeChanged(d) /\ ~held /\ ~covered
           provider == CASE overridden -> Default [] rerouted -> routed [] OTHER -> i.provider
           moved == provider # cur.provider
           relabelled == moved /\ d.indicator = None
           changed == \/ d.indicator # None \/ d.added # None \/ moved
                      \/ d.frequency \notin {None, cur.frequency}
           several == i.several /\ ~relabelled
           name == IF relabelled THEN i.indicator ELSE i.name
           code == IF overridden \/ relabelled THEN None ELSE i.code
           sent == [i EXCEPT !.provider = provider, !.locked = held, !.several = several,
                             !.name = name, !.code = code]
           asIs == /\ ~changed /\ ~sent.several
                   /\ sent.code # None \/ LooksLike(provider, sent.name)
           kept == IF overridden THEN None ELSE m.code
           staged == [m EXCEPT !.code = kept, !.several = sent.several]
<1>1. /\ turn = None /\ state # None /\ state' = state
      /\ turn' = [kind |-> "follow-up", intent |-> sent, asIs |-> asIs, staged |-> staged]
  BY Zenon DEF FollowUp
<1>2. state \in ConversationState /\ Own(state)
  BY <1>1 DEF IInv, TypeOK, Carried
<1>3. /\ cur \in ConversationState /\ Own(cur)
      /\ cur.code \in Code => LooksLike(cur.provider, cur.code)
  BY <1>2, SanitizedLooks
<1>4. /\ m \in Staged /\ Own(m)
      /\ m.code \in Code => m.code = cur.code
  BY <1>3, MergeStateKeeps
<1>5. /\ i \in Intent /\ Own(i) /\ i.indicator = m.indicator /\ i.code = m.code
      /\ i.name \in Code => i.name = m.code
  BY <1>4, MaterializeKeeps
<1>6. provider \in Provider
  <2> HIDE DEF overridden, rerouted, i
  <2> QED BY <1>5 DEF FollowUpAssumption, Intent
<1>7. held \in BOOLEAN /\ several \in BOOLEAN /\ asIs \in BOOLEAN
  BY Zenon
<1> HIDE DEF cur, m, i, held, provider, asIs, several
<1>8. name \in {i.indicator, i.name} /\ code \in {i.code, None} /\ kept \in {m.code, None}
  BY Zenon
<1> HIDE DEF name, code, kept
<1>9. /\ sent \in Intent /\ sent.indicator = i.indicator /\ sent.name = name
      /\ sent.code = code /\ sent.provider = provider /\ sent.several = several
  <2>1. name \in Text /\ code \in Text \union {None}
    BY <1>5, <1>8 DEF Intent, Text
  <2> QED BY <1>5, <1>6, <1>7, <2>1 DEF Intent
<1>10. staged \in Staged /\ staged.indicator = m.indicator /\ staged.code = kept
  BY <1>4, <1>7, <1>8, <1>9 DEF Staged
<1>11. i.indicator \notin Code /\ None \notin Code
  BY <1>5 DEF Intent, FollowUpAssumption
<1>12. Own(sent) /\ Own(staged) /\ (sent.name \in Code => sent.name = m.code)
  BY <1>4, <1>5, <1>8, <1>9, <1>10, <1>11 DEF Own
<1>13. asIs => provider = cur.provider
  BY Zenon DEF asIs
<1> HIDE DEF sent, staged
<1>14. NoForeignCode'
  <2>1. ASSUME asIs, sent.name \in Code
        PROVE  sent.name.for = sent.indicator /\ LooksLike(sent.provider, sent.name)
    BY <1>3, <1>4, <1>5, <1>9, <1>12, <1>13, <2>1 DEF Own
  <2> QED BY <1>1, <2>1 DEF NoForeignCode
<1>15. Carried'
  <2>1. sent.name \in Code => sent.name.for = sent.indicator
    BY <1>4, <1>5, <1>9, <1>12 DEF Own
  <2> QED BY <1>1, <1>2, <1>5, <1>9, <1>10, <1>12, <2>1 DEF Carried, Own
<1>16. TypeOK'
  BY <1>1, <1>2, <1>7, <1>9, <1>10 DEF TypeOK
<1> QED BY <1>14, <1>15, <1>16 DEF IInv

\* A question of its own is parsed without a code; what is staged for it carries
\* one only to the measure it was for.
LEMMA AskStep ==
  ASSUME FollowUpAssumption, IInv, Ask
  PROVE  IInv'
<1>1. PICK q \in Question, newQuery \in BOOLEAN :
        LET i == [indicator |-> q.indicator, name |-> q.indicator, code |-> None,
                  several |-> q.several, provider |-> q.provider, locked |-> q.locked,
                  places |-> q.places, frequency |-> q.frequency]
        IN turn' = [kind |-> "question", intent |-> i, asIs |-> FALSE,
                    staged |-> ResetTopic(MergeNew(Extract(i), state), state, newQuery)]
  BY DEF Ask
<1> DEFINE i == [indicator |-> q.indicator, name |-> q.indicator, code |-> None,
                 several |-> q.several, provider |-> q.provider, locked |-> q.locked,
                 places |-> q.places, frequency |-> q.frequency]
           merged == MergeNew(Extract(i), state)
           staged == ResetTopic(merged, state, newQuery)
<1>2. i.code \notin Code /\ i.name \notin Code /\ q.indicator \in Measure
  BY DEF FollowUpAssumption, Question
<1>3. i \in Intent /\ Own(i) /\ i.indicator = q.indicator
  BY <1>2 DEF Question, Intent, Text, Own
<1>4. state \in Staged \union {None} /\ (state # None => Own(state)) /\ state' = state
  BY DEF Ask, IInv, TypeOK, Carried, ConversationState, Staged
<1> HIDE DEF i
<1>5. merged \in ConversationState /\ Own(merged) /\ merged.indicator = i.indicator
  BY <1>3, <1>4, ExtractKeeps, MergeNewKeeps
<1> HIDE DEF merged
<1>6. staged \in ConversationState /\ Own(staged) /\ staged.indicator = i.indicator
  BY <1>5, ResetTopicKeeps
<1>7. staged \in Staged
  BY <1>6 DEF ConversationState, Staged
<1> HIDE DEF staged
<1>8. turn' = [kind |-> "question", intent |-> i, asIs |-> FALSE, staged |-> staged]
  BY <1>1 DEF i, staged, merged
<1>9. TypeOK'
  BY <1>3, <1>4, <1>7, <1>8 DEF IInv, TypeOK
<1>10. i.name \notin Code
  BY <1>2 DEF i
<1>11. Carried'
  BY <1>3, <1>4, <1>6, <1>8, <1>10 DEF Carried, Own
<1>12. NoForeignCode'
  BY <1>8 DEF NoForeignCode
<1> QED BY <1>9, <1>11, <1>12 DEF IInv

\* Whatever a fetch leaves as the code was resolved for the measure asked.
LEMMA AnswersOwn ==
  ASSUME FollowUpAssumption, IInv, turn # None, NEW a \in Answers(turn)
  PROVE  /\ a.intent \in Intent /\ Own(a.intent)
         /\ a.intent.indicator = turn.intent.indicator
         /\ a.source \in Provider \union {None}
<1> DEFINE i == turn.intent
           own == IF turn.asIs THEN {i.name, Resolved(i.provider, i.indicator)}
                  ELSE {Resolved(i.provider, i.indicator)}
           apart == i.several \/ (Cardinality(i.places) > 1 /\ ~Covered(i.provider, i.places))
<1>1. i \in Intent /\ Own(i) /\ (i.name \in Code => i.name.for = i.indicator)
  BY DEF IInv, TypeOK, Carried
<1>2. Resolved(i.provider, i.indicator) \in Code
      /\ Resolved(i.provider, i.indicator).for = i.indicator
  BY <1>1 DEF Resolved, Code, Intent
<1> HIDE DEF i
<1>3. ASSUME NEW c \in own, a = [intent |-> [i EXCEPT !.code = c], source |-> i.provider]
      PROVE  /\ a.intent \in Intent /\ Own(a.intent) /\ a.intent.indicator = i.indicator
             /\ a.source \in Provider
  <2>1. c \in Text /\ (c \in Code => c.for = i.indicator)
    BY <1>1, <1>2, <1>3 DEF Text, Intent
  <2>2. a.source = i.provider /\ a.intent = [i EXCEPT !.code = c]
    BY <1>3
  <2>3. [i EXCEPT !.code = c] \in Intent /\ [i EXCEPT !.code = c].indicator = i.indicator
        /\ [i EXCEPT !.code = c].code = c
    BY <1>1, <2>1 DEF Intent
  <2> QED BY <1>1, <2>1, <2>2, <2>3 DEF Own, Intent
<1>4. ASSUME NEW s \in Provider \union {None}, a = [intent |-> i, source |-> s]
      PROVE  /\ a.intent \in Intent /\ Own(a.intent) /\ a.intent.indicator = i.indicator
             /\ a.source \in Provider \union {None}
  BY <1>1, <1>4
<1>5. ASSUME NEW p \in Provider,
             a = [intent |-> [i EXCEPT !.provider = p, !.code = None, !.several = FALSE],
                  source |-> p]
      PROVE  /\ a.intent \in Intent /\ Own(a.intent) /\ a.intent.indicator = i.indicator
             /\ a.source \in Provider
  BY <1>1, <1>5 DEF Intent, Own, FollowUpAssumption
<1>6. \/ \E c \in IF i.several THEN {} ELSE own :
           a = [intent |-> [i EXCEPT !.code = c], source |-> i.provider]
      \/ \E s \in IF apart THEN Provider \union {None} ELSE {} :
           a = [intent |-> i, source |-> s]
      \/ \E p \in Provider \ {i.provider} :
           a = [intent |-> [i EXCEPT !.provider = p, !.code = None, !.several = FALSE],
                source |-> p]
  BY Zenon DEF Answers, i
<1> HIDE DEF own, apart
<1>7. \/ \E c \in own : a = [intent |-> [i EXCEPT !.code = c], source |-> i.provider]
      \/ \E s \in Provider \union {None} : a = [intent |-> i, source |-> s]
      \/ \E p \in Provider :
           a = [intent |-> [i EXCEPT !.provider = p, !.code = None, !.several = FALSE],
                source |-> p]
  BY <1>6, Zenon
<1> QED BY <1>3, <1>4, <1>5, <1>7 DEF i

\* _persist_verified_conversation_state writes over what was staged only what the
\* fetch left for the same measure.
LEMMA PersistedKeeps ==
  ASSUME FollowUpAssumption, NEW staged \in Staged, Own(staged),
         NEW i \in Intent, Own(i), staged.indicator = i.indicator,
         NEW source \in Provider \union {None}
  PROVE  Persisted(staged, i, source) \in Staged /\ Own(Persisted(staged, i, source))
<1> DEFINE mismatch == source \notin {None, i.provider}
           several == IF mismatch THEN staged.several ELSE i.several
           code == IF mismatch \/ i.code = None THEN staged.code ELSE i.code
           provider == IF source = None THEN i.provider ELSE source
           p == [staged EXCEPT !.indicator = i.indicator, !.several = several,
                               !.code = code, !.provider = provider]
<1>1. Persisted(staged, i, source) = p
  BY Zenon DEF Persisted
<1>2. several \in BOOLEAN /\ code \in {staged.code, i.code} /\ provider \in Provider
  <2>1. staged.several \in BOOLEAN /\ i.several \in BOOLEAN /\ i.provider \in Provider
    BY DEF Staged, Intent
  <2> QED BY <2>1
<1> HIDE DEF several, code, provider
<1>3. p \in Staged /\ p.indicator = i.indicator /\ p.code = code
  BY <1>2 DEF Staged, Intent
<1> HIDE DEF p
<1> QED BY <1>1, <1>2, <1>3 DEF Own

\* The answer to a new question, from its provider or from another one.
LEMMA QuestionStep ==
  ASSUME FollowUpAssumption, IInv, QuestionAnswered
  PROVE  IInv'
<1>1. /\ turn # None /\ turn' = None
      /\ \E a \in Answers(turn) :
           state' = MergeNew(Extract(a.intent), Persisted(turn.staged, a.intent, a.source))
  BY DEF QuestionAnswered
<1>2. PICK a \in Answers(turn) :
        state' = MergeNew(Extract(a.intent), Persisted(turn.staged, a.intent, a.source))
  BY <1>1
<1>3. /\ a.intent \in Intent /\ Own(a.intent) /\ a.intent.indicator = turn.intent.indicator
      /\ a.source \in Provider \union {None}
  BY <1>1, AnswersOwn
<1>4. turn.staged \in Staged /\ Own(turn.staged)
      /\ turn.staged.indicator = turn.intent.indicator
  BY <1>1 DEF IInv, TypeOK, Carried
<1>5. Persisted(turn.staged, a.intent, a.source) \in Staged
      /\ Own(Persisted(turn.staged, a.intent, a.source))
  BY <1>3, <1>4, PersistedKeeps
<1>6. Extract(a.intent) \in ConversationState /\ Own(Extract(a.intent))
  BY <1>3, ExtractKeeps
<1>7. state' \in ConversationState /\ Own(state')
  BY <1>2, <1>5, <1>6, MergeNewKeeps
<1> QED BY <1>1, <1>7 DEF IInv, TypeOK, Carried, NoForeignCode, Own

\* The answer to a follow-up: the state keeps the code it was staged with, or none.
LEMMA FollowUpAnsweredStep ==
  ASSUME FollowUpAssumption, IInv, FollowUpAnswered
  PROVE  IInv'
<1>1. turn # None /\ turn' = None
  BY DEF FollowUpAnswered
<1>2. PICK a \in Answers(turn), kept \in BOOLEAN :
        state' = [turn.staged EXCEPT
                    !.provider = a.intent.provider,
                    !.locked = @ \/ (kept /\ a.intent.locked),
                    !.code = IF a.intent.code = None THEN @ ELSE a.intent.code]
  BY DEF FollowUpAnswered
<1>3. /\ a.intent \in Intent /\ Own(a.intent) /\ a.intent.indicator = turn.intent.indicator
  BY <1>1, AnswersOwn
<1>4. turn.staged \in Staged /\ Own(turn.staged)
      /\ turn.staged.indicator = turn.intent.indicator
  BY <1>1 DEF IInv, TypeOK, Carried
<1> DEFINE locked == turn.staged.locked \/ (kept /\ a.intent.locked)
           code == IF a.intent.code = None THEN turn.staged.code ELSE a.intent.code
           s == [turn.staged EXCEPT !.provider = a.intent.provider,
                                    !.locked = locked, !.code = code]
<1>5. state' = s
  BY <1>2, Zenon
<1>6. locked \in BOOLEAN /\ code \in {turn.staged.code, a.intent.code}
  BY Zenon
<1> HIDE DEF locked, code
<1>7. s \in ConversationState /\ s.indicator = turn.staged.indicator /\ s.code = code
  BY <1>3, <1>4, <1>6 DEF Staged, Intent, ConversationState
<1> HIDE DEF s
<1>8. Own(s)
  BY <1>3, <1>4, <1>6, <1>7 DEF Own
<1> QED BY <1>1, <1>5, <1>7, <1>8 DEF IInv, TypeOK, Carried, NoForeignCode, Own

\* Turn after turn, whatever is carried belongs to its measure: the induction.
THEOREM CodesCarried == ASSUME FollowUpAssumption PROVE Spec => []IInv
<1>1. Init => IInv
  BY DEF Init, IInv, TypeOK, Carried, NoForeignCode
<1>2. IInv /\ [Next]_fvars => IInv'
  <2> SUFFICES ASSUME IInv, [Next]_fvars PROVE IInv'
    OBVIOUS
  <2>1. CASE Ask
    BY <2>1, AskStep
  <2>2. ASSUME NEW d \in Delta, NEW preserve \in BOOLEAN, NEW routed \in Provider,
               FollowUp(d, preserve, routed)
        PROVE  IInv'
    BY <2>2, FollowUpStep
  <2>3. CASE QuestionAnswered
    BY <2>3, QuestionStep
  <2>4. CASE FollowUpAnswered
    BY <2>4, FollowUpAnsweredStep
  <2>5. CASE Lost
    BY <2>5 DEF Lost, IInv, TypeOK, Carried, NoForeignCode, Own
  <2>6. CASE UNCHANGED fvars
    BY <2>6 DEF fvars, IInv, TypeOK, Carried, NoForeignCode, Own
  <2> QED BY <2>1, <2>2, <2>3, <2>4, <2>5, <2>6 DEF Next
<1> QED BY <1>1, <1>2, PTL DEF Spec

\* data_fetcher.py:2694-2729: a code that is sent unseen by the selector was resolved
\* for the measure asked about and has the shape of its provider's codes, for any
\* providers, measures and places and after any sequence of turns.
THEOREM SentCodesBelong == ASSUME FollowUpAssumption PROVE Spec => []NoForeignCode
<1>1. IInv => NoForeignCode
  BY DEF IInv
<1> QED BY <1>1, CodesCarried, PTL
=============================================================================
