------------------------------ MODULE FollowUp ------------------------------
(***************************************************************************)
(* The turns of one conversation and the indicator code they hand on.      *)
(*                                                                         *)
(* A turn is read in one of two ways.  A question of its own is parsed     *)
(* into an intent, and what it leaves open is filled in from the turn      *)
(* before.  A follow-up is read as a delta ("what about France", "make it  *)
(* quarterly", "use the IMF") that is merged into the state, which is then *)
(* made an intent again.  A follow-up that leaves the measure, the         *)
(* provider and the frequency alone sends the carried code as it is, with  *)
(* the authority of the turn that resolved it: no selector looks at it.    *)
(*                                                                         *)
(* The turns of a conversation do not overlap (QueryTurn).  A turn here    *)
(* begins when its query is sent to a provider, and ends when its state is *)
(* saved, or lost.  Left out: table dimensions, decompositions, trade and  *)
(* crypto scopes, dates, and answers of several members.                   *)
(***************************************************************************)
EXTENDS Naturals, FiniteSets

CONSTANTS Provider,    \* the macro-economic data providers
          Default,     \* "WORLDBANK": the provider when none fits
          Family,      \* Family[p]: the kind of namespace of p
          GeoEncoded,  \* GEOGRAPHY_ENCODED_PROVIDERS: a code names its place
          Loose,       \* providers whose codes look like any word in capitals
          Measure,     \* indicators, as the parse names them
          Acronym,     \* those written in capitals, such as "GDP"
          Place,
          Covers,      \* Covers[p]: the places p has data of
          Frequency,
          None

\* A code, by the provider and the measure it was resolved for
Code == [by: Provider, for: Measure]

FollowUpAssumption ==
  /\ Default \in Provider /\ GeoEncoded \subseteq Provider /\ Loose \subseteq Provider
  /\ Acronym \subseteq Measure
  /\ Covers \in [Provider -> SUBSET Place]
  /\ None \notin Provider \union Measure \union Frequency
  /\ Code \intersect (Measure \union {None}) = {}

VARIABLES state,   \* the ConversationState, None before the first answer
          turn     \* the turn whose fetch is awaited, None between turns

fvars == <<state, turn>>

Text == Measure \union Code

ConversationState ==
  [indicator: Measure, code: Text \union {None}, several: BOOLEAN,
   provider: Provider, locked: BOOLEAN,
   places: SUBSET Place, frequency: Frequency \union {None}]

\* The state a turn will save if it is answered: the provider may be open
Staged ==
  [indicator: Measure, code: Text \union {None}, several: BOOLEAN,
   provider: Provider \union {None}, locked: BOOLEAN,
   places: SUBSET Place, frequency: Frequency \union {None}]

Intent ==
  [indicator: Measure, name: Text, code: Text \union {None}, several: BOOLEAN,
   provider: Provider, locked: BOOLEAN,
   places: SUBSET Place, frequency: Frequency \union {None}]

\* What the parse makes of a question of its own; a lock is a provider named in it
Question ==
  [indicator: Measure, several: BOOLEAN, provider: Provider, locked: BOOLEAN,
   places: SUBSET Place, frequency: Frequency \union {None}]

Covered(p, places) == places \subseteq Covers[p]

\* looks_like_provider_indicator_code: a shape, not a lookup
LooksLike(p, text) ==
  \/ text \in Code /\ text.by = p
  \/ p \in Loose /\ text \in Code \union Acronym

Resolved(p, measure) == [by |-> p, for |-> measure]
-----------------------------------------------------------------------------
(* A question of its own: extract_state_from_intent and what it is merged into *)

Extract(i) ==
  [indicator |-> i.indicator,
   code |-> IF i.code = None /\ i.indicator \in Acronym THEN i.indicator ELSE i.code,
   several |-> i.several, provider |-> i.provider, locked |-> i.locked,
   places |-> i.places, frequency |-> i.frequency]

\* merge_new_state_with_previous: what the new state leaves open is carried
MergeNew(new, previous) ==
  IF previous = None THEN new
  ELSE
    LET sameCode == /\ new.indicator = previous.indicator
                    /\ new.provider = previous.provider
                    /\ new.frequency \in {previous.frequency, None}
    IN [new EXCEPT
          !.code = IF new.code = None /\ sameCode THEN previous.code ELSE @,
          !.locked = @ \/ previous.locked,
          !.places = IF @ = {} THEN previous.places ELSE @,
          !.frequency = IF @ = None THEN previous.frequency ELSE @]

\* reset_state_for_topic_change: the model's word for it is not enough
ResetTopic(new, previous, newQuery) ==
  IF /\ previous # None /\ newQuery
     /\ new.indicator # previous.indicator
     /\ \/ Family[new.provider] # Family[previous.provider]
        \/ {} \notin {new.places, previous.places} /\ new.places # previous.places
  THEN [new EXCEPT !.locked = FALSE,
                   !.frequency = IF @ = previous.frequency THEN None ELSE @]
  ELSE new

\* What _persist_verified_conversation_state writes over the staged state,
\* when the data came from source (None: from several providers)
Persisted(staged, i, source) ==
  LET mismatch == source \notin {None, i.provider}
  IN [staged EXCEPT !.indicator = i.indicator,
                    !.several = IF mismatch THEN @ ELSE i.several,
                    !.code = IF mismatch \/ i.code = None THEN @ ELSE i.code,
                    !.provider = IF source = None THEN i.provider ELSE source]
-----------------------------------------------------------------------------
(* A follow-up: a delta merged into the state, and the intent made of it *)

Keep == [indicator |-> None, added |-> None, places |-> {}, adds |-> {}, removes |-> {},
         provider |-> None, frequency |-> None, isNew |-> FALSE]

\* What a follow-up may say: one thing, or a provider, a frequency or a place besides
OneChange ==
  {Keep} \union
  {[Keep EXCEPT !.indicator = m] : m \in Measure} \union
  {[Keep EXCEPT !.added = m] : m \in Measure} \union
  UNION {{[Keep EXCEPT !.places = {p}], [Keep EXCEPT !.adds = {p}],
          [Keep EXCEPT !.removes = {p}]} : p \in Place}

WithProvider(p) == {[d EXCEPT !.provider = p] : d \in OneChange}
WithFrequency(f) == {[d EXCEPT !.frequency = f] : d \in OneChange}
Elsewhere(m) ==
  UNION {{[Keep EXCEPT !.indicator = m, !.places = {p}, !.isNew = b] : b \in BOOLEAN} : p \in Place}

Delta ==
  OneChange \union (UNION {WithProvider(p) : p \in Provider})
            \union (UNION {WithFrequency(f) : f \in Frequency})
            \union (UNION {Elsewhere(m) : m \in Measure})

ScopeChanged(d) == d.places \union d.adds \union d.removes # {}

\* merge_state for a query of its own
Fresh(d) ==
  [indicator |-> d.indicator, code |-> None, several |-> FALSE,
   provider |-> d.provider, locked |-> d.provider # None,
   places |-> d.places, frequency |-> d.frequency]

MergedPlaces(s, d) ==
  LET base == IF d.places # {} THEN d.places ELSE s.places
      wide == base \union d.adds
  IN IF wide \subseteq d.removes THEN wide ELSE wide \ d.removes

\* Mutant: another measure keeps the code of the one before
DropsCodeOfPlaceOnly(s, d) ==
  \/ d.provider # None
  \/ d.frequency \notin {None, s.frequency}
  \/ d.places # {} /\ s.provider \in GeoEncoded

\* The changes that drop the carried code and the list of indicators
DropsCode(s, d) ==
  \/ d.indicator # None
  \/ d.provider # None
  \/ d.frequency \notin {None, s.frequency}
  \/ d.places # {} /\ s.provider \in GeoEncoded

MergedIndicator(s, d) == IF d.indicator = None THEN s.indicator ELSE d.indicator

\* An indicator added is dropped again with the list, if a place, the provider or
\* the frequency changes too
Adds(s, d) ==
  /\ d.added \notin {None, MergedIndicator(s, d)}
  /\ ~DropsCode(s, [d EXCEPT !.indicator = None])

MergeState(s, d) ==
  IF d.isNew THEN Fresh(d)
  ELSE [indicator |-> MergedIndicator(s, d),
        code |-> IF DropsCode(s, d) THEN None ELSE s.code,
        several |-> Adds(s, d) \/ (s.several /\ ~DropsCode(s, d)),
        provider |-> IF d.provider = None THEN s.provider ELSE d.provider,
        locked |-> s.locked \/ d.provider # None,
        places |-> MergedPlaces(s, d),
        frequency |-> IF d.frequency = None THEN s.frequency ELSE d.frequency]

Materialize(s) ==
  [indicator |-> s.indicator,
   name |-> IF s.several \/ s.code = None THEN s.indicator ELSE s.code,
   code |-> s.code, several |-> s.several,
   provider |-> IF s.provider = None THEN Default ELSE s.provider,
   locked |-> s.locked, places |-> s.places, frequency |-> s.frequency]

\* The read-time sanitizer: a carried code that looks like another provider's
Sanitized(s) ==
  IF /\ s.code # None
     /\ ~LooksLike(s.provider, s.code)
     /\ \E p \in Provider \ {s.provider} : LooksLike(p, s.code)
  THEN [s EXCEPT !.code = None, !.several = FALSE]
  ELSE s
-----------------------------------------------------------------------------
(* The turns *)

Init == state = None /\ turn = None

\* A question of its own is parsed; its state is staged until it is answered
Ask ==
  /\ turn = None
  /\ \E q \in Question, newQuery \in BOOLEAN :
       LET i == [indicator |-> q.indicator, name |-> q.indicator, code |-> None,
                 several |-> q.several, provider |-> q.provider, locked |-> q.locked,
                 places |-> q.places, frequency |-> q.frequency]
       IN turn' = [kind |-> "question", intent |-> i, asIs |-> FALSE,
                   staged |-> ResetTopic(MergeNew(Extract(i), state), state, newQuery)]
  /\ UNCHANGED state

\* A follow-up is merged, routed and sent.  Whether the provider of the state has
\* the concept (preserve), and what the router picks, comes from the catalogue.
FollowUp(d, preserve, routed) ==
  LET cur == Sanitized(state)
      m == MergeState(cur, d)
      i == Materialize(m)
      covered == m.places = {} \/ Covered(i.provider, m.places)
      held == (m.locked \/ preserve) /\ ~(preserve /\ ScopeChanged(d) /\ ~covered)
      asksAnew == d.isNew \/ d.indicator # None \/ d.added # None
      rerouted == /\ m.provider = None \/ d.provider = None
                  /\ m.provider = None \/ (asksAnew /\ ~(held /\ ~d.isNew))
      overridden == ~rerouted /\ ScopeChanged(d) /\ ~held /\ ~covered
      provider == CASE overridden -> Default [] rerouted -> routed [] OTHER -> i.provider
      moved == provider # cur.provider
      relabelled == moved /\ d.indicator = None
      changed == \/ d.indicator # None \/ d.added # None \/ moved
                 \/ d.frequency \notin {None, cur.frequency}
      sent == [i EXCEPT !.provider = provider, !.locked = held,
                        !.several = @ /\ ~relabelled,
                        !.name = IF relabelled THEN i.indicator ELSE @,
                        !.code = IF overridden \/ relabelled THEN None ELSE @]
  IN /\ turn = None /\ state # None
     /\ preserve => d.provider = None /\ ~d.isNew
     /\ turn' = [kind |-> "follow-up", intent |-> sent,
                 asIs |-> /\ ~changed /\ ~sent.several
                          /\ sent.code # None \/ LooksLike(provider, sent.name),
                 staged |-> [m EXCEPT !.code = IF overridden THEN None ELSE @,
                                      !.several = sent.several]]
     /\ UNCHANGED state

\* The intents a fetch may leave, and the one provider its data came from, if one:
\* the provider asked, several at once, or another in its place
Answers(t) ==
  LET i == t.intent
      own == IF t.asIs THEN {i.name, Resolved(i.provider, i.indicator)}
             ELSE {Resolved(i.provider, i.indicator)}
      apart == i.several \/ (Cardinality(i.places) > 1 /\ ~Covered(i.provider, i.places))
  IN {[intent |-> [i EXCEPT !.code = c], source |-> i.provider] :
        c \in IF i.several THEN {} ELSE own}
     \union {[intent |-> i, source |-> s] : s \in IF apart THEN Provider \union {None} ELSE {}}
     \union {[intent |-> [i EXCEPT !.provider = p, !.code = None, !.several = FALSE],
              source |-> p] : p \in Provider \ {i.provider}}

\* A question's state is saved by the pipeline, and once more by the endpoint
QuestionAnswered ==
  /\ turn # None /\ turn.kind = "question"
  /\ \E a \in Answers(turn) :
       state' = MergeNew(Extract(a.intent), Persisted(turn.staged, a.intent, a.source))
  /\ turn' = None

\* The delta path saves the merged state itself.  The lock is kept with the intent
\* if its parameters did not pass through a fetch of their own.
FollowUpAnswered ==
  /\ turn # None /\ turn.kind = "follow-up"
  /\ \E a \in Answers(turn), kept \in BOOLEAN :
       state' = [turn.staged EXCEPT
                   !.provider = a.intent.provider,
                   !.locked = @ \/ (kept /\ a.intent.locked),
                   !.code = IF a.intent.code = None THEN @ ELSE a.intent.code]
  /\ turn' = None

\* The turn is cut, refused, fails, or asks back: nothing is saved
Lost ==
  /\ turn # None
  /\ turn' = None /\ UNCHANGED state

Next ==
  \/ Ask
  \/ \E d \in Delta, preserve \in BOOLEAN, routed \in Provider : FollowUp(d, preserve, routed)
  \/ QuestionAnswered \/ FollowUpAnswered \/ Lost

Spec == Init /\ [][Next]_fvars
-----------------------------------------------------------------------------
TypeOK ==
  /\ state \in ConversationState \union {None}
  /\ turn # None => /\ turn.kind \in {"question", "follow-up"} /\ turn.asIs \in BOOLEAN
                    /\ turn.intent \in Intent /\ turn.staged \in Staged

\* A code that is sent as it is, unseen by the selector, was resolved for the measure
\* asked about, and by the provider it is sent to or by one whose codes have the same
\* shape: whatever turns came before, and whichever of them failed, were answered by
\* another provider or were merged with what they left open.
NoForeignCode ==
  turn # None /\ turn.asIs /\ turn.intent.name \in Code =>
    /\ turn.intent.name.for = turn.intent.indicator
    /\ LooksLike(turn.intent.provider, turn.intent.name)
=============================================================================
