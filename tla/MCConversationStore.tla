------------------------- MODULE MCConversationStore -------------------------
(***************************************************************************)
(* ConversationStore for TLC: production's two workers, and the updates    *)
(* that each run lets the clients call.                                    *)
(***************************************************************************)
EXTENDS ConversationStore, TLC

CONSTANTS w1, w2, m1, m2, v1

MCWorker == {w1, w2}
TwoMsg == {m1, m2}
MCValue == {v1}
Nobody == {}
OneMsg == {m1}

\* Workers are interchangeable, and so are messages
Symmetry == Permutations(MCWorker) \union Permutations(TwoMsg)

\* What a turn and a clarification write, for the atomicity of updates
TurnKinds == {"add_message", "restore_last_intent", "set_pending_indicator_options",
              "set_pending_semantic_clarification"}
\* The updates of one request after another, for expiry
ExpiryKinds == {"add_message", "set_conversation_state"}
\* The two clarifications, for their mutual exclusion; and messages
AskKinds == {"set_pending_indicator_options", "set_pending_semantic_clarification"}
MessageOrAsk == AskKinds \union {"add_message"}

\* Faults meet messages, at any age of the conversation, or clarifications while it
\* is young, and not both
Scope ==
  \/ /\ \A w \in Worker : upd[w] # NoUpdate => upd[w].kind \notin AskKinds
     /\ \A c \in Copies : ~c.ind /\ ~c.sem
  \/ clock = 0 /\ \A w \in Worker : sent[w] = <<>>
=============================================================================
