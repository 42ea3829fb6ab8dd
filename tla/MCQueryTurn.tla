---------------------------- MODULE MCQueryTurn ----------------------------
(***************************************************************************)
(* QueryTurn for TLC: a few requests of each kind on one conversation.     *)
(***************************************************************************)
EXTENDS QueryTurn, TLC

CONSTANTS s1, s2, e1, p1

TwoSync == {s1, s2}
OneStream == {e1}
OnePro == {p1}

Symmetry == Permutations(Sync)

Begun == {t \in Turn : pc[t] # "new"}

\* A Pro turn shares nothing but the messages: it meets one other turn.  Of three
\* turns none is rerun.
Scope ==
  Cardinality(Begun) > 2 => Begun \intersect Pro = {} /\ \A t \in Turn : ~retried[t]
=============================================================================
