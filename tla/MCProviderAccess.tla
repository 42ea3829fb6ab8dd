-------------------------- MODULE MCProviderAccess --------------------------
(***************************************************************************)
(* ProviderAccess for TLC: a minute window of two requests, shrunk to a    *)
(* few ticks, so that it fills and drains within a run.                    *)
(***************************************************************************)
EXTENDS ProviderAccess, TLC

CONSTANTS t1, t2, t3, minute

OneTask == {t1}
ThreeTasks == {t1, t2, t3}
MinuteOnly == {minute}
MCQuota == [w \in Window |-> 2]
MCSpan == [w \in Window |-> 3]
MCCooldown == <<2, 3>>
MCBackoff == [n \in 1..MaxAttempts |-> n]

Symmetry == Permutations(Task)
=============================================================================
