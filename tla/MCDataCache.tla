----------------------------- MODULE MCDataCache -----------------------------
(***************************************************************************)
(* DataCache for TLC: ttls of a few ticks, the ceiling below the frequency *)
(* ttl as for OECD's annual series (30 minutes and 24 hours).              *)
(***************************************************************************)
EXTENDS DataCache

CONSTANTS w1, c1, c2, s1

OneWorker == {w1}
OneCaller == {c1}
TwoCallers == {c1, c2}
OneSeries == {s1}
=============================================================================
