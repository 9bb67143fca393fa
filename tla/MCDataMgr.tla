----------------------------- MODULE MCDataMgr -----------------------------
(* Instances of DataMgr for TLC.  Windows of these temperatures have        *)
(* averages below, between, above and exactly at the limits 10 and 20.     *)
EXTENDS DataMgr, TLC

MCTemps  == {0, 15, 30}
Symmetry == Permutations(Sensors)
=============================================================================
