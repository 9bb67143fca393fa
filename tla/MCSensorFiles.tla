---------------------------- MODULE MCSensorFiles ---------------------------
(* Instances of SensorFiles for TLC, with the temperatures of MCDataMgr.   *)
EXTENDS SensorFiles, TLC

MCTemps  == {0, 15, 30}
Symmetry == Permutations(Sensors) \cup Permutations(Nodes) \cup Permutations(Objects)
=============================================================================
