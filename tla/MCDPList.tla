------------------------------ MODULE MCDPList ------------------------------
(* Indices below, inside, at the end of and behind a list of three nodes.  *)
(* The cells and the values are interchangeable: no action names one and   *)
(* no property follows one, so symmetric states behave alike.              *)
EXTENDS DPList, TLC

MCIndices == {-1, 0, 1, 2, 4}

Symmetry ==
  Permutations(Nodes) \cup Permutations(Objects) \cup Permutations(Values)
=============================================================================
