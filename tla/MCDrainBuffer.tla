--------------------------- MODULE MCDrainBuffer ---------------------------
(* Instances of DrainBuffer for TLC.                                       *)
EXTENDS DrainBuffer
=============================================================================
