----------------------------- MODULE MCSBuffer -----------------------------
(* Instances of SBuffer for TLC.  The number of nodes bounds the number of *)
(* insertions: when all are allocated, malloc fails.                       *)
EXTENDS SBuffer

CONSTANTS d1, d2

MCRecords == {d1, d2, Eos}
=============================================================================
