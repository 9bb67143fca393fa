----------------------------- MODULE DPSequence -----------------------------
(***************************************************************************)
(* What a client of project/lib/dplist.c may rely on: the list is a        *)
(* sequence of values, an index below the first position means the first   *)
(* and an index behind the last position means the last.                   *)
(***************************************************************************)
EXTENDS Integers, SequencesExt

VARIABLES
  exists,   (* the client's list pointer is not NULL                        *)
  items     (* the values of the elements, first to last                    *)

(* The number of positions that stay in front of position i of n.          *)
Before(i, n) == IF i <= 0 THEN 0 ELSE IF i < n THEN i ELSE n

Create == ~exists /\ exists' = TRUE /\ items' = <<>>

Insert(v, i) ==
  /\ exists /\ UNCHANGED exists
  /\ items' = InsertAt(items, Before(i, Len(items)) + 1, v)

Delete(i) ==
  /\ exists /\ items # <<>> /\ UNCHANGED exists
  /\ items' = RemoveAt(items, Before(i, Len(items) - 1) + 1)

Free == exists /\ exists' = FALSE /\ items' = <<>>
=============================================================================
