---------------------------- MODULE ConnService ----------------------------
(***************************************************************************)
(* What the connection manager promises the rest of the gateway: at most   *)
(* MaxConn clients are ever served, their measurements are inserted in the *)
(* shared buffer in any interleaving (unless there is no memory for one,   *)
(* which is no step of the service), and when that many have come and      *)
(* gone, and only then, the end-of-stream record is inserted once and last.*)
(* Module ConnMgr implements this one.                                     *)
(***************************************************************************)
EXTENDS Naturals, Sequences, FiniteSets

CONSTANTS
  Conns,     (* the connections clients make                                *)
  MaxConn,   (* the number of clients the gateway serves                    *)
  Eos        (* the end-of-stream record                                    *)

VARIABLES
  stage,     (* whether a connection is served, or was                      *)
  buffer     (* the records inserted, oldest first                          *)

serviceVars == <<stage, buffer>>

Taken == {c \in Conns : stage[c] # "outside"}
Gone  == {c \in Conns : stage[c] = "gone"}

Init ==
  /\ stage = [c \in Conns |-> "outside"]
  /\ buffer = <<>>

Admit(c) ==
  /\ stage[c] = "outside" /\ Cardinality(Taken) < MaxConn
  /\ stage' = [stage EXCEPT ![c] = "served"]
  /\ UNCHANGED buffer

Measure(c) ==
  /\ stage[c] = "served"
  /\ buffer' = Append(buffer, c)
  /\ UNCHANGED stage

Leave(c) ==
  /\ stage[c] = "served"
  /\ stage' = [stage EXCEPT ![c] = "gone"]
  /\ UNCHANGED buffer

Ended == buffer # <<>> /\ buffer[Len(buffer)] = Eos

End ==
  /\ Cardinality(Gone) = MaxConn /\ ~Ended
  /\ buffer' = Append(buffer, Eos)
  /\ UNCHANGED stage

Next == End \/ \E c \in Conns : Admit(c) \/ Measure(c) \/ Leave(c)

SafeSpec == Init /\ [][Next]_serviceVars

(* The one thing that must happen: a gateway nobody is left to serve ends. *)
Live == WF_serviceVars(End)
=============================================================================
