---------------------------- MODULE BroadcastLog ----------------------------
(***************************************************************************)
(* What the gateway's shared buffer promises its users: an append-only log *)
(* of sensor records that every reader (the data manager and the storage   *)
(* manager) receives completely and in the order of insertion, up to and   *)
(* including the first end-of-stream record.  Nothing is said of nodes,    *)
(* pointers, locks or memory: module SBuffer implements this one.          *)
(***************************************************************************)
EXTENDS Naturals, Sequences

CONSTANTS
  Records,   (* the sensor_data_t values that can be inserted               *)
  Eos,       (* the record with id 0: sensor_db.c and datamgr.c stop on it  *)
  Readers    (* the threads that read the buffer                            *)

VARIABLES
  log,       (* the records inserted so far, oldest first                   *)
  received   (* what each reader has been handed so far                     *)

blVars == <<log, received>>

TypeOK ==
  /\ log \in Seq(Records)
  /\ received \in [Readers -> Seq(Records)]

(* A reader that was handed the end-of-stream record reads no more.        *)
Finished(r) == received[r] # <<>> /\ received[r][Len(received[r])] = Eos

Init ==
  /\ log = <<>>
  /\ received = [r \in Readers |-> <<>>]

Insert(d) ==
  /\ log' = Append(log, d)
  /\ UNCHANGED received

Receive(r) ==
  /\ ~Finished(r)
  /\ Len(received[r]) < Len(log)
  /\ received' = [received EXCEPT ![r] = Append(@, log[Len(@) + 1])]
  /\ UNCHANGED log

Next ==
  \/ \E d \in Records : Insert(d)
  \/ \E r \in Readers : Receive(r)

SafeSpec == Init /\ [][Next]_blVars

(* The readers poll for ever, so a record that stays available is received. *)
Spec == SafeSpec /\ \A r \in Readers : WF_blVars(Receive(r))
=============================================================================
