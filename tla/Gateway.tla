------------------------------ MODULE Gateway ------------------------------
(***************************************************************************)
(* The gateway process (project/main.c): main starts the connection        *)
(* manager, the storage manager (open_db of sensor_db.c) and the data      *)
(* manager (data_manager_init of datamgr.c), joins the three, and frees    *)
(* the shared buffer.                                                      *)
(*                                                                         *)
(* The connection manager is the service of ConnService and the buffer the *)
(* log of BroadcastLog, which ConnMgr and SBuffer implement.  A reader of  *)
(* the log takes every record with id 0 for the end of the stream.  A      *)
(* thread that looks at an error ends the whole process (ERROR_HANDLER);   *)
(* the results of two pthread_create and of fprintf and fflush nobody      *)
(* looks at.                                                               *)
(***************************************************************************)
EXTENDS Naturals, Sequences, FiniteSets

CONSTANTS
  Conns, MaxConn, Eos,   (* as in ConnService                               *)
  NodeIds,    (* the sensor ids the clients may have been given             *)
  MapEmpty,   (* whether the data manager's list is empty: the map names no *)
              (* sensor, or there was no memory for the nodes               *)
  MaxRecords  (* bound: the measurements inserted                           *)

ASSUME GatewayAssumption ==
  /\ IsFiniteSet(Conns) /\ Eos \notin Conns /\ MaxConn \in Nat \ {0}
  /\ NodeIds \subseteq Nat /\ MapEmpty \in BOOLEAN /\ MaxRecords \in Nat

VARIABLES
  stage, buffer,      (* ConnService                                        *)
  received,           (* BroadcastLog: what each reader was handed          *)
  idOf,               (* the id each client sends in all its measurements   *)
  cpc, dbpc, dmpc,    (* control points of connection manager, storage      *)
                      (* manager and data manager                           *)
  mpc,                (* control point of main                              *)
  csv, flushed,       (* the lines written to sensor_db.csv, each the place *)
                      (* of its record in the buffer, and how many of them  *)
                      (* are in the file; the rest is in stdio's buffer     *)
  writeFailed,        (* history: whether an fprintf or fflush has failed   *)
  markerLost,         (* whether malloc failed for the end-of-stream record *)
  outcome             (* "running", or how the process ended                *)

serviceVars == <<stage, buffer>>
csvVars     == <<csv, flushed, writeFailed>>
vars == <<serviceVars, received, idOf, cpc, dbpc, dmpc, mpc, csvVars, markerLost, outcome>>

Readers == {"sensor_db", "datamgr"}
Logged(x) == IF x = Eos \/ idOf[x] = 0 THEN Eos ELSE x

CS == INSTANCE ConnService
BL == INSTANCE BroadcastLog WITH
        Records <- Conns \cup {Eos}, log <- [i \in 1..Len(buffer) |-> Logged(buffer[i])]

TypeOK ==
  /\ stage \in [Conns -> {"outside", "served", "gone"}]
  /\ buffer \in Seq(Conns \cup {Eos}) /\ received \in [Readers -> Seq(Conns \cup {Eos})]
  /\ idOf \in [Conns -> NodeIds]
  /\ cpc \in {"none", "open", "serving", "ended"}
  /\ dbpc \in {"none", "open", "read", "write", "close", "ended", "not_created"}
  /\ dmpc \in {"none", "map", "read", "print", "ended", "not_created"}
  /\ mpc \in {"args", "connmgr", "sensor_db", "datamgr", "join1", "join2", "join3",
              "free", "end"}
  /\ csv \in Seq(Nat \ {0}) /\ flushed \in 0..Len(csv)
  /\ writeFailed \in BOOLEAN /\ markerLost \in BOOLEAN
  /\ outcome \in {"running", "usage", "thread", "join", "port", "csv", "map", "list", "returned"}

Init ==
  /\ CS!Init /\ BL!Init
  /\ idOf \in [Conns -> NodeIds]
  /\ cpc = "none" /\ dbpc = "none" /\ dmpc = "none" /\ mpc = "args"
  /\ csv = <<>> /\ flushed = 0 /\ writeFailed = FALSE
  /\ markerLost = FALSE /\ outcome = "running"

(* A thread stops at this step; or it goes on.                             *)
Exit(how) == outcome' = how
GoOn      == UNCHANGED outcome

-----------------------------------------------------------------------------
(* main                                                                    *)

(* argc, the port and max_conn are checked once the logger runs.           *)
CheckArgs ==
  /\ mpc = "args"
  /\ \/ mpc' = "connmgr" /\ GoOn
     \/ Exit("usage") /\ UNCHANGED mpc
  /\ UNCHANGED <<serviceVars, received, idOf, cpc, dbpc, dmpc, csvVars, markerLost>>

(* The three calls of pthread_create; main looks at the result of the      *)
(* first only.                                                             *)
CreateThreads ==
  /\ \/ /\ mpc = "connmgr" /\ UNCHANGED <<dbpc, dmpc>>
        /\ \/ mpc' = "sensor_db" /\ cpc' = "open" /\ GoOn
           \/ Exit("thread") /\ UNCHANGED <<mpc, cpc>>
     \/ /\ mpc = "sensor_db" /\ mpc' = "datamgr" /\ dbpc' \in {"open", "not_created"}
        /\ UNCHANGED <<cpc, dmpc>> /\ GoOn
     \/ /\ mpc = "datamgr" /\ mpc' = "join1" /\ dmpc' \in {"map", "not_created"}
        /\ UNCHANGED <<cpc, dbpc>> /\ GoOn
  /\ UNCHANGED <<serviceVars, received, idOf, csvVars, markerLost>>

(* Mutant: the readers are not joined.                                     *)
JoinFirst ==
  /\ \/ mpc = "join1" /\ cpc = "ended" /\ mpc' = "join2"
     \/ mpc = "join2" /\ mpc' = "join3"
     \/ mpc = "join3" /\ mpc' = "free"
  /\ UNCHANGED <<serviceVars, received, idOf, cpc, dbpc, dmpc, csvVars, outcome, markerLost>>

(* To join a thread that was not created, whose id is not set, either      *)
(* returns or ends the process.                                            *)
Join ==
  /\ \/ mpc = "join1" /\ cpc = "ended" /\ mpc' = "join2" /\ GoOn
     \/ mpc = "join2" /\ dbpc \in {"ended", "not_created"} /\ mpc' = "join3" /\ GoOn
     \/ mpc = "join3" /\ dmpc \in {"ended", "not_created"} /\ mpc' = "free" /\ GoOn
     \/ /\ <<"not_created", mpc>> \in {<<dbpc, "join2">>, <<dmpc, "join3">>}
        /\ Exit("join") /\ UNCHANGED mpc
  /\ UNCHANGED <<serviceVars, received, idOf, cpc, dbpc, dmpc, csvVars, markerLost>>

(* sbuffer_free, then end_log_process and the return from main.            *)
Finish ==
  /\ \/ mpc = "free" /\ mpc' = "end" /\ GoOn
     \/ mpc = "end" /\ Exit("returned") /\ UNCHANGED mpc
  /\ UNCHANGED <<serviceVars, received, idOf, cpc, dbpc, dmpc, csvVars, markerLost>>

-----------------------------------------------------------------------------
(* The connection manager                                                  *)

OpenPort ==
  /\ cpc = "open"
  /\ \/ cpc' = "serving" /\ GoOn
     \/ Exit("port") /\ UNCHANGED cpc
  /\ UNCHANGED <<serviceVars, received, idOf, dbpc, dmpc, mpc, csvVars, markerLost>>

Serve ==
  /\ cpc = "serving"
  /\ \E c \in Conns : CS!Admit(c) \/ (Len(buffer) < MaxRecords /\ CS!Measure(c)) \/ CS!Leave(c)
  /\ UNCHANGED <<received, idOf, cpc, dbpc, dmpc, mpc, csvVars, outcome, markerLost>>

(* Mutant: the connection manager returns without an end-of-stream record. *)
StopServingSilently ==
  /\ cpc = "serving" /\ cpc' = "ended"
  /\ Cardinality(CS!Gone) = MaxConn
  /\ UNCHANGED <<serviceVars, received, idOf, dbpc, dmpc, mpc, csvVars, outcome, markerLost>>

(* The end of connmgr_listen; it does not look at the result of the        *)
(* insertion, whose malloc may fail.                                       *)
StopServing ==
  /\ cpc = "serving" /\ cpc' = "ended"
  /\ \/ CS!End /\ UNCHANGED markerLost
     \/ /\ Cardinality(CS!Gone) = MaxConn
        /\ markerLost' = TRUE /\ UNCHANGED serviceVars
  /\ UNCHANGED <<received, idOf, dbpc, dmpc, mpc, csvVars, outcome>>

-----------------------------------------------------------------------------
(* The storage manager                                                     *)

Newest(r) == received[r][Len(received[r])]

OpenCsv ==
  /\ dbpc = "open"
  /\ \/ dbpc' = "read" /\ GoOn
     \/ Exit("csv") /\ UNCHANGED dbpc
  /\ UNCHANGED <<serviceVars, received, idOf, cpc, dmpc, mpc, csvVars, markerLost>>

(* Mutant: the end-of-stream record is written like any other.             *)
ReadForDbNoBreak ==
  /\ dbpc = "read"
  /\ UNCHANGED <<serviceVars, idOf, cpc, dmpc, mpc, csvVars, outcome, markerLost>>
  /\ BL!Receive("sensor_db")
  /\ dbpc' = "write"

(* Polls until a record comes; leaves the loop when its id is 0.           *)
ReadForDb ==
  /\ dbpc = "read"
  /\ UNCHANGED <<serviceVars, idOf, cpc, dmpc, mpc, csvVars, outcome, markerLost>>
  /\ BL!Receive("sensor_db")
  /\ dbpc' = IF Newest("sensor_db")' = Eos THEN "close" ELSE "write"

(* fflush writes the lines; or it fails, and keeps or discards what has    *)
(* not been written.                                                       *)
Flush(lines)      == csv' = lines /\ flushed' = Len(lines)
FlushFails(lines) == csv' \in {lines, SubSeq(lines, 1, flushed)} /\ UNCHANGED flushed

(* fprintf and fflush, of which either may fail.                           *)
WriteLine ==
  /\ dbpc = "write" /\ dbpc' = "read"
  /\ LET line == Append(csv, Len(received["sensor_db"]))
     IN \/ Flush(line) /\ UNCHANGED writeFailed
        \/ writeFailed' = TRUE /\ (Flush(csv) \/ FlushFails(csv) \/ FlushFails(line))
  /\ UNCHANGED <<serviceVars, received, idOf, cpc, dmpc, mpc, outcome, markerLost>>

(* close_db.  When fflush fails it closes the file, which may write what   *)
(* is left, and returns; when only fclose fails it ends the process.       *)
CloseCsv ==
  /\ dbpc = "close"
  /\ \/ /\ Flush(csv) /\ UNCHANGED writeFailed
        /\ \/ dbpc' = "ended" /\ GoOn
           \/ Exit("csv") /\ UNCHANGED dbpc
     \/ /\ flushed < Len(csv) /\ writeFailed' = TRUE
        /\ csv' \in {csv, SubSeq(csv, 1, flushed)} /\ flushed' = Len(csv')
        /\ dbpc' = "ended" /\ GoOn
  /\ UNCHANGED <<serviceVars, received, idOf, cpc, dmpc, mpc, markerLost>>

-----------------------------------------------------------------------------
(* The data manager                                                        *)

ReadMap ==
  /\ dmpc = "map"
  /\ \/ dmpc' = "read" /\ GoOn
     \/ Exit("map") /\ UNCHANGED dmpc
  /\ UNCHANGED <<serviceVars, received, idOf, cpc, dbpc, mpc, csvVars, markerLost>>

ReadForDatamgr ==
  /\ dmpc = "read"
  /\ UNCHANGED <<serviceVars, idOf, cpc, dbpc, mpc, csvVars, outcome, markerLost>>
  /\ BL!Receive("datamgr")
  /\ dmpc' = IF Newest("datamgr")' = Eos THEN "print" ELSE "read"

(* datamgr_print_sensors ends the process when the list is empty.          *)
PrintSensors ==
  /\ dmpc = "print"
  /\ IF MapEmpty THEN Exit("list") /\ UNCHANGED dmpc ELSE dmpc' = "ended" /\ GoOn
  /\ UNCHANGED <<serviceVars, received, idOf, cpc, dbpc, mpc, csvVars, markerLost>>

-----------------------------------------------------------------------------
MainThread == CheckArgs \/ CreateThreads \/ Join \/ Finish
Storage    == OpenCsv \/ ReadForDb \/ WriteLine \/ CloseCsv
Datamgr    == ReadMap \/ ReadForDatamgr \/ PrintSensors

Next ==
  /\ outcome = "running"
  /\ MainThread \/ OpenPort \/ Serve \/ StopServing \/ Storage \/ Datamgr

SafeSpec == Init /\ [][Next]_vars

(* The scheduler runs every thread, and the connection manager ends when   *)
(* it can (the fairness of ConnService).                                   *)
Running(A) == outcome = "running" /\ A
Spec ==
  /\ SafeSpec
  /\ WF_vars(Running(MainThread)) /\ WF_vars(Running(Storage)) /\ WF_vars(Running(Datamgr))
  /\ WF_vars(Running(OpenPort)) /\ WF_vars(Running(StopServing))

-----------------------------------------------------------------------------
(* Properties                                                              *)

(* Record k is the first that both readers take for the end of the stream. *)
StreamEndsAt(k) ==
  /\ k \in 1..Len(buffer) /\ Logged(buffer[k]) = Eos
  /\ \A i \in 1..(k - 1) : Logged(buffer[i]) # Eos

(* The file holds measurements in the order of their insertion, none       *)
(* twice, and no end of the stream, whatever fails.  As long as no fprintf *)
(* or fflush failed it holds all that the storage manager was handed, but  *)
(* for the record in its hands, so that a crash loses the newest only; and *)
(* once the process has come to its normal end it then holds every         *)
(* measurement inserted before the first record that reads as the end of   *)
(* the stream, which is all of them unless a node was given the id 0.      *)
(* (With one failed call, or without the thread, main returns normally,    *)
(* too, and lines are missing.)                                            *)
StoredComplete ==
  /\ TypeOK
  /\ \A i \in 1..Len(csv) :
       /\ csv[i] <= Len(received["sensor_db"]) /\ Logged(buffer[csv[i]]) # Eos
       /\ dbpc = "write" => csv[i] # Len(received["sensor_db"])
       /\ i > 1 => csv[i - 1] < csv[i]
  /\ ~writeFailed =>
       /\ flushed = Len(csv) /\ \A i \in 1..Len(csv) : csv[i] = i
       /\ Len(received["sensor_db"]) =
            Len(csv) + (IF dbpc \in {"write", "close", "ended"} THEN 1 ELSE 0)
  /\ dbpc = "ended" => flushed = Len(csv)
  /\ outcome = "returned" /\ dbpc = "ended" /\ ~writeFailed => StreamEndsAt(Len(csv) + 1)

(* "The sensor data is then processed ..., then stored in a .csv file"     *)
(* (README.md:3), whatever the ids: once the process has come to a normal  *)
(* end and no call has failed, every measurement that was inserted is in   *)
(* the file.                                                               *)
AllStored ==
  outcome \in {"list", "returned"} /\ ~writeFailed /\ dbpc # "not_created" =>
    \A i \in 1..Len(buffer) : buffer[i] # Eos => \E j \in 1..Len(csv) : csv[j] = i

(* When main frees the buffer no thread can touch it: every client is      *)
(* gone, the connection manager has returned, and each reader was not      *)
(* created or has returned, having read up to the end of the stream.       *)
FreedLast ==
  mpc \in {"free", "end"} =>
    /\ cpc = "ended" /\ dbpc \in {"ended", "not_created"} /\ dmpc \in {"ended", "not_created"}
    /\ \A c \in Conns : stage[c] # "served"
    /\ dbpc = "ended" => StreamEndsAt(Len(received["sensor_db"]))
    /\ dmpc = "ended" => StreamEndsAt(Len(received["datamgr"]))

(* What makes these inductive: what a reader was handed, which control     *)
(* points it then can be at, how far main is with its threads, and that    *)
(* nobody is served before or after the connection manager serves.         *)
Handed ==
  /\ \A r \in Readers :
       /\ Len(received[r]) <= Len(buffer)
       /\ \A i \in 1..Len(received[r]) : received[r][i] = Logged(buffer[i])
       /\ \A i \in 1..(Len(received[r]) - 1) : received[r][i] # Eos
  /\ BL!Finished("sensor_db") <=> dbpc \in {"close", "ended"}
  /\ dbpc = "write" => received["sensor_db"] # <<>>
  /\ BL!Finished("datamgr") <=> dmpc \in {"print", "ended"}

Started ==
  /\ cpc = "none" <=> mpc \in {"args", "connmgr"}
  /\ dbpc = "none" <=> mpc \in {"args", "connmgr", "sensor_db"}
  /\ dmpc = "none" <=> mpc \in {"args", "connmgr", "sensor_db", "datamgr"}

Phases ==
  /\ Started
  /\ mpc \in {"join2", "join3", "free", "end"} => cpc = "ended"
  /\ mpc \in {"join3", "free", "end"} => dbpc \in {"ended", "not_created"}
  /\ mpc \in {"free", "end"} => dmpc \in {"ended", "not_created"}
  /\ outcome = "returned" => mpc = "end"
  /\ Cardinality(CS!Taken) <= MaxConn
  /\ cpc # "serving" => \A c \in Conns : stage[c] # "served"

IInv == StoredComplete /\ Handed /\ Phases

(* When MaxConn clients have come and gone the process ends, unless there  *)
(* was no memory for the end-of-stream record and no other reads as one.   *)
EndsAfterClients ==
  (cpc = "serving" /\ Cardinality(CS!Gone) = MaxConn) ~>
    \/ outcome # "running"
    \/ markerLost /\ \A i \in 1..Len(buffer) : Logged(buffer[i]) # Eos
=============================================================================
