----------------------------- MODULE SensorFiles ----------------------------
(***************************************************************************)
(* The program of lab 1 (startcodeplab1: main.c, datamgr.c, lib/dplist.c): *)
(* it reads the sensors of room_sensor.map into a list, then the records   *)
(* of the file sensor_data, and reports running averages out of range.     *)
(*                                                                         *)
(* The data manager is composed with its list: the variables of DPList are *)
(* the heap, the calls of the list library are the actions of DPList (lab  *)
(* 1 has the same code), and an element, once inserted, is changed in      *)
(* place through the pointer that a search of the list returns.            *)
(*                                                                         *)
(* Temperatures and files are as in DataMgr.                               *)
(***************************************************************************)
EXTENDS Integers, Sequences, FiniteSetsExt

CONSTANTS
  Nodes, Objects, NULL,    (* as in DPList                                  *)
  Sensors, Malformed, MaxLines, RunAvgLength,   (* and                      *)
  MinTemp, MaxTemp, Temps, MaxMeas              (* as in DataMgr            *)

ASSUME SensorFilesAssumption ==
  /\ NULL \notin Nodes \cup Objects /\ IsFiniteSet(Nodes)
  /\ Malformed \notin Sensors /\ MaxLines \in Nat
  /\ RunAvgLength \in Nat \ {0} /\ MaxMeas \in Nat
  /\ MinTemp \in Int /\ MaxTemp \in Int /\ MinTemp <= MaxTemp
  /\ (MinTemp + MaxTemp) % 2 = 0 /\ Temps \subseteq Int

VARIABLES
  exists, head, prev, next, element, heap, objects, value, held,   (* DPList *)
  map,        (* what is still to be read of room_sensor.map                *)
  pc,         (* control point; the end is "freed", or "empty" when the     *)
              (* list was, or "exit" or "failed" before it                  *)
  e,          (* the element the parser has just made                       *)
  lost,       (* history: the elements whose node got no memory             *)
  handled,    (* history: the records read from sensor_data                 *)
  events      (* the lines printed about them: <<number of record, kind>>   *)

list == <<exists, head, prev, next, element, heap, objects, value, held>>
vars == <<list, map, pc, e, lost, handled, events>>

Element == [sensor_id : Sensors, room_id : 1..MaxLines,
            window : [1..RunAvgLength -> Int], last_modified : Nat]

L == INSTANCE DPList WITH Indices <- {0}, Values <- Element

Init ==
  /\ L!ListInit
  /\ \E n \in 0..MaxLines : \E text \in [1..n -> Sensors \cup {Malformed}] :
       map = [i \in 1..n |-> <<i, text[i]>>]
  /\ pc = "fopen" /\ e = NULL /\ lost = {} /\ handled = <<>> /\ events = <<>>

-----------------------------------------------------------------------------
(* The calls of the list library                                           *)

dpl_create  == L!Create
dpl_size    == L!Size
dpl_free(f) == L!Free(f)
dpl_insert_at_index(o, i)     == L!Insert(o, i, FALSE)
dpl_get_reference_at_index(i) == L!ReferenceAt(i)
dpl_get_element_at_index(i) ==
  LET n == dpl_get_reference_at_index(i) IN IF n = NULL THEN NULL ELSE element[n]

-----------------------------------------------------------------------------
(* main opens both files, or returns -1; the parser makes its list, or     *)
(* ends on the NULL of the malloc in dpl_create.                           *)
OpenFiles ==
  /\ pc = "fopen"
  /\ \/ pc' = "map" /\ dpl_create
     \/ pc' = "exit" /\ UNCHANGED list
  /\ UNCHANGED <<map, e, lost, handled, events>>

(* fscanf finds a room and a sensor: an element in the middle of the range *)
(* is made (without memory the program exits) ...                          *)
MakeElement ==
  /\ pc = "map" /\ map # <<>> /\ Head(map)[2] # Malformed
  /\ \/ /\ pc' = "insert"
        /\ \E o \in Objects :
             /\ L!ClientMakes(o, [sensor_id |-> Head(map)[2], room_id |-> Head(map)[1],
                                  window |-> [i \in 1..RunAvgLength |-> (MaxTemp + MinTemp) \div 2],
                                  last_modified |-> 0])
             /\ e' = o
     \/ pc' = "failed" /\ UNCHANGED <<list, e>>
  /\ UNCHANGED <<map, lost, handled, events>>

(* Mutant: the element goes behind the first one.                          *)
InsertSecond ==
  /\ pc = "insert" /\ dpl_insert_at_index(e, 1)
  /\ pc' = "map" /\ e' = NULL /\ map' = Tail(map)
  /\ UNCHANGED <<lost, handled, events>>

(* ... and goes to the front of the list, without a copy.  When malloc has *)
(* no node for it the parser, which does not look at the result, forgets   *)
(* the element all the same.                                               *)
InsertElement ==
  /\ pc = "insert"
  /\ \/ dpl_insert_at_index(e, 0) /\ UNCHANGED lost
     \/ lost' = lost \cup {e} /\ UNCHANGED list
  /\ pc' = "map" /\ e' = NULL /\ map' = Tail(map)
  /\ UNCHANGED <<handled, events>>

MapRead ==
  /\ pc = "map" /\ (map # <<>> => Head(map)[2] = Malformed)
  /\ pc' = "record"
  /\ UNCHANGED <<list, map, e, lost, handled, events>>

-----------------------------------------------------------------------------
(* The indices the search for a record's sensor would stop at.             *)
Matches(id) ==
  {i \in 0..(dpl_size - 1) : value[dpl_get_element_at_index(i)].sensor_id = id}

(* RUN_AVG_LENGTH times get_running_avg.                                   *)
WindowSum(w) ==
  LET sum[i \in 0..RunAvgLength] == IF i = 0 THEN 0 ELSE sum[i - 1] + w[i]
  IN  sum[RunAvgLength]

(* The line, if any, about record n once its sensor's window is w.         *)
Line(n, w) ==
  IF WindowSum(w) > MaxTemp * RunAvgLength THEN <<<<n, "hot">>>>
  ELSE IF WindowSum(w) < MinTemp * RunAvgLength THEN <<<<n, "cold">>>>
  ELSE <<>>

(* A record of a sensor of the list changes the first element found ...    *)
ReadRecord(id, temp) ==
  LET n   == Len(handled) + 1
      tmp == dpl_get_element_at_index(Min(Matches(id)))
      w   == [i \in 1..RunAvgLength |-> IF i = 1 THEN temp ELSE value[tmp].window[i - 1]]
  IN /\ pc = "record" /\ n <= MaxMeas /\ Matches(id) # {}
     /\ value' = [value EXCEPT ![tmp].window = w, ![tmp].last_modified = n]
     /\ events' = events \o Line(n, w)
     /\ handled' = Append(handled, [id |-> id, value |-> temp])
     /\ UNCHANGED <<exists, head, prev, next, element, heap, objects, held, map, pc, e, lost>>

(* ... and one of another sensor is only named as wrong.                   *)
ReadWrong(id, temp) ==
  /\ pc = "record" /\ Len(handled) < MaxMeas /\ Matches(id) = {}
  /\ events' = Append(events, <<Len(handled) + 1, "invalid">>)
  /\ handled' = Append(handled, [id |-> id, value |-> temp])
  /\ UNCHANGED <<list, map, pc, e, lost>>

(* fread returns less than a record; the sensors are printed.              *)
PrintSensors ==
  /\ pc = "record" /\ pc' = "free"
  /\ UNCHANGED <<list, map, e, lost, handled, events>>

(* Mutant: the elements are not freed with the list.                       *)
FreeNodesOnly ==
  /\ pc = "free" /\ dpl_free(FALSE)
  /\ pc' = IF head = NULL THEN "empty" ELSE "freed"
  /\ UNCHANGED <<map, e, lost, handled, events>>

(* datamgr_free                                                            *)
FreeList ==
  /\ pc = "free" /\ dpl_free(TRUE)
  /\ pc' = IF head = NULL THEN "empty" ELSE "freed"
  /\ UNCHANGED <<map, e, lost, handled, events>>

Next ==
  \/ OpenFiles \/ MakeElement \/ InsertElement \/ MapRead \/ PrintSensors \/ FreeList
  \/ \E id \in Sensors, temp \in Temps : ReadRecord(id, temp) \/ ReadWrong(id, temp)

Spec == Init /\ [][Next]_vars

-----------------------------------------------------------------------------
(* Properties                                                              *)

(* Through every call the parser makes, the list stays well linked and     *)
(* owns every element but the one the parser has in hand and those whose   *)
(* node got no memory: they leak, and nothing else.  When main gets to its *)
(* end or does not get to its list, nothing but those is on the heap; the  *)
(* exit of a parser without memory for an element leaves the list there.   *)
ListOwnsAll ==
  /\ L!WellLinked /\ L!ElementsOwned
  /\ held = lost \cup ({e} \ {NULL}) /\ e \notin lost
  /\ pc \in {"freed", "empty", "exit"} => heap = {} /\ objects = lost

(* What the data manager of the gateway does over a sequence of sensors,   *)
(* this program does over its heap: same element found, same windows, same *)
(* reports.  A run without sensors, which ends the gateway ("exit"), ends  *)
(* here like any other.                                                    *)
Manager == INSTANCE DataMgr WITH
  dpc <- CASE pc \in {"fopen", "exit", "map", "insert"} -> "map"
           [] pc \in {"record", "free"} -> "poll"
           [] pc = "freed" -> "freed"
           [] pc \in {"empty", "failed"} -> "exit",
  data_list <- [i \in 1..L!Size |-> value[L!ElementAt(i - 1)]]

ImplementsDataMgr == Manager!Spec
=============================================================================
