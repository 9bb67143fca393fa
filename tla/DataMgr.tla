------------------------------ MODULE DataMgr ------------------------------
(***************************************************************************)
(* The data manager of the gateway (project/datamgr.c): it builds a list   *)
(* of sensors from room_sensor.map, then takes the measurements from the   *)
(* shared buffer one by one, keeps a window of the last RUN_AVG_LENGTH of  *)
(* each sensor and reports a running average out of range.                 *)
(*                                                                         *)
(* Temperatures are integers and averages are compared as sums: the        *)
(* rounding of float is left out.  keep_running is left out: it is always  *)
(* 1, for nothing installs handle_signal.                                  *)
(***************************************************************************)
EXTENDS Integers, Sequences

CONSTANTS
  Sensors,        (* the sensor ids in the map and in the records           *)
  Malformed,      (* a line of the map that fscanf cannot parse             *)
  MaxLines,       (* bound: the lines of the map                            *)
  RunAvgLength,   (* RUN_AVG_LENGTH                                         *)
  MinTemp, MaxTemp,   (* SET_MIN_TEMP, SET_MAX_TEMP                         *)
  Temps,          (* the temperatures that are measured                     *)
  MaxMeas         (* bound: the measurements                                *)

ASSUME DataMgrAssumption ==
  /\ Malformed \notin Sensors /\ MaxLines \in Nat
  /\ RunAvgLength \in Nat \ {0} /\ MaxMeas \in Nat
  /\ MinTemp \in Int /\ MaxTemp \in Int /\ MinTemp <= MaxTemp
  /\ (MinTemp + MaxTemp) % 2 = 0 /\ Temps \subseteq Int

VARIABLES
  map,        (* what is still to be read of room_sensor.map, <<line, text>> *)
  dpc,        (* control point: reading the map, polling, freed, or the     *)
              (* whole process ended by ERROR_HANDLER                       *)
  data_list,  (* the sensor list, first element first                       *)
  handled,    (* history: the measurements taken from the buffer            *)
  events      (* the log messages about them: <<number of record, kind>>    *)

vars == <<map, dpc, data_list, handled, events>>

Window  == [1..RunAvgLength -> Int]
Element == [sensor_id : Sensors, room_id : 1..MaxLines, window : Window, last_modified : Nat]
Record  == [id : Sensors, value : Temps]
Kinds   == {"hot", "cold", "invalid"}

TypeOK ==
  /\ map \in Seq((1..MaxLines) \X (Sensors \cup {Malformed}))
  /\ dpc \in {"map", "poll", "freed", "exit"}
  /\ data_list \in Seq(Element)
  /\ handled \in Seq(Record)
  /\ events \in Seq((1..MaxMeas) \X Kinds)

(* ERROR_HANDLER ends the process when the map does not open.              *)
Init ==
  /\ \E n \in 0..MaxLines : \E text \in [1..n -> Sensors \cup {Malformed}] :
       map = [i \in 1..n |-> <<i, text[i]>>]
  /\ dpc \in {"map", "exit"} /\ data_list = <<>> /\ handled = <<>> /\ events = <<>>

(* "set values in range so average moves from here" (datamgr.c:145)        *)
Preset == (MaxTemp + MinTemp) \div 2

(* RUN_AVG_LENGTH times the running average.                               *)
WindowSum(w) ==
  LET sum[i \in 0..RunAvgLength] == IF i = 0 THEN 0 ELSE sum[i - 1] + w[i]
  IN  sum[RunAvgLength]

-----------------------------------------------------------------------------
(* The element of a line of the map goes to the front of the list.         *)
ReadLine ==
  /\ dpc = "map" /\ map # <<>> /\ Head(map)[2] # Malformed
  /\ data_list' = <<[sensor_id |-> Head(map)[2], room_id |-> Head(map)[1],
                     window |-> [i \in 1..RunAvgLength |-> Preset], last_modified |-> 0]>>
                  \o data_list
  /\ map' = Tail(map)
  /\ UNCHANGED <<dpc, handled, events>>

(* ... unless malloc fails: for the element, which ends the process, ...   *)
NoElement ==
  /\ dpc = "map" /\ map # <<>> /\ Head(map)[2] # Malformed
  /\ dpc' = "exit"
  /\ UNCHANGED <<map, data_list, handled, events>>

(* ... or for its node: dpl_insert_at_index returns NULL and leaves the    *)
(* list as it is, nobody looks, and the sensor of that line is unknown.    *)
NoNode ==
  /\ dpc = "map" /\ map # <<>> /\ Head(map)[2] # Malformed
  /\ map' = Tail(map)
  /\ UNCHANGED <<dpc, data_list, handled, events>>

(* fscanf stops at the end of the file or at a line it cannot parse.       *)
MapRead ==
  /\ dpc = "map" /\ (map # <<>> => Head(map)[2] = Malformed)
  /\ dpc' = "poll"
  /\ UNCHANGED <<map, data_list, handled, events>>

(* The elements of the list that match; the code takes the first, the      *)
(* mutant FoundLast the last.                                              *)
Matches(id) == {i \in 1..Len(data_list) : data_list[i].sensor_id = id}
FoundLast(id) == CHOOSE i \in Matches(id) : \A j \in Matches(id) : i >= j
Found(id) == CHOOSE i \in Matches(id) : \A j \in Matches(id) : i <= j

(* The window moves by one; the new measurement comes first.               *)
Shift(w, v) == [i \in 1..RunAvgLength |-> IF i = 1 THEN v ELSE w[i - 1]]

(* Mutant: the report looks at the average of before the measurement.      *)
ReportLate(n, w) ==
  LET sum == WindowSum([i \in 1..RunAvgLength |-> w[IF i = RunAvgLength THEN i ELSE i + 1]])
  IN  IF sum > MaxTemp * RunAvgLength THEN Append(events, <<n, "hot">>)
      ELSE IF sum < MinTemp * RunAvgLength THEN Append(events, <<n, "cold">>)
      ELSE events

(* The message, if any, about record n once its sensor's window is w.      *)
Report(n, w) ==
  IF WindowSum(w) > MaxTemp * RunAvgLength THEN Append(events, <<n, "hot">>)
  ELSE IF WindowSum(w) < MinTemp * RunAvgLength THEN Append(events, <<n, "cold">>)
  ELSE events

(* A record of a sensor in the map updates the sensor's element ...        *)
HandleMapped(r) ==
  LET n == Len(handled) + 1
      i == Found(r.id)
      w == Shift(data_list[i].window, r.value)
  IN /\ dpc = "poll" /\ Matches(r.id) # {} /\ n <= MaxMeas
     /\ data_list' = [data_list EXCEPT ![i].window = w, ![i].last_modified = n]
     /\ events' = Report(n, w)
     /\ handled' = Append(handled, r)
     /\ UNCHANGED <<map, dpc>>

(* ... and one of another sensor is only logged as invalid.                *)
HandleUnmapped(r) ==
  /\ dpc = "poll" /\ Matches(r.id) = {} /\ Len(handled) < MaxMeas
  /\ events' = Append(events, <<Len(handled) + 1, "invalid">>)
  /\ handled' = Append(handled, r)
  /\ UNCHANGED <<map, dpc, data_list>>

(* The end-of-stream record: the sensors are printed and the list freed;   *)
(* an empty list makes datamgr_print_sensors end the whole process.        *)
EndOfStream ==
  /\ dpc = "poll"
  /\ dpc' = IF data_list = <<>> THEN "exit" ELSE "freed"
  /\ data_list' = <<>>
  /\ UNCHANGED <<map, handled, events>>

Next ==
  \/ ReadLine \/ NoElement \/ NoNode \/ MapRead \/ EndOfStream
  \/ \E r \in Record : HandleMapped(r) \/ HandleUnmapped(r)

Spec == Init /\ [][Next]_vars

-----------------------------------------------------------------------------
(* Properties                                                              *)

(* The measurements of sensor s among the first n records of h, and the    *)
(* k-th latest of them; before the first one the sensor counts as at       *)
(* Preset.                                                                 *)
Of(h, s, n) ==
  LET of[m \in 0..n] == IF m = 0 THEN <<>>
                        ELSE IF h[m].id = s THEN Append(of[m - 1], h[m])
                        ELSE of[m - 1]
  IN  of[n]
Latest(h, s, n, k) ==
  LET m == Of(h, s, n) IN IF k <= Len(m) THEN m[Len(m) + 1 - k].value ELSE Preset
Recent(h, s, n) == [k \in 1..RunAvgLength |-> Latest(h, s, n, k)]

(* In the list, the first element of a sensor is that of the sensor's last *)
(* line of the map (that got its memory), its window is the last           *)
(* RUN_AVG_LENGTH measurements of the sensor, and elements of earlier      *)
(* lines for that sensor are dead.                                         *)
WindowsRecent == TypeOK /\
  (dpc = "poll" => \A i \in 1..Len(data_list) :
    LET e == data_list[i]
        first == \A j \in 1..(i - 1) : data_list[j].sensor_id # e.sensor_id
    IN /\ \A j \in 1..(i - 1) : data_list[j].room_id > e.room_id
       /\ e.window = IF first THEN Recent(handled, e.sensor_id, Len(handled))
                     ELSE [k \in 1..RunAvgLength |-> Preset]
       /\ e.last_modified = IF first /\ \E n \in 1..Len(handled) : handled[n].id = e.sensor_id
                            THEN CHOOSE n \in 1..Len(handled) :
                                   /\ handled[n].id = e.sensor_id
                                   /\ \A m \in (n + 1)..Len(handled) : handled[m].id # e.sensor_id
                            ELSE 0)

(* The sensors of the lines fscanf got to and malloc had memory for.       *)
Known == {data_list[i].sensor_id : i \in 1..Len(data_list)}

(* A record is logged exactly when its sensor is unknown, or the average   *)
(* of the sensor's last RUN_AVG_LENGTH measurements is out of range.       *)
EventsExact ==
  dpc = "poll" => \A n \in 1..Len(handled) :
    LET s == handled[n].id
        logged == {k \in Kinds : \E i \in 1..Len(events) : events[i] = <<n, k>>}
        sum == WindowSum(Recent(handled, s, n))
    IN logged = IF s \notin Known THEN {"invalid"}
                ELSE IF sum > MaxTemp * RunAvgLength THEN {"hot"}
                ELSE IF sum < MinTemp * RunAvgLength THEN {"cold"} ELSE {}
=============================================================================
