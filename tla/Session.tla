------------------------------ MODULE Session ------------------------------
(***************************************************************************)
(* One connection: a sensor node (project/sensor_node.c) sends Loops       *)
(* measurements, each as three fields, over TCP to its client_handler      *)
(* (project/connmgr.c), which receives field by field with tcp_receive     *)
(* (lib/tcpsock.c), watches the clock, and inserts what it received into   *)
(* the shared buffer, which may have no memory for it.                     *)
(*                                                                         *)
(* TCP is a stream of bytes: a field is two halves, and a recv may return  *)
(* one of them.  A half of a field is <<measurement, field, half>>.        *)
(***************************************************************************)
EXTENDS Naturals, Sequences, FiniteSets

CONSTANTS
  Loops,       (* the measurements the node means to send                   *)
  Timeout,     (* TIMEOUT, in seconds                                       *)
  MaxTime      (* bound: the clock                                          *)

ASSUME SessionAssumption == Loops \in Nat /\ Timeout \in Nat /\ MaxTime \in Nat

Fields == <<"id", "value", "ts">>
Half   == (1..Loops) \X (1..3) \X (1..2)
Field(n, f) == <<<<n, f, 1>>, <<n, f, 2>>>>

VARIABLES
  now,              (* the clock, in seconds                                *)
  npc, loop, field, (* the node: control point, measurement, next field     *)
  stream, peer,     (* the bytes under way; "open", "closed" or "reset"     *)
  hpc,              (* control point of the handler; recv into field 1 .. 3 *)
  data,             (* the handler's sensor_data_t, half by half            *)
  start_time,       (* when the handler began to wait for the measurement   *)
  result,           (* how its loop ended                                   *)
  inserted,         (* history: the records given to sbuffer_insert, and    *)
  dropped,          (* which of them it had no memory for                   *)
  cut,              (* history: the record that the handler was receiving   *)
                    (* when a recv first returned a part of a field, or 0   *)
  log               (* the log messages about this client                   *)

nodeVars    == <<npc, loop, field>>
insertVars  == <<inserted, dropped>>
handlerVars == <<hpc, data, start_time, result, insertVars, cut, log>>
vars == <<now, nodeVars, stream, peer, handlerVars>>

Garbage == <<0, 0, 0>>
Value   == Half \cup {Garbage}
Record  == [1..3 -> Value \X Value]

TypeOK ==
  /\ now \in 0..MaxTime /\ start_time \in 0..MaxTime
  /\ npc \in {"send", "sleep", "ended"} /\ loop \in 1..(Loops + 1) /\ field \in 1..3
  /\ stream \in Seq(Half) /\ peer \in {"open", "closed", "reset"}
  /\ hpc \in {"recv1", "recv2", "recv3", "check", "insert", "close", "ended"}
  /\ data \in Record /\ inserted \in Seq(Record)
  /\ dropped \in SUBSET (1..Len(inserted)) /\ cut \in 0..(Len(inserted) + 1)
  /\ result \in {"none", "closed", "timeout", "error"}
  /\ log \in Seq({"connected", "inserted", "terminated", "timeout", "error"})

Init ==
  /\ now = 0 /\ start_time = 0
  /\ npc = (IF Loops = 0 THEN "ended" ELSE "send") /\ loop = 1 /\ field = 1
  /\ stream = <<>> /\ peer = "open"
  /\ hpc = "recv1" /\ data = [f \in 1..3 |-> <<Garbage, Garbage>>]
  /\ result = "none" /\ inserted = <<>> /\ dropped = {} /\ cut = 0 /\ log = <<>>

HGoto(from, to) == hpc = from /\ hpc' = to

Tick ==
  /\ now < MaxTime /\ now' = now + 1
  /\ UNCHANGED <<nodeVars, stream, peer, handlerVars>>

-----------------------------------------------------------------------------
(* The sensor node                                                         *)

(* Mutant: the node sends the time stamp first.                            *)
SendFieldSwapped ==
  /\ npc = "send" /\ peer = "open"
  /\ stream' = stream \o Field(loop, 4 - field)
  /\ IF field = 3 THEN npc' = "sleep" /\ field' = 1 /\ loop' = loop + 1
                  ELSE field' = field + 1 /\ UNCHANGED <<npc, loop>>
  /\ UNCHANGED <<now, peer, handlerVars>>

(* tcp_send of the id, the value or the time stamp.                        *)
SendField ==
  /\ npc = "send" /\ peer = "open"
  /\ stream' = stream \o Field(loop, field)
  /\ IF field = 3 THEN npc' = "sleep" /\ field' = 1 /\ loop' = loop + 1
                  ELSE field' = field + 1 /\ UNCHANGED <<npc, loop>>
  /\ UNCHANGED <<now, peer, handlerVars>>

(* sleep(sleep_time), for as long as the node was told to; after the last  *)
(* measurement the node closes the connection.                             *)
WakeUp ==
  /\ npc = "sleep" /\ peer = "open"
  /\ IF loop <= Loops THEN npc' = "send" /\ UNCHANGED peer ELSE npc' = "ended" /\ peer' = "closed"
  /\ UNCHANGED <<now, loop, field, stream, handlerVars>>

(* The node is stopped, or the connection breaks, which drops what is      *)
(* under way.                                                              *)
Vanish ==
  /\ peer = "open" /\ npc' = "ended"
  /\ \/ peer' = "closed" /\ UNCHANGED stream
     \/ peer' = "reset" /\ stream' = <<>>
  /\ UNCHANGED <<now, loop, field, handlerVars>>

(* A node whose handler closed the socket fails to send and exits.         *)
SendFails ==
  /\ npc # "ended" /\ peer # "open" /\ npc' = "ended"
  /\ UNCHANGED <<now, loop, field, stream, peer, handlerVars>>

-----------------------------------------------------------------------------
(* client_handler                                                          *)

Pc(f) == CASE f = 1 -> "recv1" [] f = 2 -> "recv2" [] f = 3 -> "recv3" [] f = 4 -> "check"

(* recv copies what there is, up to the size of the field, or less; the    *)
(* handler does not look at the number of bytes.                           *)
ReceiveField(f) ==
  /\ stream # <<>> /\ HGoto(Pc(f), Pc(f + 1))
  /\ \E n \in 1..2 :
       /\ n <= Len(stream)
       /\ data' = [data EXCEPT ![f] = IF n = 2 THEN <<stream[1], stream[2]>> ELSE <<stream[1], @[2]>>]
       /\ stream' = SubSeq(stream, n + 1, Len(stream))
       /\ cut' = IF cut = 0 /\ n = 1 THEN Len(inserted) + 1 ELSE cut
  /\ log' = IF log = <<>> THEN <<"connected">> ELSE log
  /\ UNCHANGED <<now, nodeVars, peer, start_time, result, insertVars>>

(* Mutant: the end of the connection is noticed while data is under way.   *)
ReceiveEndEarly(f) ==
  /\ peer # "open" /\ HGoto(Pc(f), "close")
  /\ result' = IF peer = "closed" THEN "closed" ELSE "error"
  /\ UNCHANGED <<now, nodeVars, stream, peer, data, start_time, insertVars, cut, log>>

(* Mutant: the 0 recv returns at the end of the stream is no error.        *)
ReceiveEndMissed(f) ==
  /\ stream = <<>> /\ peer = "reset" /\ HGoto(Pc(f), "close")
  /\ result' = "error"
  /\ UNCHANGED <<now, nodeVars, stream, peer, data, start_time, insertVars, cut, log>>

(* recv returns 0 or an error once nothing is left to receive.             *)
ReceiveEnd(f) ==
  /\ stream = <<>> /\ peer # "open" /\ HGoto(Pc(f), "close")
  /\ result' = IF peer = "closed" THEN "closed" ELSE "error"
  /\ UNCHANGED <<now, nodeVars, stream, peer, data, start_time, insertVars, cut, log>>

(* The clock is looked at when all three fields are there.                 *)
CheckTimeout ==
  /\ IF now - start_time > Timeout
     THEN HGoto("check", "close") /\ result' = "timeout"
     ELSE HGoto("check", "insert") /\ UNCHANGED result
  /\ UNCHANGED <<now, nodeVars, stream, peer, data, start_time, insertVars, cut, log>>

(* sbuffer_insert, which stores the record or finds no memory for it;      *)
(* log_data_insert, which calls it inserted in either case; and the start  *)
(* of the next turn.                                                       *)
Insert ==
  /\ HGoto("insert", "recv1")
  /\ inserted' = Append(inserted, data) /\ log' = Append(log, "inserted")
  /\ dropped' \in {dropped, dropped \cup {Len(inserted')}}
  /\ start_time' = now
  /\ UNCHANGED <<now, nodeVars, stream, peer, data, result, cut>>

(* Mutant: the end is logged without its kind.                             *)
CloseUnclassified ==
  /\ HGoto("close", "ended")
  /\ log' = Append(log, "closed")
  /\ peer' = IF peer = "open" THEN "closed" ELSE peer
  /\ UNCHANGED <<now, nodeVars, stream, data, start_time, result, insertVars, cut>>

(* The end of the connection is classified and logged; tcp_close.          *)
Close ==
  /\ HGoto("close", "ended")
  /\ log' = Append(log, CASE result = "closed" -> "terminated"
                          [] result = "timeout" -> "timeout" [] OTHER -> "error")
  /\ peer' = IF peer = "open" THEN "closed" ELSE peer
  /\ UNCHANGED <<now, nodeVars, stream, data, start_time, result, insertVars, cut>>

Node    == SendField \/ WakeUp \/ Vanish \/ SendFails
Handler == CheckTimeout \/ Insert \/ Close \/ \E f \in 1..3 : ReceiveField(f) \/ ReceiveEnd(f)

Next == Tick \/ Node \/ Handler

SafeSpec == Init /\ [][Next]_vars

(* The scheduler runs the handler and time passes.  The node may sleep,    *)
(* or hang, for ever.                                                      *)
Spec == SafeSpec /\ WF_vars(Handler) /\ WF_vars(Tick)

-----------------------------------------------------------------------------
(* Properties                                                              *)

Measurement(n) == [f \in 1..3 |-> Field(n, f)]

(* What a client's handler gives to sbuffer_insert are the node's          *)
(* measurements, in the order they were sent, without a gap; up to the     *)
(* record it was receiving when recv first returned a part of a field.     *)
StoredAsSent ==
  /\ TypeOK
  /\ \A i \in 1..Len(inserted) :
       cut = 0 \/ i < cut => i <= Loops /\ inserted[i] = Measurement(i)

(* What the shared buffer has of this client.                              *)
Kept == {inserted[i] : i \in (1..Len(inserted)) \ dropped}

(* When the handler ends because the node closed the connection, it has    *)
(* received every byte; and if each recv returned a whole field, what is   *)
(* missing of the measurements the node sent completely is exactly what    *)
(* sbuffer_insert had no memory for.  When it ends for a timeout, the late *)
(* one was received whole and is the first not given to sbuffer_insert.    *)
NothingSilentlyLost ==
  hpc = "ended" =>
    /\ result = "closed" =>
         stream = <<>> /\ (cut = 0 => {n \in 1..(loop - 1) : Measurement(n) \notin Kept} = dropped)
    /\ result = "timeout" /\ cut = 0 => data = Measurement(Len(inserted) + 1)

Lines == {i \in 1..Len(log) : log[i] = "inserted"}

(* The log of a client tells its story, whole fields or not: the           *)
(* connection, one line for each record given to sbuffer_insert (so that   *)
(* it calls the dropped ones inserted, too), and one end, which is a       *)
(* time-out only when a measurement took too long and a termination only   *)
(* when the node left.                                                     *)
LogTellsAll ==
  /\ inserted # <<>> => log[1] = "connected"
  /\ \A i \in 2..Len(log) : log[i] # "connected"
  /\ Cardinality(Lines) = Len(inserted)
  /\ hpc = "ended" <=> log # <<>> /\ log[Len(log)] \in {"terminated", "timeout", "error"}
  /\ log # <<>> /\ log[Len(log)] = "timeout" => now - start_time > Timeout
  /\ log # <<>> /\ log[Len(log)] = "terminated" => npc = "ended" \/ loop > Loops

(* What makes these inductive: until recv returns a part of a field, the   *)
(* halves under way follow each other from the one the handler expects to  *)
(* the one the node sends next.                                            *)
After(h) ==
  IF h[3] = 1 THEN <<h[1], h[2], 2>>
  ELSE IF h[2] = 3 THEN <<h[1] + 1, 1, 1>> ELSE <<h[1], h[2] + 1, 1>>

(* The fields of the measurement that the handler has.                     *)
Have == CASE hpc = "recv1" -> 0 [] hpc = "recv2" -> 1 [] hpc = "recv3" -> 2 [] OTHER -> 3
Expected ==
  IF Have = 3 THEN <<Len(inserted) + 2, 1, 1>> ELSE <<Len(inserted) + 1, Have + 1, 1>>

InOrder == cut = 0 =>
  /\ \A i \in 1..(Len(stream) - 1) : stream[i + 1] = After(stream[i])
  /\ stream # <<>> => After(stream[Len(stream)]) = <<loop, field, 1>>
  /\ hpc \notin {"close", "ended"} =>
       /\ peer # "reset" => Expected = IF stream = <<>> THEN <<loop, field, 1>> ELSE stream[1]
       /\ \A f \in 1..Have : data[f] = Field(Len(inserted) + 1, f) /\ Len(inserted) < Loops

NodePhase ==
  /\ npc = "send" => loop <= Loops
  /\ npc = "sleep" => field = 1
  /\ hpc # "ended" /\ peer # "open" => npc = "ended"
  /\ peer = "reset" => stream = <<>>

EndKnown ==
  /\ result # "none" <=> hpc \in {"close", "ended"}
  /\ result = "closed" => stream = <<>> /\ peer # "open" /\ npc = "ended"
  /\ result = "closed" /\ cut = 0 => Len(inserted) = loop - 1
  /\ result = "timeout" => now - start_time > Timeout
  /\ result = "timeout" /\ cut = 0 => data = Measurement(Len(inserted) + 1)

Story ==
  /\ log = <<>> => inserted = <<>> /\ hpc \in {"recv1", "close"}
  /\ log # <<>> /\ log[1] # "connected" => hpc = "ended" /\ Len(log) = 1 /\ inserted = <<>>
  /\ \A i \in 2..Len(log) : log[i] # "connected"
  /\ \A i \in 1..Len(log) :
       hpc # "ended" \/ i < Len(log) => log[i] \in {"connected", "inserted"}
  /\ hpc = "ended" =>
       /\ log # <<>> /\ log[Len(log)] \in {"terminated", "timeout", "error"}
       /\ log[Len(log)] = "terminated" => result = "closed"
       /\ log[Len(log)] = "timeout" => result = "timeout"
  /\ Cardinality(Lines) = Len(inserted)

IInv == StoredAsSent /\ InOrder /\ NodePhase /\ EndKnown /\ Story

(* A handler whose node is gone ends.                                      *)
EndsWithNode == npc = "ended" ~> hpc = "ended"

(* recv "tries to receive the total '*buf_size' bytes" (lib/tcpsock.h:87), *)
(* which the handler takes for granted: every record is a measurement.     *)
WholeRecords == \A i \in 1..Len(inserted) : \E n \in 1..Loops : inserted[i] = Measurement(n)

(* start_time is "used to detect timeout" (connmgr.c:44): a client that    *)
(* has been silent for longer than TIMEOUT is found out.                   *)
Silent == hpc \in {"recv1", "recv2", "recv3"} /\ stream = <<>> /\ now - start_time > Timeout
SilentTimesOut == Silent ~> hpc = "ended"
=============================================================================
