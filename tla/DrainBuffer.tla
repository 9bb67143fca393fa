---------------------------- MODULE DrainBuffer ----------------------------
(***************************************************************************)
(* The draining buffer of the fourth lab (startcodeplab4): one writer      *)
(* thread fills the shared queue from a file, several reader threads empty *)
(* it into one output file, and a single end-of-stream record is handed    *)
(* from reader to reader to stop them all.                                 *)
(*                                                                         *)
(* Everything sbuffer_insert and sbuffer_remove do to the list they do     *)
(* while they hold buffer->mutex, so each is one action on a queue;        *)
(* eos_count is shared by the readers without a lock.  Of the calls that   *)
(* may fail the program looks at the results of fopen only.                *)
(***************************************************************************)
EXTENDS Naturals, Sequences, FiniteSets

CONSTANTS
  Readers,        (* the reader threads; NUM_READERS is their number        *)
  Last,           (* the input file holds the records 1 .. Last             *)
  CallsMayFail    (* whether malloc, pthread_create, fopen, fprintf and     *)
                  (* fflush can fail                                        *)

ASSUME DrainBufferAssumption ==
  /\ IsFiniteSet(Readers) /\ Readers # {}
  /\ Last \in Nat /\ CallsMayFail \in BOOLEAN

Eos == 0   (* the record whose id is 0                                      *)
Records == 1..Last

VARIABLES
  initialised,(* whether sbuffer_init had memory for the buffer             *)
  queue,      (* the list from buffer->head to buffer->tail                 *)
  waiting,    (* the readers inside pthread_cond_wait                       *)
  dropped,    (* the records lost by an insertion, fprintf or fflush that   *)
              (* failed                                                     *)
  wpc, record,(* control point of the writer, last record it read           *)
  rpc, data,  (* control point and local variable of each reader            *)
  eos_count, seen,  (* the static counter, and what a reader's ++ has read  *)
  file,       (* the records written to the output file                     *)
  mpc,        (* control point of main                                      *)
  freed,      (* whether main has called sbuffer_free                       *)
  exited      (* whether the process has ended early                        *)

listVars   == <<initialised, queue, waiting>>
bufferVars == <<listVars, dropped>>
writerVars == <<wpc, record>>
readerVars == <<rpc, data, seen, eos_count>>
mainVars   == <<mpc, freed, exited>>
vars == <<bufferVars, writerVars, readerVars, file, mainVars>>

TypeOK ==
  /\ initialised \in BOOLEAN /\ queue \in Seq(Records \cup {Eos})
  /\ waiting \in SUBSET Readers /\ dropped \in SUBSET (Records \cup {Eos})
  /\ wpc \in {"open", "records", "eos", "ended", "not_created"} /\ record \in 0..Last
  /\ rpc \in [Readers -> {"remove", "write", "load", "store", "reinsert", "ended", "not_created"}]
  /\ data \in [Readers -> Records \cup {Eos}]
  /\ eos_count \in Nat /\ seen \in [Readers -> Nat]
  /\ file \in Seq(Records)
  /\ mpc \in {"join", "test", "passed", "failed", "untested"}
  /\ freed \in BOOLEAN /\ exited \in BOOLEAN

(* main up to its joins.  It leaves when the output file does not open; it *)
(* does not look at the results of sbuffer_init and pthread_create.        *)
Init ==
  /\ queue = <<>> /\ waiting = {} /\ dropped = {} /\ file = <<>> /\ record = 0
  /\ \/ initialised = TRUE /\ wpc = "open" /\ rpc = [r \in Readers |-> "remove"] /\ exited = FALSE
     \/ /\ CallsMayFail /\ initialised \in BOOLEAN /\ wpc \in {"open", "not_created"}
        /\ rpc \in [Readers -> {"remove", "not_created"}] /\ exited \in BOOLEAN
  /\ data = [r \in Readers |-> Eos] /\ eos_count = 0 /\ seen = [r \in Readers |-> 0]
  /\ mpc = "join" /\ freed = FALSE

RGoto(r, from, to) == rpc[r] = from /\ rpc' = [rpc EXCEPT ![r] = to]

-----------------------------------------------------------------------------
(* Mutant: the record is put in front.                                     *)
InsertFront(d) ==
  /\ queue' = <<d>> \o queue /\ UNCHANGED <<initialised, dropped>>
  /\ waiting' \in IF waiting = {} THEN {{}} ELSE {waiting \ {r} : r \in waiting}

(* Mutant: no signal.                                                      *)
InsertSilently(d) ==
  queue' = Append(queue, d) /\ UNCHANGED <<initialised, waiting, dropped>>

(* sbuffer_insert: the record goes to the tail and one waiting reader, if  *)
(* there is any, is signalled.  The callers ignore a failure, for want of  *)
(* memory or of a buffer.                                                  *)
Insert(d) ==
  \/ (CallsMayFail \/ ~initialised) /\ dropped' = dropped \cup {d} /\ UNCHANGED listVars
  \/ /\ initialised /\ queue' = Append(queue, d) /\ UNCHANGED <<initialised, dropped>>
     /\ waiting' \in IF waiting = {} THEN {{}} ELSE {waiting \ {r} : r \in waiting}

(* sbuffer_remove on a queue that is not empty; a record with id 0 makes   *)
(* the reader leave its loop.                                              *)
Remove(r) ==
  /\ initialised /\ queue # <<>> /\ r \notin waiting
  /\ RGoto(r, "remove", IF Head(queue) = Eos THEN "load" ELSE "write")
  /\ data' = [data EXCEPT ![r] = Head(queue)]
  /\ queue' = Tail(queue)
  /\ UNCHANGED <<initialised, waiting, dropped, writerVars, eos_count, seen, file, mainVars>>

(* sbuffer_remove without a buffer: its failure is ignored, and the reader *)
(* takes whatever its variable holds for a record.                         *)
RemoveNothing(r) ==
  /\ ~initialised /\ (RGoto(r, "remove", "load") \/ RGoto(r, "remove", "write"))
  /\ UNCHANGED <<bufferVars, writerVars, data, eos_count, seen, file, mainVars>>

(* sbuffer_remove on an empty queue: pthread_cond_wait.                    *)
Block(r) ==
  /\ initialised /\ queue = <<>> /\ rpc[r] = "remove" /\ r \notin waiting
  /\ waiting' = waiting \cup {r}
  /\ UNCHANGED <<initialised, queue, dropped, writerVars, readerVars, file, mainVars>>

(* POSIX lets a wait end without a signal; the loop looks again.           *)
SpuriousWakeup(r) ==
  /\ r \in waiting
  /\ waiting' = waiting \ {r}
  /\ UNCHANGED <<initialised, queue, dropped, writerVars, readerVars, file, mainVars>>

-----------------------------------------------------------------------------
(* writer_thread                                                           *)

(* A writer that cannot open the input file ends the process.              *)
OpenInput ==
  /\ wpc = "open"
  /\ \/ wpc' = "records" /\ UNCHANGED exited
     \/ CallsMayFail /\ exited' = TRUE /\ UNCHANGED wpc
  /\ UNCHANGED <<bufferVars, record, readerVars, file, mpc, freed>>

WriteRecord ==
  /\ wpc = "records" /\ record < Last
  /\ record' = record + 1
  /\ Insert(record + 1)
  /\ UNCHANGED <<wpc, readerVars, file, mainVars>>

(* At the end of the input file the loop is left ...                       *)
EndOfFile ==
  /\ wpc = "records" /\ record = Last
  /\ wpc' = "eos"
  /\ UNCHANGED <<bufferVars, record, readerVars, file, mainVars>>

(* ... and the end-of-stream record is inserted.                           *)
WriteEos ==
  /\ wpc = "eos" /\ wpc' = "ended"
  /\ Insert(Eos)
  /\ UNCHANGED <<record, readerVars, file, mainVars>>

Writer == OpenInput \/ WriteRecord \/ EndOfFile \/ WriteEos

-----------------------------------------------------------------------------
(* reader_thread                                                           *)

(* Mutant: a reader that has a line to write leaves it when it loses the   *)
(* race for file_write_mutex.                                              *)
WriteLineLossy(r) ==
  /\ RGoto(r, "write", "remove")
  /\ file' = IF \E q \in Readers \ {r} : rpc[q] = "write" THEN file ELSE Append(file, data[r])
  /\ UNCHANGED <<bufferVars, writerVars, data, eos_count, seen, mainVars>>

(* fprintf and fflush under file_write_mutex, whose failures are ignored   *)
(* (a line that stdio keeps when fflush fails counts as written if a later *)
(* call writes it).  Without a buffer the line is no record.               *)
WriteLine(r) ==
  /\ RGoto(r, "write", "remove")
  /\ \/ initialised /\ file' = Append(file, data[r]) /\ UNCHANGED dropped
     \/ initialised /\ CallsMayFail /\ dropped' = dropped \cup {data[r]} /\ UNCHANGED file
     \/ ~initialised /\ UNCHANGED <<file, dropped>>
  /\ UNCHANGED <<listVars, writerVars, data, eos_count, seen, mainVars>>

(* eos_count++ is a load and a store.                                      *)
LoadCount(r) ==
  /\ RGoto(r, "load", "store")
  /\ seen' = [seen EXCEPT ![r] = eos_count]
  /\ UNCHANGED <<bufferVars, writerVars, data, eos_count, file, mainVars>>

StoreCount(r) ==
  /\ RGoto(r, "store", "reinsert")
  /\ eos_count' = seen[r] + 1
  /\ UNCHANGED <<bufferVars, writerVars, data, seen, file, mainVars>>

(* Mutant: the last reader puts the marker back, too.                      *)
ReinsertAlways(r) ==
  /\ RGoto(r, "reinsert", "ended")
  /\ Insert(data[r])
  /\ UNCHANGED <<writerVars, data, seen, eos_count, file, mainVars>>

(* if (eos_count < NUM_READERS) the marker goes back for the next reader.  *)
Reinsert(r) ==
  /\ RGoto(r, "reinsert", "ended")
  /\ IF eos_count < Cardinality(Readers) THEN Insert(data[r]) ELSE UNCHANGED bufferVars
  /\ UNCHANGED <<writerVars, data, seen, eos_count, file, mainVars>>

Reader(r) ==
  \/ Remove(r) \/ RemoveNothing(r) \/ Block(r)
  \/ WriteLine(r) \/ LoadCount(r) \/ StoreCount(r) \/ Reinsert(r)

-----------------------------------------------------------------------------
(* main: join the threads, compare the output with the input line by line  *)
(* (output_test), and free the buffer.                                     *)
Joined(t) == t \in {"ended", "not_created"}
Join ==
  /\ mpc = "join" /\ mpc' = "test"
  /\ Joined(wpc) /\ \A r \in Readers : Joined(rpc[r])
  /\ UNCHANGED <<bufferVars, writerVars, readerVars, file, freed, exited>>

(* To join a thread that was not created, whose id is not set, may also    *)
(* end the process.                                                        *)
JoinNothing ==
  /\ mpc = "join"
  /\ wpc = "not_created" \/ (wpc = "ended" /\ \E r \in Readers : rpc[r] = "not_created")
  /\ exited' = TRUE
  /\ UNCHANGED <<bufferVars, writerVars, readerVars, file, mpc, freed>>

OutputTest ==
  /\ mpc = "test"
  /\ \/ mpc' = IF file = [i \in 1..Last |-> i] THEN "passed" ELSE "failed"
     \/ CallsMayFail /\ mpc' = "untested"
  /\ UNCHANGED <<bufferVars, writerVars, readerVars, file, freed, exited>>

(* sbuffer_free: the records still in the list go with it.                 *)
Free ==
  /\ mpc \in {"passed", "failed", "untested"} /\ ~freed
  /\ freed' = TRUE /\ queue' = <<>>
  /\ UNCHANGED <<initialised, waiting, dropped, writerVars, readerVars, file, mpc, exited>>

Main == Join \/ JoinNothing \/ OutputTest \/ Free

Next ==
  /\ ~exited
  /\ \/ Writer \/ Main
     \/ \E r \in Readers : Reader(r) \/ SpuriousWakeup(r)

SafeSpec == Init /\ [][Next]_vars

(* Every thread that can run does.  (A reader that contends for the mutex  *)
(* cannot be starved for ever: the others end or wait.)                    *)
Running(A) == ~exited /\ A
Spec ==
  /\ SafeSpec
  /\ WF_vars(Running(Writer)) /\ WF_vars(Running(Main))
  /\ \A r \in Readers : WF_vars(Running(Reader(r)))

-----------------------------------------------------------------------------
(* Properties                                                              *)

Positions(s, d) == {i \in 1..Len(s) : s[i] = d}
Holding(d) == {r \in Readers : rpc[r] = "write" /\ data[r] = d}
NeverRead == freed /\ \A r \in Readers : rpc[r] = "not_created"
Leaving == {r \in Readers : rpc[r] \in {"load", "store", "reinsert"}}
Markers == Cardinality(Positions(queue, Eos)) + Cardinality(Leaving)

(* "no data is lost usually" (main.c:206): every record read from the     *)
(* input file is at each moment in exactly one place: the queue, the hands *)
(* of a reader, or the output file, and in that place once; only an        *)
(* insertion, fprintf or fflush that fails loses one, or sbuffer_free,     *)
(* when no reader was created.                                             *)
EveryRecordOnce ==
  /\ TypeOK
  /\ \A d \in Records :
       Cardinality(Positions(queue, d)) + Cardinality(Holding(d)) + Cardinality(Positions(file, d))
         = IF d <= record /\ d \notin dropped /\ ~NeverRead THEN 1 ELSE 0

(* There is one end-of-stream marker from the moment the writer inserts it *)
(* until the last of NUM_READERS readers has taken it (unless an insertion *)
(* of it fails); no record is behind it; eos_count, although unprotected,  *)
(* counts the readers that have seen it; and the list that main frees is   *)
(* empty, but for the marker when a reader could not be created, and for   *)
(* everything when none could: what malloc did not fail for has been taken *)
(* out by a reader.  (Without a buffer there is no marker to hand on.)     *)
OneMarker == initialised =>
  /\ Markers = IF wpc = "ended" /\ Eos \notin dropped /\ ~freed /\ \E r \in Readers : rpc[r] # "ended"
               THEN 1 ELSE 0
  /\ \A i \in 1..Len(queue) : queue[i] = Eos => i = Len(queue)
  /\ Leaving # {} => queue = <<>>
  /\ eos_count = Cardinality({r \in Readers : rpc[r] \in {"reinsert", "ended"}})
  /\ mpc # "join" /\ (\A r \in Readers : rpc[r] # "not_created") => queue = <<>>
  /\ mpc # "join" /\ (\E r \in Readers : rpc[r] # "not_created") =>
       \A i \in 1..Len(queue) : queue[i] = Eos

(* What makes these two inductive.  The marker is in the queue, as its     *)
(* last element, or in the hands of the one reader that is leaving, from   *)
(* its insertion by the writer until a malloc fails for it or nobody is    *)
(* left to take it; so one reader at a time uses eos_count, and what it    *)
(* puts back is the marker.  Without a buffer nothing is ever inserted.    *)
Marked   == \E i \in 1..Len(queue) : queue[i] = Eos
AllEnded == \A r \in Readers : rpc[r] = "ended"

OneLeaves ==
  /\ \A i \in 1..Len(queue) : queue[i] = Eos => i = Len(queue)
  /\ Leaving # {} => queue = <<>>
  /\ \A q, r \in Leaving : q = r
  /\ \A r \in Leaving : data[r] = Eos
  /\ \A r \in Readers : rpc[r] = "write" => data[r] # Eos
CountKept ==
  /\ eos_count = Cardinality({r \in Readers : rpc[r] \in {"reinsert", "ended"}})
  /\ \A r \in Readers : rpc[r] = "store" => seen[r] = eos_count
MarkerKept ==
  /\ wpc # "ended" => ~Marked /\ Eos \notin dropped
                      /\ \A r \in Readers : rpc[r] \in {"remove", "write", "not_created"}
  /\ wpc = "ended" /\ Eos \notin dropped => Marked \/ Leaving # {} \/ AllEnded \/ freed
  /\ Eos \in dropped \/ AllEnded => ~Marked /\ Leaving = {}
  /\ (\E r \in Readers : rpc[r] = "ended") => \A i \in 1..Len(queue) : queue[i] = Eos
  /\ AllEnded \/ freed => queue = <<>>
MainWaits ==
  /\ mpc # "join" => Joined(wpc) /\ \A r \in Readers : Joined(rpc[r])
  /\ freed => mpc # "join"
NoReaderNoLine == (\A r \in Readers : rpc[r] = "not_created") => file = <<>>
Nothing ==
  /\ queue = <<>> /\ file = <<>> /\ 1..record \subseteq dropped
  /\ \A r \in Readers : data[r] = Eos

IInv ==
  /\ EveryRecordOnce /\ MainWaits /\ NoReaderNoLine /\ dropped \ {Eos} \subseteq 1..record
  /\ IF initialised THEN OneLeaves /\ CountKept /\ MarkerKept ELSE Nothing

(* The output may be out of order, but a record that a later one has       *)
(* overtaken is in the hands of another reader: at most NUM_READERS - 1    *)
(* records are late at any time, and none when the readers have ended.     *)
LateRecordsInHand ==
  \A i \in 1..Len(file) : \A d \in Records \ dropped :
    d < file[i] /\ Positions(file, d) = {} => Holding(d) # {}

(* What makes it inductive: the queue is in order, and all that has left   *)
(* it comes before what is in it.                                          *)
Out == {file[i] : i \in 1..Len(file)} \cup {data[r] : r \in {q \in Readers : rpc[q] = "write"}}
InOrder ==
  /\ \A i, j \in 1..Len(queue) : i < j /\ queue[j] # Eos => queue[i] < queue[j]
  /\ \A i \in 1..Len(queue) : queue[i] <= record
  /\ \A d \in Out : d <= record /\ \A i \in 1..Len(queue) : queue[i] # Eos => d < queue[i]

(* Every record that was inserted gets into the output file, and main gets *)
(* to its end unless the marker was lost: then readers wait for ever.  It  *)
(* takes the buffer, the writer and a reader, and fopen; one reader that   *)
(* could not be created does no harm, if main survives joining it.         *)
AllWritten ==
  \/ exited \/ ~initialised \/ wpc = "not_created"
  \/ /\ freed \/ Eos \in dropped
     /\ wpc = "ended"
     /\ (\E r \in Readers : rpc[r] # "not_created") =>
          \A d \in Records \ dropped : Positions(file, d) # {}
Completes == <>AllWritten

(* What output_test demands (main.c:136-141): line n of the output is      *)
(* line n of the input.                                                    *)
OutputTestPasses == mpc # "failed"

(* "the function doesn't block" (sbuffer.h:33).                            *)
RemoveDoesNotBlock == waiting = {}
=============================================================================
