----------------------------- MODULE LoggerLab2 -----------------------------
(***************************************************************************)
(* The program of lab 2, milestone 2 (startcodeplab2/milestone2): main     *)
(* opens a data file, inserts records and closes it, and reports each step *)
(* through a pipe to a child process that writes the log.                  *)
(*                                                                         *)
(* The pipe carries bytes.  A message is abstracted to its length, for     *)
(* what the child does with a read depends on where the read ends: it      *)
(* looks for a read that is exactly the marker "Data file closed\n", while *)
(* the parent sends the marker behind a number and the time.               *)
(*                                                                         *)
(* A child that cannot open the log file returns from create_log_process   *)
(* and goes on as if it were the parent: with no data file and with        *)
(* logger_pid = 0 it writes nowhere, and keeps its read end until it exits.*)
(***************************************************************************)
EXTENDS Integers, Sequences

CONSTANTS
  Inserts,    (* the calls of insert_sensor in main                         *)
  MayFail     (* the calls that may fail                                    *)

ASSUME LoggerLab2Assumption ==
  /\ Inserts \in 1..4    (* the message numbers have one digit              *)
  /\ MayFail \subseteq {"pipe", "fork", "log", "csv", "fprintf", "fflush", "fclose"}

VARIABLES
  pc, k,        (* control point of the parent, and the record it inserts   *)
  f,            (* the data file is open (the pointer is not NULL)          *)
  logger_pid,   (* of the parent: 0, -1 or "child"                          *)
  buffered,     (* records in the buffer of f                               *)
  stored,       (* records in the data file                                 *)
  flushFailed,  (* history: an fflush of f has failed                       *)
  sent,         (* the messages written to the pipe, <<text, record>>       *)
  written,      (* the bytes written to the pipe                            *)
  child,        (* the child: not forked, at its start, reading, astray     *)
                (* after a failed fopen, or gone ("lost" if it was astray)  *)
  logged        (* the bytes the child has read and put into the log file   *)

dataFile == <<f, buffered, stored, flushFailed>>
stream == <<sent, written>>
logger == <<logger_pid, child, logged>>
lab2Vars == <<pc, k, dataFile, stream, logger>>

(* The lengths of the messages; number and time add 31 characters.         *)
Length == [opened |-> 18, noopen |-> 25, null |-> 33, attempt |-> 27, error |-> 28,
           inserted |-> 15, nullclose |-> 47, noflush |-> 53, noclose |-> 38, marker |-> 17]
Header == 31
ReadSize == 255    (* BUFFER_SIZE - 1 *)

Steps == {"create", "open", "attempt", "report", "flush", "close", "noflush",
          "fclose", "noclose", "marker", "pipe", "wait"}
Ended == {"closed", "returned", "killed"}

Lab2TypeOK ==
  /\ pc \in Steps \cup Ended /\ k \in 1..(Inserts + 1)
  /\ f \in BOOLEAN /\ flushFailed \in BOOLEAN /\ logger_pid \in {"0", "-1", "child"}
  /\ buffered \in SUBSET (1..Inserts) /\ stored \in SUBSET (1..Inserts)
  /\ sent \in Seq((DOMAIN Length) \X (1..(Inserts + 1)))
  /\ child \in {"none", "start", "reading", "astray", "gone", "lost"}
  /\ written \in Nat /\ logged \in 0..written

Lab2Init ==
  /\ pc = "create" /\ k = 1 /\ f = FALSE /\ logger_pid = "0"
  /\ buffered = {} /\ stored = {} /\ flushFailed = FALSE
  /\ sent = <<>> /\ written = 0 /\ child = "none" /\ logged = 0

-----------------------------------------------------------------------------
(* The parent                                                              *)

(* write_to_log_process: before there is a logger it only complains; when  *)
(* fork failed the parent itself holds the read end.                       *)
Log(text) ==
  \/ logger_pid = "0" /\ UNCHANGED stream
  \/ /\ logger_pid # "0" /\ sent' = Append(sent, <<text, k>>)
     /\ written' = written + Header + Length[text]

(* Nobody can read the pipe: the write kills the parent (SIGPIPE).         *)
Broken == logger_pid = "child" /\ child \in {"gone", "lost"}

(* create_log_process; the read end is closed when it succeeds.            *)
CreateLogProcess ==
  /\ pc = "create"
  /\ \/ "pipe" \in MayFail /\ pc' = "attempt" /\ UNCHANGED <<logger_pid, child>>
     \/ "fork" \in MayFail /\ logger_pid' = "-1" /\ pc' = "attempt" /\ UNCHANGED child
     \/ logger_pid' = "child" /\ child' = "start" /\ pc' = "open"
  /\ UNCHANGED <<k, dataFile, stream, logged>>

(* The rest of open_db; main does not look at what it returns.             *)
OpenDb ==
  /\ pc = "open" /\ pc' = "attempt" /\ ~Broken
  /\ \/ f' = TRUE /\ Log("opened")
     \/ "csv" \in MayFail /\ UNCHANGED f /\ Log("noopen")
  /\ UNCHANGED <<k, buffered, stored, flushFailed, logger>>

(* main goes on to the next insert_sensor, or to close_db.                 *)
NextRecord ==
  /\ k' = k + 1
  /\ pc' = IF k < Inserts THEN "attempt" ELSE "close"

(* insert_sensor reports the attempt and prints into the buffer of f ...   *)
Attempt ==
  /\ pc = "attempt" /\ ~Broken
  /\ \/ ~f /\ Log("null") /\ NextRecord /\ UNCHANGED buffered
     \/ /\ f /\ Log("attempt") /\ pc' = "report" /\ UNCHANGED k
        /\ \/ buffered' = buffered \cup {k}
           \/ "fprintf" \in MayFail /\ UNCHANGED buffered
  /\ UNCHANGED <<f, stored, flushFailed, logger>>

(* ... reports what fprintf returned ...                                   *)
Report ==
  /\ pc = "report" /\ ~Broken
  /\ \/ k \in buffered /\ Log("inserted") /\ pc' = "flush" /\ UNCHANGED k
     \/ k \notin buffered /\ Log("error") /\ NextRecord
  /\ UNCHANGED <<dataFile, logger>>

(* fflush: the buffer reaches the file, or stays.                          *)
Flushed ==
  /\ stored' = stored \cup buffered /\ buffered' = {}
  /\ UNCHANGED flushFailed
FlushFails ==
  /\ "fflush" \in MayFail /\ flushFailed' = TRUE
  /\ UNCHANGED <<stored, buffered>>

(* Mutant: the record stays in the buffer until the file is closed.        *)
FlushNothing ==
  /\ pc = "flush" /\ NextRecord
  /\ UNCHANGED <<dataFile, stream, logger>>

(* ... and flushes without a look at the result.                           *)
FlushRecord ==
  /\ pc = "flush" /\ (Flushed \/ FlushFails) /\ NextRecord
  /\ UNCHANGED <<f, stream, logger>>

(* close_db: without a data file it is only a message, and the log process *)
(* is not ended; nor is it when fflush or fclose fails.                    *)
CloseDb ==
  /\ pc = "close"
  /\ \/ ~f /\ ~Broken /\ Log("nullclose") /\ pc' = "returned" /\ UNCHANGED dataFile
     \/ f /\ Flushed /\ pc' = "fclose" /\ UNCHANGED <<f, stream>>
     \/ f /\ FlushFails /\ pc' = "noflush" /\ UNCHANGED <<f, stream>>
  /\ UNCHANGED <<k, logger>>

CloseFile ==
  /\ pc = "fclose" /\ f' = FALSE
  /\ pc' \in {"marker"} \cup (IF "fclose" \in MayFail THEN {"noclose"} ELSE {})
  /\ UNCHANGED <<k, buffered, stored, flushFailed, stream, logger>>

(* The report of the failure; an fclose after a failed fflush may still    *)
(* write the buffer.                                                       *)
GiveUp ==
  /\ pc \in {"noflush", "noclose"} /\ ~Broken /\ Log(pc)
  /\ f' = FALSE /\ buffered' = {} /\ stored' \in {stored, stored \cup buffered}
  /\ pc' = "returned"
  /\ UNCHANGED <<k, flushFailed, logger>>

(* end_log_process: the marker, the end of the pipe, and waitpid.          *)
SendMarker ==
  /\ pc = "marker" /\ ~Broken /\ Log("marker")
  /\ pc' = "pipe"
  /\ UNCHANGED <<k, dataFile, logger>>

ClosePipe ==
  /\ pc = "pipe" /\ pc' = "wait"
  /\ UNCHANGED <<k, dataFile, stream, logger>>

WaitPid ==
  /\ pc = "wait" /\ child \in {"gone", "lost"} /\ pc' = "closed"
  /\ UNCHANGED <<k, dataFile, stream, logger>>

(* The parent is killed where it writes; the buffer of f goes with it.     *)
Killed ==
  /\ Broken
  /\ \/ pc \in {"open", "attempt", "report", "noflush", "noclose", "marker"}
     \/ pc = "close" /\ ~f
  /\ pc' = "killed" /\ f' = FALSE /\ buffered' = {}
  /\ UNCHANGED <<k, stored, flushFailed, stream, logger>>

-----------------------------------------------------------------------------
(* The child                                                               *)

(* Mutant: the child does not close its own copy of the write end.         *)
WriteEndKept == pc \notin Ended \cup {"wait"} \/ child = "reading"

WriteEndOpen == pc \notin Ended \cup {"wait"}

ChildStarts ==
  /\ child = "start"
  /\ \/ child' = "reading"
     \/ "log" \in MayFail /\ child' = "astray"
  /\ UNCHANGED <<pc, k, dataFile, logger_pid, stream, logged>>

(* What is left of the pipe is the marker and nothing else.                *)
MarkerAlone ==
  /\ sent # <<>> /\ sent[Len(sent)][1] = "marker"
  /\ written - logged = Length.marker

(* A read takes what is in the pipe, up to ReadSize, into the log file; a  *)
(* read of the marker alone leaves other text there and ends the child.    *)
ChildReads ==
  /\ child = "reading" /\ logged < written
  /\ \/ MarkerAlone /\ child' = "gone" /\ UNCHANGED logged
     \/ ~MarkerAlone /\ UNCHANGED child
        /\ logged' = IF written - logged < ReadSize THEN written ELSE logged + ReadSize
  /\ UNCHANGED <<pc, k, dataFile, logger_pid, stream>>

(* The end of the pipe, once everything is read and nobody can write.      *)
ChildAtEof ==
  /\ child = "reading" /\ logged = written /\ ~WriteEndOpen
  /\ child' = "gone"
  /\ UNCHANGED <<pc, k, dataFile, logger_pid, stream, logged>>

(* The child in main: what it inserts and closes is NULL and unlogged.     *)
AstrayReturns ==
  /\ child = "astray" /\ child' = "lost"
  /\ UNCHANGED <<pc, k, dataFile, logger_pid, stream, logged>>

-----------------------------------------------------------------------------
Parent ==
  \/ CreateLogProcess \/ OpenDb \/ Attempt \/ Report \/ FlushRecord
  \/ CloseDb \/ CloseFile \/ GiveUp \/ SendMarker \/ ClosePipe \/ WaitPid \/ Killed

Child == ChildStarts \/ ChildReads \/ ChildAtEof \/ AstrayReturns

Lab2Next == Parent \/ Child

(* Both processes run on until they end.                                   *)
Lab2SafeSpec == Lab2Init /\ [][Lab2Next]_lab2Vars
Lab2Spec == Lab2SafeSpec /\ WF_lab2Vars(Parent) /\ WF_lab2Vars(Child)

-----------------------------------------------------------------------------
(* Properties                                                              *)

(* Once the parent is gone, however it ended: each record it reported as   *)
(* inserted is in the data file, unless an fflush failed; it was killed    *)
(* only when the log could not be opened; and when close_db succeeded, the *)
(* log file has the whole stream if it has anything, whatever bytes each   *)
(* read returned: what the last read leaves never is the marker alone.     *)
LogAgrees ==
  /\ Lab2TypeOK
  /\ pc \in Ended /\ ~flushFailed =>
       \A i \in DOMAIN sent : sent[i][1] = "inserted" => sent[i][2] \in stored
  /\ pc = "killed" => child = "lost"
  /\ pc = "closed" => child = "lost" \/ (child = "gone" /\ logged = written)

(* What makes it inductive.  Where the parent is: k counts the calls of    *)
(* insert_sensor, and only with a logger does it get to the data file.     *)
ParentAt ==
  /\ pc \in {"create", "open"} => k = 1 /\ ~f /\ written = 0 /\ sent = <<>>
  /\ pc = "create" => logger_pid = "0" /\ child = "none"
  /\ pc \in {"attempt", "report", "flush"} => k <= Inserts
  /\ pc \in {"report", "flush", "fclose"} => f
  /\ f \/ pc \notin {"create", "attempt", "close", "returned"} => logger_pid = "child"
  /\ child = "none" <=> logger_pid # "child"

(* An insertion reported is in the data file, or about to be flushed.      *)
Reported ==
  \A i \in DOMAIN sent : sent[i][1] = "inserted" =>
    sent[i][2] \in stored \/ flushFailed \/ (pc = "flush" /\ sent[i][2] \in buffered)

(* The child does not end before the parent has closed the pipe.           *)
ChildStays ==
  /\ child = "gone" => pc \in Ended \cup {"wait"} /\ logged = written
  /\ pc = "killed" => child = "lost"
  /\ pc = "closed" => child \in {"gone", "lost"}
  /\ \A i \in DOMAIN sent : sent[i][1] = "marker" => pc \in {"pipe", "wait", "closed"}

(* Where reads end.  A read takes all there is, or ReadSize bytes; so what *)
(* the child has not read is a run of last messages, ReadSize bytes at a   *)
(* time taken off: a insertions, b failed ones, and in front of them the   *)
(* message opened or the second of an insertion that was cut in two.       *)
(* shift is what has come after that, n bounds the insertions.             *)
Line(text) == Header + Length[text]
First == {0, Line("opened"), Line("inserted"), Line("error")}
Unread(rest, shift, n) ==
  \E a, b \in 0..4, m \in 0..2, first \in First :
    /\ a + b <= n
    /\ rest = first + a * (Line("attempt") + Line("inserted"))
              + b * (Line("attempt") + Line("error")) + shift - m * ReadSize
Rest == written - logged
ReadsEnd ==
  /\ (pc \in {"attempt", "close", "fclose"} /\ f) \/ pc = "marker" => Unread(Rest, 0, k - 1)
  /\ pc = "flush" => Unread(Rest, 0, k)
  /\ pc = "report" => Rest = 0 \/ Unread(Rest, Line("attempt"), k - 1)
  /\ pc \in {"pipe", "wait", "closed"} => Rest = 0 \/ Unread(Rest, Line("marker"), k - 1)

Lab2Inv == Lab2TypeOK /\ ParentAt /\ Reported /\ ChildStays /\ ReadsEnd

(* Both processes end: an error of the parent that leaves the log process  *)
(* alone closes the pipe in the end, and waitpid does not wait for ever.   *)
Ends == <>(pc \in Ended /\ child \in {"none", "gone", "lost"})
=============================================================================
