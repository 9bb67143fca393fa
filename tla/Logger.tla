------------------------------- MODULE Logger -------------------------------
(***************************************************************************)
(* The event log of the gateway (project/sensor_db.c, lines 30-163): every *)
(* thread formats its messages and writes them to a pipe; a forked logger  *)
(* process copies what it reads to gateway.log until the pipe has no       *)
(* writer left.                                                            *)
(*                                                                         *)
(* A write of at most PIPE_BUF bytes is atomic, but a read takes 255 bytes *)
(* and may cut a message: a message is a pair of parts in the pipe.        *)
(* sequence_number++ is a load and a store that no lock protects.          *)
(* The comparison with "Data file closed\n" is left out: every message     *)
(* begins with its number and none contains that text.                     *)
(***************************************************************************)
EXTENDS Naturals, Sequences, FiniteSets

CONSTANTS
  Threads,    (* the threads that log, main among them                      *)
  Main,       (* the thread that runs main                                  *)
  MaxMsgs,    (* bound: messages per thread besides main's last             *)
  PipeParts,  (* bound: parts the pipe holds; a write to a full pipe blocks *)
  ReadParts   (* bound: parts one read of 255 bytes returns                 *)

ASSUME LoggerAssumption ==
  /\ IsFiniteSet(Threads) /\ Main \in Threads /\ MaxMsgs \in Nat
  /\ ReadParts \in Nat \ {0} /\ PipeParts \in Nat /\ PipeParts >= 2

VARIABLES
  sequence_number,
  tpc, seen,   (* control point of a thread, what its ++ has read           *)
  sent,        (* the messages each thread has handed to the pipe           *)
  pipe,        (* the parts in the pipe                                     *)
  writeEnds, readEnds,   (* the processes that have that end open           *)
  lpc, chunk,  (* control point of the logger and what it has read          *)
  logfile,     (* the parts in gateway.log; <<>> while it is not open       *)
  written      (* history: the messages in the order of their writes        *)

pipeVars   == <<pipe, writeEnds, readEnds>>
threadVars == <<sequence_number, tpc, seen, sent>>
childVars  == <<lpc, chunk, logfile>>
logVars == <<threadVars, pipeVars, childVars, written>>

Message == [from : Threads, nr : Nat, seq : Nat]
Part    == [msg : Message, half : {1, 2}]
Parts(m) == <<[msg |-> m, half |-> 1], [msg |-> m, half |-> 2]>>

LogTypeOK ==
  /\ sequence_number \in Nat /\ seen \in [Threads -> Nat] /\ sent \in [Threads -> Nat]
  /\ tpc \in [Threads -> {"setup", "run", "store", "write", "ended", "closing",
                          "waitpid", "returned", "killed"}]
  /\ pipe \in Seq(Part) /\ chunk \in Seq(Part) /\ logfile \in Seq(Part)
  /\ writeEnds \in SUBSET {"gateway", "logger"} /\ readEnds \in SUBSET {"gateway", "logger"}
  /\ lpc \in {"none", "close", "open", "read", "print", "exited", "failed"}
  /\ written \in Seq(Message)

LogInit ==
  /\ sequence_number = 0 /\ seen = [t \in Threads |-> 0] /\ sent = [t \in Threads |-> 0]
  /\ tpc = [t \in Threads |-> "setup"]
  /\ pipe = <<>> /\ writeEnds = {} /\ readEnds = {}
  /\ lpc = "none" /\ chunk = <<>> /\ logfile = <<>> /\ written = <<>>

TGoto(t, from, to) == tpc[t] = from /\ tpc' = [tpc EXCEPT ![t] = to]
CGoto(from, to)    == lpc = from /\ lpc' = to

-----------------------------------------------------------------------------
(* create_log_process                                                      *)

(* pipe and fork: both processes have both ends.                           *)
Fork ==
  /\ CGoto("none", "close")
  /\ writeEnds' = {"gateway", "logger"} /\ readEnds' = {"gateway", "logger"}
  /\ UNCHANGED <<threadVars, pipe, chunk, logfile, written>>

(* The parent closes its read end; then main may start the other threads.  *)
ParentCloses ==
  /\ lpc # "none" /\ "gateway" \in readEnds
  /\ readEnds' = readEnds \ {"gateway"}
  /\ tpc' = [t \in Threads |-> "run"]
  /\ UNCHANGED <<sequence_number, seen, sent, pipe, writeEnds, childVars, written>>

(* Mutant: the child keeps its write end.                                  *)
ChildClosesNothing ==
  /\ CGoto("close", "open")
  /\ UNCHANGED <<threadVars, pipeVars, chunk, logfile, written>>

(* Mutant: the child closes the wrong end.                                 *)
ChildClosesReadEnd ==
  /\ CGoto("close", "open")
  /\ readEnds' = readEnds \ {"logger"}
  /\ UNCHANGED <<threadVars, pipe, writeEnds, chunk, logfile, written>>

ChildCloses ==
  /\ CGoto("close", "open")
  /\ writeEnds' = writeEnds \ {"logger"}
  /\ UNCHANGED <<threadVars, pipe, readEnds, chunk, logfile, written>>

(* fopen; when it fails the logger exits, which closes its read end.       *)
ChildOpens ==
  /\ \/ CGoto("open", "read") /\ UNCHANGED readEnds
     \/ CGoto("open", "failed") /\ readEnds' = readEnds \ {"logger"}
  /\ UNCHANGED <<threadVars, pipe, writeEnds, chunk, logfile, written>>

(* read: some bytes, or the end of the file once no process has the write  *)
(* end; the logger then closes the log and exits.                          *)
ChildReads ==
  /\ \/ \E n \in 1..ReadParts :
          /\ n <= Len(pipe) /\ CGoto("read", "print")
          /\ chunk' = SubSeq(pipe, 1, n) /\ pipe' = SubSeq(pipe, n + 1, Len(pipe))
          /\ UNCHANGED readEnds
     \/ /\ pipe = <<>> /\ writeEnds = {} /\ CGoto("read", "exited")
        /\ readEnds' = readEnds \ {"logger"} /\ UNCHANGED <<chunk, pipe>>
  /\ UNCHANGED <<threadVars, writeEnds, logfile, written>>

(* Mutant: only the text up to the end of the first message is printed.    *)
ChildPrintsFirst ==
  /\ CGoto("print", "read")
  /\ logfile' = Append(logfile, Head(chunk)) /\ chunk' = <<>>
  /\ UNCHANGED <<threadVars, pipeVars, written>>

(* fprintf and fflush.                                                     *)
ChildPrints ==
  /\ CGoto("print", "read")
  /\ logfile' = logfile \o chunk /\ chunk' = <<>>
  /\ UNCHANGED <<threadVars, pipeVars, written>>

Child == ChildCloses \/ ChildOpens \/ ChildReads \/ ChildPrints

-----------------------------------------------------------------------------
(* write_to_log_process, called by any thread for its next message; main   *)
(* sends one message more, from end_log_process, when the others ended.    *)

MayLog(t) ==
  \/ sent[t] < MaxMsgs
  \/ /\ t = Main /\ sent[t] = MaxMsgs
     /\ \A u \in Threads \ {Main} : tpc[u] = "ended"

LoadNumber(t) ==
  /\ MayLog(t) /\ TGoto(t, "run", "store")
  /\ seen' = [seen EXCEPT ![t] = sequence_number]
  /\ UNCHANGED <<sequence_number, sent, pipeVars, childVars, written>>

StoreNumber(t) ==
  /\ TGoto(t, "store", "write")
  /\ sequence_number' = seen[t] + 1
  /\ UNCHANGED <<seen, sent, pipeVars, childVars, written>>

NextMessage(t) == [from |-> t, nr |-> sent[t] + 1, seq |-> seen[t]]

(* write: blocks while the pipe is full.                                   *)
Write(t) ==
  LET m == NextMessage(t)
  IN /\ TGoto(t, "write", "run") /\ readEnds # {}
     /\ Len(pipe) + 2 <= PipeParts
     /\ pipe' = pipe \o Parts(m)
     /\ sent' = [sent EXCEPT ![t] = @ + 1]
     /\ written' = Append(written, m)
     /\ UNCHANGED <<sequence_number, seen, writeEnds, readEnds, childVars>>

(* write to a pipe nobody can read: SIGPIPE, whose default action ends the *)
(* gateway before write could return -1.                                   *)
BrokenPipe(t) ==
  /\ tpc[t] = "write" /\ readEnds = {}
  /\ tpc' = [u \in Threads |-> "killed"]
  /\ writeEnds' = writeEnds \ {"gateway"}
  /\ UNCHANGED <<sequence_number, seen, sent, pipe, readEnds, childVars, written>>

(* A thread that has no more to say ends; main goes on to end_log_process. *)
EndThread(t) ==
  /\ IF t = Main THEN sent[t] = MaxMsgs + 1 ELSE TRUE
  /\ TGoto(t, "run", IF t = Main THEN "closing" ELSE "ended")
  /\ UNCHANGED <<sequence_number, seen, sent, pipeVars, childVars, written>>

-----------------------------------------------------------------------------
(* end_log_process: close the write end, then wait for the logger.         *)

(* Mutant: main does not wait for the logger.                              *)
NoWait ==
  /\ TGoto(Main, "waitpid", "returned")
  /\ UNCHANGED <<sequence_number, seen, sent, pipeVars, childVars, written>>

CloseWriteEnd ==
  /\ TGoto(Main, "closing", "waitpid")
  /\ writeEnds' = writeEnds \ {"gateway"}
  /\ UNCHANGED <<sequence_number, seen, sent, pipe, readEnds, childVars, written>>

WaitPid ==
  /\ lpc \in {"exited", "failed"}
  /\ TGoto(Main, "waitpid", "returned")
  /\ UNCHANGED <<sequence_number, seen, sent, pipeVars, childVars, written>>

Thread(t) == LoadNumber(t) \/ StoreNumber(t) \/ Write(t) \/ BrokenPipe(t) \/ EndThread(t)
MainOnly == Fork \/ ParentCloses \/ CloseWriteEnd \/ WaitPid

LogNext == Child \/ MainOnly \/ \E t \in Threads : Thread(t)

LogSafeSpec == LogInit /\ [][LogNext]_logVars

(* The scheduler runs every thread and the logger process.                 *)
LogSpec == LogSafeSpec /\ WF_logVars(Child) /\ WF_logVars(MainOnly) /\ \A t \in Threads : WF_logVars(Thread(t))

-----------------------------------------------------------------------------
(* Properties                                                              *)

Stream == logfile \o chunk \o pipe

(* The log, what the logger holds and what is in the pipe are together the *)
(* messages in the order they were written, none lost, doubled, or cut     *)
(* open by another thread's, however the reads cut them.                   *)
StreamIntact ==
  /\ LogTypeOK
  /\ Len(Stream) = 2 * Len(written)
  /\ \A i \in 1..Len(written) :
       /\ Stream[2 * i - 1] = Parts(written[i])[1]
       /\ Stream[2 * i] = Parts(written[i])[2]

(* When end_log_process returns and the log could be opened, every message *)
(* of every thread is in it.                                               *)
CompleteAtExit ==
  tpc[Main] = "returned" /\ lpc # "failed" =>
    /\ lpc = "exited" /\ Len(logfile) = 2 * Len(written)
    /\ \A t \in Threads : Cardinality({i \in 1..Len(written) : written[i].from = t}) = sent[t]

(* The gateway is killed by its own log only when the log file could not   *)
(* be opened.                                                              *)
KilledOnlyWithoutLog == (\E t \in Threads : tpc[t] = "killed") => lpc = "failed"

(* What makes these inductive: who has which end of the pipe open, that    *)
(* main's last message comes when the other threads have ended, and that   *)
(* each thread has written as many messages as it counts.                  *)
From(t) == {i \in 1..Len(written) : written[i].from = t}

PipeEnds ==
  /\ "gateway" \in writeEnds <=>
       lpc # "none" /\ tpc[Main] \notin {"waitpid", "returned", "killed"}
  /\ "logger" \in writeEnds <=> lpc = "close"
  /\ "gateway" \in readEnds <=> lpc # "none" /\ tpc[Main] = "setup"
  /\ "logger" \in readEnds <=> lpc \in {"close", "open", "read", "print"}
  /\ lpc = "none" => tpc[Main] = "setup"
  /\ lpc # "print" => chunk = <<>>
  /\ lpc = "exited" => pipe = <<>> /\ writeEnds = {}

LastWord ==
  /\ \A t \in Threads : tpc[t] = "setup" <=> tpc[Main] = "setup"
  /\ \A t \in Threads : tpc[t] = "killed" <=> tpc[Main] = "killed"
  /\ tpc[Main] = "killed" => lpc = "failed"
  /\ tpc[Main] = "returned" => lpc \in {"exited", "failed"}
  /\ tpc[Main] \in {"closing", "waitpid", "returned"} => sent[Main] = MaxMsgs + 1
  /\ sent[Main] = MaxMsgs + 1 \/ (sent[Main] = MaxMsgs /\ tpc[Main] \in {"store", "write"}) =>
       \A u \in Threads \ {Main} : tpc[u] \in {"ended", "killed"}

LogInv ==
  /\ StreamIntact /\ PipeEnds /\ LastWord
  /\ \A t \in Threads : Cardinality(From(t)) = sent[t]

(* The gateway ends: the logger sees the end of the pipe, main the end of  *)
(* the logger.                                                             *)
Ends == <>(tpc[Main] \in {"returned", "killed"})

(* Line n of the log bears the number n, as in the log of the milestone    *)
(* (milestone2/example.gateway.log).                                       *)
NumberedInOrder == \A i \in 1..Len(written) : written[i].seq = i - 1
=============================================================================
