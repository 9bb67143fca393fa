---------------------------- MODULE TestServer ----------------------------
(***************************************************************************)
(* The multi-threaded test server of the third lab (test_server.c), from   *)
(* which the connection manager of the gateway grew: main admits MAX_CONN  *)
(* clients, one detached thread each prints their measurements, and main   *)
(* ends when all of them are gone.  There is no buffer and no excess       *)
(* handler; what the threads share is conn_mutex, two counters and the     *)
(* output.  A mutex is used as in ConnMgr: an unlock releases it whoever   *)
(* holds it.                                                               *)
(***************************************************************************)
EXTENDS Naturals, Sequences, FiniteSets

CONSTANTS
  Conns,      (* the TCP connections clients make                           *)
  MaxConn,    (* MAX_CONN, the second argument                              *)
  MaxMeas,    (* bound: the measurements a client sends                     *)
  Shutdown,   (* the line "Test server is shutting down"                    *)
  MayFail     (* which of "accept" and "create" can fail                    *)

ASSUME TestServerAssumption ==
  /\ IsFiniteSet(Conns) /\ MaxConn \in Nat \ {0} /\ MaxMeas \in Nat
  /\ {"main", "free"} \cap Conns = {} /\ Shutdown \notin Conns
  /\ MayFail \subseteq {"accept", "create"}

VARIABLES
  pc, hpc,     (* control points of main and of each client's thread        *)
  mutex,       (* the holder of conn_mutex, or "free"                       *)
  conn_counter, conn_terminations,
  failed,      (* whether an accept or a pthread_create failed               *)
  seen,        (* conn_terminations as a handler's ++ has read it           *)
  conn, sent,  (* state of each connection, measurements received on it     *)
  printed      (* lines of output: a measurement's connection, or Shutdown  *)

counters == <<conn_counter, conn_terminations, failed>>
vars == <<pc, hpc, mutex, counters, seen, conn, sent, printed>>

TypeOK ==
  /\ pc \in {"open", "lock", "relock", "woken", "test", "accept", "check", "create",
             "wait", "waiting", "close", "end", "exit"}
  /\ hpc \in [Conns -> {"none", "receive", "print", "close", "lock", "load", "store",
                        "signal", "unlock", "ended"}]
  /\ mutex \in Conns \cup {"main", "free"}
  /\ failed \in BOOLEAN
  /\ conn_counter \in 0..MaxConn /\ conn_terminations \in 0..MaxConn
  /\ seen \in [Conns -> 0..MaxConn] /\ sent \in [Conns -> 0..MaxMeas]
  /\ conn \in [Conns -> {"none", "pending", "accepted", "closed", "refused", "lost"}]
  /\ printed \in Seq(Conns \cup {Shutdown})

Init ==
  /\ pc = "open" /\ hpc = [c \in Conns |-> "none"] /\ mutex = "free"
  /\ conn_counter = 0 /\ conn_terminations = 0 /\ failed = FALSE
  /\ seen = [c \in Conns |-> 0] /\ sent = [c \in Conns |-> 0]
  /\ conn = [c \in Conns |-> "none"] /\ printed = <<>>

Goto(from, to)     == pc = from /\ pc' = to
HGoto(c, from, to) == hpc[c] = from /\ hpc' = [hpc EXCEPT ![c] = to]
ConnGoto(c, from, to) == conn[c] = from /\ conn' = [conn EXCEPT ![c] = to]

-----------------------------------------------------------------------------
(* main                                                                    *)

Open ==
  /\ Goto("open", "lock") \/ Goto("open", "exit")
  /\ UNCHANGED <<hpc, mutex, counters, seen, conn, sent, printed>>

(* Before the loop, before an accepted client is checked, at the end of a  *)
(* turn, and inside pthread_cond_wait when it returns.                     *)
MainLock ==
  /\ Goto("lock", "test") \/ Goto("relock", "check") \/ Goto("woken", "wait")
  /\ mutex = "free" /\ mutex' = "main"
  /\ UNCHANGED <<hpc, counters, seen, conn, sent, printed>>

(* while (conn_counter < MAX_CONN), which a turn starts by unlocking.      *)
Test ==
  /\ \/ conn_counter < MaxConn /\ Goto("test", "accept") /\ mutex' = "free"
     \/ conn_counter >= MaxConn /\ Goto("test", "wait") /\ UNCHANGED mutex
  /\ UNCHANGED <<hpc, counters, seen, conn, sent, printed>>

(* A failure continues with the test, where the mutex is unlocked again;   *)
(* one that comes after accept(), when there is no memory for the address, *)
(* loses the client: no thread has its descriptor.                         *)
Accept ==
  /\ \/ /\ \E c \in Conns : Goto("accept", "relock") /\ ConnGoto(c, "pending", "accepted")
        /\ UNCHANGED failed
     \/ /\ "accept" \in MayFail /\ Goto("accept", "test") /\ failed' = TRUE
        /\ conn' = conn \/ \E c \in Conns : ConnGoto(c, "pending", "lost")
  /\ UNCHANGED <<hpc, mutex, conn_counter, conn_terminations, seen, sent, printed>>

(* The client is counted, or turned away; both branches unlock.            *)
Check(c) ==
  /\ conn[c] = "accepted" /\ hpc[c] = "none"
  /\ Goto("check", IF conn_counter < MaxConn THEN "create" ELSE "lock")
  /\ conn_counter' = conn_counter + (IF conn_counter < MaxConn THEN 1 ELSE 0)
  /\ conn' = IF conn_counter < MaxConn THEN conn ELSE [conn EXCEPT ![c] = "closed"]
  /\ mutex' = "free"
  /\ UNCHANGED <<hpc, conn_terminations, failed, seen, sent, printed>>

(* When no thread starts the client stays counted, and continue goes to    *)
(* the test without the mutex.                                             *)
Create(c) ==
  /\ conn[c] = "accepted" /\ hpc[c] = "none"
  /\ \/ Goto("create", "lock") /\ HGoto(c, "none", "receive") /\ UNCHANGED <<conn, failed>>
     \/ /\ "create" \in MayFail /\ Goto("create", "test")
        /\ ConnGoto(c, "accepted", "closed") /\ failed' = TRUE /\ UNCHANGED hpc
  /\ UNCHANGED <<mutex, conn_counter, conn_terminations, seen, sent, printed>>

(* Mutant: main does not wait for the last client.                         *)
WaitOneLess ==
  /\ \/ conn_terminations + 1 < MaxConn /\ Goto("wait", "waiting")
     \/ conn_terminations + 1 >= MaxConn /\ Goto("wait", "close")
  /\ mutex' = "free"
  /\ UNCHANGED <<hpc, counters, seen, conn, sent, printed>>

(* while (conn_terminations < MAX_CONN) pthread_cond_wait, then unlock.    *)
Wait ==
  /\ \/ conn_terminations < MaxConn /\ Goto("wait", "waiting")
     \/ conn_terminations >= MaxConn /\ Goto("wait", "close")
  /\ mutex' = "free"
  /\ UNCHANGED <<hpc, counters, seen, conn, sent, printed>>

SpuriousWakeup ==
  /\ Goto("waiting", "woken")
  /\ UNCHANGED <<hpc, mutex, counters, seen, conn, sent, printed>>

(* tcp_close resets the clients that were never accepted; then the mutex   *)
(* is destroyed, the last line printed, and the process ends with main.    *)
(* tcp_close reports no failure for a socket that exists.                  *)
Close ==
  /\ \/ /\ Goto("close", "end")
        /\ conn' = [c \in Conns |-> IF conn[c] = "pending" THEN "refused" ELSE conn[c]]
        /\ UNCHANGED printed
     \/ Goto("end", "exit") /\ printed' = Append(printed, Shutdown) /\ UNCHANGED conn
  /\ UNCHANGED <<hpc, mutex, counters, seen, sent>>

Main == Open \/ Test \/ Wait \/ Close \/ \E c \in Conns : Check(c)

-----------------------------------------------------------------------------
(* client_handler.  The threads of a process that has ended do not run.    *)

(* Mutant: a measurement that was received whole is dropped unprinted when *)
(* the loop ends with it (its condition is looked at before the printf).   *)
ReceivePartly(c) ==
  /\ \/ sent[c] < MaxMeas /\ HGoto(c, "receive", "print") /\ sent' = [sent EXCEPT ![c] = @ + 1]
     \/ HGoto(c, "receive", "close") /\ sent' = [sent EXCEPT ![c] = @ + 1]
  /\ UNCHANGED <<pc, mutex, counters, seen, conn, printed>>

(* The three parts of a measurement arrive, or a tcp_receive of one fails  *)
(* and ends the loop: a measurement is printed whole or not at all.        *)
Receive(c) ==
  /\ \/ sent[c] < MaxMeas /\ HGoto(c, "receive", "print") /\ sent' = [sent EXCEPT ![c] = @ + 1]
     \/ HGoto(c, "receive", "close") /\ UNCHANGED sent
  /\ UNCHANGED <<pc, mutex, counters, seen, conn, printed>>

PrintLine(c) ==
  /\ HGoto(c, "print", "receive") /\ printed' = Append(printed, c)
  /\ UNCHANGED <<pc, mutex, counters, seen, conn, sent>>

CloseClient(c) ==
  /\ HGoto(c, "close", "lock") /\ ConnGoto(c, "accepted", "closed")
  /\ UNCHANGED <<pc, mutex, counters, seen, sent, printed>>

HandlerLock(c) ==
  /\ HGoto(c, "lock", "load") /\ mutex = "free" /\ mutex' = c
  /\ UNCHANGED <<pc, counters, seen, conn, sent, printed>>

(* conn_terminations++ is a load and a store.                              *)
Count(c) ==
  /\ \/ /\ HGoto(c, "load", "store") /\ seen' = [seen EXCEPT ![c] = conn_terminations]
        /\ UNCHANGED conn_terminations
     \/ HGoto(c, "store", "signal") /\ conn_terminations' = seen[c] + 1 /\ UNCHANGED seen
  /\ UNCHANGED <<pc, mutex, conn_counter, failed, conn, sent, printed>>

(* Mutant: the signal is lost.                                             *)
SignalForgotten(c) ==
  /\ HGoto(c, "signal", "unlock")
  /\ UNCHANGED <<pc, mutex, counters, seen, conn, sent, printed>>

Signal(c) ==
  /\ HGoto(c, "signal", "unlock")
  /\ pc' = IF conn_terminations = conn_counter /\ pc = "waiting" THEN "woken" ELSE pc
  /\ UNCHANGED <<mutex, counters, seen, conn, sent, printed>>

HandlerUnlock(c) ==
  /\ HGoto(c, "unlock", "ended") /\ mutex' = "free"
  /\ UNCHANGED <<pc, counters, seen, conn, sent, printed>>

Handler(c) ==
  /\ pc # "exit"
  /\ Receive(c) \/ PrintLine(c) \/ CloseClient(c) \/ Count(c) \/ Signal(c) \/ HandlerUnlock(c)

-----------------------------------------------------------------------------
Connect(c) ==
  /\ pc \notin {"open", "end", "exit"} /\ ConnGoto(c, "none", "pending")
  /\ UNCHANGED <<pc, hpc, mutex, counters, seen, sent, printed>>

Next ==
  \/ Main \/ MainLock \/ Accept \/ SpuriousWakeup
  \/ \E c \in Conns : Create(c) \/ Handler(c) \/ (pc # "exit" /\ HandlerLock(c)) \/ Connect(c)

SafeSpec == Init /\ [][Next]_vars

(* Threads run, a contended mutex is obtained in the end, and no client is *)
(* silent for ever; nobody is obliged to connect.                          *)
Spec ==
  /\ SafeSpec /\ WF_vars(Main) /\ SF_vars(MainLock) /\ WF_vars(Accept)
  /\ \A c \in Conns : WF_vars(Create(c)) /\ WF_vars(Handler(c))
                      /\ SF_vars(pc # "exit" /\ HandlerLock(c))

-----------------------------------------------------------------------------
(* Properties                                                              *)

Served == {c \in Conns : hpc[c] # "none"}
Over   == pc \in {"close", "end"} \/ (pc = "exit" /\ printed # <<>>)

(* The shutdown line is the last one, and follows every measurement that   *)
(* was received, even when accept or pthread_create failed and the mutex   *)
(* was unlocked by a thread that did not hold it.                          *)
ShutdownIsLast ==
  \A i \in 1..Len(printed) : printed[i] = Shutdown =>
    /\ i = Len(printed)
    /\ \A c \in Conns : sent[c] = Cardinality({j \in 1..i : printed[j] = c})

(* main destroys the mutex and ends the process when every client's thread *)
(* has counted itself and closed its socket; and, as long as no call has   *)
(* failed, each of the detached threads has returned and is not cut off.   *)
NoThreadCutOff ==
  /\ TypeOK
  /\ Over =>
       /\ Cardinality(Served) = MaxConn
       /\ \A c \in Served : conn[c] = "closed" /\ hpc[c] \in {"signal", "unlock", "ended"}
       /\ ~failed => mutex = "free" /\ \A c \in Served : hpc[c] = "ended"

(* What makes these inductive.  conn_mutex is held by the thread between a *)
(* lock and its unlock, until a failure skips a lock; the counters never   *)
(* promise too much; main admits below the limit only; each client has one *)
(* thread; and the output has what each thread received.                   *)
Counted  == {c \in Conns : hpc[c] \in {"signal", "unlock", "ended"}}
Lines(c) == {j \in 1..Len(printed) : printed[j] = c}

MutexOwned == ~failed =>
  /\ mutex = "main" <=> pc \in {"test", "check", "wait"}
  /\ \A c \in Conns : mutex = c <=> hpc[c] \in {"load", "store", "signal", "unlock"}

CountersSafe ==
  /\ Cardinality(Served) + (IF pc = "create" THEN 1 ELSE 0) <= conn_counter
  /\ conn_terminations <= Cardinality(Counted)
  /\ \A c \in Conns : hpc[c] = "store" => seen[c] <= Cardinality(Counted)
  /\ pc \in {"accept", "relock", "check"} => conn_counter < MaxConn
  /\ pc \in {"wait", "waiting", "woken"} => conn_counter = MaxConn

OneThread == \A c \in Conns :
  /\ pc = "open" => hpc[c] = "none"
  /\ hpc[c] \in {"receive", "print", "close"} => conn[c] = "accepted"
  /\ hpc[c] \in {"lock", "load", "store", "signal", "unlock", "ended"} => conn[c] = "closed"
  /\ hpc[c] = "none" /\ conn[c] = "accepted" =>
       /\ pc \in {"relock", "check", "create"}
       /\ \A d \in Conns : hpc[d] = "none" /\ conn[d] = "accepted" => c = d

Output ==
  /\ \A c \in Conns : sent[c] = Cardinality(Lines(c)) + (IF hpc[c] = "print" THEN 1 ELSE 0)
  /\ \A i \in 1..Len(printed) : printed[i] = Shutdown => i = Len(printed) /\ pc = "exit"
  /\ pc = "open" => printed = <<>>

IInv == NoThreadCutOff /\ MutexOwned /\ CountersSafe /\ OneThread /\ Output

(* The output is a stream of measurements of at most MAX_CONN clients with *)
(* the shutdown line as its end: the same service as ConnMgr gives the     *)
(* gateway.  Unless a call fails, the end comes.                           *)
Stage(c) == IF hpc[c] = "none" THEN "outside"
            ELSE IF hpc[c] \in {"receive", "print", "close"} THEN "served" ELSE "gone"
CS == INSTANCE ConnService WITH
        stage <- [c \in Conns |-> Stage(c)], buffer <- printed, Eos <- Shutdown
ImplementsConnService == CS!SafeSpec /\ ([]~failed => CS!Live)
=============================================================================
