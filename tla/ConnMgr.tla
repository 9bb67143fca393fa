------------------------------ MODULE ConnMgr ------------------------------
(***************************************************************************)
(* The connection manager of the gateway (project/connmgr.c): the listener *)
(* thread connmgr_listen admits MAX_CONN clients and starts a detached     *)
(* client_handler for each, hands later clients to excess_client_handler,  *)
(* and inserts the end-of-stream record when every admitted client is gone. *)
(*                                                                         *)
(* conn_mutex is a glibc normal mutex: it does not record its owner, so    *)
(* an unlock by a thread that does not hold it releases it, and once it is *)
(* destroyed a lock or an unlock returns EINVAL at once.  socket_mutex is  *)
(* left out (one thread uses it), and so are the log messages.             *)
(***************************************************************************)
EXTENDS Naturals, Sequences, FiniteSets

CONSTANTS
  Conns,          (* the TCP connections clients make                       *)
  MaxConn,        (* MAX_CONN                                               *)
  MaxMeas,        (* bound: the measurements a client sends                 *)
  Eos,            (* the end-of-stream record                               *)
  AcceptMayFail,  (* whether tcp_wait_for_connection can fail               *)
  CreateMayFail   (* whether pthread_create can fail                        *)

ASSUME ConnMgrAssumption ==
  /\ IsFiniteSet(Conns) /\ MaxConn \in Nat \ {0} /\ MaxMeas \in Nat
  /\ {"listener", "excess", "free", "destroyed"} \cap Conns = {} /\ Eos \notin Conns
  /\ AcceptMayFail \in BOOLEAN /\ CreateMayFail \in BOOLEAN

VARIABLES
  lpc, epc,          (* control points of the listener and the excess handler *)
  hpc,               (* control point of the handler of each connection       *)
  mutex,             (* the holder of conn_mutex, "free" or "destroyed"       *)
  conn_counter, conn_terminations,
  seen,              (* conn_terminations as a handler's ++ has read it       *)
  srv,               (* the server socket                                     *)
  stop,              (* stop_excess_handler                                   *)
  failed,            (* history: whether a call of the listener failed: an    *)
                     (* accept or a pthread_create, which it reports and then *)
                     (* goes on, the insertion of the last record, or a       *)
                     (* pthread_join that ended the process                   *)
  conn, sent,        (* state of each connection, measurements sent on it     *)
  buffer             (* what was inserted into the shared buffer: the         *)
                     (* connection a measurement came from, or Eos            *)

countVars   == <<conn_counter, conn_terminations>>
socketVars  == <<srv, conn>>
handlerVars == <<hpc, seen, sent>>
flagVars    == <<stop, failed>>
vars == <<lpc, epc, mutex, countVars, socketVars, flagVars, handlerVars, buffer>>

TypeOK ==
  /\ lpc \in {"open", "lock", "test", "accept", "relock", "check", "create", "spawn",
             "wait", "waiting", "woken", "close", "free", "destroy", "stop",
             "join", "eos", "done", "exit"}
  /\ epc \in {"none", "absent", "test", "enter", "accept", "lock", "reject", "unlock", "ended"}
  /\ hpc \in [Conns -> {"none", "receive", "insert", "close", "lock", "read",
                        "write", "signal", "unlock", "ended"}]
  /\ mutex \in Conns \cup {"listener", "excess", "free", "destroyed"}
  /\ stop \in {0, 1} /\ failed \in BOOLEAN
  /\ conn_counter \in Nat /\ conn_terminations \in Nat
  /\ seen \in [Conns -> Nat] /\ sent \in [Conns -> Nat]
  /\ srv \in {"none", "open", "shut", "freed"}
  /\ conn \in [Conns -> {"none", "pending", "accepted", "serving", "excess",
                         "closed", "refused", "leaked", "lost"}]
  /\ buffer \in Seq(Conns \cup {Eos})

Init ==
  /\ lpc = "open" /\ epc = "none" /\ hpc = [c \in Conns |-> "none"]
  /\ mutex = "free" /\ conn_counter = 0 /\ conn_terminations = 0
  /\ seen = [c \in Conns |-> 0] /\ sent = [c \in Conns |-> 0]
  /\ srv = "none" /\ stop = 0 /\ failed = FALSE
  /\ conn = [c \in Conns |-> "none"] /\ buffer = <<>>

LGoto(from, to)    == lpc = from /\ lpc' = to
EGoto(from, to)    == epc = from /\ epc' = to
HGoto(c, from, to) == lpc # "exit" /\ hpc[c] = from /\ hpc' = [hpc EXCEPT ![c] = to]
ConnGoto(c, from, to) == conn[c] = from /\ conn' = [conn EXCEPT ![c] = to]

Acquire(t) ==
  \/ mutex = "free" /\ mutex' = t
  \/ mutex = "destroyed" /\ UNCHANGED mutex

Release == mutex' = IF mutex = "destroyed" THEN mutex ELSE "free"

-----------------------------------------------------------------------------
(* connmgr_listen                                                          *)

(* A port that cannot be opened ends the whole process.                    *)
Open ==
  /\ \/ LGoto("open", "lock") /\ srv' = "open"
     \/ LGoto("open", "exit") /\ UNCHANGED srv
  /\ UNCHANGED <<epc, mutex, countVars, conn, flagVars, handlerVars, buffer>>

(* The listener takes conn_mutex before the loop and at the end of a turn, *)
(* before it looks at conn_counter again, and when it wakes up.            *)
ListenerLock ==
  /\ LGoto("lock", "test") \/ LGoto("relock", "check") \/ LGoto("woken", "wait")
  /\ Acquire("listener")
  /\ UNCHANGED <<epc, countVars, socketVars, flagVars, handlerVars, buffer>>

(* Mutant: one client more than MAX_CONN.                                  *)
TestLoopOneMore ==
  /\ \/ conn_counter <= MaxConn /\ LGoto("test", "accept") /\ Release
     \/ conn_counter > MaxConn /\ LGoto("test", "spawn") /\ UNCHANGED mutex
  /\ UNCHANGED <<epc, countVars, socketVars, flagVars, handlerVars, buffer>>

(* while (conn_counter < MAX_CONN), and the unlock that begins a turn.     *)
TestLoop ==
  /\ \/ conn_counter < MaxConn /\ LGoto("test", "accept") /\ Release
     \/ conn_counter >= MaxConn /\ LGoto("test", "spawn") /\ UNCHANGED mutex
  /\ UNCHANGED <<epc, countVars, socketVars, flagVars, handlerVars, buffer>>

Accept(c) ==
  /\ LGoto("accept", "relock")
  /\ ConnGoto(c, "pending", "accepted")
  /\ UNCHANGED <<epc, mutex, countVars, srv, flagVars, handlerVars, buffer>>

(* tcp_wait_for_connection fails: before or in accept(), which leaves the  *)
(* client in the backlog, or after it, when there is no memory for the     *)
(* address: the structure is freed and no thread has the descriptor.       *)
WaitForConnectionFails ==
  /\ AcceptMayFail
  /\ \/ UNCHANGED conn
     \/ \E c \in Conns : ConnGoto(c, "pending", "lost")

(* continue goes back to the test of the loop without taking the mutex.    *)
AcceptFails ==
  /\ LGoto("accept", "test")
  /\ WaitForConnectionFails
  /\ failed' = TRUE
  /\ UNCHANGED <<epc, mutex, countVars, srv, stop, handlerVars, buffer>>

(* if (conn_counter < MAX_CONN) conn_counter++; else the client is turned  *)
(* away; both branches unlock.                                             *)
Check(c) ==
  /\ conn[c] = "accepted"
  /\ LGoto("check", IF conn_counter < MaxConn THEN "create" ELSE "lock")
  /\ conn_counter' = conn_counter + (IF conn_counter < MaxConn THEN 1 ELSE 0)
  /\ conn' = IF conn_counter < MaxConn THEN conn ELSE [conn EXCEPT ![c] = "closed"]
  /\ Release
  /\ UNCHANGED <<epc, conn_terminations, srv, flagVars, handlerVars, buffer>>

Create(c) ==
  /\ LGoto("create", "lock")
  /\ ConnGoto(c, "accepted", "serving") /\ HGoto(c, "none", "receive")
  /\ UNCHANGED <<epc, mutex, countVars, srv, flagVars, seen, sent, buffer>>

(* The socket is closed; continue, again without the mutex.                *)
CreateFails(c) ==
  /\ CreateMayFail
  /\ failed' = TRUE
  /\ LGoto("create", "test")
  /\ ConnGoto(c, "accepted", "closed")
  /\ UNCHANGED <<epc, mutex, countVars, srv, stop, handlerVars, buffer>>

Spawn ==
  /\ LGoto("spawn", "wait") /\ EGoto("none", "test")
  /\ UNCHANGED <<mutex, countVars, socketVars, flagVars, handlerVars, buffer>>

(* Nothing looks at the result: the listener goes on without the thread.   *)
SpawnFails ==
  /\ CreateMayFail
  /\ LGoto("spawn", "wait") /\ EGoto("none", "absent")
  /\ UNCHANGED <<mutex, countVars, socketVars, flagVars, handlerVars, buffer>>

(* Mutant: one termination too few.                                        *)
WaitOneLess ==
  /\ \/ conn_terminations + 1 < MaxConn /\ LGoto("wait", "waiting")
     \/ conn_terminations + 1 >= MaxConn /\ LGoto("wait", "close")
  /\ Release
  /\ UNCHANGED <<epc, countVars, socketVars, flagVars, handlerVars, buffer>>

(* while (conn_terminations < MAX_CONN) pthread_cond_wait(...); then unlock. *)
Wait ==
  /\ \/ conn_terminations < MaxConn /\ LGoto("wait", "waiting")
     \/ conn_terminations >= MaxConn /\ LGoto("wait", "close")
  /\ Release
  /\ UNCHANGED <<epc, countVars, socketVars, flagVars, handlerVars, buffer>>

(* POSIX lets a wait end without a signal.                                 *)
SpuriousWakeup ==
  /\ LGoto("waiting", "woken")
  /\ UNCHANGED <<epc, mutex, countVars, socketVars, flagVars, handlerVars, buffer>>

(* Mutant: the structure is freed, the descriptor stays open.              *)
CloseServerLeaks ==
  /\ \/ LGoto("close", "free") /\ srv' = "shut"
     \/ LGoto("free", "destroy") /\ srv' = "freed"
  /\ UNCHANGED <<epc, mutex, countVars, conn, flagVars, handlerVars, buffer>>

(* tcp_close shuts the socket down, which resets the clients still in the  *)
(* backlog, and then clears and frees the structure.  It reports no failure *)
(* for a socket that exists, so that the exit after it is never taken.     *)
CloseServer ==
  /\ \/ /\ LGoto("close", "free") /\ srv' = "shut"
        /\ conn' = [c \in Conns |-> IF conn[c] = "pending" THEN "refused" ELSE conn[c]]
     \/ LGoto("free", "destroy") /\ srv' = "freed" /\ UNCHANGED conn
  /\ UNCHANGED <<epc, mutex, countVars, flagVars, handlerVars, buffer>>

(* Destroying fails with EBUSY, which the code ignores, when the mutex is *)
(* held or when a stray unlock upset its count of users.                   *)
DestroyMutex ==
  /\ LGoto("destroy", "stop")
  /\ mutex' \in {mutex} \cup (IF mutex = "free" THEN {"destroyed"} ELSE {})
  /\ UNCHANGED <<epc, countVars, socketVars, flagVars, handlerVars, buffer>>

(* stop_excess_handler = true, then pthread_join of the excess handler.    *)
StopExcess ==
  /\ \/ LGoto("stop", "join") /\ stop' = 1
     \/ epc = "ended" /\ LGoto("join", "eos") /\ UNCHANGED stop
  /\ UNCHANGED <<epc, mutex, countVars, socketVars, failed, handlerVars, buffer>>

(* pthread_join of an excess_thread that was never set: what it finds is no *)
(* thread and it returns, or no memory and the process ends.               *)
JoinNothing ==
  /\ epc = "absent"
  /\ \/ LGoto("join", "eos") /\ UNCHANGED failed
     \/ LGoto("join", "exit") /\ failed' = TRUE
  /\ UNCHANGED <<epc, mutex, countVars, socketVars, stop, handlerVars, buffer>>

(* The last record: its id is 0.  sbuffer_insert may find no memory for it, *)
(* which nothing looks at.                                                 *)
InsertEos ==
  /\ LGoto("eos", "done")
  /\ \/ buffer' = Append(buffer, Eos) /\ UNCHANGED failed
     \/ failed' = TRUE /\ UNCHANGED buffer
  /\ UNCHANGED <<epc, mutex, countVars, socketVars, stop, handlerVars>>

(* The steps the listener takes by itself.                                 *)
Listener ==
  \/ Open \/ TestLoop \/ Spawn \/ Wait \/ CloseServer \/ DestroyMutex
  \/ StopExcess \/ JoinNothing \/ InsertEos
  \/ \E c \in Conns : Accept(c) \/ Check(c) \/ Create(c)

-----------------------------------------------------------------------------
(* client_handler                                                          *)

(* One measurement (id, value, time stamp) is received, or the peer closed *)
(* the connection, the socket failed, or the measurement came too late.    *)
Receive(c) ==
  /\ \/ /\ sent[c] < MaxMeas /\ HGoto(c, "receive", "insert")
        /\ sent' = [sent EXCEPT ![c] = @ + 1]
     \/ HGoto(c, "receive", "close") /\ UNCHANGED sent
  /\ UNCHANGED <<lpc, epc, mutex, countVars, socketVars, flagVars, seen, buffer>>

(* sbuffer_insert: a record there is no memory for is dropped, and the     *)
(* handler goes on.                                                        *)
Insert(c) ==
  /\ HGoto(c, "insert", "receive")
  /\ buffer' \in {Append(buffer, c), buffer}
  /\ UNCHANGED <<lpc, epc, mutex, countVars, socketVars, flagVars, seen, sent>>

(* The handler's count of what it received has no use after this.          *)
Close(c) ==
  /\ HGoto(c, "close", "lock") /\ ConnGoto(c, "serving", "closed")
  /\ sent' = [sent EXCEPT ![c] = 0]
  /\ UNCHANGED <<lpc, epc, mutex, countVars, srv, flagVars, seen, buffer>>

(* Mutant: the increment is not protected.                                 *)
HandlerNoLock(c) ==
  /\ HGoto(c, "lock", "read")
  /\ UNCHANGED <<lpc, epc, mutex, countVars, socketVars, flagVars, seen, sent, buffer>>

HandlerLock(c) ==
  /\ HGoto(c, "lock", "read")
  /\ Acquire(c)
  /\ UNCHANGED <<lpc, epc, countVars, socketVars, flagVars, seen, sent, buffer>>

(* conn_terminations++ is a load and a store, after which the register has *)
(* no use.                                                                 *)
Count(c) ==
  /\ \/ /\ HGoto(c, "read", "write") /\ seen' = [seen EXCEPT ![c] = conn_terminations]
        /\ UNCHANGED conn_terminations
     \/ /\ HGoto(c, "write", "signal") /\ conn_terminations' = seen[c] + 1
        /\ seen' = [seen EXCEPT ![c] = 0]
  /\ UNCHANGED <<lpc, epc, mutex, conn_counter, socketVars, flagVars, sent, buffer>>

(* Mutant: the listener is never signalled.                                *)
SignalForgotten(c) ==
  /\ HGoto(c, "signal", "unlock")
  /\ UNCHANGED <<lpc, epc, mutex, countVars, socketVars, flagVars, seen, sent, buffer>>

Signal(c) ==
  /\ HGoto(c, "signal", "unlock")
  /\ lpc' = IF conn_terminations = conn_counter /\ lpc = "waiting" THEN "woken" ELSE lpc
  /\ UNCHANGED <<epc, mutex, countVars, socketVars, flagVars, seen, sent, buffer>>

HandlerUnlock(c) ==
  /\ HGoto(c, "unlock", "ended")
  /\ Release
  /\ UNCHANGED <<lpc, epc, countVars, socketVars, flagVars, seen, sent, buffer>>

Handler(c) ==
  Receive(c) \/ Insert(c) \/ Close(c) \/ Count(c) \/ Signal(c) \/ HandlerUnlock(c)

-----------------------------------------------------------------------------
(* excess_client_handler                                                   *)

TestStop ==
  /\ EGoto("test", IF stop = 1 THEN "ended" ELSE "enter")
  /\ UNCHANGED <<lpc, mutex, countVars, socketVars, flagVars, handlerVars, buffer>>

(* tcp_wait_for_connection tests the cookie of the server socket, which    *)
(* tcp_close overwrites and then frees.                                    *)
EnterAccept ==
  /\ EGoto("enter", IF srv = "freed" THEN "test" ELSE "accept")
  /\ UNCHANGED <<lpc, mutex, countVars, socketVars, flagVars, handlerVars, buffer>>

(* accept: a client of the backlog, or an error once the socket is down.   *)
ExcessAccept ==
  /\ \/ \E c \in Conns : EGoto("accept", "lock") /\ ConnGoto(c, "pending", "excess")
     \/ srv # "open" /\ EGoto("accept", "test") /\ UNCHANGED conn
  /\ UNCHANGED <<lpc, mutex, countVars, srv, flagVars, handlerVars, buffer>>

(* The same failure, which the excess handler does not even report.        *)
ExcessAcceptFails ==
  /\ srv = "open" /\ EGoto("accept", "test")
  /\ WaitForConnectionFails
  /\ UNCHANGED <<lpc, mutex, countVars, srv, flagVars, handlerVars, buffer>>

ExcessLock ==
  /\ EGoto("lock", "reject")
  /\ Acquire("excess")
  /\ UNCHANGED <<lpc, countVars, socketVars, flagVars, handlerVars, buffer>>

(* Mutant: clients are turned away only beyond MAX_CONN.                   *)
RejectBeyond(c) ==
  /\ EGoto("reject", "unlock")
  /\ ConnGoto(c, "excess", IF conn_counter > MaxConn THEN "closed" ELSE "leaked")
  /\ UNCHANGED <<lpc, mutex, countVars, srv, flagVars, handlerVars, buffer>>

(* if (conn_counter >= MAX_CONN) the client is closed; otherwise its       *)
(* socket is forgotten.                                                    *)
Reject(c) ==
  /\ EGoto("reject", "unlock")
  /\ ConnGoto(c, "excess", IF conn_counter >= MaxConn THEN "closed" ELSE "leaked")
  /\ UNCHANGED <<lpc, mutex, countVars, srv, flagVars, handlerVars, buffer>>

ExcessUnlock ==
  /\ EGoto("unlock", "test")
  /\ Release
  /\ UNCHANGED <<lpc, countVars, socketVars, flagVars, handlerVars, buffer>>

Excess == TestStop \/ EnterAccept \/ ExcessAccept \/ ExcessUnlock \/ \E c \in Conns : Reject(c)

-----------------------------------------------------------------------------
(* A client connects while the server socket listens.                      *)
Connect(c) ==
  /\ srv = "open" /\ ConnGoto(c, "none", "pending")
  /\ UNCHANGED <<lpc, epc, mutex, countVars, srv, flagVars, handlerVars, buffer>>

Next ==
  \/ Listener \/ ListenerLock \/ AcceptFails \/ SpawnFails \/ SpuriousWakeup
  \/ Excess \/ ExcessLock \/ ExcessAcceptFails
  \/ \E c \in Conns : Handler(c) \/ HandlerLock(c) \/ Connect(c) \/ CreateFails(c)

SafeSpec == Init /\ [][Next]_vars

(* Every thread that can run does; a thread that finds the mutex free over *)
(* and over gets it (spurious wakeups would otherwise let the listener     *)
(* take it each time); and no client stays silent for ever: without the    *)
(* fairness of Receive a handler blocks in tcp_receive and the gateway     *)
(* never ends.  Failures, wakeups and connections are not obliged.         *)
Spec ==
  /\ SafeSpec
  /\ WF_vars(Listener) /\ SF_vars(ListenerLock)
  /\ WF_vars(Excess) /\ SF_vars(ExcessLock)
  /\ \A c \in Conns : WF_vars(Handler(c)) /\ SF_vars(HandlerLock(c))

-----------------------------------------------------------------------------
(* Properties                                                              *)

Started == {c \in Conns : hpc[c] # "none"}
Counted == {c \in Conns : hpc[c] \in {"signal", "unlock", "ended"}}

Closing == lpc \in {"close", "free", "destroy", "stop", "join", "eos", "done"}
Full    == Closing \/ lpc \in {"spawn", "wait", "waiting", "woken"}

(* conn_mutex protects: it is held by exactly the thread that is between a *)
(* lock and its unlock, so the counter's ++ is never torn.  A failure in   *)
(* connmgr_listen skips a lock and ends this.                              *)
MutexOwned == ~failed =>
  /\ mutex = "listener" <=> lpc \in {"test", "check", "spawn", "wait"}
  /\ \A c \in Conns : mutex = c <=> hpc[c] \in {"read", "write", "signal", "unlock"}
  /\ mutex = "excess" => epc \in {"reject", "unlock"}
  /\ epc \in {"reject", "unlock"} => mutex \in {"excess", "destroyed"}
  /\ mutex = "destroyed" => lpc \in {"stop", "join", "eos", "done"}

(* Unless a call failed, the counters count: admitted clients, and         *)
(* handlers past their increment (with the one that has loaded the old     *)
(* value).  This needs the mutex on every path to the ++.                  *)
CountersExact == TypeOK /\ (~failed =>
  /\ conn_counter = Cardinality(Started) + (IF lpc = "create" THEN 1 ELSE 0)
  /\ conn_terminations = Cardinality(Counted)
  /\ \A c \in Conns : hpc[c] = "write" => seen[c] = conn_terminations)

(* After a failure, too, the counters never promise too much: a client may *)
(* be counted that is not served, an increment of conn_terminations may be *)
(* lost, but none is added.                                                *)
CountersSafe ==
  /\ Cardinality(Started) + (IF lpc = "create" THEN 1 ELSE 0) <= conn_counter
  /\ conn_terminations <= Cardinality(Counted)
  /\ \A c \in Conns : hpc[c] = "write" => seen[c] <= Cardinality(Counted)

(* "this else statement is never reached" (connmgr.c:215): a client taken  *)
(* from the backlog is always admitted, and MAX_CONN are, no more, before  *)
(* the excess handler turns clients away.                                  *)
AdmissionBound ==
  /\ lpc \in {"accept", "relock", "check"} => conn_counter < MaxConn
  /\ conn_counter <= MaxConn
  /\ Full => conn_counter = MaxConn
  /\ lpc # "exit" => (epc # "none" <=> Full /\ lpc # "spawn")
  /\ lpc = "exit" => epc \in {"none", "absent"}

(* The server socket goes down, and the end of the stream goes in, only    *)
(* when every one of MAX_CONN handlers has inserted its last measurement,  *)
(* so that the record with which the readers stop is the last of all.      *)
(* After a failure a handler may then still be about to unlock; without    *)
(* one the record is there when the listener returns.                      *)
EosIsLast ==
  /\ Closing =>
       /\ Cardinality(Started) = MaxConn
       /\ \A c \in Started : hpc[c] \in (IF failed THEN {"signal", "unlock", "ended"} ELSE {"ended"})
  /\ \A i \in 1..Len(buffer) : buffer[i] = Eos => i = Len(buffer) /\ lpc = "done"
  /\ lpc = "done" /\ ~failed => buffer # <<>> /\ buffer[Len(buffer)] = Eos

(* Each connection is in the hands of exactly one thread until it is closed *)
(* or reset, so that no thread but its own could touch the socket it closed. *)
(* The one exception is lost: tcp_wait_for_connection had accepted it and   *)
(* then failed, so no thread ever has it or counts it.                      *)
EachSocketOwned ==
  /\ \A c \in Conns :
       /\ conn[c] = "serving" <=> hpc[c] \in {"receive", "insert", "close"}
       /\ conn[c] \in {"none", "pending", "accepted", "excess", "lost"} => hpc[c] = "none"
       /\ conn[c] = "pending" => srv = "open"
       /\ conn[c] = "accepted" => lpc \in {"relock", "check", "create"}
       /\ conn[c] = "excess" => epc \in {"lock", "reject"}
       /\ conn[c] = "lost" => AcceptMayFail
       /\ conn[c] # "leaked"
  /\ \A c, d \in Conns : conn[c] = conn[d] /\ conn[c] \in {"accepted", "excess"} => c = d
  /\ lpc \in {"eos", "done"} => epc \in {"ended", "absent"}
  /\ srv = "open" => ~Closing \/ lpc = "close"

IInv ==
  /\ TypeOK /\ MutexOwned /\ CountersExact /\ CountersSafe
  /\ AdmissionBound /\ EosIsLast /\ EachSocketOwned

(* When the listener returns no connection is open but those that a failing *)
(* tcp_wait_for_connection lost: none, if it cannot fail.                   *)
NothingLeftOpen ==
  lpc = "done" => \A c \in Conns :
    conn[c] \in {"none", "closed", "refused"} \cup (IF AcceptMayFail THEN {"lost"} ELSE {})

(* "Wait until all client threads terminate" (connmgr.c:228): once MAX_CONN *)
(* clients have been counted and no client thread is left, the gateway      *)
(* shuts down.                                                              *)
AllClientsGone == conn_counter = MaxConn /\ \A c \in Started : hpc[c] = "ended"
ShutdownAfterAllClients == (AllClientsGone /\ lpc # "create") ~> lpc = "done"

(* Every client that waits in the backlog is served, turned away or reset,  *)
(* unless a call of the listener failed, or one of the excess handler lost  *)
(* this client.                                                             *)
NobodyWaitsForEver ==
  \A c \in Conns :
    conn[c] = "pending" ~> failed \/ conn[c] \in {"serving", "closed", "refused", "lost"}

(* A thread past the cookie test of tcp_wait_for_connection uses a socket   *)
(* structure that has not been freed meanwhile.                             *)
SocketStaysValid == epc = "accept" => srv # "freed"

(* The connection manager implements the abstract service: a connection is *)
(* served from the start of its handler until its socket is closed.  That  *)
(* the service ends is promised as long as no call of the listener fails.  *)
Stage(c) == IF hpc[c] = "none" THEN "outside"
            ELSE IF hpc[c] \in {"receive", "insert", "close"} THEN "served" ELSE "gone"
CS == INSTANCE ConnService WITH stage <- [c \in Conns |-> Stage(c)]
ImplementsConnService == CS!SafeSpec /\ ([]~failed => CS!Live)
=============================================================================
