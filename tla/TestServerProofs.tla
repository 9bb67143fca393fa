-------------------------- MODULE TestServerProofs --------------------------
(***************************************************************************)
(* Proofs about the test server of lab 3, for any number of connections,   *)
(* any MAX_CONN and any number of measurements, whether or not             *)
(* tcp_wait_for_connection and pthread_create fail.                        *)
(***************************************************************************)
EXTENDS TestServer, FiniteSetTheorems, TLAPS

(* The initial states satisfy the inductive invariant.                     *)
LEMMA InitIInv == Init => IInv
<1> SUFFICES ASSUME Init PROVE IInv
  OBVIOUS
<1> USE TestServerAssumption DEF Init
<1>1. Served = {} /\ Counted = {} /\ \A c \in Conns : Lines(c) = {}
  BY DEF Served, Counted, Lines
<1>2. TypeOK /\ ~Over
  <2>1. failed \in BOOLEAN
    OBVIOUS
  <2>2. QED
    BY <2>1 DEF TypeOK, Over
<1>3. CountersSafe /\ Output
  BY <1>1, FS_EmptySet DEF CountersSafe, Output
<1>4. MutexOwned /\ OneThread
  BY DEF MutexOwned, OneThread
<1>5. QED
  BY <1>2, <1>3, <1>4 DEF IInv, NoThreadCutOff

(* The sets that the counters are compared with are finite.                *)
LEMMA FiniteParts ==
  /\ IsFiniteSet(Served) /\ Cardinality(Served) \in Nat
  /\ IsFiniteSet(Counted) /\ Cardinality(Counted) \in Nat
  /\ Cardinality(Counted) <= Cardinality(Served)
<1>1. IsFiniteSet(Served) /\ IsFiniteSet(Counted)
  BY TestServerAssumption, FS_Subset DEF Served, Counted
<1>2. Counted \in SUBSET Served
  BY DEF Served, Counted
<1>3. QED
  BY <1>1, <1>2, FS_Subset, FS_CardinalityType

(* A failure is remembered.                                                *)
LEMMA NoFailure ==
  ASSUME [Next]_vars, ~failed'
  PROVE  ~failed
BY DEF Next, vars, counters, Main, Open, Test, Wait, Close, Check, MainLock, Accept, Create,
       SpuriousWakeup, Handler, Receive, PrintLine, CloseClient, Count, Signal, HandlerUnlock,
       HandlerLock, Connect

(* Every step keeps the types.                                             *)
LEMMA TypeStep == IInv /\ [Next]_vars => TypeOK'
<1> SUFFICES ASSUME IInv, [Next]_vars PROVE TypeOK'
  OBVIOUS
<1> USE TestServerAssumption DEF TypeOK, Goto, HGoto, ConnGoto, counters
<1>0. TypeOK
  BY DEF IInv, NoThreadCutOff
<1>1. CASE Open \/ Test \/ Wait \/ MainLock
  BY <1>0, <1>1 DEF Open, Test, Wait, MainLock
<1>2. CASE Close
  <2>1. conn' \in [Conns -> {"none", "pending", "accepted", "closed", "refused", "lost"}]
    BY <1>0, <1>2 DEF Close
  <2>2. printed' \in Seq(Conns \cup {Shutdown}) /\ pc' \in {"end", "exit"}
    <3>1. \/ printed' = printed /\ pc' = "end"
          \/ printed' = Append(printed, Shutdown) /\ pc' = "exit"
      BY <1>2 DEF Close
    <3>2. Append(printed, Shutdown) \in Seq(Conns \cup {Shutdown})
      BY <1>0
    <3>3. QED
      BY <1>0, <3>1, <3>2
  <2>3. UNCHANGED <<hpc, mutex, conn_counter, conn_terminations, failed, seen, sent>>
    BY <1>2 DEF Close
  <2>4. QED
    BY <1>0, <2>1, <2>2, <2>3
<1>3. ASSUME NEW c \in Conns, Check(c) PROVE TypeOK'
  <2>1. conn_counter' \in 0..MaxConn
    BY <1>0, <1>3 DEF Check
  <2>2. conn' \in [Conns -> {"none", "pending", "accepted", "closed", "refused", "lost"}]
    BY <1>0, <1>3 DEF Check
  <2>3. QED
    BY <1>0, <1>3, <2>1, <2>2 DEF Check
<1>4. CASE Accept
  <2>1. failed' \in BOOLEAN
    BY <1>0, <1>4 DEF Accept
  <2>2. conn' \in [Conns -> {"none", "pending", "accepted", "closed", "refused", "lost"}]
    BY <1>0, <1>4 DEF Accept
  <2>3. QED
    BY <1>0, <1>4, <2>1, <2>2 DEF Accept
<1>5. ASSUME NEW c \in Conns, Create(c) PROVE TypeOK'
  <2>1. failed' \in BOOLEAN
    BY <1>0, <1>5 DEF Create
  <2>2. conn' \in [Conns -> {"none", "pending", "accepted", "closed", "refused", "lost"}]
        /\ hpc' \in [Conns -> {"none", "receive", "print", "close", "lock", "load", "store",
                              "signal", "unlock", "ended"}]
    BY <1>0, <1>5 DEF Create
  <2>3. QED
    BY <1>0, <1>5, <2>1, <2>2 DEF Create
<1>6. CASE SpuriousWakeup
  BY <1>0, <1>6 DEF SpuriousWakeup
<1>7. ASSUME NEW c \in Conns, Receive(c) PROVE TypeOK'
  <2>1. UNCHANGED <<pc, mutex, conn_counter, conn_terminations, failed, seen, conn, printed>>
    BY <1>7 DEF Receive
  <2>2. CASE sent[c] < MaxMeas /\ HGoto(c, "receive", "print") /\ sent' = [sent EXCEPT ![c] = @ + 1]
    BY <1>0, <2>1, <2>2
  <2>3. CASE HGoto(c, "receive", "close") /\ UNCHANGED sent
    BY <1>0, <2>1, <2>3
  <2>4. QED
    BY <1>7, <2>2, <2>3 DEF Receive
<1>8. ASSUME NEW c \in Conns, PrintLine(c) \/ CloseClient(c) \/ HandlerLock(c) \/ HandlerUnlock(c)
      PROVE  TypeOK'
  <2>1. CASE PrintLine(c)
    BY <1>0, <2>1 DEF PrintLine
  <2>2. CASE CloseClient(c)
    BY <1>0, <2>2 DEF CloseClient
  <2>3. CASE HandlerLock(c)
    BY <1>0, <2>3 DEF HandlerLock
  <2>4. CASE HandlerUnlock(c)
    BY <1>0, <2>4 DEF HandlerUnlock
  <2>5. QED
    BY <1>8, <2>1, <2>2, <2>3, <2>4
<1>9. ASSUME NEW c \in Conns, Count(c) PROVE TypeOK'
  <2>1. UNCHANGED <<pc, mutex, conn_counter, failed, conn, sent, printed>>
    BY <1>9 DEF Count
  <2>2. CASE HGoto(c, "load", "store") /\ seen' = [seen EXCEPT ![c] = conn_terminations]
             /\ UNCHANGED conn_terminations
    BY <1>0, <2>1, <2>2
  <2>3. CASE HGoto(c, "store", "signal") /\ conn_terminations' = seen[c] + 1 /\ UNCHANGED seen
    <3>1. c \in Served \ Counted /\ Counted \cup {c} \in SUBSET Served
      BY <2>3 DEF Served, Counted
    <3>2. /\ Cardinality(Counted \cup {c}) = Cardinality(Counted) + 1
          /\ Cardinality(Counted \cup {c}) <= Cardinality(Served)
      BY <3>1, FiniteParts, FS_AddElement, FS_Subset
    <3>3. seen[c] <= Cardinality(Counted) /\ Cardinality(Served) <= conn_counter
      BY <2>3, FiniteParts, <1>0 DEF IInv, CountersSafe
    <3>4. conn_terminations' \in 0..MaxConn
      BY <1>0, <2>3, <3>2, <3>3, FiniteParts
    <3>5. QED
      BY <1>0, <2>1, <2>3, <3>4
  <2>4. QED
    BY <1>9, <2>2, <2>3 DEF Count
<1>10. ASSUME NEW c \in Conns, Signal(c) PROVE TypeOK'
  BY <1>0, <1>10 DEF Signal
<1>11. ASSUME NEW c \in Conns, Connect(c) PROVE TypeOK'
  BY <1>0, <1>11 DEF Connect
<1>12. CASE UNCHANGED vars
  BY <1>0, <1>12 DEF vars
<1>13. QED
  BY <1>1, <1>2, <1>3, <1>4, <1>5, <1>6, <1>7, <1>8, <1>9, <1>10, <1>11, <1>12
     DEF Next, Main, Handler

(* Every step keeps the owner of conn_mutex known.                         *)
LEMMA MutexStep == IInv /\ [Next]_vars => MutexOwned'
<1> SUFFICES ASSUME IInv, [Next]_vars, ~failed' PROVE MutexOwned'
  BY DEF MutexOwned
<1>0. ~failed /\ TypeOK /\ MutexOwned
  BY NoFailure DEF IInv, NoThreadCutOff
<1> USE TestServerAssumption, <1>0 DEF TypeOK, MutexOwned, Goto, HGoto, counters
<1>1. CASE Open \/ Test \/ Wait \/ MainLock \/ Close \/ SpuriousWakeup
  BY <1>1 DEF Open, Test, Wait, MainLock, Close, SpuriousWakeup
<1>2. ASSUME NEW c \in Conns, Check(c) \/ Connect(c) PROVE MutexOwned'
  BY <1>2 DEF Check, Connect
<1>3. CASE Accept
  BY <1>3 DEF Accept
<1>4. ASSUME NEW c \in Conns, Create(c) PROVE MutexOwned'
  BY <1>4 DEF Create
<1>5. ASSUME NEW c \in Conns, Receive(c) \/ PrintLine(c) \/ CloseClient(c) PROVE MutexOwned'
  BY <1>5 DEF Receive, PrintLine, CloseClient
<1>6. ASSUME NEW c \in Conns, HandlerLock(c) \/ Count(c) \/ Signal(c) \/ HandlerUnlock(c)
      PROVE  MutexOwned'
  <2>1. CASE HandlerLock(c)
    BY <2>1 DEF HandlerLock
  <2>2. CASE Count(c) \/ Signal(c)
    BY <2>2 DEF Count, Signal
  <2>3. CASE HandlerUnlock(c)
    BY <2>3 DEF HandlerUnlock
  <2>4. QED
    BY <1>6, <2>1, <2>2, <2>3
<1>7. CASE UNCHANGED vars
  BY <1>7 DEF vars
<1>8. QED
  BY <1>1, <1>2, <1>3, <1>4, <1>5, <1>6, <1>7 DEF Next, Main, Handler

(* What leaves the threads and the counters alone keeps CountersSafe if    *)
(* main stays where it is, up to taking the mutex.                         *)
LEMMA CountersFrame ==
  ASSUME CountersSafe, conn_counter \in Nat, UNCHANGED <<conn_counter, conn_terminations, seen>>,
         pc' = pc \/ pc' \in {"lock", "test", "close", "end", "exit"}
           \/ (pc = "relock" /\ pc' = "check") \/ (pc = "accept" /\ pc' = "relock")
           \/ (pc \in {"wait", "waiting", "woken"} /\ pc' \in {"wait", "waiting", "woken"}),
         \A c \in Conns : /\ hpc[c] = "none" <=> hpc'[c] = "none"
                          /\ hpc[c] \in {"signal", "unlock", "ended"} <=>
                               hpc'[c] \in {"signal", "unlock", "ended"}
                          /\ hpc'[c] = "store" => hpc[c] = "store"
  PROVE  CountersSafe'
<1>1. Served' = Served /\ Counted' = Counted
  BY DEF Served, Counted
<1>2. pc' = "create" => pc = "create"
  OBVIOUS
<1>3. Cardinality(Served) + (IF pc' = "create" THEN 1 ELSE 0) <= conn_counter
  BY <1>2, FiniteParts DEF CountersSafe
<1>5. QED
  BY <1>1, <1>3 DEF CountersSafe

(* Every step keeps the counters within what the threads have done.        *)
LEMMA CountersStep == IInv /\ [Next]_vars => CountersSafe'
<1> SUFFICES ASSUME IInv, [Next]_vars PROVE CountersSafe'
  OBVIOUS
<1> USE DEF Goto, HGoto, counters
<1>0. /\ CountersSafe
      /\ hpc \in [Conns -> {"none", "receive", "print", "close", "lock", "load", "store",
                            "signal", "unlock", "ended"}] /\ seen \in [Conns -> Nat]
      /\ conn_counter \in Nat /\ conn_counter <= MaxConn /\ conn_terminations \in Nat
      /\ MaxConn \in Nat
  BY TestServerAssumption DEF IInv, NoThreadCutOff, TypeOK
<1>1. CASE Test
  <2>1. UNCHANGED <<hpc, conn_counter, conn_terminations, seen>> /\ pc = "test"
    BY <1>1 DEF Test
  <2>2. Served' = Served /\ Counted' = Counted
    BY <2>1 DEF Served, Counted
  <2>3. \/ pc' = "accept" /\ conn_counter < MaxConn
        \/ pc' = "wait" /\ conn_counter = MaxConn
    BY <1>0, <1>1 DEF Test
  <2>4. QED
    BY <1>0, <2>1, <2>2, <2>3 DEF CountersSafe
<1>2. CASE Open \/ Wait \/ MainLock \/ Close \/ SpuriousWakeup
  <2>1. CASE MainLock
    <3>1. /\ UNCHANGED <<hpc, conn_counter, conn_terminations, seen>>
          /\ \/ pc' = "test" \/ (pc = "relock" /\ pc' = "check") \/ (pc = "woken" /\ pc' = "wait")
      BY <2>1 DEF MainLock
    <3>2. QED
      BY <1>0, <3>1, CountersFrame
  <2>2. CASE Open \/ Wait \/ Close \/ SpuriousWakeup
    BY <1>0, <2>2, CountersFrame DEF Open, Wait, Close, SpuriousWakeup
  <2>3. QED
    BY <1>2, <2>1, <2>2
<1>3. CASE Accept
  BY <1>0, <1>3, CountersFrame DEF Accept
<1>4. ASSUME NEW c \in Conns, Check(c) PROVE CountersSafe'
  <2>1. conn_counter < MaxConn /\ pc = "check"
    BY <1>0, <1>4 DEF Check, CountersSafe
  <2>2. /\ pc' = "create" /\ conn_counter' = conn_counter + 1
        /\ UNCHANGED <<conn_terminations, hpc, seen>>
    BY <1>0, <1>4, <2>1 DEF Check
  <2>3. Served' = Served /\ Counted' = Counted
    BY <2>2 DEF Served, Counted
  <2>4. QED
    BY <1>0, <2>1, <2>2, <2>3, FiniteParts DEF CountersSafe
<1>5. ASSUME NEW c \in Conns, Create(c) PROVE CountersSafe'
  <2>1. pc = "create" /\ UNCHANGED <<conn_counter, conn_terminations, seen>>
    BY <1>5 DEF Create
  <2>2. CASE pc' = "test" /\ hpc' = hpc
    BY <1>0, <2>1, <2>2, CountersFrame
  <2>3. CASE pc' = "lock" /\ hpc[c] = "none" /\ hpc' = [hpc EXCEPT ![c] = "receive"]
    <3>1. Served' = Served \cup {c} /\ c \notin Served /\ Counted' = Counted
      BY <1>0, <2>3 DEF Served, Counted
    <3>2. Cardinality(Served') = Cardinality(Served) + 1
      BY <3>1, FiniteParts, FS_AddElement
    <3>3. \A d \in Conns : hpc'[d] = "store" => hpc[d] = "store"
      BY <1>0, <2>3
    <3>4. QED
      BY <1>0, <2>1, <2>3, <3>1, <3>2, <3>3, FiniteParts DEF CountersSafe
  <2>4. QED
    BY <1>5, <2>2, <2>3 DEF Create
<1>6. ASSUME NEW c \in Conns,
             Receive(c) \/ PrintLine(c) \/ CloseClient(c) \/ HandlerLock(c) \/ Signal(c)
               \/ HandlerUnlock(c)
      PROVE  CountersSafe'
  <2>1. /\ UNCHANGED <<conn_counter, conn_terminations, seen>>
        /\ pc' = pc \/ (pc = "waiting" /\ pc' = "woken")
    BY <1>6 DEF Receive, PrintLine, CloseClient, HandlerLock, Signal, HandlerUnlock
  <2>2. \/ \E to \in {"print", "close", "receive", "lock", "load"} :
            /\ hpc[c] \in {"receive", "print", "close", "lock"}
            /\ hpc' = [hpc EXCEPT ![c] = to]
        \/ \E to \in {"unlock", "ended"} :
            hpc[c] \in {"signal", "unlock"} /\ hpc' = [hpc EXCEPT ![c] = to]
    BY <1>6 DEF Receive, PrintLine, CloseClient, HandlerLock, Signal, HandlerUnlock
  <2>3. \A d \in Conns : /\ hpc[d] = "none" <=> hpc'[d] = "none"
                         /\ hpc[d] \in {"signal", "unlock", "ended"} <=>
                              hpc'[d] \in {"signal", "unlock", "ended"}
                         /\ hpc'[d] = "store" => hpc[d] = "store"
    BY <1>0, <2>2
  <2>4. QED
    BY <1>0, <2>1, <2>3, CountersFrame
<1>7. ASSUME NEW c \in Conns, Count(c) PROVE CountersSafe'
  <2>1. pc' = pc /\ conn_counter' = conn_counter
    BY <1>7 DEF Count
  <2>2. CASE /\ hpc[c] = "load" /\ hpc' = [hpc EXCEPT ![c] = "store"]
             /\ seen' = [seen EXCEPT ![c] = conn_terminations]
             /\ conn_terminations' = conn_terminations
    <3>1. Served' = Served /\ Counted' = Counted
      BY <1>0, <2>2 DEF Served, Counted
    <3>2. \A d \in Conns : hpc'[d] = "store" => seen'[d] <= Cardinality(Counted)
      BY <1>0, <2>2 DEF CountersSafe
    <3>3. QED
      BY <1>0, <2>1, <2>2, <3>1, <3>2 DEF CountersSafe
  <2>3. CASE /\ hpc[c] = "store" /\ hpc' = [hpc EXCEPT ![c] = "signal"]
             /\ conn_terminations' = seen[c] + 1 /\ seen' = seen
    <3>1. Served' = Served /\ Counted' = Counted \cup {c} /\ c \notin Counted
      BY <1>0, <2>3 DEF Served, Counted
    <3>2. Cardinality(Counted') = Cardinality(Counted) + 1
      BY <3>1, FiniteParts, FS_AddElement
    <3>3. conn_terminations' <= Cardinality(Counted')
      BY <1>0, <2>3, <3>2, FiniteParts DEF CountersSafe
    <3>4. \A d \in Conns : hpc'[d] = "store" => seen'[d] <= Cardinality(Counted')
      BY <1>0, <2>3, <3>2, FiniteParts DEF CountersSafe
    <3>5. QED
      BY <1>0, <2>1, <3>1, <3>3, <3>4 DEF CountersSafe
  <2>4. QED
    BY <1>7, <2>2, <2>3 DEF Count
<1>8. ASSUME NEW c \in Conns, Connect(c) PROVE CountersSafe'
  BY <1>0, <1>8, CountersFrame DEF Connect
<1>9. CASE UNCHANGED vars
  BY <1>0, <1>9, CountersFrame DEF vars
<1>10. QED
  BY <1>1, <1>2, <1>3, <1>4, <1>5, <1>6, <1>7, <1>8, <1>9 DEF Next, Main, Handler

(* Every step keeps each connection with its one thread.                   *)
LEMMA ThreadStep == IInv /\ [Next]_vars => OneThread'
<1> SUFFICES ASSUME IInv, [Next]_vars PROVE OneThread'
  OBVIOUS
<1> USE DEF Goto, HGoto, ConnGoto, OneThread
<1>0. /\ OneThread
      /\ hpc \in [Conns -> {"none", "receive", "print", "close", "lock", "load", "store",
                            "signal", "unlock", "ended"}]
      /\ conn \in [Conns -> {"none", "pending", "accepted", "closed", "refused", "lost"}]
  BY DEF IInv, NoThreadCutOff, TypeOK
<1>1. CASE Open \/ Test \/ Wait \/ MainLock \/ SpuriousWakeup
  BY <1>0, <1>1 DEF Open, Test, Wait, MainLock, SpuriousWakeup
<1>2. CASE Close
  BY <1>0, <1>2 DEF Close
<1>3. CASE Accept
  BY <1>0, <1>3 DEF Accept
<1>4. ASSUME NEW c \in Conns, Check(c) PROVE OneThread'
  <2>1. conn_counter < MaxConn /\ MaxConn \in Nat /\ conn_counter \in Nat
    BY <1>4, TestServerAssumption DEF Check, IInv, CountersSafe, NoThreadCutOff, TypeOK
  <2>2. pc' = "create" /\ UNCHANGED <<conn, hpc>>
    BY <1>4, <2>1 DEF Check
  <2>3. QED
    BY <1>0, <2>2
<1>5. ASSUME NEW c \in Conns, Create(c) PROVE OneThread'
  BY <1>0, <1>5 DEF Create
<1>6. ASSUME NEW c \in Conns, Receive(c) \/ PrintLine(c) PROVE OneThread'
  BY <1>0, <1>6 DEF Receive, PrintLine
<1>7. ASSUME NEW c \in Conns, CloseClient(c) PROVE OneThread'
  BY <1>0, <1>7 DEF CloseClient
<1>8. ASSUME NEW c \in Conns, HandlerLock(c) \/ Count(c) \/ Signal(c) \/ HandlerUnlock(c)
      PROVE  OneThread'
  <2>1. conn' = conn /\ (pc' = pc \/ (pc = "waiting" /\ pc' = "woken"))
    BY <1>8 DEF HandlerLock, Count, Signal, HandlerUnlock
  <2>2. /\ hpc[c] \in {"lock", "load", "store", "signal", "unlock"}
        /\ \E to \in {"load", "store", "signal", "unlock", "ended"} :
             hpc' = [hpc EXCEPT ![c] = to]
    BY <1>8 DEF HandlerLock, Count, Signal, HandlerUnlock
  <2>3. QED
    BY <1>0, <2>1, <2>2
<1>9. ASSUME NEW c \in Conns, Connect(c) PROVE OneThread'
  BY <1>0, <1>9 DEF Connect
<1>10. CASE UNCHANGED vars
  BY <1>0, <1>10 DEF vars
<1>11. QED
  BY <1>1, <1>2, <1>3, <1>4, <1>5, <1>6, <1>7, <1>8, <1>9, <1>10 DEF Next, Main, Handler

(* Main leaves its wait only when every client's thread has counted itself *)
(* and, without a failure, has left its section.                           *)
LEMMA WaitEndsLast ==
  ASSUME IInv, pc = "wait", conn_terminations >= MaxConn
  PROVE  /\ Cardinality(Served) = MaxConn
         /\ \A c \in Served : conn[c] = "closed" /\ hpc[c] \in {"signal", "unlock", "ended"}
         /\ ~failed => mutex = "main" /\ \A c \in Served : hpc[c] = "ended"
<1>0. TypeOK /\ MaxConn \in Nat
  BY TestServerAssumption DEF IInv, NoThreadCutOff
<1>1. conn_terminations <= Cardinality(Counted) /\ Cardinality(Served) <= conn_counter
      /\ conn_counter = MaxConn
  BY FiniteParts, <1>0 DEF IInv, TypeOK, CountersSafe
<1>2. Cardinality(Counted) = Cardinality(Served) /\ Cardinality(Served) = MaxConn
  BY <1>0, <1>1, FiniteParts DEF TypeOK
<1>3. Counted \in SUBSET Served
  BY DEF Counted, Served
<1>4. Counted = Served
  BY <1>2, <1>3, FiniteParts, FS_Subset
<1>5. \A c \in Served : hpc[c] \in {"signal", "unlock", "ended"}
  BY <1>4 DEF Counted
<1>6. \A c \in Served : conn[c] = "closed"
  BY <1>5 DEF IInv, OneThread, Served
<1>7. ~failed => mutex = "main"
  BY DEF IInv, MutexOwned
<1>8. ~failed => \A c \in Served : hpc[c] = "ended"
  BY <1>5, <1>7, TestServerAssumption DEF IInv, MutexOwned, Served
<1>9. QED
  BY <1>2, <1>5, <1>6, <1>7, <1>8

(* Every step keeps what the end of main promises.                         *)
LEMMA EndStep == IInv /\ [Next]_vars => NoThreadCutOff'
<1> SUFFICES ASSUME IInv, [Next]_vars, Over'
             PROVE  /\ Cardinality(Served') = MaxConn
                    /\ \A c \in Served' : conn'[c] = "closed"
                                         /\ hpc'[c] \in {"signal", "unlock", "ended"}
                    /\ ~failed' => mutex' = "free" /\ \A c \in Served' : hpc'[c] = "ended"
  BY TypeStep DEF NoThreadCutOff
<1> USE DEF Goto, HGoto, ConnGoto, counters
<1>0. /\ TypeOK /\ (~failed' => ~failed)
      /\ Over => /\ Cardinality(Served) = MaxConn
                 /\ \A c \in Served : conn[c] = "closed" /\ hpc[c] \in {"signal", "unlock", "ended"}
                 /\ ~failed => mutex = "free" /\ \A c \in Served : hpc[c] = "ended"
  BY NoFailure DEF IInv, NoThreadCutOff
<1>1. CASE Wait
  <2>1. /\ pc = "wait" /\ conn_terminations >= MaxConn /\ mutex' = "free"
        /\ UNCHANGED <<hpc, conn, failed>>
    BY <1>1 DEF Wait, Over
  <2>2. Served' = Served
    BY <2>1 DEF Served
  <2>3. QED
    BY <2>1, <2>2, WaitEndsLast
<1>2. CASE Close
  <2>1. Over /\ UNCHANGED <<hpc, mutex, failed>>
    BY <1>2 DEF Close, Over
  <2>2. Served' = Served /\ Served \in SUBSET Conns
    BY <2>1 DEF Served
  <2>3. \A c \in Served : conn'[c] = conn[c]
    BY <1>0, <1>2, <2>1, <2>2 DEF Close, TypeOK
  <2>4. QED
    BY <1>0, <2>1, <2>2, <2>3
<1>3. CASE Open \/ Test \/ MainLock \/ SpuriousWakeup \/ Accept \/ \E c \in Conns : Check(c) \/ Create(c)
  <2>1. pc \notin {"end", "exit"} /\ pc' \notin {"close", "end"} /\ printed' = printed
        /\ (pc' = "exit" => pc = "open")
    BY <1>3 DEF Open, Test, MainLock, SpuriousWakeup, Accept, Check, Create
  <2>2. pc = "open" => printed = <<>>
    BY DEF IInv, Output
  <2>3. QED
    BY <2>1, <2>2 DEF Over
<1>4. ASSUME NEW c \in Conns, pc # "exit",
             Receive(c) \/ PrintLine(c) \/ CloseClient(c) \/ Count(c) \/ HandlerLock(c)
      PROVE  FALSE
  <2>1. Over /\ c \in Served /\ hpc[c] \notin {"signal", "unlock", "ended"}
    BY <1>4 DEF Receive, PrintLine, CloseClient, Count, HandlerLock, Over, Served
  <2>2. QED
    BY <1>0, <2>1
<1>5. ASSUME NEW c \in Conns, pc # "exit", Signal(c) \/ HandlerUnlock(c)
      PROVE  /\ Cardinality(Served') = MaxConn
             /\ \A d \in Served' : conn'[d] = "closed" /\ hpc'[d] \in {"signal", "unlock", "ended"}
             /\ ~failed' => mutex' = "free" /\ \A d \in Served' : hpc'[d] = "ended"
  <2>1. /\ UNCHANGED <<conn, failed>> /\ hpc[c] \in {"signal", "unlock"}
        /\ \E to \in {"unlock", "ended"} : hpc' = [hpc EXCEPT ![c] = to]
        /\ pc' = pc \/ pc' = "woken"
    BY <1>5 DEF Signal, HandlerUnlock
  <2>2. Over
    BY <1>5, <2>1 DEF Over
  <2>3. Served' = Served /\ c \in Served
    BY <1>0, <2>1 DEF Served, TypeOK
  <2>4. failed
    BY <1>0, <2>1, <2>2, <2>3
  <2>5. \A d \in Served : hpc'[d] \in {"signal", "unlock", "ended"}
    BY <1>0, <2>1, <2>2, <2>3 DEF TypeOK, Served
  <2>6. QED
    BY <1>0, <2>1, <2>2, <2>3, <2>4, <2>5
<1>6. ASSUME NEW c \in Conns, Connect(c)
      PROVE  /\ Cardinality(Served') = MaxConn
             /\ \A d \in Served' : conn'[d] = "closed" /\ hpc'[d] \in {"signal", "unlock", "ended"}
             /\ ~failed' => mutex' = "free" /\ \A d \in Served' : hpc'[d] = "ended"
  <2>1. /\ UNCHANGED <<pc, hpc, mutex, failed>> /\ pc \notin {"open", "end", "exit"}
        /\ conn[c] = "none" /\ conn' = [conn EXCEPT ![c] = "pending"]
    BY <1>6 DEF Connect
  <2>2. Over /\ Served' = Served /\ c \notin Served
    BY <1>0, <2>1 DEF Over, Served
  <2>3. \A d \in Served : conn'[d] = conn[d]
    BY <1>0, <2>1, <2>2 DEF TypeOK, Served
  <2>4. QED
    BY <1>0, <2>1, <2>2, <2>3
<1>7. CASE UNCHANGED vars
  <2>1. Over /\ Served' = Served /\ UNCHANGED <<conn, hpc, mutex, failed>>
    BY <1>7 DEF vars, Over, Served
  <2>2. QED
    BY <1>0, <2>1
<1>8. QED
  BY <1>1, <1>2, <1>3, <1>4, <1>5, <1>6, <1>7 DEF Next, Main, Handler

(* The lines of a connection are finitely many.                            *)
LEMMA FiniteLines ==
  ASSUME TypeOK, NEW c
  PROVE  IsFiniteSet(Lines(c)) /\ Cardinality(Lines(c)) \in Nat
<1>1. IsFiniteSet(1..Len(printed))
  BY FS_Interval DEF TypeOK
<1>2. Lines(c) \in SUBSET (1..Len(printed))
  BY DEF Lines
<1>3. QED
  BY <1>1, <1>2, FS_Subset, FS_CardinalityType

(* A line more is one for the connection it is of, and for no other.       *)
LEMMA AppendLine ==
  ASSUME TypeOK, NEW line, printed' = Append(printed, line)
  PROVE  /\ \A i \in 1..Len(printed) : printed'[i] = printed[i]
         /\ Len(printed') = Len(printed) + 1 /\ printed'[Len(printed) + 1] = line
         /\ \A c \in Conns : Cardinality(Lines(c)') =
              Cardinality(Lines(c)) + (IF c = line THEN 1 ELSE 0)
<1>1. /\ printed \in Seq(Conns \cup {Shutdown}) /\ Len(printed) \in Nat
      /\ Len(printed') = Len(printed) + 1 /\ printed'[Len(printed) + 1] = line
      /\ \A i \in 1..Len(printed) : printed'[i] = printed[i]
  BY DEF TypeOK
<1>2. ASSUME NEW c \in Conns
      PROVE  Cardinality(Lines(c)') = Cardinality(Lines(c)) + (IF c = line THEN 1 ELSE 0)
  <2>1. CASE c = line
    <3>1. Lines(c)' = Lines(c) \cup {Len(printed) + 1} /\ Len(printed) + 1 \notin Lines(c)
      BY <1>1, <2>1 DEF Lines
    <3>2. QED
      BY <2>1, <3>1, FiniteLines, FS_AddElement
  <2>2. CASE c # line
    <3>1. Lines(c)' = Lines(c)
      BY <1>1, <2>2 DEF Lines
    <3>2. QED
      BY <2>2, <3>1, FiniteLines
  <2>3. QED
    BY <2>1, <2>2
<1>3. QED
  BY <1>1, <1>2

(* Every step keeps the output in step with the measurements.              *)
LEMMA OutputStep == IInv /\ [Next]_vars => Output'
<1> SUFFICES ASSUME IInv, [Next]_vars PROVE Output'
  OBVIOUS
<1> USE DEF Goto, HGoto, ConnGoto, counters
<1>0. /\ TypeOK /\ Output
      /\ hpc \in [Conns -> {"none", "receive", "print", "close", "lock", "load", "store",
                            "signal", "unlock", "ended"}]
      /\ sent \in [Conns -> 0..MaxMeas]
  BY DEF IInv, NoThreadCutOff, TypeOK
<1>1. ASSUME UNCHANGED <<sent, printed>>, pc' = pc \/ pc # "exit", pc' = "open" => pc = "open",
             \A c \in Conns : hpc'[c] = "print" <=> hpc[c] = "print"
      PROVE  Output'
  <2>1. \A c \in Conns : Lines(c)' = Lines(c)
    BY <1>1 DEF Lines
  <2>2. \A c \in Conns : sent[c] = Cardinality(Lines(c)) + (IF hpc'[c] = "print" THEN 1 ELSE 0)
    BY <1>0, <1>1 DEF Output
  <2>3. QED
    BY <1>0, <1>1, <2>1, <2>2 DEF Output
<1>2. CASE Open \/ Test \/ Wait \/ MainLock \/ SpuriousWakeup \/ Accept
           \/ \E c \in Conns : Check(c) \/ Connect(c)
  BY <1>1, <1>2 DEF Open, Test, Wait, MainLock, SpuriousWakeup, Accept, Check, Connect
<1>3. CASE UNCHANGED vars
  BY <1>1, <1>3 DEF vars
<1>4. ASSUME NEW c \in Conns, NEW to, hpc' = [hpc EXCEPT ![c] = to], to # "print",
             hpc[c] # "print", UNCHANGED <<sent, printed>>, pc' = pc \/ pc # "exit",
             pc' = "open" => pc = "open"
      PROVE  Output'
  <2>1. \A d \in Conns : hpc'[d] = "print" <=> hpc[d] = "print"
    BY <1>0, <1>4
  <2>2. QED
    BY <1>1, <1>4, <2>1
<1>5. ASSUME NEW c \in Conns, Create(c) PROVE Output'
  <2>1. /\ UNCHANGED <<sent, printed>> /\ pc = "create" /\ pc' # "open"
        /\ hpc' = hpc \/ (hpc[c] = "none" /\ hpc' = [hpc EXCEPT ![c] = "receive"])
    BY <1>5 DEF Create
  <2>2. QED
    BY <2>1, <1>1, <1>4
<1>6. ASSUME NEW c \in Conns,
             CloseClient(c) \/ HandlerLock(c) \/ Count(c) \/ Signal(c) \/ HandlerUnlock(c)
      PROVE  Output'
  <2>1. /\ UNCHANGED <<sent, printed>> /\ hpc[c] # "print"
        /\ pc' = pc \/ (pc = "waiting" /\ pc' = "woken")
        /\ \E to \in {"lock", "load", "store", "signal", "unlock", "ended"} :
             hpc' = [hpc EXCEPT ![c] = to]
    BY <1>6 DEF CloseClient, HandlerLock, Count, Signal, HandlerUnlock
  <2>2. QED
    BY <2>1, <1>4
<1>7. ASSUME NEW c \in Conns, Receive(c) PROVE Output'
  <2>1. CASE hpc[c] = "receive" /\ hpc' = [hpc EXCEPT ![c] = "close"] /\ UNCHANGED sent
    BY <1>4, <1>7, <2>1 DEF Receive
  <2>2. CASE hpc[c] = "receive" /\ hpc' = [hpc EXCEPT ![c] = "print"]
             /\ sent' = [sent EXCEPT ![c] = @ + 1]
    <3>1. printed' = printed /\ pc' = pc /\ \A d \in Conns : Lines(d)' = Lines(d)
      BY <1>7 DEF Receive, Lines
    <3>2. \A d \in Conns :
            sent'[d] = Cardinality(Lines(d)) + (IF hpc'[d] = "print" THEN 1 ELSE 0)
      BY <1>0, <2>2, FiniteLines DEF Output
    <3>3. QED
      BY <1>0, <3>1, <3>2 DEF Output
  <2>3. QED
    BY <1>7, <2>1, <2>2 DEF Receive
<1>8. ASSUME NEW c \in Conns, PrintLine(c), pc # "exit" PROVE Output'
  <2>1. /\ pc' = pc /\ sent' = sent /\ hpc[c] = "print" /\ hpc' = [hpc EXCEPT ![c] = "receive"]
        /\ printed' = Append(printed, c)
    BY <1>8 DEF PrintLine
  <2>2. \A d \in Conns : sent'[d] = Cardinality(Lines(d)') + (IF hpc'[d] = "print" THEN 1 ELSE 0)
    <3>1. \A d \in Conns : Cardinality(Lines(d)) \in Nat
      BY <1>0, FiniteLines
    <3>2. \A d \in Conns : Cardinality(Lines(d)') = Cardinality(Lines(d)) + (IF d = c THEN 1 ELSE 0)
      BY <1>0, <2>1, AppendLine
    <3>3. QED
      BY <1>0, <2>1, <3>1, <3>2 DEF Output
  <2>3. \A i \in 1..Len(printed') : printed'[i] # Shutdown
    <3>1. \A i \in 1..Len(printed) : printed[i] # Shutdown
      BY <1>0, <1>8 DEF Output
    <3>2. c # Shutdown
      BY TestServerAssumption
    <3>3. QED
      BY <1>0, <2>1, <3>1, <3>2, AppendLine DEF TypeOK
  <2>4. pc # "open"
    BY <2>1 DEF IInv, OneThread
  <2>5. QED
    BY <2>1, <2>2, <2>3, <2>4 DEF Output
<1>9. CASE Close
  <2>1. CASE pc = "close" /\ pc' = "end" /\ UNCHANGED printed
    BY <1>1, <1>9, <2>1 DEF Close
  <2>2. CASE pc = "end" /\ pc' = "exit" /\ printed' = Append(printed, Shutdown)
    <3>1. UNCHANGED <<hpc, sent>>
      BY <1>9 DEF Close
    <3>2. \A d \in Conns : Cardinality(Lines(d)') = Cardinality(Lines(d)) /\ Cardinality(Lines(d)) \in Nat
      BY <1>0, <2>2, AppendLine, FiniteLines, TestServerAssumption
    <3>3. \A i \in 1..Len(printed) : printed[i] # Shutdown
      BY <1>0, <2>2 DEF Output
    <3>4. \A i \in 1..Len(printed') : printed'[i] = Shutdown => i = Len(printed')
      BY <1>0, <2>2, <3>3, AppendLine DEF TypeOK
    <3>5. QED
      BY <1>0, <2>2, <3>1, <3>2, <3>4 DEF Output
  <2>3. QED
    BY <1>9, <2>1, <2>2 DEF Close
<1>10. QED
  BY <1>2, <1>3, <1>5, <1>6, <1>7, <1>8, <1>9 DEF Next, Main, Handler

-----------------------------------------------------------------------------
(* The inductive invariant, whatever fails.                                *)
THEOREM Safety == SafeSpec => []IInv
<1>1. IInv /\ [Next]_vars => IInv'
  BY EndStep, MutexStep, CountersStep, ThreadStep, OutputStep DEF IInv
<1>2. QED
  BY InitIInv, <1>1, PTL DEF SafeSpec

(* main passes its wait only when each of MAX_CONN threads has counted     *)
(* itself and closed its socket, and without a failure none is cut off     *)
(* (test_server.c, main's end and client_handler's).                       *)
THEOREM ThreadsFinish == SafeSpec => []NoThreadCutOff
<1>1. IInv => NoThreadCutOff
  BY DEF IInv
<1>2. QED
  BY Safety, <1>1, PTL

(* The shutdown line follows every measurement received, whatever fails.   *)
THEOREM ShutdownLast == SafeSpec => []ShutdownIsLast
<1>1. IInv => ShutdownIsLast
  <2> SUFFICES ASSUME IInv, NEW i \in 1..Len(printed), printed[i] = Shutdown
               PROVE  /\ i = Len(printed)
                      /\ \A c \in Conns : sent[c] = Cardinality({j \in 1..i : printed[j] = c})
    BY DEF ShutdownIsLast
  <2>1. i = Len(printed) /\ pc = "exit"
    BY DEF IInv, Output
  <2>2. TypeOK /\ Over
    <3>1. TypeOK /\ printed \in Seq(Conns \cup {Shutdown})
      BY DEF IInv, NoThreadCutOff, TypeOK
    <3>2. printed # <<>>
      BY <3>1
    <3>3. QED
      BY <2>1, <3>1, <3>2 DEF Over
  <2>3. \A c \in Conns : hpc[c] # "print"
    BY <2>2 DEF IInv, NoThreadCutOff, Served
  <2>4. ASSUME NEW c \in Conns PROVE sent[c] = Cardinality(Lines(c))
    BY <2>2, <2>3, FiniteLines DEF IInv, Output
  <2>5. QED
    BY <2>1, <2>4 DEF Lines
<1>2. QED
  BY Safety, <1>1, PTL

-----------------------------------------------------------------------------
(* The same operator, reached through the instance.                        *)
LEMMA SameCardinality == \A S : CS!Cardinality(S) = Cardinality(S)
BY DEF CS!Cardinality, Cardinality

(* The test server is the same service as the connection manager: starting *)
(* a thread admits, closing its socket leaves, and the shutdown line ends  *)
(* the output when MaxConn clients have gone, whatever fails.              *)
THEOREM Refinement == SafeSpec => CS!SafeSpec
<1> DEFINE stage == [c \in Conns |-> Stage(c)]
<1>1. Init => CS!Init
  BY DEF Init, CS!Init, Stage
<1>2. IInv /\ [Next]_vars => [CS!Next]_(CS!serviceVars)
  <2> SUFFICES ASSUME IInv, [Next]_vars PROVE CS!Next \/ UNCHANGED <<stage, printed>>
    BY DEF CS!serviceVars
  <2> USE DEF Goto, HGoto, ConnGoto, counters
  <2>0. /\ hpc \in [Conns -> {"none", "receive", "print", "close", "lock", "load", "store",
                              "signal", "unlock", "ended"}]
        /\ printed \in Seq(Conns \cup {Shutdown}) /\ MaxConn \in Nat
    BY TestServerAssumption DEF IInv, NoThreadCutOff, TypeOK
  <2>1. ASSUME NEW c \in Conns, NEW s \in {"outside", "served", "gone"}, NEW to,
               hpc' = [hpc EXCEPT ![c] = to],
               s = IF to = "none" THEN "outside"
                   ELSE IF to \in {"receive", "print", "close"} THEN "served" ELSE "gone"
        PROVE  stage' = [stage EXCEPT ![c] = s]
    BY <2>0, <2>1 DEF Stage
  <2>2. ASSUME UNCHANGED <<hpc, printed>> PROVE UNCHANGED <<stage, printed>>
    BY <2>2 DEF Stage
  <2>3. ASSUME NEW c \in Conns, Create(c) PROVE CS!Admit(c) \/ UNCHANGED <<stage, printed>>
    <3>1. CASE hpc' = hpc
      BY <2>2, <2>3, <3>1 DEF Create
    <3>2. CASE hpc[c] = "none" /\ hpc' = [hpc EXCEPT ![c] = "receive"]
      <4>1. stage' = [stage EXCEPT ![c] = "served"] /\ stage[c] = "outside"
        BY <2>1, <3>2 DEF Stage
      <4>2. Cardinality(Served) < MaxConn
        BY <2>3, <2>0, FiniteParts DEF Create, IInv, NoThreadCutOff, TypeOK, CountersSafe
      <4>3. Served = {d \in Conns : stage[d] # "outside"}
        BY DEF Served, Stage
      <4>4. printed' = printed
        BY <2>3 DEF Create
      <4>5. Cardinality({d \in Conns : stage[d] # "outside"}) < MaxConn
        BY <4>2, <4>3
      <4>6. QED
        BY <4>1, <4>4, <4>5, SameCardinality DEF CS!Admit, CS!Taken
    <3>3. QED
      BY <2>3, <3>1, <3>2 DEF Create
  <2>4. ASSUME NEW c \in Conns, PrintLine(c) PROVE CS!Measure(c)
    <3>1. stage' = [stage EXCEPT ![c] = "served"] /\ stage[c] = "served"
      BY <2>1, <2>4 DEF PrintLine, Stage
    <3>2. printed' = Append(printed, c)
      BY <2>4 DEF PrintLine
    <3>3. QED
      BY <3>1, <3>2 DEF CS!Measure
  <2>5. ASSUME NEW c \in Conns, CloseClient(c) PROVE CS!Leave(c)
    <3>1. stage' = [stage EXCEPT ![c] = "gone"] /\ stage[c] = "served"
      BY <2>1, <2>5 DEF CloseClient, Stage
    <3>2. printed' = printed
      BY <2>5 DEF CloseClient
    <3>3. QED
      BY <3>1, <3>2 DEF CS!Leave
  <2>6. CASE Close
    <3>1. CASE printed' = printed
      BY <2>2, <2>6, <3>1 DEF Close
    <3>2. CASE pc = "end" /\ printed' = Append(printed, Shutdown)
      <4>1. hpc' = hpc
        BY <2>6 DEF Close
      <4>2. /\ Cardinality(Served) = MaxConn
            /\ \A c \in Served : hpc[c] \in {"signal", "unlock", "ended"}
            /\ \A i \in 1..Len(printed) : printed[i] # Shutdown
        BY <3>2 DEF IInv, NoThreadCutOff, Over, Output
      <4>3. Served = {d \in Conns : stage[d] = "gone"}
        BY <4>2 DEF Served, Stage
      <4>4. ~CS!Ended
        <5>1. printed # <<>> => Len(printed) \in 1..Len(printed)
          BY <2>0
        <5>2. QED
          BY <4>2, <5>1 DEF CS!Ended
      <4>5. stage' = stage
        BY <4>1 DEF Stage
      <4>6. Cardinality({d \in Conns : stage[d] = "gone"}) = MaxConn
        BY <4>2, <4>3
      <4>7. QED
        BY <3>2, <4>4, <4>5, <4>6, SameCardinality DEF CS!Next, CS!End, CS!Gone
    <3>3. QED
      BY <2>6, <3>1, <3>2 DEF Close
  <2>7. ASSUME NEW c \in Conns, HandlerLock(c) \/ Count(c) \/ Signal(c) \/ HandlerUnlock(c)
        PROVE  UNCHANGED <<stage, printed>>
    <3>1. /\ printed' = printed /\ hpc[c] \in {"lock", "load", "store", "signal", "unlock"}
          /\ \E to \in {"load", "store", "signal", "unlock", "ended"} :
               hpc' = [hpc EXCEPT ![c] = to]
      BY <2>7 DEF HandlerLock, Count, Signal, HandlerUnlock
    <3>2. QED
      BY <2>0, <3>1 DEF Stage
  <2>8. ASSUME NEW c \in Conns, Receive(c) PROVE UNCHANGED <<stage, printed>>
    <3>1. /\ printed' = printed /\ hpc[c] = "receive"
          /\ \E to \in {"print", "close"} : hpc' = [hpc EXCEPT ![c] = to]
      BY <2>8 DEF Receive
    <3>2. QED
      BY <2>0, <3>1 DEF Stage
  <2>9. CASE Open \/ Test \/ Wait \/ MainLock \/ Accept \/ SpuriousWakeup \/ UNCHANGED vars
    BY <2>2, <2>9 DEF Open, Test, Wait, MainLock, Accept, SpuriousWakeup, vars
  <2>10. ASSUME NEW c \in Conns, Check(c) \/ Connect(c) PROVE UNCHANGED <<stage, printed>>
    BY <2>2, <2>10 DEF Check, Connect
  <2>11. QED
    BY <2>3, <2>4, <2>5, <2>6, <2>7, <2>8, <2>9, <2>10 DEF Next, Main, Handler, CS!Next
<1>3. QED
  BY <1>1, <1>2, Safety, PTL DEF SafeSpec, CS!SafeSpec
=============================================================================
