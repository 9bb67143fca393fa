--------------------------- MODULE ConnMgrProofs ---------------------------
(***************************************************************************)
(* Proofs about the connection manager, for any number of connections,     *)
(* any MaxConn and any number of measurements, whether or not              *)
(* tcp_wait_for_connection and pthread_create fail.                        *)
(***************************************************************************)
EXTENDS ConnMgr, FiniteSetTheorems, TLAPS

(* The initial states satisfy the inductive invariant.                     *)
LEMMA InitIInv == Init => IInv
<1> SUFFICES ASSUME Init PROVE IInv
  OBVIOUS
<1> USE DEF Init
<1>1. TypeOK
  <2>1. failed \in BOOLEAN
    OBVIOUS
  <2>2. QED
    BY <2>1 DEF TypeOK
<1>2. MutexOwned
  BY ConnMgrAssumption DEF MutexOwned
<1>3. AdmissionBound
  BY ConnMgrAssumption DEF AdmissionBound, Full, Closing
<1>4. EachSocketOwned
  BY DEF EachSocketOwned, Closing
<1>5. CountersExact /\ CountersSafe
  <2>1. Started = {} /\ Counted = {}
    BY DEF Started, Counted
  <2>2. QED
    BY <1>1, <2>1, FS_EmptySet DEF CountersExact, CountersSafe
<1>6. EosIsLast
  BY DEF EosIsLast, Closing
<1>7. QED
  BY <1>1, <1>2, <1>3, <1>4, <1>5, <1>6 DEF IInv

(* Every step keeps the types.                                             *)
LEMMA TypeStep == TypeOK /\ [Next]_vars => TypeOK'
<1> SUFFICES ASSUME TypeOK, [Next]_vars PROVE TypeOK'
  OBVIOUS
<1> USE DEF TypeOK, LGoto, EGoto, HGoto, ConnGoto, Acquire, Release,
        countVars, socketVars, handlerVars, flagVars
<1>1. CASE Open \/ TestLoop \/ Spawn \/ SpawnFails \/ Wait \/ CloseServer
  BY <1>1 DEF Open, TestLoop, Spawn, SpawnFails, Wait, CloseServer
<1>2. CASE DestroyMutex \/ StopExcess \/ JoinNothing \/ InsertEos
  <2>1. CASE DestroyMutex
    BY <2>1 DEF DestroyMutex
  <2>2. CASE StopExcess
    BY <2>2 DEF StopExcess
  <2>3. CASE InsertEos
    <3>1. failed' \in BOOLEAN
      BY <2>3 DEF InsertEos
    <3>2. buffer' = Append(buffer, Eos) \/ buffer' = buffer
      BY <2>3 DEF InsertEos
    <3>3. buffer' \in Seq(Conns \cup {Eos})
      <4>1. CASE buffer' = Append(buffer, Eos)
        BY <4>1
      <4>2. CASE buffer' = buffer
        BY <4>2
      <4>3. QED
        BY <3>2, <4>1, <4>2
    <3>4. lpc' = "done" /\ UNCHANGED <<epc, mutex, countVars, socketVars, stop, handlerVars>>
      BY <2>3 DEF InsertEos
    <3>5. QED
      BY <3>1, <3>3, <3>4
  <2>4. CASE JoinNothing
    <3>1. failed' \in BOOLEAN
      BY <2>4 DEF JoinNothing
    <3>2. QED
      BY <2>4, <3>1 DEF JoinNothing
  <2>5. QED
    BY <1>2, <2>1, <2>2, <2>3, <2>4
<1>3. ASSUME NEW c \in Conns, Accept(c) \/ Check(c) \/ Create(c) \/ CreateFails(c) PROVE TypeOK'
  <2>1. CASE Accept(c) \/ CreateFails(c)
    <3>1. failed' \in BOOLEAN
      BY <2>1 DEF Accept, CreateFails
    <3>2. QED
      BY <2>1, <3>1 DEF Accept, CreateFails
  <2>2. CASE Check(c)
    <3>1. conn_counter' \in Nat /\ conn' \in [Conns -> {"none", "pending", "accepted",
            "serving", "excess", "closed", "refused", "leaked", "lost"}]
      BY <2>2 DEF Check
    <3>2. QED
      BY <2>2, <3>1 DEF Check
  <2>3. CASE Create(c)
    BY <2>3 DEF Create
  <2>4. QED
    BY <1>3, <2>1, <2>2, <2>3
<1>4. CASE ListenerLock \/ AcceptFails \/ SpuriousWakeup
  <2>1. CASE AcceptFails
    <3>1. failed' \in BOOLEAN
      BY <2>1 DEF AcceptFails
    <3>2. QED
      BY <2>1, <3>1 DEF AcceptFails, WaitForConnectionFails
  <2>2. CASE ListenerLock
    BY <2>2 DEF ListenerLock
  <2>3. CASE SpuriousWakeup
    <3>1. /\ lpc' = "woken"
          /\ UNCHANGED <<epc, mutex, countVars, socketVars, flagVars, handlerVars, buffer>>
      BY <2>3 DEF SpuriousWakeup
    <3>2. QED
      BY <3>1
  <2>4. QED
    BY <1>4, <2>1, <2>2, <2>3
<1>5. ASSUME NEW c \in Conns, Receive(c) \/ Insert(c) \/ Close(c) PROVE TypeOK'
  <2>1. CASE Receive(c)
    <3>1. UNCHANGED <<lpc, epc, mutex, countVars, socketVars, flagVars, seen, buffer>>
      BY <2>1 DEF Receive
    <3>2. CASE sent' = [sent EXCEPT ![c] = @ + 1] /\ hpc' = [hpc EXCEPT ![c] = "insert"]
      BY <3>1, <3>2
    <3>3. CASE sent' = sent /\ hpc' = [hpc EXCEPT ![c] = "close"]
      BY <3>1, <3>3
    <3>4. QED
      BY <2>1, <3>2, <3>3 DEF Receive
  <2>2. CASE Insert(c)
    <3>1. buffer' = Append(buffer, c) \/ buffer' = buffer
      BY <2>2 DEF Insert
    <3>2. buffer' \in Seq(Conns \cup {Eos})
      <4>1. CASE buffer' = Append(buffer, c)
        BY <4>1
      <4>2. CASE buffer' = buffer
        BY <4>2
      <4>3. QED
        BY <3>1, <4>1, <4>2
    <3>3. /\ hpc' = [hpc EXCEPT ![c] = "receive"]
          /\ UNCHANGED <<lpc, epc, mutex, countVars, socketVars, flagVars, seen, sent>>
      BY <2>2 DEF Insert
    <3>4. QED
      BY <3>2, <3>3
  <2>3. CASE Close(c)
    BY <2>3 DEF Close
  <2>4. QED
    BY <1>5, <2>1, <2>2, <2>3
<1>6. ASSUME NEW c \in Conns, HandlerLock(c) \/ Count(c) \/ Signal(c) \/ HandlerUnlock(c)
      PROVE  TypeOK'
  <2>1. CASE HandlerLock(c) \/ HandlerUnlock(c)
    <3>1. UNCHANGED <<lpc, epc, countVars, socketVars, flagVars, seen, sent, buffer>>
      BY <2>1 DEF HandlerLock, HandlerUnlock
    <3>2. mutex' \in {c, "free", mutex} /\ \E to \in {"read", "ended"} : hpc' = [hpc EXCEPT ![c] = to]
      BY <2>1 DEF HandlerLock, HandlerUnlock
    <3>3. QED
      BY <3>1, <3>2
  <2>2. CASE Count(c)
    <3>1. UNCHANGED <<lpc, epc, mutex, conn_counter, socketVars, flagVars, sent, buffer>>
      BY <2>2 DEF Count
    <3>2. CASE /\ hpc' = [hpc EXCEPT ![c] = "write"]
               /\ seen' = [seen EXCEPT ![c] = conn_terminations]
               /\ UNCHANGED conn_terminations
      BY <3>1, <3>2
    <3>3. CASE /\ hpc' = [hpc EXCEPT ![c] = "signal"]
               /\ conn_terminations' = seen[c] + 1 /\ seen' = [seen EXCEPT ![c] = 0]
      BY <3>1, <3>3
    <3>4. QED
      BY <2>2, <3>2, <3>3 DEF Count
  <2>3. CASE Signal(c)
    BY <2>3 DEF Signal
  <2>4. QED
    BY <1>6, <2>1, <2>2, <2>3
<1>7. CASE TestStop \/ EnterAccept \/ ExcessAccept \/ ExcessAcceptFails
  BY <1>7 DEF TestStop, EnterAccept, ExcessAccept, ExcessAcceptFails, WaitForConnectionFails
<1>8. ASSUME NEW c \in Conns, Reject(c) \/ Connect(c) PROVE TypeOK'
  <2>1. CASE Reject(c)
    BY <2>1 DEF Reject
  <2>2. CASE Connect(c)
    BY <2>2 DEF Connect
  <2>3. QED
    BY <1>8, <2>1, <2>2
<1>9. CASE ExcessLock \/ ExcessUnlock
  BY <1>9 DEF ExcessLock, ExcessUnlock
<1>10. CASE UNCHANGED vars
  BY <1>10 DEF vars
<1>11. QED
  BY <1>1, <1>2, <1>3, <1>4, <1>5, <1>6, <1>7, <1>8, <1>9, <1>10
     DEF Next, Listener, Handler, Excess

(* A failure is remembered, so a state without one was reached by a step   *)
(* that did not fail.                                                      *)
LEMMA NoFailure ==
  ASSUME [Next]_vars, ~failed'
  PROVE  ~failed /\ ~AcceptFails /\ \A c \in Conns : ~CreateFails(c)
<1>1. ~AcceptFails /\ \A c \in Conns : ~CreateFails(c)
  BY DEF AcceptFails, CreateFails
<1>2. failed' = failed
  BY <1>1 DEF Next, vars, flagVars, Listener, Open, TestLoop, Spawn, SpawnFails, Wait, CloseServer,
     DestroyMutex, StopExcess, JoinNothing, InsertEos, Accept, Check, Create, ListenerLock, SpuriousWakeup,
     Handler, Receive, Insert, Close, HandlerLock, Count, Signal, HandlerUnlock, Connect,
     Excess, TestStop, EnterAccept, ExcessAccept, ExcessAcceptFails, ExcessLock, Reject,
     ExcessUnlock
<1>3. QED
  BY <1>1, <1>2

(* Every step keeps the owner of conn_mutex known.                         *)
LEMMA MutexStep == IInv /\ [Next]_vars => MutexOwned'
<1> SUFFICES ASSUME IInv, [Next]_vars, ~failed' PROVE MutexOwned'
  BY DEF MutexOwned
<1>0. ~failed /\ ~AcceptFails /\ \A c \in Conns : ~CreateFails(c)
  BY NoFailure
<1> USE ConnMgrAssumption, <1>0
    DEF IInv, TypeOK, MutexOwned, LGoto, EGoto, HGoto, Acquire, Release,
        countVars, socketVars, handlerVars
<1>1. CASE Open \/ TestLoop \/ Spawn \/ SpawnFails \/ Wait \/ CloseServer
  BY <1>1 DEF Open, TestLoop, Spawn, SpawnFails, Wait, CloseServer
<1>2. CASE DestroyMutex \/ StopExcess \/ JoinNothing \/ InsertEos
  BY <1>2 DEF DestroyMutex, StopExcess, JoinNothing, InsertEos
<1>3. ASSUME NEW c \in Conns, Accept(c) \/ Check(c) \/ Create(c) PROVE MutexOwned'
  BY <1>3 DEF Accept, Check, Create, EachSocketOwned, ConnGoto
<1>4. CASE ListenerLock \/ SpuriousWakeup
  BY <1>4 DEF ListenerLock, SpuriousWakeup
<1>5. ASSUME NEW c \in Conns, Receive(c) \/ Insert(c) \/ Close(c) PROVE MutexOwned'
  BY <1>5 DEF Receive, Insert, Close
<1>6. ASSUME NEW c \in Conns, HandlerLock(c) \/ Count(c) \/ Signal(c) \/ HandlerUnlock(c)
      PROVE  MutexOwned'
  <2>1. CASE HandlerLock(c)
    <3>1. mutex = "free" /\ mutex' = c /\ UNCHANGED <<lpc, epc>>
          /\ hpc[c] = "lock" /\ hpc' = [hpc EXCEPT ![c] = "read"]
      BY <2>1 DEF HandlerLock, EosIsLast, Closing, Started
    <3>2. QED
      BY <3>1
  <2>2. CASE Count(c) \/ Signal(c)
    BY <2>2 DEF Count, Signal
  <2>3. CASE HandlerUnlock(c)
    BY <2>3 DEF HandlerUnlock
  <2>4. QED
    BY <1>6, <2>1, <2>2, <2>3
<1>7. CASE TestStop \/ EnterAccept \/ ExcessAccept \/ ExcessAcceptFails
  BY <1>7 DEF TestStop, EnterAccept, ExcessAccept, ExcessAcceptFails
<1>8. ASSUME NEW c \in Conns, Reject(c) \/ Connect(c) PROVE MutexOwned'
  BY <1>8 DEF Reject, Connect
<1>9. CASE ExcessLock \/ ExcessUnlock
  BY <1>9 DEF ExcessLock, ExcessUnlock
<1>10. CASE UNCHANGED vars
  BY <1>10 DEF vars
<1>11. QED
  BY <1>1, <1>2, <1>3, <1>4, <1>5, <1>6, <1>7, <1>8, <1>9, <1>10
     DEF Next, Listener, Handler, Excess

(* The sets that the counters are compared with are finite.                *)
LEMMA FiniteParts ==
  /\ IsFiniteSet(Started) /\ Cardinality(Started) \in Nat
  /\ IsFiniteSet(Counted) /\ Cardinality(Counted) \in Nat
BY ConnMgrAssumption, FS_Subset, FS_CardinalityType DEF Started, Counted

(* A handler that has not reached its increment is not counted, and one    *)
(* that exists is started.                                                 *)
LEMMA CountersFrame ==
  ASSUME CountersExact, CountersSafe, TypeOK', ~failed' => ~failed,
         UNCHANGED <<conn_counter, conn_terminations, seen>>,
         lpc = "create" <=> lpc' = "create",
         \A c \in Conns : /\ hpc[c] = "none" <=> hpc'[c] = "none"
                          /\ hpc[c] \in {"signal", "unlock", "ended"} <=>
                               hpc'[c] \in {"signal", "unlock", "ended"}
                          /\ hpc'[c] = "write" => hpc[c] = "write"
  PROVE  CountersExact' /\ CountersSafe'
<1>1. Started' = Started /\ Counted' = Counted
  BY DEF Started, Counted
<1>2. QED
  BY <1>1 DEF CountersExact, CountersSafe

(* Every step keeps the counters within what the threads have done.        *)
LEMMA CountersStep == IInv /\ [Next]_vars => CountersExact' /\ CountersSafe'
<1> SUFFICES ASSUME IInv, [Next]_vars PROVE CountersExact' /\ CountersSafe'
  OBVIOUS
<1> USE DEF LGoto, EGoto, HGoto, countVars, handlerVars
<1>0. /\ CountersExact /\ CountersSafe /\ TypeOK' /\ (~failed' => ~failed)
      /\ hpc \in [Conns -> {"none", "receive", "insert", "close", "lock", "read",
                        "write", "signal", "unlock", "ended"}] /\ seen \in [Conns -> Nat]
      /\ conn_counter \in Nat /\ conn_terminations \in Nat
  <2>1. TypeOK'
    BY TypeStep DEF IInv
  <2>2. QED
    BY NoFailure, <2>1 DEF IInv, TypeOK
<1>1. CASE Open \/ TestLoop \/ Spawn \/ SpawnFails \/ Wait \/ CloseServer
  BY <1>0, <1>1, CountersFrame DEF Open, TestLoop, Spawn, SpawnFails, Wait, CloseServer
<1>2. CASE DestroyMutex \/ StopExcess \/ JoinNothing \/ InsertEos
  BY <1>0, <1>2, CountersFrame DEF DestroyMutex, StopExcess, JoinNothing, InsertEos
<1>3. CASE ListenerLock \/ SpuriousWakeup \/ AcceptFails
  BY <1>0, <1>3, CountersFrame DEF ListenerLock, SpuriousWakeup, AcceptFails
<1>4. ASSUME NEW c \in Conns, Accept(c) \/ Connect(c) \/ Reject(c)
      PROVE  CountersExact' /\ CountersSafe'
  BY <1>0, <1>4, CountersFrame DEF Accept, Connect, Reject
<1>5. ASSUME NEW c \in Conns, Check(c) PROVE CountersExact' /\ CountersSafe'
  <2>1. /\ lpc = "check" /\ lpc' = "create" /\ conn_counter' = conn_counter + 1
        /\ UNCHANGED <<conn_terminations, hpc, seen>>
    BY <1>5, ConnMgrAssumption DEF Check, IInv, AdmissionBound, TypeOK
  <2>2. Started' = Started /\ Counted' = Counted
    BY <2>1 DEF Started, Counted
  <2>3. QED
    BY <1>0, <2>1, <2>2, FiniteParts DEF CountersExact, CountersSafe
<1>6. ASSUME NEW c \in Conns, Create(c) PROVE CountersExact' /\ CountersSafe'
  <2>1. /\ lpc = "create" /\ lpc' = "lock" /\ hpc[c] = "none"
        /\ hpc' = [hpc EXCEPT ![c] = "receive"]
        /\ UNCHANGED <<conn_counter, conn_terminations, seen>>
    BY <1>6 DEF Create
  <2>2. Started' = Started \cup {c} /\ c \notin Started
    BY <1>0, <2>1 DEF Started
  <2>3. Counted' = Counted
    BY <1>0, <2>1 DEF Counted
  <2>4. Cardinality(Started') = Cardinality(Started) + 1
    BY <2>2, FiniteParts, FS_AddElement
  <2>5. \A d \in Conns : hpc'[d] = "write" => hpc[d] = "write"
    BY <1>0, <2>1
  <2>6. QED
    BY <1>0, <2>1, <2>3, <2>4, <2>5, FiniteParts DEF CountersExact, CountersSafe
<1>7. ASSUME NEW c \in Conns,
             Receive(c) \/ Insert(c) \/ Close(c) \/ HandlerLock(c) \/ Signal(c) \/ HandlerUnlock(c)
      PROVE  CountersExact' /\ CountersSafe'
  <2>1. UNCHANGED <<conn_counter, conn_terminations, seen>> /\ (lpc = "create" <=> lpc' = "create")
    BY <1>7 DEF Receive, Insert, Close, HandlerLock, Signal, HandlerUnlock
  <2>2. \/ \E to \in {"insert", "close", "receive", "lock", "read"} :
            hpc[c] \in {"receive", "insert", "close", "lock"} /\ hpc' = [hpc EXCEPT ![c] = to]
        \/ \E to \in {"unlock", "ended"} :
            hpc[c] \in {"signal", "unlock"} /\ hpc' = [hpc EXCEPT ![c] = to]
    BY <1>7 DEF Receive, Insert, Close, HandlerLock, Signal, HandlerUnlock
  <2>3. \A d \in Conns : /\ hpc[d] = "none" <=> hpc'[d] = "none"
                         /\ hpc[d] \in {"signal", "unlock", "ended"} <=>
                              hpc'[d] \in {"signal", "unlock", "ended"}
                         /\ hpc'[d] = "write" => hpc[d] = "write"
    BY <1>0, <2>2
  <2>4. QED
    BY <1>0, <2>1, <2>3, CountersFrame
<1>8. ASSUME NEW c \in Conns, Count(c) PROVE CountersExact' /\ CountersSafe'
  <2>1. lpc' = lpc /\ conn_counter' = conn_counter
    BY <1>8 DEF Count
  <2>2. CASE /\ hpc[c] = "read" /\ hpc' = [hpc EXCEPT ![c] = "write"]
             /\ seen' = [seen EXCEPT ![c] = conn_terminations]
             /\ conn_terminations' = conn_terminations
    <3>1. Started' = Started /\ Counted' = Counted
      BY <1>0, <2>2 DEF Started, Counted
    <3>2. \A d \in Conns : hpc'[d] = "write" => seen'[d] <= Cardinality(Counted)
      BY <1>0, <2>2 DEF CountersSafe
    <3>3. ~failed' => \A d \in Conns : hpc'[d] = "write" => seen'[d] = conn_terminations'
      BY <1>0, <2>2 DEF CountersExact
    <3>4. QED
      BY <1>0, <2>1, <2>2, <3>1, <3>2, <3>3 DEF CountersExact, CountersSafe
  <2>3. CASE /\ hpc[c] = "write" /\ hpc' = [hpc EXCEPT ![c] = "signal"]
             /\ conn_terminations' = seen[c] + 1 /\ seen' = [seen EXCEPT ![c] = 0]
    <3>1. Started' = Started /\ Counted' = Counted \cup {c} /\ c \notin Counted
      BY <1>0, <2>3 DEF Started, Counted
    <3>2. Cardinality(Counted') = Cardinality(Counted) + 1
      BY <3>1, FiniteParts, FS_AddElement
    <3>3. conn_terminations' <= Cardinality(Counted')
      BY <1>0, <2>3, <3>2, FiniteParts DEF CountersSafe
    <3>4. \A d \in Conns : hpc'[d] = "write" => seen'[d] <= Cardinality(Counted')
      BY <1>0, <2>3, <3>2, FiniteParts DEF CountersSafe
    <3>5. ASSUME ~failed'
          PROVE  conn_terminations' = Cardinality(Counted') /\ \A d \in Conns : hpc'[d] # "write"
      <4>1. mutex = c /\ \A d \in Conns : hpc[d] = "write" => mutex = d
        BY <1>0, <2>3, <3>5 DEF IInv, MutexOwned
      <4>2. QED
        BY <1>0, <2>3, <3>2, <3>5, <4>1 DEF CountersExact
    <3>6. QED
      BY <1>0, <2>1, <2>3, <3>1, <3>3, <3>4, <3>5 DEF CountersExact, CountersSafe
  <2>4. QED
    BY <1>8, <2>2, <2>3 DEF Count
<1>9. CASE TestStop \/ EnterAccept \/ ExcessAccept \/ ExcessAcceptFails \/ ExcessLock \/ ExcessUnlock
  BY <1>0, <1>9, CountersFrame
     DEF TestStop, EnterAccept, ExcessAccept, ExcessAcceptFails, ExcessLock, ExcessUnlock
<1>10. ASSUME NEW c \in Conns, CreateFails(c) PROVE CountersExact' /\ CountersSafe'
  <2>1. /\ lpc = "create" /\ lpc' = "test" /\ failed'
        /\ UNCHANGED <<conn_counter, conn_terminations, hpc, seen>>
    BY <1>10 DEF CreateFails
  <2>2. Started' = Started /\ Counted' = Counted
    BY <2>1 DEF Started, Counted
  <2>3. QED
    BY <1>0, <2>1, <2>2, FiniteParts DEF CountersExact, CountersSafe
<1>11. CASE UNCHANGED vars
  BY <1>0, <1>11, CountersFrame DEF vars
<1>12. QED
  BY <1>1, <1>2, <1>3, <1>4, <1>5, <1>6, <1>7, <1>8, <1>9, <1>10, <1>11
     DEF Next, Listener, Handler, Excess

(* No step admits a client beyond MAX_CONN.                                *)
LEMMA AdmissionStep == IInv /\ [Next]_vars => AdmissionBound'
<1> SUFFICES ASSUME IInv, [Next]_vars PROVE AdmissionBound'
  OBVIOUS
<1> USE DEF LGoto, EGoto, AdmissionBound, Full, Closing, countVars
<1>0. AdmissionBound /\ MaxConn \in Nat \ {0} /\ conn_counter \in Nat
  BY ConnMgrAssumption DEF IInv, TypeOK
<1>1. CASE Open \/ TestLoop \/ Spawn \/ SpawnFails \/ Wait \/ CloseServer
  BY <1>0, <1>1 DEF Open, TestLoop, Spawn, SpawnFails, Wait, CloseServer
<1>2. CASE DestroyMutex \/ StopExcess \/ JoinNothing \/ InsertEos
  BY <1>0, <1>2 DEF DestroyMutex, StopExcess, JoinNothing, InsertEos
<1>3. CASE ListenerLock \/ SpuriousWakeup \/ AcceptFails
  BY <1>0, <1>3 DEF ListenerLock, SpuriousWakeup, AcceptFails
<1>4. ASSUME NEW c \in Conns, Accept(c) \/ Check(c) \/ Create(c) \/ CreateFails(c)
      PROVE  AdmissionBound'
  BY <1>0, <1>4 DEF Accept, Check, Create, CreateFails
<1>5. ASSUME NEW c \in Conns, Handler(c) \/ HandlerLock(c) \/ Connect(c) PROVE AdmissionBound'
  <2>1. UNCHANGED <<epc, conn_counter>>
    BY <1>5 DEF Handler, Receive, Insert, Close, Count, Signal, HandlerUnlock, HandlerLock, Connect
  <2>2. lpc' = lpc \/ (lpc = "waiting" /\ lpc' = "woken")
    BY <1>5 DEF Handler, Receive, Insert, Close, Count, Signal, HandlerUnlock, HandlerLock, Connect
  <2>3. QED
    BY <1>0, <2>1, <2>2
<1>6. CASE Excess \/ ExcessLock \/ ExcessAcceptFails
  <2>1. UNCHANGED <<lpc, conn_counter>> /\ epc \notin {"none", "absent"} /\ epc' # "none"
    BY <1>6 DEF Excess, TestStop, EnterAccept, ExcessAccept, Reject, ExcessUnlock, ExcessLock,
                ExcessAcceptFails
  <2>2. QED
    BY <1>0, <2>1
<1>7. CASE UNCHANGED vars
  BY <1>0, <1>7 DEF vars
<1>8. QED
  BY <1>1, <1>2, <1>3, <1>4, <1>5, <1>6, <1>7
     DEF Next, Listener

(* The wait of connmgr_listen ends only when every handler has counted     *)
(* itself, and, without a failure, has left its section.                   *)
LEMMA WaitEndsLast ==
  ASSUME IInv, lpc = "wait", conn_terminations >= MaxConn
  PROVE  /\ Cardinality(Started) = MaxConn
         /\ \A c \in Started : hpc[c] \in (IF failed THEN {"signal", "unlock", "ended"}
                                           ELSE {"ended"})
<1>1. Counted \in SUBSET Started
  BY DEF Counted, Started
<1>2. Cardinality(Counted) <= Cardinality(Started)
  BY <1>1, FiniteParts, FS_Subset
<1>3. conn_terminations <= Cardinality(Counted) /\ Cardinality(Started) <= MaxConn
  BY FiniteParts, ConnMgrAssumption DEF IInv, TypeOK, CountersSafe, AdmissionBound
<1>4. Cardinality(Counted) = Cardinality(Started) /\ Cardinality(Started) = MaxConn
  BY <1>2, <1>3, FiniteParts, ConnMgrAssumption DEF IInv, TypeOK
<1>5. Counted = Started
  BY <1>1, <1>4, FiniteParts, FS_Subset
<1>6. ~failed => \A c \in Conns : hpc[c] \notin {"signal", "unlock"}
  BY ConnMgrAssumption DEF IInv, MutexOwned
<1>7. QED
  BY <1>4, <1>5, <1>6 DEF Counted

(* No step puts the end of the stream before a measurement.                *)
LEMMA EosStep == IInv /\ [Next]_vars => EosIsLast'
<1> SUFFICES ASSUME IInv, [Next]_vars PROVE EosIsLast'
  OBVIOUS
<1> USE DEF LGoto, HGoto, handlerVars
<1> DEFINE H == {"none", "receive", "insert", "close", "lock", "read",
                 "write", "signal", "unlock", "ended"}
           AtEnd == {"signal", "unlock", "ended"}
<1>0. /\ EosIsLast /\ hpc \in [Conns -> H] /\ (~failed' => ~failed)
      /\ buffer \in Seq(Conns \cup {Eos}) /\ Eos \notin Conns
  BY ConnMgrAssumption, NoFailure DEF IInv, TypeOK
<1> HIDE DEF H
<1>1. ASSUME UNCHANGED <<hpc, buffer>>, Closing' => Closing, lpc = "done" <=> lpc' = "done"
      PROVE  EosIsLast'
  BY <1>0, <1>1 DEF EosIsLast, Started
<1>2. CASE Open \/ TestLoop \/ Spawn \/ SpawnFails \/ ListenerLock \/ SpuriousWakeup \/ AcceptFails
  BY <1>1, <1>2 DEF Open, TestLoop, Spawn, SpawnFails, ListenerLock, SpuriousWakeup, AcceptFails, Closing
<1>3. CASE CloseServer \/ DestroyMutex \/ StopExcess \/ JoinNothing
  BY <1>1, <1>3 DEF CloseServer, DestroyMutex, StopExcess, JoinNothing, Closing
<1>4. ASSUME NEW c \in Conns, Accept(c) \/ Check(c) \/ CreateFails(c) \/ Connect(c) \/ Reject(c)
      PROVE  EosIsLast'
  BY <1>1, <1>4 DEF Accept, Check, CreateFails, Connect, Reject, Closing
<1>5. CASE TestStop \/ EnterAccept \/ ExcessAccept \/ ExcessAcceptFails \/ ExcessLock \/ ExcessUnlock
  BY <1>1, <1>5 DEF TestStop, EnterAccept, ExcessAccept, ExcessAcceptFails, ExcessLock,
                    ExcessUnlock, Closing
<1>6. CASE Wait
  <2>1. UNCHANGED <<hpc, buffer, failed>> /\ lpc = "wait" /\ lpc' \in {"waiting", "close"}
    BY <1>6 DEF Wait, flagVars
  <2>2. lpc' = "close" => conn_terminations >= MaxConn
    BY <1>6 DEF Wait
  <2>3. Closing' => /\ Cardinality(Started) = MaxConn
                    /\ \A c \in Started : hpc[c] \in (IF failed THEN AtEnd ELSE {"ended"})
    BY <2>1, <2>2, WaitEndsLast DEF Closing
  <2>4. \A i \in 1..Len(buffer) : buffer[i] # Eos
    BY <1>0, <2>1 DEF EosIsLast
  <2>5. QED
    BY <2>1, <2>3, <2>4 DEF EosIsLast, Started
<1>7. CASE InsertEos
  <2>1. /\ lpc = "eos" /\ lpc' = "done" /\ UNCHANGED hpc
        /\ \/ buffer' = Append(buffer, Eos) /\ failed' = failed
           \/ buffer' = buffer /\ failed'
    BY <1>7 DEF InsertEos
  <2>2. \A i \in 1..Len(buffer) : buffer[i] # Eos
    BY <1>0, <2>1 DEF EosIsLast
  <2>3. /\ Cardinality(Started) = MaxConn
        /\ \A c \in Started : hpc[c] \in (IF failed THEN AtEnd ELSE {"ended"})
    BY <1>0, <2>1 DEF EosIsLast, Closing
  <2>4. CASE buffer' = Append(buffer, Eos) /\ failed' = failed
    <3>1. /\ Len(buffer') = Len(buffer) + 1 /\ buffer'[Len(buffer')] = Eos /\ buffer' # <<>>
          /\ \A i \in 1..Len(buffer) : buffer'[i] = buffer[i]
      BY <1>0, <2>4
    <3>2. \A i \in 1..Len(buffer') : buffer'[i] = Eos => i = Len(buffer')
      BY <1>0, <2>2, <3>1
    <3>3. QED
      BY <2>1, <2>3, <2>4, <3>1, <3>2 DEF EosIsLast, Started
  <2>5. CASE buffer' = buffer /\ failed'
    BY <2>1, <2>2, <2>3, <2>5 DEF EosIsLast, Started
  <2>6. QED
    BY <2>1, <2>4, <2>5
<1>8. ASSUME NEW c \in Conns, Create(c) PROVE EosIsLast'
  <2>1. lpc = "create" /\ lpc' = "lock" /\ buffer' = buffer
    BY <1>8 DEF Create
  <2>2. QED
    BY <1>0, <2>1 DEF EosIsLast, Closing
<1>9. ASSUME NEW c \in Conns, Receive(c) \/ Insert(c) \/ Close(c) \/ HandlerLock(c) \/ Count(c)
      PROVE  EosIsLast'
  <2>1. hpc[c] \notin AtEnd \cup {"none"}
    BY <1>9 DEF Receive, Insert, Close, HandlerLock, Count
  <2>2. ~Closing /\ \A i \in 1..Len(buffer) : buffer[i] # Eos
    BY <1>0, <2>1 DEF EosIsLast, Closing, Started
  <2>3. ~Closing'
    BY <1>9, <2>2 DEF Receive, Insert, Close, HandlerLock, Count, Closing
  <2>4. buffer' = buffer \/ buffer' = Append(buffer, c)
    BY <1>9 DEF Receive, Insert, Close, HandlerLock, Count
  <2>5. \A i \in 1..Len(buffer') : buffer'[i] # Eos
    <3>1. CASE buffer' = Append(buffer, c)
      <4>1. \A i \in 1..Len(buffer') : buffer'[i] = c \/ (i \in 1..Len(buffer) /\ buffer'[i] = buffer[i])
        BY <1>0, <3>1
      <4>2. QED
        BY <1>0, <2>2, <4>1
    <3>2. QED
      BY <2>2, <2>4, <3>1
  <2>6. QED
    BY <2>3, <2>5 DEF EosIsLast, Closing
<1>10. ASSUME NEW c \in Conns, Signal(c) \/ HandlerUnlock(c) PROVE EosIsLast'
  <2>1. /\ buffer' = buffer /\ failed' = failed /\ hpc[c] \in {"signal", "unlock"}
        /\ \E to \in {"unlock", "ended"} : hpc' = [hpc EXCEPT ![c] = to]
        /\ lpc' = lpc \/ (lpc = "waiting" /\ lpc' = "woken")
    BY <1>10 DEF Signal, HandlerUnlock, flagVars
  <2>2. Started' = Started
    BY <1>0, <2>1 DEF Started, H
  <2>3. Closing => failed
    BY <1>0, <2>1 DEF EosIsLast, Started
  <2>4. Closing' => Closing /\ lpc' = lpc
    BY <2>1 DEF Closing
  <2>5. ASSUME Closing, NEW d \in Started PROVE hpc'[d] \in AtEnd
    BY <1>0, <2>1, <2>5 DEF EosIsLast, Started
  <2>6. QED
    BY <1>0, <2>1, <2>2, <2>3, <2>4, <2>5 DEF EosIsLast
<1>11. CASE UNCHANGED vars
  BY <1>1, <1>11 DEF vars, Closing
<1>12. QED
  BY <1>2, <1>3, <1>4, <1>5, <1>6, <1>7, <1>8, <1>9, <1>10, <1>11
     DEF Next, Listener, Handler, Excess

(* Every step keeps each connection with its one owner.                    *)
LEMMA SocketStep == IInv /\ [Next]_vars => EachSocketOwned'
<1> SUFFICES ASSUME IInv, [Next]_vars PROVE EachSocketOwned'
  OBVIOUS
<1> USE DEF LGoto, EGoto, HGoto, ConnGoto, EachSocketOwned, Closing, Full,
            socketVars, handlerVars, countVars
<1>0. /\ EachSocketOwned
      /\ conn \in [Conns -> {"none", "pending", "accepted", "serving", "excess",
                            "closed", "refused", "leaked", "lost"}]
      /\ hpc \in [Conns -> {"none", "receive", "insert", "close", "lock", "read",
                           "write", "signal", "unlock", "ended"}]
  BY DEF IInv, TypeOK
<1>1. CASE Open \/ TestLoop \/ Spawn \/ SpawnFails \/ Wait
  BY <1>0, <1>1 DEF Open, TestLoop, Spawn, SpawnFails, Wait, IInv, AdmissionBound
<1>2. CASE CloseServer
  BY <1>0, <1>2 DEF CloseServer
<1>3. CASE DestroyMutex \/ StopExcess \/ JoinNothing \/ InsertEos
  BY <1>0, <1>3 DEF DestroyMutex, StopExcess, JoinNothing, InsertEos
<1>4. CASE ListenerLock \/ SpuriousWakeup
  BY <1>0, <1>4 DEF ListenerLock, SpuriousWakeup
<1>5. CASE AcceptFails
  <2>1. lpc = "accept" /\ lpc' = "test" /\ UNCHANGED <<srv, epc, hpc>>
    BY <1>5 DEF AcceptFails
  <2>2. CASE conn' = conn
    BY <1>0, <2>1, <2>2
  <2>3. CASE AcceptMayFail /\ \E c \in Conns : conn[c] = "pending" /\ conn' = [conn EXCEPT ![c] = "lost"]
    BY <1>0, <2>1, <2>3
  <2>4. QED
    BY <1>5, <2>2, <2>3 DEF AcceptFails, WaitForConnectionFails
<1>6. CASE ExcessAcceptFails
  <2>1. epc = "accept" /\ epc' = "test" /\ UNCHANGED <<srv, lpc, hpc>>
    BY <1>6 DEF ExcessAcceptFails
  <2>2. CASE conn' = conn
    BY <1>0, <2>1, <2>2
  <2>3. CASE AcceptMayFail /\ \E c \in Conns : conn[c] = "pending" /\ conn' = [conn EXCEPT ![c] = "lost"]
    BY <1>0, <2>1, <2>3
  <2>4. QED
    BY <1>6, <2>2, <2>3 DEF ExcessAcceptFails, WaitForConnectionFails
<1>7. ASSUME NEW c \in Conns, Accept(c) PROVE EachSocketOwned'
  BY <1>0, <1>7 DEF Accept
<1>8. ASSUME NEW c \in Conns, Check(c) PROVE EachSocketOwned'
  <2>1. conn_counter < MaxConn
    BY <1>8 DEF Check, IInv, AdmissionBound
  <2>2. lpc = "check" /\ lpc' = "create" /\ UNCHANGED <<conn, hpc, epc, srv>>
    BY <1>8, <2>1, ConnMgrAssumption DEF Check, IInv, TypeOK
  <2>3. QED
    BY <1>0, <2>2
<1>9. ASSUME NEW c \in Conns, Create(c) \/ CreateFails(c) PROVE EachSocketOwned'
  BY <1>0, <1>9 DEF Create, CreateFails
<1>10. ASSUME NEW c \in Conns, Receive(c) \/ Insert(c) PROVE EachSocketOwned'
  BY <1>0, <1>10 DEF Receive, Insert
<1>11. ASSUME NEW c \in Conns, Close(c) PROVE EachSocketOwned'
  BY <1>0, <1>11 DEF Close
<1>12. ASSUME NEW c \in Conns, HandlerLock(c) \/ Count(c) \/ Signal(c) \/ HandlerUnlock(c)
       PROVE  EachSocketOwned'
  <2>1. UNCHANGED <<conn, srv, epc>> /\ (lpc' = lpc \/ (lpc = "waiting" /\ lpc' = "woken"))
    BY <1>12 DEF HandlerLock, Count, Signal, HandlerUnlock
  <2>2. /\ hpc[c] \in {"lock", "read", "write", "signal", "unlock"}
        /\ \E to \in {"read", "write", "signal", "unlock", "ended"} : hpc' = [hpc EXCEPT ![c] = to]
    BY <1>12 DEF HandlerLock, Count, Signal, HandlerUnlock
  <2>3. QED
    BY <1>0, <2>1, <2>2
<1>13. CASE TestStop \/ EnterAccept
  <2>1. UNCHANGED <<conn, srv, lpc, hpc>> /\ epc \in {"test", "enter"}
    BY <1>13 DEF TestStop, EnterAccept
  <2>2. QED
    BY <1>0, <2>1
<1>14. CASE ExcessAccept
  <2>1. UNCHANGED <<srv, lpc, hpc>> /\ epc = "accept"
    BY <1>14 DEF ExcessAccept
  <2>2. conn' = conn \/ \E c \in Conns : /\ conn[c] = "pending" /\ epc' = "lock"
                                      /\ conn' = [conn EXCEPT ![c] = "excess"]
    BY <1>14 DEF ExcessAccept
  <2>3. QED
    BY <1>0, <2>1, <2>2
<1>15. CASE ExcessLock \/ ExcessUnlock
  BY <1>0, <1>15 DEF ExcessLock, ExcessUnlock
<1>16. ASSUME NEW c \in Conns, Reject(c) PROVE EachSocketOwned'
  <2>1. conn_counter >= MaxConn
    <3>1. conn_counter = MaxConn
      BY <1>16 DEF Reject, IInv, AdmissionBound
    <3>2. QED
      BY <3>1, ConnMgrAssumption
  <2>2. /\ UNCHANGED <<srv, lpc, hpc>> /\ epc = "reject" /\ epc' = "unlock"
        /\ conn[c] = "excess" /\ conn' = [conn EXCEPT ![c] = "closed"]
    BY <1>16, <2>1 DEF Reject
  <2>3. QED
    BY <1>0, <2>2
<1>17. ASSUME NEW c \in Conns, Connect(c) PROVE EachSocketOwned'
  BY <1>0, <1>17 DEF Connect
<1>18. CASE UNCHANGED vars
  BY <1>0, <1>18 DEF vars
<1>19. QED
  BY <1>1, <1>2, <1>3, <1>4, <1>5, <1>6, <1>7, <1>8, <1>9, <1>10, <1>11, <1>12,
     <1>13, <1>14, <1>15, <1>16, <1>17, <1>18
     DEF Next, Listener, Handler, Excess

-----------------------------------------------------------------------------
(* The inductive invariant of the connection manager: admission is bounded, *)
(* the end of the stream comes last and every socket has one owner, and     *)
(* until a call of the listener fails conn_mutex excludes and the counters  *)
(* count (connmgr.c).                                                       *)
THEOREM Safety == SafeSpec => []IInv
<1>1. IInv /\ [Next]_vars => IInv'
  <2> SUFFICES ASSUME IInv, [Next]_vars PROVE IInv'
    OBVIOUS
  <2>1. TypeOK' /\ MutexOwned' /\ CountersExact' /\ CountersSafe'
    BY TypeStep, MutexStep, CountersStep DEF IInv
  <2>2. AdmissionBound' /\ EosIsLast' /\ EachSocketOwned'
    BY AdmissionStep, EosStep, SocketStep
  <2>3. QED
    BY <2>1, <2>2 DEF IInv
<1>2. QED
  BY InitIInv, <1>1, PTL DEF SafeSpec

(* Every variable keeps its type, whether or not calls fail.               *)
THEOREM TypeCorrect == SafeSpec => []TypeOK
<1>1. Init => TypeOK
  BY InitIInv DEF IInv
<1>2. QED
  BY <1>1, TypeStep, PTL DEF SafeSpec

(* Until a call of the listener fails, no increment of conn_terminations   *)
(* is torn or lost (client_handler's section, connmgr.c:118-125).          *)
THEOREM NoLostCount == SafeSpec => []CountersExact
<1>1. IInv => CountersExact
  BY DEF IInv
<1>2. QED
  BY Safety, <1>1, PTL

(* No more than MAX_CONN clients are ever admitted, and the else branch of *)
(* connmgr.c:215 is never reached, whatever fails.                         *)
THEOREM Admission == SafeSpec => []AdmissionBound
<1>1. IInv => AdmissionBound
  BY DEF IInv
<1>2. QED
  BY Safety, <1>1, PTL

(* No two threads ever use one client's socket, whatever fails, and only a *)
(* failing tcp_wait_for_connection leaves one without an owner.            *)
THEOREM OneOwner == SafeSpec => []EachSocketOwned
<1>1. IInv => EachSocketOwned
  BY DEF IInv
<1>2. QED
  BY Safety, <1>1, PTL

(* The end-of-stream record goes in last, after every measurement of every *)
(* admitted client (connmgr_listen's wait and client_handler's signal).    *)
THEOREM EndOfStreamLast == SafeSpec => []EosIsLast
<1>1. IInv => EosIsLast
  BY DEF IInv
<1>2. QED
  BY Safety, <1>1, PTL

(* When the listener returns no connection is open or forgotten, but those *)
(* that a failing tcp_wait_for_connection had accepted (lib/tcpsock.c:173). *)
THEOREM NoSocketLost == SafeSpec => []NothingLeftOpen
<1>1. IInv => NothingLeftOpen
  <2> SUFFICES ASSUME IInv, lpc = "done", NEW c \in Conns
               PROVE  conn[c] \in {"none", "closed", "refused"} \cup
                                  (IF AcceptMayFail THEN {"lost"} ELSE {})
    BY DEF NothingLeftOpen
  <2>1. epc \in {"ended", "absent"} /\ srv # "open"
    BY DEF IInv, EachSocketOwned, Closing
  <2>2. hpc[c] \in {"none", "signal", "unlock", "ended"}
    BY DEF IInv, EosIsLast, Closing, Started
  <2>3. QED
    BY <2>1, <2>2 DEF IInv, EachSocketOwned, TypeOK
<1>2. QED
  BY Safety, <1>1, PTL

-----------------------------------------------------------------------------
(* The same operator, reached through the instance.                        *)
LEMMA SameCardinality == \A S : CS!Cardinality(S) = Cardinality(S)
BY DEF CS!Cardinality, Cardinality

(* The connection manager implements the abstract service: starting a      *)
(* handler admits, closing its socket leaves, and the end of the stream is *)
(* inserted when MaxConn clients have gone (the whole of connmgr.c).       *)
THEOREM Refinement == SafeSpec => CS!SafeSpec
<1> DEFINE stage == [c \in Conns |-> Stage(c)]
<1>1. Init => CS!Init
  BY DEF Init, CS!Init, Stage
<1>2. IInv /\ [Next]_vars => [CS!Next]_(CS!serviceVars)
  <2> SUFFICES ASSUME IInv, [Next]_vars PROVE CS!Next \/ UNCHANGED <<stage, buffer>>
    BY DEF CS!serviceVars
  <2> USE DEF LGoto, EGoto, HGoto, ConnGoto, handlerVars
  <2>0. /\ hpc \in [Conns -> {"none", "receive", "insert", "close", "lock", "read",
                             "write", "signal", "unlock", "ended"}]
        /\ buffer \in Seq(Conns \cup {Eos}) /\ MaxConn \in Nat
    BY ConnMgrAssumption DEF IInv, TypeOK
  <2>1. CS!Taken = Started
    BY DEF CS!Taken, Stage, Started
  <2>2. ASSUME NEW c \in Conns, NEW s \in {"outside", "served", "gone"}, NEW to,
               hpc' = [hpc EXCEPT ![c] = to],
               s = IF to = "none" THEN "outside"
                   ELSE IF to \in {"receive", "insert", "close"} THEN "served" ELSE "gone"
        PROVE  stage' = [stage EXCEPT ![c] = s]
    BY <2>0, <2>2 DEF Stage
  <2>3. ASSUME NEW c \in Conns, Create(c) PROVE CS!Admit(c)
    <3>1. stage' = [stage EXCEPT ![c] = "served"] /\ stage[c] = "outside"
      BY <2>2, <2>3 DEF Create, Stage
    <3>2. Cardinality(Started) < MaxConn
      BY <2>3, <2>0, FiniteParts DEF Create, IInv, TypeOK, CountersSafe, AdmissionBound
    <3>3. buffer' = buffer
      BY <2>3 DEF Create
    <3>4. Cardinality({d \in Conns : stage[d] # "outside"}) < MaxConn
      BY <2>1, <3>2 DEF CS!Taken
    <3>5. QED
      BY <3>1, <3>3, <3>4, SameCardinality DEF CS!Admit, CS!Taken
  <2>4. ASSUME NEW c \in Conns, Insert(c) PROVE CS!Measure(c) \/ UNCHANGED <<stage, buffer>>
    <3>1. stage' = [stage EXCEPT ![c] = "served"] /\ stage[c] = "served"
      BY <2>2, <2>4 DEF Insert, Stage
    <3>2. stage' = stage
      BY <3>1
    <3>3. buffer' = Append(buffer, c) \/ buffer' = buffer
      BY <2>4 DEF Insert
    <3>4. QED
      BY <3>1, <3>2, <3>3 DEF CS!Measure
  <2>5. ASSUME NEW c \in Conns, Close(c) PROVE CS!Leave(c)
    <3>1. stage' = [stage EXCEPT ![c] = "gone"] /\ stage[c] = "served"
      BY <2>2, <2>5 DEF Close, Stage
    <3>2. buffer' = buffer
      BY <2>5 DEF Close
    <3>3. QED
      BY <3>1, <3>2 DEF CS!Leave
  <2>6. CASE InsertEos /\ buffer' = Append(buffer, Eos)
    <3>1. hpc' = hpc /\ buffer' = Append(buffer, Eos) /\ lpc = "eos"
      BY <2>6 DEF InsertEos
    <3>2. /\ Cardinality(Started) = MaxConn
          /\ \A c \in Started : hpc[c] \in {"signal", "unlock", "ended"}
          /\ \A i \in 1..Len(buffer) : buffer[i] # Eos
      BY <3>1 DEF IInv, EosIsLast, Closing
    <3>3. CS!Gone = Started
      BY <3>2 DEF CS!Gone, Stage, Started
    <3>4. ~CS!Ended
      <4>1. buffer # <<>> => Len(buffer) \in 1..Len(buffer)
        BY <2>0
      <4>2. QED
        BY <3>2, <4>1 DEF CS!Ended
    <3>5. stage' = stage
      BY <3>1 DEF Stage
    <3>6. Cardinality({d \in Conns : stage[d] = "gone"}) = MaxConn
      BY <3>2, <3>3 DEF CS!Gone
    <3>7. QED
      BY <3>1, <3>4, <3>5, <3>6, SameCardinality DEF CS!Next, CS!End, CS!Gone
  <2>7. ASSUME UNCHANGED <<hpc, buffer>> PROVE UNCHANGED <<stage, buffer>>
    BY <2>7 DEF Stage
  <2>8. CASE InsertEos /\ buffer' = buffer
    BY <2>7, <2>8 DEF InsertEos
  <2>9. ASSUME NEW c \in Conns, HandlerLock(c) \/ Count(c) \/ Signal(c) \/ HandlerUnlock(c)
        PROVE  UNCHANGED <<stage, buffer>>
    <3>1. /\ buffer' = buffer /\ hpc[c] \in {"lock", "read", "write", "signal", "unlock"}
          /\ \E to \in {"read", "write", "signal", "unlock", "ended"} :
               hpc' = [hpc EXCEPT ![c] = to]
      BY <2>9 DEF HandlerLock, Count, Signal, HandlerUnlock
    <3>2. QED
      BY <2>0, <3>1 DEF Stage
  <2>10. ASSUME NEW c \in Conns, Receive(c) PROVE UNCHANGED <<stage, buffer>>
    <3>1. /\ buffer' = buffer /\ hpc[c] = "receive"
          /\ \E to \in {"insert", "close"} : hpc' = [hpc EXCEPT ![c] = to]
      BY <2>10 DEF Receive
    <3>2. QED
      BY <2>0, <3>1 DEF Stage
  <2>11. CASE \/ Open \/ TestLoop \/ Spawn \/ SpawnFails \/ Wait
              \/ CloseServer \/ DestroyMutex \/ StopExcess \/ JoinNothing
    BY <2>7, <2>11 DEF Open, TestLoop, Spawn, SpawnFails, Wait, CloseServer, DestroyMutex,
                       StopExcess, JoinNothing
  <2>12. ASSUME NEW c \in Conns, Accept(c) \/ Check(c) \/ CreateFails(c) \/ Connect(c) \/ Reject(c)
         PROVE  UNCHANGED <<stage, buffer>>
    BY <2>7, <2>12 DEF Accept, Check, CreateFails, Connect, Reject
  <2>13. CASE ListenerLock \/ SpuriousWakeup \/ AcceptFails \/ TestStop \/ EnterAccept
    BY <2>7, <2>13 DEF ListenerLock, SpuriousWakeup, AcceptFails, TestStop, EnterAccept
  <2>14. CASE ExcessAccept \/ ExcessAcceptFails \/ ExcessLock \/ ExcessUnlock \/ UNCHANGED vars
    BY <2>7, <2>14 DEF ExcessAccept, ExcessAcceptFails, ExcessLock, ExcessUnlock, vars
  <2>15. QED
    <3>1. InsertEos => buffer' = Append(buffer, Eos) \/ buffer' = buffer
      BY DEF InsertEos
    <3>2. QED
      BY <2>3, <2>4, <2>5, <2>6, <2>8, <2>9, <2>10, <2>11, <2>12, <2>13, <2>14, <3>1
         DEF Next, Listener, Handler, Excess, CS!Next
<1>3. QED
  BY <1>1, <1>2, Safety, PTL DEF SafeSpec, CS!SafeSpec
=============================================================================
