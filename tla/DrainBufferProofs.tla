------------------------- MODULE DrainBufferProofs -------------------------
(***************************************************************************)
(* Proofs about the draining buffer of lab 4, for any number of readers    *)
(* and records, and, in the second half, about the data file and the log   *)
(* process of lab 2, for up to four records, whatever calls fail in both.  *)
(***************************************************************************)
EXTENDS DrainBuffer, LoggerLab2, FiniteSetTheorems, FunctionTheorems, SequenceTheorems, TLAPS

(* A record more in a sequence is at one position more.                    *)
LEMMA PositionsType ==
  ASSUME NEW S, NEW s \in Seq(S), NEW d
  PROVE  IsFiniteSet(Positions(s, d)) /\ Cardinality(Positions(s, d)) \in Nat
<1>1. IsFiniteSet(1..Len(s)) /\ Positions(s, d) \in SUBSET (1..Len(s))
  BY FS_Interval DEF Positions
<1>2. QED
  BY <1>1, FS_Subset, FS_CardinalityType

(* Where a value occurs in a queue that gets one more ...                  *)
LEMMA AppendPositions ==
  ASSUME NEW S, NEW s \in Seq(S), NEW e \in S, NEW d
  PROVE  Cardinality(Positions(Append(s, e), d)) =
           Cardinality(Positions(s, d)) + (IF e = d THEN 1 ELSE 0)
<1>1. CASE e = d
  <2>1. Positions(Append(s, e), d) = Positions(s, d) \cup {Len(s) + 1}
    BY <1>1 DEF Positions
  <2>2. Len(s) + 1 \notin Positions(s, d)
    BY DEF Positions
  <2>3. QED
    BY <1>1, <2>1, <2>2, PositionsType, FS_AddElement
<1>2. CASE e # d
  <2>1. Positions(Append(s, e), d) = Positions(s, d)
    BY <1>2 DEF Positions
  <2>2. QED
    BY <1>2, <2>1, PositionsType
<1>3. QED
  BY <1>1, <1>2

(* ... and in one that loses its first.                                    *)
LEMMA TailPositions ==
  ASSUME NEW S, NEW s \in Seq(S), s # <<>>, NEW d
  PROVE  Cardinality(Positions(s, d)) =
           Cardinality(Positions(Tail(s), d)) + (IF Head(s) = d THEN 1 ELSE 0)
<1> DEFINE P == Positions(Tail(s), d)
           Q == Positions(s, d) \ {1}
           g == [i \in P |-> i + 1]
<1>1. /\ Tail(s) \in Seq(S) /\ Len(Tail(s)) = Len(s) - 1 /\ Len(s) \in Nat \ {0}
      /\ \A i \in 1..(Len(s) - 1) : Tail(s)[i] = s[i + 1]
      /\ Head(s) = s[1]
  OBVIOUS
<1>2. \A i \in P : i \in 1..(Len(s) - 1) /\ i + 1 \in Q
  BY <1>1 DEF Positions
<1>3. \A j \in Q : j - 1 \in P /\ g[j - 1] = j
  BY <1>1 DEF Positions
<1>4. g \in Bijection(P, Q)
  <2>1. g \in [P -> Q]
    BY <1>2
  <2>2. \A a, b \in P : g[a] = g[b] => a = b
    BY <1>2
  <2>3. \A j \in Q : \E i \in P : g[i] = j
    BY <1>3
  <2> HIDE DEF P, Q, g
  <2>4. QED
    BY <2>1, <2>2, <2>3, Fun_IsBij
<1>5. IsFiniteSet(Q) /\ Cardinality(Q) = Cardinality(P) /\ Cardinality(P) \in Nat
  <2>1. IsFiniteSet(P) /\ Cardinality(P) \in Nat
    BY <1>1, PositionsType
  <2> HIDE DEF P, Q, g
  <2>2. QED
    BY <1>4, <2>1, FS_Bijection DEF ExistsBijection
<1>6. CASE Head(s) = d
  <2>1. Positions(s, d) = Q \cup {1} /\ 1 \notin Q
    BY <1>1, <1>6 DEF Positions
  <2> HIDE DEF Q, P
  <2>2. Cardinality(Positions(s, d)) = Cardinality(P) + 1
    BY <1>5, <2>1, FS_AddElement
  <2>3. QED
    BY <1>6, <2>2 DEF P
<1>7. CASE Head(s) # d
  <2>1. Positions(s, d) = Q
    BY <1>1, <1>7 DEF Positions
  <2> HIDE DEF Q, P
  <2>2. Cardinality(Positions(s, d)) = Cardinality(P) + 0
    BY <1>5, <2>1
  <2>3. QED
    BY <1>7, <2>2 DEF P
<1>8. QED
  BY <1>6, <1>7

(* Nothing occurs in the empty queue.                                      *)
LEMMA EmptyPositions == \A d : Positions(<<>>, d) = {} /\ Cardinality(Positions(<<>>, d)) = 0
<1>1. \A d : Positions(<<>>, d) = {}
  BY DEF Positions
<1>2. QED
  BY <1>1, FS_EmptySet

(* Sets of readers are finite.                                             *)
LEMMA FiniteReaders ==
  ASSUME NEW T \in SUBSET Readers
  PROVE  IsFiniteSet(T) /\ Cardinality(T) \in Nat
BY DrainBufferAssumption, FS_Subset, FS_CardinalityType

-----------------------------------------------------------------------------
(* The initial states satisfy the inductive invariant.                     *)
LEMMA InitIInv == Init => IInv
<1> SUFFICES ASSUME Init PROVE IInv
  OBVIOUS
<1>0. /\ queue = <<>> /\ waiting = {} /\ dropped = {} /\ file = <<>> /\ record = 0
      /\ initialised \in BOOLEAN /\ exited \in BOOLEAN /\ wpc \in {"open", "not_created"}
      /\ rpc \in [Readers -> {"remove", "not_created"}]
      /\ data = [r \in Readers |-> Eos] /\ eos_count = 0 /\ seen = [r \in Readers |-> 0]
      /\ mpc = "join" /\ freed = FALSE
  BY DEF Init
<1> USE DrainBufferAssumption, <1>0
<1>1. TypeOK
  <2>1. freed \in BOOLEAN
    OBVIOUS
  <2>2. record \in 0..Last /\ queue \in Seq(Records \cup {Eos}) /\ file \in Seq(Records)
    OBVIOUS
  <2>3. rpc \in [Readers -> {"remove", "write", "load", "store", "reinsert", "ended", "not_created"}]
    OBVIOUS
  <2>4. waiting \in SUBSET Readers /\ dropped \in SUBSET (Records \cup {Eos})
    OBVIOUS
  <2>5. QED
    BY <2>1, <2>2, <2>3, <2>4 DEF TypeOK
<1>2. EveryRecordOnce
  <2>1. ASSUME NEW d \in Records
        PROVE  /\ Cardinality(Positions(queue, d)) = 0 /\ Cardinality(Positions(file, d)) = 0
               /\ Cardinality(Holding(d)) = 0 /\ ~(d <= record)
    <3>1. Holding(d) = {} /\ ~(d <= record)
      BY DEF Holding, Records
    <3>2. QED
      BY <3>1, EmptyPositions, FS_EmptySet
  <2>2. QED
    BY <1>1, <2>1 DEF EveryRecordOnce
<1>3. OneLeaves /\ Leaving = {} /\ ~Marked /\ ~AllEnded
  BY DEF OneLeaves, Leaving, Marked, AllEnded
<1>4. CountKept
  <2>1. {r \in Readers : rpc[r] \in {"reinsert", "ended"}} = {}
    OBVIOUS
  <2>2. QED
    BY <2>1, FS_EmptySet DEF CountKept
<1>5. MarkerKept /\ MainWaits /\ NoReaderNoLine
  BY <1>3 DEF MarkerKept, MainWaits, NoReaderNoLine
<1>6. Nothing /\ dropped \ {Eos} \subseteq 1..record
  BY DEF Nothing
<1>7. QED
  BY <1>2, <1>3, <1>4, <1>5, <1>6 DEF IInv

(* What an insertion does to the queue: the record is dropped, or it is    *)
(* the last one.                                                           *)
LEMMA InsertCases ==
  ASSUME NEW d, Insert(d)
  PROVE  \/ dropped' = dropped \cup {d} /\ UNCHANGED listVars
         \/ /\ initialised /\ UNCHANGED initialised
            /\ dropped' = dropped /\ queue' = Append(queue, d) /\ waiting' \in SUBSET waiting
<1>1. CASE dropped' = dropped \cup {d} /\ UNCHANGED listVars
  BY <1>1
<1>2. CASE /\ initialised /\ queue' = Append(queue, d) /\ UNCHANGED <<initialised, dropped>>
           /\ waiting' \in IF waiting = {} THEN {{}} ELSE {waiting \ {r} : r \in waiting}
  BY <1>2
<1>3. QED
  BY <1>1, <1>2 DEF Insert

(* sbuffer_insert keeps the types.                                         *)
LEMMA InsertType ==
  ASSUME TypeOK, NEW d \in Records \cup {Eos}, Insert(d)
  PROVE  /\ queue' \in Seq(Records \cup {Eos})
         /\ waiting' \in SUBSET Readers /\ dropped' \in SUBSET (Records \cup {Eos})
         /\ initialised' = initialised
<1>1. Append(queue, d) \in Seq(Records \cup {Eos})
  BY DEF TypeOK
<1>2. CASE dropped' = dropped \cup {d} /\ UNCHANGED listVars
  BY <1>2 DEF TypeOK, listVars
<1>3. CASE /\ UNCHANGED initialised
           /\ dropped' = dropped /\ queue' = Append(queue, d) /\ waiting' \in SUBSET waiting
  BY <1>1, <1>3 DEF TypeOK
<1>4. QED
  BY <1>2, <1>3, InsertCases

(* Every step keeps the types.                                             *)
LEMMA TypeStep == IInv /\ [Next]_vars => TypeOK'
<1> SUFFICES ASSUME IInv, [Next]_vars PROVE TypeOK'
  OBVIOUS
<1> USE DEF listVars, bufferVars, writerVars, readerVars, mainVars, RGoto
<1>0. TypeOK /\ Last \in Nat
  BY DrainBufferAssumption DEF IInv, EveryRecordOnce
<1>1. CASE WriteRecord
  <2>1. record' \in 0..Last /\ record + 1 \in Records
    BY <1>0, <1>1 DEF WriteRecord, TypeOK, Records
  <2>2. QED
    BY <1>0, <1>1, <2>1, InsertType DEF WriteRecord, TypeOK
<1>2. CASE EndOfFile \/ OpenInput
  BY <1>0, <1>2 DEF EndOfFile, OpenInput, TypeOK
<1>3. CASE WriteEos
  BY <1>0, <1>3, InsertType DEF WriteEos, TypeOK
<1>4. CASE Join \/ JoinNothing \/ OutputTest
  BY <1>0, <1>4 DEF Join, JoinNothing, OutputTest, TypeOK
<1>5. CASE Free
  BY <1>0, <1>5 DEF Free, TypeOK
<1>6. ASSUME NEW r \in Readers, Remove(r) PROVE TypeOK'
  <2>1. Head(queue) \in Records \cup {Eos} /\ Tail(queue) \in Seq(Records \cup {Eos})
    BY <1>0, <1>6 DEF Remove, TypeOK
  <2>2. /\ rpc' \in [Readers -> {"remove", "write", "load", "store", "reinsert", "ended", "not_created"}]
        /\ data' \in [Readers -> Records \cup {Eos}]
    BY <1>0, <1>6, <2>1 DEF Remove, TypeOK
  <2>3. QED
    BY <1>0, <1>6, <2>1, <2>2 DEF Remove, TypeOK
<1>7. ASSUME NEW r \in Readers, Block(r) \/ SpuriousWakeup(r) \/ RemoveNothing(r) PROVE TypeOK'
  <2>1. CASE Block(r) \/ SpuriousWakeup(r)
    BY <1>0, <2>1 DEF Block, SpuriousWakeup, TypeOK
  <2>2. CASE RemoveNothing(r)
    BY <1>0, <2>2 DEF RemoveNothing, TypeOK
  <2>3. QED
    BY <1>7, <2>1, <2>2
<1>8. ASSUME NEW r \in Readers, WriteLine(r) PROVE TypeOK'
  <2>1. rpc[r] = "write" /\ data[r] \in Records \cup {Eos}
    BY <1>0, <1>8 DEF WriteLine, TypeOK
  <2>2. /\ rpc' \in [Readers -> {"remove", "write", "load", "store", "reinsert", "ended", "not_created"}]
        /\ UNCHANGED <<listVars, writerVars, data, eos_count, seen, mainVars>>
    BY <1>0, <1>8 DEF WriteLine, TypeOK
  <2>3. file' \in Seq(Records) /\ dropped' \in SUBSET (Records \cup {Eos})
    <3>1. CASE initialised /\ file' = Append(file, data[r]) /\ UNCHANGED dropped
      <4>1. data[r] \in Records
        BY <2>1, <3>1 DEF IInv, OneLeaves
      <4>2. Append(file, data[r]) \in Seq(Records)
        BY <1>0, <4>1 DEF TypeOK
      <4>3. QED
        BY <1>0, <3>1, <4>2 DEF TypeOK
    <3>2. CASE dropped' = dropped \cup {data[r]} /\ UNCHANGED file
      BY <1>0, <2>1, <3>2 DEF TypeOK
    <3>3. CASE UNCHANGED <<file, dropped>>
      BY <1>0, <3>3 DEF TypeOK
    <3>4. QED
      BY <1>8, <3>1, <3>2, <3>3 DEF WriteLine
  <2>4. QED
    BY <1>0, <2>2, <2>3 DEF TypeOK
<1>9. ASSUME NEW r \in Readers, LoadCount(r) \/ StoreCount(r) PROVE TypeOK'
  <2>1. CASE LoadCount(r)
    BY <1>0, <2>1 DEF LoadCount, TypeOK
  <2>2. CASE StoreCount(r)
    BY <1>0, <2>2 DEF StoreCount, TypeOK
  <2>3. QED
    BY <1>9, <2>1, <2>2
<1>10. ASSUME NEW r \in Readers, Reinsert(r) PROVE TypeOK'
  <2>1. CASE Insert(data[r])
    <3>1. data[r] \in Records \cup {Eos}
      BY <1>0 DEF TypeOK
    <3>2. QED
      BY <1>0, <1>10, <2>1, <3>1, InsertType DEF Reinsert, TypeOK
  <2>2. CASE UNCHANGED bufferVars
    BY <1>0, <1>10, <2>2 DEF Reinsert, TypeOK
  <2>3. QED
    BY <1>10, <2>1, <2>2 DEF Reinsert
<1>11. CASE UNCHANGED vars
  BY <1>0, <1>11 DEF vars, TypeOK
<1>12. QED
  BY <1>1, <1>2, <1>3, <1>4, <1>5, <1>6, <1>7, <1>8, <1>9, <1>10, <1>11
     DEF Next, Writer, Main, Reader

(* The parts of the invariant a step starts from.                          *)
LEMMA Now ==
  ASSUME IInv, initialised
  PROVE  /\ TypeOK /\ OneLeaves /\ CountKept /\ MarkerKept /\ MainWaits
         /\ queue \in Seq(Records \cup {Eos}) /\ Len(queue) \in Nat
         /\ rpc \in [Readers -> {"remove", "write", "load", "store", "reinsert", "ended", "not_created"}]
         /\ data \in [Readers -> Records \cup {Eos}] /\ seen \in [Readers -> Nat]
         /\ eos_count \in Nat /\ Eos \notin Records
BY DEF IInv, EveryRecordOnce, TypeOK, Records, Eos

(* While the writer is at work nobody leaves and there is no marker.       *)
LEMMA WriterFirst ==
  ASSUME IInv, initialised, wpc # "ended"
  PROVE  /\ Leaving = {} /\ ~Marked /\ Eos \notin dropped /\ ~AllEnded
         /\ \A r \in Readers : rpc[r] # "ended"
BY DrainBufferAssumption DEF IInv, MarkerKept, Leaving, AllEnded

(* While a thread is at work main waits for it, and the buffer is there.   *)
LEMMA AtWork ==
  ASSUME IInv,
         wpc \in {"open", "records", "eos"} \/ \E r \in Readers : rpc[r] \notin {"ended", "not_created"}
  PROVE  mpc = "join" /\ ~freed /\ ~NeverRead
BY DEF IInv, MainWaits, Joined, NeverRead

(* A marker at the head is all there is in the queue.                      *)
LEMMA OnlyMarker ==
  ASSUME IInv, initialised, queue # <<>>
  PROVE  /\ Leaving = {} /\ Tail(queue) \in Seq(Records \cup {Eos})
         /\ Head(queue) = Eos => Tail(queue) = <<>> /\ Marked
         /\ \A i \in 1..Len(Tail(queue)) :
              Tail(queue)[i] = queue[i + 1] /\ i + 1 \in 1..Len(queue)
         /\ Len(Tail(queue)) = Len(queue) - 1
<1>1. /\ queue \in Seq(Records \cup {Eos}) /\ Len(queue) \in Nat \ {0} /\ Head(queue) = queue[1]
      /\ Tail(queue) \in Seq(Records \cup {Eos}) /\ Len(Tail(queue)) = Len(queue) - 1
      /\ \A i \in 1..Len(Tail(queue)) : Tail(queue)[i] = queue[i + 1]
  BY Now
<1>2. Leaving = {}
  BY Now DEF OneLeaves
<1>3. ASSUME Head(queue) = Eos PROVE Tail(queue) = <<>> /\ Marked
  <2>1. queue[1] = Eos /\ 1 \in 1..Len(queue)
    BY <1>1, <1>3
  <2>2. 1 = Len(queue)
    BY <2>1, Now DEF OneLeaves
  <2>3. queue \in Seq(Records \cup {Eos}) /\ Len(queue) = 1
    BY <2>2, Now
  <2>4. Tail(queue) = <<>>
    <3>1. Tail(queue) \in Seq(Records \cup {Eos}) /\ ~(Len(Tail(queue)) \in Nat \ {0})
      BY <1>1, <2>3
    <3>2. QED
      BY <3>1, EmptySeq
  <2>5. QED
    BY <2>1, <2>4 DEF Marked
<1>4. QED
  BY <1>1, <1>2, <1>3

(* How a step moves a reader.                                              *)
LEMMA ReaderMoves ==
  ASSUME IInv, initialised, NEW r \in Readers, NEW to, rpc' = [rpc EXCEPT ![r] = to]
  PROVE  /\ to \in {"load", "store", "reinsert"} => Leaving' = Leaving \cup {r}
         /\ to \notin {"load", "store", "reinsert"} => Leaving' = Leaving \ {r}
         /\ rpc'[r] = to /\ \A q \in Readers \ {r} : rpc'[q] = rpc[q]
<1>1. rpc'[r] = to /\ \A q \in Readers \ {r} : rpc'[q] = rpc[q]
  BY Now
<1>2. QED
  BY <1>1 DEF Leaving

(* At every step at most one reader has the marker in hand.                *)
LEMMA LeavesStep == IInv /\ initialised /\ [Next]_vars => OneLeaves'
<1> SUFFICES ASSUME IInv, initialised, [Next]_vars PROVE OneLeaves'
  OBVIOUS
<1> USE DEF listVars, bufferVars, writerVars, readerVars, mainVars, RGoto
<1>1. ASSUME UNCHANGED <<queue, rpc, data>> PROVE OneLeaves'
  <2>1. Leaving' = Leaving
    BY <1>1 DEF Leaving
  <2>2. QED
    BY <1>1, <2>1, Now DEF OneLeaves
<1>2. CASE OpenInput \/ EndOfFile \/ Join \/ JoinNothing \/ OutputTest \/ UNCHANGED vars
  BY <1>1, <1>2 DEF OpenInput, EndOfFile, Join, JoinNothing, OutputTest, vars
<1>3. CASE WriteRecord
  <2>1. UNCHANGED <<rpc, data>> /\ Insert(record + 1) /\ wpc = "records"
    BY <1>3 DEF WriteRecord
  <2>2. Leaving' = {} /\ ~Marked
    BY <2>1, WriterFirst DEF Leaving
  <2>3. CASE queue' = Append(queue, record + 1)
    <3>1. record + 1 # Eos
      BY Now DEF TypeOK, Eos
    <3>2. \A i \in 1..Len(queue') : queue'[i] # Eos
      BY <2>2, <2>3, <3>1, Now DEF Marked
    <3>3. QED
      BY <2>1, <2>2, <3>2, Now DEF OneLeaves
  <2>4. QED
    BY <1>1, <2>1, <2>3, InsertCases
<1>4. CASE WriteEos
  <2>1. UNCHANGED <<rpc, data>> /\ Insert(Eos) /\ wpc = "eos"
    BY <1>4 DEF WriteEos
  <2>2. Leaving' = {} /\ ~Marked
    BY <2>1, WriterFirst DEF Leaving
  <2>3. CASE queue' = Append(queue, Eos)
    <3>1. \A i \in 1..Len(queue') : queue'[i] = Eos => i = Len(queue')
      BY <2>2, <2>3, Now DEF Marked
    <3>2. QED
      BY <2>1, <2>2, <3>1, Now DEF OneLeaves
  <2>4. QED
    BY <1>1, <2>1, <2>3, InsertCases
<1>5. CASE Free
  <2>1. queue' = <<>> /\ UNCHANGED <<rpc, data>>
    BY <1>5 DEF Free
  <2>2. Leaving' = Leaving /\ Len(queue') = 0
    BY <2>1 DEF Leaving
  <2>3. QED
    BY <2>1, <2>2, Now DEF OneLeaves
<1>6. ASSUME NEW r \in Readers, Block(r) \/ SpuriousWakeup(r) PROVE OneLeaves'
  BY <1>1, <1>6 DEF Block, SpuriousWakeup
<1>7. ASSUME NEW r \in Readers, Remove(r) PROVE OneLeaves'
  <2>1. /\ queue # <<>> /\ queue' = Tail(queue)
        /\ rpc' = [rpc EXCEPT ![r] = IF Head(queue) = Eos THEN "load" ELSE "write"]
        /\ data' = [data EXCEPT ![r] = Head(queue)]
    BY <1>7 DEF Remove
  <2>2. data'[r] = Head(queue) /\ \A q \in Readers \ {r} : data'[q] = data[q]
    BY <2>1, Now
  <2>3. CASE Head(queue) = Eos
    <3>1. queue' = <<>> /\ Leaving' = {r} /\ data'[r] = Eos /\ rpc'[r] = "load"
      BY <2>1, <2>2, <2>3, OnlyMarker, ReaderMoves
    <3>2. \A q \in Readers : rpc'[q] = "write" => data'[q] # Eos
      BY <2>1, <2>2, <2>3, Now, ReaderMoves DEF OneLeaves
    <3>3. QED
      BY <3>1, <3>2 DEF OneLeaves
  <2>4. CASE Head(queue) # Eos
    <3>1. Leaving' = {} /\ rpc'[r] = "write" /\ \A q \in Readers \ {r} : rpc'[q] = rpc[q]
      BY <2>1, <2>4, OnlyMarker, ReaderMoves
    <3>2. \A q \in Readers : rpc'[q] = "write" => data'[q] # Eos
      BY <2>2, <2>4, <3>1, Now DEF OneLeaves
    <3>3. ASSUME NEW i \in 1..Len(queue'), queue'[i] = Eos PROVE i = Len(queue')
      <4>1. queue[i + 1] = Eos /\ i + 1 \in 1..Len(queue) /\ Len(queue') = Len(queue) - 1
        BY <2>1, <3>3, OnlyMarker
      <4>2. i + 1 = Len(queue)
        BY <4>1, Now DEF OneLeaves
      <4>3. QED
        BY <4>1, <4>2, Now
    <3>4. QED
      BY <3>1, <3>2, <3>3 DEF OneLeaves
  <2>5. QED
    BY <2>3, <2>4
<1>8. ASSUME NEW r \in Readers, WriteLine(r) \/ LoadCount(r) \/ StoreCount(r) PROVE OneLeaves'
  <2>1. UNCHANGED <<queue, data>>
    BY <1>8 DEF WriteLine, LoadCount, StoreCount
  <2>2. /\ Leaving' = Leaving
        /\ \A q \in Readers : rpc'[q] = "write" => rpc[q] = "write"
    <3>1. CASE rpc[r] = "write" /\ rpc' = [rpc EXCEPT ![r] = "remove"]
      BY <3>1, ReaderMoves DEF Leaving
    <3>2. CASE rpc[r] = "load" /\ rpc' = [rpc EXCEPT ![r] = "store"]
      BY <3>2, ReaderMoves DEF Leaving
    <3>3. CASE rpc[r] = "store" /\ rpc' = [rpc EXCEPT ![r] = "reinsert"]
      BY <3>3, ReaderMoves DEF Leaving
    <3>4. QED
      BY <1>8, <3>1, <3>2, <3>3 DEF WriteLine, LoadCount, StoreCount
  <2>3. QED
    BY <2>1, <2>2, Now DEF OneLeaves
<1>9. ASSUME NEW r \in Readers, Reinsert(r) PROVE OneLeaves'
  <2>1. /\ rpc[r] = "reinsert" /\ rpc' = [rpc EXCEPT ![r] = "ended"] /\ data' = data
        /\ Insert(data[r]) \/ queue' = queue
    BY <1>9 DEF Reinsert
  <2>2. Leaving = {r} /\ queue = <<>> /\ data[r] = Eos
    BY <2>1, Now DEF OneLeaves, Leaving
  <2>3. Leaving' = {} /\ \A q \in Readers : rpc'[q] = "write" => rpc[q] = "write"
    BY <2>1, <2>2, ReaderMoves
  <2>4. queue' = <<>> \/ queue' = <<Eos>>
    <3>1. queue' = queue \/ queue' = Append(queue, Eos)
      BY <2>1, <2>2, InsertCases
    <3>2. QED
      BY <2>2, <3>1
  <2>5. \A i \in 1..Len(queue') : i = Len(queue')
    <3>1. CASE queue' = <<>>
      BY <3>1
    <3>2. CASE queue' = <<Eos>>
      BY <3>2
    <3>3. QED
      BY <2>4, <3>1, <3>2
  <2>6. QED
    BY <2>1, <2>3, <2>5, Now DEF OneLeaves
<1>10. QED
  BY <1>2, <1>3, <1>4, <1>5, <1>6, <1>7, <1>8, <1>9
     DEF Next, Writer, Main, Reader, RemoveNothing

(* eos_count is right although nothing protects it: one reader leaves at a *)
(* time.                                                                   *)
LEMMA CountStep == IInv /\ initialised /\ [Next]_vars => CountKept'
<1> SUFFICES ASSUME IInv, initialised, [Next]_vars PROVE CountKept'
  OBVIOUS
<1> USE DEF listVars, bufferVars, writerVars, readerVars, mainVars, RGoto
<1> DEFINE Past == {r \in Readers : rpc[r] \in {"reinsert", "ended"}}
<1>0. eos_count = Cardinality(Past) /\ \A r \in Readers : rpc[r] = "store" => seen[r] = eos_count
  BY Now DEF CountKept
<1>1. ASSUME Past' = Past, UNCHANGED <<eos_count, seen>>,
             \A r \in Readers : rpc'[r] = "store" => rpc[r] = "store"
      PROVE  CountKept'
  BY <1>0, <1>1 DEF CountKept
<1>2. CASE Writer \/ Main \/ UNCHANGED vars
  <2>1. UNCHANGED <<rpc, eos_count, seen>>
    BY <1>2 DEF Writer, OpenInput, WriteRecord, EndOfFile, WriteEos,
                Main, Join, JoinNothing, OutputTest, Free, vars
  <2>2. QED
    BY <1>1, <2>1
<1>3. ASSUME NEW r \in Readers,
             Block(r) \/ SpuriousWakeup(r) \/ Remove(r) \/ WriteLine(r) \/ Reinsert(r)
      PROVE  CountKept'
  <2>1. UNCHANGED <<eos_count, seen>>
    BY <1>3 DEF Block, SpuriousWakeup, Remove, WriteLine, Reinsert
  <2>2. CASE rpc' = rpc
    BY <1>1, <2>1, <2>2
  <2>3. ASSUME NEW to \in {"load", "write", "remove"}, rpc[r] \in {"remove", "write"},
               rpc' = [rpc EXCEPT ![r] = to]
        PROVE  CountKept'
    <3>1. Past' = Past /\ \A q \in Readers : rpc'[q] = "store" => rpc[q] = "store"
      BY <2>3, ReaderMoves
    <3>2. QED
      BY <1>1, <2>1, <3>1
  <2>4. CASE rpc[r] = "reinsert" /\ rpc' = [rpc EXCEPT ![r] = "ended"]
    <3>1. Past' = Past /\ \A q \in Readers : rpc'[q] = "store" => rpc[q] = "store"
      BY <2>4, ReaderMoves
    <3>2. QED
      BY <1>1, <2>1, <3>1
  <2>5. QED
    BY <1>3, <2>2, <2>3, <2>4 DEF Block, SpuriousWakeup, Remove, WriteLine, Reinsert
<1>4. ASSUME NEW r \in Readers, LoadCount(r) PROVE CountKept'
  <2>1. /\ rpc[r] = "load" /\ rpc' = [rpc EXCEPT ![r] = "store"] /\ eos_count' = eos_count
        /\ seen' = [seen EXCEPT ![r] = eos_count]
    BY <1>4 DEF LoadCount
  <2>2. Past' = Past
    BY <2>1, ReaderMoves
  <2>3. \A q \in Readers : rpc'[q] = "store" => seen'[q] = eos_count
    BY <1>0, <2>1, ReaderMoves, Now
  <2>4. QED
    BY <1>0, <2>1, <2>2, <2>3 DEF CountKept
<1>5. ASSUME NEW r \in Readers, StoreCount(r) PROVE CountKept'
  <2>1. /\ rpc[r] = "store" /\ rpc' = [rpc EXCEPT ![r] = "reinsert"]
        /\ eos_count' = eos_count + 1
    BY <1>0, <1>5 DEF StoreCount
  <2>2. Past' = Past \cup {r} /\ r \notin Past
    <3>1. rpc'[r] = "reinsert" /\ \A q \in Readers \ {r} : rpc'[q] = rpc[q]
      BY <2>1, ReaderMoves
    <3>2. QED
      BY <2>1, <3>1, SMTT(30)
  <2>3. IsFiniteSet(Past)
    BY FiniteReaders
  <2>4. Cardinality(Past') = eos_count + 1
    BY <1>0, <2>2, <2>3, FS_AddElement
  <2>5. \A q \in Readers : rpc'[q] # "store"
    BY <2>1, ReaderMoves, Now DEF OneLeaves, Leaving
  <2>6. QED
    BY <2>1, <2>4, <2>5 DEF CountKept
<1>6. QED
  BY <1>2, <1>3, <1>4, <1>5 DEF Next, Reader, RemoveNothing

(* The marker is not lost and not doubled.                                 *)
LEMMA MarkerStep == IInv /\ initialised /\ [Next]_vars => MarkerKept'
<1> SUFFICES ASSUME IInv, initialised, [Next]_vars PROVE MarkerKept'
  OBVIOUS
<1> USE DEF listVars, bufferVars, writerVars, readerVars, mainVars, RGoto
<1>0. MarkerKept
  BY Now
<1>1. ASSUME UNCHANGED <<queue, dropped, rpc, freed>>, wpc' = wpc \/ (wpc # "ended" /\ wpc' # "ended")
      PROVE  MarkerKept'
  <2>1. Marked' = Marked /\ Leaving' = Leaving /\ AllEnded' = AllEnded
    BY <1>1 DEF Marked, Leaving, AllEnded
  <2>2. QED
    BY <1>0, <1>1, <2>1 DEF MarkerKept
<1>2. CASE Join \/ JoinNothing \/ OutputTest \/ UNCHANGED vars
  BY <1>1, <1>2 DEF Join, JoinNothing, OutputTest, vars
<1>3. CASE OpenInput \/ EndOfFile
  BY <1>1, <1>3 DEF OpenInput, EndOfFile
<1>4. CASE Free
  <2>1. UNCHANGED <<dropped, rpc, wpc>> /\ queue' = <<>> /\ freed'
    BY <1>4 DEF Free
  <2>2. Leaving' = Leaving /\ AllEnded' = AllEnded /\ ~Marked' /\ Len(queue') = 0
    BY <2>1 DEF Marked, Leaving, AllEnded
  <2>3. QED
    BY <1>0, <2>1, <2>2 DEF MarkerKept
<1>5. CASE WriteRecord
  <2>1. /\ UNCHANGED <<wpc, rpc, freed>> /\ Insert(record + 1) /\ wpc = "records"
    BY <1>5 DEF WriteRecord
  <2>2. record + 1 # Eos
    BY Now DEF TypeOK, Eos
  <2>3. Leaving' = {} /\ ~Marked /\ Eos \notin dropped /\ ~AllEnded'
    BY <2>1, WriterFirst DEF Leaving, AllEnded
  <2>4. Eos \notin dropped' /\ ~Marked'
    <3>1. CASE dropped' = dropped \cup {record + 1} /\ queue' = queue
      BY <2>2, <2>3, <3>1 DEF Marked
    <3>2. CASE dropped' = dropped /\ queue' = Append(queue, record + 1)
      BY <2>2, <2>3, <3>2, Now DEF Marked
    <3>3. QED
      BY <2>1, <3>1, <3>2, InsertCases
  <2>5. ~freed /\ \A r \in Readers : rpc[r] # "ended"
    BY <2>1, AtWork, WriterFirst
  <2>6. QED
    BY <1>0, <2>1, <2>3, <2>4, <2>5 DEF MarkerKept
<1>6. CASE WriteEos
  <2>1. /\ UNCHANGED <<rpc, freed>> /\ Insert(Eos) /\ wpc = "eos" /\ wpc' = "ended"
    BY <1>6 DEF WriteEos
  <2>2. Leaving' = {} /\ ~Marked /\ ~AllEnded'
    BY <2>1, WriterFirst DEF Leaving, AllEnded
  <2>3. \/ Eos \in dropped' /\ ~Marked'
        \/ Eos \notin dropped' /\ Marked'
    <3>1. CASE dropped' = dropped \cup {Eos} /\ queue' = queue
      BY <2>2, <3>1 DEF Marked
    <3>2. CASE dropped' = dropped /\ queue' = Append(queue, Eos)
      <4>1. Len(queue') \in 1..Len(queue') /\ queue'[Len(queue')] = Eos
        BY <3>2, Now
      <4>2. QED
        BY <2>1, <3>2, <4>1, WriterFirst DEF Marked
    <3>3. QED
      BY <2>1, <3>1, <3>2, InsertCases
  <2>4. ~freed /\ \A r \in Readers : rpc[r] # "ended"
    BY <2>1, AtWork, WriterFirst
  <2>5. QED
    BY <2>1, <2>2, <2>3, <2>4 DEF MarkerKept
<1>8. ASSUME NEW r \in Readers, Block(r) \/ SpuriousWakeup(r) PROVE MarkerKept'
  BY <1>1, <1>8 DEF Block, SpuriousWakeup
<1>9. ASSUME NEW r \in Readers, Remove(r) PROVE MarkerKept'
  <2>1. /\ queue # <<>> /\ queue' = Tail(queue) /\ UNCHANGED <<dropped, wpc, freed>>
        /\ rpc[r] = "remove"
        /\ rpc' = [rpc EXCEPT ![r] = IF Head(queue) = Eos THEN "load" ELSE "write"]
    BY <1>9 DEF Remove
  <2>2. /\ ~AllEnded /\ ~AllEnded' /\ ~freed /\ rpc'[r] # "ended"
        /\ \A q \in Readers \ {r} : rpc'[q] = rpc[q]
    <3>1. rpc'[r] # "ended" /\ \A q \in Readers \ {r} : rpc'[q] = rpc[q]
      BY <2>1, ReaderMoves
    <3>2. QED
      BY <1>0, <2>1, <3>1 DEF AllEnded, MarkerKept
  <2>3. (\E q \in Readers : rpc'[q] = "ended") => \A i \in 1..Len(queue') : queue'[i] = Eos
    <3>1. (\E q \in Readers : rpc'[q] = "ended") => \E q \in Readers : rpc[q] = "ended"
      BY <2>1, <2>2
    <3>2. (\E q \in Readers : rpc[q] = "ended") => \A i \in 1..Len(queue) : queue[i] = Eos
      BY <1>0 DEF MarkerKept
    <3>3. \A i \in 1..Len(queue') : queue'[i] = queue[i + 1] /\ i + 1 \in 1..Len(queue)
      BY <2>1, OnlyMarker
    <3>4. QED
      BY <3>1, <3>2, <3>3
  <2>4. CASE Head(queue) = Eos
    <3>1. Marked /\ ~Marked' /\ Leaving' = {r}
      <4>1. Marked /\ queue' = <<>> /\ Leaving = {}
        BY <2>1, <2>4, OnlyMarker
      <4>2. ~Marked'
        BY <4>1 DEF Marked
      <4>3. Leaving' = Leaving \cup {r}
        BY <2>1, <2>4, ReaderMoves
      <4>4. QED
        BY <4>1, <4>2, <4>3
    <3>2. wpc = "ended" /\ Eos \notin dropped
      BY <1>0, <3>1 DEF MarkerKept
    <3>3. QED
      BY <2>1, <2>2, <2>3, <3>1, <3>2 DEF MarkerKept
  <2>5. CASE Head(queue) # Eos
    <3>1. Leaving = {} /\ Leaving' = {} /\ rpc'[r] = "write"
      BY <2>1, <2>5, OnlyMarker, ReaderMoves
    <3>2. Marked' <=> Marked
      <4>1. ASSUME NEW i \in 1..Len(queue), queue[i] = Eos PROVE Marked'
        <5>1. i # 1
          BY <2>1, <2>5, <4>1, Now
        <5>2. i - 1 \in 1..Len(Tail(queue)) /\ (i - 1) + 1 = i
          BY <2>1, <4>1, <5>1, OnlyMarker, Now
        <5>3. Tail(queue)[i - 1] = Eos
          BY <2>1, <4>1, <5>2, OnlyMarker
        <5>4. QED
          BY <2>1, <5>2, <5>3 DEF Marked
      <4>2. Marked' => Marked
        BY <2>1, OnlyMarker DEF Marked
      <4>3. QED
        BY <4>1, <4>2 DEF Marked
    <3>3. QED
      BY <1>0, <2>1, <2>2, <2>3, <3>1, <3>2 DEF MarkerKept
  <2>6. QED
    BY <2>4, <2>5
<1>10. ASSUME NEW r \in Readers, WriteLine(r) \/ LoadCount(r) \/ StoreCount(r) PROVE MarkerKept'
  <2>0. Eos \in dropped' <=> Eos \in dropped
    <3>1. rpc[r] = "write" => data[r] # Eos
      BY Now DEF OneLeaves
    <3>2. QED
      BY <1>10, <3>1 DEF WriteLine, LoadCount, StoreCount
  <2>1. /\ UNCHANGED <<queue, wpc, freed>> /\ rpc[r] \in {"write", "load", "store"}
        /\ \/ rpc[r] = "write" /\ rpc' = [rpc EXCEPT ![r] = "remove"]
           \/ rpc[r] \in {"load", "store"} /\ rpc' = [rpc EXCEPT ![r] = "store"]
           \/ rpc[r] \in {"load", "store"} /\ rpc' = [rpc EXCEPT ![r] = "reinsert"]
    BY <1>10 DEF WriteLine, LoadCount, StoreCount
  <2>2. Leaving' = Leaving /\ rpc'[r] # "ended" /\ \A q \in Readers \ {r} : rpc'[q] = rpc[q]
    BY <2>1, ReaderMoves DEF Leaving
  <2>3. ~AllEnded /\ ~AllEnded' /\ Marked' = Marked
    BY <2>1, <2>2 DEF AllEnded, Marked
  <2>4. wpc # "ended" => rpc[r] = "write" /\ rpc'[r] = "remove"
    BY <1>0, <2>1, ReaderMoves DEF MarkerKept
  <2>5. \A q \in Readers : rpc'[q] = "ended" => rpc[q] = "ended"
    BY <2>2
  <2>6. QED
    BY <1>0, <2>0, <2>1, <2>2, <2>3, <2>4, <2>5 DEF MarkerKept
<1>11. ASSUME NEW r \in Readers, Reinsert(r) PROVE MarkerKept'
  <2>1. /\ rpc[r] = "reinsert" /\ rpc' = [rpc EXCEPT ![r] = "ended"] /\ UNCHANGED <<wpc, freed>>
        /\ IF eos_count < Cardinality(Readers) THEN Insert(data[r]) ELSE UNCHANGED bufferVars
    BY <1>11 DEF Reinsert
  <2>2. /\ Leaving = {r} /\ queue = <<>> /\ data[r] = Eos
        /\ wpc = "ended" /\ Eos \notin dropped /\ ~AllEnded
    <3>1. Leaving = {r} /\ queue = <<>> /\ data[r] = Eos
      BY <2>1, Now DEF OneLeaves, Leaving
    <3>2. QED
      BY <1>0, <2>1, <3>1 DEF MarkerKept, AllEnded
  <2>3. Leaving' = {} /\ ~freed
    BY <2>1, <2>2, ReaderMoves, AtWork
  <2> DEFINE Past == {q \in Readers : rpc[q] \in {"reinsert", "ended"}}
  <2>4. eos_count = Cardinality(Past) /\ Past \in SUBSET Readers
    BY Now DEF CountKept
  <2>5. CASE eos_count < Cardinality(Readers)
    <3>1. PICK q \in Readers : q \notin Past
      BY <2>4, <2>5, FiniteReaders
    <3>2. ~AllEnded'
      BY <2>1, <3>1, ReaderMoves DEF AllEnded
    <3>3. CASE dropped' = dropped \cup {Eos} /\ queue' = queue
      <4>1. ~Marked' /\ Len(queue') = 0
        BY <2>2, <3>3 DEF Marked
      <4>2. QED
        BY <2>1, <2>2, <2>3, <3>2, <3>3, <4>1 DEF MarkerKept
    <3>4. CASE dropped' = dropped /\ queue' = Append(queue, Eos)
      <4>1. Len(queue') \in 1..Len(queue') /\ queue'[Len(queue')] = Eos
        BY <3>4, Now
      <4>2. Marked'
        BY <4>1 DEF Marked
      <4>3. \A i \in 1..Len(queue') : queue'[i] = Eos
        <5>1. queue' = <<Eos>>
          BY <2>2, <3>4
        <5>2. QED
          BY <5>1
      <4>4. QED
        BY <2>1, <2>2, <2>3, <3>2, <3>4, <4>2, <4>3 DEF MarkerKept
    <3>5. QED
      BY <2>1, <2>2, <2>5, <3>3, <3>4, InsertCases
  <2>6. CASE ~(eos_count < Cardinality(Readers))
    <3>1. Past = Readers
      <4>1. Cardinality(Past) <= Cardinality(Readers)
        BY <2>4, FS_Subset, DrainBufferAssumption
      <4>2. Cardinality(Readers) = Cardinality(Past)
        BY <2>4, <2>6, <4>1, FiniteReaders
      <4>3. QED
        BY <2>4, <4>2, FS_Subset, DrainBufferAssumption
    <3>2. AllEnded'
      <4>1. \A q \in Readers \ {r} : rpc[q] = "ended"
        BY <2>2, <3>1 DEF Leaving
      <4>2. QED
        BY <2>1, <4>1, ReaderMoves DEF AllEnded
    <3>3. UNCHANGED <<queue, dropped>>
      BY <2>1, <2>6
    <3>4. ~Marked' /\ Len(queue') = 0
      BY <2>2, <3>3 DEF Marked
    <3>5. QED
      BY <2>1, <2>2, <2>3, <3>2, <3>3, <3>4 DEF MarkerKept
  <2>7. QED
    BY <2>5, <2>6
<1>12. QED
  BY <1>2, <1>3, <1>4, <1>5, <1>6, <1>8, <1>9, <1>10, <1>11
     DEF Next, Writer, Main, Reader, RemoveNothing

(* The places a record is in.                                              *)
Places(d) ==
  Cardinality(Positions(queue, d)) + Cardinality(Holding(d)) + Cardinality(Positions(file, d))

(* The number of places it should be in.                                   *)
Expected(d) == IF d <= record /\ d \notin dropped /\ ~NeverRead THEN 1 ELSE 0

(* The inductive invariant in terms of the places of a record.             *)
LEMMA PlacesType ==
  ASSUME IInv, initialised, NEW d \in Records
  PROVE  /\ Cardinality(Positions(queue, d)) \in Nat /\ Cardinality(Positions(file, d)) \in Nat
         /\ IsFiniteSet(Holding(d)) /\ Cardinality(Holding(d)) \in Nat
         /\ Places(d) = Expected(d)
<1>1. queue \in Seq(Records \cup {Eos}) /\ file \in Seq(Records)
  BY Now DEF TypeOK
<1>2. Holding(d) \in SUBSET Readers
  BY DEF Holding
<1>3. QED
  BY <1>1, <1>2, PositionsType, FiniteReaders DEF IInv, EveryRecordOnce, Places, Expected

(* Only sbuffer_free decides that the list is never read.                  *)
LEMMA NeverReadStays ==
  ASSUME IInv, [Next]_vars, ~Free
  PROVE  NeverRead' = NeverRead
<1> USE DEF readerVars, mainVars
<1>1. ASSUME UNCHANGED <<rpc, freed>> PROVE NeverRead' = NeverRead
  BY <1>1 DEF NeverRead
<1>2. ASSUME NEW r \in Readers, NEW to, rpc[r] # "not_created", to # "not_created",
             rpc' = [rpc EXCEPT ![r] = to]
      PROVE  NeverRead' = NeverRead
  <2>1. rpc'[r] = to
    BY <1>2 DEF IInv, EveryRecordOnce, TypeOK
  <2>2. QED
    BY <1>2, <2>1 DEF NeverRead
<1>3. CASE Writer \/ Main \/ UNCHANGED vars
  BY <1>1, <1>3 DEF Writer, OpenInput, WriteRecord, EndOfFile, WriteEos,
                    Main, Join, JoinNothing, OutputTest, vars
<1>4. ASSUME NEW r \in Readers, Reader(r) \/ SpuriousWakeup(r) PROVE NeverRead' = NeverRead
  <2>1. CASE Block(r) \/ SpuriousWakeup(r)
    BY <1>1, <2>1 DEF Block, SpuriousWakeup
  <2>2. CASE Remove(r) \/ RemoveNothing(r)
    BY <1>2, <2>2 DEF Remove, RemoveNothing, RGoto
  <2>3. CASE WriteLine(r) \/ LoadCount(r) \/ StoreCount(r) \/ Reinsert(r)
    BY <1>2, <2>3 DEF WriteLine, LoadCount, StoreCount, Reinsert, RGoto
  <2>4. QED
    BY <1>4, <2>1, <2>2, <2>3 DEF Reader
<1>5. QED
  BY <1>3, <1>4 DEF Next

(* Every step keeps a record in the one place it is in.                    *)
LEMMA OnceStep ==
  IInv /\ initialised /\ [Next]_vars =>
    EveryRecordOnce' /\ (dropped \ {Eos} \subseteq 1..record)'
<1> SUFFICES ASSUME IInv, initialised, [Next]_vars
             PROVE  /\ \A d \in Records : Places(d)' = Expected(d)'
                    /\ dropped' \ {Eos} \subseteq 1..record'
  BY TypeStep DEF EveryRecordOnce, Places, Expected
<1> USE DEF listVars, bufferVars, writerVars, readerVars, mainVars, RGoto
<1>0. /\ queue \in Seq(Records \cup {Eos}) /\ file \in Seq(Records) /\ record \in Nat
      /\ dropped \ {Eos} \subseteq 1..record /\ Records \subseteq Nat /\ Eos \notin Records
      /\ data \in [Readers -> Records \cup {Eos}]
  BY Now DEF IInv, TypeOK, Records
<1>1. ~Free => NeverRead' = NeverRead
  BY NeverReadStays
<1>2. ASSUME UNCHANGED <<queue, file, dropped, record>>, ~Free, \A d \in Records : Holding(d)' = Holding(d)
      PROVE  /\ \A d \in Records : Places(d)' = Expected(d)'
             /\ dropped' \ {Eos} \subseteq 1..record'
  <2>1. ASSUME NEW d \in Records PROVE Places(d)' = Places(d)
    BY <1>2 DEF Places, Positions
  <2>2. ASSUME NEW d \in Records PROVE Expected(d)' = Expected(d)
    BY <1>1, <1>2 DEF Expected
  <2>3. QED
    BY <1>0, <1>2, <2>1, <2>2, PlacesType
<1>3. CASE OpenInput \/ EndOfFile \/ Join \/ JoinNothing \/ OutputTest \/ UNCHANGED vars
  <2>1. UNCHANGED <<queue, file, dropped, record, rpc, data, freed>>
    BY <1>3 DEF OpenInput, EndOfFile, Join, JoinNothing, OutputTest, vars
  <2>2. ~Free
    BY <2>1 DEF Free
  <2>3. QED
    BY <1>2, <2>1, <2>2 DEF Holding
<1>4. CASE Free
  <2>1. /\ UNCHANGED <<file, dropped, record, rpc, data>> /\ queue' = <<>> /\ mpc # "join"
        /\ ~freed /\ freed' = TRUE
    BY <1>4 DEF Free
  <2>2. ASSUME NEW d \in Records
        PROVE  Holding(d) = {} /\ Holding(d)' = {} /\ Cardinality(Positions(queue', d)) = 0
               /\ Positions(file', d) = Positions(file, d)
    <3>1. \A r \in Readers : rpc[r] # "write"
      BY <2>1, Now DEF MainWaits, Joined
    <3>2. QED
      BY <2>1, <3>1, EmptyPositions DEF Holding, Positions
  <2>3. CASE \A r \in Readers : rpc[r] = "not_created"
    <3>1. file = <<>> /\ NeverRead'
      BY <2>1, <2>3 DEF IInv, NoReaderNoLine, NeverRead
    <3>2. ASSUME NEW d \in Records PROVE Places(d)' = 0 /\ Expected(d)' = 0
      <4>1. Cardinality(Positions(file', d)) = 0
        BY <2>2, <3>1, EmptyPositions
      <4>2. Cardinality(Holding(d)') = 0 /\ Cardinality(Positions(queue', d)) = 0
        BY <2>2, FS_EmptySet
      <4>3. Places(d)' = 0
        BY <4>1, <4>2 DEF Places
      <4>4. QED
        BY <3>1, <4>3 DEF Expected
    <3>3. QED
      BY <1>0, <2>1, <3>2
  <2>4. CASE \E r \in Readers : rpc[r] # "not_created"
    <3>1. ~NeverRead /\ ~NeverRead' /\ \A i \in 1..Len(queue) : queue[i] = Eos
      BY <2>1, <2>4, Now DEF MainWaits, Joined, MarkerKept, NeverRead
    <3>2. ASSUME NEW d \in Records PROVE Places(d)' = Places(d) /\ Expected(d)' = Expected(d)
      <4>1. Positions(queue, d) = {}
        BY <1>0, <3>1 DEF Positions
      <4>2. QED
        BY <2>1, <2>2, <3>1, <4>1, FS_EmptySet DEF Places, Expected
    <3>3. QED
      BY <1>0, <2>1, <3>2, PlacesType
  <2>5. QED
    BY <2>3, <2>4
<1>5. CASE WriteRecord
  <2>1. /\ record' = record + 1 /\ Insert(record + 1) /\ UNCHANGED <<file, rpc, data>>
        /\ record + 1 \in Records /\ ~NeverRead /\ ~NeverRead'
    <3>1. ~NeverRead /\ ~NeverRead'
      BY <1>5, AtWork DEF WriteRecord, NeverRead
    <3>2. QED
      BY <1>0, <1>5, <3>1, DrainBufferAssumption DEF WriteRecord, Records
  <2>2. ASSUME NEW d \in Records PROVE Holding(d)' = Holding(d) /\ Positions(file', d) = Positions(file, d)
    BY <2>1 DEF Holding, Positions
  <2>3. record + 1 \notin dropped
    BY <1>0 DEF Eos
  <2>4. CASE dropped' = dropped \cup {record + 1} /\ queue' = queue
    <3>1. ASSUME NEW d \in Records PROVE Places(d)' = Places(d)
      BY <2>2, <2>4 DEF Places, Positions
    <3>2. ASSUME NEW d \in Records
          PROVE  Expected(d)' = Expected(d)
      BY <1>0, <2>1, <2>4 DEF Expected
    <3>3. dropped' \ {Eos} \subseteq 1..record'
      BY <1>0, <2>1, <2>4
    <3>4. QED
      BY <3>1, <3>2, <3>3, PlacesType
  <2>5. CASE dropped' = dropped /\ queue' = Append(queue, record + 1)
    <3>1. ASSUME NEW d \in Records
          PROVE  Places(d)' = Expected(d)'
      <4>1. Cardinality(Positions(queue', d)) =
              Cardinality(Positions(queue, d)) + (IF record + 1 = d THEN 1 ELSE 0)
        BY <1>0, <2>1, <2>5, AppendPositions
      <4>2. Places(d)' = Places(d) + (IF record + 1 = d THEN 1 ELSE 0)
        BY <2>2, <4>1, PlacesType DEF Places
      <4>3. Places(d) = IF d <= record /\ d \notin dropped THEN 1 ELSE 0
        BY <2>1, PlacesType DEF Expected
      <4>4. CASE record + 1 = d
        BY <1>0, <2>1, <2>3, <2>5, <4>2, <4>3, <4>4 DEF Expected
      <4>5. CASE record + 1 # d
        <5>1. d <= record' <=> d <= record
          BY <1>0, <2>1, <4>5
        <5>2. QED
          BY <2>1, <2>5, <4>2, <4>3, <4>5, <5>1 DEF Expected
      <4>6. QED
        BY <4>4, <4>5
    <3>2. QED
      BY <1>0, <2>1, <2>5, <3>1
  <2>6. QED
    BY <2>1, <2>4, <2>5, InsertCases
<1>6. ASSUME UNCHANGED <<file, record>>, ~Free, Insert(Eos), \A d \in Records : Holding(d)' = Holding(d)
      PROVE  /\ \A d \in Records : Places(d)' = Expected(d)'
             /\ dropped' \ {Eos} \subseteq 1..record'
  <2>1. ASSUME NEW d \in Records
        PROVE  Cardinality(Positions(queue', d)) = Cardinality(Positions(queue, d))
    <3>1. CASE queue' = queue
      BY <3>1 DEF Positions
    <3>2. CASE queue' = Append(queue, Eos)
      <4>1. Eos # d
        BY <1>0
      <4>2. Cardinality(Positions(Append(queue, Eos), d)) = Cardinality(Positions(queue, d)) + 0
        BY <1>0, <4>1, AppendPositions
      <4>3. QED
        BY <3>2, <4>2, PlacesType
    <3>3. QED
      BY <1>6, <3>1, <3>2, InsertCases
  <2>2. ASSUME NEW d \in Records PROVE Places(d)' = Places(d)
    <3>1. Positions(file', d) = Positions(file, d)
      BY <1>6 DEF Positions
    <3>2. QED
      BY <1>6, <2>1, <3>1 DEF Places
  <2>3. dropped' \ {Eos} = dropped \ {Eos}
    BY <1>6, InsertCases
  <2>4. ASSUME NEW d \in Records PROVE Expected(d)' = Expected(d)
    BY <1>1, <1>0, <1>6, <2>3 DEF Expected
  <2>5. QED
    BY <1>0, <1>6, <2>2, <2>3, <2>4, PlacesType
<1>7. CASE WriteEos
  <2>1. ~Free
    BY <1>7 DEF WriteEos, Free
  <2>2. QED
    BY <1>6, <1>7, <2>1 DEF WriteEos, Holding
<1>8. ASSUME NEW r \in Readers, Block(r) \/ SpuriousWakeup(r) \/ LoadCount(r) \/ StoreCount(r)
      PROVE  /\ \A d \in Records : Places(d)' = Expected(d)'
             /\ dropped' \ {Eos} \subseteq 1..record'
  <2>1. /\ UNCHANGED <<queue, file, dropped, record, data>>
        /\ \/ rpc' = rpc
           \/ rpc[r] = "load" /\ rpc' = [rpc EXCEPT ![r] = "store"]
           \/ rpc[r] = "store" /\ rpc' = [rpc EXCEPT ![r] = "reinsert"]
    BY <1>8 DEF Block, SpuriousWakeup, LoadCount, StoreCount
  <2>2. \A q \in Readers : rpc'[q] = "write" <=> rpc[q] = "write"
    BY <2>1, ReaderMoves
  <2>3. \A d \in Records : Holding(d)' = Holding(d)
    BY <2>1, <2>2 DEF Holding
  <2>4. ~Free
    BY <1>8 DEF Block, SpuriousWakeup, LoadCount, StoreCount, Free
  <2>5. QED
    BY <1>2, <2>1, <2>3, <2>4
<1>9. ASSUME NEW r \in Readers, Remove(r)
      PROVE  /\ \A d \in Records : Places(d)' = Expected(d)'
             /\ dropped' \ {Eos} \subseteq 1..record'
  <2>1. /\ queue # <<>> /\ queue' = Tail(queue) /\ UNCHANGED <<file, dropped, record>>
        /\ rpc[r] = "remove" /\ data' = [data EXCEPT ![r] = Head(queue)]
        /\ rpc' = [rpc EXCEPT ![r] = IF Head(queue) = Eos THEN "load" ELSE "write"]
    BY <1>9 DEF Remove
  <2>2. data'[r] = Head(queue) /\ \A q \in Readers \ {r} : data'[q] = data[q]
    BY <1>0, <2>1
  <2>3. ASSUME NEW d \in Records PROVE Places(d)' = Places(d)
    <3>1. Cardinality(Positions(queue, d)) =
            Cardinality(Positions(queue', d)) + (IF Head(queue) = d THEN 1 ELSE 0)
      BY <1>0, <2>1, TailPositions
    <3>2. Cardinality(Positions(queue', d)) \in Nat
      <4>1. Tail(queue) \in Seq(Records \cup {Eos})
        BY <1>0, <2>1
      <4>2. QED
        BY <2>1, <4>1, PositionsType
    <3>3. Cardinality(Holding(d)') = Cardinality(Holding(d)) + (IF Head(queue) = d THEN 1 ELSE 0)
      <4>1. CASE Head(queue) = d
        <5>1. Holding(d)' = Holding(d) \cup {r} /\ r \notin Holding(d)
          <6>1. rpc'[r] = "write" /\ \A q \in Readers \ {r} : rpc'[q] = rpc[q]
            BY <1>0, <2>1, <4>1, ReaderMoves
          <6>2. QED
            BY <2>1, <2>2, <4>1, <6>1 DEF Holding
        <5>2. QED
          BY <4>1, <5>1, PlacesType, FS_AddElement
      <4>2. CASE Head(queue) # d
        <5>1. Holding(d)' = Holding(d)
          BY <2>1, <2>2, <4>2, ReaderMoves DEF Holding
        <5>2. QED
          BY <4>2, <5>1, PlacesType
      <4>3. QED
        BY <4>1, <4>2
    <3>4. Positions(file', d) = Positions(file, d)
      BY <2>1 DEF Positions
    <3>5. QED
      BY <3>1, <3>2, <3>3, <3>4, PlacesType DEF Places
  <2>4. ASSUME NEW d \in Records PROVE Expected(d)' = Expected(d)
    <3>1. ~Free
      BY <1>9 DEF Remove, Free
    <3>2. QED
      BY <1>1, <2>1, <3>1 DEF Expected
  <2>5. QED
    BY <1>0, <2>1, <2>3, <2>4, PlacesType
<1>10. ASSUME NEW r \in Readers, WriteLine(r)
      PROVE  /\ \A d \in Records : Places(d)' = Expected(d)'
             /\ dropped' \ {Eos} \subseteq 1..record'
  <2>1. /\ rpc[r] = "write" /\ rpc' = [rpc EXCEPT ![r] = "remove"]
        /\ UNCHANGED <<queue, record, data>>
        /\ \/ file' = Append(file, data[r]) /\ UNCHANGED dropped
           \/ dropped' = dropped \cup {data[r]} /\ UNCHANGED file
    BY <1>10 DEF WriteLine
  <2>2. data[r] \in Records /\ ~Free /\ ~NeverRead
    BY <1>0, <1>10, <2>1, Now, AtWork DEF OneLeaves, WriteLine, Free
  <2>3. ASSUME NEW d \in Records
        PROVE  /\ Cardinality(Holding(d)) = Cardinality(Holding(d)') + (IF data[r] = d THEN 1 ELSE 0)
               /\ Cardinality(Holding(d)') \in Nat /\ Positions(queue', d) = Positions(queue, d)
    <3>1. CASE data[r] = d
      <4>1. Holding(d)' = Holding(d) \ {r} /\ r \in Holding(d) /\ Holding(d)' \in SUBSET Readers
        <5>1. rpc'[r] = "remove" /\ \A q \in Readers \ {r} : rpc'[q] = rpc[q]
          BY <2>1, ReaderMoves
        <5>2. QED
          BY <2>1, <3>1, <5>1 DEF Holding
      <4>2. Cardinality(Holding(d)') = Cardinality(Holding(d)) - 1
        BY <4>1, PlacesType, FS_RemoveElement
      <4>3. QED
        BY <2>1, <3>1, <4>1, <4>2, PlacesType, FiniteReaders
    <3>2. CASE data[r] # d
      <4>1. Holding(d)' = Holding(d)
        BY <2>1, <3>2, ReaderMoves DEF Holding
      <4>2. QED
        BY <2>1, <3>2, <4>1, PlacesType
    <3>3. QED
      BY <3>1, <3>2
  <2>4. CASE file' = Append(file, data[r]) /\ UNCHANGED dropped
    <3>1. ASSUME NEW d \in Records PROVE Places(d)' = Places(d)
      <4>1. Cardinality(Positions(file', d)) =
              Cardinality(Positions(file, d)) + (IF data[r] = d THEN 1 ELSE 0)
        BY <1>0, <2>2, <2>4, AppendPositions
      <4>2. QED
        BY <2>3, <4>1, PlacesType DEF Places
    <3>2. ASSUME NEW d \in Records PROVE Expected(d)' = Expected(d)
      BY <1>1, <2>1, <2>2, <2>4 DEF Expected
    <3>3. QED
      BY <1>0, <2>1, <2>4, <3>1, <3>2, PlacesType
  <2>5. CASE dropped' = dropped \cup {data[r]} /\ UNCHANGED file
    <3>1. ASSUME NEW d \in Records
          PROVE  Places(d) = Places(d)' + (IF data[r] = d THEN 1 ELSE 0) /\ Places(d)' \in Nat
      <4>1. Positions(queue', d) = Positions(queue, d) /\ Positions(file', d) = Positions(file, d)
        BY <2>3, <2>5 DEF Positions
      <4>2. QED
        BY <2>3, <4>1, PlacesType DEF Places
    <3>2. ASSUME NEW d \in Records, data[r] # d PROVE Places(d)' = Expected(d)'
      <4>1. Expected(d)' = Expected(d)
        BY <1>1, <2>1, <2>2, <2>5, <3>2 DEF Expected
      <4>2. QED
        BY <3>1, <3>2, <4>1, PlacesType
    <3>3. ASSUME NEW d \in Records, data[r] = d
          PROVE  Places(d)' = 0 /\ Expected(d)' = 0 /\ d <= record
      <4>1. Places(d) = 1 /\ d <= record
        BY <3>1, <3>3, PlacesType DEF Expected
      <4>2. d \in dropped'
        BY <2>5, <3>3
      <4>3. Expected(d)' = 0
        BY <4>2 DEF Expected
      <4>4. QED
        BY <3>1, <3>3, <4>1, <4>3
    <3>4. \A d \in Records : Places(d)' = Expected(d)'
      <4>1. ASSUME NEW d \in Records PROVE Places(d)' = Expected(d)'
        <5>1. CASE d = data[r]
          BY <3>3, <5>1
        <5>2. CASE d # data[r]
          BY <3>2, <5>2
        <5>3. QED
          BY <5>1, <5>2
      <4>2. QED
        BY <4>1
    <3>5. QED
      BY <1>0, <2>1, <2>2, <2>5, <3>3, <3>4 DEF Records
  <2>6. QED
    BY <2>1, <2>4, <2>5
<1>11. ASSUME NEW r \in Readers, Reinsert(r)
       PROVE  /\ \A d \in Records : Places(d)' = Expected(d)'
              /\ dropped' \ {Eos} \subseteq 1..record'
  <2>1. /\ rpc[r] = "reinsert" /\ rpc' = [rpc EXCEPT ![r] = "ended"]
        /\ UNCHANGED <<file, record, data>>
        /\ Insert(data[r]) \/ UNCHANGED <<queue, dropped>>
    BY <1>11 DEF Reinsert
  <2>2. data[r] = Eos
    BY <2>1, Now DEF OneLeaves, Leaving
  <2>3. \A d \in Records : Holding(d)' = Holding(d)
    BY <2>1, ReaderMoves DEF Holding
  <2>4. ~Free
    BY <1>11 DEF Reinsert, Free
  <2>5. QED
    BY <1>2, <1>6, <2>1, <2>2, <2>3, <2>4
<1>12. QED
  BY <1>3, <1>4, <1>5, <1>7, <1>8, <1>9, <1>10, <1>11
     DEF Next, Writer, Main, Reader, RemoveNothing

(* main waits for its threads, and nobody sets up the buffer again.        *)
LEMMA WaitStep ==
  ASSUME IInv, [Next]_vars
  PROVE  MainWaits' /\ NoReaderNoLine' /\ initialised' = initialised
<1> USE DEF listVars, bufferVars, writerVars, readerVars, mainVars
<1>0. TypeOK /\ MainWaits /\ NoReaderNoLine
  BY DEF IInv, EveryRecordOnce
<1>1. ASSUME NEW d, Insert(d) PROVE initialised' = initialised
  BY <1>1, InsertCases
<1>2. CASE Writer
  <2>1. wpc \notin {"ended", "not_created"} /\ UNCHANGED <<rpc, file, mpc, freed, initialised>>
    BY <1>1, <1>2 DEF Writer, OpenInput, WriteRecord, EndOfFile, WriteEos
  <2>2. QED
    BY <1>0, <2>1 DEF MainWaits, Joined, NoReaderNoLine
<1>3. CASE Main \/ UNCHANGED vars
  <2>1. UNCHANGED <<wpc, rpc, file, initialised>> /\ (mpc = "join" /\ mpc' # "join" => Join)
        /\ (mpc' = "join" => mpc = "join") /\ (freed' => freed \/ mpc' # "join")
    BY <1>3 DEF Main, Join, JoinNothing, OutputTest, Free, vars
  <2>2. QED
    BY <1>0, <2>1 DEF MainWaits, Joined, NoReaderNoLine, Join
<1>4. ASSUME NEW r \in Readers, Reader(r) \/ SpuriousWakeup(r)
      PROVE  MainWaits' /\ NoReaderNoLine' /\ initialised' = initialised
  <2>1. UNCHANGED <<wpc, mpc, freed, initialised>>
    BY <1>1, <1>4 DEF Reader, SpuriousWakeup, Remove, RemoveNothing, Block, WriteLine, LoadCount,
                      StoreCount, Reinsert
  <2>2. CASE UNCHANGED <<rpc, file>>
    BY <1>0, <2>1, <2>2 DEF MainWaits, NoReaderNoLine
  <2>3. ASSUME NEW to, rpc[r] \notin {"ended", "not_created"}, to # "not_created",
               rpc' = [rpc EXCEPT ![r] = to]
        PROVE  MainWaits' /\ NoReaderNoLine'
    <3>1. rpc'[r] = to
      BY <1>0, <2>3 DEF TypeOK
    <3>2. QED
      BY <1>0, <2>1, <2>3, <3>1 DEF MainWaits, Joined, NoReaderNoLine
  <2>4. CASE Block(r) \/ SpuriousWakeup(r)
    BY <2>1, <2>2, <2>4 DEF Block, SpuriousWakeup
  <2>5. CASE Remove(r) \/ RemoveNothing(r)
    BY <2>1, <2>3, <2>5 DEF Remove, RemoveNothing, RGoto
  <2>6. CASE WriteLine(r) \/ LoadCount(r) \/ StoreCount(r) \/ Reinsert(r)
    BY <2>1, <2>3, <2>6 DEF WriteLine, LoadCount, StoreCount, Reinsert, RGoto
  <2>7. QED
    BY <1>4, <2>4, <2>5, <2>6 DEF Reader
<1>5. QED
  BY <1>2, <1>3, <1>4 DEF Next

(* Without a buffer every insertion fails and nothing is written.          *)
LEMMA NothingStep ==
  ASSUME IInv, [Next]_vars, ~initialised
  PROVE  Nothing' /\ EveryRecordOnce' /\ (dropped \ {Eos} \subseteq 1..record)'
<1> USE DEF listVars, bufferVars, writerVars, readerVars, mainVars
<1>0. TypeOK /\ Nothing /\ dropped \ {Eos} \subseteq 1..record /\ TypeOK' /\ record \in Nat
  BY TypeStep DEF IInv, EveryRecordOnce, TypeOK
<1>1. ASSUME NEW d, Insert(d) PROVE queue' = queue /\ dropped' = dropped \cup {d}
  BY <1>1, InsertCases
<1>2. Nothing' /\ dropped' \ {Eos} \subseteq 1..record'
  <2>1. ASSUME UNCHANGED <<queue, file, dropped, record, data>>
        PROVE  Nothing' /\ dropped' \ {Eos} \subseteq 1..record'
    BY <1>0, <2>1 DEF Nothing
  <2>2. CASE WriteRecord
    <3>1. /\ UNCHANGED <<queue, file, data>> /\ record' = record + 1
          /\ dropped' = dropped \cup {record + 1}
      BY <1>1, <2>2 DEF WriteRecord
    <3>2. 1..record' = (1..record) \cup {record + 1}
      BY <1>0, <3>1
    <3>3. QED
      BY <1>0, <3>1, <3>2 DEF Nothing
  <2>3. ASSUME NEW d, d = Eos, Insert(d), UNCHANGED <<file, record, data>>
        PROVE  Nothing' /\ dropped' \ {Eos} \subseteq 1..record'
    BY <1>0, <1>1, <2>3 DEF Nothing
  <2>4. CASE WriteEos
    BY <2>3, <2>4 DEF WriteEos
  <2>5. CASE OpenInput \/ EndOfFile \/ Join \/ JoinNothing \/ OutputTest \/ UNCHANGED vars
    BY <2>1, <2>5 DEF OpenInput, EndOfFile, Join, JoinNothing, OutputTest, vars
  <2>6. CASE Free
    BY <1>0, <2>1, <2>6 DEF Free, Nothing
  <2>7. ASSUME NEW r \in Readers, Reader(r) \/ SpuriousWakeup(r)
        PROVE  Nothing' /\ dropped' \ {Eos} \subseteq 1..record'
    <3>1. CASE RemoveNothing(r) \/ Block(r) \/ SpuriousWakeup(r)
      BY <2>1, <3>1 DEF RemoveNothing, Block, SpuriousWakeup
    <3>2. CASE WriteLine(r)
      <4>1. UNCHANGED <<queue, file, dropped, record, data>>
        <5>1. UNCHANGED <<queue, file, record, data>> /\ (UNCHANGED dropped \/ dropped' = dropped \cup {data[r]})
          BY <3>2 DEF WriteLine
        <5>2. UNCHANGED dropped
          BY <3>2 DEF WriteLine
        <5>3. QED
          BY <5>1, <5>2
      <4>2. QED
        BY <2>1, <4>1
    <3>3. CASE LoadCount(r) \/ StoreCount(r)
      BY <2>1, <3>3 DEF LoadCount, StoreCount
    <3>4. CASE Reinsert(r)
      <4>1. data[r] = Eos
        BY <1>0 DEF Nothing
      <4>2. CASE Insert(data[r])
        BY <2>3, <3>4, <4>1, <4>2 DEF Reinsert
      <4>3. CASE UNCHANGED bufferVars
        BY <2>1, <3>4, <4>3 DEF Reinsert
      <4>4. QED
        BY <3>4, <4>2, <4>3 DEF Reinsert
    <3>5. QED
      BY <2>7, <3>1, <3>2, <3>3, <3>4 DEF Reader, Remove
  <2>8. QED
    BY <2>2, <2>4, <2>5, <2>6, <2>7 DEF Next, Writer, Main
<1>3. EveryRecordOnce'
  <2>1. ASSUME NEW d \in Records
        PROVE  /\ Cardinality(Positions(queue', d)) = 0 /\ Cardinality(Positions(file', d)) = 0
               /\ Cardinality(Holding(d)') = 0 /\ (d <= record' => d \in dropped')
    <3>1. Holding(d)' = {}
      BY <1>2 DEF Nothing, Holding, Records, Eos
    <3>2. d <= record' => d \in dropped'
      <4>1. d \in Nat \ {0} /\ record' \in Nat
        BY <1>0 DEF Records, TypeOK
      <4>2. QED
        BY <1>2, <4>1 DEF Nothing
    <3>3. QED
      BY <1>2, <3>1, <3>2, EmptyPositions, FS_EmptySet DEF Nothing
  <2>2. QED
    BY <1>0, <2>1 DEF EveryRecordOnce
<1>4. QED
  BY <1>2, <1>3

-----------------------------------------------------------------------------
(* The inductive invariant, for every number of readers and records.       *)
THEOREM Safety == SafeSpec => []IInv
<1>1. IInv /\ [Next]_vars => IInv'
  <2>1. ASSUME IInv, [Next]_vars PROVE MainWaits' /\ NoReaderNoLine' /\ initialised' = initialised
    BY <2>1, WaitStep
  <2>2. ASSUME IInv, [Next]_vars, initialised PROVE IInv'
    BY <2>1, <2>2, LeavesStep, CountStep, MarkerStep, OnceStep DEF IInv
  <2>3. ASSUME IInv, [Next]_vars, ~initialised PROVE IInv'
    BY <2>1, <2>3, NothingStep DEF IInv
  <2>4. QED
    BY <2>2, <2>3
<1>2. QED
  BY InitIInv, <1>1, PTL DEF SafeSpec

(* No record is lost, doubled or torn on its way through sbuffer_insert,   *)
(* sbuffer_remove and the output file, but by a call that failed for it,   *)
(* or in a buffer that is freed because no reader could be created.        *)
THEOREM NoneLost == SafeSpec => []EveryRecordOnce
<1>1. IInv => EveryRecordOnce
  BY DEF IInv
<1>2. QED
  BY Safety, <1>1, PTL

(* One marker stops every reader: reader_thread's hand-over of the end-of- *)
(* stream record and its unprotected counter are right.                    *)
THEOREM MarkerHandedOn == SafeSpec => []OneMarker
<1>1. IInv => OneMarker
  <2> SUFFICES ASSUME IInv, initialised PROVE OneMarker
    BY DEF OneMarker
  <2>1. Cardinality(Positions(queue, Eos)) = IF Marked THEN 1 ELSE 0
    <3>1. CASE Marked
      <4>1. Positions(queue, Eos) = {Len(queue)}
        BY <3>1, Now DEF Positions, OneLeaves, Marked
      <4>2. QED
        BY <3>1, <4>1, FS_Singleton
    <3>2. CASE ~Marked
      <4>1. Positions(queue, Eos) = {}
        BY <3>2 DEF Positions, Marked
      <4>2. QED
        BY <3>2, <4>1, FS_EmptySet
    <3>3. QED
      BY <3>1, <3>2
  <2>2. Cardinality(Leaving) = IF Leaving = {} THEN 0 ELSE 1
    <3>1. CASE Leaving = {}
      BY <3>1, FS_EmptySet
    <3>2. ASSUME NEW r \in Leaving PROVE Cardinality(Leaving) = 1
      <4>1. Leaving = {r}
        BY <3>2, Now DEF OneLeaves
      <4>2. QED
        BY <4>1, FS_Singleton
    <3>3. QED
      BY <3>1, <3>2
  <2>3. Leaving # {} => ~Marked
    <3>1. Leaving # {} => queue = <<>>
      BY Now DEF OneLeaves
    <3>2. QED
      BY <3>1 DEF Marked
  <2>4. Markers = IF Marked \/ Leaving # {} THEN 1 ELSE 0
    BY <2>1, <2>2, <2>3 DEF Markers
  <2>5. Marked \/ Leaving # {} <=> wpc = "ended" /\ Eos \notin dropped /\ ~freed /\ ~AllEnded
    <3>1. freed => ~Marked /\ Leaving = {}
      <4>1. freed => queue = <<>>
        BY Now DEF MarkerKept
      <4>2. freed => Leaving = {}
        BY Now DEF MainWaits, Joined, Leaving
      <4>3. QED
        BY <4>1, <4>2 DEF Marked
    <3>2. QED
      BY <3>1, Now, WriterFirst DEF MarkerKept
  <2>6. ~AllEnded <=> \E r \in Readers : rpc[r] # "ended"
    BY DEF AllEnded
  <2>7. mpc # "join" /\ (\A r \in Readers : rpc[r] # "not_created") => queue = <<>>
    BY Now DEF MainWaits, Joined, MarkerKept, AllEnded
  <2>8. mpc # "join" /\ (\E r \in Readers : rpc[r] # "not_created") =>
          \A i \in 1..Len(queue) : queue[i] = Eos
    BY Now DEF MainWaits, Joined, MarkerKept
  <2>9. Markers = IF wpc = "ended" /\ Eos \notin dropped /\ ~freed /\ \E r \in Readers : rpc[r] # "ended"
                  THEN 1 ELSE 0
    BY <2>4, <2>5, <2>6
  <2>10. QED
    BY <2>7, <2>8, <2>9, Now DEF OneMarker, OneLeaves, CountKept
<1>2. QED
  BY Safety, <1>1, PTL

(* Every step keeps the queue in order, behind all that has left it.       *)
LEMMA OrderStep == IInv /\ initialised /\ InOrder /\ [Next]_vars => InOrder'
<1> SUFFICES ASSUME IInv, initialised, InOrder, [Next]_vars PROVE InOrder'
  OBVIOUS
<1> USE DEF listVars, bufferVars, writerVars, readerVars, mainVars, RGoto
<1>0. /\ queue \in Seq(Records \cup {Eos}) /\ Len(queue) \in Nat /\ file \in Seq(Records)
      /\ record \in Nat /\ Records \subseteq Nat /\ Eos = 0
      /\ \A i \in 1..Len(queue) : queue[i] \in Nat
      /\ \A d \in Out : d \in Nat
  <2>1. TypeOK /\ OneLeaves
    BY Now
  <2>2. /\ queue \in Seq(Records \cup {Eos}) /\ Len(queue) \in Nat /\ file \in Seq(Records)
        /\ record \in Nat /\ Records \subseteq Nat /\ Eos = 0
        /\ data \in [Readers -> Records \cup {Eos}]
    BY <2>1 DEF TypeOK, Records, Eos
  <2>3. \A i \in 1..Len(queue) : queue[i] \in Nat
    <3>1. \A i \in 1..Len(queue) : queue[i] \in Records \cup {Eos}
      BY <2>2
    <3>2. Records \cup {Eos} \subseteq Nat
      BY DEF Records, Eos
    <3>3. QED
      BY <3>1, <3>2
  <2>4. \A d \in Out : d \in Nat
    <3>1. \A i \in 1..Len(file) : file[i] \in Records
      BY <2>2
    <3>2. \A d \in Out : d \in Records \cup {Eos}
      BY <2>2, <3>1 DEF Out
    <3>3. Records \cup {Eos} \subseteq Nat
      BY DEF Records, Eos
    <3>4. QED
      BY <3>2, <3>3
  <2>5. QED
    BY <2>2, <2>3, <2>4
<1>1. ASSUME UNCHANGED <<queue, record>>, Out' \subseteq Out PROVE InOrder'
  BY <1>1 DEF InOrder
<1>2. ASSUME NEW d \in {Eos, record + 1}, Insert(d), d = Eos \/ record' = record + 1,
             record' = record \/ record' = record + 1, Out' \subseteq Out
      PROVE  InOrder'
  <2>1. CASE queue' = queue
    BY <1>0, <1>2, <2>1 DEF InOrder
  <2>2. CASE queue' = Append(queue, d)
    <3>1. /\ Len(queue') = Len(queue) + 1 /\ queue'[Len(queue) + 1] = d
          /\ \A i \in 1..Len(queue) : queue'[i] = queue[i]
      BY <1>0, <2>2
    <3>2. /\ \A i \in 1..Len(queue) : queue[i] <= record /\ (d # Eos => queue[i] < d)
          /\ \A e \in Out : e <= record /\ (d # Eos => e < d)
      BY <1>0, <1>2 DEF InOrder
    <3>3. ASSUME NEW i \in 1..Len(queue'), NEW j \in 1..Len(queue'), i < j, queue'[j] # Eos
          PROVE  queue'[i] < queue'[j]
      <4>1. i \in 1..Len(queue) /\ queue'[i] = queue[i]
        BY <1>0, <3>1, <3>3
      <4>2. CASE j \in 1..Len(queue)
        <5>1. queue'[j] = queue[j]
          BY <3>1, <4>2
        <5>2. QED
          BY <3>3, <4>1, <4>2, <5>1 DEF InOrder
      <4>3. CASE j = Len(queue) + 1
        BY <3>1, <3>2, <3>3, <4>1, <4>3
      <4>4. QED
        BY <1>0, <3>1, <4>2, <4>3
    <3>4. \A i \in 1..Len(queue') : queue'[i] <= record'
      BY <1>0, <1>2, <3>1, <3>2
    <3>5. \A e \in Out' : e <= record' /\ \A i \in 1..Len(queue') : queue'[i] # Eos => e < queue'[i]
      BY <1>0, <1>2, <3>1, <3>2 DEF InOrder
    <3>6. QED
      BY <3>3, <3>4, <3>5 DEF InOrder
  <2>3. QED
    BY <1>2, <2>1, <2>2, InsertCases
<1>3. CASE OpenInput \/ EndOfFile \/ Join \/ JoinNothing \/ OutputTest \/ UNCHANGED vars
  BY <1>1, <1>3 DEF OpenInput, EndOfFile, Join, JoinNothing, OutputTest, vars, Out
<1>4. CASE Free
  <2>1. queue' = <<>> /\ record' = record /\ Out' = Out
    BY <1>4 DEF Free, Out
  <2>2. QED
    BY <2>1 DEF InOrder
<1>5. CASE WriteRecord
  <2>1. Insert(record + 1) /\ record' = record + 1 /\ Out' = Out
    BY <1>5 DEF WriteRecord, Out
  <2>2. QED
    BY <1>2, <2>1
<1>6. CASE WriteEos
  <2>1. Insert(Eos) /\ record' = record /\ Out' = Out
    BY <1>6 DEF WriteEos, Out
  <2>2. QED
    BY <1>2, <2>1
<1>7. ASSUME NEW r \in Readers, Block(r) \/ SpuriousWakeup(r) \/ LoadCount(r) \/ StoreCount(r)
      PROVE  InOrder'
  <2>1. /\ UNCHANGED <<queue, file, record, data>>
        /\ \/ rpc' = rpc
           \/ rpc[r] = "load" /\ rpc' = [rpc EXCEPT ![r] = "store"]
           \/ rpc[r] = "store" /\ rpc' = [rpc EXCEPT ![r] = "reinsert"]
    BY <1>7 DEF Block, SpuriousWakeup, LoadCount, StoreCount
  <2>2. \A q \in Readers : rpc'[q] = "write" <=> rpc[q] = "write"
    BY <2>1, ReaderMoves
  <2>3. Out' = Out
    BY <2>1, <2>2 DEF Out
  <2>4. QED
    BY <1>1, <2>1, <2>3
<1>8. ASSUME NEW r \in Readers, Remove(r) PROVE InOrder'
  <2>1. /\ queue # <<>> /\ queue' = Tail(queue) /\ UNCHANGED <<file, record>>
        /\ rpc[r] = "remove" /\ data' = [data EXCEPT ![r] = Head(queue)]
        /\ rpc' = [rpc EXCEPT ![r] = IF Head(queue) = Eos THEN "load" ELSE "write"]
    BY <1>8 DEF Remove
  <2>2. /\ Head(queue) = queue[1] /\ 1 \in 1..Len(queue) /\ Len(queue') = Len(queue) - 1
        /\ \A i \in 1..Len(queue') : queue'[i] = queue[i + 1] /\ i + 1 \in 1..Len(queue) /\ 1 < i + 1
    BY <1>0, <2>1, OnlyMarker
  <2>3. \A e \in Out' : e \in Out \/ (e = Head(queue) /\ e # Eos)
    <3>1. /\ data'[r] = Head(queue) /\ \A q \in Readers \ {r} : data'[q] = data[q]
      BY <2>1, Now
    <3>2. /\ rpc'[r] = "write" => Head(queue) # Eos
          /\ \A q \in Readers \ {r} : rpc'[q] = rpc[q]
      BY <2>1, ReaderMoves
    <3>3. QED
      BY <2>1, <3>1, <3>2 DEF Out
  <2>4. \A i \in 1..Len(queue') : queue'[i] <= record /\ (queue'[i] # Eos => Head(queue) < queue'[i])
    BY <2>2 DEF InOrder
  <2>5. ASSUME NEW i \in 1..Len(queue'), NEW j \in 1..Len(queue'), i < j, queue'[j] # Eos
        PROVE  queue'[i] < queue'[j]
    <3>1. i + 1 \in 1..Len(queue) /\ j + 1 \in 1..Len(queue) /\ i + 1 < j + 1
      BY <2>2, <2>5
    <3>2. queue'[i] = queue[i + 1] /\ queue'[j] = queue[j + 1]
      BY <2>2
    <3>3. QED
      BY <2>5, <3>1, <3>2 DEF InOrder
  <2>6. Head(queue) <= record
    BY <2>2 DEF InOrder
  <2>7. \A e \in Out : e <= record /\ \A i \in 1..Len(queue') : queue'[i] # Eos => e < queue'[i]
    BY <2>2 DEF InOrder
  <2>8. QED
    BY <2>1, <2>3, <2>4, <2>5, <2>6, <2>7 DEF InOrder
<1>9. ASSUME NEW r \in Readers, WriteLine(r) PROVE InOrder'
  <2>1. /\ rpc[r] = "write" /\ rpc' = [rpc EXCEPT ![r] = "remove"]
        /\ file' = file \/ file' = Append(file, data[r])
        /\ UNCHANGED <<queue, record, data>>
    BY <1>9 DEF WriteLine
  <2>2. \A i \in 1..Len(file') : file'[i] \in {file[j] : j \in 1..Len(file)} \cup {data[r]}
    <3>1. CASE file' = file
      BY <3>1
    <3>2. CASE file' = Append(file, data[r])
      BY <1>0, <3>2
    <3>3. QED
      BY <2>1, <3>1, <3>2
  <2>3. \A q \in Readers : rpc'[q] = "write" => rpc[q] = "write"
    BY <2>1, ReaderMoves
  <2>4. Out' \subseteq Out
    BY <2>1, <2>2, <2>3 DEF Out
  <2>5. QED
    BY <1>1, <2>1, <2>4
<1>10. ASSUME NEW r \in Readers, Reinsert(r) PROVE InOrder'
  <2>1. /\ rpc[r] = "reinsert" /\ rpc' = [rpc EXCEPT ![r] = "ended"]
        /\ UNCHANGED <<file, record, data>>
        /\ Insert(data[r]) \/ queue' = queue
    BY <1>10 DEF Reinsert
  <2>2. data[r] = Eos
    BY <2>1, Now DEF OneLeaves, Leaving
  <2>3. \A q \in Readers : rpc'[q] = "write" <=> rpc[q] = "write"
    BY <2>1, ReaderMoves
  <2>4. Out' = Out
    BY <2>1, <2>3 DEF Out
  <2>5. QED
    BY <1>1, <1>2, <2>1, <2>2, <2>4
<1>11. QED
  BY <1>3, <1>4, <1>5, <1>6, <1>7, <1>8, <1>9, <1>10
     DEF Next, Writer, Main, Reader, RemoveNothing

(* A record that a later one has overtaken on the way to the output file   *)
(* is in a reader's hands (sbuffer_remove and fprintf are not one step).   *)
THEOREM Overtaken == SafeSpec => []LateRecordsInHand
<1>1. Init => (initialised => InOrder)
  <2> SUFFICES ASSUME Init PROVE InOrder
    OBVIOUS
  <2>1. queue = <<>> /\ file = <<>> /\ \A r \in Readers : rpc[r] # "write"
    BY DEF Init
  <2>2. Out = {} /\ Len(queue) = 0
    BY <2>1 DEF Out
  <2>3. QED
    BY <2>2 DEF InOrder
<1>2. IInv /\ [Next]_vars /\ (initialised => InOrder) => (initialised => InOrder)'
  BY OrderStep, WaitStep
<1>3. IInv /\ (initialised => InOrder) => LateRecordsInHand
  <2>0. ASSUME IInv, ~initialised PROVE LateRecordsInHand
    BY <2>0 DEF IInv, Nothing, LateRecordsInHand
  <2> SUFFICES ASSUME IInv, initialised, InOrder, NEW i \in 1..Len(file), NEW d \in Records \ dropped,
                      d < file[i], Positions(file, d) = {}
               PROVE  Holding(d) # {}
    BY <2>0 DEF LateRecordsInHand
  <2>1. /\ file[i] \in Nat /\ file[i] \in Out /\ d \in Nat \ {0} /\ record \in Nat
    <3>1. file \in Seq(Records) /\ record \in Nat /\ Last \in Nat
      BY Now, DrainBufferAssumption DEF TypeOK
    <3>2. file[i] \in Records
      BY <3>1
    <3>3. QED
      BY <3>1, <3>2 DEF Records, Out
  <2>2. d <= record
    BY <2>1 DEF InOrder
  <2>3. Positions(queue, d) = {}
    <3>1. ASSUME NEW j \in 1..Len(queue), queue[j] = d PROVE FALSE
      <4>1. file[i] < d
        BY <2>1, <3>1 DEF InOrder, Eos
      <4>2. QED
        BY <2>1, <4>1
    <3>2. QED
      BY <3>1 DEF Positions
  <2>4. Cardinality(Positions(queue, d)) = 0 /\ Cardinality(Positions(file, d)) = 0
    BY <2>3, FS_EmptySet
  <2>5. Cardinality(Holding(d)) = 1
    <3>1. d \in Records /\ d \notin dropped /\ ~NeverRead
      <4>1. file # <<>>
        OBVIOUS
      <4>2. QED
        BY <4>1 DEF IInv, NoReaderNoLine, NeverRead
    <3>2. Places(d) = 1 /\ Cardinality(Holding(d)) \in Nat
      BY <2>2, <3>1, PlacesType DEF Expected
    <3>3. QED
      BY <2>4, <3>2 DEF Places
  <2>6. QED
    <3>1. IsFiniteSet(Holding(d))
      BY PlacesType
    <3>2. QED
      BY <2>5, <3>1, FS_EmptySet
<1>4. QED
  BY <1>1, <1>2, <1>3, Safety, PTL DEF SafeSpec

-----------------------------------------------------------------------------
(* How long the messages are that matter.                                  *)
LEMMA Lengths ==
  /\ Line("opened") = 49 /\ Line("attempt") = 58 /\ Line("inserted") = 46
  /\ Line("error") = 59 /\ Line("marker") = 48 /\ Length.marker = 17
  /\ ReadSize = 255 /\ First = {0, 49, 46, 59}
  /\ \A t \in DOMAIN Length : Line(t) \in Nat
BY DEF Line, First, Header, Length, ReadSize

(* Unread in numbers.                                                      *)
LEMMA UnreadIs ==
  ASSUME NEW rest, NEW shift, NEW n
  PROVE  Unread(rest, shift, n) <=>
           \E a, b \in 0..4, m \in 0..2, first \in {0, 49, 46, 59} :
             a + b <= n /\ rest = first + a * 104 + b * 117 + shift - m * 255
BY Lengths DEF Unread

(* A read of ReadSize bytes leaves the rest such a run of messages.        *)
LEMMA UnreadAfterRead ==
  ASSUME NEW rest \in Nat, NEW shift \in {0, 48, 58}, NEW n \in 0..4,
         Unread(rest, shift, n), rest >= 255
  PROVE  Unread(rest - 255, shift, n)
<1>1. PICK a \in 0..4, b \in 0..4, m \in 0..2, first \in {0, 49, 46, 59} :
        a + b <= n /\ rest = first + a * 104 + b * 117 + shift - m * 255
  BY UnreadIs
<1>2. m + 1 \in 0..2 /\ rest - 255 = first + a * 104 + b * 117 + shift - (m + 1) * 255
  BY <1>1
<1>3. QED
  BY <1>1, <1>2, UnreadIs

(* When the child has read everything, the run is empty ...                *)
LEMMA NothingUnread ==
  ASSUME NEW n \in Nat
  PROVE  Unread(0, 0, n) /\ Unread(49, 0, n) /\ Unread(46, 0, n) /\ Unread(59, 0, n)
<1> DEFINE R(first) == first = first + 0 * 104 + 0 * 117 + 0 - 0 * 255
<1>1. \A first \in {0, 49, 46, 59} : 0 + 0 <= n /\ R(first)
  OBVIOUS
<1>2. QED
  BY <1>1, UnreadIs

(* ... and the messages of an insertion make it longer.                    *)
LEMMA UnreadAfterWrite ==
  ASSUME NEW rest \in Int, NEW n \in 0..4
  PROVE  /\ Unread(rest, 0, n) => Unread(rest + 58, 58, n) /\ Unread(rest + 48, 48, n)
         /\ Unread(rest, 58, n) /\ n <= 3 =>
              Unread(rest + 46, 0, n + 1) /\ Unread(rest + 59, 0, n + 1)
<1>1. ASSUME Unread(rest, 0, n) PROVE Unread(rest + 58, 58, n) /\ Unread(rest + 48, 48, n)
  <2>1. PICK a \in 0..4, b \in 0..4, m \in 0..2, first \in {0, 49, 46, 59} :
          a + b <= n /\ rest = first + a * 104 + b * 117 + 0 - m * 255
    BY <1>1, UnreadIs
  <2>2. /\ rest + 58 = first + a * 104 + b * 117 + 58 - m * 255
        /\ rest + 48 = first + a * 104 + b * 117 + 48 - m * 255
    BY <2>1
  <2>3. QED
    BY <2>1, <2>2, UnreadIs
<1>2. ASSUME Unread(rest, 58, n), n <= 3 PROVE Unread(rest + 46, 0, n + 1) /\ Unread(rest + 59, 0, n + 1)
  <2>1. PICK a \in 0..4, b \in 0..4, m \in 0..2, first \in {0, 49, 46, 59} :
          a + b <= n /\ rest = first + a * 104 + b * 117 + 58 - m * 255
    BY <1>2, UnreadIs
  <2>2. /\ a + 1 \in 0..4 /\ b + 1 \in 0..4 /\ (a + 1) + b <= n + 1 /\ a + (b + 1) <= n + 1
        /\ rest + 46 = first + (a + 1) * 104 + b * 117 + 0 - m * 255
        /\ rest + 59 = first + a * 104 + (b + 1) * 117 + 0 - m * 255
    BY <1>2, <2>1
  <2>3. Unread(rest + 46, 0, n + 1)
    BY <2>1, <2>2, UnreadIs
  <2>4. Unread(rest + 59, 0, n + 1)
    BY <2>1, <2>2, UnreadIs
  <2>5. QED
    BY <2>3, <2>4
<1>3. QED
  BY <1>1, <1>2

(* With four insertions no read ends in front of the marker's text.        *)
LEMMA NeverSeventeen ==
  ASSUME NEW n \in 0..4
  PROVE  ~Unread(17, 48, n)
<1> SUFFICES ASSUME Unread(17, 48, n) PROVE FALSE
  OBVIOUS
<1>1. PICK a \in 0..4, b \in 0..4, m \in 0..2, first \in {0, 49, 46, 59} :
        a + b <= n /\ 17 = first + a * 104 + b * 117 + 48 - m * 255
  BY UnreadIs
<1>2. QED
  BY <1>1

-----------------------------------------------------------------------------
(* The lab 2 program starts in its invariant.                              *)
LEMMA InitLab2Inv == Lab2Init => Lab2Inv
<1> SUFFICES ASSUME Lab2Init PROVE Lab2Inv
  OBVIOUS
<1> USE LoggerLab2Assumption DEF Lab2Init
<1>1. Lab2TypeOK
  <2>1. /\ sent \in Seq((DOMAIN Length) \X (1..(Inserts + 1)))
        /\ buffered \in SUBSET (1..Inserts) /\ stored \in SUBSET (1..Inserts)
    OBVIOUS
  <2>2. pc \in Steps /\ k \in 1..(Inserts + 1) /\ written \in Nat /\ logged \in 0..written
    BY DEF Steps
  <2>3. f \in BOOLEAN /\ flushFailed \in BOOLEAN
    OBVIOUS
  <2>4. QED
    BY <2>1, <2>2, <2>3 DEF Lab2TypeOK
<1>2. ParentAt
  BY DEF ParentAt
<1>3. Reported /\ ChildStays /\ ReadsEnd
  BY DEF Reported, ChildStays, ReadsEnd, Ended
<1>4. QED
  BY <1>1, <1>2, <1>3 DEF Lab2Inv

(* What write_to_log_process does to the stream once there is a logger.    *)
LEMMA LogAppends ==
  ASSUME Lab2TypeOK, NEW text \in DOMAIN Length, Log(text)
  PROVE  /\ sent' \in Seq((DOMAIN Length) \X (1..(Inserts + 1))) /\ written' \in Nat
         /\ logged <= written /\ written <= written'
         /\ \A i \in DOMAIN sent' : \/ i \in DOMAIN sent /\ sent'[i] = sent[i]
                                    \/ sent'[i] = <<text, k>>
         /\ logger_pid = "0" => UNCHANGED stream
         /\ logger_pid # "0" => written' = written + Line(text) /\ sent'[Len(sent')] = <<text, k>>
<1>1. /\ sent \in Seq((DOMAIN Length) \X (1..(Inserts + 1))) /\ k \in 1..(Inserts + 1)
      /\ written \in Nat /\ logged \in Nat /\ logged <= written
  BY DEF Lab2TypeOK
<1>2. CASE logger_pid = "0"
  BY <1>1, <1>2 DEF Log, stream
<1>3. CASE logger_pid # "0"
  <2>0. Header \in Nat /\ Length[text] \in Nat
    BY DEF Header, Length
  <2>1. sent' = Append(sent, <<text, k>>) /\ written' = written + Line(text) /\ Line(text) \in Nat
    BY <1>1, <1>3, <2>0 DEF Log, Line
  <2> DEFINE S == (DOMAIN Length) \X (1..(Inserts + 1))
             e == <<text, k>>
  <2>2. e \in S /\ sent \in Seq(S)
    BY <1>1
  <2> HIDE DEF S, e
  <2>3. /\ Append(sent, e) \in Seq(S) /\ Append(sent, e)[Len(Append(sent, e))] = e
        /\ \A i \in DOMAIN Append(sent, e) :
             (i \in DOMAIN sent /\ Append(sent, e)[i] = sent[i]) \/ Append(sent, e)[i] = e
    BY <2>2
  <2>4. /\ sent' \in Seq(S) /\ sent'[Len(sent')] = e
        /\ \A i \in DOMAIN sent' : (i \in DOMAIN sent /\ sent'[i] = sent[i]) \/ sent'[i] = e
    BY <2>1, <2>3 DEF e
  <2>5. QED
    BY <1>1, <1>3, <2>1, <2>4 DEF S, e
<1>4. QED
  BY <1>2, <1>3

(* Every step of the program keeps the types.                              *)
LEMMA Lab2TypeStep == Lab2Inv /\ [Lab2Next]_lab2Vars => Lab2TypeOK'
<1> SUFFICES ASSUME Lab2Inv, [Lab2Next]_lab2Vars PROVE Lab2TypeOK'
  OBVIOUS
<1> USE LoggerLab2Assumption DEF dataFile, logger, Steps, Ended, Broken
<1>0. Lab2TypeOK /\ ParentAt /\ ChildStays
  BY DEF Lab2Inv
<1>1. CASE CreateLogProcess
  BY <1>0, <1>1 DEF CreateLogProcess, Lab2TypeOK, ParentAt, stream
<1>2. CASE OpenDb
  <2>1. Log("opened") \/ Log("noopen")
    BY <1>2 DEF OpenDb
  <2>2. /\ sent' \in Seq((DOMAIN Length) \X (1..(Inserts + 1))) /\ written' \in Nat
        /\ logged <= written /\ written <= written'
    BY <1>0, <2>1, LogAppends DEF Length
  <2>3. /\ pc' = "attempt" /\ f' \in BOOLEAN
        /\ UNCHANGED <<k, buffered, stored, flushFailed, logger_pid, child, logged>>
    BY <1>0, <1>2 DEF OpenDb, Lab2TypeOK
  <2>4. QED
    BY <1>0, <2>2, <2>3 DEF Lab2TypeOK
<1>3. CASE Attempt
  <2>1. Log("null") \/ Log("attempt")
    BY <1>3 DEF Attempt
  <2>2. /\ sent' \in Seq((DOMAIN Length) \X (1..(Inserts + 1))) /\ written' \in Nat
        /\ logged <= written /\ written <= written'
    BY <1>0, <2>1, LogAppends DEF Length
  <2>3. k \in 1..Inserts
    BY <1>0, <1>3 DEF Attempt, Lab2TypeOK, ParentAt
  <2>4. pc' \in Steps /\ k' \in 1..(Inserts + 1)
    BY <1>3, <2>3 DEF Attempt, NextRecord
  <2>5. buffered' \in SUBSET (1..Inserts)
    <3>1. buffered' = buffered \/ buffered' = buffered \cup {k}
      BY <1>3 DEF Attempt
    <3>2. QED
      BY <1>0, <2>3, <3>1 DEF Lab2TypeOK
  <2>6. UNCHANGED <<f, stored, flushFailed, logger_pid, child, logged>>
    BY <1>3 DEF Attempt
  <2>7. QED
    BY <1>0, <2>2, <2>4, <2>5, <2>6 DEF Lab2TypeOK
<1>4. CASE Report
  <2>1. Log("inserted") \/ Log("error")
    BY <1>4 DEF Report
  <2>2. /\ sent' \in Seq((DOMAIN Length) \X (1..(Inserts + 1))) /\ written' \in Nat
        /\ logged <= written /\ written <= written'
    BY <1>0, <2>1, LogAppends DEF Length
  <2>3. k \in 1..Inserts
    BY <1>0, <1>4 DEF Report, Lab2TypeOK, ParentAt
  <2>4. QED
    BY <1>0, <1>4, <2>2, <2>3 DEF Report, NextRecord, Lab2TypeOK, ParentAt
<1>5. CASE FlushRecord
  <2>1. k \in 1..Inserts
    BY <1>0, <1>5 DEF FlushRecord, Lab2TypeOK, ParentAt
  <2>2. pc' \in Steps /\ k' \in 1..(Inserts + 1) /\ UNCHANGED <<f, sent, written, logger_pid, child, logged>>
    BY <1>5, <2>1 DEF FlushRecord, NextRecord, stream
  <2>3. /\ stored' \in SUBSET (1..Inserts) /\ buffered' \in SUBSET (1..Inserts)
        /\ flushFailed' \in BOOLEAN
    BY <1>0, <1>5 DEF FlushRecord, Flushed, FlushFails, Lab2TypeOK
  <2>4. QED
    BY <1>0, <2>2, <2>3 DEF Lab2TypeOK
<1>6. CASE CloseDb
  <2>1. CASE Log("nullclose") /\ ~f /\ pc = "close" /\ pc' = "returned"
             /\ UNCHANGED <<k, dataFile, logger>>
    <3>1. /\ sent' \in Seq((DOMAIN Length) \X (1..(Inserts + 1))) /\ written' \in Nat
          /\ logged <= written /\ written <= written'
      BY <1>0, <2>1, LogAppends DEF Length
    <3>2. QED
      BY <1>0, <2>1, <3>1 DEF Lab2TypeOK, ParentAt
  <2>2. CASE f /\ Flushed /\ pc = "close" /\ pc' = "fclose" /\ UNCHANGED <<f, k, stream, logger>>
    BY <1>0, <2>2 DEF Flushed, Lab2TypeOK, ParentAt, stream
  <2>3. CASE f /\ FlushFails /\ pc = "close" /\ pc' = "noflush" /\ UNCHANGED <<f, k, stream, logger>>
    BY <1>0, <2>3 DEF FlushFails, Lab2TypeOK, ParentAt, stream
  <2>4. QED
    BY <1>6, <2>1, <2>2, <2>3 DEF CloseDb
<1>7. CASE CloseFile
  BY <1>0, <1>7 DEF CloseFile, Lab2TypeOK, ParentAt, stream
<1>8. CASE GiveUp
  <2>1. Log("noflush") \/ Log("noclose")
    BY <1>8 DEF GiveUp
  <2>2. /\ sent' \in Seq((DOMAIN Length) \X (1..(Inserts + 1))) /\ written' \in Nat
        /\ logged <= written /\ written <= written'
    BY <1>0, <2>1, LogAppends DEF Length
  <2>3. /\ pc' = "returned" /\ f' \in BOOLEAN
        /\ buffered' \in SUBSET (1..Inserts) /\ stored' \in SUBSET (1..Inserts)
        /\ UNCHANGED <<k, flushFailed, logger_pid, child, logged>>
    BY <1>0, <1>8 DEF GiveUp, Lab2TypeOK
  <2>4. QED
    BY <1>0, <2>2, <2>3 DEF Lab2TypeOK
<1>9. CASE SendMarker
  <2>1. /\ sent' \in Seq((DOMAIN Length) \X (1..(Inserts + 1))) /\ written' \in Nat
        /\ logged <= written /\ written <= written'
    BY <1>0, <1>9, LogAppends DEF SendMarker, Length
  <2>2. QED
    BY <1>0, <1>9, <2>1 DEF SendMarker, Lab2TypeOK, ParentAt
<1>10. CASE ClosePipe \/ WaitPid
  BY <1>0, <1>10 DEF ClosePipe, WaitPid, Lab2TypeOK, ParentAt, stream
<1>11. CASE Killed
  BY <1>0, <1>11 DEF Killed, Lab2TypeOK, ParentAt, stream
<1>12. CASE ChildStarts
  BY <1>0, <1>12 DEF ChildStarts, Lab2TypeOK, ParentAt, stream
<1>13. CASE ChildReads
  <2>1. logged' \in 0..written
    BY <1>0, <1>13 DEF ChildReads, Lab2TypeOK, ReadSize
  <2>2. child' \in {"reading", "gone"} /\ child = "reading"
    BY <1>13 DEF ChildReads
  <2>3. QED
    BY <1>0, <1>13, <2>1, <2>2 DEF ChildReads, Lab2TypeOK, ParentAt, stream
<1>14. CASE ChildAtEof \/ AstrayReturns
  BY <1>0, <1>14 DEF ChildAtEof, AstrayReturns, Lab2TypeOK, ParentAt, stream
<1>15. CASE UNCHANGED lab2Vars
  BY <1>0, <1>15 DEF lab2Vars, Lab2TypeOK, ParentAt, stream
<1>16. QED
  BY <1>1, <1>2, <1>3, <1>4, <1>5, <1>6, <1>7, <1>8, <1>9, <1>10, <1>11, <1>12, <1>13, <1>14, <1>15
     DEF Lab2Next, Parent, Child
(* ... and the account of where the parent is.                             *)
LEMMA Lab2ParentStep == Lab2Inv /\ [Lab2Next]_lab2Vars => ParentAt'
<1> SUFFICES ASSUME Lab2Inv, [Lab2Next]_lab2Vars PROVE ParentAt'
  OBVIOUS
<1> USE LoggerLab2Assumption DEF dataFile, logger, Steps, Ended, Broken
<1>0. Lab2TypeOK /\ ParentAt /\ ChildStays
  BY DEF Lab2Inv
<1>1. CASE CreateLogProcess
  BY <1>0, <1>1 DEF CreateLogProcess, Lab2TypeOK, ParentAt, stream
<1>2. CASE OpenDb
  <2>1. Log("opened") \/ Log("noopen")
    BY <1>2 DEF OpenDb
  <2>2. /\ sent' \in Seq((DOMAIN Length) \X (1..(Inserts + 1))) /\ written' \in Nat
        /\ logged <= written /\ written <= written'
    BY <1>0, <2>1, LogAppends DEF Length
  <2>3. pc' = "attempt" /\ k' = k /\ logger_pid' = logger_pid /\ child' = child
    BY <1>0, <1>2 DEF OpenDb
  <2>4. k = 1 /\ logger_pid = "child"
    BY <1>0, <1>2 DEF OpenDb, ParentAt
  <2>5. QED
    BY <1>0, <2>3, <2>4 DEF ParentAt
<1>3. CASE Attempt
  <2>1. Log("null") \/ Log("attempt")
    BY <1>3 DEF Attempt
  <2>2. /\ sent' \in Seq((DOMAIN Length) \X (1..(Inserts + 1))) /\ written' \in Nat
        /\ logged <= written /\ written <= written'
    BY <1>0, <2>1, LogAppends DEF Length
  <2>3. k \in 1..Inserts
    BY <1>0, <1>3 DEF Attempt, Lab2TypeOK, ParentAt
  <2>4. QED
    BY <1>0, <1>3, <2>2, <2>3 DEF Attempt, NextRecord, Lab2TypeOK, ParentAt
<1>4. CASE Report
  <2>1. Log("inserted") \/ Log("error")
    BY <1>4 DEF Report
  <2>2. /\ sent' \in Seq((DOMAIN Length) \X (1..(Inserts + 1))) /\ written' \in Nat
        /\ logged <= written /\ written <= written'
    BY <1>0, <2>1, LogAppends DEF Length
  <2>3. k \in 1..Inserts
    BY <1>0, <1>4 DEF Report, Lab2TypeOK, ParentAt
  <2>4. QED
    BY <1>0, <1>4, <2>2, <2>3 DEF Report, NextRecord, Lab2TypeOK, ParentAt
<1>5. CASE FlushRecord
  <2>1. k \in 1..Inserts
    BY <1>0, <1>5 DEF FlushRecord, Lab2TypeOK, ParentAt
  <2>2. QED
    BY <1>0, <1>5, <2>1
       DEF FlushRecord, Flushed, FlushFails, NextRecord, Lab2TypeOK, ParentAt, stream
<1>6. CASE CloseDb
  <2>1. CASE Log("nullclose") /\ ~f /\ pc = "close" /\ pc' = "returned"
             /\ UNCHANGED <<k, dataFile, logger>>
    <3>1. /\ sent' \in Seq((DOMAIN Length) \X (1..(Inserts + 1))) /\ written' \in Nat
          /\ logged <= written /\ written <= written'
      BY <1>0, <2>1, LogAppends DEF Length
    <3>2. QED
      BY <1>0, <2>1, <3>1 DEF Lab2TypeOK, ParentAt
  <2>2. CASE f /\ Flushed /\ pc = "close" /\ pc' = "fclose" /\ UNCHANGED <<f, k, stream, logger>>
    BY <1>0, <2>2 DEF Flushed, Lab2TypeOK, ParentAt, stream
  <2>3. CASE f /\ FlushFails /\ pc = "close" /\ pc' = "noflush" /\ UNCHANGED <<f, k, stream, logger>>
    BY <1>0, <2>3 DEF FlushFails, Lab2TypeOK, ParentAt, stream
  <2>4. QED
    BY <1>6, <2>1, <2>2, <2>3 DEF CloseDb
<1>7. CASE CloseFile
  BY <1>0, <1>7 DEF CloseFile, Lab2TypeOK, ParentAt, stream
<1>8. CASE GiveUp
  <2>1. Log("noflush") \/ Log("noclose")
    BY <1>8 DEF GiveUp
  <2>2. /\ sent' \in Seq((DOMAIN Length) \X (1..(Inserts + 1))) /\ written' \in Nat
        /\ logged <= written /\ written <= written'
    BY <1>0, <2>1, LogAppends DEF Length
  <2>3. QED
    BY <1>0, <1>8, <2>2 DEF GiveUp, Lab2TypeOK, ParentAt
<1>9. CASE SendMarker
  <2>1. /\ sent' \in Seq((DOMAIN Length) \X (1..(Inserts + 1))) /\ written' \in Nat
        /\ logged <= written /\ written <= written'
    BY <1>0, <1>9, LogAppends DEF SendMarker, Length
  <2>2. QED
    BY <1>0, <1>9, <2>1 DEF SendMarker, Lab2TypeOK, ParentAt
<1>10. CASE ClosePipe \/ WaitPid
  BY <1>0, <1>10 DEF ClosePipe, WaitPid, Lab2TypeOK, ParentAt, stream
<1>11. CASE Killed
  BY <1>0, <1>11 DEF Killed, Lab2TypeOK, ParentAt, stream
<1>12. CASE ChildStarts
  BY <1>0, <1>12 DEF ChildStarts, Lab2TypeOK, ParentAt, stream
<1>13. CASE ChildReads
  <2>1. logged' \in 0..written
    BY <1>0, <1>13 DEF ChildReads, Lab2TypeOK, ReadSize
  <2>2. child' \in {"reading", "gone"} /\ child = "reading"
    BY <1>13 DEF ChildReads
  <2>3. QED
    BY <1>0, <1>13, <2>1, <2>2 DEF ChildReads, Lab2TypeOK, ParentAt, stream
<1>14. CASE ChildAtEof \/ AstrayReturns
  BY <1>0, <1>14 DEF ChildAtEof, AstrayReturns, Lab2TypeOK, ParentAt, stream
<1>15. CASE UNCHANGED lab2Vars
  BY <1>0, <1>15 DEF lab2Vars, Lab2TypeOK, ParentAt, stream
<1>16. QED
  BY <1>1, <1>2, <1>3, <1>4, <1>5, <1>6, <1>7, <1>8, <1>9, <1>10, <1>11, <1>12, <1>13, <1>14, <1>15
     DEF Lab2Next, Parent, Child

(* An insertion that was reported stays in the data file or its buffer.    *)
LEMMA ReportedStep == Lab2Inv /\ [Lab2Next]_lab2Vars => Reported'
<1> SUFFICES ASSUME Lab2Inv, [Lab2Next]_lab2Vars PROVE Reported'
  OBVIOUS
<1> USE DEF dataFile, logger
<1>0. Lab2TypeOK /\ Reported
  BY DEF Lab2Inv
<1>1. ASSUME UNCHANGED sent, flushFailed' = flushFailed \/ flushFailed',
             stored \subseteq stored',
             \/ UNCHANGED <<pc, buffered>>
             \/ pc # "flush"
             \/ buffered \subseteq stored' \/ flushFailed'
      PROVE  Reported'
  BY <1>0, <1>1 DEF Reported
<1>2. ASSUME NEW text \in DOMAIN Length, Log(text), pc # "flush", UNCHANGED flushFailed,
             stored \subseteq stored',
             text = "inserted" => pc' = "flush" /\ k \in buffered'
      PROVE  Reported'
  <2> SUFFICES ASSUME NEW i \in DOMAIN sent', sent'[i][1] = "inserted"
               PROVE  sent'[i][2] \in stored' \/ flushFailed' \/ (pc' = "flush" /\ sent'[i][2] \in buffered')
    BY DEF Reported
  <2>1. CASE i \in DOMAIN sent /\ sent'[i] = sent[i]
    BY <1>0, <1>2, <2>1 DEF Reported
  <2>2. CASE sent'[i] = <<text, k>>
    BY <1>2, <2>2
  <2>3. QED
    BY <1>0, <1>2, <2>1, <2>2, LogAppends
<1>3. CASE CreateLogProcess \/ CloseFile \/ ClosePipe \/ WaitPid
  BY <1>1, <1>3 DEF CreateLogProcess, CloseFile, ClosePipe, WaitPid, stream
<1>4. CASE OpenDb
  BY <1>2, <1>4 DEF OpenDb, Length
<1>5. CASE Attempt
  BY <1>2, <1>5 DEF Attempt, Length
<1>6. CASE Report
  BY <1>2, <1>6 DEF Report, Length
<1>7. CASE FlushRecord
  BY <1>1, <1>7 DEF FlushRecord, Flushed, FlushFails, stream
<1>8. CASE CloseDb
  <2>1. CASE Log("nullclose") /\ pc = "close" /\ UNCHANGED dataFile
    BY <1>2, <2>1 DEF Length
  <2>2. CASE (Flushed \/ FlushFails) /\ pc = "close" /\ UNCHANGED stream
    BY <1>1, <1>8, <2>2 DEF CloseDb, Flushed, FlushFails, stream
  <2>3. QED
    BY <1>8, <2>1, <2>2 DEF CloseDb
<1>9. CASE GiveUp
  <2>1. stored \subseteq stored' /\ UNCHANGED flushFailed /\ pc \in {"noflush", "noclose"} /\ Log(pc)
    BY <1>9 DEF GiveUp
  <2>2. QED
    BY <1>2, <2>1 DEF Length
<1>10. CASE SendMarker
  BY <1>2, <1>10 DEF SendMarker, Length
<1>11. CASE Killed
  BY <1>1, <1>11 DEF Killed, stream
<1>12. CASE Child
  BY <1>1, <1>12 DEF Child, ChildStarts, ChildReads, ChildAtEof, AstrayReturns, stream
<1>13. CASE UNCHANGED lab2Vars
  BY <1>1, <1>13 DEF lab2Vars, stream
<1>14. QED
  BY <1>3, <1>4, <1>5, <1>6, <1>7, <1>8, <1>9, <1>10, <1>11, <1>12, <1>13 DEF Lab2Next, Parent

(* Where a read of the marker alone would end the child, none ends.        *)
LEMMA MarkerNotAlone == Lab2Inv => ~MarkerAlone
<1> SUFFICES ASSUME Lab2Inv, MarkerAlone PROVE FALSE
  OBVIOUS
<1>1. /\ sent \in Seq((DOMAIN Length) \X (1..(Inserts + 1))) /\ Len(sent) \in DOMAIN sent
      /\ sent[Len(sent)][1] = "marker" /\ Rest = 17 /\ k \in 1..(Inserts + 1) /\ k - 1 \in 0..4
  BY LoggerLab2Assumption, Lengths DEF MarkerAlone, Lab2Inv, Lab2TypeOK, Rest
<1>2. pc \in {"pipe", "wait", "closed"}
  BY <1>1 DEF Lab2Inv, ChildStays
<1>3. Unread(17, 48, k - 1)
  BY <1>1, <1>2, Lengths DEF Lab2Inv, ReadsEnd
<1>4. QED
  BY <1>1, <1>3, NeverSeventeen

(* The child stays with the pipe until the parent has closed it.           *)
LEMMA ChildStaysStep == Lab2Inv /\ [Lab2Next]_lab2Vars => ChildStays'
<1> SUFFICES ASSUME Lab2Inv, [Lab2Next]_lab2Vars PROVE ChildStays'
  OBVIOUS
<1> USE DEF dataFile, logger, Ended
<1>0. Lab2TypeOK /\ ParentAt /\ ChildStays /\ ~MarkerAlone
  BY MarkerNotAlone DEF Lab2Inv
<1>1. ASSUME UNCHANGED <<stream, logged, child>>, pc' = pc \/ (pc \notin {"closed", "wait"} \cup Ended
               /\ pc' \notin {"killed", "closed"} /\ pc # "pipe")
      PROVE  ChildStays'
  BY <1>0, <1>1 DEF ChildStays, stream
<1>2. ASSUME NEW text \in DOMAIN Length, Log(text), UNCHANGED <<logged, child>>,
             pc \notin {"pipe", "wait"} \cup Ended, pc' \notin {"killed", "closed"},
             text = "marker" => pc' = "pipe"
      PROVE  ChildStays'
  <2>1. child # "gone"
    BY <1>0, <1>2 DEF ChildStays
  <2>2. ASSUME NEW i \in DOMAIN sent', sent'[i][1] = "marker"
        PROVE  pc' \in {"pipe", "wait", "closed"}
    <3>1. CASE i \in DOMAIN sent /\ sent'[i] = sent[i]
      BY <1>0, <1>2, <2>2, <3>1 DEF ChildStays
    <3>2. CASE sent'[i] = <<text, k>>
      BY <1>2, <2>2, <3>2
    <3>3. QED
      BY <1>0, <1>2, <3>1, <3>2, LogAppends
  <2>3. QED
    BY <1>2, <2>1, <2>2 DEF ChildStays
<1>3. CASE CreateLogProcess
  BY <1>0, <1>3 DEF CreateLogProcess, ParentAt, ChildStays, stream
<1>4. CASE OpenDb
  BY <1>2, <1>4 DEF OpenDb, Length
<1>5. CASE Attempt
  BY <1>2, <1>5 DEF Attempt, NextRecord, Length
<1>6. CASE Report
  BY <1>2, <1>6 DEF Report, NextRecord, Length
<1>7. CASE FlushRecord \/ CloseFile
  BY <1>1, <1>7 DEF FlushRecord, NextRecord, CloseFile
<1>8. CASE CloseDb
  <2>1. CASE Log("nullclose") /\ pc = "close" /\ pc' = "returned" /\ UNCHANGED <<logged, child>>
    BY <1>2, <2>1 DEF Length
  <2>2. CASE pc = "close" /\ pc' \in {"fclose", "noflush"} /\ UNCHANGED <<stream, logged, child>>
    BY <1>1, <2>2
  <2>3. QED
    BY <1>8, <2>1, <2>2 DEF CloseDb
<1>9. CASE GiveUp
  BY <1>2, <1>9 DEF GiveUp, Length
<1>10. CASE SendMarker
  BY <1>2, <1>10 DEF SendMarker, Length
<1>11. CASE ClosePipe \/ WaitPid
  BY <1>0, <1>11 DEF ClosePipe, WaitPid, ChildStays, stream
<1>12. CASE Killed
  BY <1>0, <1>12 DEF Killed, Broken, ChildStays, stream
<1>13. CASE Child
  BY <1>0, <1>13
     DEF Child, ChildStarts, ChildReads, ChildAtEof, WriteEndOpen, AstrayReturns, ChildStays, stream
<1>14. CASE UNCHANGED lab2Vars
  BY <1>1, <1>14 DEF lab2Vars
<1>15. QED
  BY <1>3, <1>4, <1>5, <1>6, <1>7, <1>8, <1>9, <1>10, <1>11, <1>12, <1>13, <1>14 DEF Lab2Next, Parent

(* Every read, and every message, keeps what is known of the rest.         *)
LEMMA ReadsEndStep == Lab2Inv /\ [Lab2Next]_lab2Vars => ReadsEnd'
<1> SUFFICES ASSUME Lab2Inv, [Lab2Next]_lab2Vars PROVE ReadsEnd'
  OBVIOUS
<1> USE LoggerLab2Assumption DEF dataFile, logger
<1>0. /\ Lab2TypeOK /\ ParentAt /\ ReadsEnd /\ ~MarkerAlone
      /\ Inserts \in 1..4 /\ k \in 1..(Inserts + 1) /\ k - 1 \in 0..4
      /\ written \in Nat /\ logged \in Nat /\ logged <= written /\ Rest \in Nat
  BY MarkerNotAlone DEF Lab2Inv, Lab2TypeOK, Rest
<1>1. ASSUME NEW text \in DOMAIN Length, Log(text), UNCHANGED logged, logger_pid = "child"
      PROVE  Rest' = Rest + Line(text)
  BY <1>0, <1>1, LogAppends, Lengths DEF Rest
<1>2. CASE CreateLogProcess
  BY <1>0, <1>2 DEF CreateLogProcess, ParentAt, ReadsEnd
<1>3. CASE OpenDb
  <2>1. /\ pc = "open" /\ pc' = "attempt" /\ UNCHANGED <<k, logged>> /\ k = 1
        /\ Rest = 0 /\ logger_pid = "child"
    BY <1>0, <1>3 DEF OpenDb, ParentAt, Rest
  <2>2. CASE f' = TRUE /\ Log("opened")
    <3>1. Rest' = 49
      BY <1>1, <2>1, <2>2, Lengths DEF Length
    <3>2. QED
      BY <2>1, <3>1, NothingUnread DEF ReadsEnd
  <2>3. CASE f' = f
    BY <1>0, <1>3, <2>1, <2>3 DEF ReadsEnd, ParentAt
  <2>4. QED
    BY <1>3, <2>2, <2>3 DEF OpenDb
<1>4. CASE Attempt
  <2>1. CASE ~f
    BY <1>4, <2>1 DEF Attempt, NextRecord, ReadsEnd
  <2>2. CASE f
    <3>1. pc = "attempt" /\ pc' = "report" /\ UNCHANGED <<k, logged>> /\ Log("attempt")
      BY <1>4, <2>2 DEF Attempt
    <3>2. Rest' = Rest + 58 /\ Unread(Rest, 0, k - 1)
      BY <1>0, <1>1, <2>2, <3>1, Lengths DEF ParentAt, ReadsEnd, Length
    <3>3. Unread(Rest', 58, k' - 1)
      BY <1>0, <3>1, <3>2, UnreadAfterWrite
    <3>4. QED
      BY <3>1, <3>3, Lengths DEF ReadsEnd
  <2>3. QED
    BY <2>1, <2>2
<1>5. CASE Report
  <2>1. /\ pc = "report" /\ UNCHANGED <<f, logged>> /\ f /\ logger_pid = "child" /\ k <= Inserts
        /\ Rest = 0 \/ Unread(Rest, 58, k - 1)
    BY <1>0, <1>5, Lengths DEF Report, ParentAt, ReadsEnd
  <2>2. k - 1 \in 0..3 /\ k - 1 + 1 = k /\ k \in Nat
    BY <1>0, <2>1
  <2>3. CASE Log("inserted") /\ pc' = "flush" /\ UNCHANGED k
    <3>1. Rest' = Rest + 46
      BY <1>1, <2>1, <2>3, Lengths DEF Length
    <3>2. Unread(Rest', 0, k)
      <4>1. CASE Rest = 0
        BY <2>2, <3>1, <4>1, NothingUnread
      <4>2. CASE Unread(Rest, 58, k - 1)
        BY <1>0, <2>2, <3>1, <4>2, UnreadAfterWrite
      <4>3. QED
        BY <2>1, <4>1, <4>2
    <3>3. QED
      BY <2>3, <3>2 DEF ReadsEnd
  <2>4. CASE Log("error") /\ NextRecord
    <3>1. Rest' = Rest + 59 /\ k' = k + 1 /\ pc' \in {"attempt", "close"}
      BY <1>1, <2>1, <2>4, Lengths DEF Length, NextRecord
    <3>2. Unread(Rest', 0, k)
      <4>1. CASE Rest = 0
        BY <2>2, <3>1, <4>1, NothingUnread
      <4>2. CASE Unread(Rest, 58, k - 1)
        BY <1>0, <2>2, <3>1, <4>2, UnreadAfterWrite
      <4>3. QED
        BY <2>1, <4>1, <4>2
    <3>3. k' - 1 = k
      BY <1>0, <3>1
    <3>4. QED
      BY <3>1, <3>2, <3>3 DEF ReadsEnd
  <2>5. QED
    BY <1>5, <2>3, <2>4 DEF Report
<1>6. CASE FlushRecord
  <2>1. pc = "flush" /\ pc' \in {"attempt", "close"} /\ k' = k + 1 /\ Rest' = Rest
    BY <1>6 DEF FlushRecord, NextRecord, Rest, stream
  <2>2. k' - 1 = k
    BY <1>0, <2>1
  <2>3. QED
    BY <1>0, <2>1, <2>2 DEF ReadsEnd
<1>7. CASE CloseDb
  <2>1. CASE pc' = "fclose" /\ pc = "close" /\ f /\ UNCHANGED <<f, k, stream, logged>>
    BY <1>0, <2>1 DEF ReadsEnd, Rest, stream
  <2>2. CASE pc' \in {"noflush", "returned"}
    BY <2>2 DEF ReadsEnd
  <2>3. QED
    BY <1>7, <2>1, <2>2 DEF CloseDb
<1>8. CASE CloseFile
  <2>1. pc = "fclose" /\ f /\ pc' \in {"marker", "noclose"} /\ UNCHANGED k /\ Rest' = Rest
    BY <1>0, <1>8 DEF CloseFile, ParentAt, Rest, stream
  <2>2. QED
    BY <1>0, <2>1 DEF ReadsEnd
<1>9. CASE GiveUp \/ Killed
  BY <1>9 DEF GiveUp, Killed, ReadsEnd
<1>10. CASE SendMarker
  <2>1. pc = "marker" /\ pc' = "pipe" /\ UNCHANGED <<k, logged>> /\ Log("marker") /\ logger_pid = "child"
    BY <1>0, <1>10 DEF SendMarker, ParentAt
  <2>2. Rest' = Rest + 48 /\ Unread(Rest, 0, k - 1)
    BY <1>0, <1>1, <2>1, Lengths DEF ReadsEnd, Length
  <2>3. Unread(Rest', 48, k' - 1)
    BY <1>0, <2>1, <2>2, UnreadAfterWrite
  <2>4. QED
    BY <2>1, <2>3, Lengths DEF ReadsEnd
<1>11. CASE ClosePipe \/ WaitPid
  BY <1>0, <1>11 DEF ClosePipe, WaitPid, ReadsEnd, Rest, stream
<1>12. CASE ChildReads
  <2>1. UNCHANGED <<pc, k, f, written>> /\ Rest' = written - logged'
    BY <1>12 DEF ChildReads, stream, Rest
  <2>2. /\ Rest < 255 => Rest' = 0
        /\ Rest >= 255 => Rest' = Rest - 255
    BY <1>0, <1>12, <2>1, Lengths DEF ChildReads, Rest
  <2>3. ASSUME NEW shift \in {0, 48, 58}, NEW n \in 0..4, Unread(Rest, shift, n)
        PROVE  Rest' = 0 \/ Unread(Rest', shift, n)
    BY <1>0, <2>2, <2>3, UnreadAfterRead
  <2>4. /\ Rest = 0 => Rest' = 0
        /\ \A n \in 0..4 : Unread(Rest, 0, n) => Unread(Rest', 0, n)
    BY <1>0, <2>2, <2>3, NothingUnread
  <2>5. pc = "flush" => k \in 0..4
    BY <1>0 DEF ParentAt
  <2>6. QED
    BY <1>0, <2>1, <2>3, <2>4, <2>5, Lengths DEF ReadsEnd
<1>13. CASE ChildStarts \/ ChildAtEof \/ AstrayReturns
  BY <1>0, <1>13 DEF ChildStarts, ChildAtEof, AstrayReturns, ReadsEnd, Rest, stream
<1>14. CASE UNCHANGED lab2Vars
  BY <1>0, <1>14 DEF lab2Vars, ReadsEnd, Rest, stream
<1>15. QED
  BY <1>2, <1>3, <1>4, <1>5, <1>6, <1>7, <1>8, <1>9, <1>10, <1>11, <1>12, <1>13, <1>14
     DEF Lab2Next, Parent, Child

(* The inductive invariant of the lab 2 program, for one to four calls of  *)
(* insert_sensor, whatever calls may fail.                                 *)
THEOREM Lab2Safety == Lab2SafeSpec => []Lab2Inv
<1>1. Lab2Inv /\ [Lab2Next]_lab2Vars => Lab2Inv'
  BY Lab2TypeStep, Lab2ParentStep, ReportedStep, ChildStaysStep, ReadsEndStep DEF Lab2Inv
<1>2. QED
  BY InitLab2Inv, <1>1, PTL DEF Lab2SafeSpec

(* The data file, the log and what the parent reported agree when it ends: *)
(* no read of create_log_process's child ends right before the marker's    *)
(* text, so the comparison that would end it early never succeeds.         *)
THEOREM Agreement == Lab2SafeSpec => []LogAgrees
<1>1. Lab2Inv => LogAgrees
  <2> SUFFICES ASSUME Lab2Inv PROVE LogAgrees
    OBVIOUS
  <2>1. Lab2TypeOK /\ Reported /\ ChildStays
    BY DEF Lab2Inv
  <2>2. pc \in Ended /\ ~flushFailed =>
          \A i \in DOMAIN sent : sent[i][1] = "inserted" => sent[i][2] \in stored
    BY <2>1 DEF Reported, Ended
  <2>3. QED
    BY <2>1, <2>2 DEF LogAgrees, ChildStays
<1>2. QED
  BY Lab2Safety, <1>1, PTL
=============================================================================
