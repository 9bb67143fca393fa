--------------------------- MODULE SBufferProofs ---------------------------
(***************************************************************************)
(* Proofs about the shared buffer, for any number of nodes, records,       *)
(* writers and readers: the inductive invariant IInv of SBuffer and, from  *)
(* it, memory safety and the safety half of the refinement of              *)
(* BroadcastLog.                                                           *)
(***************************************************************************)
EXTENDS SBuffer, SequenceTheorems, TLAPS

(* Type correctness of the initial state and of every step.                *)
LEMMA InitIInv == Init => IInv
<1> SUFFICES ASSUME Init PROVE IInv
  OBVIOUS
<1> USE SBufferAssumption DEF Init
<1>1. TypeOK
  BY DEF TypeOK, Pointer
<1>2. ChainInMemory
  BY DEF ChainInMemory
<1>3. TailInSection /\ PrivateNodes
  BY DEF TailInSection, PrivateNodes, InCritical, Owned, Last
<1>4. ReaderPosition
  BY DEF ReaderPosition
<1>5. HeapAccounted
  BY DEF HeapAccounted, Linked, Owned
<1>6. QED
  BY <1>1, <1>2, <1>3, <1>4, <1>5 DEF IInv

(* Every step keeps the types.                                             *)
LEMMA TypeStep == IInv /\ [Next]_vars => TypeOK'
<1> SUFFICES ASSUME IInv, [Next]_vars PROVE TypeOK'
  OBVIOUS
<1> USE SBufferAssumption DEF IInv, TypeOK, Pointer, WGoto, RGoto, writerVars, readerVars, freeVars
<1>1. ASSUME NEW w \in Writers, NEW d \in Records, Alloc(w, d) PROVE TypeOK'
  BY <1>1 DEF Alloc
<1>2. ASSUME NEW w \in Writers, Lock(w) PROVE TypeOK'
  BY <1>2 DEF Lock
<1>3. ASSUME NEW w \in Writers, LinkFirst(w) PROVE TypeOK'
  BY <1>3 DEF LinkFirst
<1>4. ASSUME NEW w \in Writers, SetHead(w) PROVE TypeOK'
  BY <1>4 DEF SetHead, PrivateNodes, Owned
<1>5. ASSUME NEW w \in Writers, LinkNext(w) PROVE TypeOK'
  BY <1>5 DEF LinkNext, PrivateNodes, Owned
<1>6. ASSUME NEW w \in Writers, AdvanceTail(w) PROVE TypeOK'
  <2>1. Len(chain) > 1 /\ tail = chain[Len(chain) - 1]
    BY <1>6 DEF AdvanceTail, TailInSection
  <2>2. tail \in Nodes
    BY <2>1
  <2>3. tail' \in Pointer
    BY <1>6, <2>2 DEF AdvanceTail
  <2>4. QED
    BY <1>6, <2>3 DEF AdvanceTail
<1>7. ASSUME NEW w \in Writers, Unlock(w) PROVE TypeOK'
  BY <1>7 DEF Unlock
<1>8. ASSUME NEW w \in Writers, Finish(w) PROVE TypeOK'
  BY <1>8 DEF Finish
<1>9. ASSUME NEW r \in Readers, ReadCopy(r) PROVE TypeOK'
  BY <1>9 DEF ReadCopy, Successor
<1>10. ASSUME NEW r \in Readers, ReadAdvance(r) PROVE TypeOK'
  BY <1>10 DEF ReadAdvance, Successor
<1>11. ASSUME Main PROVE TypeOK'
  BY <1>11 DEF Main, FreeBegin, FreeNode, FreeEnd
<1>12. CASE UNCHANGED vars
  BY <1>12 DEF vars
<1>13. QED
  BY <1>1, <1>2, <1>3, <1>4, <1>5, <1>6, <1>7, <1>8, <1>9, <1>10, <1>11, <1>12
     DEF Next, Writer, Reader

(* A thread that still runs keeps main from freeing the buffer.            *)
LEMMA NotFreedYet ==
  ASSUME IInv
  PROVE  /\ \A w \in Writers : wpc[w] # "done" => mpc = "join"
         /\ \A r \in Readers : rpc[r] # "left" => mpc = "join"
         /\ mpc = "join" => \A i \in 1..Len(chain) : chain[i] \in heap
BY DEF IInv, HeapAccounted, Linked

(* Every step keeps the list in memory equal to its history.               *)
LEMMA ChainStep == IInv /\ [Next]_vars => ChainInMemory'
<1> SUFFICES ASSUME IInv, [Next]_vars PROVE ChainInMemory'
  OBVIOUS
<1> USE SBufferAssumption DEF IInv, TypeOK, Pointer, WGoto, RGoto, writerVars, readerVars, freeVars
<1>1. ASSUME NEW w \in Writers, NEW d \in Records, Alloc(w, d) PROVE ChainInMemory'
  <2>1. \A i \in 1..Len(chain) : chain[i] \in heap
    BY <1>1, NotFreedYet DEF Alloc
  <2>2. \A i \in 1..Len(chain) : next'[chain[i]] = next[chain[i]]
    BY <1>1, <2>1 DEF Alloc
  <2>3. UNCHANGED <<chain, head>>
    BY <1>1 DEF Alloc
  <2>4. QED
    BY <2>2, <2>3 DEF ChainInMemory
<1>2. ASSUME NEW w \in Writers, SetHead(w) PROVE ChainInMemory'
  <2>1. chain = <<>> /\ dummy[w] \in Nodes /\ next[dummy[w]] = NULL
    BY <1>2 DEF SetHead, TailInSection, PrivateNodes, Owned
  <2>2. chain' = <<dummy[w]>> /\ head' = dummy[w] /\ next' = next
    BY <1>2, <2>1 DEF SetHead
  <2>3. QED
    BY <2>1, <2>2 DEF ChainInMemory
<1>3. ASSUME NEW w \in Writers, LinkNext(w) PROVE ChainInMemory'
  <2>1. chain # <<>> /\ tail = chain[Len(chain)] /\ tail \in Nodes
    BY <1>3 DEF LinkNext, TailInSection, InCritical, Last
  <2>2. dummy[w] \in Nodes \ Linked /\ next[dummy[w]] = NULL
    BY <1>3 DEF LinkNext, PrivateNodes, Owned
  <2>3. /\ chain' = Append(chain, dummy[w]) /\ head' = head
        /\ next' = [next EXCEPT ![tail] = dummy[w]]
    BY <1>3 DEF LinkNext
  <2>4. Len(chain') = Len(chain) + 1 /\ chain'[Len(chain) + 1] = dummy[w]
    BY <2>2, <2>3
  <2>5. \A i \in 1..Len(chain) : chain'[i] = chain[i] /\ chain[i] # dummy[w]
    BY <2>2, <2>3 DEF Linked
  <2>6. \A i, j \in 1..Len(chain') : chain'[i] = chain'[j] => i = j
    BY <2>4, <2>5 DEF ChainInMemory
  <2>7. ASSUME NEW i \in 1..Len(chain')
        PROVE  next'[chain'[i]] = IF i = Len(chain') THEN NULL ELSE chain'[i + 1]
    <3>1. CASE i = Len(chain) + 1
      BY <3>1, <2>1, <2>2, <2>3, <2>4, <2>5
    <3>2. CASE i = Len(chain)
      BY <3>2, <2>1, <2>2, <2>3, <2>4, <2>5
    <3>3. CASE i \in 1..(Len(chain) - 1)
      <4>1. chain[i] # tail
        BY <3>3, <2>1 DEF ChainInMemory
      <4>2. next'[chain[i]] = next[chain[i]]
        BY <4>1, <2>1, <2>3
      <4>3. QED
        BY <3>3, <4>2, <2>4, <2>5 DEF ChainInMemory
    <3>4. QED
      BY <3>1, <3>2, <3>3, <2>4
  <2>8. head' = chain'[1] /\ chain' # <<>>
    <3>1. Len(chain) \in Nat \ {0} /\ head = chain[1]
      BY <2>1 DEF ChainInMemory
    <3>2. chain'[1] = chain[1] /\ chain' # <<>>
      BY <3>1, <2>3, <2>4, <2>5
    <3>3. QED
      BY <3>1, <3>2, <2>3
  <2>9. QED
    BY <2>6, <2>7, <2>8 DEF ChainInMemory
<1>4. CASE UNCHANGED <<chain, head, next>>
  BY <1>4 DEF ChainInMemory
<1>5. ASSUME NEW w \in Writers, Writer(w) PROVE ChainInMemory'
  BY <1>1, <1>2, <1>3, <1>4, <1>5
     DEF Writer, Lock, LinkFirst, AdvanceTail, Unlock, Finish
<1>6. ASSUME NEW r \in Readers, Reader(r) PROVE ChainInMemory'
  BY <1>4, <1>6 DEF Reader, ReadCopy, ReadAdvance
<1>7. CASE Main
  BY <1>4, <1>7 DEF Main, FreeBegin, FreeNode, FreeEnd
<1>8. QED
  BY <1>4, <1>5, <1>6, <1>7 DEF Next, vars

(* buffer->mutex excludes: at most one thread is between lock and unlock.  *)
LEMMA Alone ==
  ASSUME IInv, NEW w \in Writers, InCritical(w)
  PROVE  \A v \in Writers \ {w} : ~InCritical(v)
BY DEF IInv, TailInSection

(* The thread in the section finds the last node at tail unless it is      *)
(* between its own two stores.                                             *)
LEMMA TailAtLink ==
  ASSUME IInv, NEW w \in Writers, wpc[w] = "link"
  PROVE  /\ tail = Last
         /\ tail = NULL <=> chain = <<>>
<1>1. \A v \in Writers : wpc[v] \notin {"head", "advance"}
  BY Alone DEF InCritical
<1>2. tail = Last
  BY <1>1 DEF IInv, TailInSection
<1>3. ASSUME chain # <<>> PROVE Last \in Nodes
  <2>1. chain \in Seq(Nodes) /\ Len(chain) \in 1..Len(chain)
    BY <1>3 DEF IInv, TypeOK
  <2>2. QED
    BY <1>3, <2>1 DEF Last
<1>4. QED
  BY <1>2, <1>3, SBufferAssumption DEF Last

(* Every step keeps tail where the critical section has it.                *)
LEMMA TailStep == IInv /\ [Next]_vars => TailInSection'
<1> SUFFICES ASSUME IInv, [Next]_vars PROVE TailInSection'
  OBVIOUS
<1> USE SBufferAssumption DEF IInv, TypeOK, Pointer, WGoto
<1>1. ASSUME NEW w \in Writers, NEW d \in Records, Alloc(w, d) PROVE TailInSection'
  BY <1>1 DEF Alloc, TailInSection, InCritical, Last
<1>2. ASSUME NEW w \in Writers, Lock(w) PROVE TailInSection'
  BY <1>2 DEF Lock, TailInSection, InCritical, Last
<1>3. ASSUME NEW w \in Writers, LinkFirst(w) PROVE TailInSection'
  <2>1. \A v \in Writers \ {w} : wpc[v] \notin {"link", "head", "advance", "unlock"}
    BY <1>3, Alone DEF LinkFirst, InCritical
  <2>2. chain = <<>>
    BY <1>3, TailAtLink DEF LinkFirst
  <2>3. QED
    BY <1>3, <2>1, <2>2 DEF LinkFirst, TailInSection, InCritical
<1>4. ASSUME NEW w \in Writers, SetHead(w) PROVE TailInSection'
  <2>1. \A v \in Writers \ {w} : wpc[v] \notin {"link", "head", "advance", "unlock"}
    BY <1>4, Alone DEF SetHead, InCritical
  <2>2. tail = dummy[w] /\ tail \in Nodes /\ chain = <<>> /\ chain' = Append(chain, tail)
    BY <1>4 DEF SetHead, TailInSection, PrivateNodes, Owned
  <2>3. tail = Last'
    BY <2>2 DEF Last
  <2>4. QED
    BY <1>4, <2>1, <2>2, <2>3 DEF SetHead, TailInSection, InCritical
<1>5. ASSUME NEW w \in Writers, LinkNext(w) PROVE TailInSection'
  <2>1. \A v \in Writers \ {w} : wpc[v] \notin {"link", "head", "advance", "unlock"}
    BY <1>5, Alone DEF LinkNext, InCritical
  <2>2. chain # <<>> /\ tail = chain[Len(chain)]
    BY <1>5, TailAtLink DEF LinkNext, Last
  <2>3. dummy[w] \in Nodes /\ chain' = Append(chain, dummy[w])
    BY <1>5 DEF LinkNext, PrivateNodes, Owned
  <2>4. Len(chain') > 1 /\ tail = chain'[Len(chain') - 1] /\ dummy[w] = chain'[Len(chain')]
    BY <2>2, <2>3
  <2>5. QED
    BY <1>5, <2>1, <2>4 DEF LinkNext, TailInSection, InCritical
<1>6. ASSUME NEW w \in Writers, AdvanceTail(w) PROVE TailInSection'
  <2>1. \A v \in Writers \ {w} : wpc[v] \notin {"link", "head", "advance", "unlock"}
    BY <1>6, Alone DEF AdvanceTail, InCritical
  <2>2. Len(chain) > 1 /\ tail = chain[Len(chain) - 1]
    BY <1>6 DEF AdvanceTail, TailInSection
  <2>3. next[tail] = chain[Len(chain)]
    BY <2>2 DEF ChainInMemory
  <2>4. tail' = Last /\ chain' = chain
    BY <1>6, <2>2, <2>3 DEF AdvanceTail, Last
  <2>5. QED
    BY <1>6, <2>1, <2>4 DEF AdvanceTail, TailInSection, InCritical, Last
<1>7. ASSUME NEW w \in Writers, Unlock(w) PROVE TailInSection'
  BY <1>7, Alone DEF Unlock, TailInSection, InCritical, Last
<1>8. ASSUME NEW w \in Writers, Finish(w) PROVE TailInSection'
  BY <1>8 DEF Finish, TailInSection, InCritical, Last
<1>9. CASE UNCHANGED <<tail, mutex, chain, wpc, dummy>>
  BY <1>9 DEF TailInSection, InCritical, Last
<1>10. ASSUME NEW w \in Writers, Writer(w) PROVE TailInSection'
  BY <1>1, <1>2, <1>3, <1>4, <1>5, <1>6, <1>7, <1>8, <1>10 DEF Writer
<1>11. ASSUME NEW r \in Readers, Reader(r) PROVE TailInSection'
  BY <1>9, <1>11 DEF Reader, ReadCopy, ReadAdvance, writerVars
<1>12. CASE Main
  BY <1>9, <1>12 DEF Main, FreeBegin, FreeNode, FreeEnd, writerVars
<1>13. QED
  BY <1>9, <1>10, <1>11, <1>12 DEF Next, vars, writerVars

(* Linking a node adds it to the linked nodes.                             *)
LEMMA LinkedAppend ==
  ASSUME chain \in Seq(Nodes), NEW n \in Nodes, chain' = Append(chain, n)
  PROVE  Linked' = Linked \cup {n}
<1>1. Len(chain') = Len(chain) + 1 /\ Len(chain) \in Nat /\ chain'[Len(chain) + 1] = n
  OBVIOUS
<1>2. \A i \in 1..Len(chain) : chain'[i] = chain[i]
  OBVIOUS
<1>3. 1..Len(chain') = 1..Len(chain) \cup {Len(chain) + 1}
  BY <1>1
<1>4. QED
  BY <1>1, <1>2, <1>3 DEF Linked

(* Every step keeps a node that is being built private to its writer.      *)
LEMMA PrivateStep == IInv /\ [Next]_vars => PrivateNodes'
<1> SUFFICES ASSUME IInv, [Next]_vars PROVE PrivateNodes'
  OBVIOUS
<1> USE SBufferAssumption DEF IInv, TypeOK, Pointer, WGoto
<1>1. ASSUME NEW w \in Writers, NEW d \in Records, Alloc(w, d) PROVE PrivateNodes'
  <2>1. PICK n \in Nodes \ heap : dummy' = [dummy EXCEPT ![w] = n]
          /\ heap' = heap \cup {n} /\ data' = [data EXCEPT ![n] = d]
          /\ next' = [next EXCEPT ![n] = NULL]
    BY <1>1 DEF Alloc
  <2>2. n \notin Linked /\ Linked' = Linked
    BY <1>1, NotFreedYet DEF Alloc, Linked
  <2>3. \A v \in Writers : Owned(v) => dummy[v] \in heap
    BY DEF PrivateNodes
  <2>4. \A v \in Writers \ {w} : Owned(v)' = Owned(v) /\ dummy'[v] = dummy[v]
    BY <1>1, <2>1 DEF Alloc, Owned
  <2>5. QED
    BY <1>1, <2>1, <2>2, <2>3, <2>4 DEF PrivateNodes, Owned
<1>2. ASSUME NEW w \in Writers, Lock(w) \/ LinkFirst(w) PROVE PrivateNodes'
  BY <1>2 DEF Lock, LinkFirst, PrivateNodes, Owned, Linked
<1>3. ASSUME NEW w \in Writers, SetHead(w) \/ LinkNext(w) PROVE PrivateNodes'
  <2>1. Owned(w) /\ dummy[w] \in Nodes /\ chain' = Append(chain, dummy[w])
    BY <1>3 DEF SetHead, LinkNext, PrivateNodes, Owned
  <2>2. Linked' = Linked \cup {dummy[w]}
    BY <2>1, LinkedAppend
  <2>3. \A v \in Writers : Owned(v)' => Owned(v) /\ v # w
    BY <1>3 DEF SetHead, LinkNext, Owned
  <2>4. \A v \in Writers : Owned(v) /\ v # w => next'[dummy[v]] = next[dummy[v]]
    <3>1. CASE SetHead(w)
      BY <3>1 DEF SetHead
    <3>2. CASE LinkNext(w)
      <4>1. chain # <<>> /\ tail = chain[Len(chain)]
        BY <3>2, TailAtLink DEF LinkNext, Last
      <4>2. tail \in Linked
        BY <4>1 DEF Linked
      <4>3. QED
        BY <3>2, <4>2 DEF LinkNext, PrivateNodes
    <3>3. QED
      BY <1>3, <3>1, <3>2
  <2>5. UNCHANGED <<data, heap, dummy>>
    BY <1>3 DEF SetHead, LinkNext
  <2>6. QED
    BY <2>1, <2>2, <2>3, <2>4, <2>5 DEF PrivateNodes
<1>4. ASSUME NEW w \in Writers, AdvanceTail(w) \/ Unlock(w) \/ Finish(w) PROVE PrivateNodes'
  <2>1. UNCHANGED <<next, data, heap, chain>>
    BY <1>4 DEF AdvanceTail, Unlock, Finish
  <2>2. \A v \in Writers : Owned(v)' => Owned(v) /\ dummy'[v] = dummy[v]
    BY <1>4 DEF AdvanceTail, Unlock, Finish, Owned
  <2>3. Linked' = Linked
    BY <2>1 DEF Linked
  <2>4. QED
    BY <2>1, <2>2, <2>3 DEF PrivateNodes
<1>5. CASE UNCHANGED <<next, data, heap, chain, wpc, dummy>>
  BY <1>5 DEF PrivateNodes, Owned, Linked
<1>6. ASSUME NEW w \in Writers, Writer(w) PROVE PrivateNodes'
  BY <1>1, <1>2, <1>3, <1>4, <1>6 DEF Writer
<1>7. ASSUME NEW r \in Readers, Reader(r) PROVE PrivateNodes'
  BY <1>5, <1>7 DEF Reader, ReadCopy, ReadAdvance, writerVars
<1>8. CASE FreeBegin \/ FreeEnd
  BY <1>5, <1>8 DEF FreeBegin, FreeEnd, writerVars
<1>9. CASE FreeNode
  BY <1>9 DEF FreeNode, PrivateNodes, Owned, HeapAccounted, writerVars
<1>10. QED
  BY <1>5, <1>6, <1>7, <1>8, <1>9 DEF Next, Main, vars, writerVars

(* What sbuffer_read finds after the reader's position is the first record *)
(* it has not been handed yet, if there is one.                            *)
LEMMA SuccessorIsNext ==
  ASSUME IInv, NEW r \in Readers
  PROVE  LET k == Len(received[r]) IN
         /\ k \in Nat /\ k <= Len(chain)
         /\ Successor(r) = IF k < Len(chain) THEN chain[k + 1] ELSE NULL
         /\ Successor(r) # NULL <=> k < Len(chain)
<1> DEFINE k == Len(received[r])
<1>1. k \in Nat /\ Len(chain) \in Nat /\ k <= Len(chain)
  BY DEF IInv, TypeOK, ReaderPosition
<1>2. node[r] = IF k = 0 THEN NULL ELSE chain[k]
  BY DEF IInv, ReaderPosition
<1>3. \A i \in 1..Len(chain) : chain[i] \in Nodes /\ chain[i] # NULL
  BY SBufferAssumption DEF IInv, TypeOK
<1>4. CASE k = 0
  <2>1. Successor(r) = head
    BY <1>2, <1>4 DEF Successor
  <2>2. k < Len(chain) => chain # <<>> /\ head = chain[1]
    BY <1>4 DEF IInv, ChainInMemory
  <2>3. ~(k < Len(chain)) => chain = <<>> /\ head = NULL
    BY <1>1, <1>4 DEF IInv, ChainInMemory, TypeOK
  <2>4. QED
    BY <1>1, <1>3, <1>4, <2>1, <2>2, <2>3
<1>5. CASE k > 0
  <2>1. k \in 1..Len(chain) /\ Successor(r) = next[chain[k]]
    BY <1>1, <1>2, <1>3, <1>5 DEF Successor
  <2>2. next[chain[k]] = IF k = Len(chain) THEN NULL ELSE chain[k + 1]
    BY <2>1 DEF IInv, ChainInMemory
  <2>3. QED
    BY <1>1, <1>3, <2>1, <2>2
<1>6. QED
  BY <1>1, <1>4, <1>5

(* Every step keeps the readers at the end of what they received.          *)
LEMMA ReaderStep == IInv /\ [Next]_vars => ReaderPosition'
<1> SUFFICES ASSUME IInv, [Next]_vars PROVE ReaderPosition'
  OBVIOUS
<1> USE SBufferAssumption
<1>1. /\ chain \in Seq(Nodes) /\ received \in [Readers -> Seq(Records \cup {NULL})]
      /\ rec \in [Readers -> Records \cup {NULL}] /\ dummy \in [Writers -> Pointer]
      /\ node \in [Readers -> Pointer] /\ rpc \in [Readers -> {"poll", "advance", "left"}]
      /\ data \in [Nodes -> Records \cup {NULL}]
  BY DEF IInv, TypeOK
<1>2. ASSUME NEW w \in Writers, NEW d \in Records, Alloc(w, d) PROVE ReaderPosition'
  <2>1. \A i \in 1..Len(chain) : data'[chain[i]] = data[chain[i]]
    <3>1. \A i \in 1..Len(chain) : chain[i] \in heap
      BY <1>2, NotFreedYet DEF Alloc, WGoto
    <3>2. QED
      BY <1>1, <1>2, <3>1 DEF Alloc
  <2>2. UNCHANGED <<chain, received, node, rpc, rec>>
    BY <1>2 DEF Alloc, readerVars
  <2>3. QED
    BY <1>1, <2>1, <2>2 DEF IInv, ReaderPosition
<1>3. ASSUME NEW w \in Writers, SetHead(w) \/ LinkNext(w) PROVE ReaderPosition'
  <2>1. dummy[w] \in Nodes /\ chain' = Append(chain, dummy[w])
    BY <1>3 DEF SetHead, LinkNext, WGoto, IInv, PrivateNodes, Owned, TypeOK
  <2>2. Len(chain') = Len(chain) + 1 /\ \A i \in 1..Len(chain) : chain'[i] = chain[i]
    BY <1>1, <2>1
  <2>3. UNCHANGED <<data, received, node, rpc, rec>>
    BY <1>3 DEF SetHead, LinkNext, readerVars
  <2>4. \A q \in Readers : Len(received[q]) \in Nat /\ Len(received[q]) <= Len(chain)
    BY <1>1 DEF IInv, ReaderPosition
  <2>5. \A q \in Readers : \A i \in 1..Len(received[q]) :
          i \in 1..Len(chain) /\ chain'[i] = chain[i]
    BY <1>1, <2>2, <2>4
  <2>6. \A q \in Readers : Len(received[q]) < Len(chain) =>
          chain'[Len(received[q]) + 1] = chain[Len(received[q]) + 1]
    <3>1. \A j \in Nat : j < Len(chain) => j + 1 \in 1..Len(chain)
      BY <1>1
    <3>2. QED
      BY <2>2, <2>4, <3>1
  <2>7. QED
    <3> SUFFICES ASSUME NEW q \in Readers
                 PROVE  LET m == Len(received[q])
                        IN /\ m <= Len(chain')
                           /\ node[q] = IF m = 0 THEN NULL ELSE chain'[m]
                           /\ \A i \in 1..m : received[q][i] = data[chain'[i]]
                           /\ rpc[q] = "advance" =>
                                m < Len(chain') /\ rec[q] = data[chain'[m + 1]]
                           /\ rpc[q] = "left" <=> m > 0 /\ received[q][m] = Eos
      BY <2>3 DEF ReaderPosition
    <3> DEFINE m == Len(received[q])
    <3>1. /\ m <= Len(chain) /\ node[q] = IF m = 0 THEN NULL ELSE chain[m]
          /\ \A i \in 1..m : received[q][i] = data[chain[i]]
          /\ rpc[q] = "advance" => m < Len(chain) /\ rec[q] = data[chain[m + 1]]
          /\ rpc[q] = "left" <=> m > 0 /\ received[q][m] = Eos
      BY DEF IInv, ReaderPosition
    <3>2. m \in Nat /\ Len(chain) \in Nat /\ (m # 0 => m \in 1..m)
      BY <1>1, <2>4
    <3>3. m # 0 => chain'[m] = chain[m]
      BY <2>5, <3>2
    <3>4. QED
      BY <2>2, <2>5, <2>6, <3>1, <3>2, <3>3
<1>4. ASSUME NEW r \in Readers, ReadCopy(r) PROVE ReaderPosition'
  <2>1. /\ Len(received[r]) < Len(chain)
        /\ Successor(r) = chain[Len(received[r]) + 1]
    BY <1>4, SuccessorIsNext DEF ReadCopy
  <2>2. rec'[r] = data[chain[Len(received[r]) + 1]]
    BY <1>1, <1>4, <2>1 DEF ReadCopy
  <2>3. /\ \A q \in Readers \ {r} : rpc'[q] = rpc[q] /\ rec'[q] = rec[q]
        /\ rpc[r] = "poll" /\ rpc'[r] = "advance"
        /\ UNCHANGED <<chain, data, node, received>>
    BY <1>1, <1>4 DEF ReadCopy, RGoto
  <2>4. QED
    BY <1>1, <2>1, <2>2, <2>3 DEF IInv, ReaderPosition
<1>5. ASSUME NEW r \in Readers, ReadAdvance(r) PROVE ReaderPosition'
  <2> DEFINE k == Len(received[r])
  <2>1. /\ k \in Nat /\ k < Len(chain) /\ rec[r] = data[chain[k + 1]]
        /\ \A i \in 1..k : received[r][i] = data[chain[i]]
    BY <1>1, <1>5 DEF ReadAdvance, RGoto, IInv, ReaderPosition
  <2>2. node'[r] = chain[k + 1]
    BY <1>1, <1>5, <2>1, SuccessorIsNext DEF ReadAdvance
  <2>3. /\ Len(received'[r]) = k + 1 /\ received'[r][k + 1] = rec[r]
        /\ \A i \in 1..k : received'[r][i] = received[r][i]
    BY <1>1, <1>5 DEF ReadAdvance
  <2>4. /\ \A q \in Readers \ {r} : /\ rpc'[q] = rpc[q] /\ node'[q] = node[q]
                                     /\ received'[q] = received[q]
        /\ rpc'[r] = IF rec[r] = Eos THEN "left" ELSE "poll"
        /\ UNCHANGED <<chain, data, rec>>
    BY <1>1, <1>5 DEF ReadAdvance, RGoto
  <2>5. \A i \in 1..(k + 1) : received'[r][i] = data[chain[i]]
    <3>1. ASSUME NEW i \in 1..(k + 1) PROVE i \in 1..k \/ i = k + 1
      BY <2>1
    <3>2. QED
      BY <2>1, <2>3, <3>1
  <2>6. QED
    <3>1. ASSUME NEW q \in Readers \ {r}
          PROVE  LET m == Len(received[q])
                 IN /\ m <= Len(chain)
                    /\ node'[q] = IF m = 0 THEN NULL ELSE chain[m]
                    /\ \A i \in 1..m : received'[q][i] = data[chain[i]]
                    /\ rpc'[q] = "advance" => m < Len(chain) /\ rec[q] = data[chain[m + 1]]
                    /\ rpc'[q] = "left" <=> m > 0 /\ received'[q][m] = Eos
      BY <2>4 DEF IInv, ReaderPosition
    <3>2. k + 1 <= Len(chain) /\ k + 1 # 0 /\ k + 1 > 0
      BY <1>1, <2>1
    <3>3. rpc'[r] # "advance" /\ (rpc'[r] = "left" <=> received'[r][k + 1] = Eos)
      BY <2>3, <2>4
    <3>4. QED
      BY <3>1, <3>2, <3>3, <2>2, <2>3, <2>4, <2>5 DEF ReaderPosition
<1>6. CASE UNCHANGED <<data, chain, readerVars>>
  BY <1>6 DEF IInv, ReaderPosition, readerVars
<1>7. ASSUME NEW w \in Writers, Writer(w) PROVE ReaderPosition'
  BY <1>2, <1>3, <1>6, <1>7 DEF Writer, Lock, LinkFirst, AdvanceTail, Unlock, Finish
<1>8. ASSUME NEW r \in Readers, Reader(r) PROVE ReaderPosition'
  BY <1>4, <1>5, <1>8 DEF Reader
<1>9. CASE Main
  BY <1>6, <1>9 DEF Main, FreeBegin, FreeNode, FreeEnd
<1>10. QED
  BY <1>6, <1>7, <1>8, <1>9 DEF Next, vars

(* What main releases is what was linked: the heap part of the invariant.  *)
LEMMA HeapStep == IInv /\ [Next]_vars => HeapAccounted'
<1> SUFFICES ASSUME IInv, [Next]_vars PROVE HeapAccounted'
  OBVIOUS
<1> USE SBufferAssumption
<1> DEFINE PrivateCells == {dummy[w] : w \in {v \in Writers : Owned(v)}}
<1>1. /\ chain \in Seq(Nodes) /\ Len(chain) \in Nat /\ heap \in SUBSET Nodes
      /\ dummy \in [Writers -> Pointer] /\ data \in [Nodes -> Records \cup {NULL}]
      /\ wpc \in [Writers -> {"idle", "lock", "link", "head", "advance", "unlock", "done"}]
      /\ rpc \in [Readers -> {"poll", "advance", "left"}]
  BY DEF IInv, TypeOK
<1>2. \A i \in 1..Len(chain) : chain[i] \in Nodes /\ chain[i] # NULL
  BY <1>1
<1>3. ASSUME NEW w \in Writers, NEW d \in Records, Alloc(w, d) PROVE HeapAccounted'
  <2>1. PICK n \in Nodes \ heap : dummy' = [dummy EXCEPT ![w] = n]
          /\ heap' = heap \cup {n} /\ data' = [data EXCEPT ![n] = d]
    BY <1>3 DEF Alloc
  <2>2. mpc = "join" /\ mpc' = "join"
    BY <1>3, NotFreedYet DEF Alloc, WGoto, freeVars
  <2>3. \A i \in 1..Len(chain) : chain[i] \in heap /\ data'[chain[i]] = data[chain[i]]
    BY <1>1, <2>1, <2>2, NotFreedYet
  <2>4. chain' = chain /\ Linked' = Linked
    BY <1>3 DEF Alloc, Linked
  <2>5. \A v \in Writers : Owned(v)' <=> Owned(v) \/ v = w
    BY <1>1, <1>3 DEF Alloc, WGoto, Owned
  <2>6. ~Owned(w) /\ dummy'[w] = n /\ \A v \in Writers \ {w} : dummy'[v] = dummy[v]
    BY <1>1, <1>3, <2>1 DEF Alloc, WGoto, Owned
  <2>7. PrivateCells' = PrivateCells \cup {n}
    BY <2>5, <2>6
  <2>8. heap' = Linked' \cup PrivateCells'
    BY <2>1, <2>2, <2>4, <2>7 DEF IInv, HeapAccounted
  <2>9. QED
    BY <2>2, <2>3, <2>4, <2>8 DEF IInv, HeapAccounted
<1>4. ASSUME NEW w \in Writers, SetHead(w) \/ LinkNext(w) PROVE HeapAccounted'
  <2>1. /\ Owned(w) /\ dummy[w] \in Nodes /\ chain' = Append(chain, dummy[w])
        /\ data[dummy[w]] \in Records
    BY <1>4 DEF SetHead, LinkNext, WGoto, IInv, PrivateNodes, Owned, TypeOK
  <2>2. Linked' = Linked \cup {dummy[w]}
    BY <1>1, <2>1, LinkedAppend
  <2>3. UNCHANGED <<heap, data, dummy, mpc>> /\ mpc = "join"
    BY <1>4, NotFreedYet DEF SetHead, LinkNext, WGoto, freeVars
  <2>4. \A v \in Writers : Owned(v)' <=> Owned(v) /\ v # w
    BY <1>1, <1>4 DEF SetHead, LinkNext, WGoto, Owned
  <2>5. PrivateCells = PrivateCells' \cup {dummy[w]}
    BY <2>1, <2>3, <2>4
  <2>6. heap' = Linked' \cup PrivateCells'
    BY <2>2, <2>3, <2>5 DEF IInv, HeapAccounted
  <2>7. \A i \in 1..Len(chain') : data'[chain'[i]] \in Records
    <3>1. \A i \in 1..Len(chain') : chain'[i] = dummy[w] \/ (i \in 1..Len(chain) /\ chain'[i] = chain[i])
      BY <1>1, <2>1
    <3>2. QED
      BY <2>1, <2>3, <3>1 DEF IInv, HeapAccounted
  <2>8. QED
    BY <2>3, <2>6, <2>7 DEF HeapAccounted
<1>5. ASSUME NEW w \in Writers,
             Lock(w) \/ LinkFirst(w) \/ AdvanceTail(w) \/ Unlock(w) \/ Finish(w)
      PROVE  HeapAccounted'
  <2>1. UNCHANGED <<heap, data, chain, mpc>> /\ mpc = "join"
    BY <1>5, NotFreedYet DEF Lock, LinkFirst, AdvanceTail, Unlock, Finish, WGoto, freeVars
  <2>2. \A v \in Writers : (Owned(v)' <=> Owned(v)) /\ (Owned(v) => dummy'[v] = dummy[v])
    BY <1>1, <1>5 DEF Lock, LinkFirst, AdvanceTail, Unlock, Finish, WGoto, Owned
  <2>3. PrivateCells' = PrivateCells /\ Linked' = Linked
    BY <2>1, <2>2 DEF Linked
  <2>4. QED
    BY <2>1, <2>3 DEF IInv, HeapAccounted
<1>6. ASSUME NEW r \in Readers, Reader(r) PROVE HeapAccounted'
  <2>1. UNCHANGED <<heap, data, chain, mpc, wpc, dummy>> /\ mpc = "join"
    BY <1>6, NotFreedYet DEF Reader, ReadCopy, ReadAdvance, RGoto, freeVars, writerVars
  <2>2. PrivateCells' = PrivateCells /\ Linked' = Linked
    BY <2>1 DEF Owned, Linked
  <2>3. QED
    BY <2>1, <2>2 DEF IInv, HeapAccounted
<1>7. CASE FreeBegin
  <2>1. /\ UNCHANGED <<heap, data, chain, wpc, rpc, dummy>> /\ mpc = "join" /\ mpc' = "freeing"
        /\ \A w \in Writers : wpc[w] = "done"
        /\ \A r \in Readers : rpc[r] = "left"
        /\ current' = head
    BY <1>7 DEF FreeBegin, writerVars, readerVars
  <2>2. heap = Linked
    BY <2>1 DEF IInv, HeapAccounted, Owned
  <2>3. current' = IF 1 > Len(chain) THEN NULL ELSE chain[1]
    BY <1>1, <2>1 DEF IInv, ChainInMemory
  <2>4. \E i \in 1..(Len(chain') + 1) :
          /\ current' = IF i > Len(chain') THEN NULL ELSE chain'[i]
          /\ heap' = {chain'[j] : j \in i..Len(chain')}
    <3>1. heap' = {chain'[j] : j \in 1..Len(chain')} /\ 1 \in 1..(Len(chain') + 1)
      BY <1>1, <2>1, <2>2 DEF Linked
    <3>2. QED
      BY <2>1, <2>3, <3>1
  <2>5. QED
    <3>1. \A i \in 1..Len(chain') : data'[chain'[i]] \in Records
      BY <2>1 DEF IInv, HeapAccounted
    <3>2. /\ \A w \in Writers : wpc'[w] = "done"
          /\ \A r \in Readers : rpc'[r] = "left"
      BY <2>1
    <3>3. mpc' # "join" /\ mpc' # "freed"
      BY <2>1
    <3>4. QED
      BY <2>4, <3>1, <3>2, <3>3 DEF HeapAccounted
<1>8. CASE FreeNode
  <2>1. /\ UNCHANGED <<data, chain, wpc, rpc, next, mpc>> /\ mpc = "freeing"
        /\ current # NULL /\ current' = next[current] /\ heap' = heap \ {current}
    BY <1>8 DEF FreeNode, writerVars, readerVars
  <2>2. PICK i \in 1..(Len(chain) + 1) :
          /\ current = IF i > Len(chain) THEN NULL ELSE chain[i]
          /\ heap = {chain[j] : j \in i..Len(chain)}
    BY <2>1 DEF IInv, HeapAccounted
  <2>3. i \in 1..Len(chain) /\ current = chain[i]
    BY <1>1, <2>1, <2>2
  <2>4. current' = IF i + 1 > Len(chain) THEN NULL ELSE chain[i + 1]
    BY <1>1, <2>1, <2>3 DEF IInv, ChainInMemory
  <2>5. \A j \in i..Len(chain) : chain[j] = chain[i] <=> j = i
    BY <1>1, <2>3 DEF IInv, ChainInMemory
  <2>6. i..Len(chain) = {i} \cup ((i + 1)..Len(chain))
    BY <1>1, <2>3
  <2>7. heap' = {chain[j] : j \in (i + 1)..Len(chain)}
    <3>1. \A j \in (i + 1)..Len(chain) : j \in i..Len(chain) /\ j # i
      BY <1>1, <2>3
    <3>2. QED
      BY <2>1, <2>2, <2>3, <2>5, <2>6, <3>1
  <2>8. i + 1 \in 1..(Len(chain') + 1)
    BY <1>1, <2>1, <2>3
  <2>9. \E m \in 1..(Len(chain') + 1) :
          /\ current' = IF m > Len(chain') THEN NULL ELSE chain'[m]
          /\ heap' = {chain'[j] : j \in m..Len(chain')}
    BY <2>1, <2>4, <2>7, <2>8
  <2>10. QED
    BY <2>1, <2>9 DEF IInv, HeapAccounted
<1>9. CASE FreeEnd
  <2>1. /\ UNCHANGED <<heap, data, chain, wpc, rpc>> /\ mpc = "freeing" /\ mpc' = "freed"
        /\ current = NULL
    BY <1>9 DEF FreeEnd, writerVars, readerVars
  <2>2. PICK i \in 1..(Len(chain) + 1) :
          /\ current = IF i > Len(chain) THEN NULL ELSE chain[i]
          /\ heap = {chain[j] : j \in i..Len(chain)}
    BY <2>1 DEF IInv, HeapAccounted
  <2>3. i > Len(chain)
    BY <1>1, <1>2, <2>1, <2>2
  <2>4. i..Len(chain) = {}
    BY <1>1, <2>2, <2>3
  <2>5. heap' = {}
    BY <2>1, <2>2, <2>4
  <2>6. QED
    BY <2>1, <2>5 DEF IInv, HeapAccounted
<1>10. CASE UNCHANGED <<heap, data, chain, wpc, rpc, dummy, mpc, current>>
  BY <1>10 DEF IInv, HeapAccounted, Owned, Linked
<1>11. ASSUME NEW w \in Writers, Writer(w) PROVE HeapAccounted'
  BY <1>3, <1>4, <1>5, <1>11 DEF Writer
<1>12. QED
  BY <1>6, <1>7, <1>8, <1>9, <1>10, <1>11
     DEF Next, Main, vars, writerVars, readerVars, freeVars

-----------------------------------------------------------------------------
(* Every reachable state satisfies the inductive invariant: the list in    *)
(* memory is the sequence of insertions, the readers are where their       *)
(* received records say, and the heap holds what is linked or being linked *)
(* (sbuffer.c as a whole).                                                 *)
THEOREM Safety == SafeSpec => []IInv
<1>1. IInv /\ [Next]_vars => IInv'
  <2> SUFFICES ASSUME IInv, [Next]_vars PROVE IInv'
    OBVIOUS
  <2>1. TypeOK' /\ ChainInMemory' /\ TailInSection' /\ PrivateNodes'
    BY TypeStep, ChainStep, TailStep, PrivateStep
  <2>2. ReaderPosition' /\ HeapAccounted'
    BY ReaderStep, HeapStep
  <2>3. QED
    BY <2>1, <2>2 DEF IInv
<1>2. QED
  BY InitIInv, <1>1, PTL DEF SafeSpec

(* Every variable keeps its type, from the same induction.                 *)
THEOREM TypeCorrect == SafeSpec => []TypeOK
<1>1. IInv => TypeOK
  BY DEF IInv
<1>2. QED
  BY Safety, <1>1, PTL

(* Readers that poll without the mutex never miss, repeat or reorder a     *)
(* record, for any number of writers and readers (sbuffer_read).           *)
THEOREM ReadersInOrder == SafeSpec => []ReaderPosition
<1>1. IInv => ReaderPosition
  BY DEF IInv
<1>2. QED
  BY Safety, <1>1, PTL

(* No leak and no double free: what is allocated is in the list or still   *)
(* private to a writer, and sbuffer_free releases every node (sbuffer_free *)
(* after the joins of main).                                               *)
THEOREM NothingLeaks == SafeSpec => []HeapAccounted
<1>1. IInv => HeapAccounted
  BY DEF IInv
<1>2. QED
  BY Safety, <1>1, PTL

(* No thread ever follows a pointer into a cell that is not allocated: the *)
(* readers do without the mutex because nothing is released while one of   *)
(* them runs (sbuffer_read, sbuffer_insert and sbuffer_free).              *)
THEOREM MemorySafe == SafeSpec => []NoDanglingUse
<1>1. IInv => NoDanglingUse
  <2> SUFFICES ASSUME IInv PROVE NoDanglingUse
    OBVIOUS
  <2>1. ASSUME NEW r \in Readers, rpc[r] # "left", node[r] # NULL PROVE node[r] \in heap
    <3>1. Len(received[r]) \in 1..Len(chain) /\ node[r] = chain[Len(received[r])]
      BY <2>1 DEF IInv, TypeOK, ReaderPosition
    <3>2. QED
      BY <2>1, <3>1, NotFreedYet
  <2>2. ASSUME NEW r \in Readers, rpc[r] = "advance" PROVE Successor(r) \in heap
    <3>1. Len(received[r]) + 1 \in 1..Len(chain)
      BY <2>2 DEF IInv, TypeOK, ReaderPosition
    <3>2. Successor(r) = chain[Len(received[r]) + 1]
      BY <3>1, SuccessorIsNext
    <3>3. QED
      BY <2>2, <3>1, <3>2, NotFreedYet
  <2>3. ASSUME NEW w \in Writers, wpc[w] = "link", tail # NULL PROVE tail \in heap
    <3>1. chain # <<>> /\ tail = chain[Len(chain)]
      BY <2>3, TailAtLink DEF Last
    <3>2. Len(chain) \in 1..Len(chain)
      BY <3>1 DEF IInv, TypeOK
    <3>3. QED
      BY <2>3, <3>1, <3>2, NotFreedYet
  <2>4. ASSUME NEW w \in Writers, wpc[w] = "advance" PROVE tail \in heap
    <3>1. Len(chain) - 1 \in 1..Len(chain) /\ tail = chain[Len(chain) - 1]
      BY <2>4 DEF IInv, TypeOK, TailInSection
    <3>2. QED
      BY <2>4, <3>1, NotFreedYet
  <2>5. ASSUME mpc = "freeing", current # NULL PROVE current \in heap
    <3>1. PICK i \in 1..(Len(chain) + 1) :
            /\ current = IF i > Len(chain) THEN NULL ELSE chain[i]
            /\ heap = {chain[j] : j \in i..Len(chain)}
      BY <2>5 DEF IInv, HeapAccounted
    <3>2. i \in i..Len(chain) /\ current = chain[i]
      BY <2>5, <3>1 DEF IInv, TypeOK
    <3>3. QED
      BY <3>1, <3>2
  <2>6. QED
    BY <2>1, <2>2, <2>3, <2>4, <2>5 DEF NoDanglingUse, IInv
<1>2. QED
  BY Safety, <1>1, PTL

-----------------------------------------------------------------------------
(* Refinement                                                              *)

(* The records of the chain are a sequence.                                *)
LEMMA LogIsSeq ==
  ASSUME IInv
  PROVE  /\ Log \in Seq(Records) /\ Len(Log) = Len(chain)
         /\ \A i \in 1..Len(chain) : Log[i] = data[chain[i]]
BY DEF IInv, TypeOK, HeapAccounted, Log

(* Linking a node inserts its record; nothing else changes the log.        *)
LEMMA LinkInserts ==
  ASSUME IInv, IInv', NEW n \in Nodes, chain' = Append(chain, n), data' = data
  PROVE  Log' = Append(Log, data[n])
<1>1. chain \in Seq(Nodes) /\ Len(chain) \in Nat
  BY DEF IInv, TypeOK
<1>2. /\ Len(chain') = Len(chain) + 1 /\ chain'[Len(chain) + 1] = n
      /\ \A i \in 1..Len(chain) : chain'[i] = chain[i]
  BY <1>1
<1>3. /\ Log' \in Seq(Records) /\ Len(Log') = Len(chain) + 1
      /\ \A i \in 1..Len(chain') : Log'[i] = data[chain'[i]]
  BY <1>2, LogIsSeq DEF IInv, TypeOK, HeapAccounted, Log
<1>4. data[n] \in Records
  BY <1>1, <1>2 DEF IInv, HeapAccounted
<1>5. /\ Append(Log, data[n]) \in Seq(Records)
      /\ Len(Append(Log, data[n])) = Len(chain) + 1
      /\ \A i \in 1..Len(chain) : Append(Log, data[n])[i] = data[chain[i]]
      /\ Append(Log, data[n])[Len(chain) + 1] = data[n]
  BY <1>4, LogIsSeq, AppendProperties
<1>6. \A i \in 1..Len(Log') : Log'[i] = Append(Log, data[n])[i]
  BY <1>1, <1>2, <1>3, <1>5
<1>7. QED
  BY <1>3, <1>5, <1>6, SeqEqual

(* The list implements the abstract log: linking a node inserts, completing *)
(* a read receives, everything else is invisible to the user of the buffer. *)
THEOREM Refinement == SafeSpec => BL!SafeSpec
<1>1. Init => BL!Init
  BY DEF Init, BL!Init, Log
<1>2. IInv /\ IInv' /\ [Next]_vars => [BL!Next]_(BL!blVars)
  <2> SUFFICES ASSUME IInv, IInv', [Next]_vars PROVE [BL!Next]_(BL!blVars)
    OBVIOUS
  <2>1. ASSUME NEW w \in Writers, SetHead(w) \/ LinkNext(w) PROVE BL!Next
    <3>1. dummy[w] \in Nodes /\ data[dummy[w]] \in Records
      BY <2>1 DEF SetHead, LinkNext, WGoto, IInv, TypeOK, PrivateNodes, Owned
    <3>2. chain' = Append(chain, dummy[w]) /\ UNCHANGED <<data, received>>
      BY <2>1 DEF SetHead, LinkNext, readerVars
    <3>3. Log' = Append(Log, data[dummy[w]])
      BY <3>1, <3>2, LinkInserts
    <3>4. QED
      BY <3>1, <3>2, <3>3 DEF BL!Next, BL!Insert
  <2>2. ASSUME NEW r \in Readers, ReadAdvance(r) PROVE BL!Next
    <3> DEFINE k == Len(received[r])
    <3>1. /\ k \in Nat /\ k < Len(chain) /\ rec[r] = data[chain[k + 1]]
          /\ rpc[r] # "left"
      BY <2>2 DEF ReadAdvance, RGoto, IInv, TypeOK, ReaderPosition
    <3>2. ~BL!Finished(r)
      <4>1. ~(k > 0 /\ received[r][k] = Eos)
        BY <3>1 DEF IInv, ReaderPosition
      <4>2. received[r] # <<>> => k > 0
        BY DEF IInv, TypeOK
      <4>3. QED
        BY <4>1, <4>2 DEF BL!Finished
    <3>3. k < Len(Log) /\ rec[r] = Log[k + 1]
      <4>1. Len(Log) = Len(chain) /\ k + 1 \in 1..Len(chain)
        BY <3>1, LogIsSeq DEF IInv, TypeOK
      <4>2. QED
        BY <3>1, <4>1, LogIsSeq
    <3>4. received' = [received EXCEPT ![r] = Append(@, Log[Len(@) + 1])]
      BY <2>2, <3>3 DEF ReadAdvance
    <3>5. Log' = Log
      BY <2>2 DEF ReadAdvance, Log
    <3>6. QED
      BY <3>2, <3>3, <3>4, <3>5 DEF BL!Next, BL!Receive
  <2>3. ASSUME NEW w \in Writers, NEW d \in Records, Alloc(w, d) PROVE UNCHANGED <<Log, received>>
    <3>1. \A i \in 1..Len(chain) : chain[i] \in heap
      BY <2>3, NotFreedYet DEF Alloc, WGoto
    <3>2. \A i \in 1..Len(chain) : data'[chain[i]] = data[chain[i]]
      BY <2>3, <3>1 DEF Alloc, IInv, TypeOK
    <3>3. chain' = chain /\ received' = received
      BY <2>3 DEF Alloc, readerVars
    <3>4. QED
      BY <3>2, <3>3 DEF Log
  <2>4. UNCHANGED <<chain, data, received>> => UNCHANGED <<Log, received>>
    BY DEF Log
  <2>5. ASSUME NEW w \in Writers, Writer(w) PROVE BL!Next \/ UNCHANGED <<Log, received>>
    BY <2>1, <2>3, <2>4, <2>5
       DEF Writer, Lock, LinkFirst, AdvanceTail, Unlock, Finish, readerVars
  <2>6. ASSUME NEW r \in Readers, Reader(r) PROVE BL!Next \/ UNCHANGED <<Log, received>>
    BY <2>2, <2>4, <2>6 DEF Reader, ReadCopy
  <2>7. ASSUME Main PROVE UNCHANGED <<Log, received>>
    BY <2>4, <2>7 DEF Main, FreeBegin, FreeNode, FreeEnd, readerVars
  <2>8. QED
    BY <2>4, <2>5, <2>6, <2>7 DEF Next, vars, readerVars, BL!blVars
<1>3. QED
  BY <1>1, <1>2, Safety, PTL DEF SafeSpec, BL!SafeSpec
=============================================================================
