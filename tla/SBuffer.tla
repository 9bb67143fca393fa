------------------------------ MODULE SBuffer ------------------------------
(***************************************************************************)
(* The shared sensor buffer of the gateway (project/sbuffer.c): a singly   *)
(* linked list to which writers append under buffer->mutex and which the   *)
(* readers walk WITHOUT taking the mutex, each behind a node pointer of    *)
(* its own.  No node is released before sbuffer_free.                      *)
(*                                                                         *)
(* Every store to memory that another thread can see is an action of its   *)
(* own, in program order: the Makefile passes no -O option and x86-64      *)
(* keeps the order of stores and of loads.  Filling a fresh node is one    *)
(* action, for no other thread has a pointer to it.                        *)
(***************************************************************************)
EXTENDS Naturals, Sequences

CONSTANTS
  Nodes,     (* the heap cells malloc can return                            *)
  NULL,      (* the null pointer; also "nobody holds the mutex"             *)
  Records,   (* the values of type sensor_data_t                            *)
  Eos,       (* the record whose id is 0                                    *)
  Writers,   (* threads that call sbuffer_insert                            *)
  Readers    (* threads that call sbuffer_read                              *)

ASSUME SBufferAssumption ==
  /\ NULL \notin Nodes /\ NULL \notin Writers /\ NULL \notin Records
  /\ Eos \in Records

VARIABLES
  head, tail,   (* buffer->head, buffer->tail                               *)
  next, data,   (* the fields of every heap cell                            *)
  heap,         (* the cells currently allocated                            *)
  mutex,        (* the holder of buffer->mutex                              *)
  wpc, dummy,   (* control point and local variable of sbuffer_insert       *)
  rpc,          (* control point of a reader                                *)
  node, rec,    (* what a reader passed to sbuffer_read: its position and   *)
                (* the record it reads into                                 *)
  mpc, current, (* control point and local variable of sbuffer_free         *)
  chain,        (* history: the nodes in the order they were linked         *)
  received      (* history: the records handed to each reader               *)

writerVars == <<wpc, dummy>>
readerVars == <<rpc, node, rec, received>>
freeVars   == <<mpc, current>>
vars == <<head, tail, next, data, heap, mutex, chain,
          writerVars, readerVars, freeVars>>

Pointer == Nodes \cup {NULL}

TypeOK ==
  /\ head \in Pointer /\ tail \in Pointer /\ current \in Pointer
  /\ next \in [Nodes -> Pointer]
  /\ data \in [Nodes -> Records \cup {NULL}]
  /\ heap \in SUBSET Nodes
  /\ mutex \in Writers \cup {NULL}
  /\ wpc \in [Writers -> {"idle", "lock", "link", "head", "advance",
                          "unlock", "done"}]
  /\ dummy \in [Writers -> Pointer]
  /\ rpc \in [Readers -> {"poll", "advance", "left"}]
  /\ node \in [Readers -> Pointer]
  /\ rec \in [Readers -> Records \cup {NULL}]
  /\ mpc \in {"join", "freeing", "freed"}
  /\ chain \in Seq(Nodes)
  /\ received \in [Readers -> Seq(Records \cup {NULL})]

(* sbuffer_init, before any thread exists.                                 *)
Init ==
  /\ head = NULL /\ tail = NULL
  /\ next = [n \in Nodes |-> NULL] /\ data = [n \in Nodes |-> NULL]
  /\ heap = {} /\ mutex = NULL /\ chain = <<>>
  /\ wpc = [w \in Writers |-> "idle"] /\ dummy = [w \in Writers |-> NULL]
  /\ rpc = [r \in Readers |-> "poll"]
  /\ node = [r \in Readers |-> NULL] /\ rec = [r \in Readers |-> NULL]
  /\ received = [r \in Readers |-> <<>>]
  /\ mpc = "join" /\ current = NULL

WGoto(w, from, to) == wpc[w] = from /\ wpc' = [wpc EXCEPT ![w] = to]
RGoto(r, from, to) == rpc[r] = from /\ rpc' = [rpc EXCEPT ![r] = to]

-----------------------------------------------------------------------------
(* sbuffer_insert                                                          *)

(* malloc succeeds and the private node gets its data and a null next.     *)
Alloc(w, d) ==
  /\ WGoto(w, "idle", "lock")
  /\ \E n \in Nodes \ heap :
       /\ heap' = heap \cup {n}
       /\ dummy' = [dummy EXCEPT ![w] = n]
       /\ data' = [data EXCEPT ![n] = d]
       /\ next' = [next EXCEPT ![n] = NULL]
  /\ UNCHANGED <<head, tail, mutex, chain, readerVars, freeVars>>

Lock(w) ==
  /\ WGoto(w, "lock", "link")
  /\ mutex = NULL
  /\ mutex' = w
  /\ UNCHANGED <<head, tail, next, data, heap, chain, dummy, readerVars, freeVars>>

(* buffer->head = buffer->tail = dummy stores to tail first ...            *)
LinkFirst(w) ==
  /\ tail = NULL
  /\ WGoto(w, "link", "head")
  /\ tail' = dummy[w]
  /\ UNCHANGED <<head, next, data, heap, mutex, chain, dummy, readerVars, freeVars>>

(* ... and to head second, which is what makes the first node visible.     *)
SetHead(w) ==
  /\ WGoto(w, "head", "unlock")
  /\ head' = dummy[w]
  /\ chain' = Append(chain, dummy[w])
  /\ UNCHANGED <<tail, next, data, heap, mutex, dummy, readerVars, freeVars>>

(* buffer->tail->next = dummy: readers can reach the node from here on.    *)
LinkNext(w) ==
  /\ tail # NULL
  /\ WGoto(w, "link", "advance")
  /\ next' = [next EXCEPT ![tail] = dummy[w]]
  /\ chain' = Append(chain, dummy[w])
  /\ UNCHANGED <<head, tail, data, heap, mutex, dummy, readerVars, freeVars>>

AdvanceTail(w) ==
  /\ WGoto(w, "advance", "unlock")
  /\ tail' = next[tail]
  /\ UNCHANGED <<head, next, data, heap, mutex, chain, dummy, readerVars, freeVars>>

(* The signal has no effect: no thread of the gateway waits on cond_var.   *)
Unlock(w) ==
  /\ WGoto(w, "unlock", "idle")
  /\ mutex' = NULL
  /\ dummy' = [dummy EXCEPT ![w] = NULL]
  /\ UNCHANGED <<head, tail, next, data, heap, chain, readerVars, freeVars>>

(* The writing thread has inserted its last record and ends.  (A malloc    *)
(* that fails leaves the buffer as it was: a stuttering step.)             *)
Finish(w) ==
  /\ WGoto(w, "idle", "done")
  /\ UNCHANGED <<head, tail, next, data, heap, mutex, chain, dummy, readerVars, freeVars>>

Writer(w) ==
  \/ \E d \in Records : Alloc(w, d)
  \/ Lock(w) \/ LinkFirst(w) \/ SetHead(w) \/ LinkNext(w) \/ AdvanceTail(w)
  \/ Unlock(w) \/ Finish(w)

-----------------------------------------------------------------------------
(* sbuffer_read.  A poll that finds nothing returns SBUFFER_EMPTY and      *)
(* changes nothing.                                                        *)

(* The node after the reader's position, NULL when there is none.          *)
Successor(r) == IF node[r] = NULL THEN head ELSE next[node[r]]

(* Mutant: the record is read from the reader's old position.              *)
ReadStale(r) ==
  /\ Successor(r) # NULL
  /\ RGoto(r, "poll", "advance")
  /\ rec' = [rec EXCEPT ![r] = IF node[r] = NULL THEN data[head] ELSE data[node[r]]]
  /\ UNCHANGED <<head, tail, next, data, heap, mutex, chain, writerVars,
                 node, received, freeVars>>

(* *data = ...->data                                                       *)
ReadCopy(r) ==
  /\ Successor(r) # NULL
  /\ RGoto(r, "poll", "advance")
  /\ rec' = [rec EXCEPT ![r] = data[Successor(r)]]
  /\ UNCHANGED <<head, tail, next, data, heap, mutex, chain, writerVars,
                 node, received, freeVars>>

(* Mutant: a reader that is behind jumps to the newest record.             *)
ReadToTail(r) ==
  /\ RGoto(r, "advance", IF rec[r] = Eos THEN "left" ELSE "poll")
  /\ node' = [node EXCEPT ![r] = tail]
  /\ received' = [received EXCEPT ![r] = Append(@, rec[r])]
  /\ UNCHANGED <<head, tail, next, data, heap, mutex, chain, writerVars,
                 rec, freeVars>>

(* *node = ..., return SBUFFER_SUCCESS; the caller leaves its loop when    *)
(* the record it got has id 0.                                             *)
ReadAdvance(r) ==
  /\ RGoto(r, "advance", IF rec[r] = Eos THEN "left" ELSE "poll")
  /\ node' = [node EXCEPT ![r] = Successor(r)]
  /\ received' = [received EXCEPT ![r] = Append(@, rec[r])]
  /\ UNCHANGED <<head, tail, next, data, heap, mutex, chain, writerVars,
                 rec, freeVars>>

Reader(r) == ReadCopy(r) \/ ReadAdvance(r)

-----------------------------------------------------------------------------
(* sbuffer_free, called by main when the threads have been joined.         *)

(* Mutant: the list is freed without the readers having been joined.       *)
FreeWithoutJoin ==
  /\ mpc = "join" /\ mpc' = "freeing"
  /\ \A w \in Writers : wpc[w] = "done"
  /\ current' = head
  /\ UNCHANGED <<head, tail, next, data, heap, mutex, chain, writerVars, readerVars>>

FreeBegin ==
  /\ mpc = "join" /\ mpc' = "freeing"
  /\ \A w \in Writers : wpc[w] = "done"
  /\ \A r \in Readers : rpc[r] = "left"
  /\ current' = head
  /\ UNCHANGED <<head, tail, next, data, heap, mutex, chain, writerVars, readerVars>>

(* Mutant: the walk skips every other node.                                *)
FreeSkipping ==
  /\ mpc = "freeing" /\ current # NULL
  /\ heap' = heap \ {current}
  /\ current' = IF next[current] = NULL THEN NULL ELSE next[next[current]]
  /\ UNCHANGED <<head, tail, next, data, mutex, chain, writerVars, readerVars, mpc>>

FreeNode ==
  /\ mpc = "freeing" /\ current # NULL
  /\ heap' = heap \ {current}
  /\ current' = next[current]
  /\ UNCHANGED <<head, tail, next, data, mutex, chain, writerVars, readerVars, mpc>>

FreeEnd ==
  /\ mpc = "freeing" /\ current = NULL
  /\ mpc' = "freed"
  /\ UNCHANGED <<head, tail, next, data, heap, mutex, chain, writerVars,
                 readerVars, current>>

Main == FreeBegin \/ FreeNode \/ FreeEnd

-----------------------------------------------------------------------------
Next ==
  \/ \E w \in Writers : Writer(w)
  \/ \E r \in Readers : Reader(r)
  \/ Main

SafeSpec == Init /\ [][Next]_vars

(* The scheduler runs every reader for ever.  Nothing obliges a client to  *)
(* send another record, and a writer may wait for the mutex for ever.      *)
Spec == SafeSpec /\ \A r \in Readers : WF_vars(Reader(r))

-----------------------------------------------------------------------------
(* Properties                                                              *)

Linked == {chain[i] : i \in 1..Len(chain)}
Last   == IF chain = <<>> THEN NULL ELSE chain[Len(chain)]
Owned(w) == wpc[w] \in {"lock", "link", "head"}     (* dummy not yet linked  *)
InCritical(w) == wpc[w] \in {"link", "head", "advance", "unlock"}

(* The list in memory is the chain of the nodes ever linked, without a     *)
(* repetition, and head points to its first node: an insertion never drops *)
(* or reorders what earlier insertions linked (sbuffer_insert).            *)
ChainInMemory ==
  /\ \A i, j \in 1..Len(chain) : chain[i] = chain[j] => i = j
  /\ head = IF chain = <<>> THEN NULL ELSE chain[1]
  /\ \A i \in 1..Len(chain) :
       next[chain[i]] = IF i = Len(chain) THEN NULL ELSE chain[i + 1]

(* Whoever holds buffer->mutex is the one thread between lock and unlock,  *)
(* and tail is the last linked node except inside that section, where it   *)
(* is one store ahead (first insertion) or one store behind.               *)
TailInSection ==
  /\ \A w \in Writers : InCritical(w) <=> mutex = w
  /\ \A w \in Writers :
       /\ wpc[w] = "head" => chain = <<>> /\ tail = dummy[w]
       /\ wpc[w] = "advance" =>
            /\ Len(chain) > 1
            /\ tail = chain[Len(chain) - 1] /\ dummy[w] = chain[Len(chain)]
  /\ (\A w \in Writers : wpc[w] \notin {"head", "advance"}) => tail = Last

(* Nodes under construction are private: allocated, complete, not linked   *)
(* and of one writer only.                                                 *)
PrivateNodes ==
  \A w \in Writers : Owned(w) =>
    /\ dummy[w] \in heap \ Linked
    /\ next[dummy[w]] = NULL /\ data[dummy[w]] \in Records
    /\ \A v \in Writers \ {w} : Owned(v) => dummy[v] # dummy[w]

(* A reader that polls without the mutex is always at a node of the chain, *)
(* has been handed exactly the records up to there, and the copy it is     *)
(* making is of the next one (sbuffer_read).                               *)
ReaderPosition ==
  \A r \in Readers :
    LET k == Len(received[r])
    IN /\ k <= Len(chain)
       /\ node[r] = IF k = 0 THEN NULL ELSE chain[k]
       /\ \A i \in 1..k : received[r][i] = data[chain[i]]
       /\ rpc[r] = "advance" => k < Len(chain) /\ rec[r] = data[chain[k + 1]]
       /\ rpc[r] = "left" <=> k > 0 /\ received[r][k] = Eos

(* The allocated cells are exactly the linked and the private nodes until  *)
(* main frees the list, which then releases every one of them: no leak     *)
(* and no double free (sbuffer_free after the joins of main).              *)
HeapAccounted ==
  /\ \A i \in 1..Len(chain) : data[chain[i]] \in Records
  /\ mpc = "join" => heap = Linked \cup {dummy[w] : w \in {v \in Writers : Owned(v)}}
  /\ mpc # "join" =>
       /\ \A w \in Writers : wpc[w] = "done"
       /\ \A r \in Readers : rpc[r] = "left"
  /\ mpc = "freeing" => \E i \in 1..(Len(chain) + 1) :
       /\ current = IF i > Len(chain) THEN NULL ELSE chain[i]
       /\ heap = {chain[j] : j \in i..Len(chain)}
  /\ mpc = "freed" => heap = {}

(* Every pointer is null or a cell (TypeOK), and no thread follows one into *)
(* a cell that is not allocated (sbuffer_read, sbuffer_insert, sbuffer_free). *)
NoDanglingUse ==
  /\ TypeOK
  /\ \A r \in Readers : rpc[r] # "left" /\ node[r] # NULL => node[r] \in heap
  /\ \A r \in Readers : rpc[r] = "advance" => Successor(r) \in heap
  /\ \A w \in Writers : wpc[w] \in {"link", "advance"} /\ tail # NULL => tail \in heap
  /\ mpc = "freeing" /\ current # NULL => current \in heap

IInv ==
  /\ TypeOK /\ ChainInMemory /\ TailInSection /\ PrivateNodes
  /\ ReaderPosition /\ HeapAccounted

(* The linked list implements the broadcast log: its records are those of  *)
(* the chain.  Checked as a PROPERTY with the fairness of both.            *)
Log == [i \in 1..Len(chain) |-> data[chain[i]]]
BL == INSTANCE BroadcastLog WITH log <- Log
ImplementsBroadcastLog == BL!Spec
=============================================================================
