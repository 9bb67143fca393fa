-------------------------- MODULE SensorFilesProofs -------------------------
(***************************************************************************)
(* Proofs about the program of lab 1: its heap is accounted for, and it    *)
(* implements the data manager of the gateway, for any map, any records,   *)
(* any sensors and any length of the window.                               *)
(***************************************************************************)
EXTENDS SensorFiles, FiniteSetTheorems, SequenceTheorems, TLAPS

(* The list of the data manager that the heap implements, as in the        *)
(* refinement of SensorFiles,                                              *)
List == [i \in 1 .. L!Size |-> value[L!ElementAt(i - 1)]]
(* and its control point.                                                  *)
Phase == CASE pc \in {"fopen", "exit", "map", "insert"} -> "map"
           [] pc \in {"record", "free"} -> "poll"
           [] pc = "freed" -> "freed"
           [] pc \in {"empty", "failed"} -> "exit"

(* What is proved of the list library and of the data manager, over the    *)
(* heap of this program.                                                   *)
LP == INSTANCE DataMgrProofs WITH Indices <- {0}, Values <- Element,
      dpc <- Phase, data_list <- List

(* The assumptions of those proofs follow from the assumption here.        *)
LEMMA ListConstants == LP!DPListAssumption /\ LP!DataMgrAssumption
<1>1. LP!IsFiniteSet(Nodes)
  BY SensorFilesAssumption DEF IsFiniteSet, LP!IsFiniteSet
<1>2. LP!DPListAssumption
  BY <1>1, SensorFilesAssumption DEF LP!DPListAssumption
<1>3. LP!DataMgrAssumption
  BY SensorFilesAssumption DEF LP!DataMgrAssumption
<1>4. QED
  BY <1>2, <1>3

(* L and LP are two instances of one module: their Cardinality,            *)
LEMMA SameCount == \A S : L!Cardinality(S) = LP!Cardinality(S)
BY DEF L!Cardinality, LP!Cardinality

(* their lists,                                                            *)
LEMMA SameWalk == L!Walk = LP!Walk /\ L!Size = LP!Size
<1>1. L!Walk = LP!Walk
  <2> DEFINE N == LP!Cardinality(Nodes)
             F == CHOOSE f : f = [k \in 0 .. N |->
                    IF k = 0 THEN head ELSE IF f[k - 1] = NULL THEN NULL ELSE next[f[k - 1]]]
  <2>1. L!Walk = F
    BY SameCount, Zenon DEF L!Walk
  <2>2. LP!Walk = F
    BY Zenon DEF LP!Walk
  <2>3. QED
    BY <2>1, <2>2
<1>2. QED
  BY <1>1, SameCount DEF L!Size, LP!Size

(* their queries,                                                          *)
LEMMA SameReference ==
  ASSUME NEW i
  PROVE  L!ReferenceAt(i) = LP!ReferenceAt(i) /\ L!ElementAt(i) = LP!ElementAt(i)
<1>1. \A j : L!ReferenceAt(j) = LP!ReferenceAt(j)
  BY DEF L!ReferenceAt, LP!ReferenceAt
<1>2. QED
  BY <1>1 DEF L!ElementAt, LP!ElementAt

(* their insertions at the front,                                          *)
LEMMA SameInsert == ASSUME NEW o, L!Insert(o, 0, FALSE) PROVE LP!Insert(o, 0, FALSE)
<1>1. ASSUME NEW n, L!Link(n, 0) PROVE LP!Link(n, 0)
  BY <1>1, SameWalk, SameReference DEF L!Link, LP!Link, L!LinkFront, LP!LinkFront,
     L!LinkBefore, LP!LinkBefore, L!LinkAfter, LP!LinkAfter
<1>2. QED
  BY <1>1 DEF L!Insert, LP!Insert

(* their first states and the calls that make a list or an element,        *)
LEMMA SameCalls ==
  /\ L!ListInit => LP!ListInit
  /\ L!Create => LP!Create
  /\ \A o, v : L!ClientMakes(o, v) => LP!ClientMakes(o, v)
<1>1. L!ListInit => LP!ListInit
  BY DEF L!ListInit, LP!ListInit
<1>2. L!Create => LP!Create
  <2> SUFFICES ASSUME L!Create PROVE LP!Create
    OBVIOUS
  <2>1. /\ ~exists /\ exists' = TRUE /\ head' = NULL /\ prev' = prev /\ next' = next
        /\ element' = element /\ heap' = heap /\ objects' = objects
        /\ value' = value /\ held' = held
    BY DEF L!Create, L!elements
  <2>2. QED
    BY <2>1 DEF LP!Create, LP!elements
<1>3. ASSUME NEW o, NEW v, L!ClientMakes(o, v) PROVE LP!ClientMakes(o, v)
  <2>1. /\ o \notin objects /\ objects' = objects \cup {o} /\ held' = held \cup {o}
        /\ value' = [value EXCEPT ![o] = v] /\ exists' = exists /\ head' = head
        /\ prev' = prev /\ next' = next /\ element' = element /\ heap' = heap
    BY <1>3, Zenon DEF L!ClientMakes, L!pointers
  <2>2. QED
    BY <2>1, Zenon DEF LP!ClientMakes, LP!pointers
<1>4. QED
  BY <1>1, <1>2, <1>3

(* and their dpl_free are the same.                                        *)
LEMMA SameFree == ASSUME NEW f, L!Free(f) PROVE LP!Free(f)
BY SameWalk DEF L!Free, LP!Free, L!Release, LP!Release

(* What is proved of one holds of the other.                               *)
LEMMA SameOwned == LP!ListInv => L!WellLinked /\ L!ElementsOwned
<1> SUFFICES ASSUME LP!ListInv PROVE L!WellLinked /\ L!ElementsOwned
  OBVIOUS
<1>1. LP!WellLinked /\ LP!ElementsOwned
  BY ListConstants, LP!LinkedWell DEF LP!ListInv
<1>2. L!ListTypeOK
  BY <1>1 DEF LP!WellLinked, LP!ListTypeOK, L!ListTypeOK, LP!Pointer, L!Pointer
<1>3. L!Cardinality(heap) = LP!Cardinality(heap)
  BY SameCount
<1>4. L!WellLinked
  BY <1>1, <1>2, <1>3, SameWalk DEF L!WellLinked, LP!WellLinked
<1>5. L!ElementsOwned
  BY <1>1, Zenon DEF L!ElementsOwned, LP!ElementsOwned
<1>6. QED
  BY <1>4, <1>5

(* The element that a line of the map makes.                               *)
Made(line) ==
  [sensor_id |-> line[2], room_id |-> line[1],
   window |-> [i \in 1 .. RunAvgLength |-> (MaxTemp + MinTemp) \div 2],
   last_modified |-> 0]

(* The control points at which the program has a list.                     *)
HasList == pc \in {"map", "insert", "record", "free", "failed"}

(* The types of the variables that are not the list's.                     *)
FilesType ==
  /\ map \in Seq((1 .. MaxLines) \X (Sensors \cup {Malformed}))
  /\ pc \in {"fopen", "exit", "failed", "map", "insert", "record", "free", "freed", "empty"}
  /\ handled \in Seq([id : Sensors, value : Temps])
  /\ events \in Seq((1 .. MaxMeas) \X {"hot", "cold", "invalid"})

(* What the list is at each control point, which element the parser has in *)
(* hand, which have got lost, and that the elements are the data manager's.*)
InHand ==
  /\ exists <=> HasList
  /\ ~HasList => heap = {} /\ head = NULL /\ objects = lost
  /\ held = lost \cup ({e} \ {NULL}) /\ e \notin lost /\ NULL \notin lost
  /\ e \in Objects \cup {NULL} /\ (e # NULL <=> pc = "insert")
  /\ pc = "insert" =>
       map # <<>> /\ Head(map)[2] # Malformed /\ value[e] = Made(Head(map))
  /\ \A o \in objects : value[o] \in Element

(* The inductive invariant of the program: that of its list, the types,    *)
(* and what is in hand.                                                    *)
FilesInv == LP!ListInv /\ FilesType /\ InHand

(* Such an element is of the right type.                                   *)
LEMMA MadeType ==
  ASSUME NEW line \in (1 .. MaxLines) \X (Sensors \cup {Malformed}), line[2] # Malformed
  PROVE  Made(line) \in Element
<1>1. line[1] \in 1 .. MaxLines /\ line[2] \in Sensors
  OBVIOUS
<1>2. (MaxTemp + MinTemp) \div 2 \in Int
  BY SensorFilesAssumption
<1>3. QED
  BY <1>1, <1>2 DEF Made, Element

(* The initial states satisfy the invariant.                               *)
LEMMA InitFiles == Init => FilesInv
<1> SUFFICES ASSUME Init PROVE FilesInv
  OBVIOUS
<1>1. LP!ListInit
  BY SameCalls DEF Init
<1>2. LP!ListInv
  BY <1>1, ListConstants, LP!InitListInv
<1>3. PICK n \in 0 .. MaxLines :
        \E text \in [1 .. n -> Sensors \cup {Malformed}] :
          map = [i \in 1 .. n |-> <<i, text[i]>>]
  BY DEF Init
<1>4. PICK text \in [1 .. n -> Sensors \cup {Malformed}] :
        map = [i \in 1 .. n |-> <<i, text[i]>>]
  BY <1>3
<1>5. n \in Nat /\ 1 .. n \subseteq 1 .. MaxLines
  BY SensorFilesAssumption
<1>6. map \in Seq((1 .. MaxLines) \X (Sensors \cup {Malformed}))
  BY <1>4, <1>5
<1>7. FilesType
  BY <1>6 DEF FilesType, Init
<1>8. InHand
  BY <1>1, SensorFilesAssumption DEF InHand, HasList, Init, LP!ListInit
<1>9. QED
  BY <1>2, <1>7, <1>8 DEF FilesInv

(* A change of an element in place keeps the list and its chain,           *)
LEMMA PointersStay ==
  ASSUME LP!ListInv, value' \in [Objects -> Element \cup {NULL}],
         UNCHANGED <<exists, head, prev, next, element, heap, objects, held>>
  PROVE  LP!ListInv' /\ \A N, p : LP!Chain(N, p) => LP!Chain(N, p)'
<1>1. LP!ListTypeOK'
  BY DEF LP!ListInv, LP!ListTypeOK, LP!Pointer
<1>2. LP!ElementsOwned'
  BY DEF LP!ListInv, LP!ElementsOwned
<1>3. ASSUME NEW N, NEW p, LP!Chain(N, p) PROVE LP!Chain(N, p)'
  BY <1>3 DEF LP!Chain, LP!Path
<1>4. LP!Linked'
  BY <1>3 DEF LP!ListInv, LP!Linked
<1>5. QED
  BY <1>1, <1>2, <1>3, <1>4 DEF LP!ListInv

(* and so does a step that leaves the list alone.                          *)
LEMMA ListStays ==
  LP!ListInv /\ UNCHANGED list => LP!ListInv' /\ \A N, p : LP!Chain(N, p) => LP!Chain(N, p)'
<1> SUFFICES ASSUME LP!ListInv, UNCHANGED list
             PROVE  LP!ListInv' /\ \A N, p : LP!Chain(N, p) => LP!Chain(N, p)'
  OBVIOUS
<1>1. value' \in [Objects -> Element \cup {NULL}]
  BY DEF list, LP!ListInv, LP!ListTypeOK
<1>2. UNCHANGED <<exists, head, prev, next, element, heap, objects, held>>
  BY DEF list
<1>3. QED
  BY <1>1, <1>2, PointersStay

(* Opening the files keeps the invariant,                                  *)
LEMMA OpenFilesKeeps == ASSUME FilesInv, OpenFiles PROVE FilesInv'
<1> USE DEF FilesInv
<1>1. FilesType'
  BY DEF OpenFiles, FilesType
<1>2. CASE pc' = "map" /\ dpl_create
  <2>1. LP!Create
    BY <1>2, SameCalls DEF dpl_create
  <2>2. LP!ListInv'
    BY <2>1, ListConstants, LP!CreateKeeps
  <2>3. /\ pc = "fopen" /\ e' = e /\ map' = map /\ exists' /\ heap' = heap /\ head' = NULL
        /\ objects' = objects /\ held' = held /\ value' = value /\ lost' = lost
    BY <1>2, <2>1 DEF OpenFiles, LP!Create, LP!elements
  <2>4. InHand'
    BY <1>2, <2>3 DEF InHand, HasList
  <2>5. QED
    BY <1>1, <2>2, <2>4
<1>3. CASE pc' = "exit" /\ UNCHANGED list
  <2>1. LP!ListInv'
    BY <1>3, ListStays
  <2>2. InHand'
    BY <1>3 DEF list, InHand, HasList, OpenFiles
  <2>3. QED
    BY <1>1, <2>1, <2>2
<1>4. QED
  BY <1>2, <1>3 DEF OpenFiles

(* making an element for a line of the map,                                *)
LEMMA MakeElementKeeps == ASSUME FilesInv, MakeElement PROVE FilesInv'
<1> USE DEF FilesInv
<1>1. /\ pc = "map" /\ map # <<>> /\ Head(map)[2] # Malformed
      /\ UNCHANGED <<map, lost, handled, events>>
  BY DEF MakeElement
<1>2. ASSUME NEW o \in Objects, pc' = "insert", e' = o,
             L!ClientMakes(o, Made(Head(map)))
      PROVE  FilesInv'
  <2>1. Made(Head(map)) \in Element
    <3>1. Head(map) \in (1 .. MaxLines) \X (Sensors \cup {Malformed})
      BY <1>1 DEF FilesType
    <3>2. QED
      BY <1>1, <3>1, MadeType
  <2>2. LP!ClientMakes(o, Made(Head(map)))
    BY <1>2, SameCalls
  <2>3. LP!ListInv'
    BY <2>1, <2>2, ListConstants, LP!ClientMakesKeeps
  <2>4. FilesType'
    BY <1>1, <1>2 DEF FilesType
  <2>5. /\ o \notin objects /\ objects' = objects \cup {o} /\ held' = held \cup {o}
        /\ value' = [value EXCEPT ![o] = Made(Head(map))]
        /\ exists' = exists /\ head' = head /\ heap' = heap
    BY <2>2 DEF LP!ClientMakes, LP!pointers
  <2>6. /\ value \in [Objects -> Element \cup {NULL}] /\ objects \subseteq Objects
        /\ held \subseteq objects
    BY DEF LP!ListInv, LP!ListTypeOK
  <2>7. value'[o] = Made(Head(map)) /\ \A x \in objects : value'[x] = value[x]
    BY <2>5, <2>6
  <2>8. o # NULL
    BY SensorFilesAssumption
  <2>9. Made(Head(map))' = Made(Head(map))
    BY <1>1 DEF Made
  <2>10. e = NULL /\ held = lost /\ o \notin lost
    BY <1>1, <2>5, <2>6 DEF InHand
  <2>11. held' = lost' \cup ({e'} \ {NULL}) /\ e' \notin lost' /\ NULL \notin lost'
    BY <1>1, <1>2, <2>5, <2>8, <2>10 DEF InHand
  <2>12. InHand'
    BY <1>1, <1>2, <2>1, <2>5, <2>7, <2>8, <2>9, <2>11 DEF InHand, HasList
  <2>13. QED
    BY <2>3, <2>4, <2>12
<1>3. CASE pc' = "failed" /\ UNCHANGED <<list, e>>
  <2>1. LP!ListInv'
    BY <1>3, ListStays
  <2>2. FilesType' /\ InHand'
    BY <1>1, <1>3 DEF FilesType, InHand, HasList, list
  <2>3. QED
    BY <2>1, <2>2
<1>4. QED
  BY <1>2, <1>3, Zenon DEF MakeElement, Made

(* Inserting the element in hand is one call of the list library, without  *)
(* a copy,                                                                 *)
Inserted ==
  /\ LP!Insert(e, 0, FALSE)
  /\ value' = value /\ objects' = objects /\ held' = lost /\ lost' = lost
  /\ exists' = exists
(* or loses it, without a change of the list.                              *)
Lost == lost' = lost \cup {e} /\ UNCHANGED list

(* It is one of the two.                                                   *)
LEMMA InsertElementIs == ASSUME FilesInv, InsertElement PROVE Inserted \/ Lost
<1>1. CASE dpl_insert_at_index(e, 0) /\ UNCHANGED lost
  <2>1. LP!Insert(e, 0, FALSE)
    BY <1>1, SameInsert DEF dpl_insert_at_index
  <2>2. /\ objects' = objects \cup {e} /\ value' = [value EXCEPT ![e] = value[e]]
        /\ held' = held \ {e} /\ e \in held /\ exists' = exists
    BY <2>1 DEF LP!Insert
  <2>3. value \in [Objects -> Element \cup {NULL}] /\ held \subseteq objects
    BY DEF FilesInv, LP!ListInv, LP!ListTypeOK
  <2>4. held' = lost
    BY <2>2 DEF FilesInv, InHand
  <2>5. QED
    BY <1>1, <2>1, <2>2, <2>3, <2>4 DEF Inserted
<1>2. QED
  BY <1>1 DEF InsertElement, Lost

(* Inserting it keeps the invariant, whether or not its node got memory.   *)
LEMMA InsertElementKeeps == ASSUME FilesInv, InsertElement PROVE FilesInv'
<1> USE DEF FilesInv
<1>1. /\ pc = "insert" /\ pc' = "map" /\ e' = NULL /\ map' = Tail(map)
      /\ handled' = handled /\ events' = events
  BY DEF InsertElement
<1>2. FilesType'
  BY <1>1 DEF FilesType, InHand
<1>3. CASE Inserted
  <2>1. LP!ListInv /\ FALSE \in BOOLEAN /\ 0 \in Int
    OBVIOUS
  <2>2. LP!ListInv'
    BY <1>3, <2>1, ListConstants, LP!InsertKeeps DEF Inserted
  <2>3. InHand'
    BY <1>1, <1>3 DEF InHand, HasList, Inserted
  <2>4. QED
    BY <1>2, <2>2, <2>3
<1>4. CASE Lost
  <2>1. LP!ListInv'
    BY <1>4, ListStays DEF Lost
  <2>2. held' = lost' \cup ({e'} \ {NULL}) /\ e' \notin lost' /\ NULL \notin lost'
    BY <1>1, <1>4, SensorFilesAssumption DEF InHand, Lost, list
  <2>3. InHand'
    BY <1>1, <1>4, <2>2 DEF InHand, HasList, Lost, list
  <2>4. QED
    BY <1>2, <2>1, <2>3
<1>5. QED
  BY <1>3, <1>4, InsertElementIs

(* The chain p of N nodes, as the program sees it through its queries: a   *)
(* different element at each position.                                     *)
Listed(N, p) ==
  /\ LP!Chain(N, p) /\ L!Size = N
  /\ \A k \in 0 .. N - 1 :
       /\ dpl_get_element_at_index(k) = element[p[k]]
       /\ L!ElementAt(k) = element[p[k]]
       /\ p[k] \in heap /\ element[p[k]] \in objects \ held
       /\ \A j \in 0 .. N - 1 : element[p[j]] = element[p[k]] => j = k

(* Every chain is seen so.                                                 *)
LEMMA ListedChain ==
  ASSUME LP!ListInv, NEW N \in Nat, NEW p, LP!Chain(N, p)
  PROVE  Listed(N, p)
<1>1. L!Size = N
  <2>1. heap \in SUBSET Nodes
    BY DEF LP!ListInv, LP!ListTypeOK
  <2>2. QED
    BY <2>1, ListConstants, SameWalk, LP!SizeChain
<1>2. ASSUME NEW k \in 0 .. N - 1
      PROVE  /\ L!ReferenceAt(k) = p[k] /\ p[k] # NULL
             /\ p[k] \in heap /\ element[p[k]] \in objects \ held
             /\ \A j \in 0 .. N - 1 : element[p[j]] = element[p[k]] => j = k
  <2>1. k \in Int /\ N # 0
    OBVIOUS
  <2>2. LP!ReferenceAt(k) = p[LP!Place(k, N - 1)]
    BY <2>1, ListConstants, LP!ReferenceChain
  <2>3. LP!Place(k, N - 1) = k
    BY DEF LP!Place, LP!Sequence!Before
  <2>4. \A j \in 0 .. N - 1 : p[j] \in Nodes /\ p[j] \in heap
    BY DEF LP!Chain, LP!Path
  <2>5. p[k] # NULL
    BY <2>4, SensorFilesAssumption
  <2>6. element[p[k]] \in objects \ held
    BY <2>4 DEF LP!ListInv, LP!ElementsOwned
  <2>7. ASSUME NEW j \in 0 .. N - 1, element[p[j]] = element[p[k]] PROVE j = k
    <3>1. p[j] = p[k]
      BY <2>4, <2>7 DEF LP!ListInv, LP!ElementsOwned
    <3>2. QED
      BY <3>1 DEF LP!Chain, LP!Path
  <2>8. QED
    BY <2>2, <2>3, <2>4, <2>5, <2>6, <2>7, SameReference
<1>3. QED
  BY <1>1, <1>2 DEF Listed, dpl_get_element_at_index, dpl_get_reference_at_index, L!ElementAt

(* The list has such a chain.                                              *)
SizeChained == \E N \in Nat : \E p : Listed(N, p)

(* It does at every control point.                                         *)
LEMMA FilesListed == ASSUME FilesInv PROVE SizeChained
<1>1. PICK N \in Nat : \E p \in [0 .. N - 1 -> Nodes] : LP!Chain(N, p)
  BY DEF FilesInv, LP!ListInv, LP!Linked
<1>2. PICK p : LP!Chain(N, p)
  BY <1>1
<1>3. Listed(N, p)
  BY <1>2, ListedChain DEF FilesInv
<1>4. QED
  BY <1>3 DEF SizeChained

(* The search stops at the first position that matches.                    *)
LEMMA FirstMatch ==
  ASSUME NEW N \in Nat, NEW p, Listed(N, p), NEW id, Matches(id) # {}
  PROVE  /\ Min(Matches(id)) \in 0 .. N - 1
         /\ value[element[p[Min(Matches(id))]]].sensor_id = id
         /\ \A k \in 0 .. N - 1 :
              value[element[p[k]]].sensor_id = id => Min(Matches(id)) <= k
<1>1. Matches(id) = {k \in 0 .. N - 1 : value[element[p[k]]].sensor_id = id}
  BY DEF Matches, Listed, dpl_size
<1> HIDE DEF Matches
<1>2. Matches(id) \in SUBSET Nat
  BY <1>1
<1>3. \E x \in Matches(id) : \A y \in Matches(id) : x <= y
  BY <1>2, ListConstants, LP!NatLeast
<1>4. Min(Matches(id)) \in Matches(id) /\ \A y \in Matches(id) : Min(Matches(id)) <= y
  BY <1>3 DEF Min
<1> HIDE DEF Min
<1>5. QED
  BY <1>1, <1>4

(* The window of element x after the measurement temp,                     *)
Slid(x, temp) == [i \in 1 .. RunAvgLength |-> IF i = 1 THEN temp ELSE x.window[i - 1]]
(* and the element with that window.                                       *)
Moved(x, temp, n) == [x EXCEPT !.window = Slid(x, temp), !.last_modified = n]

(* It is of the right type.                                                *)
LEMMA MovedType ==
  ASSUME NEW x \in Element, NEW temp \in Int, NEW n \in Nat
  PROVE  Moved(x, temp, n) \in Element
<1>1. \A k \in 1 .. RunAvgLength : k # 1 => k - 1 \in 1 .. RunAvgLength
  BY SensorFilesAssumption
<1>2. x.window \in [1 .. RunAvgLength -> Int]
  BY DEF Element
<1>3. Slid(x, temp) \in [1 .. RunAvgLength -> Int]
  BY <1>1, <1>2 DEF Slid
<1>4. QED
  BY <1>3 DEF Element, Moved

(* What a record of sensor id does: the element at the first position that *)
(* matches, and no other, moves its window.                                *)
Recorded(N, p, id, temp) ==
  LET m == Min(Matches(id))
      o == element[p[m]]
  IN  /\ o \in Objects /\ o \in objects
      /\ value[o] \in Element
      /\ value' = [value EXCEPT ![o] = Moved(value[o], temp, Len(handled) + 1)]
      /\ value' \in [Objects -> Element \cup {NULL}]
      /\ value'[o] = Moved(value[o], temp, Len(handled) + 1)
      /\ value'[o] \in Element
      /\ \A x \in Objects : x # o => value'[x] = value[x]
      /\ events' = events \o Line(Len(handled) + 1, Slid(value[o], temp))

(* ReadRecord does it.                                                     *)
LEMMA ReadRecordIs ==
  ASSUME FilesInv, NEW N \in Nat, NEW p, Listed(N, p),
         NEW id \in Sensors, NEW temp \in Temps, ReadRecord(id, temp)
  PROVE  Recorded(N, p, id, temp)
<1> DEFINE m == Min(Matches(id))
           o == element[p[m]]
           n == Len(handled) + 1
<1>1. m \in 0 .. N - 1
  BY FirstMatch DEF ReadRecord
<1>2. dpl_get_element_at_index(m) = o /\ o \in objects
  BY <1>1 DEF Listed
<1>3. /\ value' = [value EXCEPT ![o].window = Slid(value[o], temp),
                                ![o].last_modified = n]
      /\ events' = events \o Line(n, Slid(value[o], temp))
  BY <1>2, Zenon DEF ReadRecord, Slid
<1>4. /\ value \in [Objects -> Element \cup {NULL}] /\ o \in Objects
      /\ value[o] \in Element /\ n \in Nat /\ temp \in Int
  BY <1>2, SensorFilesAssumption DEF FilesInv, InHand, FilesType, LP!ListInv, LP!ListTypeOK
<1>5. Moved(value[o], temp, n) \in Element
  BY <1>4, MovedType
<1> HIDE DEF m, o, n
<1>6. value' = [value EXCEPT ![o] = Moved(value[o], temp, n)]
  BY <1>3, <1>4 DEF Element, Moved
<1>7. QED
  <2>1. /\ value'[o] = Moved(value[o], temp, n)
        /\ \A x \in Objects : x # o => value'[x] = value[x]
        /\ value' \in [Objects -> Element \cup {NULL}]
    BY <1>4, <1>5, <1>6
  <2>2. QED
    BY <1>2, <1>3, <1>4, <1>5, <1>6, <2>1 DEF Recorded, m, o, n

(* A record keeps the invariant: the element changes in place, through a   *)
(* pointer, while the list owns it.                                        *)
LEMMA ReadRecordKeeps ==
  ASSUME FilesInv, NEW id \in Sensors, NEW temp \in Temps, ReadRecord(id, temp)
  PROVE  FilesInv'
<1>1. PICK N \in Nat : \E p : Listed(N, p)
  BY FilesListed DEF SizeChained
<1>2. PICK p : Listed(N, p)
  BY <1>1
<1>3. Recorded(N, p, id, temp)
  BY <1>2, ReadRecordIs
<1> DEFINE o == element[p[Min(Matches(id))]]
           n == Len(handled) + 1
<1>4. /\ value' \in [Objects -> Element \cup {NULL}]
      /\ value'[o] \in Element /\ \A x \in Objects : x # o => value'[x] = value[x]
      /\ events' = events \o Line(n, Slid(value[o], temp))
  BY <1>3 DEF Recorded
<1> HIDE DEF o
<1>5. /\ pc = "record" /\ n <= MaxMeas
      /\ handled' = Append(handled, [id |-> id, value |-> temp])
      /\ UNCHANGED <<exists, head, prev, next, element, heap, objects, held, map, pc, e, lost>>
  BY DEF ReadRecord
<1>6. LP!ListInv'
  BY <1>4, <1>5, PointersStay DEF FilesInv
<1>7. FilesType'
  <2>1. handled \in Seq([id : Sensors, value : Temps])
        /\ events \in Seq((1 .. MaxMeas) \X {"hot", "cold", "invalid"}) /\ n \in 1 .. MaxMeas
    BY <1>5, SensorFilesAssumption DEF FilesInv, FilesType
  <2>2. handled' \in Seq([id : Sensors, value : Temps])
    BY <1>5, <2>1
  <2>3. Line(n, Slid(value[o], temp)) \in Seq((1 .. MaxMeas) \X {"hot", "cold", "invalid"})
    <3> DEFINE l == Line(n, Slid(value[o], temp))
    <3>1. l = <<<<n, "hot">>>> \/ l = <<<<n, "cold">>>> \/ l = <<>>
      BY Zenon DEF Line
    <3>2. <<n, "hot">> \in (1 .. MaxMeas) \X {"hot", "cold", "invalid"}
          /\ <<n, "cold">> \in (1 .. MaxMeas) \X {"hot", "cold", "invalid"}
      BY <2>1
    <3> DEFINE T == (1 .. MaxMeas) \X {"hot", "cold", "invalid"}
    <3> HIDE DEF l, T
    <3>3. \A t \in T : <<t>> \in Seq(T)
      OBVIOUS
    <3>4. <<>> \in Seq(T)
      OBVIOUS
    <3>5. l \in Seq(T)
      <4>1. <<n, "hot">> \in T /\ <<n, "cold">> \in T
        BY <3>2 DEF T
      <4>2. QED
        BY <3>1, <3>3, <3>4, <4>1, Zenon
    <3>6. QED
      BY <3>5 DEF l, T
  <2>4. events' \in Seq((1 .. MaxMeas) \X {"hot", "cold", "invalid"})
    BY <1>4, <2>1, <2>3, ConcatProperties
  <2>5. QED
    BY <1>5, <2>2, <2>4 DEF FilesInv, FilesType
<1>8. InHand'
  <2>1. objects \subseteq Objects
    BY DEF FilesInv, LP!ListInv, LP!ListTypeOK
  <2>2. \A x \in objects : value'[x] \in Element
    BY <1>4, <2>1 DEF FilesInv, InHand
  <2>3. QED
    BY <1>5, <2>2 DEF FilesInv, InHand, HasList
<1>9. QED
  BY <1>6, <1>7, <1>8 DEF FilesInv

(* A record of an unknown sensor keeps it,                                 *)
LEMMA ReadWrongKeeps ==
  ASSUME FilesInv, NEW id \in Sensors, NEW temp \in Temps, ReadWrong(id, temp)
  PROVE  FilesInv'
<1>1. LP!ListInv'
  BY ListStays DEF FilesInv, ReadWrong
<1>2. FilesType'
  <2>1. handled \in Seq([id : Sensors, value : Temps])
        /\ events \in Seq((1 .. MaxMeas) \X {"hot", "cold", "invalid"})
        /\ Len(handled) + 1 \in 1 .. MaxMeas
    BY SensorFilesAssumption DEF FilesInv, FilesType, ReadWrong
  <2>2. handled' \in Seq([id : Sensors, value : Temps])
    BY <2>1 DEF ReadWrong
  <2>3. events' \in Seq((1 .. MaxMeas) \X {"hot", "cold", "invalid"})
    BY <2>1 DEF ReadWrong
  <2>4. QED
    BY <2>2, <2>3 DEF FilesInv, FilesType, ReadWrong
<1>3. InHand'
  BY DEF FilesInv, InHand, HasList, ReadWrong, list
<1>4. QED
  BY <1>1, <1>2, <1>3 DEF FilesInv

(* and datamgr_free, which leaves nothing on the heap but what was lost.   *)
LEMMA FreeListKeeps ==
  ASSUME FilesInv, FreeList
  PROVE  FilesInv' /\ head' = NULL /\ heap' = {} /\ objects' = lost
<1> USE DEF FilesInv
<1>1. LP!Free(TRUE)
  BY SameFree DEF FreeList, dpl_free
<1>2. LP!ListInv' /\ heap' = {} /\ head' = NULL /\ ~exists'
  BY <1>1, ListConstants, LP!FreeKeeps
<1>3. held' = held /\ value' = value
  BY <1>1 DEF LP!Free, LP!Release
<1>4. pc = "free" /\ pc' \in {"empty", "freed"} /\ map' = map /\ e' = e
      /\ lost' = lost /\ handled' = handled /\ events' = events
  BY DEF FreeList
<1>5. held = lost
  BY <1>4 DEF InHand
<1>6. objects' = lost
  BY <1>2, <1>3, <1>5 DEF LP!ListInv, LP!ElementsOwned
<1>7. FilesType'
  BY <1>4 DEF FilesType
<1>8. \A o \in objects' : value'[o] \in Element
  <2>1. held \subseteq objects
    BY DEF LP!ListInv, LP!ListTypeOK
  <2>2. QED
    BY <1>3, <1>5, <1>6, <2>1 DEF InHand
<1>9. InHand'
  BY <1>2, <1>3, <1>4, <1>5, <1>6, <1>8 DEF InHand, HasList
<1>10. QED
  BY <1>2, <1>6, <1>7, <1>9

(* The inductive invariant of the program of lab 1, for any map and any    *)
(* sequence of records.                                                    *)
THEOREM FilesInvariant == Spec => []FilesInv
<1>1. FilesInv /\ [Next]_vars => FilesInv'
  <2> SUFFICES ASSUME FilesInv, [Next]_vars PROVE FilesInv'
    OBVIOUS
  <2>1. CASE OpenFiles
    BY <2>1, OpenFilesKeeps
  <2>2. CASE MakeElement
    BY <2>2, MakeElementKeeps
  <2>3. CASE InsertElement
    BY <2>3, InsertElementKeeps
  <2>4. CASE MapRead \/ PrintSensors
    <3>1. LP!ListInv'
      BY <2>4, ListStays DEF FilesInv, MapRead, PrintSensors
    <3>2. FilesType' /\ InHand'
      BY <2>4 DEF FilesInv, FilesType, InHand, HasList, MapRead, PrintSensors, list
    <3>3. QED
      BY <3>1, <3>2 DEF FilesInv
  <2>5. CASE FreeList
    BY <2>5, FreeListKeeps
  <2>6. ASSUME NEW id \in Sensors, NEW temp \in Temps, ReadRecord(id, temp) PROVE FilesInv'
    BY <2>6, ReadRecordKeeps
  <2>7. ASSUME NEW id \in Sensors, NEW temp \in Temps, ReadWrong(id, temp) PROVE FilesInv'
    BY <2>7, ReadWrongKeeps
  <2>8. CASE UNCHANGED vars
    <3>1. UNCHANGED <<list, map, pc, e, lost, handled, events>>
      BY <2>8 DEF vars
    <3>2. LP!ListInv'
      BY <3>1, ListStays DEF FilesInv
    <3>3. FilesType' /\ InHand'
      BY <3>1 DEF FilesInv, FilesType, InHand, HasList, Made, list
    <3>4. QED
      BY <3>2, <3>3 DEF FilesInv
  <2>9. QED
    BY <2>1, <2>2, <2>3, <2>4, <2>5, <2>6, <2>7, <2>8 DEF Next
<1>2. QED
  BY <1>1, InitFiles, PTL DEF Spec

(* Through every call and every change in place the list stays well linked *)
(* and owns every element but the one in hand and those whose node got no  *)
(* memory; when main gets to its end, or never gets to a list, those lost  *)
(* elements are all that is left on the heap.                              *)
THEOREM ListAlwaysOwnsAll == Spec => []ListOwnsAll
<1>1. FilesInv => ListOwnsAll
  BY SameOwned DEF FilesInv, InHand, HasList, ListOwnsAll
<1>2. QED
  BY <1>1, FilesInvariant, PTL

-----------------------------------------------------------------------------
(* The control point, case by case,                                        *)
LEMMA PhaseIs ==
  /\ pc \in {"fopen", "exit", "map", "insert"} => Phase = "map"
  /\ pc \in {"record", "free"} => Phase = "poll"
  /\ pc = "freed" => Phase = "freed"
  /\ pc \in {"empty", "failed"} => Phase = "exit"
BY DEF Phase

(* That list is the values along the chain:                                *)
LEMMA ListIs ==
  ASSUME NEW N \in Nat, NEW p, Listed(N, p)
  PROVE  List = [k \in 1 .. N |-> value[element[p[k - 1]]]]
<1>1. \A k \in 1 .. N : L!ElementAt(k - 1) = element[p[k - 1]]
  BY DEF Listed
<1>2. QED
  BY <1>1, Zenon DEF List, Listed

(* the sequence that the list library promises.                            *)
LEMMA ListItems ==
  ASSUME LP!ListInv
  PROVE  /\ List = LP!Items
         /\ List \in Seq(Element \cup {NULL}) /\ Len(List) = L!Size
         /\ head = NULL => List = <<>>
         /\ head # NULL => List # <<>>
<1>1. PICK N \in Nat : \E p \in [0 .. N - 1 -> Nodes] : LP!Chain(N, p)
  BY DEF LP!ListInv, LP!Linked
<1>2. PICK p : LP!Chain(N, p)
  BY <1>1
<1>3. Listed(N, p)
  BY <1>2, ListedChain
<1>4. List = [k \in 1 .. N |-> value[element[p[k - 1]]]]
  BY <1>3, ListIs
<1>5. /\ LP!Items = LP!ValuesOf(N, p, element, value)
      /\ LP!Items \in Seq(Element \cup {NULL}) /\ Len(LP!Items) = N
  BY <1>2, ListConstants, LP!ValuesType
<1>6. List = LP!Items
  BY <1>4, <1>5 DEF LP!ValuesOf
<1>7. head = NULL <=> N = 0
  BY <1>2, ListConstants, LP!ChainEmpty
<1>8. QED
  BY <1>3, <1>5, <1>6, <1>7 DEF Listed

(* Inserting the element in hand puts it at the front of the list.         *)
LEMMA InsertsFront ==
  ASSUME FilesInv, InsertElement, Inserted
  PROVE  List' = <<Made(Head(map))>> \o List
<1>1. LP!Insert(e, 0, FALSE)
  BY DEF Inserted
<1>2. FALSE \in BOOLEAN /\ 0 \in Int /\ LP!ListInv /\ LP!ListInv'
  BY InsertElementKeeps DEF FilesInv
<1>3. LP!Sequence!Insert(value[e], 0)
  BY <1>1, <1>2, ListConstants, LP!InsertPromise
<1>4. LP!Items' = LP!Sequence!InsertAt(LP!Items, 1, value[e])
  BY <1>3 DEF LP!Sequence!Insert, LP!Sequence!Before
<1>5. List = LP!Items /\ List \in Seq(Element \cup {NULL})
  BY <1>2, ListItems
<1>6. List' = LP!Items'
  <2>1. (LP!ListInv => List = LP!Items)'
    BY ListItems, PTL
  <2>2. QED
    BY <1>2, <2>1
<1>7. value[e] = Made(Head(map)) /\ value[e] \in Element
  BY <1>1 DEF FilesInv, InHand, InsertElement, LP!Insert, LP!ListInv, LP!ListTypeOK
<1>8. LP!Sequence!InsertAt(List, 1, value[e]) = <<value[e]>> \o List
  <2>1. SubSeq(List, 1, 0) = <<>> /\ SubSeq(List, 1, Len(List)) = List
    BY <1>5
  <2>2. <<>> \o <<value[e]>> = <<value[e]>>
    OBVIOUS
  <2>3. QED
    BY <2>1, <2>2 DEF LP!Sequence!InsertAt
<1>9. QED
  BY <1>4, <1>5, <1>6, <1>7, <1>8

(* Element i of the list is the first of its sensor, and it moves.         *)
MovesAt(i, id, temp) ==
  /\ i \in 1 .. Len(List) /\ List[i] \in Element
  /\ List[i].sensor_id = id
  /\ \A k \in 1 .. Len(List) : List[k].sensor_id = id => i <= k
  /\ List' = [List EXCEPT ![i] = Moved(List[i], temp, Len(handled) + 1)]
  /\ events' = events \o Line(Len(handled) + 1, Slid(List[i], temp))

(* A record moves the element that the search finds.                       *)
LEMMA MovesFound ==
  ASSUME FilesInv, NEW id \in Sensors, NEW temp \in Temps, ReadRecord(id, temp)
  PROVE  MovesAt(Min(Matches(id)) + 1, id, temp)
<1>1. PICK N \in Nat : \E p : Listed(N, p)
  BY FilesListed DEF SizeChained
<1>2. PICK p : Listed(N, p)
  BY <1>1
<1> DEFINE m == Min(Matches(id))
           i == m + 1
           o == element[p[m]]
           n == Len(handled) + 1
<1>3. Recorded(N, p, id, temp)
  BY <1>2, ReadRecordIs
<1>4. /\ m \in 0 .. N - 1 /\ value[o].sensor_id = id
      /\ \A k \in 0 .. N - 1 : value[element[p[k]]].sensor_id = id => m <= k
  BY <1>2, FirstMatch DEF ReadRecord
<1>5. List = [k \in 1 .. N |-> value[element[p[k - 1]]]]
  BY <1>2, ListIs
<1>6. /\ LP!Chain(N, p)' /\ LP!ListInv'
  <2>1. value' \in [Objects -> Element \cup {NULL}]
    BY <1>3 DEF Recorded
  <2>2. UNCHANGED <<exists, head, prev, next, element, heap, objects, held>>
    BY DEF ReadRecord
  <2>3. QED
    BY <1>2, <2>1, <2>2, PointersStay DEF FilesInv, Listed
<1>7. List' = [k \in 1 .. N |-> value'[element[p[k - 1]]]]
  <2>1. (LP!ListInv /\ LP!Chain(N, p) => Listed(N, p))'
    BY ListedChain, PTL
  <2>2. (Listed(N, p) => List = [k \in 1 .. N |-> value[element[p[k - 1]]]])'
    BY ListIs, PTL
  <2>3. element' = element
    BY DEF ReadRecord
  <2>4. QED
    BY <1>6, <2>1, <2>2, <2>3
<1>8. /\ value[o] \in Element /\ value'[o] = Moved(value[o], temp, n)
      /\ \A x \in Objects : x # o => value'[x] = value[x]
      /\ events' = events \o Line(n, Slid(value[o], temp))
  BY <1>3 DEF Recorded
<1>9. \A k \in 1 .. N : /\ k - 1 \in 0 .. N - 1
                        /\ element[p[k - 1]] \in Objects
                        /\ k # i => element[p[k - 1]] # o
  BY <1>2, <1>4 DEF Listed, FilesInv, LP!ListInv, LP!ListTypeOK
<1>10. i \in 1 .. N /\ i - 1 = m /\ List[i] = value[o] /\ Len(List) = N
  BY <1>4, <1>5
<1>11. List' = [List EXCEPT ![i] = Moved(List[i], temp, n)]
  <2>1. \A k \in 1 .. N : value'[element[p[k - 1]]]
                            = IF k = i THEN Moved(List[i], temp, n) ELSE List[k]
    BY <1>5, <1>8, <1>9, <1>10
  <2> DEFINE y == Moved(List[i], temp, n)
  <2> HIDE DEF y, m
  <2>2. [List EXCEPT ![i] = y] = [k \in 1 .. N |-> IF k = i THEN y ELSE List[k]]
    BY <1>5
  <2>3. QED
    BY <1>7, <2>1, <2>2, Zenon DEF y
<1>12. \A k \in 1 .. N : List[k].sensor_id = id => i <= k
  BY <1>4, <1>5, <1>9
<1>13. QED
  BY <1>4, <1>8, <1>10, <1>11, <1>12 DEF MovesAt

(* The initial states are initial states of the data manager.              *)
LEMMA InitRefines == Init => Manager!Init
<1> SUFFICES ASSUME Init PROVE Manager!Init
  OBVIOUS
<1>1. List = <<>>
  <2>1. FilesInv /\ head = NULL
    BY InitFiles DEF Init, L!ListInit
  <2>2. QED
    BY <2>1, ListItems DEF FilesInv
<1>2. Phase = "map"
  BY PhaseIs DEF Init
<1>3. QED
  BY <1>1, <1>2 DEF Init, Manager!Init, List, Phase

(* A step that leaves the heap alone leaves the list alone.                *)
LEMMA ListUnchanged == ASSUME UNCHANGED list PROVE List' = List
<1>1. UNCHANGED <<head, next, element, value>>
  BY DEF list
<1>2. L!Size' = L!Size
  BY <1>1 DEF L!Size, L!Walk
<1>3. \A i : L!ElementAt(i)' = L!ElementAt(i)
  <2>1. ASSUME NEW i PROVE L!ReferenceAt(i)' = L!ReferenceAt(i)
    BY <1>1 DEF L!ReferenceAt
  <2>2. QED
    BY <1>1, <2>1 DEF L!ElementAt
<1>4. QED
  BY <1>1, <1>2, <1>3, Zenon DEF List

(* The data manager does not see the step.                                 *)
Stutters == Phase' = Phase /\ List' = List /\ UNCHANGED <<map, handled, events>>

(* and in the next state.                                                  *)
LEMMA PhaseNext ==
  /\ pc' \in {"fopen", "exit", "map", "insert"} => Phase' = "map"
  /\ pc' \in {"record", "free"} => Phase' = "poll"
  /\ pc' = "freed" => Phase' = "freed"
  /\ pc' \in {"empty", "failed"} => Phase' = "exit"
BY DEF Phase

(* It does not see the files being opened,                                 *)
LEMMA OpenFilesRefines == ASSUME FilesInv, OpenFiles PROVE Stutters
<1>1. pc = "fopen" /\ UNCHANGED <<map, handled, events>> /\ pc' \in {"map", "exit"}
  BY DEF OpenFiles
<1>2. Phase' = Phase
  BY <1>1, PhaseIs, PhaseNext
<1>3. CASE UNCHANGED list
  BY <1>1, <1>2, <1>3, ListUnchanged DEF Stutters
<1>4. CASE dpl_create
  <2>1. head = NULL /\ List = <<>>
    BY <1>1, ListItems DEF FilesInv, InHand, HasList
  <2>2. head' = NULL
    BY <1>4 DEF dpl_create, L!Create
  <2>3. (LP!ListInv /\ head = NULL => List = <<>>)'
    BY ListItems, PTL
  <2>4. LP!ListInv'
    BY OpenFilesKeeps DEF FilesInv
  <2>5. QED
    BY <1>1, <1>2, <2>1, <2>2, <2>3, <2>4 DEF Stutters
<1>5. QED
  BY <1>3, <1>4 DEF OpenFiles

(* nor an element being made: it is not in the list yet.                   *)
LEMMA MadeRefines ==
  ASSUME FilesInv, MakeElement, pc' = "insert", NEW o \in Objects,
         L!ClientMakes(o, Made(Head(map)))
  PROVE  Stutters
<1>1. pc = "map" /\ UNCHANGED <<map, handled, events>>
  BY DEF MakeElement
<1>2. Phase' = Phase
  BY <1>1, PhaseIs, PhaseNext
<1>3. PICK N \in Nat : \E p : Listed(N, p)
  BY FilesListed DEF SizeChained
<1>4. PICK p : Listed(N, p)
  BY <1>3
<1>5. /\ o \notin objects /\ value' = [value EXCEPT ![o] = Made(Head(map))]
      /\ UNCHANGED <<head, prev, next, element, heap>>
  BY DEF L!ClientMakes, L!pointers
<1>6. LP!ListInv' /\ LP!Chain(N, p)'
  <2>1. LP!Chain(N, p)
    BY <1>4 DEF Listed
  <2>2. LP!Chain(N, p)'
    BY <1>5, <2>1 DEF LP!Chain, LP!Path
  <2>3. QED
    BY <2>2, MakeElementKeeps DEF FilesInv
<1>7. List = [k \in 1 .. N |-> value[element[p[k - 1]]]]
  BY <1>4, ListIs
<1>8. List' = [k \in 1 .. N |-> value'[element[p[k - 1]]]]
  <2>1. (LP!ListInv /\ LP!Chain(N, p) => Listed(N, p))'
    BY ListedChain, PTL
  <2>2. (Listed(N, p) => List = [k \in 1 .. N |-> value[element[p[k - 1]]]])'
    BY ListIs, PTL
  <2>3. QED
    BY <1>5, <1>6, <2>1, <2>2
<1>9. \A k \in 1 .. N : value'[element[p[k - 1]]] = value[element[p[k - 1]]]
  <2> SUFFICES ASSUME NEW k \in 1 .. N
               PROVE  value'[element[p[k - 1]]] = value[element[p[k - 1]]]
    OBVIOUS
  <2>1. k - 1 \in 0 .. N - 1
    OBVIOUS
  <2>2. element[p[k - 1]] \in objects /\ objects \subseteq Objects
    BY <1>4, <2>1 DEF Listed, FilesInv, LP!ListInv, LP!ListTypeOK
  <2>3. value \in [Objects -> Element \cup {NULL}]
    BY DEF FilesInv, LP!ListInv, LP!ListTypeOK
  <2>4. QED
    BY <1>5, <2>2, <2>3
<1>10. List' = List
  BY <1>7, <1>8, <1>9, Zenon
<1>11. QED
  BY <1>1, <1>2, <1>10 DEF Stutters

(* Without memory for the element the data manager ends too.               *)
LEMMA MakeElementRefines ==
  ASSUME FilesInv, MakeElement PROVE Stutters \/ Manager!NoElement
<1>1. ASSUME NEW o \in Objects, pc' = "insert", L!ClientMakes(o, Made(Head(map)))
      PROVE  Stutters
  BY <1>1, MadeRefines
<1>2. CASE pc' = "failed" /\ UNCHANGED <<list, e>>
  <2>1. /\ pc = "map" /\ map # <<>> /\ Head(map)[2] # Malformed
        /\ UNCHANGED <<map, handled, events>>
    BY DEF MakeElement
  <2>2. Phase = "map" /\ Phase' = "exit" /\ List' = List
    BY <1>2, <2>1, PhaseIs, PhaseNext, ListUnchanged
  <2>3. QED
    BY <2>1, <2>2 DEF Manager!NoElement, List, Phase
<1>3. QED
  BY <1>1, <1>2, Zenon DEF MakeElement, Made

(* Its insertion is the reading of a line, or the data manager too has no  *)
(* memory for the node,                                                    *)
LEMMA InsertElementRefines ==
  ASSUME FilesInv, InsertElement PROVE Manager!ReadLine \/ Manager!NoNode
<1>1. /\ pc = "insert" /\ pc' = "map" /\ map' = Tail(map) /\ UNCHANGED <<handled, events>>
      /\ map # <<>> /\ Head(map)[2] # Malformed
  BY DEF InsertElement, FilesInv, InHand
<1>2. Phase = "map" /\ Phase' = "map"
  BY <1>1, PhaseIs, PhaseNext
<1>3. CASE Inserted
  <2>1. List' = <<Made(Head(map))>> \o List
    BY <1>3, InsertsFront
  <2>2. Made(Head(map)) = [sensor_id |-> Head(map)[2], room_id |-> Head(map)[1],
                           window |-> [i \in 1 .. RunAvgLength |-> Manager!Preset],
                           last_modified |-> 0]
    BY DEF Made, Manager!Preset
  <2>3. QED
    BY <1>1, <1>2, <2>1, <2>2 DEF Manager!ReadLine, List, Phase
<1>4. CASE Lost
  <2>1. List' = List
    BY <1>4, ListUnchanged DEF Lost
  <2>2. QED
    BY <1>1, <1>2, <2>1 DEF Manager!NoNode, List, Phase
<1>5. QED
  BY <1>3, <1>4, InsertElementIs

(* the end of the map is the end of the map,                               *)
LEMMA MapReadRefines == ASSUME FilesInv, MapRead PROVE Manager!MapRead
<1>1. /\ pc = "map" /\ pc' = "record" /\ (map # <<>> => Head(map)[2] = Malformed)
      /\ UNCHANGED <<map, handled, events>> /\ UNCHANGED list
  BY DEF MapRead
<1>2. Phase = "map" /\ Phase' = "poll" /\ List' = List
  BY <1>1, PhaseIs, PhaseNext, ListUnchanged
<1>3. QED
  BY <1>1, <1>2 DEF Manager!MapRead, List, Phase

(* and datamgr_free the end of the stream.                                 *)
LEMMA FreeListRefines == ASSUME FilesInv, FreeList PROVE Manager!EndOfStream
<1>1. /\ pc = "free" /\ pc' = (IF head = NULL THEN "empty" ELSE "freed")
      /\ UNCHANGED <<map, handled, events>>
  BY DEF FreeList
<1>2. Phase = "poll" /\ Phase' = IF head = NULL THEN "exit" ELSE "freed"
  BY <1>1, PhaseIs, PhaseNext
<1>3. head = NULL <=> List = <<>>
  BY ListItems DEF FilesInv
<1>4. List' = <<>>
  <2>1. (LP!ListInv /\ head = NULL => List = <<>>)'
    BY ListItems, PTL
  <2>2. QED
    BY <2>1, FreeListKeeps DEF FilesInv
<1>5. QED
  BY <1>1, <1>2, <1>3, <1>4 DEF Manager!EndOfStream, List, Phase

(* The record as the data manager has it.                                  *)
Taken(id, temp) == [id |-> id, value |-> temp]

(* A record of a known sensor updates the same element in both programs,   *)
LEMMA ReadRecordRefines ==
  ASSUME FilesInv, NEW id \in Sensors, NEW temp \in Temps, ReadRecord(id, temp)
  PROVE  Manager!HandleMapped(Taken(id, temp))
<1> DEFINE i == Min(Matches(id)) + 1
           n == Len(handled) + 1
           w == Slid(List[i], temp)
<1>1. MovesAt(i, id, temp)
  BY MovesFound
<1>2. /\ pc = "record" /\ n <= MaxMeas
      /\ handled' = Append(handled, Taken(id, temp)) /\ UNCHANGED <<map, pc>>
  BY DEF ReadRecord, Taken
<1>3. Phase = "poll" /\ Phase' = Phase
  BY <1>2, PhaseIs, PhaseNext
<1> HIDE DEF i
<1>4. Len(List) \in Nat /\ i \in 1 .. Len(List) /\ List \in Seq(Element \cup {NULL})
  BY <1>1, ListItems DEF MovesAt, FilesInv
<1> DEFINE S == {k \in 1 .. Len(List) : List[k].sensor_id = id}
<1>5. i \in S /\ \A k \in S : i <= k
  BY <1>1 DEF MovesAt
<1>6. Manager!Matches(id) = S
  BY Zenon DEF Manager!Matches, List
<1>7. Manager!Found(id) = i
  <2> DEFINE f == CHOOSE x \in S : \A k \in S : x <= k
  <2>1. S \in SUBSET Nat
    BY <1>4
  <2> HIDE DEF S
  <2>2. f \in S /\ \A k \in S : f <= k
    BY <1>5
  <2>3. f = i
    <3> HIDE DEF f
    <3>1. f \in Nat /\ i \in Nat /\ f <= i /\ i <= f
      BY <1>5, <2>1, <2>2
    <3>2. QED
      BY <3>1
  <2>4. Manager!Found(id) = f
    BY <1>6, Zenon DEF Manager!Found
  <2>5. QED
    BY <2>3, <2>4
<1>8. Manager!Shift(List[i].window, temp) = w
  BY Zenon DEF Manager!Shift, Slid
<1>9. List' = [List EXCEPT ![i].window = w, ![i].last_modified = n]
  <2>1. List' = [List EXCEPT ![i] = Moved(List[i], temp, n)] /\ List[i] \in Element
    BY <1>1 DEF MovesAt
  <2> HIDE DEF S, n
  <2>2. QED
    BY <1>4, <2>1 DEF Moved, Element
<1>10. events' = Manager!Report(n, w)
  <2>1. \A x : Manager!WindowSum(x) = WindowSum(x)
    BY DEF Manager!WindowSum, WindowSum
  <2>2. events \in Seq((1 .. MaxMeas) \X {"hot", "cold", "invalid"})
    BY DEF FilesInv, FilesType
  <2>3. \A x : events \o <<x>> = Append(events, x)
    BY <2>2
  <2>4. events \o <<>> = events
    BY <2>2
  <2>5. events' = events \o Line(n, w)
    BY <1>1 DEF MovesAt
  <2> HIDE DEF w, n
  <2>6. QED
    BY <2>1, <2>3, <2>4, <2>5, Zenon DEF Line, Manager!Report
<1>11. S # {}
  BY <1>5
<1>12. QED
  <2>1. Taken(id, temp).id = id /\ Taken(id, temp).value = temp
    BY DEF Taken
  <2> HIDE DEF S, w, n
  <2>2. /\ Phase = "poll" /\ Manager!Matches(Taken(id, temp).id) # {} /\ n <= MaxMeas
        /\ List' = [List EXCEPT ![i].window = w, ![i].last_modified = n]
        /\ events' = Manager!Report(n, w)
        /\ handled' = Append(handled, Taken(id, temp))
        /\ map' = map /\ Phase' = Phase
    BY <1>2, <1>3, <1>6, <1>9, <1>10, <1>11, <2>1
  <2>3. n = Len(handled) + 1 /\ i = Manager!Found(Taken(id, temp).id)
        /\ w = Manager!Shift(List[i].window, Taken(id, temp).value)
    BY <1>7, <1>8, <2>1 DEF n
  <2>4. QED
    BY <2>2, <2>3, Zenon DEF Manager!HandleMapped, List, Phase

(* and one of an unknown sensor is invalid in both.                        *)
LEMMA ReadWrongRefines ==
  ASSUME FilesInv, NEW id \in Sensors, NEW temp \in Temps, ReadWrong(id, temp)
  PROVE  Manager!HandleUnmapped(Taken(id, temp))
<1>1. /\ pc = "record" /\ Len(handled) < MaxMeas /\ Matches(id) = {}
      /\ events' = Append(events, <<Len(handled) + 1, "invalid">>)
      /\ handled' = Append(handled, Taken(id, temp))
      /\ UNCHANGED <<map, pc>> /\ UNCHANGED list
  BY DEF ReadWrong, Taken
<1>2. Phase = "poll" /\ Phase' = Phase /\ List' = List
  BY <1>1, PhaseIs, PhaseNext, ListUnchanged
<1>3. PICK N \in Nat : \E p : Listed(N, p)
  BY FilesListed DEF SizeChained
<1>4. PICK p : Listed(N, p)
  BY <1>3
<1>5. List = [k \in 1 .. N |-> value[element[p[k - 1]]]] /\ L!Size = N
  BY <1>4, ListIs DEF Listed
<1>6. Matches(id) = {k \in 0 .. N - 1 : value[element[p[k]]].sensor_id = id}
  BY <1>4 DEF Matches, Listed, dpl_size
<1>7. \A k \in 1 .. N : List[k].sensor_id # id
  <2> SUFFICES ASSUME NEW k \in 1 .. N PROVE List[k].sensor_id # id
    OBVIOUS
  <2>1. k - 1 \in 0 .. N - 1
    OBVIOUS
  <2>2. QED
    BY <1>1, <1>5, <1>6, <2>1
<1>8. Manager!Matches(id) = {}
  <2>1. Len(List) = N
    BY <1>5, ListItems DEF FilesInv
  <2>2. {k \in 1 .. Len(List) : List[k].sensor_id = id} = {}
    BY <1>7, <2>1
  <2>3. QED
    BY <2>2, Zenon DEF Manager!Matches, List
<1>9. Taken(id, temp).id = id
  BY DEF Taken
<1>10. QED
  BY <1>1, <1>2, <1>8, <1>9 DEF Manager!HandleUnmapped, List, Phase

(* The program of lab 1, over its heap and its linked list, implements the *)
(* data manager over a sequence: the same element found, the same windows, *)
(* the same messages, for any map and any records.                         *)
THEOREM FilesRefineDataMgr == Spec => ImplementsDataMgr
<1>1. FilesInv /\ [Next]_vars => [Manager!Next]_Manager!vars
  <2> SUFFICES ASSUME FilesInv, [Next]_vars PROVE Manager!Next \/ UNCHANGED Manager!vars
    OBVIOUS
  <2>1. Stutters => UNCHANGED Manager!vars
    BY DEF Stutters, Manager!vars, List, Phase
  <2>2. CASE OpenFiles \/ MakeElement
    BY <2>1, <2>2, OpenFilesRefines, MakeElementRefines DEF Manager!Next
  <2>3. CASE InsertElement
    BY <2>3, InsertElementRefines DEF Manager!Next
  <2>4. CASE MapRead
    BY <2>4, MapReadRefines DEF Manager!Next
  <2>5. CASE PrintSensors
    <3>1. Phase = "poll" /\ Phase' = "poll"
      BY <2>5, PhaseIs, PhaseNext DEF PrintSensors
    <3>2. Stutters
      BY <2>5, <3>1, ListUnchanged DEF PrintSensors, Stutters
    <3>3. QED
      BY <2>1, <3>2
  <2>6. CASE FreeList
    BY <2>6, FreeListRefines DEF Manager!Next
  <2>7. ASSUME NEW id \in Sensors, NEW temp \in Temps, ReadRecord(id, temp) \/ ReadWrong(id, temp)
        PROVE  Manager!Next
    <3>1. Taken(id, temp) \in Manager!Record
      BY DEF Taken, Manager!Record
    <3>2. Manager!HandleMapped(Taken(id, temp)) \/ Manager!HandleUnmapped(Taken(id, temp))
      BY <2>7, ReadRecordRefines, ReadWrongRefines
    <3>3. QED
      BY <3>1, <3>2 DEF Manager!Next
  <2>8. CASE UNCHANGED vars
    <3>1. UNCHANGED list /\ pc' = pc /\ UNCHANGED <<map, handled, events>>
      BY <2>8 DEF vars
    <3>2. Stutters
      BY <3>1, ListUnchanged DEF Stutters, Phase
    <3>3. QED
      BY <2>1, <3>2
  <2>9. QED
    BY <2>2, <2>3, <2>4, <2>5, <2>6, <2>7, <2>8 DEF Next
<1>2. QED
  BY <1>1, InitRefines, FilesInvariant, PTL DEF Spec, ImplementsDataMgr, Manager!Spec

-----------------------------------------------------------------------------
(* Manager and LP are two instances of DataMgr with the same arguments.    *)
LEMMA SameManager ==
  /\ Manager!Init => LP!Init
  /\ Manager!Next => LP!Next
  /\ UNCHANGED Manager!vars => UNCHANGED LP!vars
<1>1. Manager!Init => LP!Init
  BY Zenon DEF Manager!Init, LP!Init, List, Phase
<1>2. UNCHANGED Manager!vars => UNCHANGED LP!vars
  BY Zenon DEF Manager!vars, LP!vars, List, Phase
<1>3. Manager!Record = LP!Record
  BY Zenon DEF Manager!Record, LP!Record
<1>4. \A id : Manager!Matches(id) = LP!Matches(id) /\ Manager!Found(id) = LP!Found(id)
  BY Zenon DEF Manager!Matches, LP!Matches, Manager!Found, LP!Found, List
<1>5. \A n, w : Manager!Report(n, w) = LP!Report(n, w)
  BY Zenon DEF Manager!Report, LP!Report, Manager!WindowSum, LP!WindowSum
<1>6. Manager!Next => LP!Next
  <2>1. Manager!ReadLine => LP!ReadLine
    BY Zenon DEF Manager!ReadLine, LP!ReadLine, Manager!Preset, LP!Preset, List, Phase
  <2>2. Manager!MapRead => LP!MapRead
    BY Zenon DEF Manager!MapRead, LP!MapRead, List, Phase
  <2>3. Manager!EndOfStream => LP!EndOfStream
    BY Zenon DEF Manager!EndOfStream, LP!EndOfStream, List, Phase
  <2>4. ASSUME NEW r, Manager!HandleMapped(r) PROVE LP!HandleMapped(r)
    <3> DEFINE n == Len(handled) + 1
               Moves(i, w) ==
                 /\ Phase = "poll" /\ LP!Matches(r.id) # {} /\ n <= MaxMeas
                 /\ List' = [List EXCEPT ![i].window = w, ![i].last_modified = n]
                 /\ events' = LP!Report(n, w)
                 /\ handled' = Append(handled, r)
                 /\ UNCHANGED <<map, Phase>>
    <3>1. \A w, v : Manager!Shift(w, v) = LP!Shift(w, v)
      BY Zenon DEF Manager!Shift, LP!Shift
    <3>2. Moves(Manager!Found(r.id), Manager!Shift(List[Manager!Found(r.id)].window, r.value))
      BY <1>4, <1>5, <2>4, Zenon DEF Manager!HandleMapped, List, Phase
    <3>3. Moves(LP!Found(r.id), LP!Shift(List[LP!Found(r.id)].window, r.value))
      <4> HIDE DEF Moves
      <4>1. QED
        BY <1>4, <3>1, <3>2, Zenon
    <3>4. QED
      BY <3>3, Zenon DEF LP!HandleMapped, List, Phase
  <2>5. ASSUME NEW r, Manager!HandleUnmapped(r) PROVE LP!HandleUnmapped(r)
    BY <1>4, <2>5, Zenon DEF Manager!HandleUnmapped, LP!HandleUnmapped, List, Phase
  <2>6. (\E r \in Manager!Record : Manager!HandleMapped(r) \/ Manager!HandleUnmapped(r)) => LP!Next
    BY <1>3, <2>4, <2>5, Zenon DEF LP!Next
  <2>7. Manager!NoElement => LP!NoElement
    BY Zenon DEF Manager!NoElement, LP!NoElement, List, Phase
  <2>8. Manager!NoNode => LP!NoNode
    BY Zenon DEF Manager!NoNode, LP!NoNode, List, Phase
  <2>9. LP!ReadLine \/ LP!NoElement \/ LP!NoNode \/ LP!MapRead \/ LP!EndOfStream => LP!Next
    BY Zenon DEF LP!Next
  <2>10. QED
    BY <2>1, <2>2, <2>3, <2>6, <2>7, <2>8, <2>9, Zenon DEF Manager!Next
<1>7. QED
  BY <1>1, <1>2, <1>6

(* What is proved of the data manager therefore holds of the elements that *)
(* the program of lab 1 keeps on its heap and changes in place: the first  *)
(* element of a sensor has its latest measurements, and a line is printed  *)
(* about a record exactly when it should be.                               *)
THEOREM FilesWindowsAndEvents == Spec => [](LP!WindowsRecent /\ LP!EventsExact)
<1>1. Spec => LP!Spec
  BY FilesRefineDataMgr, SameManager, PTL DEF ImplementsDataMgr, Manager!Spec, LP!Spec
<1>2. LP!Spec => []LP!WindowsRecent
  BY ListConstants, LP!WindowsAlwaysRecent
<1>3. LP!Spec => []LP!EventsExact
  BY ListConstants, LP!EventsAlwaysExact
<1>4. QED
  BY <1>1, <1>2, <1>3, PTL
====
