---------------------------- MODULE DataMgrProofs ---------------------------
(***************************************************************************)
(* Proofs about the list library, and about the data manager that keeps    *)
(* its sensors in such a list. First the library, for any number of nodes, *)
(* elements and values and any indices its client may pass; then the data  *)
(* manager, for any sensors, temperatures, limits, maps and lengths of the *)
(* window. The two specifications share no variable: what the data manager *)
(* does over a list on the heap is proved in SensorFilesProofs.            *)
(***************************************************************************)
EXTENDS DPList, DataMgr, FiniteSetTheorems, SequenceTheorems, WellFoundedInduction, TLAPS


(* A set of natural numbers that is not empty has a least element.         *)
LEMMA NatLeast ==
  ASSUME NEW T \in SUBSET Nat, T # {}
  PROVE  \E x \in T : \A y \in T : x <= y
<1>1. IsWellFoundedOn(OpToRel(<, Nat), Nat)
  BY NatLessThanWellFounded
<1> DEFINE R == OpToRel(<, Nat)
<1>2. \A x, y \in Nat : <<x, y>> \in R <=> x < y
  BY DEF OpToRel
<1> HIDE DEF R
<1>3. \E x \in T : \A y \in T : ~ (<<y, x>> \in R)
  BY <1>1, WFMin DEF R
<1>4. PICK x \in T : \A y \in T : ~ (<<y, x>> \in R)
  BY <1>3
<1>5. \A y \in T : ~ (y < x)
  BY <1>2, <1>4
<1>6. QED
  BY <1>5

(* Induction over the natural numbers, stated of a set: the form in which  *)
(* the proofs below use it.                                                *)
LEMMA SetInduction ==
  ASSUME NEW T \in SUBSET Nat, 0 \in T, \A n \in T : n + 1 \in T
  PROVE  T = Nat
<1> SUFFICES ASSUME Nat \ T # {} PROVE FALSE
  OBVIOUS
<1>1. PICK x \in Nat \ T : \A y \in Nat \ T : x <= y
  <2> DEFINE U == Nat \ T
  <2>1. U \in SUBSET Nat /\ U # {}
    OBVIOUS
  <2> HIDE DEF U
  <2>2. \E x \in U : \A y \in U : x <= y
    BY <2>1, NatLeast
  <2>3. QED
    BY <2>2 DEF U
<1>2. x # 0 /\ x - 1 \in Nat /\ ~(x <= x - 1)
  BY <1>1
<1>3. x - 1 \in T
  BY <1>1, <1>2
<1>4. (x - 1) + 1 = x
  BY <1>1
<1>5. QED
  BY <1>1, <1>3, <1>4

(* N different nodes in a row *)
Path(N, p) ==
  /\ p \in [0 .. N - 1 -> Nodes]
  /\ \A j, k \in 0 .. N - 1 : p[j] = p[k] => j = k

(* These nodes are the list: next leads from each to the one behind it,    *)
(* prev to the one before it, head to the first, and the heap holds no     *)
(* other.                                                                  *)
Chain(N, p) ==
  /\ Path(N, p)
  /\ heap = {p[k] : k \in 0 .. N - 1}
  /\ head = IF N = 0 THEN NULL ELSE p[0]
  /\ \A k \in 0 .. N - 1 : next[p[k]] = IF k = N - 1 THEN NULL ELSE p[k + 1]
  /\ \A k \in 0 .. N - 1 : prev[p[k]] = IF k = 0 THEN NULL ELSE p[k - 1]

(* The nodes on the heap form one chain.                                   *)
Linked == \E N \in Nat : \E p \in [0 .. N - 1 -> Nodes] : Chain(N, p)

(* The heap has room for a finite number of nodes.                         *)
LEMMA CapacityType == Cardinality(Nodes) \in Nat
BY DPListAssumption, FS_CardinalityType

(* A chain has as many nodes as there are on the heap.                     *)
LEMMA ChainLength ==
  ASSUME NEW N \in Nat, NEW p, Chain(N, p), heap \in SUBSET Nodes
  PROVE  N <= Cardinality(Nodes) /\ N = Cardinality(heap)
<1>1. IsFiniteSet(heap) /\ Cardinality(heap) <= Cardinality(Nodes)
  BY DPListAssumption, FS_Subset
<1>2. IsFiniteSet(0 .. N - 1) /\ Cardinality(0 .. N - 1) = N
  <2>1. /\ IsFiniteSet(0 .. N - 1)
        /\ Cardinality(0 .. N - 1) = IF 0 > N - 1 THEN 0 ELSE (N - 1) - 0 + 1
    BY FS_Interval
  <2>2. QED
    BY <2>1
<1>3. p \in Bijection(0 .. N - 1, heap)
  BY DEF Chain, Path, Bijection, Injection, Surjection, IsInjective
<1>4. Cardinality(0 .. N - 1) = Cardinality(heap)
  BY <1>1, <1>2, <1>3, FS_Bijection DEF ExistsBijection
<1>5. QED
  BY <1>1, <1>2, <1>4

(* Going from node to node from head on visits the chain in its order,     *)
(* then stays at NULL.                                                     *)
LEMMA WalkChain ==
  ASSUME NEW N \in Nat, NEW p, Chain(N, p), heap \in SUBSET Nodes
  PROVE  Walk = [k \in 0 .. Cardinality(Nodes) |-> IF k < N THEN p[k] ELSE NULL]
<1> DEFINE C == Cardinality(Nodes)
           W == [k \in 0 .. C |-> IF k < N THEN p[k] ELSE NULL]
<1>0. C \in Nat /\ N <= C
  BY CapacityType, ChainLength
<1> HIDE DEF C
<1>1. W = [k \in 0 .. C |->
             IF k = 0 THEN head ELSE IF W[k - 1] = NULL THEN NULL ELSE next[W[k - 1]]]
  <2> SUFFICES ASSUME NEW k \in 0 .. C
               PROVE  W[k] = IF k = 0 THEN head
                             ELSE IF W[k - 1] = NULL THEN NULL ELSE next[W[k - 1]]
    BY Zenon
  <2>1. CASE k = 0
    BY <1>0, <2>1 DEF Chain, Path
  <2>2. CASE k # 0
    <3>1. k - 1 \in 0 .. C /\ W[k - 1] = IF k - 1 < N THEN p[k - 1] ELSE NULL
      BY <1>0, <2>2
    <3>2. CASE k - 1 < N
      <4>1. k - 1 \in 0 .. N - 1 /\ p[k - 1] \in Nodes
        BY <1>0, <2>2, <3>2 DEF Chain, Path
      <4>2. p[k - 1] # NULL
        BY <4>1, DPListAssumption
      <4>3. next[p[k - 1]] = IF k - 1 = N - 1 THEN NULL ELSE p[(k - 1) + 1]
        BY <4>1 DEF Chain, Path
      <4>4. QED
        BY <1>0, <2>2, <3>1, <3>2, <4>2, <4>3
    <3>3. CASE ~(k - 1 < N)
      BY <1>0, <2>2, <3>1, <3>3
    <3>4. QED
      BY <3>2, <3>3
  <2>3. QED
    BY <2>1, <2>2
<1> HIDE DEF W
<1>2. Walk = [k \in 0 .. C |->
                IF k = 0 THEN head ELSE IF Walk[k - 1] = NULL THEN NULL ELSE next[Walk[k - 1]]]
  BY <1>1, Zenon DEF Walk, C
<1>3. \A k \in Nat : k \in 0 .. C => Walk[k] = W[k]
  <2> DEFINE T == {k \in Nat : k \in 0 .. C => Walk[k] = W[k]}
  <2>1. 0 \in T
    BY <1>0, <1>1, <1>2
  <2>2. ASSUME NEW k \in T PROVE k + 1 \in T
    <3> SUFFICES ASSUME k + 1 \in 0 .. C PROVE Walk[k + 1] = W[k + 1]
      OBVIOUS
    <3>1. Walk[k] = W[k] /\ (k + 1) - 1 = k /\ k + 1 # 0
      BY <1>0, <2>2
    <3>2. W[k + 1] = IF W[k] = NULL THEN NULL ELSE next[W[k]]
      BY <1>1, <3>1
    <3>3. Walk[k + 1] = IF Walk[k] = NULL THEN NULL ELSE next[Walk[k]]
      BY <1>2, <3>1
    <3>4. QED
      BY <3>1, <3>2, <3>3
  <2> HIDE DEF T
  <2>3. T = Nat
    <3>1. T \in SUBSET Nat
      BY DEF T
    <3>2. QED
      BY <2>1, <2>2, <3>1, SetInduction
  <2>4. QED
    BY <2>3 DEF T
<1>4. Walk = W
  <2>1. \A k \in 0 .. C : Walk[k] = W[k]
    BY <1>0, <1>3
  <2>2. Walk = [k \in 0 .. C |-> Walk[k]] /\ W = [k \in 0 .. C |-> W[k]]
    BY <1>1, <1>2
  <2>3. QED
    BY <2>1, <2>2
<1>5. QED
  BY <1>4 DEF W, C

(* dpl_size counts the nodes of the chain, and all of the heap is reached. *)
LEMMA SizeChain ==
  ASSUME NEW N \in Nat, NEW p, Chain(N, p), heap \in SUBSET Nodes
  PROVE  Size = N /\ {Walk[k] : k \in DOMAIN Walk} \ {NULL} = heap
<1>0. Cardinality(Nodes) \in Nat /\ N <= Cardinality(Nodes)
  BY CapacityType, ChainLength
<1>1. Walk = [k \in 0 .. Cardinality(Nodes) |-> IF k < N THEN p[k] ELSE NULL]
  BY WalkChain
<1>2. \A k \in 0 .. N - 1 : p[k] \in Nodes /\ p[k] # NULL
  BY DPListAssumption DEF Chain, Path
<1>3. {k \in DOMAIN Walk : Walk[k] # NULL} = 0 .. N - 1
  BY <1>0, <1>1, <1>2
<1>4. Cardinality(0 .. N - 1) = N
  <2>1. Cardinality(0 .. N - 1) = IF 0 > N - 1 THEN 0 ELSE (N - 1) - 0 + 1
    BY FS_Interval
  <2>2. QED
    BY <2>1
<1>5. {Walk[k] : k \in DOMAIN Walk} \ {NULL} = {p[k] : k \in 0 .. N - 1}
  <2>1. ASSUME NEW k \in DOMAIN Walk, Walk[k] # NULL PROVE k \in 0 .. N - 1 /\ Walk[k] = p[k]
    BY <1>0, <1>1, <2>1
  <2>2. ASSUME NEW k \in 0 .. N - 1 PROVE k \in DOMAIN Walk /\ Walk[k] = p[k] /\ p[k] # NULL
    BY <1>0, <1>1, <1>2
  <2>3. QED
    BY <2>1, <2>2
<1>6. QED
  BY <1>3, <1>4, <1>5 DEF Size, Chain

(* The position that index i names among the positions 0 .. n. *)
Place(i, n) == Sequence!Before(i, n)

(* dpl_get_reference_at_index returns the node at the place the index      *)
(* names: the first below 0, the last beyond the end.                      *)
LEMMA ReferenceChain ==
  ASSUME NEW N \in Nat, NEW p, Chain(N, p), NEW i \in Int
  PROVE  ReferenceAt(i) = IF N = 0 THEN NULL ELSE p[Place(i, N - 1)]
<1> DEFINE C == [k \in Nat |-> IF N = 0 THEN NULL ELSE p[Place(k, N - 1)]]
           F == CHOOSE f : f = [k \in Nat |-> IF k = 0 \/ head = NULL THEN head
                                ELSE IF next[f[k - 1]] = NULL THEN f[k - 1] ELSE next[f[k - 1]]]
<1>0. \A k \in 0 .. N - 1 : p[k] \in Nodes /\ p[k] # NULL
  BY DPListAssumption DEF Chain, Path
<1>1. C = [k \in Nat |-> IF k = 0 \/ head = NULL THEN head
                         ELSE IF next[C[k - 1]] = NULL THEN C[k - 1] ELSE next[C[k - 1]]]
  <2> SUFFICES ASSUME NEW k \in Nat
               PROVE  C[k] = IF k = 0 \/ head = NULL THEN head
                             ELSE IF next[C[k - 1]] = NULL THEN C[k - 1] ELSE next[C[k - 1]]
    BY Zenon
  <2>1. CASE N = 0
    BY <2>1 DEF Chain, Path
  <2>2. CASE N # 0 /\ k = 0
    BY <2>2 DEF Chain, Path, Place, Sequence!Before
  <2>3. CASE N # 0 /\ k # 0
    <3>1. head # NULL
      BY <1>0, <2>3 DEF Chain, Path
    <3> DEFINE j == Place(k - 1, N - 1)
    <3>2. j \in 0 .. N - 1 /\ C[k - 1] = p[j]
      BY <2>3 DEF Place, Sequence!Before
    <3>3. next[p[j]] = IF j = N - 1 THEN NULL ELSE p[j + 1]
      BY <3>2 DEF Chain, Path
    <3>4. CASE k < N
      <4>1. j = k - 1 /\ j # N - 1 /\ j + 1 = k /\ k \in 0 .. N - 1
        BY <2>3, <3>4 DEF Place, Sequence!Before
      <4>2. C[k] = p[k]
        BY <2>3, <3>4 DEF Place, Sequence!Before
      <4>3. p[k] # NULL
        BY <1>0, <4>1
      <4> HIDE DEF j, C
      <4>4. next[C[k - 1]] = p[k]
        BY <3>2, <3>3, <4>1
      <4>5. QED
        BY <2>3, <3>1, <4>2, <4>3, <4>4
    <3>5. CASE ~(k < N)
      <4>1. j = N - 1
        BY <2>3, <3>5 DEF Place, Sequence!Before
      <4>2. C[k] = p[N - 1]
        BY <2>3, <3>5 DEF Place, Sequence!Before
      <4> HIDE DEF j, C
      <4>3. QED
        BY <2>3, <3>1, <3>2, <3>3, <4>1, <4>2
    <3>6. QED
      BY <3>4, <3>5
  <2>4. QED
    BY <2>1, <2>2, <2>3
<1> HIDE DEF C
<1>2. F = [k \in Nat |-> IF k = 0 \/ head = NULL THEN head
                         ELSE IF next[F[k - 1]] = NULL THEN F[k - 1] ELSE next[F[k - 1]]]
  BY <1>1, Zenon
<1>3. ReferenceAt(i) = IF i <= 0 THEN head ELSE F[i]
  BY DEF ReferenceAt
<1> HIDE DEF F
<1>4. \A k \in Nat : F[k] = C[k]
  <2> DEFINE T == {k \in Nat : F[k] = C[k]}
  <2>1. 0 \in T
    BY <1>1, <1>2
  <2>2. ASSUME NEW k \in T PROVE k + 1 \in T
    <3>1. k + 1 \in Nat /\ (k + 1) - 1 = k /\ k + 1 # 0 /\ F[k] = C[k]
      BY <2>2
    <3>2. C[k + 1] = IF head = NULL THEN head ELSE IF next[C[k]] = NULL THEN C[k] ELSE next[C[k]]
      BY <1>1, <3>1
    <3>3. F[k + 1] = IF head = NULL THEN head ELSE IF next[F[k]] = NULL THEN F[k] ELSE next[F[k]]
      BY <1>2, <3>1
    <3>4. QED
      BY <3>1, <3>2, <3>3
  <2> HIDE DEF T
  <2>3. T \in SUBSET Nat
    BY DEF T
  <2>4. T = Nat
    BY <2>1, <2>2, <2>3, SetInduction
  <2>5. QED
    BY <2>4 DEF T
<1>5. \A k \in Nat : F[k] = IF N = 0 THEN NULL ELSE p[Place(k, N - 1)]
  BY <1>4 DEF C
<1>6. QED
  <2>1. CASE i <= 0
    BY <1>3, <2>1 DEF Chain, Path, Place, Sequence!Before
  <2>2. CASE ~(i <= 0)
    BY <1>3, <1>5, <2>2
  <2>3. QED
    BY <2>1, <2>2

(* dpl_get_index_of_element returns a position where the value stands, and *)
(* none before it has that value.                                          *)
LEMMA IndexChain ==
  ASSUME NEW N \in Nat, NEW p, Chain(N, p), heap \in SUBSET Nodes, NEW v
  PROVE  /\ IndexOf(v) # -1 => IndexOf(v) \in 0 .. N - 1 /\ value[element[p[IndexOf(v)]]] = v
         /\ \A k \in 0 .. N - 1 : value[element[p[k]]] = v => IndexOf(v) \in 0 .. k
<1> DEFINE M(j) == value[element[p[j]]] = v
           L(k) == {j \in k .. N - 1 : M(j) /\ \A i \in k .. j - 1 : ~M(i)}
           C == Cardinality(Nodes)
           G == [k \in 0 .. C |-> IF L(k) = {} THEN -1 ELSE CHOOSE j \in L(k) : TRUE]
           F == CHOOSE f : f = [k \in 0 .. C |-> IF Walk[k] = NULL THEN -1
                                 ELSE IF value[element[Walk[k]]] = v THEN k ELSE f[k + 1]]
<1>1. C \in Nat /\ N <= C
  BY CapacityType, ChainLength
<1>2. \A k \in 0 .. C : Walk[k] = IF k < N THEN p[k] ELSE NULL
  BY WalkChain
<1>3. \A k \in 0 .. N - 1 : p[k] # NULL
  BY DPListAssumption DEF Chain, Path
<1>4. IndexOf(v) = F[0]
  BY DEF IndexOf
<1> HIDE DEF C
<1>5. ASSUME NEW k \in 0 .. N - 1
      PROVE  L(k) = IF M(k) THEN {k} ELSE L(k + 1)
  <2> HIDE DEF M
  <2>1. CASE M(k)
    BY <2>1
  <2>2. CASE ~M(k)
    <3>1. ASSUME NEW j \in L(k) PROVE j \in L(k + 1)
      BY <2>2, <3>1
    <3>2. ASSUME NEW j \in L(k + 1) PROVE j \in L(k)
      BY <2>2, <3>2
    <3>3. QED
      BY <2>2, <3>1, <3>2
  <2>3. QED
    BY <2>1, <2>2
<1>6. \A k \in 0 .. C : k >= N => L(k) = {}
  BY <1>1
<1>7. G = [k \in 0 .. C |-> IF Walk[k] = NULL THEN -1
                            ELSE IF value[element[Walk[k]]] = v THEN k ELSE G[k + 1]]
  <2>1. ASSUME NEW k \in 0 .. C
        PROVE  G[k] = IF Walk[k] = NULL THEN -1
                      ELSE IF value[element[Walk[k]]] = v THEN k ELSE G[k + 1]
    <3>1. CASE k < N /\ M(k)
      <4>1. k \in 0 .. N - 1 /\ Walk[k] = p[k] /\ p[k] # NULL
        BY <1>1, <1>2, <1>3, <3>1
      <4>2. L(k) = {k}
        BY <1>5, <3>1, <4>1
      <4>3. G[k] = k
        <5> HIDE DEF L
        <5>1. (CHOOSE j \in {k} : TRUE) = k
          OBVIOUS
        <5>2. QED
          BY <4>2, <5>1
      <4> HIDE DEF G, L
      <4>4. QED
        BY <3>1, <4>1, <4>3
    <3>2. CASE k < N /\ ~M(k)
      <4>1. k \in 0 .. N - 1 /\ k + 1 \in 0 .. C /\ Walk[k] = p[k] /\ p[k] # NULL
        BY <1>1, <1>2, <1>3, <3>2
      <4>2. L(k) = L(k + 1)
        BY <1>5, <3>2, <4>1
      <4>3. G[k] = G[k + 1]
        <5> HIDE DEF L
        <5>1. QED
          BY <4>1, <4>2
      <4> HIDE DEF G, L
      <4>4. QED
        BY <3>2, <4>1, <4>3
    <3>3. CASE ~(k < N)
      <4>1. Walk[k] = NULL /\ L(k) = {}
        BY <1>1, <1>2, <1>6, <3>3
      <4> HIDE DEF L
      <4>2. QED
        BY <4>1
    <3>4. QED
      BY <3>1, <3>2, <3>3
  <2>2. G = [k \in 0 .. C |-> G[k]]
    <3> HIDE DEF L
    <3>1. QED
      OBVIOUS
  <2> HIDE DEF G, L, M
  <2>3. QED
    BY <2>1, <2>2
<1> HIDE DEF G
<1>8. F = [k \in 0 .. C |-> IF Walk[k] = NULL THEN -1
                            ELSE IF value[element[Walk[k]]] = v THEN k ELSE F[k + 1]]
  BY <1>7, Zenon
<1> HIDE DEF F
<1>9. \A d \in Nat : d <= N => F[N - d] = G[N - d]
  <2> DEFINE T == {d \in Nat : d <= N => F[N - d] = G[N - d]}
  <2>1. 0 \in T
    <3>1. N \in 0 .. C /\ Walk[N] = NULL /\ N - 0 = N
      BY <1>1, <1>2
    <3>2. F[N] = -1 /\ G[N] = -1
      BY <1>7, <1>8, <3>1
    <3>3. QED
      BY <3>1, <3>2
  <2>2. ASSUME NEW d \in T PROVE d + 1 \in T
    <3> SUFFICES ASSUME d + 1 <= N PROVE F[N - (d + 1)] = G[N - (d + 1)]
      OBVIOUS
    <3> DEFINE k == N - (d + 1)
    <3>1. k \in 0 .. C /\ k + 1 = N - d /\ d <= N
      BY <1>1, <2>2
    <3>2. F[k + 1] = G[k + 1]
      BY <2>2, <3>1
    <3> HIDE DEF k
    <3>3. F[k] = G[k]
      BY <1>7, <1>8, <3>1, <3>2
    <3>4. QED
      BY <3>3 DEF k
  <2> HIDE DEF T
  <2>3. T \in SUBSET Nat
    BY DEF T
  <2>4. T = Nat
    BY <2>1, <2>2, <2>3, SetInduction
  <2>5. QED
    BY <2>4 DEF T
<1>10. F[0] = IF L(0) = {} THEN -1 ELSE CHOOSE j \in L(0) : TRUE
  <2>1. N <= N /\ N - N = 0 /\ 0 \in 0 .. C
    BY <1>1
  <2>2. F[0] = G[0]
    BY <1>9, <2>1
  <2>3. QED
    BY <2>1, <2>2 DEF G
<1>11. F[0] # -1 => F[0] \in L(0)
  <2> HIDE DEF L
  <2>1. QED
    BY <1>10
<1>12. ASSUME NEW k \in 0 .. N - 1, M(k) PROVE F[0] \in 0 .. k
  <2> HIDE DEF M
  <2> DEFINE S == {j \in 0 .. N - 1 : M(j)}
  <2>1. S \in SUBSET Nat /\ S # {}
    BY <1>12
  <2>2. \E j \in S : \A i \in S : j <= i
    <3> HIDE DEF S
    <3>1. QED
      BY <2>1, NatLeast
  <2>3. PICK j \in S : \A i \in S : j <= i
    BY <2>2
  <2>4. j \in L(0)
    <3>1. \A i \in 0 .. j - 1 : i \in 0 .. N - 1 /\ ~(j <= i)
      BY <2>3
    <3>2. \A i \in 0 .. j - 1 : ~M(i)
      BY <2>3, <3>1
    <3>3. QED
      BY <2>3, <3>2
  <2>5. F[0] \in L(0)
    <3> HIDE DEF L
    <3>1. QED
      BY <1>10, <2>4
  <2>6. ~(k < F[0])
    BY <1>12, <2>5
  <2>7. QED
    BY <1>12, <2>5, <2>6
<1>13. QED
  BY <1>4, <1>11, <1>12

(* The chain with node n put in front of position b *)
Put(p, N, b, n) == [k \in 0 .. N |-> IF k < b THEN p[k] ELSE IF k = b THEN n ELSE p[k - 1]]
(* and without the node at position b. *)
Cut(p, N, b) == [k \in 0 .. N - 2 |-> IF k < b THEN p[k] ELSE p[k + 1]]

(* What each of them is, position by position *)
PutAt(q, p, N, b, n) ==
  /\ Path(N + 1, q) /\ q[b] = n
  /\ \A k \in 0 .. N : k < b => k \in 0 .. N - 1 /\ q[k] = p[k]
  /\ \A k \in 0 .. N : k > b => k - 1 \in 0 .. N - 1 /\ q[k] = p[k - 1]
  /\ {q[k] : k \in 0 .. N} = {p[k] : k \in 0 .. N - 1} \cup {n}
(* What Cut does, position by position.                                    *)
CutAt(q, p, N, b) ==
  /\ Path(N - 1, q)
  /\ \A k \in 0 .. N - 2 : k < b => k \in 0 .. N - 1 /\ q[k] = p[k]
  /\ \A k \in 0 .. N - 2 : ~(k < b) => k + 1 \in 0 .. N - 1 /\ q[k] = p[k + 1]
  /\ {q[k] : k \in 0 .. N - 2} = {p[k] : k \in 0 .. N - 1} \ {p[b]}

(* Position by position: a chain with one node more.                       *)
LEMMA PutIs ==
  ASSUME NEW N \in Nat, NEW p, Path(N, p), NEW b \in 0 .. N, NEW n \in Nodes,
         \A k \in 0 .. N - 1 : p[k] # n
  PROVE  PutAt(Put(p, N, b, n), p, N, b, n)
<1> USE DEF Path
<1> DEFINE q == Put(p, N, b, n)
<1>1. q \in [0 .. N -> Nodes]
  <2>1. \A k \in 0 .. N : q[k] \in Nodes
    BY DEF Put
  <2>2. QED
    BY <2>1 DEF Put
<1>2. q[b] = n
  BY DEF Put
<1>3. \A k \in 0 .. N : k < b => k \in 0 .. N - 1 /\ q[k] = p[k]
  BY DEF Put
<1>4. \A k \in 0 .. N : k > b => k - 1 \in 0 .. N - 1 /\ q[k] = p[k - 1]
  BY DEF Put
<1> HIDE DEF q
<1>5. \A j, k \in 0 .. N : q[j] = q[k] => j = k
  <2> SUFFICES ASSUME NEW j \in 0 .. N, NEW k \in 0 .. N, q[j] = q[k] PROVE j = k
    OBVIOUS
  <2>1. CASE j = b \/ k = b
    BY <1>2, <1>3, <1>4, <2>1
  <2>2. CASE j < b /\ k < b
    BY <1>3, <2>2
  <2>3. CASE j < b /\ k > b
    <3>1. q[j] = p[j] /\ q[k] = p[k - 1] /\ j \in 0 .. N - 1 /\ k - 1 \in 0 .. N - 1
      BY <1>3, <1>4, <2>3
    <3>2. j = k - 1
      BY <3>1
    <3>3. QED
      BY <2>3, <3>2
  <2>4. CASE j > b /\ k < b
    <3>1. q[j] = p[j - 1] /\ q[k] = p[k] /\ j - 1 \in 0 .. N - 1 /\ k \in 0 .. N - 1
      BY <1>3, <1>4, <2>4
    <3>2. j - 1 = k
      BY <3>1
    <3>3. QED
      BY <2>4, <3>2
  <2>5. CASE j > b /\ k > b
    <3>1. q[j] = p[j - 1] /\ q[k] = p[k - 1] /\ j - 1 \in 0 .. N - 1 /\ k - 1 \in 0 .. N - 1
      BY <1>4, <2>5
    <3>2. j - 1 = k - 1
      BY <3>1
    <3>3. QED
      BY <3>2
  <2>6. QED
    BY <2>1, <2>2, <2>3, <2>4, <2>5
<1>6. {q[k] : k \in 0 .. N} = {p[k] : k \in 0 .. N - 1} \cup {n}
  <2>1. ASSUME NEW k \in 0 .. N PROVE q[k] = n \/ \E j \in 0 .. N - 1 : q[k] = p[j]
    BY <1>2, <1>3, <1>4
  <2>2. ASSUME NEW j \in 0 .. N - 1 PROVE \E k \in 0 .. N : q[k] = p[j]
    <3>1. CASE j < b
      BY <1>3, <3>1
    <3>2. CASE ~(j < b)
      <4>1. j + 1 \in 0 .. N /\ j + 1 > b /\ (j + 1) - 1 = j
        BY <3>2
      <4>2. q[j + 1] = p[j]
        BY <1>4, <4>1
      <4>3. QED
        BY <4>1, <4>2
    <3>3. QED
      BY <3>1, <3>2
  <2>3. \E k \in 0 .. N : q[k] = n
    BY <1>2
  <2>4. QED
    BY <2>1, <2>2, <2>3
<1>7. Path(N + 1, q)
  <2>1. (N + 1) - 1 = N
    OBVIOUS
  <2>2. QED
    BY <1>1, <1>5, <2>1 DEF Path
<1>8. PutAt(q, p, N, b, n)
  BY <1>2, <1>3, <1>4, <1>6, <1>7 DEF PutAt
<1>9. QED
  BY <1>8 DEF q

(* Position by position: a chain with one node less.                       *)
LEMMA CutIs ==
  ASSUME NEW N \in Nat, NEW p, Path(N, p), NEW b \in 0 .. N - 1
  PROVE  CutAt(Cut(p, N, b), p, N, b)
<1> USE DEF Path
<1> DEFINE q == Cut(p, N, b)
<1>1. q \in [0 .. N - 2 -> Nodes]
  <2>1. \A k \in 0 .. N - 2 : q[k] \in Nodes
    BY DEF Cut
  <2>2. QED
    BY <2>1 DEF Cut
<1>3. \A k \in 0 .. N - 2 : k < b => k \in 0 .. N - 1 /\ q[k] = p[k]
  BY DEF Cut
<1>4. \A k \in 0 .. N - 2 : ~(k < b) => k + 1 \in 0 .. N - 1 /\ q[k] = p[k + 1]
  BY DEF Cut
<1> HIDE DEF q
<1>5. \A j, k \in 0 .. N - 2 : q[j] = q[k] => j = k
  <2> SUFFICES ASSUME NEW j \in 0 .. N - 2, NEW k \in 0 .. N - 2, q[j] = q[k] PROVE j = k
    OBVIOUS
  <2>1. CASE j < b /\ k < b
    BY <1>3, <2>1
  <2>2. CASE j < b /\ ~(k < b)
    <3>1. q[j] = p[j] /\ q[k] = p[k + 1] /\ j \in 0 .. N - 1 /\ k + 1 \in 0 .. N - 1
      BY <1>3, <1>4, <2>2
    <3>2. j = k + 1
      BY <3>1
    <3>3. QED
      BY <2>2, <3>2
  <2>3. CASE ~(j < b) /\ k < b
    <3>1. q[j] = p[j + 1] /\ q[k] = p[k] /\ j + 1 \in 0 .. N - 1 /\ k \in 0 .. N - 1
      BY <1>3, <1>4, <2>3
    <3>2. j + 1 = k
      BY <3>1
    <3>3. QED
      BY <2>3, <3>2
  <2>4. CASE ~(j < b) /\ ~(k < b)
    <3>1. q[j] = p[j + 1] /\ q[k] = p[k + 1] /\ j + 1 \in 0 .. N - 1 /\ k + 1 \in 0 .. N - 1
      BY <1>4, <2>4
    <3>2. j + 1 = k + 1
      BY <3>1
    <3>3. QED
      BY <3>2
  <2>5. QED
    BY <2>1, <2>2, <2>3, <2>4
<1>6. {q[k] : k \in 0 .. N - 2} = {p[k] : k \in 0 .. N - 1} \ {p[b]}
  <2>1. ASSUME NEW k \in 0 .. N - 2 PROVE q[k] # p[b] /\ \E j \in 0 .. N - 1 : q[k] = p[j]
    <3>1. CASE k < b
      BY <1>3, <3>1
    <3>2. CASE ~(k < b)
      <4>1. k + 1 \in 0 .. N - 1 /\ q[k] = p[k + 1] /\ k + 1 # b
        BY <1>4, <3>2
      <4>2. QED
        BY <4>1
    <3>3. QED
      BY <3>1, <3>2
  <2>2. ASSUME NEW j \in 0 .. N - 1, j # b PROVE \E k \in 0 .. N - 2 : q[k] = p[j]
    <3>1. CASE j < b
      BY <1>3, <3>1
    <3>2. CASE ~(j < b)
      <4>1. j - 1 \in 0 .. N - 2 /\ ~(j - 1 < b) /\ (j - 1) + 1 = j
        BY <2>2, <3>2
      <4>2. q[j - 1] = p[j]
        BY <1>4, <4>1
      <4>3. QED
        BY <4>1, <4>2
    <3>3. QED
      BY <3>1, <3>2
  <2>3. QED
    BY <2>1, <2>2
<1>7. Path(N - 1, q)
  <2>1. (N - 1) - 1 = N - 2
    OBVIOUS
  <2>2. QED
    BY <1>1, <1>5, <2>1 DEF Path
<1>8. CutAt(q, p, N, b)
  BY <1>3, <1>4, <1>6, <1>7 DEF CutAt
<1>9. QED
  BY <1>8 DEF q

(* What makes q, of which K is the last position, the chain of the next    *)
(* state.                                                                  *)
LEMMA NextChain ==
  ASSUME NEW N \in Nat, NEW K \in Int, K = N - 1, NEW q, Path(N, q),
         heap' = {q[k] : k \in 0 .. K},
         head' = IF N = 0 THEN NULL ELSE q[0],
         \A k \in 0 .. K : next'[q[k]] = IF k = K THEN NULL ELSE q[k + 1],
         \A k \in 0 .. K : prev'[q[k]] = IF k = 0 THEN NULL ELSE q[k - 1]
  PROVE  Chain(N, q)'
BY DEF Chain

(* A node linked before the first becomes the first.                       *)
LEMMA LinkFrontChain ==
  ASSUME ListTypeOK, NEW N \in Nat, NEW p, Chain(N, p), NEW n \in Nodes \ heap,
         LinkFront(n), heap' = heap \cup {n}
  PROVE  Chain(N + 1, Put(p, N, 0, n))'
<1> DEFINE q == Put(p, N, 0, n)
<1>0. /\ next \in [Nodes -> Pointer] /\ prev \in [Nodes -> Pointer] /\ n \in Nodes /\ n # NULL
      /\ \A k \in 0 .. N - 1 : p[k] \in Nodes /\ p[k] # n /\ p[k] # NULL
      /\ Path(N, p)
  BY DPListAssumption DEF Chain, Path, ListTypeOK
<1>a. PutAt(q, p, N, 0, n)
  BY <1>0, PutIs
<1> HIDE DEF q
<1>1. /\ Path(N + 1, q) /\ q[0] = n
      /\ \A k \in 0 .. N : k > 0 => k - 1 \in 0 .. N - 1 /\ q[k] = p[k - 1]
      /\ {q[k] : k \in 0 .. N} = {p[k] : k \in 0 .. N - 1} \cup {n}
  BY <1>a DEF PutAt
<1>2. N + 1 \in Nat /\ N \in Int /\ N = (N + 1) - 1 /\ N + 1 # 0
  OBVIOUS
<1>3. heap' = {q[k] : k \in 0 .. N}
  BY <1>1 DEF Chain, Path
<1>4. head' = q[0]
  BY <1>1 DEF LinkFront
<1>5. ASSUME NEW k \in 0 .. N PROVE next'[q[k]] = IF k = N THEN NULL ELSE q[k + 1]
  <2>1. CASE k = 0
    <3>1. next'[n] = head
      BY <1>0 DEF LinkFront
    <3>2. N # 0 => q[1] = p[0]
      BY <1>1
    <3>3. QED
      BY <1>1, <2>1, <3>1, <3>2 DEF Chain, Path
  <2>2. CASE k # 0
    <3>1. k - 1 \in 0 .. N - 1 /\ q[k] = p[k - 1]
      BY <1>1, <2>2
    <3>2. next'[p[k - 1]] = next[p[k - 1]]
      BY <1>0, <3>1 DEF LinkFront
    <3>3. next[p[k - 1]] = IF k - 1 = N - 1 THEN NULL ELSE p[(k - 1) + 1]
      BY <3>1 DEF Chain, Path
    <3>4. k # N => q[k + 1] = p[k]
      BY <1>1, <2>2
    <3>5. QED
      BY <3>1, <3>2, <3>3, <3>4
  <2>3. QED
    BY <2>1, <2>2
<1>6. ASSUME NEW k \in 0 .. N PROVE prev'[q[k]] = IF k = 0 THEN NULL ELSE q[k - 1]
  <2>0. prev' = IF N = 0 THEN [prev EXCEPT ![n] = NULL]
                ELSE [prev EXCEPT ![n] = NULL, ![p[0]] = n]
    <3>1. N # 0 => head # NULL /\ head = p[0]
      BY <1>0 DEF Chain, Path
    <3>2. N = 0 => head = NULL
      BY DEF Chain, Path
    <3>3. QED
      BY <3>1, <3>2 DEF LinkFront
  <2>1. CASE k = 0
    <3>1. prev'[n] = NULL
      <4>1. N # 0 => p[0] # n /\ p[0] \in Nodes
        BY <1>0
      <4>2. QED
        BY <1>0, <2>0, <4>1
    <3>2. QED
      BY <1>1, <2>1, <3>1
  <2>2. CASE k = 1
    <3>1. 0 \in 0 .. N - 1 /\ N # 0 /\ q[1] = p[0]
      BY <1>1, <2>2
    <3>2. prev'[p[0]] = n
      BY <1>0, <2>0, <3>1
    <3>3. QED
      BY <1>1, <2>2, <3>1, <3>2
  <2>3. CASE k # 0 /\ k # 1
    <3>1. k - 1 \in 0 .. N - 1 /\ k - 1 # 0 /\ q[k] = p[k - 1] /\ N # 0 /\ 0 \in 0 .. N - 1
      BY <1>1, <2>3
    <3>2. p[k - 1] # p[0]
      BY <3>1 DEF Chain, Path
    <3>3. prev'[p[k - 1]] = prev[p[k - 1]]
      BY <1>0, <2>0, <3>1, <3>2
    <3>4. prev[p[k - 1]] = p[(k - 1) - 1]
      BY <3>1 DEF Chain, Path
    <3>5. k - 1 \in 0 .. N /\ k - 1 > 0 /\ q[k - 1] = p[(k - 1) - 1]
      BY <1>1, <2>3
    <3>6. QED
      BY <2>3, <3>1, <3>3, <3>4, <3>5
  <2>4. QED
    BY <2>1, <2>2, <2>3
<1>7. Chain(N + 1, q)'
  BY <1>1, <1>2, <1>3, <1>4, <1>5, <1>6, NextChain
<1>8. QED
  BY <1>7 DEF q

(* A node linked before the one at position b takes that position.         *)
LEMMA LinkBeforeChain ==
  ASSUME ListTypeOK, NEW N \in Nat, NEW p, Chain(N, p), NEW n \in Nodes \ heap,
         NEW b \in 1 .. N - 1, LinkBefore(n, p[b]), heap' = heap \cup {n}
  PROVE  Chain(N + 1, Put(p, N, b, n))'
<1> DEFINE q == Put(p, N, b, n)
<1>0. /\ next \in [Nodes -> Pointer] /\ prev \in [Nodes -> Pointer] /\ n \in Nodes /\ n # NULL
      /\ \A k \in 0 .. N - 1 : p[k] \in Nodes /\ p[k] # n /\ p[k] # NULL
      /\ Path(N, p) /\ b \in 0 .. N /\ b \in 0 .. N - 1 /\ b - 1 \in 0 .. N - 1
  BY DPListAssumption DEF Chain, Path, ListTypeOK
<1>a. PutAt(q, p, N, b, n)
  BY <1>0, PutIs
<1> HIDE DEF q
<1>1. /\ Path(N + 1, q) /\ q[b] = n
      /\ \A k \in 0 .. N : k < b => k \in 0 .. N - 1 /\ q[k] = p[k]
      /\ \A k \in 0 .. N : k > b => k - 1 \in 0 .. N - 1 /\ q[k] = p[k - 1]
      /\ {q[k] : k \in 0 .. N} = {p[k] : k \in 0 .. N - 1} \cup {n}
  BY <1>a DEF PutAt
<1>2. N + 1 \in Nat /\ N \in Int /\ N = (N + 1) - 1 /\ N + 1 # 0
  OBVIOUS
<1>3. heap' = {q[k] : k \in 0 .. N}
  BY <1>1 DEF Chain
<1>4. head' = q[0]
  <2>1. N # 0 /\ 0 \in 0 .. N /\ 0 < b /\ q[0] = p[0]
    BY <1>1
  <2>2. QED
    BY <2>1 DEF LinkBefore, Chain
<1>5. next' = [next EXCEPT ![n] = p[b], ![p[b - 1]] = n]
  <2>1. prev[p[b]] = p[b - 1]
    BY <1>0 DEF Chain
  <2>2. QED
    BY <2>1 DEF LinkBefore
<1>6. prev' = [prev EXCEPT ![n] = p[b - 1], ![p[b]] = n]
  <2>1. prev[p[b]] = p[b - 1]
    BY <1>0 DEF Chain
  <2>2. QED
    BY <2>1 DEF LinkBefore
<1>7. /\ next'[n] = p[b] /\ next'[p[b - 1]] = n
      /\ \A k \in 0 .. N - 1 : k # b - 1 => next'[p[k]] = next[p[k]]
  <2>1. \A k \in 0 .. N - 1 : k # b - 1 => p[k] # p[b - 1]
    BY <1>0 DEF Path
  <2>2. p[b - 1] # n /\ p[b - 1] \in Nodes
    BY <1>0
  <2>3. QED
    BY <1>0, <1>5, <2>1, <2>2
<1>8. /\ prev'[n] = p[b - 1] /\ prev'[p[b]] = n
      /\ \A k \in 0 .. N - 1 : k # b => prev'[p[k]] = prev[p[k]]
  <2>1. \A k \in 0 .. N - 1 : k # b => p[k] # p[b]
    BY <1>0 DEF Path
  <2>2. p[b] # n /\ p[b] \in Nodes
    BY <1>0
  <2>3. QED
    BY <1>0, <1>6, <2>1, <2>2
<1>9. /\ \A k \in 0 .. N - 1 : next[p[k]] = IF k = N - 1 THEN NULL ELSE p[k + 1]
      /\ \A k \in 0 .. N - 1 : prev[p[k]] = IF k = 0 THEN NULL ELSE p[k - 1]
  BY DEF Chain
<1>10. ASSUME NEW k \in 0 .. N PROVE next'[q[k]] = IF k = N THEN NULL ELSE q[k + 1]
  <2>1. CASE k < b - 1
    <3>1. k \in 0 .. N - 1 /\ k # b - 1 /\ k # N - 1 /\ q[k] = p[k] /\ k + 1 \in 0 .. N /\ k + 1 < b
      BY <1>1, <2>1
    <3>2. q[k + 1] = p[k + 1]
      BY <1>1, <3>1
    <3>3. QED
      BY <1>7, <1>9, <3>1, <3>2
  <2>2. CASE k = b - 1
    <3>1. q[k] = p[b - 1] /\ q[k + 1] = n /\ k # N
      BY <1>1, <2>2
    <3>2. QED
      BY <1>7, <3>1
  <2>3. CASE k = b
    <3>1. k + 1 \in 0 .. N /\ k + 1 > b /\ (k + 1) - 1 = b /\ k # N
      BY <2>3
    <3>2. q[k] = n /\ q[k + 1] = p[b]
      BY <1>1, <2>3, <3>1
    <3>3. QED
      BY <1>7, <3>1, <3>2
  <2>4. CASE k > b
    <3>1. k - 1 \in 0 .. N - 1 /\ k - 1 # b - 1 /\ q[k] = p[k - 1]
      BY <1>1, <2>4
    <3>2. next'[q[k]] = IF k - 1 = N - 1 THEN NULL ELSE p[(k - 1) + 1]
      BY <1>7, <1>9, <3>1
    <3>3. k # N => k + 1 \in 0 .. N /\ k + 1 > b /\ (k + 1) - 1 = k /\ (k - 1) + 1 = k
      BY <2>4
    <3>4. k # N => q[k + 1] = p[k]
      BY <1>1, <3>3
    <3>5. QED
      BY <3>2, <3>3, <3>4
  <2>5. QED
    BY <2>1, <2>2, <2>3, <2>4
<1>11. ASSUME NEW k \in 0 .. N PROVE prev'[q[k]] = IF k = 0 THEN NULL ELSE q[k - 1]
  <2>1. CASE k < b
    <3>1. k \in 0 .. N - 1 /\ k # b /\ q[k] = p[k]
      BY <1>1, <2>1
    <3>2. k # 0 => k - 1 \in 0 .. N /\ k - 1 < b
      BY <2>1
    <3>3. k # 0 => q[k - 1] = p[k - 1]
      BY <1>1, <3>2
    <3>4. QED
      BY <1>8, <1>9, <3>1, <3>3
  <2>2. CASE k = b
    <3>1. k # 0 /\ k - 1 \in 0 .. N /\ k - 1 < b
      BY <2>2
    <3>2. q[k] = n /\ q[k - 1] = p[b - 1]
      BY <1>1, <2>2, <3>1
    <3>3. QED
      BY <1>8, <3>1, <3>2
  <2>3. CASE k = b + 1
    <3>1. k > b /\ k - 1 = b /\ k # 0
      BY <2>3
    <3>2. q[k] = p[b] /\ q[k - 1] = n
      BY <1>1, <3>1
    <3>3. QED
      BY <1>8, <3>1, <3>2
  <2>4. CASE k > b + 1
    <3>1. k - 1 \in 0 .. N - 1 /\ k - 1 # b /\ k - 1 # 0 /\ q[k] = p[k - 1] /\ k # 0
      BY <1>1, <2>4
    <3>2. prev'[q[k]] = p[(k - 1) - 1]
      BY <1>8, <1>9, <3>1
    <3>3. k - 1 \in 0 .. N /\ k - 1 > b /\ q[k - 1] = p[(k - 1) - 1]
      BY <1>1, <2>4
    <3>4. QED
      BY <3>1, <3>2, <3>3
  <2>5. QED
    BY <2>1, <2>2, <2>3, <2>4
<1>12. Chain(N + 1, q)'
  BY <1>1, <1>2, <1>3, <1>4, <1>10, <1>11, NextChain
<1>13. QED
  BY <1>12 DEF q

(* A node linked after the last becomes the last.                          *)
LEMMA LinkAfterChain ==
  ASSUME ListTypeOK, NEW N \in Nat, N # 0, NEW p, Chain(N, p), NEW n \in Nodes \ heap,
         LinkAfter(n, p[N - 1]), heap' = heap \cup {n}
  PROVE  Chain(N + 1, Put(p, N, N, n))'
<1> DEFINE q == Put(p, N, N, n)
<1>0. /\ next \in [Nodes -> Pointer] /\ prev \in [Nodes -> Pointer] /\ n \in Nodes /\ n # NULL
      /\ \A k \in 0 .. N - 1 : p[k] \in Nodes /\ p[k] # n /\ p[k] # NULL
      /\ Path(N, p) /\ N \in 0 .. N /\ N - 1 \in 0 .. N - 1
  BY DPListAssumption DEF Chain, Path, ListTypeOK
<1>a. PutAt(q, p, N, N, n)
  BY <1>0, PutIs
<1> HIDE DEF q
<1>1. /\ Path(N + 1, q) /\ q[N] = n
      /\ \A k \in 0 .. N : k < N => k \in 0 .. N - 1 /\ q[k] = p[k]
      /\ {q[k] : k \in 0 .. N} = {p[k] : k \in 0 .. N - 1} \cup {n}
  BY <1>a DEF PutAt
<1>2. N + 1 \in Nat /\ N \in Int /\ N = (N + 1) - 1 /\ N + 1 # 0
  OBVIOUS
<1>3. heap' = {q[k] : k \in 0 .. N}
  BY <1>1 DEF Chain
<1>4. head' = q[0]
  <2>1. N # 0 /\ 0 \in 0 .. N /\ 0 < N /\ q[0] = p[0]
    BY <1>1
  <2>2. QED
    BY <2>1 DEF LinkAfter, Chain
<1>5. /\ next'[n] = NULL /\ next'[p[N - 1]] = n
      /\ \A k \in 0 .. N - 1 : k # N - 1 => next'[p[k]] = next[p[k]]
  <2>1. \A k \in 0 .. N - 1 : k # N - 1 => p[k] # p[N - 1]
    BY <1>0 DEF Path
  <2>2. p[N - 1] # n /\ p[N - 1] \in Nodes
    BY <1>0
  <2>3. QED
    BY <1>0, <2>1, <2>2 DEF LinkAfter
<1>6. /\ prev'[n] = p[N - 1]
      /\ \A k \in 0 .. N - 1 : prev'[p[k]] = prev[p[k]]
  BY <1>0 DEF LinkAfter
<1>7. /\ \A k \in 0 .. N - 1 : next[p[k]] = IF k = N - 1 THEN NULL ELSE p[k + 1]
      /\ \A k \in 0 .. N - 1 : prev[p[k]] = IF k = 0 THEN NULL ELSE p[k - 1]
  BY DEF Chain
<1>8. ASSUME NEW k \in 0 .. N PROVE next'[q[k]] = IF k = N THEN NULL ELSE q[k + 1]
  <2>1. CASE k < N - 1
    <3>1. k \in 0 .. N - 1 /\ k # N - 1 /\ k # N /\ q[k] = p[k] /\ k + 1 \in 0 .. N /\ k + 1 < N
      BY <1>1, <2>1
    <3>2. q[k + 1] = p[k + 1]
      BY <1>1, <3>1
    <3>3. QED
      BY <1>5, <1>7, <3>1, <3>2
  <2>2. CASE k = N - 1
    <3>1. q[k] = p[N - 1] /\ q[k + 1] = n /\ k # N
      BY <1>1, <2>2
    <3>2. QED
      BY <1>5, <3>1
  <2>3. CASE k = N
    BY <1>1, <1>5, <2>3
  <2>4. QED
    BY <2>1, <2>2, <2>3
<1>9. ASSUME NEW k \in 0 .. N PROVE prev'[q[k]] = IF k = 0 THEN NULL ELSE q[k - 1]
  <2>1. CASE k < N
    <3>1. k \in 0 .. N - 1 /\ q[k] = p[k]
      BY <1>1, <2>1
    <3>2. k # 0 => k - 1 \in 0 .. N /\ k - 1 < N
      BY <2>1
    <3>3. k # 0 => q[k - 1] = p[k - 1]
      BY <1>1, <3>2
    <3>4. QED
      BY <1>6, <1>7, <3>1, <3>3
  <2>2. CASE k = N
    <3>1. k # 0 /\ k - 1 \in 0 .. N /\ k - 1 < N
      BY <2>2
    <3>2. q[k] = n /\ q[k - 1] = p[N - 1]
      BY <1>1, <2>2, <3>1
    <3>3. QED
      BY <1>6, <3>1, <3>2
  <2>3. QED
    BY <2>1, <2>2
<1>10. Chain(N + 1, q)'
  BY <1>1, <1>2, <1>3, <1>4, <1>8, <1>9, NextChain
<1>11. QED
  BY <1>10 DEF q

(* Unlinking the node at position b leaves the others in their order.      *)
LEMMA UnlinkChain ==
  ASSUME ListTypeOK, NEW N \in Nat, NEW p, Chain(N, p), NEW b \in 0 .. N - 1,
         Unlink(p[b]), heap' = heap \ {p[b]}
  PROVE  Chain(N - 1, Cut(p, N, b))'
<1> DEFINE q == Cut(p, N, b)
<1>0. /\ next \in [Nodes -> Pointer] /\ prev \in [Nodes -> Pointer]
      /\ \A k \in 0 .. N - 1 : p[k] \in Nodes /\ p[k] # NULL
      /\ Path(N, p) /\ b \in 0 .. N - 1
  BY DPListAssumption DEF Chain, Path, ListTypeOK
<1>a. CutAt(q, p, N, b)
  BY <1>0, CutIs
<1> HIDE DEF q
<1>1. /\ Path(N - 1, q)
      /\ \A k \in 0 .. N - 2 : k < b => k \in 0 .. N - 1 /\ q[k] = p[k]
      /\ \A k \in 0 .. N - 2 : ~(k < b) => k + 1 \in 0 .. N - 1 /\ q[k] = p[k + 1]
      /\ {q[k] : k \in 0 .. N - 2} = {p[k] : k \in 0 .. N - 1} \ {p[b]}
  BY <1>a DEF CutAt
<1>2. N - 1 \in Nat /\ N - 2 \in Int /\ N - 2 = (N - 1) - 1
  OBVIOUS
<1>3. heap' = {q[k] : k \in 0 .. N - 2}
  BY <1>1 DEF Chain
<1>4. /\ \A k \in 0 .. N - 1 : next[p[k]] = IF k = N - 1 THEN NULL ELSE p[k + 1]
      /\ \A k \in 0 .. N - 1 : prev[p[k]] = IF k = 0 THEN NULL ELSE p[k - 1]
      /\ head = p[0]
  BY DEF Chain
<1>5. head' = IF N - 1 = 0 THEN NULL ELSE q[0]
  <2>1. CASE b = 0
    <3>1. head' = IF N = 1 THEN NULL ELSE p[1]
      BY <1>4, <2>1 DEF Unlink
    <3>2. N # 1 => 0 \in 0 .. N - 2 /\ q[0] = p[0 + 1]
      BY <1>1, <2>1
    <3>3. QED
      BY <3>1, <3>2
  <2>2. CASE b # 0
    <3>1. p[b] # p[0] /\ N # 1
      BY <1>0, <2>2 DEF Path
    <3>2. head' = p[0]
      BY <1>4, <3>1 DEF Unlink
    <3>3. q[0] = p[0]
      BY <1>1, <2>2
    <3>4. QED
      BY <3>1, <3>2, <3>3
  <2>3. QED
    BY <2>1, <2>2
<1>6. /\ \A k \in 0 .. N - 1 : k # b - 1 => next'[p[k]] = next[p[k]]
      /\ b # 0 => next'[p[b - 1]] = next[p[b]]
  <2>1. CASE b = 0
    <3>1. next' = next
      BY <1>4, <2>1 DEF Unlink
    <3>2. QED
      BY <2>1, <3>1
  <2>2. CASE b # 0
    <3>1. b - 1 \in 0 .. N - 1 /\ prev[p[b]] = p[b - 1] /\ p[b - 1] # NULL
      BY <1>0, <1>4, <2>2
    <3>2. next' = [next EXCEPT ![p[b - 1]] = next[p[b]]]
      BY <3>1 DEF Unlink
    <3>3. \A k \in 0 .. N - 1 : k # b - 1 => p[k] # p[b - 1]
      BY <1>0, <3>1 DEF Path
    <3>4. QED
      BY <1>0, <3>1, <3>2, <3>3
  <2>3. QED
    BY <2>1, <2>2
<1>7. /\ \A k \in 0 .. N - 1 : k # b + 1 => prev'[p[k]] = prev[p[k]]
      /\ b # N - 1 => prev'[p[b + 1]] = prev[p[b]]
  <2>1. CASE b = N - 1
    <3>1. prev' = prev
      BY <1>0, <1>4, <2>1 DEF Unlink
    <3>2. QED
      BY <2>1, <3>1
  <2>2. CASE b # N - 1
    <3>1. b + 1 \in 0 .. N - 1 /\ next[p[b]] = p[b + 1] /\ p[b + 1] # NULL
      BY <1>0, <1>4, <2>2
    <3>2. prev' = [prev EXCEPT ![p[b + 1]] = prev[p[b]]]
      BY <3>1 DEF Unlink
    <3>3. \A k \in 0 .. N - 1 : k # b + 1 => p[k] # p[b + 1]
      BY <1>0, <3>1 DEF Path
    <3>4. QED
      BY <1>0, <3>1, <3>2, <3>3
  <2>3. QED
    BY <2>1, <2>2
<1>8. ASSUME NEW k \in 0 .. N - 2 PROVE next'[q[k]] = IF k = N - 2 THEN NULL ELSE q[k + 1]
  <2>1. CASE k < b - 1
    <3>1. k \in 0 .. N - 1 /\ k # b - 1 /\ k # N - 1 /\ k # N - 2
          /\ q[k] = p[k] /\ k + 1 \in 0 .. N - 2 /\ k + 1 < b
      BY <1>1, <2>1
    <3>2. q[k + 1] = p[k + 1]
      BY <1>1, <3>1
    <3>3. QED
      BY <1>4, <1>6, <3>1, <3>2
  <2>2. CASE k = b - 1
    <3>1. b # 0 /\ q[k] = p[b - 1]
      BY <1>1, <2>2
    <3>2. next'[q[k]] = IF b = N - 1 THEN NULL ELSE p[b + 1]
      BY <1>4, <1>6, <3>1
    <3>3. k # N - 2 => k + 1 \in 0 .. N - 2 /\ ~(k + 1 < b) /\ (k + 1) + 1 = b + 1
      BY <2>2
    <3>4. k # N - 2 => q[k + 1] = p[b + 1]
      BY <1>1, <3>3
    <3>5. QED
      BY <2>2, <3>2, <3>4
  <2>3. CASE k >= b
    <3>1. k + 1 \in 0 .. N - 1 /\ k + 1 # b - 1 /\ q[k] = p[k + 1]
      BY <1>1, <2>3
    <3>2. next'[q[k]] = IF k + 1 = N - 1 THEN NULL ELSE p[(k + 1) + 1]
      BY <1>4, <1>6, <3>1
    <3>3. k # N - 2 => k + 1 \in 0 .. N - 2 /\ ~(k + 1 < b)
      BY <2>3
    <3>4. k # N - 2 => q[k + 1] = p[(k + 1) + 1]
      BY <1>1, <3>3
    <3>5. QED
      BY <3>2, <3>4
  <2>4. QED
    BY <2>1, <2>2, <2>3
<1>9. ASSUME NEW k \in 0 .. N - 2 PROVE prev'[q[k]] = IF k = 0 THEN NULL ELSE q[k - 1]
  <2>1. CASE k < b
    <3>1. k \in 0 .. N - 1 /\ k # b + 1 /\ q[k] = p[k]
      BY <1>1, <2>1
    <3>2. k # 0 => k - 1 \in 0 .. N - 2 /\ k - 1 < b
      BY <2>1
    <3>3. k # 0 => q[k - 1] = p[k - 1]
      BY <1>1, <3>2
    <3>4. QED
      BY <1>4, <1>7, <3>1, <3>3
  <2>2. CASE k = b
    <3>1. b # N - 1 /\ q[k] = p[b + 1]
      BY <1>1, <2>2
    <3>2. prev'[q[k]] = IF b = 0 THEN NULL ELSE p[b - 1]
      BY <1>4, <1>7, <3>1
    <3>3. k # 0 => k - 1 \in 0 .. N - 2 /\ k - 1 < b
      BY <2>2
    <3>4. k # 0 => q[k - 1] = p[b - 1]
      BY <1>1, <2>2, <3>3
    <3>5. QED
      BY <2>2, <3>2, <3>4
  <2>3. CASE k > b
    <3>1. k + 1 \in 0 .. N - 1 /\ k + 1 # b + 1 /\ k + 1 # 0 /\ k # 0 /\ q[k] = p[k + 1]
      BY <1>1, <2>3
    <3>2. prev'[q[k]] = p[(k + 1) - 1]
      BY <1>4, <1>7, <3>1
    <3>3. k - 1 \in 0 .. N - 2 /\ ~(k - 1 < b) /\ (k - 1) + 1 = k /\ (k + 1) - 1 = k
      BY <2>3
    <3>4. q[k - 1] = p[k]
      BY <1>1, <3>3
    <3>5. QED
      BY <3>1, <3>2, <3>3, <3>4
  <2>4. QED
    BY <2>1, <2>2, <2>3
<1>10. Chain(N - 1, q)'
  BY <1>1, <1>2, <1>3, <1>5, <1>8, <1>9, NextChain
<1>11. QED
  BY <1>10 DEF q

(* An empty heap is a chain of no nodes.                                   *)
LEMMA EmptyLinked ==
  ASSUME head = NULL, heap = {}
  PROVE  Linked
<1> DEFINE q == [k \in 0 .. 0 - 1 |-> NULL]
<1>1. 0 .. 0 - 1 = {}
  OBVIOUS
<1>2. q \in [0 .. 0 - 1 -> Nodes]
  BY <1>1
<1> HIDE DEF q
<1>3. Chain(0, q)
  BY <1>1, <1>2 DEF Chain, Path
<1>4. QED
  BY <1>2, <1>3 DEF Linked

(* head is NULL exactly when the list has no node.                         *)
LEMMA ChainEmpty ==
  ASSUME NEW N \in Nat, NEW p, Chain(N, p)
  PROVE  head = NULL <=> N = 0
BY DPListAssumption DEF Chain, Path

(* Linking a node leaves pointers in the fields.                           *)
LEMMA LinkType ==
  ASSUME ListTypeOK, NEW n \in Nodes, NEW i, Link(n, i), head # NULL => ReferenceAt(i) \in Nodes
  PROVE  head' \in Pointer /\ next' \in [Nodes -> Pointer] /\ prev' \in [Nodes -> Pointer]
<1>1. /\ head \in Pointer /\ next \in [Nodes -> Pointer] /\ prev \in [Nodes -> Pointer]
      /\ n \in Pointer /\ NULL \in Pointer /\ Nodes \subseteq Pointer
      /\ \A m \in Nodes : prev[m] \in Pointer
  BY DEF ListTypeOK, Pointer
<1>2. CASE LinkFront(n)
  BY <1>1, <1>2 DEF LinkFront
<1>3. CASE LinkBefore(n, ReferenceAt(i)) /\ ReferenceAt(i) \in Nodes
  BY <1>1, <1>3 DEF LinkBefore
<1>4. CASE LinkAfter(n, ReferenceAt(i)) /\ ReferenceAt(i) \in Nodes
  BY <1>1, <1>4 DEF LinkAfter
<1>5. QED
  BY <1>2, <1>3, <1>4 DEF Link

(* The inductive invariant of the list library: the types, that the nodes  *)
(* form a chain, and who owns which element.                               *)
ListInv ==
  /\ ListTypeOK /\ Linked /\ ElementsOwned
  /\ head # NULL => exists

(* Every way to link a node puts it at the place its index names. *)
LEMMA LinkChain ==
  ASSUME ListTypeOK, NEW N \in Nat, NEW p, Chain(N, p), NEW n \in Nodes \ heap,
         NEW i \in Int, Link(n, i), heap' = heap \cup {n}
  PROVE  /\ Place(i, N) \in 0 .. N
         /\ Chain(N + 1, Put(p, N, Place(i, N), n))'
         /\ head' # NULL
         /\ head' \in Pointer /\ next' \in [Nodes -> Pointer] /\ prev' \in [Nodes -> Pointer]
<1>1. Size = N /\ (head = NULL <=> N = 0)
  BY SizeChain, ChainEmpty DEF ListTypeOK
<1>2. N # 0 => ReferenceAt(i) = p[Place(i, N - 1)] /\ Place(i, N - 1) \in 0 .. N - 1
  BY ReferenceChain DEF Place, Sequence!Before
<1>3. head # NULL => ReferenceAt(i) \in Nodes
  BY <1>1, <1>2 DEF Chain, Path
<1>4. head' \in Pointer /\ next' \in [Nodes -> Pointer] /\ prev' \in [Nodes -> Pointer]
  BY <1>3, LinkType
<1>5. Place(i, N) \in 0 .. N
  BY DEF Place, Sequence!Before
<1>6. Chain(N + 1, Put(p, N, Place(i, N), n))'
  <2>1. CASE (head = NULL \/ i <= 0) /\ LinkFront(n)
    <3>1. Place(i, N) = 0
      BY <1>1, <2>1 DEF Place, Sequence!Before
    <3>2. QED
      BY <2>1, <3>1, LinkFrontChain
  <2>2. CASE head # NULL /\ i > 0 /\ i < Size /\ LinkBefore(n, ReferenceAt(i))
    <3>1. i \in 1 .. N - 1 /\ Place(i, N) = i /\ Place(i, N - 1) = i
      BY <1>1, <2>2 DEF Place, Sequence!Before
    <3>2. LinkBefore(n, p[i])
      BY <1>1, <1>2, <2>2, <3>1
    <3>3. QED
      BY <3>1, <3>2, LinkBeforeChain
  <2>3. CASE head # NULL /\ i > 0 /\ i >= Size /\ LinkAfter(n, ReferenceAt(i))
    <3>1. N # 0 /\ Place(i, N) = N /\ Place(i, N - 1) = N - 1
      BY <1>1, <2>3 DEF Place, Sequence!Before
    <3>2. LinkAfter(n, p[N - 1])
      BY <1>2, <2>3, <3>1
    <3>3. QED
      BY <3>1, <3>2, LinkAfterChain
  <2>4. QED
    BY <2>1, <2>2, <2>3 DEF Link
<1>7. head' # NULL
  <2>1. CASE LinkFront(n)
    BY <2>1, DPListAssumption DEF LinkFront
  <2>2. CASE head # NULL /\ UNCHANGED head
    BY <2>2
  <2>3. QED
    BY <2>1, <2>2 DEF Link, LinkBefore, LinkAfter
<1>8. QED
  BY <1>4, <1>5, <1>6, <1>7

(* What an insertion leaves behind: node n, element e *)
Inserted(o, i, insert_copy, N, p, n, e) ==
  /\ exists /\ exists' /\ o \in held /\ n \in Nodes \ heap /\ e \in Objects
  /\ IF insert_copy THEN e \notin objects ELSE e = o
  /\ heap' = heap \cup {n} /\ objects' = objects \cup {e}
  /\ element' = [element EXCEPT ![n] = e]
  /\ value' = [value EXCEPT ![e] = value[o]]
  /\ held' = IF insert_copy THEN held ELSE held \ {o}
  /\ Chain(N + 1, Put(p, N, Place(i, N), n))'

(* dpl_insert_at_index puts one node, with the element or with its copy,   *)
(* at the place the index names.                                           *)
LEMMA InsertIs ==
  ASSUME ListInv, NEW N \in Nat, NEW p, Chain(N, p), NEW o, NEW i \in Int, NEW c \in BOOLEAN,
         Insert(o, i, c)
  PROVE  /\ ListTypeOK' /\ head' # NULL
         /\ \E n \in Nodes, e \in Objects : Inserted(o, i, c, N, p, n, e)
<1>1. PICK n \in Nodes \ heap, e \in Objects :
        /\ IF c THEN e \notin objects ELSE e = o
        /\ heap' = heap \cup {n} /\ objects' = objects \cup {e}
        /\ element' = [element EXCEPT ![n] = e]
        /\ value' = [value EXCEPT ![e] = value[o]]
        /\ Link(n, i)
  BY DEF Insert
<1>2. /\ exists /\ exists' /\ o \in held /\ exists' = exists
      /\ held' = IF c THEN held ELSE held \ {o}
  BY DEF Insert
<1>3. ListTypeOK
  BY DEF ListInv
<1>4. /\ Chain(N + 1, Put(p, N, Place(i, N), n))'
      /\ head' # NULL
      /\ head' \in Pointer /\ next' \in [Nodes -> Pointer] /\ prev' \in [Nodes -> Pointer]
  BY <1>1, <1>3, LinkChain
<1>5. ListTypeOK'
  <2>1. o \in Objects /\ value[o] \in Values \cup {NULL}
    BY <1>2, <1>3 DEF ListTypeOK
  <2>2. value' \in [Objects -> Values \cup {NULL}]
    BY <1>1, <1>3, <2>1 DEF ListTypeOK
  <2>3. element' \in [Nodes -> Objects \cup {NULL}]
    BY <1>1, <1>3 DEF ListTypeOK
  <2>4. heap' \in SUBSET Nodes /\ objects' \in SUBSET Objects /\ held' \in SUBSET objects'
    BY <1>1, <1>2, <1>3 DEF ListTypeOK
  <2>5. exists' \in BOOLEAN
    BY <1>2, <1>3 DEF ListTypeOK
  <2>6. QED
    BY <1>4, <2>2, <2>3, <2>4, <2>5 DEF ListTypeOK
<1>6. Inserted(o, i, c, N, p, n, e)
  BY <1>1, <1>2, <1>4 DEF Inserted
<1>7. QED
  BY <1>4, <1>5, <1>6

(* It keeps the invariant,                                                 *)
LEMMA InsertKeeps ==
  ASSUME ListInv, NEW o, NEW i \in Int, NEW c \in BOOLEAN, Insert(o, i, c)
  PROVE  ListInv'
<1>1. PICK N \in Nat : \E p \in [0 .. N - 1 -> Nodes] : Chain(N, p)
  BY DEF ListInv, Linked
<1>2. PICK p \in [0 .. N - 1 -> Nodes] : Chain(N, p)
  BY <1>1
<1>3. /\ ListTypeOK' /\ head' # NULL
      /\ \E n \in Nodes, e \in Objects : Inserted(o, i, c, N, p, n, e)
  BY <1>2, InsertIs
<1>4. PICK n \in Nodes, e \in Objects : Inserted(o, i, c, N, p, n, e)
  BY <1>3
<1>5. Linked'
  <2> DEFINE q == Put(p, N, Place(i, N), n)
  <2>1. Chain(N + 1, q)' /\ N + 1 \in Nat
    BY <1>4 DEF Inserted
  <2> HIDE DEF q
  <2>2. q \in [0 .. (N + 1) - 1 -> Nodes]
    BY <2>1 DEF Chain, Path
  <2>3. QED
    BY <2>1, <2>2 DEF Linked
<1>6. ElementsOwned'
  <2>1. /\ element \in [Nodes -> Objects \cup {NULL}] /\ n \in Nodes \ heap /\ heap \subseteq Nodes
        /\ held \subseteq objects
        /\ objects = held \cup {element[m] : m \in heap}
        /\ \A m \in heap : element[m] \notin held
        /\ \A l, m \in heap : element[l] = element[m] => l = m
    BY <1>4 DEF ListInv, ListTypeOK, ElementsOwned, Inserted
  <2>2. /\ element'[n] = e /\ \A m \in heap : element'[m] = element[m]
        /\ heap' = heap \cup {n} /\ objects' = objects \cup {e}
        /\ o \in held /\ held' = IF c THEN held ELSE held \ {o}
        /\ IF c THEN e \notin objects ELSE e = o
    BY <1>4, <2>1 DEF Inserted
  <2>3. {element'[m] : m \in heap'} = {element[m] : m \in heap} \cup {e}
    BY <2>2
  <2>4. objects' = held' \cup {element'[m] : m \in heap'}
    BY <2>1, <2>2, <2>3
  <2>5. \A m \in heap' : element'[m] \notin held'
    BY <2>1, <2>2
  <2>6. \A m \in heap : element[m] # e
    BY <2>1, <2>2
  <2>7. \A l, m \in heap' : element'[l] = element'[m] => l = m
    BY <2>1, <2>2, <2>6
  <2>8. QED
    BY <2>4, <2>5, <2>7 DEF ElementsOwned
<1>7. exists'
  BY <1>4 DEF Inserted
<1>8. QED
  BY <1>3, <1>5, <1>6, <1>7 DEF ListInv

(* dpl_remove_at_index takes one node, and its element if the caller asks  *)
(* for it, away.                                                           *)
LEMMA RemoveIs ==
  ASSUME ListInv, NEW N \in Nat, NEW p, Chain(N, p), NEW i \in Int, NEW f \in BOOLEAN,
         Remove(i, f)
  PROVE  /\ Place(i, N - 1) \in 0 .. N - 1 /\ exists'
         /\ p[Place(i, N - 1)] \in heap /\ heap' = heap \ {p[Place(i, N - 1)]}
         /\ Release({element[p[Place(i, N - 1)]]}, f)
         /\ UNCHANGED <<exists, element>>
         /\ Chain(N - 1, Cut(p, N, Place(i, N - 1)))'
         /\ ListTypeOK'
<1> DEFINE b == Place(i, N - 1)
           m == p[b]
<1>1. ListTypeOK /\ exists /\ head # NULL /\ N # 0
  BY ChainEmpty DEF ListInv, Remove
<1>2. b \in 0 .. N - 1
  BY <1>1 DEF Place, Sequence!Before
<1>3. ReferenceAt(i) = m
  BY <1>1, ReferenceChain
<1> HIDE DEF b
<1>4. m \in heap /\ m \in Nodes
  BY <1>1, <1>2 DEF Chain, ListTypeOK
<1>5. /\ Unlink(m) /\ Release({element[m]}, f) /\ heap' = heap \ {m}
      /\ UNCHANGED <<exists, element>>
  BY <1>3 DEF Remove
<1>6. Chain(N - 1, Cut(p, N, b))'
  BY <1>1, <1>2, <1>5, UnlinkChain
<1>7. ListTypeOK'
  <2>1. /\ head \in Pointer /\ next \in [Nodes -> Pointer] /\ prev \in [Nodes -> Pointer]
        /\ next[m] \in Pointer /\ prev[m] \in Pointer
    BY <1>1, <1>4 DEF ListTypeOK
  <2>2. head' \in Pointer /\ next' \in [Nodes -> Pointer] /\ prev' \in [Nodes -> Pointer]
    BY <1>5, <2>1 DEF Unlink
  <2>3. element[m] \in objects /\ element[m] \notin held
    BY <1>4 DEF ListInv, ElementsOwned
  <2>4. objects' \in SUBSET Objects /\ held' \in SUBSET objects' /\ value' = value
    BY <1>1, <1>5, <2>3 DEF ListTypeOK, Release
  <2>5. heap' \in SUBSET Nodes
    BY <1>1, <1>5 DEF ListTypeOK
  <2>6. QED
    BY <1>1, <1>5, <2>2, <2>4, <2>5 DEF ListTypeOK
<1>8. QED
  BY <1>1, <1>2, <1>4, <1>5, <1>6, <1>7 DEF b

(* It keeps the invariant,                                                 *)
LEMMA RemoveKeeps ==
  ASSUME ListInv, NEW i \in Int, NEW f \in BOOLEAN, Remove(i, f)
  PROVE  ListInv'
<1>1. PICK N \in Nat : \E p \in [0 .. N - 1 -> Nodes] : Chain(N, p)
  BY DEF ListInv, Linked
<1>2. PICK p \in [0 .. N - 1 -> Nodes] : Chain(N, p)
  BY <1>1
<1> DEFINE b == Place(i, N - 1)
           q == Cut(p, N, b)
           n == p[b]
<1>3. /\ b \in 0 .. N - 1 /\ exists' /\ n \in heap /\ heap' = heap \ {n}
      /\ Release({element[n]}, f) /\ element' = element
      /\ Chain(N - 1, q)' /\ ListTypeOK'
  BY <1>2, RemoveIs
<1> HIDE DEF b, q, n
<1>4. Linked'
  <2>1. q \in [0 .. (N - 1) - 1 -> Nodes] /\ N - 1 \in Nat
    BY <1>3 DEF Chain, Path
  <2>2. QED
    BY <1>3, <2>1 DEF Linked
<1>5. ElementsOwned'
  <2>1. /\ objects = held \cup {element[m] : m \in heap}
        /\ \A m \in heap : element[m] \notin held
        /\ \A l, m \in heap : element[l] = element[m] => l = m
    BY DEF ListInv, ElementsOwned
  <2>2. {element[m] : m \in heap'} = {element[m] : m \in heap} \ {element[n]}
    BY <1>3, <2>1
  <2>3. CASE f
    <3>1. objects' = objects \ {element[n]} /\ held' = held
      BY <1>3, <2>3 DEF Release
    <3>2. QED
      BY <1>3, <2>1, <2>2, <3>1 DEF ElementsOwned
  <2>4. CASE ~f
    <3>1. objects' = objects /\ held' = held \cup {element[n]}
      BY <1>3, <2>4 DEF Release
    <3>2. QED
      BY <1>3, <2>1, <2>2, <3>1 DEF ElementsOwned
  <2>5. QED
    BY <2>3, <2>4
<1>6. QED
  BY <1>3, <1>4, <1>5 DEF ListInv

(* dpl_free keeps the invariant and leaves no node,                        *)
LEMMA FreeKeeps ==
  ASSUME ListInv, NEW f \in BOOLEAN, Free(f)
  PROVE  ListInv' /\ heap' = {} /\ head' = NULL /\ ~exists'
<1>1. PICK N \in Nat : \E p \in [0 .. N - 1 -> Nodes] : Chain(N, p)
  BY DEF ListInv, Linked
<1>2. PICK p \in [0 .. N - 1 -> Nodes] : Chain(N, p)
  BY <1>1
<1>3. {Walk[k] : k \in DOMAIN Walk} \ {NULL} = heap
  BY <1>2, SizeChain DEF ListInv, ListTypeOK
<1>4. /\ heap' = {} /\ head' = NULL /\ exists' = FALSE
      /\ Release({element[n] : n \in heap}, f)
      /\ prev' = prev /\ next' = next /\ element' = element
  BY <1>3 DEF Free
<1>5. Linked'
  <2>1. (head = NULL /\ heap = {} => Linked)'
    BY EmptyLinked, PTL
  <2>2. QED
    BY <1>4, <2>1
<1>6. objects' = IF f THEN held ELSE objects
  BY <1>4 DEF Release, ListInv, ElementsOwned
<1>7. held' = IF f THEN held ELSE objects
  BY <1>4 DEF Release, ListInv, ElementsOwned
<1>8. ElementsOwned'
  BY <1>4, <1>6, <1>7 DEF ElementsOwned
<1>9. ListTypeOK'
  BY <1>4, <1>6, <1>7 DEF ListInv, ListTypeOK, Pointer, Release
<1>10. QED
  BY <1>4, <1>5, <1>8, <1>9 DEF ListInv

(* dpl_create makes an empty list,                                         *)
LEMMA CreateKeeps ==
  ASSUME ListInv, Create
  PROVE  ListInv' /\ head' = NULL /\ heap' = {}
<1>1. head = NULL
  BY DEF ListInv, Create
<1>2. heap = {}
  <2>1. PICK N \in Nat : \E p \in [0 .. N - 1 -> Nodes] : Chain(N, p)
    BY DEF ListInv, Linked
  <2>2. PICK p \in [0 .. N - 1 -> Nodes] : Chain(N, p)
    BY <2>1
  <2>3. N = 0
    BY <1>1, <2>2, ChainEmpty
  <2>4. QED
    BY <2>2, <2>3 DEF Chain
<1>3. Linked'
  <2>1. (head = NULL /\ heap = {} => Linked)'
    BY EmptyLinked, PTL
  <2>2. QED
    BY <1>2, <2>1 DEF Create
<1>4. ListTypeOK'
  BY DEF ListInv, ListTypeOK, Create, elements, Pointer
<1>5. ElementsOwned'
  BY DEF ListInv, ElementsOwned, Create, elements
<1>6. QED
  BY <1>2, <1>3, <1>4, <1>5 DEF ListInv, Create

(* and what the client of the library does with elements of its own keeps  *)
(* the invariant: making one,                                              *)
LEMMA ClientMakesKeeps ==
  ASSUME ListInv, NEW o \in Objects, NEW v \in Values, ClientMakes(o, v)
  PROVE  ListInv'
<1>1. /\ ListTypeOK /\ o \notin objects /\ objects' = objects \cup {o} /\ held' = held \cup {o}
      /\ value' = [value EXCEPT ![o] = v]
      /\ exists' = exists /\ head' = head /\ prev' = prev /\ next' = next
      /\ element' = element /\ heap' = heap
  BY DEF ClientMakes, pointers, ListInv
<1>2. ListTypeOK'
  BY <1>1 DEF ListTypeOK
<1>3. Linked'
  BY <1>1 DEF Linked, Chain, ListInv
<1>4. ElementsOwned'
  BY <1>1 DEF ElementsOwned, ListInv
<1>5. QED
  BY <1>1, <1>2, <1>3, <1>4 DEF ListInv

(* or freeing one.                                                         *)
LEMMA ClientFreesKeeps ==
  ASSUME ListInv, NEW o, ClientFrees(o)
  PROVE  ListInv'
<1>1. /\ ListTypeOK /\ o \in held /\ objects' = objects \ {o} /\ held' = held \ {o}
      /\ value' = value
      /\ exists' = exists /\ head' = head /\ prev' = prev /\ next' = next
      /\ element' = element /\ heap' = heap
  BY DEF ClientFrees, pointers, ListInv
<1>2. ListTypeOK'
  BY <1>1 DEF ListTypeOK
<1>3. Linked'
  BY <1>1 DEF Linked, Chain, ListInv
<1>4. ElementsOwned'
  BY <1>1 DEF ElementsOwned, ListInv
<1>5. QED
  BY <1>1, <1>2, <1>3, <1>4 DEF ListInv

(* The initial states satisfy the invariant.                               *)
LEMMA InitListInv == ListInit => ListInv
<1> SUFFICES ASSUME ListInit PROVE ListInv
  OBVIOUS
<1>1. ListTypeOK
  BY DEF ListInit, ListTypeOK, Pointer
<1>2. Linked
  BY EmptyLinked DEF ListInit
<1>3. ElementsOwned
  BY DEF ListInit, ElementsOwned
<1>4. QED
  BY <1>1, <1>2, <1>3 DEF ListInv, ListInit

(* The inductive invariant of the list library holds after any calls, for  *)
(* any number of nodes, elements and values and any indices.               *)
THEOREM ListInvariant == ListSpec => []ListInv
<1>1. ListInv /\ [ListNext]_listVars => ListInv'
  <2> SUFFICES ASSUME ListInv, [ListNext]_listVars PROVE ListInv'
    OBVIOUS
  <2>1. CASE Create
    BY <2>1, CreateKeeps
  <2>2. ASSUME NEW o \in Objects, ClientFrees(o) PROVE ListInv'
    BY <2>2, ClientFreesKeeps
  <2>3. ASSUME NEW o \in Objects, NEW v \in Values, ClientMakes(o, v) PROVE ListInv'
    BY <2>3, ClientMakesKeeps
  <2>4. ASSUME NEW o \in Objects, NEW i \in Indices, NEW c \in BOOLEAN, Insert(o, i, c) PROVE ListInv'
    BY <2>4, InsertKeeps, DPListAssumption
  <2>5. ASSUME NEW f \in BOOLEAN, Free(f) PROVE ListInv'
    BY <2>5, FreeKeeps
  <2>6. ASSUME NEW f \in BOOLEAN, NEW i \in Indices, Remove(i, f) PROVE ListInv'
    BY <2>6, RemoveKeeps, DPListAssumption
  <2>7. CASE UNCHANGED listVars
    BY <2>7 DEF listVars, pointers, elements, ListInv, ListTypeOK, Linked, Chain, ElementsOwned
  <2>8. QED
    BY <2>1, <2>2, <2>3, <2>4, <2>5, <2>6, <2>7 DEF ListNext
<1>2. QED
  BY <1>1, InitListInv, PTL DEF ListSpec

(* What the invariant says of chains is what WellLinked says of Walk.      *)
LEMMA LinkedWell == ListInv => WellLinked
<1> SUFFICES ASSUME ListInv PROVE WellLinked
  OBVIOUS
<1>1. PICK N \in Nat : \E p \in [0 .. N - 1 -> Nodes] : Chain(N, p)
  BY DEF ListInv, Linked
<1>2. PICK p \in [0 .. N - 1 -> Nodes] : Chain(N, p)
  BY <1>1
<1>3. ListTypeOK /\ heap \in SUBSET Nodes
  BY DEF ListInv, ListTypeOK
<1>4. heap = {Walk[k] : k \in DOMAIN Walk} \ {NULL} /\ Size = N /\ N = Cardinality(heap)
  BY <1>2, <1>3, SizeChain, ChainLength
<1>5. head # NULL => exists /\ prev[head] = NULL
  BY <1>2 DEF Chain, ListInv
<1>6. ASSUME NEW n \in heap, next[n] # NULL PROVE prev[next[n]] = n
  <2>1. PICK k \in 0 .. N - 1 : n = p[k]
    BY <1>2 DEF Chain
  <2>2. k # N - 1 /\ next[n] = p[k + 1]
    BY <1>2, <1>6, <2>1 DEF Chain
  <2>3. k + 1 \in 0 .. N - 1 /\ k + 1 # 0 /\ (k + 1) - 1 = k
    BY <2>2
  <2>4. QED
    BY <1>2, <2>1, <2>2, <2>3 DEF Chain
<1>7. QED
  BY <1>3, <1>4, <1>5, <1>6 DEF WellLinked

(* Whatever the calls and their indices, next and prev stay each other's   *)
(* inverse and lead through all the nodes on the heap, and every element   *)
(* belongs to the client or to one node: none is lost, freed twice or      *)
(* shared.                                                                 *)
THEOREM ListWellLinked == ListSpec => [](WellLinked /\ ElementsOwned)
<1>1. ListInv => WellLinked /\ ElementsOwned
  BY LinkedWell DEF ListInv
<1>2. QED
  BY <1>1, ListInvariant, PTL

(* Where the invariant holds, the queries answer what the chain says.      *)
LEMMA ReachedAgree == ListInv => QueriesAgree
<1> SUFFICES ASSUME ListInv PROVE QueriesAgree
  OBVIOUS
<1>1. PICK N \in Nat : \E p \in [0 .. N - 1 -> Nodes] : Chain(N, p)
  BY DEF ListInv, Linked
<1>2. PICK p \in [0 .. N - 1 -> Nodes] : Chain(N, p)
  BY <1>1
<1>3. heap \in SUBSET Nodes /\ Size = N /\ {Walk[k] : k \in DOMAIN Walk} \ {NULL} = heap
  BY <1>2, SizeChain DEF ListInv, ListTypeOK
<1>4. \A i \in Int : ReferenceAt(i) = IF N = 0 THEN NULL ELSE p[Place(i, N - 1)]
  BY <1>2, ReferenceChain
<1>5. \A k \in 0 .. N - 1 : ElementAt(k) = element[p[k]]
  <2> SUFFICES ASSUME NEW k \in 0 .. N - 1 PROVE ElementAt(k) = element[p[k]]
    OBVIOUS
  <2>1. Place(k, N - 1) = k /\ N # 0
    BY DEF Place, Sequence!Before
  <2>2. p[k] # NULL
    BY <1>2, DPListAssumption DEF Chain, Path
  <2>3. ReferenceAt(k) = p[k]
    BY <1>4, <2>1
  <2>4. QED
    BY <2>2, <2>3 DEF ElementAt
<1>6. ASSUME NEW i \in Indices PROVE ElementAtReference(ReferenceAt(i)) = ElementAt(i)
  <2>1. CASE N = 0
    <3>1. ReferenceAt(i) = NULL
      BY <1>4, <2>1, DPListAssumption
    <3>2. QED
      BY <3>1 DEF ElementAtReference, ElementAt
  <2>2. CASE N # 0
    <3>1. i \in Int /\ Place(i, N - 1) \in 0 .. N - 1
      BY <2>2, DPListAssumption DEF Place, Sequence!Before
    <3>2. ReferenceAt(i) \in heap /\ ReferenceAt(i) # NULL
      BY <1>2, <1>3, <1>4, <2>2, <3>1, DPListAssumption DEF Chain
    <3>3. \E k \in DOMAIN Walk : Walk[k] = ReferenceAt(i)
      BY <1>3, <3>2
    <3>4. QED
      BY <3>2, <3>3 DEF ElementAtReference, ElementAt
  <2>3. QED
    BY <2>1, <2>2
<1>7. ASSUME NEW v \in Values
      PROVE  /\ IndexOf(v) # -1 => value[ElementAt(IndexOf(v))] = v
             /\ \A i \in Indices : i \in 0 .. Size - 1 /\ value[ElementAt(i)] = v
                                     => IndexOf(v) \in 0 .. i
  <2>1. /\ IndexOf(v) # -1 => IndexOf(v) \in 0 .. N - 1 /\ value[element[p[IndexOf(v)]]] = v
        /\ \A k \in 0 .. N - 1 : value[element[p[k]]] = v => IndexOf(v) \in 0 .. k
    BY <1>2, <1>3, IndexChain
  <2>2. QED
    BY <1>3, <1>5, <2>1
<1>8. QED
  BY <1>6, <1>7 DEF QueriesAgree

(* Whatever the calls before, size, index and reference queries agree with *)
(* each other and with the links.                                          *)
THEOREM ListQueriesAgree == ListSpec => []QueriesAgree
BY ListInvariant, ReachedAgree, PTL

(* The values in the order of the list, of a chain *)
ValuesOf(N, p, elem, val) == [k \in 1 .. N |-> val[elem[p[k - 1]]]]

(* The abstract list is the sequence of the values of the chain,           *)
LEMMA ItemsChain ==
  ListTypeOK => \A N \in Nat : \A p : Chain(N, p) => Items = ValuesOf(N, p, element, value)
<1> SUFFICES ASSUME ListTypeOK, NEW N \in Nat, NEW p, Chain(N, p)
             PROVE  Items = ValuesOf(N, p, element, value)
  OBVIOUS
<1>1. Size = N /\ N <= Cardinality(Nodes) /\ Cardinality(Nodes) \in Nat
  BY SizeChain, ChainLength, CapacityType DEF ListTypeOK
<1>2. Walk = [k \in 0 .. Cardinality(Nodes) |-> IF k < N THEN p[k] ELSE NULL]
  BY WalkChain DEF ListTypeOK
<1>3. \A k \in 1 .. N : Walk[k - 1] = p[k - 1]
  BY <1>1, <1>2
<1>4. QED
  BY <1>1, <1>3 DEF Items, ValuesOf

(* in the next state as well.                                              *)
LEMMA ItemsChainNext ==
  ListTypeOK' => \A N \in Nat : \A p : Chain(N, p)' => Items' = ValuesOf(N, p, element', value')
<1>1. (ListTypeOK => \A N \in Nat : \A p : Chain(N, p) => Items = ValuesOf(N, p, element, value))'
  BY ItemsChain, PTL
<1>2. QED
  BY <1>1

(* t is the sequence s with v behind its first b elements; without the     *)
(* element behind them.                                                    *)
PutIn(V, t, s, b, v) ==
  /\ t \in [1 .. Len(s) + 1 -> V]
  /\ \A k \in 1 .. Len(s) + 1 :
       t[k] = IF k <= b THEN s[k] ELSE IF k = b + 1 THEN v ELSE s[k - 1]
(* t is s without the element behind its first b.                          *)
TakenFrom(V, t, s, b) ==
  /\ t \in [1 .. Len(s) - 1 -> V]
  /\ \A k \in 1 .. Len(s) - 1 : t[k] = IF k <= b THEN s[k] ELSE s[k + 1]

(* Such a t is what InsertAt of the sequence library gives,                *)
LEMMA InsertAtIs ==
  ASSUME NEW V, NEW s \in Seq(V), NEW v \in V, NEW b \in 0 .. Len(s),
         NEW w, PutIn(V, w, s, b, v)
  PROVE  w = Sequence!InsertAt(s, b + 1, v)
<1> DEFINE l == SubSeq(s, 1, b)
           r == SubSeq(s, b + 1, Len(s))
           t == l \o <<v>>
           u == t \o r
<1>1. l \in Seq(V) /\ Len(l) = b /\ \A k \in 1 .. b : l[k] = s[k]
  OBVIOUS
<1>2. r \in Seq(V) /\ Len(r) = Len(s) - b /\ \A k \in 1 .. Len(s) - b : r[k] = s[b + k]
  OBVIOUS
<1> HIDE DEF l, r
<1>3. <<v>> \in Seq(V) /\ Len(<<v>>) = 1
  OBVIOUS
<1>4. t \in Seq(V) /\ Len(t) = b + 1 /\ t[b + 1] = v /\ \A k \in 1 .. b : t[k] = s[k]
  <2>1. /\ t \in Seq(V) /\ Len(t) = Len(l) + Len(<<v>>)
        /\ \A k \in 1 .. Len(l) + Len(<<v>>) :
             t[k] = IF k <= Len(l) THEN l[k] ELSE <<v>>[k - Len(l)]
    BY <1>1, <1>3, ConcatProperties
  <2>2. QED
    BY <1>1, <1>3, <2>1
<1> HIDE DEF t
<1>c. /\ u \in Seq(V) /\ Len(u) = Len(t) + Len(r)
      /\ \A k \in 1 .. Len(t) + Len(r) : u[k] = IF k <= Len(t) THEN t[k] ELSE r[k - Len(t)]
  BY <1>2, <1>4, ConcatProperties
<1>5. u \in Seq(V) /\ Len(u) = Len(s) + 1
  <2>1. Len(s) \in Nat /\ b \in Int
    OBVIOUS
  <2>2. QED
    BY <1>2, <1>4, <1>c, <2>1
<1>6. \A k \in 1 .. b + 1 : u[k] = t[k]
  BY <1>2, <1>4, <1>c
<1>7. \A k \in b + 2 .. Len(s) + 1 : u[k] = r[k - (b + 1)]
  <2> SUFFICES ASSUME NEW k \in b + 2 .. Len(s) + 1 PROVE u[k] = r[k - (b + 1)]
    OBVIOUS
  <2>1. Len(t) = b + 1 /\ Len(r) = Len(s) - b
    BY <1>2, <1>4
  <2>2. k \in 1 .. Len(t) + Len(r) /\ ~(k <= Len(t))
    BY <2>1
  <2>3. QED
    BY <1>c, <2>1, <2>2
<1>8. u = Sequence!InsertAt(s, b + 1, v)
  <2>1. (b + 1) - 1 = b
    OBVIOUS
  <2>2. Sequence!InsertAt(s, b + 1, v) = SubSeq(s, 1, b) \o <<v>> \o SubSeq(s, b + 1, Len(s))
    BY <2>1 DEF Sequence!InsertAt
  <2>3. QED
    BY <2>2 DEF u, t, l, r
<1> HIDE DEF u
<1>9. ASSUME NEW k \in 1 .. Len(s) + 1
      PROVE  u[k] = IF k <= b THEN s[k] ELSE IF k = b + 1 THEN v ELSE s[k - 1]
  <2>1. CASE k <= b
    BY <1>4, <1>6, <2>1
  <2>2. CASE k = b + 1
    BY <1>4, <1>6, <2>2
  <2>3. CASE k > b + 1
    <3>1. k - (b + 1) \in 1 .. Len(s) - b /\ b + (k - (b + 1)) = k - 1
      <4>1. Len(s) \in Nat
        OBVIOUS
      <4>2. QED
        BY <2>3, <4>1
    <3>2. k \in b + 2 .. Len(s) + 1 /\ ~(k <= b) /\ k # b + 1
      BY <2>3
    <3>3. u[k] = r[k - (b + 1)]
      BY <1>7, <3>2
    <3>4. r[k - (b + 1)] = s[b + (k - (b + 1))]
      BY <1>2, <3>1
    <3>5. QED
      BY <3>1, <3>2, <3>3, <3>4
  <2>4. QED
    BY <2>1, <2>2, <2>3
<1>10. u \in [1 .. Len(s) + 1 -> V]
  BY <1>5
<1>11. w = u
  <2>1. w \in [1 .. Len(s) + 1 -> V]
    BY DEF PutIn
  <2>2. \A k \in 1 .. Len(s) + 1 : w[k] = u[k]
    BY <1>9 DEF PutIn
  <2>3. QED
    BY <1>10, <2>1, <2>2
<1>12. QED
  BY <1>8, <1>11

(* and RemoveAt.                                                           *)
LEMMA RemoveAtIs ==
  ASSUME NEW V, NEW s \in Seq(V), NEW b \in 0 .. Len(s) - 1,
         NEW w, TakenFrom(V, w, s, b)
  PROVE  w = Sequence!RemoveAt(s, b + 1)
<1> DEFINE l == SubSeq(s, 1, b)
           r == SubSeq(s, b + 2, Len(s))
           u == l \o r
<1>1. l \in Seq(V) /\ Len(l) = b /\ \A k \in 1 .. b : l[k] = s[k]
  OBVIOUS
<1>2. /\ r \in Seq(V) /\ Len(r) = Len(s) - (b + 1)
      /\ \A k \in 1 .. Len(s) - (b + 1) : r[k] = s[b + 1 + k]
  OBVIOUS
<1>3. u = Sequence!RemoveAt(s, b + 1)
  <2>1. (b + 1) - 1 = b /\ (b + 1) + 1 = b + 2
    OBVIOUS
  <2>2. QED
    BY <2>1 DEF Sequence!RemoveAt
<1> HIDE DEF l, r
<1>c. /\ u \in Seq(V) /\ Len(u) = Len(l) + Len(r)
      /\ \A k \in 1 .. Len(l) + Len(r) : u[k] = IF k <= Len(l) THEN l[k] ELSE r[k - Len(l)]
  BY <1>1, <1>2, ConcatProperties
<1>4. u \in Seq(V) /\ Len(u) = Len(s) - 1
  BY <1>1, <1>2, <1>c
<1>5. \A k \in 1 .. b : u[k] = l[k]
  BY <1>1, <1>2, <1>c
<1>6. \A k \in b + 1 .. Len(s) - 1 : u[k] = r[k - b]
  BY <1>1, <1>2, <1>c
<1> HIDE DEF u
<1>7. ASSUME NEW k \in 1 .. Len(s) - 1 PROVE u[k] = IF k <= b THEN s[k] ELSE s[k + 1]
  <2>1. CASE k <= b
    BY <1>1, <1>5, <2>1
  <2>2. CASE k > b
    <3>1. k - b \in 1 .. Len(s) - (b + 1) /\ b + 1 + (k - b) = k + 1
      BY <2>2
    <3>2. QED
      BY <1>2, <1>6, <2>2, <3>1
  <2>3. QED
    BY <2>1, <2>2
<1>8. u \in [1 .. Len(s) - 1 -> V]
  BY <1>4
<1>9. w = u
  BY <1>7, <1>8 DEF TakenFrom
<1>10. QED
  BY <1>3, <1>9

(* A list without nodes is the empty sequence,                             *)
LEMMA EmptyItems == ListInv /\ head = NULL => Items = <<>>
<1> SUFFICES ASSUME ListInv, head = NULL PROVE Items = <<>>
  OBVIOUS
<1>1. PICK N \in Nat : \E p \in [0 .. N - 1 -> Nodes] : Chain(N, p)
  BY DEF ListInv, Linked
<1>2. PICK p \in [0 .. N - 1 -> Nodes] : Chain(N, p)
  BY <1>1
<1>3. N = 0
  BY <1>2, ChainEmpty
<1>4. Items = ValuesOf(0, p, element, value)
  BY <1>2, <1>3, ItemsChain DEF ListInv
<1>5. QED
  BY <1>4 DEF ValuesOf

(* in the next state as well.                                              *)
LEMMA EmptyItemsNext == ListInv' /\ head' = NULL => Items' = <<>>
<1>1. (ListInv /\ head = NULL => Items = <<>>)'
  BY EmptyItems, PTL
<1>2. QED
  BY <1>1

(* The values of a chain form a sequence of its length. *)
LEMMA ValuesType ==
  ASSUME ListInv, NEW N \in Nat, NEW p, Chain(N, p)
  PROVE  /\ Items = ValuesOf(N, p, element, value)
         /\ Items \in Seq(Values \cup {NULL}) /\ Len(Items) = N
         /\ \A k \in 1 .. N : Items[k] = value[element[p[k - 1]]]
<1>1. Items = ValuesOf(N, p, element, value)
  BY ItemsChain DEF ListInv
<1>2. ASSUME NEW k \in 1 .. N PROVE value[element[p[k - 1]]] \in Values \cup {NULL}
  <2>1. p[k - 1] \in heap
    <3>1. k - 1 \in 0 .. N - 1
      OBVIOUS
    <3>2. QED
      BY <3>1 DEF Chain
  <2>2. element[p[k - 1]] \in Objects
    BY <2>1 DEF ListInv, ListTypeOK, ElementsOwned
  <2>3. QED
    BY <2>2 DEF ListInv, ListTypeOK
<1>3. QED
  BY <1>1, <1>2 DEF ValuesOf

(* Inserting in the list inserts in the sequence, at the place that the    *)
(* index names,                                                            *)
LEMMA InsertPromise ==
  ASSUME ListInv, NEW o, NEW i \in Int, NEW c \in BOOLEAN, Insert(o, i, c)
  PROVE  Sequence!Insert(value[o], i)
<1>1. PICK N \in Nat : \E p \in [0 .. N - 1 -> Nodes] : Chain(N, p)
  BY DEF ListInv, Linked
<1>2. PICK p \in [0 .. N - 1 -> Nodes] : Chain(N, p)
  BY <1>1
<1>3. PICK n \in Nodes, e \in Objects : ListTypeOK' /\ Inserted(o, i, c, N, p, n, e)
  BY <1>2, InsertIs
<1> DEFINE b == Place(i, N)
           q == Put(p, N, b, n)
<1>4. /\ Items \in Seq(Values \cup {NULL}) /\ Len(Items) = N
      /\ \A k \in 1 .. N : Items[k] = value[element[p[k - 1]]]
  BY <1>2, ValuesType
<1>5. b \in 0 .. N
  BY DEF Place, Sequence!Before
<1>6. Items' = ValuesOf(N + 1, q, element', value')
  <2>1. N + 1 \in Nat /\ Chain(N + 1, q)'
    BY <1>3 DEF Inserted
  <2> HIDE DEF q
  <2>2. QED
    BY <1>3, <2>1, ItemsChainNext
<1>7. /\ \A m \in heap : value'[element'[m]] = value[element[m]]
      /\ value'[element'[n]] = value[o]
      /\ value[o] \in Values \cup {NULL}
  <2>1. /\ element \in [Nodes -> Objects \cup {NULL}] /\ value \in [Objects -> Values \cup {NULL}]
        /\ heap \subseteq Nodes /\ held \subseteq objects /\ objects \subseteq Objects
        /\ \A m \in heap : element[m] \in objects /\ element[m] \notin held
    BY DEF ListInv, ListTypeOK, ElementsOwned
  <2>2. /\ element' = [element EXCEPT ![n] = e] /\ value' = [value EXCEPT ![e] = value[o]]
        /\ n \in Nodes \ heap /\ e \in Objects /\ o \in held
        /\ IF c THEN e \notin objects ELSE e = o
    BY <1>3 DEF Inserted
  <2>3. \A m \in heap : element'[m] = element[m] /\ element[m] # e /\ element[m] \in Objects
    BY <2>1, <2>2
  <2>4. element'[n] = e
    BY <2>1, <2>2
  <2>5. QED
    BY <2>1, <2>2, <2>3, <2>4
<1>8. ASSUME NEW k \in 1 .. N + 1
      PROVE  value'[element'[q[k - 1]]]
               = IF k <= b THEN Items[k] ELSE IF k = b + 1 THEN value[o] ELSE Items[k - 1]
  <2>0. \A l \in 0 .. N - 1 : p[l] \in heap
    BY <1>2 DEF Chain
  <2>1. CASE k <= b
    <3>1. q[k - 1] = p[k - 1] /\ k \in 1 .. N /\ k - 1 \in 0 .. N - 1
      BY <1>5, <2>1 DEF Put
    <3> HIDE DEF q, b
    <3>2. QED
      BY <1>4, <1>7, <2>0, <2>1, <3>1
  <2>2. CASE k = b + 1
    <3>1. q[k - 1] = n
      BY <1>5, <2>2 DEF Put
    <3> HIDE DEF q, b
    <3>2. QED
      BY <1>5, <1>7, <2>2, <3>1
  <2>3. CASE k > b + 1
    <3>1. q[k - 1] = p[(k - 1) - 1] /\ k - 1 \in 1 .. N /\ (k - 1) - 1 \in 0 .. N - 1
      BY <1>5, <2>3 DEF Put
    <3>2. ~(k <= b) /\ k # b + 1
      BY <1>5, <2>3
    <3> HIDE DEF q, b
    <3>3. QED
      BY <1>4, <1>7, <2>0, <3>1, <3>2
  <2>4. QED
    BY <1>5, <2>1, <2>2, <2>3
<1> HIDE DEF q
<1>9. PutIn(Values \cup {NULL}, Items', Items, b, value[o])
  <2> HIDE DEF b
  <2>1. \A k \in 1 .. N + 1 : Items'[k] = value'[element'[q[k - 1]]]
    BY <1>6 DEF ValuesOf
  <2>2. \A k \in 1 .. N + 1 :
          IF k <= b THEN k \in 1 .. N
          ELSE k = b + 1 \/ k - 1 \in 1 .. N
    BY <1>5
  <2>3. \A k \in 1 .. N : Items[k] \in Values \cup {NULL}
    BY <1>4
  <2>4. \A k \in 1 .. N + 1 : Items'[k] \in Values \cup {NULL}
    BY <1>7, <1>8, <2>1, <2>2, <2>3
  <2>5. Items' = [k \in 1 .. N + 1 |-> Items'[k]]
    BY <1>6 DEF ValuesOf
  <2>6. Items' \in [1 .. N + 1 -> Values \cup {NULL}]
    BY <2>4, <2>5
  <2>7. QED
    BY <1>4, <1>8, <2>1, <2>6 DEF PutIn
<1>10. Items' = Sequence!InsertAt(Items, b + 1, value[o])
  <2> HIDE DEF b
  <2>1. b \in 0 .. Len(Items)
    BY <1>4, <1>5
  <2>2. QED
    BY <1>4, <1>7, <1>9, <2>1, InsertAtIs
<1>11. exists /\ exists' = exists
  BY DEF Insert
<1>12. QED
  BY <1>4, <1>10, <1>11 DEF Sequence!Insert, b, Place

(* and removing removes.                                                   *)
LEMMA RemovePromise ==
  ASSUME ListInv, NEW i \in Int, NEW f \in BOOLEAN, Remove(i, f)
  PROVE  Sequence!Delete(i)
<1>1. PICK N \in Nat : \E p \in [0 .. N - 1 -> Nodes] : Chain(N, p)
  BY DEF ListInv, Linked
<1>2. PICK p \in [0 .. N - 1 -> Nodes] : Chain(N, p)
  BY <1>1
<1> DEFINE b == Place(i, N - 1)
           q == Cut(p, N, b)
<1>3. /\ b \in 0 .. N - 1 /\ ListTypeOK' /\ Chain(N - 1, q)'
      /\ value' = value /\ element' = element
  BY <1>2, RemoveIs DEF Release
<1>4. /\ Items \in Seq(Values \cup {NULL}) /\ Len(Items) = N
      /\ \A k \in 1 .. N : Items[k] = value[element[p[k - 1]]]
  BY <1>2, ValuesType
<1>5. ASSUME NEW k \in 1 .. N - 1
      PROVE  value[element[q[k - 1]]] = IF k <= b THEN Items[k] ELSE Items[k + 1]
  <2> HIDE DEF b
  <2>1. q[k - 1] = IF k <= b THEN p[k - 1] ELSE p[(k - 1) + 1]
    BY <1>3 DEF Cut
  <2>2. k \in 1 .. N /\ k + 1 \in 1 .. N /\ (k + 1) - 1 = (k - 1) + 1
    OBVIOUS
  <2> HIDE DEF q
  <2>3. QED
    BY <1>3, <1>4, <2>1, <2>2
<1>6. Items' = ValuesOf(N - 1, q, element', value')
  <2>1. N - 1 \in Nat
    BY <1>3
  <2> HIDE DEF q, b
  <2>2. QED
    BY <1>3, <2>1, ItemsChainNext
<1> HIDE DEF q, b
<1>7. TakenFrom(Values \cup {NULL}, Items', Items, b)
  <2>1. \A k \in 1 .. N - 1 : Items'[k] = value[element[q[k - 1]]]
    BY <1>3, <1>6 DEF ValuesOf
  <2>2. \A k \in 1 .. N - 1 : k \in 1 .. N /\ k + 1 \in 1 .. N
    OBVIOUS
  <2>3. \A k \in 1 .. N : Items[k] \in Values \cup {NULL}
    BY <1>4
  <2>4. \A k \in 1 .. N - 1 : Items'[k] \in Values \cup {NULL}
    BY <1>5, <2>1, <2>2, <2>3
  <2>5. Items' = [k \in 1 .. N - 1 |-> Items'[k]]
    BY <1>6 DEF ValuesOf
  <2>6. Items' \in [1 .. N - 1 -> Values \cup {NULL}]
    BY <2>4, <2>5
  <2>7. QED
    BY <1>4, <1>5, <2>1, <2>6 DEF TakenFrom
<1>8. Items' = Sequence!RemoveAt(Items, b + 1)
  <2>1. b \in 0 .. Len(Items) - 1
    BY <1>3, <1>4
  <2>2. QED
    BY <1>4, <1>7, <2>1, RemoveAtIs
<1>9. exists /\ exists' = exists /\ Items # <<>>
  BY <1>3, <1>4 DEF Remove
<1>10. QED
  BY <1>4, <1>8, <1>9 DEF Sequence!Delete, b, Place

(* The list implements the sequence its header promises: each call over    *)
(* the heap does to the values in order what DPSequence says.              *)
THEOREM ListKeepsPromise == ListSpec => CallsKeepPromise
<1> DEFINE Promise ==
      /\ Create => Sequence!Create
      /\ \A o \in Objects, i \in Indices, c \in BOOLEAN :
           Insert(o, i, c) => Sequence!Insert(value[o], i)
      /\ \A f \in BOOLEAN :
           /\ Free(f) => Sequence!Free
           /\ \A i \in Indices : Remove(i, f) => Sequence!Delete(i)
<1>1. ASSUME ListInv PROVE Promise
  <2>1. Create => Sequence!Create
    BY <1>1, CreateKeeps, EmptyItemsNext DEF Sequence!Create, Create
  <2>2. \A o \in Objects, i \in Indices, c \in BOOLEAN :
          Insert(o, i, c) => Sequence!Insert(value[o], i)
    BY <1>1, InsertPromise, DPListAssumption
  <2>3. ASSUME NEW f \in BOOLEAN PROVE Free(f) => Sequence!Free
    BY <1>1, FreeKeeps, EmptyItemsNext DEF Sequence!Free, Free
  <2>4. ASSUME NEW f \in BOOLEAN, NEW i \in Indices PROVE Remove(i, f) => Sequence!Delete(i)
    BY <1>1, RemovePromise, DPListAssumption
  <2>5. QED
    BY <2>1, <2>2, <2>3, <2>4
<1>2. QED
  BY <1>1, ListInvariant, PTL DEF CallsKeepPromise

-----------------------------------------------------------------------------
(* f gives the results of N steps of G from a on.                          *)
Steps(f, N, S, a, G) ==
  /\ f \in [0 .. N -> S] /\ f[0] = a
  /\ \A k \in 1 .. N : f[k] = G[<<k, f[k - 1]>>]
(* There is such a function.                                               *)
Recursive(N, S, a, G) == \E f : Steps(f, N, S, a, G)

(* A definition by recursion over 0..N has a solution, whatever the step.  *)
LEMMA Recursion ==
  ASSUME NEW N \in Nat, NEW S, NEW a \in S, NEW G \in [(1 .. N) \X S -> S]
  PROVE  Recursive(N, S, a, G)
<1> DEFINE Sol(n, f) == /\ f[0] = a
                        /\ \A k \in 1 .. n : f[k] = G[<<k, f[k - 1]>>]
           T == {n \in Nat : n <= N => \E f \in [0 .. n -> S] : Sol(n, f)}
<1>1. 0 \in T
  <2>1. [k \in 0 .. 0 |-> a] \in [0 .. 0 -> S] /\ Sol(0, [k \in 0 .. 0 |-> a])
    OBVIOUS
  <2> HIDE DEF Sol
  <2>2. QED
    BY <2>1
<1>2. ASSUME NEW n \in T PROVE n + 1 \in T
  <2> SUFFICES ASSUME n + 1 <= N PROVE \E f \in [0 .. n + 1 -> S] : Sol(n + 1, f)
    BY <1>2
  <2>1. n \in Nat /\ n <= N /\ n \in 0 .. n /\ n + 1 \in 1 .. N
    BY <1>2
  <2>2. \E f \in [0 .. n -> S] : Sol(n, f)
    <3> HIDE DEF Sol
    <3>1. QED
      BY <1>2, <2>1
  <2>3. PICK f \in [0 .. n -> S] : Sol(n, f)
    <3> HIDE DEF Sol
    <3>1. QED
      BY <2>2
  <2> DEFINE x == G[<<n + 1, f[n]>>]
             g == [k \in 0 .. n + 1 |-> IF k = n + 1 THEN x ELSE f[k]]
  <2>4. f[n] \in S /\ x \in S
    BY <2>1
  <2>5. g \in [0 .. n + 1 -> S]
    <3> HIDE DEF x
    <3>1. \A k \in 0 .. n + 1 : k # n + 1 => k \in 0 .. n
      BY <2>1
    <3>2. QED
      BY <2>4, <3>1
  <2>6. \A k \in 0 .. n : g[k] = f[k]
    BY <2>1
  <2>7. g[n + 1] = x
    BY <2>1
  <2>8. g[0] = a
    BY <2>1, <2>3, <2>6
  <2> HIDE DEF g
  <2>9. \A k \in 1 .. n + 1 : g[k] = G[<<k, g[k - 1]>>]
    <3> SUFFICES ASSUME NEW k \in 1 .. n + 1 PROVE g[k] = G[<<k, g[k - 1]>>]
      OBVIOUS
    <3>1. CASE k = n + 1
      <4>1. k - 1 = n
        BY <2>1, <3>1
      <4>2. QED
        BY <2>1, <2>6, <2>7, <3>1, <4>1
    <3>2. CASE k # n + 1
      <4>1. k \in 1 .. n /\ k \in 0 .. n /\ k - 1 \in 0 .. n
        BY <2>1, <3>2
      <4>2. QED
        BY <2>3, <2>6, <4>1
    <3>3. QED
      BY <3>1, <3>2
  <2>10. Sol(n + 1, g)
    BY <2>8, <2>9
  <2> HIDE DEF Sol
  <2>11. QED
    BY <2>5, <2>10
<1>3. T = Nat
  <2>1. T \in SUBSET Nat
    OBVIOUS
  <2> HIDE DEF T
  <2>2. QED
    BY <1>1, <1>2, <2>1, SetInduction
<1>4. \E f \in [0 .. N -> S] : Sol(N, f)
  <2> HIDE DEF Sol
  <2>1. N \in T
    BY <1>3
  <2>2. QED
    BY <2>1
<1>5. PICK f \in [0 .. N -> S] : Sol(N, f)
  <2> HIDE DEF Sol
  <2>1. QED
    BY <1>4
<1>6. Steps(f, N, S, a, G)
  BY <1>5 DEF Steps
<1>7. QED
  BY <1>6 DEF Recursive

(* What Of says of the records up to each one.                             *)
OfSteps(h, s) ==
  /\ Of(h, s, 0) = <<>>
  /\ \A m \in 1 .. Len(h) :
       Of(h, s, m) = IF h[m].id = s THEN Append(Of(h, s, m - 1), h[m])
                        ELSE Of(h, s, m - 1)
  /\ \A m \in 0 .. Len(h) : Of(h, s, m) \in Seq(Record)

(* Of is the recursive function it is meant to be.                         *)
LEMMA OfFunction ==
  ASSUME NEW h \in Seq(Record), NEW s
  PROVE  OfSteps(h, s)
<1> DEFINE Sol(n, f) == f = [m \in 0 .. n |->
               IF m = 0 THEN <<>>
               ELSE IF h[m].id = s THEN Append(f[m - 1], h[m]) ELSE f[m - 1]]
           F(n) == CHOOSE f : Sol(n, f)
<1>1. ASSUME NEW n \in 0 .. Len(h)
      PROVE  \E f \in [0 .. n -> Seq(Record)] : Sol(n, f)
  <2> DEFINE G == [x \in (1 .. n) \X Seq(Record) |->
                     IF h[x[1]].id = s THEN Append(x[2], h[x[1]]) ELSE x[2]]
  <2>1. n \in Nat /\ <<>> \in Seq(Record) /\ \A m \in 1 .. n : h[m] \in Record
    OBVIOUS
  <2>2. G \in [(1 .. n) \X Seq(Record) -> Seq(Record)]
    <3>1. \A x \in (1 .. n) \X Seq(Record) : h[x[1]] \in Record /\ x[2] \in Seq(Record)
      BY <2>1
    <3>2. \A x \in (1 .. n) \X Seq(Record) : Append(x[2], h[x[1]]) \in Seq(Record)
      BY <3>1, AppendProperties
    <3>3. QED
      BY <3>1, <3>2
  <2>3. \A m \in 1 .. n : \A q \in Seq(Record) :
          G[<<m, q>>] = IF h[m].id = s THEN Append(q, h[m]) ELSE q
    OBVIOUS
  <2> HIDE DEF G
  <2>4. PICK f \in [0 .. n -> Seq(Record)] :
          f[0] = <<>> /\ \A k \in 1 .. n : f[k] = G[<<k, f[k - 1]>>]
    <3> DEFINE Q == Seq(Record)
               z == <<>>
    <3>1. n \in Nat /\ z \in Q /\ G \in [(1 .. n) \X Q -> Q]
      BY <2>1, <2>2
    <3> HIDE DEF Q, z
    <3>2. Recursive(n, Q, z, G)
      BY <3>1, Recursion, Zenon
    <3>3. PICK f : Steps(f, n, Q, z, G)
      BY <3>2 DEF Recursive
    <3>4. QED
      BY <3>3 DEF Steps, Q, z
  <2>5. ASSUME NEW m \in 0 .. n
        PROVE  f[m] = IF m = 0 THEN <<>>
                      ELSE IF h[m].id = s THEN Append(f[m - 1], h[m]) ELSE f[m - 1]
    <3>1. CASE m = 0
      BY <2>4, <3>1
    <3>2. CASE m # 0
      <4>1. m \in 1 .. n /\ m - 1 \in 0 .. n /\ f[m - 1] \in Seq(Record)
        BY <3>2
      <4>2. f[m] = G[<<m, f[m - 1]>>]
        BY <2>4, <3>2
      <4>3. QED
        BY <2>3, <3>2, <4>1, <4>2
    <3>3. QED
      BY <3>1, <3>2
  <2>6. f = [m \in 0 .. n |-> f[m]]
    OBVIOUS
  <2>7. Sol(n, f)
    BY <2>5, <2>6
  <2> HIDE DEF Sol
  <2>8. QED
    BY <2>7
<1>2. ASSUME NEW n \in 0 .. Len(h)
      PROVE  Sol(n, F(n)) /\ Of(h, s, n) = F(n)[n]
  <2>1. Sol(n, F(n))
    <3>1. \E f : Sol(n, f)
      <4> HIDE DEF Sol
      <4>1. QED
        BY <1>1
    <3> HIDE DEF Sol
    <3>2. QED
      BY <3>1
  <2>2. Of(h, s, n) = F(n)[n]
    BY DEF Of
  <2> HIDE DEF F, Sol
  <2>3. QED
    BY <2>1, <2>2
<1>3. PICK f \in [0 .. Len(h) -> Seq(Record)] : Sol(Len(h), f)
  <2>1. Len(h) \in 0 .. Len(h)
    OBVIOUS
  <2> HIDE DEF Sol
  <2>2. QED
    BY <1>1, <2>1
<1>4. /\ f[0] = <<>>
      /\ \A m \in 1 .. Len(h) :
           f[m] = IF h[m].id = s THEN Append(f[m - 1], h[m]) ELSE f[m - 1]
  <2>1. \A m \in 0 .. Len(h) :
          f[m] = IF m = 0 THEN <<>>
                 ELSE IF h[m].id = s THEN Append(f[m - 1], h[m]) ELSE f[m - 1]
    BY <1>3, Zenon
  <2>2. 0 \in 0 .. Len(h) /\ \A m \in 1 .. Len(h) : m \in 0 .. Len(h) /\ m # 0
    OBVIOUS
  <2>3. QED
    BY <2>1, <2>2
<1>5. ASSUME NEW n \in 0 .. Len(h) PROVE F(n)[n] = f[n]
  <2> DEFINE g == F(n)
             T == {m \in Nat : m <= n => g[m] = f[m]}
  <2>1. \A m \in 0 .. n :
          g[m] = IF m = 0 THEN <<>>
                 ELSE IF h[m].id = s THEN Append(g[m - 1], h[m]) ELSE g[m - 1]
    <3>1. Sol(n, F(n))
      BY <1>2
    <3> HIDE DEF F
    <3>2. QED
      BY <3>1, Zenon
  <2> HIDE DEF F, g
  <2>2. 0 \in T
    BY <1>4, <2>1
  <2>3. ASSUME NEW m \in T PROVE m + 1 \in T
    <3> SUFFICES ASSUME m + 1 <= n PROVE g[m + 1] = f[m + 1]
      OBVIOUS
    <3>1. m + 1 \in 0 .. n /\ m + 1 \in 1 .. Len(h) /\ m + 1 # 0 /\ (m + 1) - 1 = m
          /\ g[m] = f[m]
      BY <2>3
    <3>2. g[m + 1] = IF h[m + 1].id = s THEN Append(g[m], h[m + 1]) ELSE g[m]
      BY <2>1, <3>1
    <3>3. f[m + 1] = IF h[m + 1].id = s THEN Append(f[m], h[m + 1]) ELSE f[m]
      BY <1>4, <3>1
    <3>4. QED
      BY <3>1, <3>2, <3>3
  <2>4. T \in SUBSET Nat
    OBVIOUS
  <2> HIDE DEF T
  <2>5. T = Nat
    BY <2>2, <2>3, <2>4, SetInduction
  <2>6. QED
    BY <2>5 DEF T, g
<1> HIDE DEF Sol, F
<1>6. \A m \in 0 .. Len(h) : Of(h, s, m) = f[m]
  BY <1>2, <1>5
<1>7. 0 \in 0 .. Len(h)
      /\ \A m \in 1 .. Len(h) : m \in 0 .. Len(h) /\ m - 1 \in 0 .. Len(h)
  OBVIOUS
<1>8. QED
  BY <1>3, <1>4, <1>6, <1>7 DEF OfSteps

-----------------------------------------------------------------------------
(* What one record more changes of Of.                                     *)
OfAppended(h, r, s) ==
  /\ \A n \in 0 .. Len(h) : Of(Append(h, r), s, n) = Of(h, s, n)
  /\ Of(Append(h, r), s, Len(h) + 1)
       = IF r.id = s THEN Append(Of(h, s, Len(h)), r) ELSE Of(h, s, Len(h))

(* The measurements of a sensor among the earlier records stay what they   *)
(* were; a new record joins those of its own sensor only.                  *)
LEMMA OfAppend ==
  ASSUME NEW h \in Seq(Record), NEW r \in Record, NEW s
  PROVE  OfAppended(h, r, s)
<1> DEFINE g == Append(h, r)
           T == {n \in Nat : n <= Len(h) => Of(g, s, n) = Of(h, s, n)}
<1>1. /\ g \in Seq(Record) /\ Len(g) = Len(h) + 1 /\ g[Len(h) + 1] = r
      /\ \A m \in 1 .. Len(h) : g[m] = h[m]
  OBVIOUS
<1>a. OfSteps(h, s) /\ OfSteps(g, s)
  BY <1>1, OfFunction
<1> HIDE DEF g
<1>2. 0 \in T
  BY <1>1, <1>a DEF OfSteps
<1>3. ASSUME NEW n \in T PROVE n + 1 \in T
  <2> SUFFICES ASSUME n + 1 <= Len(h) PROVE Of(g, s, n + 1) = Of(h, s, n + 1)
    OBVIOUS
  <2>1. /\ n + 1 \in 1 .. Len(h) /\ n + 1 \in 1 .. Len(g) /\ (n + 1) - 1 = n
        /\ Of(g, s, n) = Of(h, s, n) /\ g[n + 1] = h[n + 1]
    BY <1>1, <1>3
  <2>2. Of(g, s, n + 1) = IF g[n + 1].id = s THEN Append(Of(g, s, n), g[n + 1])
                             ELSE Of(g, s, n)
    BY <1>1, <2>1, <1>a DEF OfSteps
  <2>3. Of(h, s, n + 1) = IF h[n + 1].id = s THEN Append(Of(h, s, n), h[n + 1])
                             ELSE Of(h, s, n)
    BY <2>1, <1>a DEF OfSteps
  <2>4. QED
    BY <2>1, <2>2, <2>3
<1>4. T \in SUBSET Nat
  OBVIOUS
<1>5. \A n \in 0 .. Len(h) : Of(g, s, n) = Of(h, s, n)
  <2>1. T = Nat
    <3> HIDE DEF T
    <3>1. QED
      BY <1>2, <1>3, <1>4, SetInduction
  <2>2. QED
    BY <2>1 DEF T
<1>6. Of(g, s, Len(h) + 1)
        = IF r.id = s THEN Append(Of(h, s, Len(h)), r) ELSE Of(h, s, Len(h))
  <2>1. Len(h) + 1 \in 1 .. Len(g) /\ (Len(h) + 1) - 1 = Len(h) /\ Len(h) \in 0 .. Len(h)
    BY <1>1
  <2>2. Of(g, s, Len(h) + 1)
          = IF g[Len(h) + 1].id = s THEN Append(Of(g, s, Len(h)), g[Len(h) + 1])
            ELSE Of(g, s, Len(h))
    BY <1>1, <2>1, <1>a DEF OfSteps
  <2>3. QED
    BY <1>1, <1>5, <2>1, <2>2
<1>7. QED
  BY <1>5, <1>6 DEF g, OfAppended

(* What one record more changes of Recent.                                 *)
RecentAppended(h, r, s) ==
  /\ \A n \in 0 .. Len(h) : Recent(Append(h, r), s, n) = Recent(h, s, n)
  /\ Recent(Append(h, r), s, Len(h) + 1)
       = IF r.id = s THEN Shift(Recent(h, s, Len(h)), r.value)
         ELSE Recent(h, s, Len(h))

(* The latest measurements of a sensor move by one when it measures,       *)
(* exactly as Shift moves its window, and not otherwise.                   *)
LEMMA RecentAppend ==
  ASSUME NEW h \in Seq(Record), NEW r \in Record, NEW s, RunAvgLength \in Nat \ {0}
  PROVE  RecentAppended(h, r, s)
<1>a. OfAppended(h, r, s) /\ OfSteps(h, s)
  BY OfAppend, OfFunction
<1> DEFINE N == Len(h)
           m == Of(h, s, N)
<1>1. ASSUME NEW n \in 0 .. N
      PROVE  Recent(Append(h, r), s, n) = Recent(h, s, n)
  <2>1. Of(Append(h, r), s, n) = Of(h, s, n)
    BY <1>a DEF OfAppended
  <2>2. ASSUME NEW k PROVE Latest(Append(h, r), s, n, k) = Latest(h, s, n, k)
    BY <2>1 DEF Latest
  <2>3. QED
    BY <2>2, Zenon DEF Recent
<1>2. CASE r.id # s
  <2>1. Of(Append(h, r), s, N + 1) = m
    BY <1>2, <1>a DEF OfAppended
  <2>2. Recent(Append(h, r), s, N + 1) = Recent(h, s, N)
    <3>1. ASSUME NEW k PROVE Latest(Append(h, r), s, N + 1, k) = Latest(h, s, N, k)
      BY <2>1 DEF Latest
    <3>2. QED
      BY <3>1, Zenon DEF Recent
  <2>3. QED
    BY <1>1, <1>2, <2>2 DEF RecentAppended
<1>3. CASE r.id = s
  <2>1. Of(Append(h, r), s, N + 1) = Append(m, r)
    BY <1>3, <1>a DEF OfAppended
  <2>2. m \in Seq(Record)
    BY <1>a DEF OfSteps
  <2>3. ASSUME NEW k \in 1 .. RunAvgLength
        PROVE  Latest(Append(h, r), s, N + 1, k)
                 = IF k = 1 THEN r.value ELSE Latest(h, s, N, k - 1)
    <3> HIDE DEF m
    <3>1. /\ Append(m, r) \in Seq(Record) /\ Len(Append(m, r)) = Len(m) + 1
          /\ Append(m, r)[Len(m) + 1] = r
          /\ \A i \in 1 .. Len(m) : Append(m, r)[i] = m[i]
      BY <2>2
    <3>2. Latest(Append(h, r), s, N + 1, k)
            = IF k <= Len(m) + 1 THEN Append(m, r)[Len(m) + 2 - k].value ELSE Preset
      <4>1. Len(m) \in Nat /\ (Len(m) + 1) + 1 - k = Len(m) + 2 - k
        BY <2>2
      <4>2. QED
        BY <2>1, <3>1, <4>1 DEF Latest
    <3>3. CASE k = 1
      BY <2>2, <3>1, <3>2, <3>3
    <3>4. CASE k # 1
      <4>1. Latest(h, s, N, k - 1)
              = IF k - 1 <= Len(m) THEN m[Len(m) + 1 - (k - 1)].value ELSE Preset
        BY DEF Latest, m
      <4>2. /\ Len(m) \in Nat /\ (k - 1 <= Len(m) <=> k <= Len(m) + 1)
            /\ Len(m) + 1 - (k - 1) = Len(m) + 2 - k
            /\ (k <= Len(m) + 1 => Len(m) + 2 - k \in 1 .. Len(m))
        BY <2>2, <3>4
      <4>3. QED
        BY <3>1, <3>2, <3>4, <4>1, <4>2
    <3>5. QED
      BY <3>3, <3>4
  <2>4. Recent(Append(h, r), s, N + 1) = Shift(Recent(h, s, N), r.value)
    <3>1. ASSUME NEW k \in 1 .. RunAvgLength
          PROVE  Latest(Append(h, r), s, N + 1, k)
                   = IF k = 1 THEN r.value ELSE Recent(h, s, N)[k - 1]
      <4>1. k # 1 => Recent(h, s, N)[k - 1] = Latest(h, s, N, k - 1)
        <5>1. k # 1 => k - 1 \in 1 .. RunAvgLength
          OBVIOUS
        <5>2. QED
          BY <5>1 DEF Recent
      <4>2. QED
        BY <2>3, <4>1
    <3>2. QED
      BY <3>1, Zenon DEF Recent, Shift
  <2>5. QED
    BY <1>1, <1>3, <2>4 DEF RecentAppended
<1>4. QED
  BY <1>2, <1>3

-----------------------------------------------------------------------------
(* No earlier element is of the same sensor: a search stops here.          *)
FirstAt(i) ==
  \A j \in 1 .. i - 1 : data_list[j].sensor_id # data_list[i].sensor_id

(* k is the number of the last record of sensor s; 0 when it has none.     *)
LastAt(h, s, k) ==
  IF \E n \in 1 .. Len(h) : h[n].id = s
  THEN /\ k \in 1 .. Len(h) /\ h[k].id = s
       /\ \A m \in k + 1 .. Len(h) : h[m].id # s
  ELSE k = 0

(* The window of an element that has had no measurement.                   *)
Start == [k \in 1 .. RunAvgLength |-> Preset]

(* Later lines of the map are nearer to the front of the list.             *)
RoomsDecrease ==
  \A i \in 1 .. Len(data_list) : \A j \in 1 .. i - 1 :
    data_list[j].room_id > data_list[i].room_id

(* While the map is read no element has changed, and the lines to come     *)
(* have greater numbers than those in the list.                            *)
MapAhead ==
  dpc = "map" =>
    /\ handled = <<>> /\ events = <<>>
    /\ \A i \in 1 .. Len(data_list) :
         data_list[i].window = Start /\ data_list[i].last_modified = 0
    /\ \A i \in 1 .. Len(map) : \A j \in 1 .. Len(data_list) :
         map[i][1] > data_list[j].room_id
    /\ \A i \in 1 .. Len(map) : \A j \in 1 .. i - 1 : map[j][1] < map[i][1]

(* The first element of a sensor has its latest measurements; one that no  *)
(* search stops at is as it was made.                                      *)
WindowsMove ==
  dpc = "poll" =>
    \A i \in 1 .. Len(data_list) :
      IF FirstAt(i)
      THEN /\ data_list[i].window = Recent(handled, data_list[i].sensor_id, Len(handled))
           /\ LastAt(handled, data_list[i].sensor_id, data_list[i].last_modified)
      ELSE data_list[i].window = Start /\ data_list[i].last_modified = 0

(* Every message is about a record that was taken from the buffer.         *)
EventsNumbered ==
  dpc = "poll" => \A i \in 1 .. Len(events) : events[i][1] \in 1 .. Len(handled)

(* The inductive invariant of the data manager.                            *)
DataInv ==
  /\ TypeOK /\ RoomsDecrease /\ MapAhead
  /\ WindowsMove /\ EventsNumbered /\ EventsExact

(* The initial states satisfy it.                                          *)
LEMMA InitDataInv == Init => DataInv
<1> SUFFICES ASSUME Init PROVE DataInv
  OBVIOUS
<1> USE DataMgrAssumption DEF DataMgrAssumption, Init
<1>1. PICK n \in 0 .. MaxLines :
        \E text \in [1 .. n -> Sensors \cup {Malformed}] :
          map = [i \in 1 .. n |-> <<i, text[i]>>]
  OBVIOUS
<1>a. PICK text \in [1 .. n -> Sensors \cup {Malformed}] :
        map = [i \in 1 .. n |-> <<i, text[i]>>]
  BY <1>1
<1>2. n \in Nat /\ 1 .. n \subseteq 1 .. MaxLines
  OBVIOUS
<1>3. map \in Seq((1 .. MaxLines) \X (Sensors \cup {Malformed})) /\ Len(map) = n
  BY <1>a, <1>2
<1>4. TypeOK
  BY <1>3 DEF TypeOK
<1>5. RoomsDecrease /\ WindowsMove /\ EventsNumbered /\ EventsExact
  BY DEF RoomsDecrease, WindowsMove, EventsNumbered, EventsExact
<1>6. MapAhead
  BY <1>a, <1>2, <1>3 DEF MapAhead
<1>7. QED
  BY <1>4, <1>5, <1>6 DEF DataInv

(* Reading a line of the map keeps the invariant: the new element goes     *)
(* before all others, so an earlier line for its sensor is dead.           *)
LEMMA ReadLineKeeps ==
  ASSUME DataInv, ReadLine
  PROVE  DataInv'
<1> USE DataMgrAssumption
<1> USE DEF ReadLine
<1> DEFINE x == [sensor_id |-> Head(map)[2], room_id |-> Head(map)[1],
                 window |-> Start, last_modified |-> 0]
<1>1. /\ map \in Seq((1 .. MaxLines) \X (Sensors \cup {Malformed}))
      /\ data_list \in Seq(Element)
  BY DEF DataInv, TypeOK
<1>2. map[1] \in (1 .. MaxLines) \X (Sensors \cup {Malformed}) /\ Head(map) = map[1]
  BY <1>1
<1>3. map[1][1] \in 1 .. MaxLines /\ map[1][2] \in Sensors
  BY <1>2
<1>4. Preset \in Int
  BY DEF Preset, DataMgrAssumption
<1>5. Start \in [1 .. RunAvgLength -> Int]
  BY <1>4 DEF Start
<1>6. x \in Element
  BY <1>2, <1>3, <1>5 DEF Element, Window
<1>7. data_list' = <<x>> \o data_list
  BY DEF Start
<1>b. /\ handled = <<>> /\ events = <<>> /\ 1 \in 1 .. Len(map)
      /\ \A i \in 1 .. Len(data_list) :
           data_list[i].window = Start /\ data_list[i].last_modified = 0
      /\ \A i \in 1 .. Len(map) : \A j \in 1 .. Len(data_list) :
           map[i][1] > data_list[j].room_id
      /\ \A i \in 1 .. Len(map) : \A j \in 1 .. i - 1 : map[j][1] < map[i][1]
  BY <1>1 DEF DataInv, MapAhead
<1>8. /\ data_list' \in Seq(Element) /\ Len(data_list') = Len(data_list) + 1
      /\ data_list'[1] = x
      /\ \A i \in 2 .. Len(data_list') :
           i - 1 \in 1 .. Len(data_list) /\ data_list'[i] = data_list[i - 1]
  <2> HIDE DEF x, ReadLine
  <2>1. <<x>> \in Seq(Element) /\ Len(<<x>>) = 1 /\ <<x>>[1] = x
    BY <1>6
  <2>2. QED
    BY <1>1, <1>7, <2>1, ConcatProperties
<1>9. /\ x.room_id = map[1][1] /\ x.window = Start /\ x.last_modified = 0
  BY <1>2
<1>10. /\ map' \in Seq((1 .. MaxLines) \X (Sensors \cup {Malformed}))
       /\ Len(map') \in Nat
       /\ \A i \in 1 .. Len(map') :
            /\ i \in Nat /\ i + 1 \in 1 .. Len(map) /\ map'[i] = map[i + 1]
            /\ map'[i] \in (1 .. MaxLines) \X (Sensors \cup {Malformed})
  BY <1>1
<1>c. dpc = "map" /\ dpc' = dpc /\ handled' = handled /\ events' = events
  OBVIOUS
<1> HIDE DEF x, ReadLine
<1>11. TypeOK'
  BY <1>8, <1>10, <1>c DEF DataInv, TypeOK
<1>12. \A i \in 1 .. Len(data_list) : map[1][1] > data_list[i].room_id
  BY <1>1, <1>b
<1>13. RoomsDecrease'
  <2> SUFFICES ASSUME NEW i \in 1 .. Len(data_list'), NEW j \in 1 .. i - 1
               PROVE  data_list'[j].room_id > data_list'[i].room_id
    BY DEF RoomsDecrease
  <2>1. i \in 2 .. Len(data_list') /\ j \in 1 .. Len(data_list')
    BY <1>1, <1>8
  <2>2. CASE j = 1
    BY <1>8, <1>9, <1>12, <2>1, <2>2
  <2>3. CASE j # 1
    <3>1. j \in 2 .. Len(data_list') /\ j - 1 \in 1 .. (i - 1) - 1
      BY <2>1, <2>3
    <3>2. QED
      BY <1>8, <2>1, <3>1 DEF DataInv, RoomsDecrease
  <2>4. QED
    BY <2>2, <2>3
<1>14. MapAhead'
  <2>1. handled' = <<>> /\ events' = <<>>
    BY <1>b, <1>c
  <2>2. \A i \in 1 .. Len(data_list') :
          data_list'[i].window = Start /\ data_list'[i].last_modified = 0
    <3>1. \A i \in 1 .. Len(data_list') : i = 1 \/ i \in 2 .. Len(data_list')
      BY <1>8
    <3>2. QED
      BY <1>8, <1>9, <1>b, <3>1
  <2>3. ASSUME NEW i \in 1 .. Len(map'), NEW j \in 1 .. Len(data_list')
        PROVE  map'[i][1] > data_list'[j].room_id
    <3>1. i + 1 \in 1 .. Len(map) /\ 1 \in 1 .. i + 1 - 1 /\ map'[i] = map[i + 1]
      BY <1>10
    <3>2. map'[i][1] > map[1][1]
      <4>1. map[1][1] < map[i + 1][1]
        BY <3>1, <1>b
      <4>2. map'[i][1] \in 1 .. MaxLines
        BY <1>10
      <4>3. QED
        BY <1>3, <3>1, <4>1, <4>2
    <3>3. CASE j = 1
      BY <1>8, <1>9, <3>2, <3>3
    <3>4. CASE j # 1
      <4>1. j \in 2 .. Len(data_list')
        BY <3>4
      <4>2. QED
        BY <1>8, <3>1, <4>1, <1>b
    <3>5. QED
      BY <3>3, <3>4
  <2>4. ASSUME NEW i \in 1 .. Len(map'), NEW j \in 1 .. i - 1
        PROVE  map'[j][1] < map'[i][1]
    <3>1. j \in 1 .. Len(map') /\ j + 1 \in 1 .. i + 1 - 1
      BY <1>10
    <3>2. map[j + 1][1] < map[i + 1][1]
      BY <1>10, <1>b, <3>1
    <3>3. QED
      BY <1>10, <3>1, <3>2
  <2>5. QED
    BY <2>1, <2>2, <2>3, <2>4 DEF MapAhead, Start
<1>15. WindowsMove' /\ EventsNumbered' /\ EventsExact'
  BY <1>c DEF WindowsMove, EventsNumbered, EventsExact
<1>16. QED
  BY <1>11, <1>13, <1>14, <1>15 DEF DataInv

(* So does a line for which there is no memory.                            *)
LEMMA NoMemoryKeeps ==
  ASSUME DataInv, NoElement \/ NoNode
  PROVE  DataInv'
<1>1. /\ dpc = "map" /\ dpc' \in {"map", "exit"}
      /\ map' = map \/ (map # <<>> /\ map' = Tail(map))
      /\ UNCHANGED <<data_list, handled, events>>
  BY DEF NoElement, NoNode
<1>2. /\ map \in Seq((1 .. MaxLines) \X (Sensors \cup {Malformed}))
      /\ TypeOK /\ RoomsDecrease /\ MapAhead
  BY DEF DataInv, TypeOK
<1>3. /\ map' \in Seq((1 .. MaxLines) \X (Sensors \cup {Malformed})) /\ Len(map') \in Nat
      /\ \E d \in {0, 1} : \A i \in 1 .. Len(map') :
           i \in Nat /\ i + d \in 1 .. Len(map) /\ map'[i] = map[i + d]
  <2>1. CASE map' = map
    <3>1. \A i \in 1 .. Len(map') : i \in Nat /\ i + 0 \in 1 .. Len(map) /\ map'[i] = map[i + 0]
      BY <1>2, <2>1
    <3>2. QED
      BY <1>2, <2>1, <3>1
  <2>2. CASE map # <<>> /\ map' = Tail(map)
    <3>1. \A i \in 1 .. Len(map') : i \in Nat /\ i + 1 \in 1 .. Len(map) /\ map'[i] = map[i + 1]
      BY <1>2, <2>2
    <3>2. QED
      BY <1>2, <2>2, <3>1
  <2>3. QED
    BY <1>1, <2>1, <2>2
<1>4. TypeOK' /\ RoomsDecrease'
  BY <1>1, <1>2, <1>3 DEF TypeOK, RoomsDecrease
<1>5. MapAhead'
  <2>1. PICK d \in {0, 1} : \A i \in 1 .. Len(map') :
               i \in Nat /\ i + d \in 1 .. Len(map) /\ map'[i] = map[i + d]
    BY <1>3
  <2>2. /\ \A i \in 1 .. Len(map) : \A j \in 1 .. Len(data_list) :
             map[i][1] > data_list[j].room_id
        /\ \A i \in 1 .. Len(map) : \A j \in 1 .. i - 1 : map[j][1] < map[i][1]
        /\ handled = <<>> /\ events = <<>>
        /\ \A i \in 1 .. Len(data_list) :
             data_list[i].window = Start /\ data_list[i].last_modified = 0
    BY <1>1, <1>2 DEF MapAhead
  <2>3. ASSUME NEW i \in 1 .. Len(map'), NEW j \in 1 .. i - 1 PROVE map'[j][1] < map'[i][1]
    <3>1. j \in 1 .. Len(map') /\ j + d \in 1 .. (i + d) - 1
      BY <1>3, <2>1
    <3>2. QED
      BY <2>1, <2>2, <3>1
  <2>4. QED
    BY <1>1, <2>1, <2>2, <2>3 DEF MapAhead, Start
<1>6. WindowsMove' /\ EventsNumbered' /\ EventsExact'
  BY <1>1 DEF WindowsMove, EventsNumbered, EventsExact
<1>7. QED
  BY <1>4, <1>5, <1>6 DEF DataInv

(* The end of the map keeps it: every element starts in the middle of the  *)
(* range, as the latest measurements of a sensor without any do.           *)
LEMMA MapReadKeeps ==
  ASSUME DataInv, MapRead
  PROVE  DataInv'
<1> USE DataMgrAssumption
<1> USE DEF MapRead
<1>1. handled = <<>> /\ events = <<>> /\ data_list' = data_list /\ handled' = <<>>
      /\ events' = <<>>
  BY DEF DataInv, MapAhead
<1>2. TypeOK' /\ RoomsDecrease' /\ MapAhead'
  BY DEF DataInv, TypeOK, RoomsDecrease, MapAhead
<1>3. EventsNumbered' /\ EventsExact'
  BY <1>1 DEF EventsNumbered, EventsExact
<1>4. \A s : Recent(<<>>, s, 0) = Start
  <2> SUFFICES ASSUME NEW s PROVE Recent(<<>>, s, 0) = Start
    OBVIOUS
  <2>1. Of(<<>>, s, 0) = <<>>
    <3>1. <<>> \in Seq(Record)
      OBVIOUS
    <3>2. OfSteps(<<>>, s)
      BY <3>1, OfFunction
    <3>3. QED
      BY <3>2 DEF OfSteps
  <2>2. \A k \in 1 .. RunAvgLength : Latest(<<>>, s, 0, k) = Preset
    BY <2>1 DEF Latest
  <2>3. QED
    BY <2>2, Zenon DEF Recent, Start
<1>5. WindowsMove'
  BY <1>1, <1>4 DEF DataInv, MapAhead, WindowsMove, FirstAt, LastAt, Start
<1>6. QED
  BY <1>2, <1>3, <1>5 DEF DataInv

(* The end of the stream keeps it.                                         *)
LEMMA EndOfStreamKeeps ==
  ASSUME DataInv, EndOfStream
  PROVE  DataInv'
BY DEF EndOfStream, DataInv, TypeOK, RoomsDecrease, MapAhead, WindowsMove,
       EventsNumbered, EventsExact

(* The search stops at the first element of the sensor.                    *)
FoundFirst(id) ==
  /\ Found(id) \in 1 .. Len(data_list)
  /\ data_list[Found(id)].sensor_id = id
  /\ \A j \in 1 .. Found(id) - 1 : data_list[j].sensor_id # id

(* A search that finds an element finds the first.                         *)
LEMMA FoundIsFirst ==
  ASSUME NEW id, Matches(id) # {}, Len(data_list) \in Nat
  PROVE  FoundFirst(id)
<1> USE DataMgrAssumption
<1>1. Matches(id) \in SUBSET Nat
  BY DEF Matches
<1>2. \E x \in Matches(id) : \A y \in Matches(id) : x <= y
  BY <1>1, NatLeast
<1>3. Found(id) \in Matches(id) /\ \A j \in Matches(id) : Found(id) <= j
  BY <1>2 DEF Found
<1> HIDE DEF Found
<1>4. \A j \in 1 .. Found(id) - 1 : data_list[j].sensor_id # id
  <2> SUFFICES ASSUME NEW j \in 1 .. Found(id) - 1, data_list[j].sensor_id = id
               PROVE  FALSE
    OBVIOUS
  <2>1. Found(id) \in 1 .. Len(data_list)
    BY <1>3 DEF Matches
  <2>2. j \in Matches(id)
    BY <2>1 DEF Matches
  <2>3. QED
    BY <1>3, <2>1, <2>2
<1>5. QED
  BY <1>3, <1>4 DEF Matches, FoundFirst

(* The last record of a sensor is the new one, if it is of that sensor,    *)
(* and what it was otherwise.                                              *)
LEMMA LastAppend ==
  ASSUME NEW h \in Seq(Record), NEW r \in Record, NEW s
  PROVE  /\ r.id = s => LastAt(Append(h, r), s, Len(h) + 1)
         /\ \A k : r.id # s /\ LastAt(h, s, k) => LastAt(Append(h, r), s, k)
<1>1. /\ Len(Append(h, r)) = Len(h) + 1 /\ Append(h, r)[Len(h) + 1] = r
      /\ \A n \in 1 .. Len(h) : Append(h, r)[n] = h[n]
      /\ Len(h) \in Nat
  OBVIOUS
<1> DEFINE g == Append(h, r)
<1> HIDE DEF g
<1>2. ASSUME r.id = s PROVE LastAt(g, s, Len(h) + 1)
  BY <1>1, <1>2 DEF LastAt, g
<1>3. ASSUME NEW k, r.id # s, LastAt(h, s, k) PROVE LastAt(g, s, k)
  <2>1. \A n \in 1 .. Len(g) : g[n].id = s => n \in 1 .. Len(h) /\ h[n].id = s
    BY <1>1, <1>3 DEF g
  <2>2. CASE \E n \in 1 .. Len(h) : h[n].id = s
    <3>1. /\ k \in 1 .. Len(h) /\ h[k].id = s
          /\ \A m \in k + 1 .. Len(h) : h[m].id # s
      BY <1>3, <2>2 DEF LastAt
    <3>2. /\ k \in 1 .. Len(g) /\ g[k].id = s
      BY <1>1, <3>1 DEF g
    <3>3. \A m \in k + 1 .. Len(g) : g[m].id # s
      BY <1>1, <2>1, <3>1 DEF g
    <3>4. QED
      BY <3>2, <3>3 DEF LastAt
  <2>3. CASE ~ \E n \in 1 .. Len(h) : h[n].id = s
    BY <1>3, <2>1, <2>3 DEF LastAt
  <2>4. QED
    BY <2>2, <2>3
<1>4. QED
  BY <1>2, <1>3 DEF g

(* The messages E about record m of sensor s are those that its latest     *)
(* measurements among the records H call for, when K are the sensors in    *)
(* the list.                                                               *)
Reports(E, H, K, s, m) ==
  {k \in Kinds : \E i \in 1 .. Len(E) : E[i] = <<m, k>>}
    = IF s \notin K THEN {"invalid"}
      ELSE IF WindowSum(Recent(H, s, m)) > MaxTemp * RunAvgLength THEN {"hot"}
      ELSE IF WindowSum(Recent(H, s, m)) < MinTemp * RunAvgLength THEN {"cold"}
      ELSE {}

(* EventsExact in these terms.                                             *)
LEMMA ExactIs ==
  EventsExact <=>
    (dpc = "poll" => \A n \in 1 .. Len(handled) :
                       Reports(events, handled, Known, handled[n].id, n))
BY Zenon DEF EventsExact, Reports

(* One more record leaves the messages about the earlier ones exact, for   *)
(* neither those messages nor the measurements they look at change.        *)
LEMMA HandledKeeps ==
  ASSUME DataInv, NEW r \in Record,
         handled' = Append(handled, r), dpc = "poll", dpc' = "poll",
         Len(handled) < MaxMeas, Known' = Known,
         NEW x \in Kinds,
         events' = events \/ events' = Append(events, <<Len(handled) + 1, x>>)
  PROVE  /\ EventsNumbered'
         /\ handled' \in Seq(Record) /\ events' \in Seq((1 .. MaxMeas) \X Kinds)
         /\ Reports(events', handled', Known, r.id, Len(handled) + 1) => EventsExact'
<1> USE DataMgrAssumption
<1> DEFINE N == Len(handled)
<1>1. handled \in Seq(Record) /\ N \in Nat /\ RunAvgLength \in Nat \ {0}
      /\ events \in Seq((1 .. MaxMeas) \X Kinds)
  BY DEF DataInv, TypeOK, DataMgrAssumption
<1>2. /\ Len(handled') = N + 1 /\ handled'[N + 1] = r
      /\ \A n \in 1 .. N : handled'[n] = handled[n]
  BY <1>1
<1> DEFINE y == <<N + 1, x>>
<1>a. y \in (1 .. MaxMeas) \X Kinds /\ y[1] = N + 1
  BY <1>1 DEF DataMgrAssumption
<1>b. events' = events \/ events' = Append(events, y)
  OBVIOUS
<1> HIDE DEF y
<1>3. /\ Len(events) \in Nat /\ Len(events') \in Nat
      /\ events' \in Seq((1 .. MaxMeas) \X Kinds)
      /\ \A i \in 1 .. Len(events) : i \in 1 .. Len(events') /\ events'[i] = events[i]
      /\ \A i \in 1 .. Len(events') : i \in 1 .. Len(events) \/ events'[i] = y
  <2>1. CASE events' = events
    BY <1>1, <2>1
  <2>2. CASE events' = Append(events, y)
    BY <1>1, <1>a, <2>2
  <2>3. QED
    BY <1>b, <2>1, <2>2
<1>4. EventsNumbered'
  <2> SUFFICES ASSUME NEW i \in 1 .. Len(events') PROVE events'[i][1] \in 1 .. N + 1
    BY <1>2 DEF EventsNumbered
  <2>1. CASE i \in 1 .. Len(events)
    BY <1>1, <1>3, <2>1 DEF DataInv, EventsNumbered
  <2>2. CASE events'[i] = y
    BY <1>1, <1>a, <2>2
  <2>3. QED
    BY <1>3, <2>1, <2>2
<1>5. ASSUME NEW n \in 1 .. N
      PROVE  Reports(events', handled', Known, handled'[n].id, n)
  <2> DEFINE s == handled[n].id
  <2>1. n \in 0 .. N /\ n # N + 1 /\ handled'[n].id = s
    BY <1>1, <1>2
  <2>2. Recent(handled', s, n) = Recent(handled, s, n)
    <3>1. RecentAppended(handled, r, s)
      BY <1>1, RecentAppend
    <3>2. QED
      BY <2>1, <3>1 DEF RecentAppended
  <2>3. ASSUME NEW k
        PROVE  (\E i \in 1 .. Len(events') : events'[i] = <<n, k>>)
                 <=> (\E i \in 1 .. Len(events) : events[i] = <<n, k>>)
    <3>1. y # <<n, k>>
      BY <1>a, <2>1
    <3>2. QED
      BY <1>3, <3>1
  <2>4. Reports(events, handled, Known, s, n)
    BY ExactIs DEF DataInv
  <2> HIDE DEF s
  <2>5. {k \in Kinds : \E i \in 1 .. Len(events') : events'[i] = <<n, k>>}
         = {k \in Kinds : \E i \in 1 .. Len(events) : events[i] = <<n, k>>}
    BY <2>3
  <2>6. QED
    BY <2>1, <2>2, <2>4, <2>5 DEF Reports
<1>6. ASSUME Reports(events', handled', Known, r.id, N + 1) PROVE EventsExact'
  <2>1. \A n \in 1 .. Len(handled') : n \in 1 .. N \/ n = N + 1
    BY <1>1, <1>2
  <2>2. \A n \in 1 .. Len(handled') :
          Reports(events', handled', Known', handled'[n].id, n)
    BY <1>2, <1>5, <1>6, <2>1
  <2>3. (EventsExact <=>
          (dpc = "poll" => \A n \in 1 .. Len(handled) :
                       Reports(events, handled, Known, handled[n].id, n)))'
    BY ExactIs, PTL
  <2>4. QED
    BY <2>2, <2>3
<1>7. handled' \in Seq(Record)
  BY <1>1
<1>8. QED
  BY <1>3, <1>4, <1>6, <1>7

(* The kinds of the messages E about record m.                             *)
Logged(E, m) == {k \in Kinds : \E i \in 1 .. Len(E) : E[i] = <<m, k>>}

(* There is no message about a record before it comes.                     *)
LEMMA LoggedNow ==
  ASSUME DataInv, dpc = "poll", Len(handled) < MaxMeas,
         NEW x \in Kinds
  PROVE  /\ Logged(events, Len(handled) + 1) = {}
         /\ Logged(Append(events, <<Len(handled) + 1, x>>), Len(handled) + 1) = {x}
<1> USE DataMgrAssumption
<1> DEFINE N == Len(handled)
           y == <<N + 1, x>>
           E == Append(events, y)
<1>1. N \in Nat /\ events \in Seq((1 .. MaxMeas) \X Kinds)
  BY DEF DataInv, TypeOK
<1>2. y \in (1 .. MaxMeas) \X Kinds
  BY <1>1 DEF DataMgrAssumption
<1>3. \A k : y = <<N + 1, k>> => k = x
  OBVIOUS
<1>4. y = <<N + 1, x>>
  OBVIOUS
<1>5. \A i \in 1 .. Len(events) : events[i][1] # N + 1
  BY <1>1 DEF DataInv, EventsNumbered
<1> HIDE DEF y
<1>6. \A i \in 1 .. Len(events) : \A k : events[i] # <<N + 1, k>>
  BY <1>5
<1>7. /\ Len(E) = Len(events) + 1 /\ E[Len(events) + 1] = y /\ Len(events) \in Nat
      /\ \A i \in 1 .. Len(events) : E[i] = events[i]
  BY <1>1, <1>2
<1> HIDE DEF E
<1>8. \A i \in 1 .. Len(E) : i \in 1 .. Len(events) \/ i = Len(events) + 1
  BY <1>7
<1>9. Logged(events, N + 1) = {}
  BY <1>6 DEF Logged
<1>10. \A k : (\E i \in 1 .. Len(E) : E[i] = <<N + 1, k>>) <=> k = x
  <2>1. ASSUME NEW k, NEW i \in 1 .. Len(E), E[i] = <<N + 1, k>> PROVE k = x
    BY <1>3, <1>6, <1>7, <1>8, <2>1
  <2>2. E[Len(events) + 1] = <<N + 1, x>> /\ Len(events) + 1 \in 1 .. Len(E)
    BY <1>4, <1>7
  <2>3. QED
    BY <2>1, <2>2
<1>11. Logged(E, N + 1) = {x}
  BY <1>10 DEF Logged
<1>12. QED
  BY <1>9, <1>11 DEF E, y

(* A record of a sensor that is not in the list changes only the messages. *)
LEMMA HandleUnmappedKeeps ==
  ASSUME DataInv, NEW r \in Record, HandleUnmapped(r)
  PROVE  DataInv'
<1> USE DataMgrAssumption
<1> DEFINE N == Len(handled)
<1>1. /\ dpc = "poll" /\ dpc' = "poll" /\ N < MaxMeas /\ data_list' = data_list
      /\ map' = map /\ Matches(r.id) = {}
      /\ events' = Append(events, <<N + 1, "invalid">>)
      /\ handled' = Append(handled, r) /\ "invalid" \in Kinds
  BY DEF HandleUnmapped, Kinds
<1>2. /\ handled \in Seq(Record) /\ N \in Nat /\ RunAvgLength \in Nat \ {0}
      /\ data_list \in Seq(Element) /\ Len(data_list) \in Nat
  BY DEF DataInv, TypeOK, DataMgrAssumption
<1>3. \A i \in 1 .. Len(data_list) : data_list[i].sensor_id # r.id
  BY <1>1 DEF Matches
<1>4. r.id \notin Known /\ Known' = Known
  BY <1>1, <1>3 DEF Known
<1>5. Reports(events', handled', Known, r.id, N + 1)
  BY <1>1, <1>4, LoggedNow DEF Reports, Logged
<1>6. /\ EventsNumbered' /\ EventsExact'
      /\ handled' \in Seq(Record) /\ events' \in Seq((1 .. MaxMeas) \X Kinds)
  BY <1>1, <1>4, <1>5, HandledKeeps
<1>7. TypeOK' /\ RoomsDecrease' /\ MapAhead'
  BY <1>1, <1>6 DEF DataInv, TypeOK, RoomsDecrease, MapAhead
<1>8. WindowsMove'
  <2> SUFFICES ASSUME NEW i \in 1 .. Len(data_list)
               PROVE  IF FirstAt(i)
                      THEN /\ data_list[i].window
                                = Recent(handled', data_list[i].sensor_id, N + 1)
                           /\ LastAt(handled', data_list[i].sensor_id,
                                     data_list[i].last_modified)
                      ELSE data_list[i].window = Start /\ data_list[i].last_modified = 0
    <3>1. Len(handled') = N + 1
      BY <1>1, <1>2
    <3>2. QED
      BY <1>1, <3>1 DEF WindowsMove, FirstAt, Start, Preset
  <2> DEFINE s == data_list[i].sensor_id
  <2>1. s # r.id
    BY <1>3
  <2>2. RecentAppended(handled, r, s)
    BY <1>2, RecentAppend
  <2>3. Recent(handled', s, N + 1) = Recent(handled, s, N)
    BY <1>1, <2>1, <2>2 DEF RecentAppended
  <2>4. \A k : LastAt(handled, s, k) => LastAt(handled', s, k)
    BY <1>1, <1>2, <2>1, LastAppend
  <2>5. QED
    BY <1>1, <2>3, <2>4 DEF DataInv, WindowsMove
<1>9. QED
  BY <1>6, <1>7, <1>8 DEF DataInv

(* y is the element x with another window and time stamp.                  *)
Updated(x, y, w, n) ==
  /\ y \in Element /\ y.window = w /\ y.last_modified = n
  /\ y.sensor_id = x.sensor_id /\ y.room_id = x.room_id

(* Such an element is made by changing those two fields.                   *)
LEMMA ElementUpdated ==
  ASSUME NEW x \in Element, NEW w \in Window, NEW n \in Nat
  PROVE  Updated(x, [x EXCEPT !.window = w, !.last_modified = n], w, n)
BY DEF Element, Updated

(* A record of a sensor in the list: the first element of the sensor gets  *)
(* the new measurement, and the message follows from its new window.       *)
LEMMA HandleMappedKeeps ==
  ASSUME DataInv, NEW r \in Record, HandleMapped(r)
  PROVE  DataInv'
<1> USE DataMgrAssumption
<1> DEFINE N == Len(handled)
           i == Found(r.id)
           w == Shift(data_list[i].window, r.value)
<1>1. /\ dpc = "poll" /\ dpc' = "poll" /\ N + 1 <= MaxMeas /\ map' = map
      /\ Matches(r.id) # {}
      /\ data_list' = [data_list EXCEPT ![i].window = w, ![i].last_modified = N + 1]
      /\ events' = Report(N + 1, w)
      /\ handled' = Append(handled, r)
  BY DEF HandleMapped
<1>2. /\ handled \in Seq(Record) /\ N \in Nat /\ RunAvgLength \in Nat \ {0}
      /\ data_list \in Seq(Element) /\ Len(data_list) \in Nat
      /\ MaxMeas \in Nat /\ N < MaxMeas /\ Temps \subseteq Int
  BY <1>1 DEF DataInv, TypeOK, DataMgrAssumption
<1>3. /\ i \in 1 .. Len(data_list) /\ data_list[i].sensor_id = r.id
      /\ \A j \in 1 .. i - 1 : data_list[j].sensor_id # r.id
  BY <1>1, <1>2, FoundIsFirst DEF FoundFirst
<1> HIDE DEF i
<1>4. FirstAt(i)
  BY <1>3 DEF FirstAt
<1>5. \A j \in 1 .. Len(data_list) :
        j # i => ~FirstAt(j) \/ data_list[j].sensor_id # r.id
  <2> SUFFICES ASSUME NEW j \in 1 .. Len(data_list), j # i, FirstAt(j),
                      data_list[j].sensor_id = r.id
               PROVE  FALSE
    OBVIOUS
  <2>1. j < i \/ i < j
    BY <1>2, <1>3
  <2>2. CASE j < i
    BY <1>3, <2>2
  <2>3. CASE i < j
    <3>1. i \in 1 .. j - 1
      BY <1>3, <2>3
    <3>2. QED
      BY <1>3, <3>1 DEF FirstAt
  <2>4. QED
    BY <2>1, <2>2, <2>3
<1>6. /\ data_list[i].window = Recent(handled, r.id, N)
  BY <1>1, <1>3, <1>4 DEF DataInv, WindowsMove
<1>7. w = Recent(handled', r.id, N + 1)
  <2>1. RecentAppended(handled, r, r.id)
    BY <1>2, RecentAppend
  <2>2. QED
    BY <1>1, <1>6, <2>1 DEF RecentAppended
<1>8. w \in Window
  <2>a. data_list[i] \in Element
    BY <1>2, <1>3
  <2>1. data_list[i].window \in [1 .. RunAvgLength -> Int]
    BY <2>a DEF Element, Window
  <2>2. r.value \in Int
    BY <1>2 DEF Record
  <2>3. \A k \in 1 .. RunAvgLength : k # 1 => k - 1 \in 1 .. RunAvgLength
    BY <1>2
  <2>4. QED
    BY <2>1, <2>2, <2>3 DEF Shift, Window
<1> HIDE DEF w
<1>9. /\ Len(data_list') = Len(data_list) /\ data_list' \in Seq(Element)
      /\ \A j \in 1 .. Len(data_list) :
           /\ j # i => data_list'[j] = data_list[j]
           /\ data_list'[j].sensor_id = data_list[j].sensor_id
           /\ data_list'[j].room_id = data_list[j].room_id
      /\ data_list'[i].window = w /\ data_list'[i].last_modified = N + 1
  <2> DEFINE x == [data_list[i] EXCEPT !.window = w, !.last_modified = N + 1]
  <2>1. data_list[i] \in Element
    BY <1>2, <1>3
  <2>2. /\ x \in Element /\ x.window = w /\ x.last_modified = N + 1
        /\ x.sensor_id = data_list[i].sensor_id /\ x.room_id = data_list[i].room_id
    <3>1. N + 1 \in Nat
      BY <1>2
    <3>2. QED
      <4> DEFINE n == N + 1
      <4>1. n \in Nat
        BY <3>1
      <4> HIDE DEF n, N
      <4>2. Updated(data_list[i],
                    [data_list[i] EXCEPT !.window = w, !.last_modified = n], w, n)
        BY <1>8, <2>1, <4>1, ElementUpdated
      <4>3. QED
        BY <4>2 DEF n, Updated
  <2>3. data_list' = [data_list EXCEPT ![i] = x]
    BY <1>1, <1>2, <1>3, <2>1 DEF Element
  <2> HIDE DEF x
  <2>4. /\ Len(data_list') = Len(data_list) /\ data_list' \in Seq(Element)
        /\ data_list'[i] = x
        /\ \A j \in 1 .. Len(data_list) : j # i => data_list'[j] = data_list[j]
    BY <1>2, <1>3, <2>2, <2>3
  <2>5. QED
    BY <1>3, <2>2, <2>4
<1>10. /\ Known' = Known /\ r.id \in Known
  BY <1>3, <1>9 DEF Known
<1>11. /\ "hot" \in Kinds /\ "cold" \in Kinds
  BY DEF Kinds
<1>12. \/ /\ events' = Append(events, <<N + 1, "hot">>)
          /\ WindowSum(w) > MaxTemp * RunAvgLength
       \/ /\ events' = Append(events, <<N + 1, "cold">>)
          /\ WindowSum(w) < MinTemp * RunAvgLength
          /\ ~(WindowSum(w) > MaxTemp * RunAvgLength)
       \/ /\ events' = events
          /\ ~(WindowSum(w) < MinTemp * RunAvgLength)
          /\ ~(WindowSum(w) > MaxTemp * RunAvgLength)
  BY <1>1, Zenon DEF Report
<1>13. Reports(events', handled', Known, r.id, N + 1)
  <2>1. /\ Logged(events, N + 1) = {}
        /\ Logged(Append(events, <<N + 1, "hot">>), N + 1) = {"hot"}
        /\ Logged(Append(events, <<N + 1, "cold">>), N + 1) = {"cold"}
    BY <1>1, <1>2, <1>11, LoggedNow
  <2>2. Logged(events', N + 1) =
          IF WindowSum(w) > MaxTemp * RunAvgLength THEN {"hot"}
          ELSE IF WindowSum(w) < MinTemp * RunAvgLength THEN {"cold"}
          ELSE {}
    BY <1>12, <2>1, Zenon
  <2>3. QED
    BY <1>7, <1>10, <2>2, Zenon DEF Reports, Logged
<1>14. /\ EventsNumbered' /\ EventsExact'
       /\ handled' \in Seq(Record) /\ events' \in Seq((1 .. MaxMeas) \X Kinds)
  <2>1. \/ events' = events \/ events' = Append(events, <<N + 1, "hot">>)
        \/ events' = events \/ events' = Append(events, <<N + 1, "cold">>)
    BY <1>12
  <2>2. QED
    BY <1>1, <1>2, <1>10, <1>11, <1>13, <2>1, HandledKeeps
<1>15. TypeOK' /\ MapAhead'
  BY <1>1, <1>9, <1>14 DEF DataInv, TypeOK, MapAhead
<1>16. RoomsDecrease'
  <2> SUFFICES ASSUME NEW k \in 1 .. Len(data_list), NEW j \in 1 .. k - 1
               PROVE  data_list'[j].room_id > data_list'[k].room_id
    BY <1>9 DEF RoomsDecrease
  <2>1. j \in 1 .. Len(data_list)
    BY <1>2
  <2>2. QED
    BY <1>9, <2>1 DEF DataInv, RoomsDecrease
<1>17. \A k \in 1 .. Len(data_list) : FirstAt(k)' <=> FirstAt(k)
  <2> SUFFICES ASSUME NEW k \in 1 .. Len(data_list) PROVE FirstAt(k)' <=> FirstAt(k)
    OBVIOUS
  <2>1. \A j \in 1 .. k - 1 : j \in 1 .. Len(data_list)
    BY <1>2
  <2>2. QED
    BY <1>9, <2>1 DEF FirstAt
<1>18. WindowsMove'
  <2> SUFFICES ASSUME NEW k \in 1 .. Len(data_list)
               PROVE  IF FirstAt(k)
                      THEN /\ data_list'[k].window
                                = Recent(handled', data_list[k].sensor_id, N + 1)
                           /\ LastAt(handled', data_list[k].sensor_id,
                                     data_list'[k].last_modified)
                      ELSE data_list'[k].window = Start /\ data_list'[k].last_modified = 0
    <3>1. Len(handled') = N + 1
      BY <1>1, <1>2
    <3>2. QED
      BY <1>1, <1>9, <1>17, <3>1 DEF WindowsMove, Start, Preset
  <2> DEFINE s == data_list[k].sensor_id
  <2>1. CASE k = i
    <3>1. LastAt(handled', r.id, N + 1)
      BY <1>1, <1>2, LastAppend
    <3>2. QED
      BY <1>3, <1>4, <1>7, <1>9, <2>1, <3>1
  <2>2. CASE k # i /\ ~FirstAt(k)
    BY <1>1, <1>9, <2>2 DEF DataInv, WindowsMove
  <2>3. CASE k # i /\ FirstAt(k)
    <3>1. s # r.id
      BY <1>5, <2>3
    <3>2. RecentAppended(handled, r, s)
      BY <1>2, RecentAppend
    <3>3. Recent(handled', s, N + 1) = Recent(handled, s, N)
      BY <1>1, <3>1, <3>2 DEF RecentAppended
    <3>4. \A l : LastAt(handled, s, l) => LastAt(handled', s, l)
      BY <1>1, <1>2, <3>1, LastAppend
    <3>5. data_list[k].window = Recent(handled, s, N)
          /\ LastAt(handled, s, data_list[k].last_modified)
      BY <1>1, <2>3 DEF DataInv, WindowsMove
    <3>6. QED
      BY <1>9, <2>3, <3>3, <3>4, <3>5
  <2>4. QED
    BY <2>1, <2>2, <2>3
<1>19. QED
  BY <1>14, <1>15, <1>16, <1>18 DEF DataInv

(* There is only one last record of a sensor.                              *)
LEMMA LastIs ==
  ASSUME NEW h, Len(h) \in Nat, NEW s, NEW k, LastAt(h, s, k)
  PROVE  k = IF \E n \in 1 .. Len(h) : h[n].id = s
             THEN CHOOSE n \in 1 .. Len(h) :
                    h[n].id = s /\ \A m \in n + 1 .. Len(h) : h[m].id # s
             ELSE 0
<1>1. CASE \E n \in 1 .. Len(h) : h[n].id = s
  <2>1. /\ k \in 1 .. Len(h) /\ h[k].id = s
        /\ \A m \in k + 1 .. Len(h) : h[m].id # s
    BY <1>1 DEF LastAt
  <2> DEFINE P(n) == h[n].id = s /\ \A m \in n + 1 .. Len(h) : h[m].id # s
             n == CHOOSE n \in 1 .. Len(h) : P(n)
  <2>2. n \in 1 .. Len(h) /\ P(n)
    <3>1. k \in 1 .. Len(h) /\ P(k)
      BY <2>1
    <3> HIDE DEF P
    <3>2. QED
      BY <3>1
  <2> HIDE DEF n
  <2>3. ~(n < k) /\ ~(k < n)
    BY <2>1, <2>2
  <2>4. n = k
    BY <2>1, <2>2, <2>3
  <2>5. QED
    BY <1>1, <2>4 DEF n
<1>2. CASE ~ \E n \in 1 .. Len(h) : h[n].id = s
  BY <1>2 DEF LastAt
<1>3. QED
  BY <1>1, <1>2

(* The invariant contains what WindowsRecent says.                         *)
LEMMA DataInvWindows == DataInv => WindowsRecent
<1> SUFFICES ASSUME DataInv, dpc = "poll", NEW i \in 1 .. Len(data_list)
             PROVE  LET x == data_list[i]
                        first == \A j \in 1 .. (i - 1) : data_list[j].sensor_id # x.sensor_id
                    IN /\ \A j \in 1 .. (i - 1) : data_list[j].room_id > x.room_id
                       /\ x.window = IF first
                                     THEN Recent(handled, x.sensor_id, Len(handled))
                                     ELSE [k \in 1 .. RunAvgLength |-> Preset]
                       /\ x.last_modified =
                            IF first /\ \E n \in 1 .. Len(handled) : handled[n].id = x.sensor_id
                            THEN CHOOSE n \in 1 .. Len(handled) :
                                   /\ handled[n].id = x.sensor_id
                                   /\ \A m \in (n + 1) .. Len(handled) :
                                        handled[m].id # x.sensor_id
                            ELSE 0
  BY Zenon DEF WindowsRecent, DataInv
<1>1. Len(handled) \in Nat
  BY DEF DataInv, TypeOK
<1>2. \A j \in 1 .. i - 1 : data_list[j].room_id > data_list[i].room_id
  BY DEF DataInv, RoomsDecrease
<1>3. CASE FirstAt(i)
  <2>1. /\ data_list[i].window = Recent(handled, data_list[i].sensor_id, Len(handled))
        /\ LastAt(handled, data_list[i].sensor_id, data_list[i].last_modified)
    BY <1>3 DEF DataInv, WindowsMove
  <2>2. data_list[i].last_modified =
          IF \E n \in 1 .. Len(handled) : handled[n].id = data_list[i].sensor_id
          THEN CHOOSE n \in 1 .. Len(handled) :
                 /\ handled[n].id = data_list[i].sensor_id
                 /\ \A m \in n + 1 .. Len(handled) : handled[m].id # data_list[i].sensor_id
          ELSE 0
    BY <1>1, <2>1, LastIs
  <2>3. QED
    BY <1>2, <1>3, <2>1, <2>2, Zenon DEF FirstAt
<1>4. CASE ~FirstAt(i)
  <2>1. data_list[i].window = Start /\ data_list[i].last_modified = 0
    BY <1>4 DEF DataInv, WindowsMove
  <2>2. QED
    BY <1>2, <1>4, <2>1, Zenon DEF FirstAt, Start
<1>5. QED
  BY <1>3, <1>4

(* The inductive invariant of the data manager holds for any sensors and   *)
(* temperatures, any length of window and any limits, and any map.         *)
THEOREM DataMgrInvariant ==
  Spec => []DataInv
<1> USE DataMgrAssumption
<1>1. Init => DataInv
  BY InitDataInv
<1>2. DataInv /\ [Next]_vars => DataInv'
  <2> SUFFICES ASSUME DataInv, [Next]_vars PROVE DataInv'
    OBVIOUS
  <2>1. CASE ReadLine
    BY <2>1, ReadLineKeeps
  <2>2. CASE MapRead
    BY <2>2, MapReadKeeps
  <2>3. CASE NoElement \/ NoNode
    BY <2>3, NoMemoryKeeps
  <2>4. CASE EndOfStream
    BY <2>4, EndOfStreamKeeps
  <2>5. ASSUME NEW r \in Record, HandleMapped(r) PROVE DataInv'
    BY <2>5, HandleMappedKeeps
  <2>6. ASSUME NEW r \in Record, HandleUnmapped(r) PROVE DataInv'
    BY <2>6, HandleUnmappedKeeps
  <2>7. CASE UNCHANGED vars
    <3>1. /\ map' = map /\ dpc' = dpc /\ data_list' = data_list
          /\ handled' = handled /\ events' = events
      BY <2>7 DEF vars
    <3>2. TypeOK' /\ RoomsDecrease' /\ EventsNumbered'
      BY <3>1 DEF DataInv, TypeOK, RoomsDecrease, EventsNumbered
    <3>3. MapAhead'
      BY <3>1, Zenon DEF DataInv, MapAhead, Start, Preset
    <3>4. WindowsMove'
      BY <3>1, Zenon DEF DataInv, WindowsMove, FirstAt, LastAt, Start, Preset
    <3>5. EventsExact'
      <4>1. Known' = Known
        BY <3>1, Zenon DEF Known
      <4>2. (EventsExact <=>
              (dpc = "poll" => \A n \in 1 .. Len(handled) :
                                 Reports(events, handled, Known, handled[n].id, n)))'
        BY ExactIs, PTL
      <4>3. QED
        BY <3>1, <4>1, <4>2, ExactIs DEF DataInv
    <3>6. QED
      BY <3>2, <3>3, <3>4, <3>5 DEF DataInv
  <2>8. QED
    BY <2>1, <2>2, <2>4, <2>5, <2>6, <2>7, <2>3 DEF Next
<1>3. QED
  BY <1>1, <1>2, PTL DEF Spec

(* However the records of the sensors follow each other and whatever lines *)
(* the map repeats, the window of the element that a search finds holds    *)
(* the last RUN_AVG_LENGTH measurements of its sensor.                     *)
THEOREM WindowsAlwaysRecent ==
  Spec => []WindowsRecent
BY DataMgrInvariant, DataInvWindows, PTL

(* A message is logged about a record exactly when its sensor is unknown   *)
(* or the average of the last RUN_AVG_LENGTH measurements is out of range: *)
(* once, and of the right kind.                                            *)
THEOREM EventsAlwaysExact ==
  Spec => []EventsExact
<1> USE DataMgrAssumption
<1>1. DataInv => EventsExact
  BY DEF DataInv
<1>2. QED
  BY <1>1, DataMgrInvariant, PTL

=============================================================================
