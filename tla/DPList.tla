------------------------------- MODULE DPList -------------------------------
(***************************************************************************)
(* The doubly linked list with callbacks of project/lib/dplist.c, in which *)
(* the data manager keeps its sensors: the heap cells with their pointers  *)
(* and the element objects whose ownership moves between the client and    *)
(* the list, by insert_copy and free_element.                              *)
(*                                                                         *)
(* One thread owns a list, so every function of the library is one action. *)
(* The three callbacks are given, as both clients do.  A malloc that fails *)
(* leaves the list as it is and is not a step.                             *)
(***************************************************************************)
EXTENDS Integers, FiniteSets

CONSTANTS
  Nodes,      (* the cells malloc can return for a dplist_node              *)
  Objects,    (* the cells it can return for an element                     *)
  Values,     (* what element_compare looks at                              *)
  NULL,
  Indices     (* the indices a client passes                                *)

ASSUME DPListAssumption ==
  /\ NULL \notin Nodes /\ IsFiniteSet(Nodes)
  /\ Indices \subseteq Int

VARIABLES
  exists,               (* the client's list pointer is not NULL            *)
  head,                 (* list->head                                       *)
  prev, next, element,  (* the fields of every cell                         *)
  heap,                 (* the list nodes that are allocated                *)
  objects,              (* the elements that are allocated                  *)
  value,                (* what they contain                                *)
  held                  (* the elements the client has to free itself       *)

pointers == <<head, prev, next>>
elements == <<objects, value, held>>
listVars == <<exists, pointers, element, heap, elements>>

Pointer == Nodes \cup {NULL}

ListTypeOK ==
  /\ exists \in BOOLEAN /\ head \in Pointer
  /\ prev \in [Nodes -> Pointer] /\ next \in [Nodes -> Pointer]
  /\ element \in [Nodes -> Objects \cup {NULL}]
  /\ heap \in SUBSET Nodes /\ objects \in SUBSET Objects /\ held \in SUBSET objects
  /\ value \in [Objects -> Values \cup {NULL}]

ListInit ==
  /\ exists = FALSE /\ head = NULL
  /\ prev = [n \in Nodes |-> NULL] /\ next = [n \in Nodes |-> NULL]
  /\ element = [n \in Nodes |-> NULL]
  /\ heap = {} /\ objects = {} /\ held = {}
  /\ value = [o \in Objects |-> NULL]

-----------------------------------------------------------------------------
(* Walking the list                                                        *)

(* The node a walk from the head stands on after k steps; NULL: it fell    *)
(* off the end.                                                            *)
Walk[k \in 0 .. Cardinality(Nodes)] ==
  IF k = 0 THEN head ELSE IF Walk[k - 1] = NULL THEN NULL ELSE next[Walk[k - 1]]

(* dpl_size                                                                *)
Size == Cardinality({k \in DOMAIN Walk : Walk[k] # NULL})

(* dpl_get_reference_at_index: this walk stops on the last node.           *)
ReferenceAt(i) ==
  LET clamped[k \in Nat] ==
        IF k = 0 \/ head = NULL THEN head
        ELSE IF next[clamped[k - 1]] = NULL THEN clamped[k - 1]
        ELSE next[clamped[k - 1]]
  IN  IF i <= 0 THEN head ELSE clamped[i]

(* dpl_get_element_at_index                                                *)
ElementAt(i) == IF ReferenceAt(i) = NULL THEN NULL ELSE element[ReferenceAt(i)]

(* Mutant: the search does not stop at the first match.                    *)
IndexOfLast(v) ==
  LET from[k \in 0 .. Cardinality(Nodes)] ==
        IF Walk[k] = NULL THEN -1
        ELSE IF value[element[Walk[k]]] = v /\ from[k + 1] = -1 THEN k
        ELSE from[k + 1]
  IN  from[0]

(* dpl_get_index_of_element: the first match, or -1.                       *)
IndexOf(v) ==
  LET from[k \in 0 .. Cardinality(Nodes)] ==
        IF Walk[k] = NULL THEN -1
        ELSE IF value[element[Walk[k]]] = v THEN k
        ELSE from[k + 1]
  IN  from[0]

(* dpl_get_element_at_reference                                            *)
ElementAtReference(ref) ==
  IF \E k \in DOMAIN Walk : Walk[k] = ref /\ ref # NULL THEN element[ref] ELSE NULL

-----------------------------------------------------------------------------
(* dpl_create                                                              *)
Create ==
  /\ ~exists /\ exists' = TRUE
  /\ head' = NULL
  /\ UNCHANGED <<prev, next, element, heap, elements>>

(* The pointer surgery of dpl_insert_at_index in front of node ref.        *)
LinkBefore(n, ref) ==
  /\ next' = [next EXCEPT ![n] = ref, ![prev[ref]] = n]
  /\ prev' = [prev EXCEPT ![n] = prev[ref], ![ref] = n]
  /\ UNCHANGED head

LinkFront(n) ==
  /\ next' = [next EXCEPT ![n] = head]
  /\ prev' = IF head = NULL THEN [prev EXCEPT ![n] = NULL]
             ELSE [prev EXCEPT ![n] = NULL, ![head] = n]
  /\ head' = n

LinkAfter(n, ref) ==
  /\ next' = [next EXCEPT ![n] = NULL, ![ref] = n]
  /\ prev' = [prev EXCEPT ![n] = ref]
  /\ UNCHANGED head

(* Mutant: the last position is taken for an inner one.                    *)
LinkOffByOne(n, i) ==
  \/ (head = NULL \/ i <= 0) /\ LinkFront(n)
  \/ head # NULL /\ i > 0 /\ i <= Size /\ ReferenceAt(i) # head /\ LinkBefore(n, ReferenceAt(i))
  \/ head # NULL /\ i > 0 /\ (i > Size \/ ReferenceAt(i) = head) /\ LinkAfter(n, ReferenceAt(i))

Link(n, i) ==
  \/ (head = NULL \/ i <= 0) /\ LinkFront(n)
  \/ head # NULL /\ i > 0 /\ i < Size /\ LinkBefore(n, ReferenceAt(i))
  \/ head # NULL /\ i > 0 /\ i >= Size /\ LinkAfter(n, ReferenceAt(i))

(* Mutant: the copy is made and the original is linked all the same.       *)
InsertOriginal(o, i, insert_copy) ==
  /\ exists /\ o \in held
  /\ \E n \in Nodes \ heap :
       /\ heap' = heap \cup {n}
       /\ element' = [element EXCEPT ![n] = o]
       /\ Link(n, i)
  /\ held' = IF insert_copy THEN held ELSE held \ {o}
  /\ UNCHANGED <<exists, objects, value>>

(* dpl_insert_at_index.  The client does not insert the same object twice. *)
Insert(o, i, insert_copy) ==
  /\ exists /\ o \in held
  /\ \E n \in Nodes \ heap, e \in Objects :
       /\ IF insert_copy THEN e \notin objects ELSE e = o
       /\ heap' = heap \cup {n}
       /\ element' = [element EXCEPT ![n] = e]
       /\ objects' = objects \cup {e}
       /\ value' = [value EXCEPT ![e] = value[o]]
       /\ Link(n, i)
  /\ held' = IF insert_copy THEN held ELSE held \ {o}
  /\ UNCHANGED exists

(* The elements E leave the list: element_free releases them or the client *)
(* has them back.                                                          *)
Release(E, free_element) ==
  /\ objects' = IF free_element THEN objects \ E ELSE objects
  /\ held' = IF free_element THEN held ELSE held \cup E
  /\ UNCHANGED value

(* Mutant: the successor keeps its pointer to the node that is freed.      *)
UnlinkOneWay(n) ==
  /\ head' = IF n = head THEN next[n] ELSE head
  /\ next' = IF prev[n] = NULL THEN next ELSE [next EXCEPT ![prev[n]] = next[n]]
  /\ UNCHANGED prev

Unlink(n) ==
  /\ head' = IF n = head THEN next[n] ELSE head
  /\ next' = IF prev[n] = NULL THEN next ELSE [next EXCEPT ![prev[n]] = next[n]]
  /\ prev' = IF next[n] = NULL THEN prev ELSE [prev EXCEPT ![next[n]] = prev[n]]

(* dpl_remove_at_index; on an empty list it does nothing.                  *)
Remove(i, free_element) ==
  /\ exists /\ head # NULL
  /\ LET n == ReferenceAt(i)
     IN  /\ Unlink(n)
         /\ Release({element[n]}, free_element)
         /\ heap' = heap \ {n}
  /\ UNCHANGED <<exists, element>>

(* dpl_free.  The list goes with its head pointer.                         *)
Free(free_element) ==
  /\ exists /\ exists' = FALSE
  /\ LET nodes == {Walk[k] : k \in DOMAIN Walk} \ {NULL}
     IN  /\ heap' = heap \ nodes
         /\ Release({element[n] : n \in nodes}, free_element)
  /\ head' = NULL
  /\ UNCHANGED <<prev, next, element>>

(* The client of the list makes an element and frees one it holds.         *)
ClientMakes(o, v) ==
  /\ o \notin objects
  /\ objects' = objects \cup {o} /\ held' = held \cup {o}
  /\ value' = [value EXCEPT ![o] = v]
  /\ UNCHANGED <<exists, pointers, element, heap>>

ClientFrees(o) ==
  /\ o \in held
  /\ objects' = objects \ {o} /\ held' = held \ {o}
  /\ UNCHANGED <<exists, pointers, element, heap, value>>

ListNext ==
  \/ Create
  \/ \E o \in Objects :
       \/ ClientFrees(o)
       \/ \E v \in Values : ClientMakes(o, v)
       \/ \E i \in Indices, insert_copy \in BOOLEAN : Insert(o, i, insert_copy)
  \/ \E free_element \in BOOLEAN :
       \/ Free(free_element)
       \/ \E i \in Indices : Remove(i, free_element)

ListSpec == ListInit /\ [][ListNext]_listVars

-----------------------------------------------------------------------------
(* Whatever the order of insertions and removals, the next pointers lead   *)
(* from head through every allocated node once and end, and the prev       *)
(* pointers are their mirror image: no node is lost and none dangles.      *)
WellLinked ==
  /\ ListTypeOK
  /\ heap = {Walk[k] : k \in DOMAIN Walk} \ {NULL}
  /\ Size = Cardinality(heap)
  /\ head # NULL => exists /\ prev[head] = NULL
  /\ \A n \in heap : next[n] # NULL => prev[next[n]] = n

(* Every allocated element belongs either to one node of the list or to    *)
(* the client, never to both and never to none: a copy, a removal or       *)
(* dpl_free neither leaks an element nor frees one that is still in use.   *)
ElementsOwned ==
  /\ objects = held \cup {element[n] : n \in heap}
  /\ \A n \in heap : element[n] \notin held
  /\ \A m, n \in heap : element[m] = element[n] => m = n

(* The queries agree with each other on every list a client can build: the *)
(* reference at an index leads to the element at that index, the index of  *)
(* a value leads to an element of that value, and no earlier index does.   *)
QueriesAgree ==
  /\ \A i \in Indices : ElementAtReference(ReferenceAt(i)) = ElementAt(i)
  /\ \A v \in Values :
       /\ IndexOf(v) # -1 => value[ElementAt(IndexOf(v))] = v
       /\ \A i \in Indices : i \in 0 .. Size - 1 /\ value[ElementAt(i)] = v
                               => IndexOf(v) \in 0 .. i

(* The values in the order of the list.                                    *)
Items == [k \in 1 .. Size |-> value[element[Walk[k - 1]]]]

Sequence == INSTANCE DPSequence WITH items <- Items

(* Each call does to the sequence of values what its own, clamped, index   *)
(* says: insertion and removal agree on which position an index names, in  *)
(* every one of the cases of dpl_insert_at_index.                          *)
CallsKeepPromise ==
  [][/\ Create => Sequence!Create
     /\ \A o \in Objects, i \in Indices, c \in BOOLEAN :
          Insert(o, i, c) => Sequence!Insert(value[o], i)
     /\ \A f \in BOOLEAN :
          /\ Free(f) => Sequence!Free
          /\ \A i \in Indices : Remove(i, f) => Sequence!Delete(i)]_listVars
=============================================================================
