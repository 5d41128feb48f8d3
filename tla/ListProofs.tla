----------------------------- MODULE ListProofs ------------------------------
(***************************************************************************)
(* Proofs about the list under the least recently read and written layers, *)
(* for any pointers, any capacity and any generation limit.                *)
(*                                                                         *)
(* As nothing sets head, tail or a link, a node has one of three lives,    *)
(* told apart by its generation: appended (1), vacant (2), and used again  *)
(* (3), which is the last, for the Key of its pointer is of generation 2   *)
(* and opens nothing.  So no generation comes back and a Key that is right *)
(* names the node's first pointer.  The free list is sound by itself; that *)
(* it has no cycle (Ranked) is needed to show that the vector grows only   *)
(* when every node is in use, which bounds it by the number of pointers.   *)
(***************************************************************************)
EXTENDS List, FiniteSetTheorems, FunctionTheorems, SequenceTheorems,
        WellFoundedInduction, TLAPS

KeySet == [index : Nat \ {0}, gen : {1, 2}] \cup {None}

NodeSet == [full : BOOLEAN, value : Pointers \cup {None}, prev : {None}, next : {None},
            free : KeySet, gen : 1..3]

\* head, tail, len and the links stay as they are made.
Unlinked ==
    /\ list \in [nodes : Seq(NodeSet), len : {0}, head : {None}, tail : {None}, free : KeySet]
    /\ key \in [Pointers -> KeySet]
    /\ live \subseteq Pointers
    /\ panicked \in BOOLEAN

\* The generation of a node tells which of its lives it is in, and the
\* generation of a Key for which of them it was made.
ThreeLives ==
    /\ \A i \in Indexes :
          /\ list.nodes[i].full <=> list.nodes[i].gen # 2
          /\ list.nodes[i].full <=> list.nodes[i].value \in Pointers
          /\ list.nodes[i].full => list.nodes[i].free = None
    /\ \A p \in Pointers : key[p] # None =>
          /\ key[p].index \in Indexes
          /\ key[p].gen = 2 => list.nodes[key[p].index].gen = 3

\* The free list leads to its end.
Ranked ==
    \E rank \in [VacantNodes -> Nat] :
        \A i \in VacantNodes : list.nodes[i].free # None =>
            rank[list.nodes[i].free.index] < rank[i]

\* A pointer has one node at most, a live one has a node and a Key.
Placed ==
    /\ \A i, j \in Indexes :
          list.nodes[i].full /\ list.nodes[i].value = list.nodes[j].value => i = j
    /\ \A p \in live : key[p] # None /\ p \in Held

\* No more nodes than pointers.
Bounded == Len(list.nodes) <= Cardinality(Pointers)

ListInv == /\ Unlinked /\ ThreeLives /\ FreeListSound /\ Ranked
           /\ KeyNamesItsOwn /\ Placed /\ Bounded

-----------------------------------------------------------------------------
(* The operations, on a list without links.                                *)

LEMMA KeysAreNotNone ==
    /\ \A k \in KeySet : k # None => k.index \in Nat \ {0} /\ k.gen \in {1, 2}
    /\ \A i \in Nat, g \in Nat : Key(i, g) # None
    /\ \A i \in Nat : i # None
    /\ None \notin Pointers
  BY NoneAssumption DEF KeySet, Key

LEMMA NodesTyped ==
    ASSUME Unlinked
    PROVE  /\ list.nodes \in Seq(NodeSet) /\ Len(list.nodes) \in Nat
           /\ Indexes = 1..Len(list.nodes)
           /\ \A i \in Indexes : list.nodes[i] \in NodeSet
           /\ list.len = 0 /\ list.head = None /\ list.tail = None /\ list.free \in KeySet
           /\ list = [nodes |-> list.nodes, len |-> 0, head |-> None, tail |-> None,
                      free |-> list.free]
  <1>1. list.nodes \in Seq(NodeSet)
    BY DEF Unlinked
  <1>2. /\ Len(list.nodes) \in Nat /\ Indexes = 1..Len(list.nodes)
        /\ \A i \in Indexes : list.nodes[i] \in NodeSet
    BY <1>1 DEF Indexes
  <1>3. QED
    BY <1>1, <1>2 DEF Unlinked

\* A list is the record of its five fields.
LEMMA ListIs ==
    ASSUME NEW n, NEW f,
           NEW l \in [nodes : {n}, len : {0}, head : {None}, tail : {None}, free : {f}]
    PROVE  l = [nodes |-> n, len |-> 0, head |-> None, tail |-> None, free |-> f]
  OBVIOUS

\* Without links there is nothing to prune.
LEMMA PruneNothing ==
    ASSUME NEW nodes \in Seq(NodeSet), NEW f, NEW l,
           l = [nodes |-> nodes, len |-> 0, head |-> None, tail |-> None, free |-> f]
    PROVE  PruneLink(l, None, None) = l
  <1>1. DOMAIN nodes = 1..Len(nodes) /\ Len(nodes) \in Nat /\ l.nodes = nodes
    OBVIOUS
  <1>2. \A i \in DOMAIN nodes : i # None
    BY <1>1, KeysAreNotNone
  <1>3. \A i \in DOMAIN nodes :
           [nodes[i] EXCEPT !.prev = IF i = None THEN None ELSE @,
                            !.next = IF i = None THEN None ELSE @] = nodes[i]
    <2> SUFFICES ASSUME NEW i \in DOMAIN nodes
                 PROVE  [nodes[i] EXCEPT !.prev = IF i = None THEN None ELSE @,
                                         !.next = IF i = None THEN None ELSE @] = nodes[i]
      OBVIOUS
    <2>1. nodes[i] \in NodeSet
      BY <1>1
    <2>2. QED
      BY <2>1, <1>2 DEF NodeSet
  <1>4. [i \in DOMAIN l.nodes |->
           [l.nodes[i] EXCEPT !.prev = IF i = None THEN None ELSE @,
                              !.next = IF i = None THEN None ELSE @]] = nodes
    <2>1. PICK n \in Nat : nodes \in [1..n -> NodeSet]
      BY SeqDef
    <2>2. nodes = [i \in DOMAIN nodes |-> nodes[i]]
      BY <2>1
    <2> DEFINE m(i) == [nodes[i] EXCEPT !.prev = IF i = None THEN None ELSE @,
                                        !.next = IF i = None THEN None ELSE @]
    <2>3. \A i \in DOMAIN nodes : m(i) = nodes[i]
      BY <1>3
    <2> HIDE DEF m
    <2>4. [i \in DOMAIN nodes |-> m(i)] = nodes
      BY <2>2, <2>3
    <2>5. QED
      BY <2>4, <1>1 DEF m
  <1>5. [l EXCEPT !.nodes = nodes, !.head = IF None = None THEN None ELSE @,
                  !.tail = IF None = None THEN None ELSE @] = l
    <2>1. l \in [nodes : {nodes}, len : {0}, head : {None}, tail : {None}, free : {f}]
      OBVIOUS
    <2>2. [l EXCEPT !.nodes = nodes, !.head = IF None = None THEN None ELSE @,
                    !.tail = IF None = None THEN None ELSE @]
             \in [nodes : {nodes}, len : {0}, head : {None}, tail : {None}, free : {f}]
      BY <2>1
    <2>3. QED
      BY <2>2, ListIs
  <1>6. QED
    BY <1>4, <1>5, Zenon DEF PruneLink

\* List::remove through a Key that is current.
LEMMA TakenIs ==
    ASSUME ListInv, NEW k \in KeySet, k # None, Current(list, k), NEW n,
           n = VacantNode(list.free, Increment(k.gen))
    PROVE  Taken(list, k) =
              [nodes |-> [list.nodes EXCEPT ![k.index] = n], len |-> 0,
               head |-> None, tail |-> None, free |-> Key(k.index, Increment(k.gen))]
  <1>1. /\ k.index \in Indexes /\ list.nodes[k.index] \in NodeSet
        /\ list.nodes[k.index].gen = k.gen
    BY NodesTyped DEF ListInv, Current, Indexes
  <1>2. list.nodes[k.index].prev = None /\ list.nodes[k.index].next = None
    BY <1>1 DEF NodeSet
  <1>3. k.gen \in {1, 2} /\ Increment(k.gen) \in 1..3
    BY KeysAreNotNone, GenerationAssumption DEF Increment
  <1>4. n \in NodeSet
    <2>1. list.free \in KeySet
      BY NodesTyped DEF ListInv
    <2>2. QED
      BY <1>3, <2>1 DEF VacantNode, NodeSet
  <1>5. [list.nodes EXCEPT ![k.index] = n] \in Seq(NodeSet)
    BY <1>1, <1>4, NodesTyped, ExceptSeq DEF ListInv
  <1> DEFINE l == [nodes |-> [list.nodes EXCEPT ![k.index] = n], len |-> 0,
                   head |-> None, tail |-> None, free |-> Key(k.index, Increment(k.gen))]
  <1>6. [list EXCEPT !.nodes[k.index] = n, !.free = Key(k.index, Increment(k.gen))] = l
    <2>1. list = [nodes |-> list.nodes, len |-> 0, head |-> None, tail |-> None,
                  free |-> list.free]
      BY NodesTyped DEF ListInv
    <2> DEFINE new == [list.nodes EXCEPT ![k.index] = n]
               f == Key(k.index, Increment(k.gen))
    <2>2. [list EXCEPT !.nodes[k.index] = n] = [list EXCEPT !.nodes = new]
      OBVIOUS
    <2> HIDE DEF new, f
    <2>3. [list EXCEPT !.nodes = new, !.free = f]
             \in [nodes : {new}, len : {0}, head : {None}, tail : {None}, free : {f}]
      <3>1. list \in [nodes : {list.nodes}, len : {0}, head : {None}, tail : {None},
                      free : {list.free}]
        BY <2>1
      <3>2. QED
        BY <3>1
    <2>4. QED
      BY <2>2, <2>3, ListIs DEF new, f
  <1>7. PruneLink(l, None, None) = l
    BY <1>5, PruneNothing
  <1> HIDE DEF l
  <1>8. Taken(list, k) = PruneLink(l, None, None)
    BY <1>1, <1>2, <1>6 DEF Taken
  <1>9. QED
    BY <1>7, <1>8 DEF l

-----------------------------------------------------------------------------
(* What a step does to the list.                                            *)

\* A node is added at the end of the vector.
Appends(p) ==
    /\ list.free = None
    /\ list' = [nodes |-> Append(list.nodes, OccupiedNode(p, None, None, 1)), len |-> 0,
                head |-> None, tail |-> None, free |-> None]
    /\ key' = [key EXCEPT ![p] = Key(Len(list.nodes) + 1, 1)]

\* The first free node is used again.
Reuses(p, i) ==
    /\ list.free = Key(i, 2) /\ i \in VacantNodes /\ list.nodes[i].gen = 2
    /\ list' = [nodes |-> [list.nodes EXCEPT ![i] = OccupiedNode(p, None, None, 3)],
                len |-> 0, head |-> None, tail |-> None, free |-> list.nodes[i].free]
    /\ key' = [key EXCEPT ![p] = Key(i, 2)]

\* A node that was never used again becomes the first free one.
Takes(p, j) ==
    /\ key[p] = Key(j, 1) /\ j \in Indexes \ VacantNodes
    /\ list.nodes[j].gen = 1 /\ list.nodes[j].value = p
    /\ list' = [nodes |-> [list.nodes EXCEPT ![j] = VacantNode(list.free, 2)],
                len |-> 0, head |-> None, tail |-> None, free |-> Key(j, 2)]
    /\ key' = key

LEMMA KeyIs ==
    ASSUME NEW k \in KeySet, k # None
    PROVE  k = Key(k.index, k.gen)
  BY DEF KeySet, Key

LEMMA FreeIsVacant ==
    ASSUME ListInv, list.free # None
    PROVE  \E i \in VacantNodes : list.free = Key(i, 2) /\ list.nodes[i].gen = 2
  <1>1. 0 \in FreeKeys
    BY DEF FreeKeys, FreeKey
  <1>2. list.free.index \in VacantNodes /\ Current(list, list.free)
    BY <1>1 DEF ListInv, FreeListSound, FreeKey
  <1>3. list.nodes[list.free.index].gen = 2
    BY <1>2 DEF ListInv, ThreeLives, VacantNodes
  <1>4. list.free = Key(list.free.index, list.free.gen)
    BY NodesTyped, KeyIs DEF ListInv
  <1>5. QED
    BY <1>2, <1>3, <1>4 DEF Current

\* The list is never full by its own count, and nothing is popped.
LEMMA WriteIs ==
    ASSUME ListInv, NEW p \in Pointers, Write(p)
    PROVE  /\ p \notin live /\ p \notin Held
           /\ live' = live \cup {p} /\ panicked' = panicked
           /\ Appends(p) \/ \E i \in VacantNodes : Reuses(p, i)
  <1>1. list.len # Capacity
    BY NodesTyped, CapacityAssumption DEF ListInv
  <1>2. /\ p \notin live /\ p \notin Held
        /\ live' = live \cup {p} /\ panicked' = panicked
        /\ key' = [key EXCEPT ![p] = PushKey(list)]
        /\ list' = Pushed(list, p)
    BY <1>1 DEF Write
  <1>3. list = [nodes |-> list.nodes, len |-> 0, head |-> None, tail |-> None,
                free |-> list.free]
    BY NodesTyped DEF ListInv
  <1>4. CASE list.free = None
    <2> DEFINE new == Append(list.nodes, OccupiedNode(p, None, None, 1))
    <2>1. Pushed(list, p) = [list EXCEPT !.nodes = new]
      BY <1>3, <1>4 DEF Pushed
    <2> HIDE DEF new
    <2>2. [list EXCEPT !.nodes = new]
             = [nodes |-> new, len |-> 0, head |-> None, tail |-> None, free |-> None]
      BY <1>3, <1>4
    <2>3. Appends(p)
      BY <1>2, <1>4, <2>1, <2>2 DEF Appends, new, PushKey
    <2>4. QED
      BY <1>2, <2>3
  <1>5. CASE list.free # None
    <2>1. PICK i \in VacantNodes : list.free = Key(i, 2) /\ list.nodes[i].gen = 2
      BY <1>5, FreeIsVacant
    <2>2. list.free.index = i
      BY <2>1 DEF Key
    <2>3. Increment(2) = 3
      BY GenerationAssumption DEF Increment
    <2> DEFINE n == OccupiedNode(p, None, None, 3)
               f == list.nodes[i].free
               new == [list.nodes EXCEPT ![i] = n]
    <2>4. list.tail = None
      BY <1>3
    <2>5. Pushed(list, p) = [list EXCEPT !.free = f, !.nodes[i] = n]
      BY <1>5, <2>1, <2>2, <2>3, <2>4 DEF Pushed
    <2> HIDE DEF n, f
    <2>6. [list EXCEPT !.free = f, !.nodes[i] = n] = [list EXCEPT !.free = f, !.nodes = new]
      <3>1. [list EXCEPT !.free = f].nodes = list.nodes
        BY <1>3
      <3>2. QED
        BY <3>1
    <2> HIDE DEF new
    <2>7. [list EXCEPT !.free = f, !.nodes = new]
             \in [nodes : {new}, len : {0}, head : {None}, tail : {None}, free : {f}]
      <3>1. list \in [nodes : {list.nodes}, len : {0}, head : {None}, tail : {None},
                      free : {list.free}]
        BY <1>3
      <3>2. QED
        BY <3>1
    <2>8. list' = [nodes |-> new, len |-> 0, head |-> None, tail |-> None, free |-> f]
      BY <1>2, <2>5, <2>6, <2>7, ListIs
    <2>9. PushKey(list) = Key(i, 2)
      BY <1>5, <2>1 DEF PushKey
    <2>10. Reuses(p, i)
      BY <1>2, <2>1, <2>8, <2>9 DEF Reuses, new, f, n
    <2>11. QED
      BY <1>2, <2>10
  <1>6. QED
    BY <1>4, <1>5

LEMMA RemoveIs ==
    ASSUME ListInv, NEW p \in Pointers, Remove(p)
    PROVE  /\ p \in live /\ live' = live \ {p} /\ panicked' = panicked
           /\ \/ list' = list /\ key' = key
              \/ \E j \in Indexes : Takes(p, j)
  <1>1. /\ p \in live /\ live' = live \ {p} /\ panicked' = panicked /\ key' = key
        /\ list' = Taken(list, key[p])
    BY DEF Remove
  <1>2. CASE ~Current(list, key[p])
    BY <1>1, <1>2 DEF Taken
  <1>3. CASE Current(list, key[p])
    <2>1. key[p] \in KeySet /\ key[p] # None
      BY <1>1 DEF ListInv, Placed, Unlinked
    <2> DEFINE j == key[p].index
    <2>2. j \in Indexes /\ list.nodes[j].gen = key[p].gen /\ key[p].gen \in {1, 2}
      BY <1>3, <2>1, KeysAreNotNone DEF Current, Indexes
    <2>3. key[p].gen = 1 /\ key[p] = Key(j, 1)
      BY <2>1, <2>2, KeyIs DEF ListInv, ThreeLives
    <2>4. list.nodes[j].value = p /\ j \notin VacantNodes
      BY <1>3, <2>1 DEF ListInv, KeyNamesItsOwn, VacantNodes
    <2>5. Increment(key[p].gen) = 2
      BY <2>3, GenerationAssumption DEF Increment
    <2>6. list' = [nodes |-> [list.nodes EXCEPT ![j] = VacantNode(list.free, 2)], len |-> 0,
                   head |-> None, tail |-> None, free |-> Key(j, 2)]
      BY <1>1, <1>3, <2>1, <2>5, TakenIs
    <2>7. Takes(p, j)
      BY <1>1, <2>2, <2>3, <2>4, <2>6 DEF Takes
    <2>8. QED
      BY <1>1, <2>2, <2>7
  <1>4. QED
    BY <1>2, <1>3

\* Without a tail a read moves nothing.
LEMMA ReadIs ==
    ASSUME ListInv, NEW p \in Pointers, Read(p)
    PROVE  list' = list /\ key' = key /\ live' = live /\ panicked' \in BOOLEAN
  <1>1. list.tail = None /\ panicked \in BOOLEAN
    BY NodesTyped DEF ListInv, Unlinked
  <1>2. QED
    BY <1>1 DEF Read

-----------------------------------------------------------------------------
(* The list afterwards, node by node.                                       *)

LEMMA NodesInNodeSet ==
    /\ \A p \in Pointers, g \in {1, 3} : OccupiedNode(p, None, None, g) \in NodeSet
    /\ \A f \in KeySet : VacantNode(f, 2) \in NodeSet
    /\ \A i \in Nat \ {0} : Key(i, 1) \in KeySet /\ Key(i, 2) \in KeySet
    /\ None \in KeySet
  <1>1. None \in KeySet
    BY DEF KeySet
  <1>2. QED
    BY <1>1 DEF OccupiedNode, VacantNode, NodeSet, KeySet, Key

LEMMA Appended ==
    ASSUME ListInv, NEW p \in Pointers, Appends(p)
    PROVE  LET n == Len(list.nodes) + 1
           IN  /\ n \notin Indexes /\ n \in Nat \ {0}
               /\ Indexes' = Indexes \cup {n} /\ list'.free = None
               /\ Len(list'.nodes) = n
               /\ \A i \in Indexes : list'.nodes[i] = list.nodes[i]
               /\ list'.nodes[n] = OccupiedNode(p, None, None, 1)
               /\ key' = [key EXCEPT ![p] = Key(n, 1)] /\ key' \in [Pointers -> KeySet]
               /\ list' \in [nodes : Seq(NodeSet), len : {0}, head : {None}, tail : {None},
                             free : KeySet]
  <1> DEFINE n == Len(list.nodes) + 1
             node == OccupiedNode(p, None, None, 1)
  <1>1. /\ list.nodes \in Seq(NodeSet) /\ Len(list.nodes) \in Nat
        /\ Indexes = 1..Len(list.nodes)
    BY NodesTyped DEF ListInv
  <1>2. node \in NodeSet /\ Key(n, 1) \in KeySet /\ None \in KeySet
    <2>1. n \in Nat \ {0}
      BY <1>1
    <2>2. QED
      BY <2>1, NodesInNodeSet
  <1> HIDE DEF node
  <1>3. /\ Append(list.nodes, node) \in Seq(NodeSet)
        /\ Len(Append(list.nodes, node)) = n
        /\ \A i \in Indexes : Append(list.nodes, node)[i] = list.nodes[i]
        /\ Append(list.nodes, node)[n] = node
    BY <1>1, <1>2, AppendProperties
  <1>4. list' = [nodes |-> Append(list.nodes, node), len |-> 0, head |-> None,
                 tail |-> None, free |-> None]
    BY DEF Appends, node
  <1>5. Indexes' = 1..n
    BY <1>3, <1>4 DEF Indexes
  <1>6. key' = [key EXCEPT ![p] = Key(n, 1)] /\ key' \in [Pointers -> KeySet]
    BY <1>2 DEF Appends, ListInv, Unlinked
  <1>7. QED
    BY <1>1, <1>2, <1>3, <1>4, <1>5, <1>6 DEF node

LEMMA Replaced ==
    ASSUME ListInv, NEW i \in Indexes, NEW node \in NodeSet, NEW f \in KeySet,
           list' = [nodes |-> [list.nodes EXCEPT ![i] = node], len |-> 0,
                    head |-> None, tail |-> None, free |-> f]
    PROVE  /\ Indexes' = Indexes /\ list'.free = f
           /\ Len(list'.nodes) = Len(list.nodes)
           /\ \A j \in Indexes \ {i} : list'.nodes[j] = list.nodes[j]
           /\ list'.nodes[i] = node
           /\ list' \in [nodes : Seq(NodeSet), len : {0}, head : {None}, tail : {None},
                         free : KeySet]
  <1>1. /\ list.nodes \in Seq(NodeSet) /\ Len(list.nodes) \in Nat
        /\ Indexes = 1..Len(list.nodes)
    BY NodesTyped DEF ListInv
  <1>2. /\ [list.nodes EXCEPT ![i] = node] \in Seq(NodeSet)
        /\ Len([list.nodes EXCEPT ![i] = node]) = Len(list.nodes)
        /\ \A j \in Indexes : [list.nodes EXCEPT ![i] = node][j]
                                 = IF j = i THEN node ELSE list.nodes[j]
    BY <1>1, ExceptSeq
  <1>3. Indexes' = 1..Len(list.nodes)
    BY <1>1, <1>2 DEF Indexes
  <1>4. QED
    BY <1>1, <1>2, <1>3

LEMMA Reused ==
    ASSUME ListInv, NEW p \in Pointers, NEW i \in VacantNodes, Reuses(p, i)
    PROVE  /\ i \in Indexes /\ i \in Nat \ {0}
           /\ Indexes' = Indexes /\ list'.free = list.nodes[i].free
           /\ Len(list'.nodes) = Len(list.nodes)
           /\ \A j \in Indexes \ {i} : list'.nodes[j] = list.nodes[j]
           /\ list'.nodes[i] = OccupiedNode(p, None, None, 3)
           /\ key' = [key EXCEPT ![p] = Key(i, 2)] /\ key' \in [Pointers -> KeySet]
           /\ list' \in [nodes : Seq(NodeSet), len : {0}, head : {None}, tail : {None},
                         free : KeySet]
  <1>1. i \in Indexes /\ i \in Nat \ {0} /\ list.nodes[i] \in NodeSet
    BY NodesTyped DEF VacantNodes, ListInv
  <1>2. list.nodes[i].free \in KeySet
    BY <1>1 DEF NodeSet
  <1>3. OccupiedNode(p, None, None, 3) \in NodeSet /\ Key(i, 2) \in KeySet
    BY <1>1, <1>2, NodesInNodeSet
  <1>4. key' = [key EXCEPT ![p] = Key(i, 2)] /\ key' \in [Pointers -> KeySet]
    BY <1>3 DEF Reuses, ListInv, Unlinked
  <1>5. QED
    BY <1>1, <1>2, <1>3, <1>4, Replaced DEF Reuses

LEMMA Freed ==
    ASSUME ListInv, NEW p \in Pointers, NEW j \in Indexes, Takes(p, j)
    PROVE  /\ j \notin VacantNodes /\ j \in Nat \ {0} /\ list.nodes[j].full
           /\ Indexes' = Indexes /\ list'.free = Key(j, 2)
           /\ Len(list'.nodes) = Len(list.nodes)
           /\ \A i \in Indexes \ {j} : list'.nodes[i] = list.nodes[i]
           /\ list'.nodes[j] = VacantNode(list.free, 2)
           /\ key' = key
           /\ list' \in [nodes : Seq(NodeSet), len : {0}, head : {None}, tail : {None},
                         free : KeySet]
  <1>1. j \notin VacantNodes /\ j \in Nat \ {0} /\ list.nodes[j].full
    BY NodesTyped DEF VacantNodes, ListInv, Takes
  <1>2. list.free \in KeySet
    BY NodesTyped DEF ListInv
  <1>3. VacantNode(list.free, 2) \in NodeSet /\ Key(j, 2) \in KeySet
    BY <1>1, <1>2, NodesInNodeSet
  <1>4. QED
    BY <1>1, <1>3, Replaced DEF Takes

-----------------------------------------------------------------------------
(* Who is vacant afterwards, and what refers to whom.                       *)

LEMMA VacantAfterAppend ==
    ASSUME ListInv, NEW p \in Pointers, Appends(p)
    PROVE  /\ VacantNodes' = VacantNodes /\ FreeKeys' = FreeKeys
           /\ \A i \in VacantNodes \cup {0} : FreeKey(i)' = FreeKey(i)
  <1> DEFINE n == Len(list.nodes) + 1
  <1>1. /\ Indexes' = Indexes \cup {n} /\ n \notin Indexes /\ 0 \notin Indexes
        /\ \A i \in Indexes : list'.nodes[i] = list.nodes[i]
        /\ list'.nodes[n].full
    <2>1. 0 \notin Indexes
      BY NodesTyped DEF ListInv
    <2>2. OccupiedNode(p, None, None, 1).full
      BY DEF OccupiedNode
    <2>3. QED
      BY <2>1, <2>2, Appended
  <1>2. VacantNodes' = VacantNodes
    BY <1>1 DEF VacantNodes
  <1>3. list'.free = list.free
    BY Appended DEF Appends
  <1>4. \A i \in VacantNodes \cup {0} : FreeKey(i)' = FreeKey(i)
    BY <1>1, <1>3 DEF FreeKey, VacantNodes
  <1>5. QED
    BY <1>2, <1>4 DEF FreeKeys

LEMMA VacantAfterReuse ==
    ASSUME ListInv, NEW p \in Pointers, NEW i \in VacantNodes, Reuses(p, i)
    PROVE  /\ VacantNodes' = VacantNodes \ {i}
           /\ FreeKey(0)' = FreeKey(i) /\ FreeKey(0) = Key(i, 2) /\ i # 0 /\ 0 \notin VacantNodes
           /\ \A x \in VacantNodes' : FreeKey(x)' = FreeKey(x)
  <1>1. /\ i \in Indexes /\ i # 0 /\ 0 \notin Indexes /\ Indexes' = Indexes
        /\ list'.free = list.nodes[i].free
        /\ \A j \in Indexes \ {i} : list'.nodes[j] = list.nodes[j]
        /\ list'.nodes[i].full
    <2>1. 0 \notin Indexes
      BY NodesTyped DEF ListInv
    <2>2. OccupiedNode(p, None, None, 3).full
      BY DEF OccupiedNode
    <2>3. QED
      BY <2>1, <2>2, Reused
  <1>2. VacantNodes' = VacantNodes \ {i}
    BY <1>1 DEF VacantNodes
  <1>3. FreeKey(0)' = FreeKey(i) /\ FreeKey(0) = Key(i, 2)
    BY <1>1 DEF FreeKey, Reuses
  <1>4. \A x \in VacantNodes' : FreeKey(x)' = FreeKey(x)
    BY <1>1, <1>2 DEF FreeKey, VacantNodes
  <1>5. QED
    BY <1>1, <1>2, <1>3, <1>4 DEF VacantNodes

LEMMA VacantAfterTake ==
    ASSUME ListInv, NEW p \in Pointers, NEW j \in Indexes, Takes(p, j)
    PROVE  /\ VacantNodes' = VacantNodes \cup {j} /\ j \notin VacantNodes
           /\ FreeKey(0)' = Key(j, 2) /\ FreeKey(j)' = FreeKey(0) /\ j # 0 /\ 0 \notin VacantNodes
           /\ \A x \in VacantNodes : FreeKey(x)' = FreeKey(x)
  <1>1. /\ j \notin VacantNodes /\ j # 0 /\ 0 \notin Indexes /\ Indexes' = Indexes
        /\ list'.free = Key(j, 2)
        /\ \A i \in Indexes \ {j} : list'.nodes[i] = list.nodes[i]
        /\ ~list'.nodes[j].full /\ list'.nodes[j].free = list.free
    BY Freed, NodesTyped DEF VacantNode, ListInv
  <1>2. VacantNodes' = VacantNodes \cup {j}
    BY <1>1 DEF VacantNodes
  <1>3. FreeKey(0)' = Key(j, 2) /\ FreeKey(j)' = FreeKey(0)
    BY <1>1 DEF FreeKey
  <1>4. \A x \in VacantNodes : FreeKey(x)' = FreeKey(x)
    BY <1>1 DEF FreeKey, VacantNodes
  <1>5. QED
    BY <1>1, <1>2, <1>3, <1>4 DEF VacantNodes

LEMMA VacantFinite ==
    ASSUME Unlinked
    PROVE  /\ IsFiniteSet(Indexes) /\ IsFiniteSet(VacantNodes) /\ IsFiniteSet(FreeKeys)
           /\ Cardinality(Indexes) = Len(list.nodes)
           /\ Cardinality(VacantNodes) \in Nat /\ Cardinality(FreeKeys) \in Nat
  <1>1. Indexes = 1..Len(list.nodes) /\ Len(list.nodes) \in Nat
    BY NodesTyped
  <1>2. IsFiniteSet(Indexes) /\ Cardinality(Indexes) = Len(list.nodes)
    BY <1>1, FS_Interval
  <1>3. IsFiniteSet(VacantNodes)
    BY <1>2, FS_Subset DEF VacantNodes
  <1>4. IsFiniteSet(VacantNodes \cup {0})
    BY <1>3, FS_AddElement
  <1>5. IsFiniteSet(FreeKeys)
    BY <1>4, FS_Subset DEF FreeKeys
  <1>6. QED
    BY <1>2, <1>3, <1>5, FS_CardinalityType

\* A vacant node has generation 2: FreeListSound without Current.
FreeListHeld ==
    /\ \A i \in FreeKeys : FreeKey(i).index \in VacantNodes /\ FreeKey(i).gen = 2
    /\ \A i, j \in FreeKeys : FreeKey(i).index = FreeKey(j).index => i = j
    /\ Cardinality(FreeKeys) = Cardinality(VacantNodes)

LEMMA SoundIsHeld == ThreeLives => (FreeListSound <=> FreeListHeld)
  <1> SUFFICES ASSUME ThreeLives PROVE FreeListSound <=> FreeListHeld
    OBVIOUS
  <1>1. \A x \in VacantNodes : x \in DOMAIN list.nodes /\ list.nodes[x].gen = 2
    BY DEF ThreeLives, VacantNodes, Indexes
  <1>2. QED
    BY <1>1 DEF FreeListSound, FreeListHeld, Current

\* An empty free list means that every node is in use: with no key on the list
\* itself there are as many keys on vacant nodes as there are such nodes, so each
\* names another and the one of least rank has none to name.
LEMMA NoneVacant ==
    ASSUME ListInv, list.free = None
    PROVE  VacantNodes = {}
  <1> SUFFICES ASSUME VacantNodes # {} PROVE FALSE
    OBVIOUS
  <1>1. FreeKeys \subseteq VacantNodes
    BY DEF FreeKeys, FreeKey
  <1>2. FreeKeys = VacantNodes
    BY <1>1, VacantFinite, FS_Subset DEF ListInv, FreeListSound
  <1>3. PICK rank \in [VacantNodes -> Nat] :
           \A i \in VacantNodes : list.nodes[i].free # None =>
               rank[list.nodes[i].free.index] < rank[i]
    BY DEF ListInv, Ranked
  <1> DEFINE Ranks == {rank[i] : i \in VacantNodes}
  <1>4. Ranks \subseteq Nat /\ Ranks # {}
    BY <1>3
  <1>5. PICK m \in Ranks : \A y \in Ranks : ~(<<y, m>> \in OpToRel(<, Nat))
    BY <1>4, NatLessThanWellFounded, WFMin
  <1>6. PICK i \in VacantNodes : m = rank[i]
    BY <1>5
  <1>7. i # 0 /\ i \in FreeKeys /\ FreeKey(i) = list.nodes[i].free
    BY <1>2, <1>6, NodesTyped DEF FreeKey, VacantNodes, ListInv
  <1>8. list.nodes[i].free # None /\ list.nodes[i].free.index \in VacantNodes
    BY <1>7, SoundIsHeld DEF FreeKeys, FreeListHeld, ListInv
  <1>9. rank[list.nodes[i].free.index] < m /\ rank[list.nodes[i].free.index] \in Ranks
    BY <1>3, <1>6, <1>8
  <1>10. <<rank[list.nodes[i].free.index], m>> \in OpToRel(<, Nat)
    BY <1>4, <1>9 DEF OpToRel
  <1>11. QED
    BY <1>5, <1>9, <1>10

\* Nodes in use have different pointers.
LEMMA RoomForOne ==
    ASSUME ListInv, list.free = None, NEW p \in Pointers, p \notin Held
    PROVE  Len(list.nodes) + 1 <= Cardinality(Pointers)
  <1> DEFINE owner == [i \in Indexes |-> list.nodes[i].value]
             Others == Pointers \ {p}
  <1>1. \A i \in Indexes : list.nodes[i].full /\ list.nodes[i].value \in Pointers
    BY NoneVacant DEF ListInv, ThreeLives, VacantNodes
  <1>2. \A i \in Indexes : list.nodes[i].value # p
    BY DEF Held, Indexes
  <1>3. owner \in [Indexes -> Others]
    BY <1>1, <1>2
  <1>4. \A i, j \in Indexes : owner[i] = owner[j] => i = j
    BY <1>1 DEF ListInv, Placed
  <1>5. owner \in Injection(Indexes, Others)
    BY <1>3, <1>4 DEF Injection, IsInjective
  <1>6. /\ IsFiniteSet(Others) /\ Cardinality(Others) = Cardinality(Pointers) - 1
        /\ Cardinality(Pointers) \in Nat
    BY PointersAssumption, FS_RemoveElement, FS_CardinalityType
  <1> HIDE DEF owner, Others
  <1>7. Cardinality(Indexes) <= Cardinality(Others)
    BY <1>5, <1>6, FS_Injection
  <1>8. Cardinality(Indexes) = Len(list.nodes) /\ Len(list.nodes) \in Nat
    BY VacantFinite, NodesTyped DEF ListInv
  <1>9. QED
    BY <1>6, <1>7, <1>8

-----------------------------------------------------------------------------
(* Each step keeps the invariant.                                           *)

LEMMA OccupiedIs ==
    \A p, g : /\ OccupiedNode(p, None, None, g).full /\ OccupiedNode(p, None, None, g).value = p
              /\ OccupiedNode(p, None, None, g).gen = g
              /\ OccupiedNode(p, None, None, g).free = None
  BY DEF OccupiedNode

LEMMA VacantIs ==
    \A f, g : /\ VacantNode(f, g).full = FALSE /\ VacantNode(f, g).value = None
              /\ VacantNode(f, g).gen = g /\ VacantNode(f, g).free = f
  BY DEF VacantNode

LEMMA KeyParts == \A i, g : Key(i, g).index = i /\ Key(i, g).gen = g
  BY DEF Key

\* What the invariant says of a single node, and of a pointer's Key.
LEMMA NodeFacts ==
    ASSUME ListInv
    PROVE  /\ \A i \in Indexes :
                 /\ list.nodes[i].full <=> list.nodes[i].gen # 2
                 /\ list.nodes[i].full <=> list.nodes[i].value \in Pointers
                 /\ list.nodes[i].full => list.nodes[i].free = None
           /\ \A q \in Pointers : key[q] # None =>
                 /\ key[q].index \in Indexes /\ key[q].gen \in {1, 2}
                 /\ key[q].gen = 2 => list.nodes[key[q].index].gen = 3
                 /\ list.nodes[key[q].index].gen = key[q].gen
                       => list.nodes[key[q].index].full /\ list.nodes[key[q].index].value = q
           /\ \A i, j \in Indexes :
                 list.nodes[i].full /\ list.nodes[i].value = list.nodes[j].value => i = j
           /\ key \in [Pointers -> KeySet] /\ live \subseteq Pointers /\ panicked \in BOOLEAN
           /\ \A q \in live : key[q] # None /\ \E i \in Indexes : list.nodes[i].value = q
           /\ Len(list.nodes) <= Cardinality(Pointers)
  <1>1. \A q \in Pointers : key[q] # None => key[q].gen \in {1, 2}
    BY KeysAreNotNone DEF ListInv, Unlinked
  <1>2. \A q \in Pointers : key[q] # None =>
           /\ key[q].index \in Indexes
           /\ list.nodes[key[q].index].gen = key[q].gen
                 => list.nodes[key[q].index].full /\ list.nodes[key[q].index].value = q
    BY DEF ListInv, ThreeLives, KeyNamesItsOwn, Current, Indexes
  <1>3. \A q \in live : key[q] # None /\ \E i \in Indexes : list.nodes[i].value = q
    BY DEF ListInv, Placed, Held, Indexes
  <1>4. QED
    BY <1>1, <1>2, <1>3 DEF ListInv, Unlinked, ThreeLives, Placed, Bounded

LEMMA AppendKeeps ==
    ASSUME ListInv, NEW p \in Pointers, p \notin live, p \notin Held, Appends(p),
           live' = live \cup {p}, panicked' = panicked
    PROVE  ListInv'
  <1> DEFINE n == Len(list.nodes) + 1
             node == OccupiedNode(p, None, None, 1)
  <1>1. /\ n \notin Indexes /\ Indexes' = Indexes \cup {n} /\ Len(list'.nodes) = n
        /\ \A i \in Indexes : list'.nodes[i] = list.nodes[i]
        /\ list'.nodes[n] = node
        /\ key' = [key EXCEPT ![p] = Key(n, 1)] /\ key' \in [Pointers -> KeySet]
        /\ list' \in [nodes : Seq(NodeSet), len : {0}, head : {None}, tail : {None},
                      free : KeySet]
    BY Appended
  <1>2. node.full /\ node.value = p /\ node.gen = 1 /\ node.free = None
    BY OccupiedIs
  <1>3. /\ key'[p] = Key(n, 1) /\ key'[p].index = n /\ key'[p].gen = 1 /\ key'[p] # None
        /\ \A q \in Pointers \ {p} : key'[q] = key[q]
    <2>1. key'[p] = Key(n, 1) /\ \A q \in Pointers \ {p} : key'[q] = key[q]
      BY <1>1, NodeFacts
    <2>2. n \in Nat
      BY Appended
    <2>3. QED
      BY <2>1, <2>2, KeyParts, KeysAreNotNone
  <1>4. \A i \in Indexes : list.nodes[i].value # p
    BY DEF Held, Indexes
  <1> HIDE DEF n, node
  <1>5. Unlinked'
    BY <1>1, NodeFacts DEF Unlinked
  <1>6. ThreeLives'
    <2>1. \A i \in Indexes' :
             /\ list'.nodes[i].full <=> list'.nodes[i].gen # 2
             /\ list'.nodes[i].full <=> list'.nodes[i].value \in Pointers
             /\ list'.nodes[i].full => list'.nodes[i].free = None
      BY <1>1, <1>2, NodeFacts
    <2>2. \A q \in Pointers : key'[q] # None =>
             /\ key'[q].index \in Indexes'
             /\ key'[q].gen = 2 => list'.nodes[key'[q].index].gen = 3
      BY <1>1, <1>3, NodeFacts
    <2>3. QED
      BY <2>1, <2>2 DEF ThreeLives
  <1>7. KeyNamesItsOwn' /\ Placed'
    <2>1. \A q \in Pointers :
             key'[q] # None /\ list'.nodes[key'[q].index].gen = key'[q].gen
                => list'.nodes[key'[q].index].full /\ list'.nodes[key'[q].index].value = q
      BY <1>1, <1>2, <1>3, NodeFacts
    <2>2. \A i, j \in Indexes' :
             list'.nodes[i].full /\ list'.nodes[i].value = list'.nodes[j].value => i = j
      BY <1>1, <1>2, <1>4, NodeFacts
    <2>3. \A q \in live' : key'[q] # None /\ \E i \in Indexes' : list'.nodes[i].value = q
      BY <1>1, <1>2, <1>3, NodeFacts
    <2>4. KeyNamesItsOwn'
      BY <2>1 DEF KeyNamesItsOwn, Current
    <2>5. Placed'
      BY <2>2, <2>3 DEF Placed, Held, Indexes
    <2>6. QED
      BY <2>4, <2>5
  <1>8. FreeListHeld'
    <2>1. FreeListHeld
      BY SoundIsHeld DEF ListInv
    <2>2. /\ VacantNodes' = VacantNodes /\ FreeKeys' = FreeKeys
          /\ \A i \in FreeKeys : FreeKey(i)' = FreeKey(i)
      BY VacantAfterAppend DEF FreeKeys
    <2>3. QED
      BY <2>1, <2>2 DEF FreeListHeld
  <1>9. Ranked'
    <2>1. PICK rank \in [VacantNodes -> Nat] :
             \A i \in VacantNodes : list.nodes[i].free # None =>
                 rank[list.nodes[i].free.index] < rank[i]
      BY DEF ListInv, Ranked
    <2>2. VacantNodes' = VacantNodes /\ \A i \in VacantNodes : list'.nodes[i] = list.nodes[i]
      BY <1>1, VacantAfterAppend DEF VacantNodes
    <2>3. QED
      BY <2>1, <2>2 DEF Ranked
  <1>10. Bounded'
    BY <1>1, RoomForOne DEF Bounded, Appends, n
  <1>11. FreeListSound'
    BY <1>6, <1>8, SoundIsHeld, PTL
  <1>12. QED
    BY <1>5, <1>6, <1>7, <1>9, <1>10, <1>11 DEF ListInv

LEMMA ReuseKeeps ==
    ASSUME ListInv, NEW p \in Pointers, p \notin live, p \notin Held,
           NEW i \in VacantNodes, Reuses(p, i), live' = live \cup {p}, panicked' = panicked
    PROVE  ListInv'
  <1> DEFINE node == OccupiedNode(p, None, None, 3)
  <1>1. /\ i \in Indexes /\ Indexes' = Indexes /\ Len(list'.nodes) = Len(list.nodes)
        /\ \A j \in Indexes \ {i} : list'.nodes[j] = list.nodes[j]
        /\ list'.nodes[i] = node
        /\ key' = [key EXCEPT ![p] = Key(i, 2)] /\ key' \in [Pointers -> KeySet]
        /\ list' \in [nodes : Seq(NodeSet), len : {0}, head : {None}, tail : {None},
                      free : KeySet]
    BY Reused
  <1>2. node.full /\ node.value = p /\ node.gen = 3 /\ node.free = None
    BY OccupiedIs
  <1>3. /\ key'[p].index = i /\ key'[p].gen = 2 /\ key'[p] # None
        /\ \A q \in Pointers \ {p} : key'[q] = key[q]
    <2>1. key'[p] = Key(i, 2) /\ \A q \in Pointers \ {p} : key'[q] = key[q]
      BY <1>1, NodeFacts
    <2>2. i \in Nat
      BY Reused
    <2>3. QED
      BY <2>1, <2>2, KeyParts, KeysAreNotNone
  <1>4. /\ \A j \in Indexes : list.nodes[j].value # p
        /\ list.nodes[i].gen = 2 /\ ~list.nodes[i].full /\ list.nodes[i].value \notin Pointers
    BY <1>1, NodeFacts DEF Held, Indexes, Reuses, VacantNodes
  <1> HIDE DEF node
  <1>5. Unlinked'
    BY <1>1, NodeFacts DEF Unlinked
  <1>6. ThreeLives'
    <2>1. \A j \in Indexes' :
             /\ list'.nodes[j].full <=> list'.nodes[j].gen # 2
             /\ list'.nodes[j].full <=> list'.nodes[j].value \in Pointers
             /\ list'.nodes[j].full => list'.nodes[j].free = None
      BY <1>1, <1>2, NodeFacts
    <2>2. \A q \in Pointers : key'[q] # None =>
             /\ key'[q].index \in Indexes'
             /\ key'[q].gen = 2 => list'.nodes[key'[q].index].gen = 3
      BY <1>1, <1>2, <1>3, NodeFacts
    <2>3. QED
      BY <2>1, <2>2 DEF ThreeLives
  <1>7. KeyNamesItsOwn' /\ Placed'
    <2>1. \A q \in Pointers :
             key'[q] # None /\ list'.nodes[key'[q].index].gen = key'[q].gen
                => list'.nodes[key'[q].index].full /\ list'.nodes[key'[q].index].value = q
      BY <1>1, <1>2, <1>3, NodeFacts
    <2>2. \A j, k \in Indexes' :
             list'.nodes[j].full /\ list'.nodes[j].value = list'.nodes[k].value => j = k
      BY <1>1, <1>2, <1>4, NodeFacts
    <2>3. \A q \in live' : key'[q] # None /\ \E j \in Indexes' : list'.nodes[j].value = q
      BY <1>1, <1>2, <1>3, <1>4, NodeFacts
    <2>4. KeyNamesItsOwn'
      BY <2>1 DEF KeyNamesItsOwn, Current
    <2>5. Placed'
      BY <2>2, <2>3 DEF Placed, Held, Indexes
    <2>6. QED
      BY <2>4, <2>5
  \* What referred to i is let go, and what i referred to is referred to by 0.
  <1>8. FreeListHeld'
    <2>1. FreeListHeld
      BY SoundIsHeld DEF ListInv
    <2>2. /\ VacantNodes' = VacantNodes \ {i}
          /\ FreeKey(0)' = FreeKey(i) /\ FreeKey(0).index = i /\ FreeKey(0) # None
          /\ i # 0 /\ 0 \notin VacantNodes
          /\ \A x \in VacantNodes' : FreeKey(x)' = FreeKey(x)
      <3>1. FreeKey(0) = Key(i, 2) /\ i \in Nat
        BY VacantAfterReuse, Reused
      <3>2. QED
        BY <3>1, VacantAfterReuse, KeyParts, KeysAreNotNone
    <2> DEFINE gone == IF FreeKey(i) = None THEN 0 ELSE i
               From(x) == IF x = 0 THEN i ELSE x
    <2>3. 0 \in FreeKeys /\ gone \in FreeKeys
      BY <2>2 DEF FreeKeys
    <2>4. FreeKeys' = FreeKeys \ {gone}
      BY <2>2 DEF FreeKeys
    <2>5. \A x \in FreeKeys' :
             From(x) \in FreeKeys /\ From(x) # 0 /\ FreeKey(x)' = FreeKey(From(x))
      BY <2>2 DEF FreeKeys
    <2>6. \A x, y \in FreeKeys' : From(x) = From(y) => x = y
      BY <2>2 DEF FreeKeys
    <2> HIDE DEF gone, From
    <2>7. \A x \in FreeKeys' : FreeKey(x)'.index \in VacantNodes' /\ FreeKey(x)'.gen = 2
      <3> SUFFICES ASSUME NEW x \in FreeKeys'
                   PROVE  FreeKey(x)'.index \in VacantNodes' /\ FreeKey(x)'.gen = 2
        OBVIOUS
      <3>1. FreeKey(x)'.index \in VacantNodes /\ FreeKey(x)'.gen = 2
        BY <2>1, <2>5 DEF FreeListHeld
      <3>2. FreeKey(x)'.index # i
        BY <2>1, <2>2, <2>3, <2>5 DEF FreeListHeld
      <3>3. QED
        BY <2>2, <3>1, <3>2
    <2>8. \A x, y \in FreeKeys' : FreeKey(x)'.index = FreeKey(y)'.index => x = y
      BY <2>1, <2>5, <2>6 DEF FreeListHeld
    <2>9. Cardinality(FreeKeys') = Cardinality(VacantNodes')
      <3>1. /\ Cardinality(FreeKeys \ {gone}) = Cardinality(FreeKeys) - 1
            /\ Cardinality(VacantNodes \ {i}) = Cardinality(VacantNodes) - 1
        BY <2>3, VacantFinite, FS_RemoveElement DEF ListInv
      <3>2. QED
        BY <2>1, <2>2, <2>4, <3>1 DEF FreeListHeld
    <2>10. QED
      BY <2>7, <2>8, <2>9 DEF FreeListHeld
  <1>9. Ranked'
    <2>1. PICK rank \in [VacantNodes -> Nat] :
             \A j \in VacantNodes : list.nodes[j].free # None =>
                 rank[list.nodes[j].free.index] < rank[j]
      BY DEF ListInv, Ranked
    <2> DEFINE rest == [j \in VacantNodes' |-> rank[j]]
    <2>2. /\ VacantNodes' = VacantNodes \ {i} /\ 0 \notin VacantNodes
          /\ \A j \in VacantNodes' : list'.nodes[j] = list.nodes[j]
      BY <1>1, VacantAfterReuse DEF VacantNodes
    <2>3. \A j \in VacantNodes' : list'.nodes[j].free # None =>
             list'.nodes[j].free.index \in VacantNodes'
      <3> SUFFICES ASSUME NEW j \in VacantNodes', list'.nodes[j].free # None
                   PROVE  list'.nodes[j].free.index \in VacantNodes'
        OBVIOUS
      <3>1. FreeKey(j)' = list'.nodes[j].free /\ j \in FreeKeys'
        BY <2>2 DEF FreeKey, FreeKeys
      <3>2. QED
        BY <1>8, <3>1 DEF FreeListHeld
    <2>4. rest \in [VacantNodes' -> Nat]
      BY <2>1, <2>2
    <2>5. \A j \in VacantNodes' : list'.nodes[j].free # None =>
             rest[list'.nodes[j].free.index] < rest[j]
      BY <2>1, <2>2, <2>3
    <2>6. QED
      BY <2>4, <2>5 DEF Ranked
  <1>10. Bounded'
    BY <1>1, NodeFacts DEF Bounded
  <1>11. FreeListSound'
    BY <1>6, <1>8, SoundIsHeld, PTL
  <1>12. QED
    BY <1>5, <1>6, <1>7, <1>9, <1>10, <1>11 DEF ListInv

LEMMA TakeKeeps ==
    ASSUME ListInv, NEW p \in Pointers, NEW j \in Indexes, Takes(p, j),
           live' = live \ {p}, panicked' = panicked
    PROVE  ListInv'
  <1> DEFINE node == VacantNode(list.free, 2)
  <1>1. /\ j \notin VacantNodes /\ Indexes' = Indexes /\ Len(list'.nodes) = Len(list.nodes)
        /\ \A i \in Indexes \ {j} : list'.nodes[i] = list.nodes[i]
        /\ list'.nodes[j] = node /\ list'.free = Key(j, 2) /\ key' = key
        /\ list' \in [nodes : Seq(NodeSet), len : {0}, head : {None}, tail : {None},
                      free : KeySet]
    BY Freed
  <1>2. node.full = FALSE /\ node.value \notin Pointers /\ node.gen = 2
    BY VacantIs, KeysAreNotNone
  <1>3. /\ list.nodes[j].gen = 1 /\ list.nodes[j].full /\ list.nodes[j].value = p
        /\ key[p] # None /\ key[p].index = j /\ key[p].gen = 1
    <2>1. key[p] = Key(j, 1) /\ j \in Nat
      BY Freed DEF Takes
    <2>2. QED
      BY <2>1, Freed, KeyParts, KeysAreNotNone DEF Takes
  <1> HIDE DEF node
  <1>5. Unlinked'
    BY <1>1, NodeFacts DEF Unlinked
  <1>6. ThreeLives'
    <2>1. \A i \in Indexes' :
             /\ list'.nodes[i].full <=> list'.nodes[i].gen # 2
             /\ list'.nodes[i].full <=> list'.nodes[i].value \in Pointers
             /\ list'.nodes[i].full => list'.nodes[i].free = None
      BY <1>1, <1>2, NodeFacts
    <2>2. \A q \in Pointers : key'[q] # None =>
             /\ key'[q].index \in Indexes'
             /\ key'[q].gen = 2 => list'.nodes[key'[q].index].gen = 3
      BY <1>1, <1>3, NodeFacts
    <2>3. QED
      BY <2>1, <2>2 DEF ThreeLives
  <1>7. KeyNamesItsOwn' /\ Placed'
    <2>1. \A q \in Pointers :
             key'[q] # None /\ list'.nodes[key'[q].index].gen = key'[q].gen
                => list'.nodes[key'[q].index].full /\ list'.nodes[key'[q].index].value = q
      BY <1>1, <1>2, <1>3, NodeFacts
    <2>2. \A i, k \in Indexes' :
             list'.nodes[i].full /\ list'.nodes[i].value = list'.nodes[k].value => i = k
      BY <1>1, <1>2, NodeFacts
    <2>3. \A q \in live' : key'[q] # None /\ \E i \in Indexes' : list'.nodes[i].value = q
      BY <1>1, <1>3, NodeFacts
    <2>4. KeyNamesItsOwn'
      BY <2>1 DEF KeyNamesItsOwn, Current
    <2>5. Placed'
      BY <2>2, <2>3 DEF Placed, Held, Indexes
    <2>6. QED
      BY <2>4, <2>5
  \* j refers to what 0 referred to, and 0 to j.
  <1>8. FreeListHeld'
    <2>1. FreeListHeld
      BY SoundIsHeld DEF ListInv
    <2>2. /\ VacantNodes' = VacantNodes \cup {j}
          /\ FreeKey(j)' = FreeKey(0) /\ FreeKey(0)' # None
          /\ FreeKey(0)'.index = j /\ FreeKey(0)'.gen = 2
          /\ j # 0 /\ 0 \notin VacantNodes
          /\ \A x \in VacantNodes : FreeKey(x)' = FreeKey(x)
      <3>1. FreeKey(0)' = Key(j, 2) /\ j \in Nat
        BY VacantAfterTake, Freed
      <3>2. FreeKey(0)' # None /\ FreeKey(0)'.index = j /\ FreeKey(0)'.gen = 2
        BY <3>1, KeyParts, KeysAreNotNone
      <3>3. QED
        BY <3>2, VacantAfterTake
    <2> DEFINE new == IF FreeKey(0) = None THEN 0 ELSE j
               From(x) == IF x = j THEN 0 ELSE x
    <2>3. new \notin FreeKeys
      BY <1>1, <2>2 DEF FreeKeys
    <2>4. FreeKeys' = FreeKeys \cup {new}
      BY <1>1, <2>2 DEF FreeKeys
    <2>5. \A x \in FreeKeys' \ {0} : From(x) \in FreeKeys /\ FreeKey(x)' = FreeKey(From(x))
      BY <1>1, <2>2 DEF FreeKeys
    <2>6. \A x, y \in FreeKeys' \ {0} : From(x) = From(y) => x = y
      BY <1>1, <2>2 DEF FreeKeys
    <2> HIDE DEF new, From
    <2>7. \A x \in FreeKeys' \ {0} : /\ FreeKey(x)'.index \in VacantNodes
                                     /\ FreeKey(x)'.index # j /\ FreeKey(x)'.gen = 2
      BY <1>1, <2>1, <2>5 DEF FreeListHeld
    <2>8. \A x \in FreeKeys' : FreeKey(x)'.index \in VacantNodes' /\ FreeKey(x)'.gen = 2
      BY <2>2, <2>7
    <2>9. \A x, y \in FreeKeys' : FreeKey(x)'.index = FreeKey(y)'.index => x = y
      <3> SUFFICES ASSUME NEW x \in FreeKeys', NEW y \in FreeKeys',
                          FreeKey(x)'.index = FreeKey(y)'.index
                   PROVE  x = y
        OBVIOUS
      <3>1. CASE x # 0 /\ y # 0
        BY <2>1, <2>5, <2>6, <3>1 DEF FreeListHeld
      <3>2. CASE x = 0 \/ y = 0
        BY <2>2, <2>7, <3>2
      <3>3. QED
        BY <3>1, <3>2
    <2>10. Cardinality(FreeKeys') = Cardinality(VacantNodes')
      <3>1. /\ Cardinality(FreeKeys \cup {new}) = Cardinality(FreeKeys) + 1
            /\ Cardinality(VacantNodes \cup {j}) = Cardinality(VacantNodes) + 1
        BY <1>1, <2>3, VacantFinite, FS_AddElement DEF ListInv
      <3>2. QED
        BY <2>1, <2>2, <2>4, <3>1 DEF FreeListHeld
    <2>11. QED
      BY <2>8, <2>9, <2>10 DEF FreeListHeld
  <1>9. Ranked'
    <2>1. PICK rank \in [VacantNodes -> Nat] :
             \A i \in VacantNodes : list.nodes[i].free # None =>
                 rank[list.nodes[i].free.index] < rank[i]
      BY DEF ListInv, Ranked
    <2> DEFINE top == IF list.free = None THEN 0 ELSE rank[list.free.index] + 1
               more == [i \in VacantNodes' |-> IF i = j THEN top ELSE rank[i]]
    <2>2. /\ VacantNodes' = VacantNodes \cup {j} /\ 0 \notin VacantNodes
          /\ \A i \in VacantNodes : list'.nodes[i] = list.nodes[i]
          /\ list'.nodes[j].free = list.free
      BY <1>1, VacantAfterTake, VacantIs DEF VacantNodes, node
    <2>3. /\ \A i \in VacantNodes : list.nodes[i].free # None =>
                list.nodes[i].free.index \in VacantNodes
          /\ list.free # None => list.free.index \in VacantNodes
      <3>1. FreeListHeld /\ \A i \in VacantNodes : FreeKey(i) = list.nodes[i].free
        BY <2>2, SoundIsHeld DEF ListInv, FreeKey
      <3>2. QED
        BY <3>1 DEF FreeListHeld, FreeKeys, FreeKey
    <2>4. top \in Nat /\ more \in [VacantNodes' -> Nat]
      BY <2>1, <2>2, <2>3
    <2>5. \A i \in VacantNodes' : list'.nodes[i].free # None =>
             more[list'.nodes[i].free.index] < more[i]
      BY <1>1, <2>1, <2>2, <2>3
    <2>6. QED
      BY <2>4, <2>5 DEF Ranked
  <1>10. Bounded'
    BY <1>1, NodeFacts DEF Bounded
  <1>11. FreeListSound'
    BY <1>6, <1>8, SoundIsHeld, PTL
  <1>12. QED
    BY <1>5, <1>6, <1>7, <1>9, <1>10, <1>11 DEF ListInv

\* A removal through a stale Key, or a read.
LEMMA LetGoKeeps ==
    ASSUME ListInv, list' = list, key' = key, live' \subseteq live, panicked' \in BOOLEAN
    PROVE  ListInv'
  <1>1. Unlinked' /\ Placed'
    BY DEF ListInv, Unlinked, Placed, Held, Indexes
  <1>2. /\ Indexes' = Indexes /\ VacantNodes' = VacantNodes /\ FreeKeys' = FreeKeys
        /\ \A i : FreeKey(i)' = FreeKey(i)
    BY DEF Indexes, VacantNodes, FreeKeys, FreeKey
  <1>3. ThreeLives' /\ Ranked' /\ Bounded'
    BY <1>2 DEF ListInv, ThreeLives, Ranked, Bounded
  <1>4. FreeListSound' /\ KeyNamesItsOwn'
    BY <1>2 DEF ListInv, FreeListSound, KeyNamesItsOwn, Current
  <1>5. QED
    BY <1>1, <1>3, <1>4 DEF ListInv

LEMMA ListInvInit == Init => ListInv
  <1> SUFFICES ASSUME Init PROVE ListInv
    OBVIOUS
  <1>1. /\ list = [nodes |-> <<>>, len |-> 0, head |-> None, tail |-> None, free |-> None]
        /\ key = [p \in Pointers |-> None] /\ live = {} /\ panicked = FALSE
    BY DEF Init
  <1>2. list.nodes = <<>> /\ list.free = None /\ Indexes = {}
    BY <1>1 DEF Indexes
  <1>3. VacantNodes = {} /\ FreeKeys = {}
    BY <1>2 DEF VacantNodes, FreeKeys, FreeKey
  <1>4. Unlinked
    <2>1. None \in KeySet
      BY DEF KeySet
    <2>2. list \in [nodes : Seq(NodeSet), len : {0}, head : {None}, tail : {None},
                    free : KeySet]
      BY <1>1, <2>1
    <2>3. QED
      BY <1>1, <2>1, <2>2 DEF Unlinked
  <1>5. ThreeLives /\ KeyNamesItsOwn /\ Placed
    BY <1>1, <1>2 DEF ThreeLives, KeyNamesItsOwn, Placed
  <1>6. FreeListSound
    BY <1>3 DEF FreeListSound
  <1>7. Ranked
    <2>1. [i \in VacantNodes |-> 0] \in [VacantNodes -> Nat]
      OBVIOUS
    <2>2. QED
      BY <1>3, <2>1 DEF Ranked
  <1>8. Bounded
    BY <1>2, PointersAssumption, FS_CardinalityType DEF Bounded
  <1>9. QED
    BY <1>4, <1>5, <1>6, <1>7, <1>8 DEF ListInv

LEMMA ListInvNext == ListInv /\ [Next]_vars => ListInv'
  <1> SUFFICES ASSUME ListInv, [Next]_vars PROVE ListInv'
    OBVIOUS
  <1>1. ASSUME NEW p \in Pointers, Write(p) PROVE ListInv'
    <2>1. /\ p \notin live /\ p \notin Held
          /\ live' = live \cup {p} /\ panicked' = panicked
          /\ Appends(p) \/ \E i \in VacantNodes : Reuses(p, i)
      BY <1>1, WriteIs
    <2>2. CASE Appends(p)
      BY <2>1, <2>2, AppendKeeps
    <2>3. CASE \E i \in VacantNodes : Reuses(p, i)
      BY <2>1, <2>3, ReuseKeeps
    <2>4. QED
      BY <2>1, <2>2, <2>3
  <1>2. ASSUME NEW p \in Pointers, Remove(p) PROVE ListInv'
    <2>1. /\ live' = live \ {p} /\ panicked' = panicked
          /\ \/ list' = list /\ key' = key
             \/ \E j \in Indexes : Takes(p, j)
      BY <1>2, RemoveIs
    <2>2. CASE list' = list /\ key' = key
      <3>1. live' \subseteq live /\ panicked' \in BOOLEAN
        BY <2>1 DEF ListInv, Unlinked
      <3>2. QED
        BY <2>2, <3>1, LetGoKeeps
    <2>3. CASE \E j \in Indexes : Takes(p, j)
      BY <2>1, <2>3, TakeKeeps
    <2>4. QED
      BY <2>1, <2>2, <2>3
  <1>3. ASSUME NEW p \in Pointers, Read(p) PROVE ListInv'
    BY <1>3, ReadIs, LetGoKeeps
  <1>4. CASE UNCHANGED vars
    <2>1. list' = list /\ key' = key /\ live' \subseteq live /\ panicked' \in BOOLEAN
      BY <1>4 DEF vars, ListInv, Unlinked
    <2>2. QED
      BY <2>1, LetGoKeeps
  <1>5. QED
    BY <1>1, <1>2, <1>3, <1>4 DEF Next

LEMMA ListInvHolds == Spec => []ListInv
  BY ListInvInit, ListInvNext, PTL DEF Spec

-----------------------------------------------------------------------------
\* The list keeps its shape, never has more nodes than there are pointers, and no
\* generation wraps.
THEOREM ListTypeCorrect == Spec => []TypeOK
  <1> DEFINE C == Cardinality(Pointers)
             KeyOrNone == [index : 1..C, gen : 1..MaxGeneration] \cup {None}
             Links == (1..C) \cup {None}
             Nodes == [full : BOOLEAN, value : Pointers \cup {None}, prev : Links,
                       next : Links, free : KeyOrNone, gen : 1..MaxGeneration]
  <1>1. ListInv => TypeOK
    <2> SUFFICES ASSUME ListInv PROVE TypeOK
      OBVIOUS
    <2>1. C \in Nat /\ Indexes = 1..Len(list.nodes) /\ Len(list.nodes) <= C
          /\ Len(list.nodes) \in Nat
      BY PointersAssumption, FS_CardinalityType, NodesTyped, NodeFacts DEF ListInv
    <2>2. Indexes \subseteq 1..C
      BY <2>1
    <2> HIDE DEF C
    <2>3. \A k \in KeySet : k # None /\ k.index \in Indexes => k \in KeyOrNone
      BY <2>2, GenerationAssumption DEF KeySet
    <2>4. \A x \in FreeKeys : FreeKey(x).index \in Indexes
      BY SoundIsHeld DEF ListInv, FreeListHeld, VacantNodes
    <2>5. list.free \in KeyOrNone
      BY <2>3, <2>4, NodesTyped DEF ListInv, FreeKeys, FreeKey
    <2>6. \A i \in Indexes : list.nodes[i].free \in KeyOrNone
      <3> SUFFICES ASSUME NEW i \in Indexes, list.nodes[i].free # None
                   PROVE  list.nodes[i].free \in KeyOrNone
        OBVIOUS
      <3>1. i \in VacantNodes /\ i # 0
        BY <2>1, NodeFacts DEF VacantNodes
      <3>2. FreeKey(i) = list.nodes[i].free /\ i \in FreeKeys
        BY <3>1 DEF FreeKeys, FreeKey
      <3>3. list.nodes[i].free \in KeySet
        BY NodesTyped DEF ListInv, NodeSet
      <3>4. QED
        BY <2>3, <2>4, <3>2, <3>3
    <2>7. \A i \in Indexes : list.nodes[i] \in Nodes
      <3> SUFFICES ASSUME NEW i \in Indexes PROVE list.nodes[i] \in Nodes
        OBVIOUS
      <3>1. list.nodes[i] \in NodeSet /\ list.nodes[i].free \in KeyOrNone
        BY <2>6, NodesTyped DEF ListInv
      <3> HIDE DEF KeyOrNone
      <3>2. QED
        BY <3>1, GenerationAssumption DEF NodeSet
    <2> HIDE DEF Nodes
    <2>8. list.nodes \in Seq(Nodes)
      BY <2>1, <2>7, NodesTyped DEF ListInv
    <2>9. list \in [nodes : Seq(Nodes), len : Nat, head : Links, tail : Links,
                    free : KeyOrNone]
      <3>1. list = [nodes |-> list.nodes, len |-> 0, head |-> None, tail |-> None,
                    free |-> list.free]
        BY NodesTyped DEF ListInv
      <3> HIDE DEF KeyOrNone
      <3>2. QED
        BY <2>5, <2>8, <3>1
    <2>10. key \in [Pointers -> KeyOrNone]
      <3>1. \A q \in Pointers : key[q] \in KeyOrNone
        BY <2>3, NodeFacts
      <3> HIDE DEF KeyOrNone
      <3>2. QED
        BY <3>1, NodeFacts
    <2>11. QED
      BY <2>9, <2>10, NodeFacts DEF TypeOK, C, Nodes
  <1>2. QED
    BY <1>1, ListInvHolds, PTL

\* Neither the assert_eq! on a reused node's generation nor the unreachable! of
\* push_tail_with_key can be reached, and no vacant node is lost.
THEOREM FreeListIsSound == Spec => []FreeListSound
  <1>1. ListInv => FreeListSound
    BY DEF ListInv
  <1>2. QED
    BY <1>1, ListInvHolds, PTL

\* What is removed through the Key of a pointer is never another pointer.
THEOREM KeysNameTheirOwn == Spec => []KeyNamesItsOwn
  <1>1. ListInv => KeyNamesItsOwn
    BY DEF ListInv
  <1>2. QED
    BY <1>1, ListInvHolds, PTL

\* Every pointer of the cache has one node, and only one.
THEOREM LiveHaveOneNode == Spec => []LiveHaveANode
  <1>1. ListInv => LiveHaveANode
    <2> SUFFICES ASSUME ListInv, NEW p \in live
                 PROVE  Cardinality({i \in Indexes : list.nodes[i].value = p}) = 1
      BY DEF LiveHaveANode
    <2>1. PICK i \in Indexes : list.nodes[i].value = p
      BY NodeFacts
    <2>2. list.nodes[i].full
      BY <2>1, NodeFacts
    <2>3. {j \in Indexes : list.nodes[j].value = p} = {i}
      BY <2>1, <2>2, NodeFacts
    <2>4. QED
      BY <2>3, FS_Singleton
  <1>2. QED
    BY <1>1, ListInvHolds, PTL

\* Neither list layer ever evicts, whatever its capacity: len is never counted, so
\* no list is full, and a pointer goes only when the cache itself removes it.
THEOREM ListsNeverEvict ==
    Spec => [][\A p \in live : p \in live' \/ Remove(p)]_vars
  <1>1. ASSUME ListInv, [Next]_vars
        PROVE  [\A p \in live : p \in live' \/ Remove(p)]_vars
    <2> SUFFICES ASSUME Next, NEW p \in live, p \notin live' PROVE Remove(p)
      BY <1>1 DEF vars
    <2>1. PICK q \in Pointers : Write(q) \/ Remove(q) \/ Read(q)
      BY DEF Next
    <2>2. ~Write(q) /\ ~Read(q)
      BY <1>1, WriteIs, ReadIs
    <2>3. live' = live \ {q}
      BY <2>1, <2>2 DEF Remove
    <2>4. QED
      BY <2>1, <2>2, <2>3
  <1>2. QED
    BY <1>1, ListInvHolds, PTL DEF Spec
=============================================================================
