-------------------------------- MODULE List ---------------------------------
(***************************************************************************)
(* The generational list (evict/list.rs) under the shards of               *)
(* EvictLeastRecentlyRead (evict/read.rs) and EvictLeastRecentlyWritten    *)
(* (evict/write.rs, which has no Read).  Nodes live in a vector; a removed  *)
(* node goes on a free list and its generation moves on, so that the Key a  *)
(* pointer carries in its layer value goes stale with the node it named.   *)
(*                                                                         *)
(* The operators are the code's, whatever head and tail are; in the code   *)
(* nothing ever sets them, nor len, from their initial None, None and 0.   *)
(* A panic leaves the list as it was and lets go of the shard's lock, which *)
(* is not poisoned: the shard goes on, and panicked remembers.             *)
(***************************************************************************)
EXTENDS Naturals, Sequences, FiniteSets

CONSTANTS Pointers, Capacity,
          MaxGeneration,   \* the generation after which they start over, 2^32 - 1
          None

\* List::with_capacity asserts capacity > 0.
ASSUME CapacityAssumption == Capacity \in Nat \ {0}
\* A u32 has room for more than the three generations a node lives through.
ASSUME GenerationAssumption == MaxGeneration \in Nat /\ MaxGeneration > 2
ASSUME PointersAssumption == IsFiniteSet(Pointers)
ASSUME NoneAssumption == None \notin Pointers \cup Nat \cup [index : Nat, gen : Nat]

VARIABLES list,      \* the List
          key,       \* the Key in each pointer's layer value
          live,      \* the written pointers the cache has not removed
          panicked   \* has an unwrap failed?

vars == <<list, key, live, panicked>>

Key(i, g) == [index |-> i, gen |-> g]

\* Generation::increment
Increment(g) == IF g = MaxGeneration THEN 1 ELSE g + 1

OccupiedNode(p, prev, next, g) ==
    [full |-> TRUE, value |-> p, prev |-> prev, next |-> next, free |-> None, gen |-> g]

VacantNode(free, g) ==
    [full |-> FALSE, value |-> None, prev |-> None, next |-> None, free |-> free, gen |-> g]

\* Mutation: the generation is not compared.
InRange(l, k) == k.index \in DOMAIN l.nodes

\* The Key still names the node it was made for.
Current(l, k) == k.index \in DOMAIN l.nodes /\ l.nodes[k.index].gen = k.gen

Init ==
    /\ list = [nodes |-> <<>>, len |-> 0, head |-> None, tail |-> None, free |-> None]
    /\ key = [p \in Pointers |-> None]
    /\ live = {}
    /\ panicked = FALSE

-----------------------------------------------------------------------------
PruneLink(l, prev, next) ==
    [l EXCEPT
        !.nodes = [i \in DOMAIN l.nodes |->
                      [l.nodes[i] EXCEPT !.prev = IF i = next THEN prev ELSE @,
                                         !.next = IF i = prev THEN next ELSE @]],
        !.head = IF next = None THEN prev ELSE @,
        !.tail = IF prev = None THEN next ELSE @]

\* Mutation: the free Key is made before the generation moves on.
TakenEarly(l, k) ==
    LET node == l.nodes[k.index]
    IN  IF ~Current(l, k) THEN l
        ELSE PruneLink([l EXCEPT !.nodes[k.index] = VacantNode(l.free, Increment(node.gen)),
                                 !.free = Key(k.index, node.gen)],
                       node.prev, node.next)

\* List::remove
Taken(l, k) ==
    LET node == l.nodes[k.index]
        gen  == Increment(node.gen)
    IN  IF ~Current(l, k) THEN l
        ELSE PruneLink([l EXCEPT !.nodes[k.index] = VacantNode(l.free, gen),
                                 !.free = Key(k.index, gen)],
                       node.prev, node.next)

\* List::pop_head, and the pointer it returns.
Popped(l) == IF l.head = None THEN l ELSE Taken(l, Key(l.head, l.nodes[l.head].gen))
Head1(l) == IF l.head = None THEN {} ELSE {l.nodes[l.head].value}

\* Mutation: the index of the last node instead of the new one.
PushKeyOfLast(l) == IF l.free = None THEN Key(Len(l.nodes), 1) ELSE l.free

\* push_tail_with_key: the Key given to the new pointer, and the list after.  A
\* node taken from the free list gets a new generation, its Key the old one.
PushKey(l) == IF l.free = None THEN Key(Len(l.nodes) + 1, 1) ELSE l.free

\* Mutation: the free list does not advance.
PushedFreeKept(l, p) ==
    IF l.free = None
    THEN [l EXCEPT !.nodes = Append(@, OccupiedNode(p, None, l.tail, 1))]
    ELSE LET i == l.free.index
         IN  [l EXCEPT
                 !.nodes[i] = OccupiedNode(p, None, l.tail, Increment(l.nodes[i].gen))]

Pushed(l, p) ==
    IF l.free = None
    THEN [l EXCEPT !.nodes = Append(@, OccupiedNode(p, None, l.tail, 1))]
    ELSE LET i == l.free.index
         IN  [l EXCEPT
                 !.free = l.nodes[i].free,
                 !.nodes[i] = OccupiedNode(p, None, l.tail, Increment(l.nodes[i].gen))]

\* move_to_tail of a node that is not the tail.
MovedToTail(l, i) ==
    LET node == l.nodes[i]
        cut  == [l EXCEPT !.nodes[i].prev = None, !.nodes[i].next = l.tail]
    IN  [PruneLink(cut, node.prev, node.next) EXCEPT !.nodes[l.tail].prev = i]

-----------------------------------------------------------------------------
\* Shard::write.  Vec::capacity is at least what was asked for.
Held == {list.nodes[i].value : i \in DOMAIN list.nodes}

Write(p) ==
    /\ p \notin live \cup Held
    /\ LET full   == list.len = Capacity
           popped == IF full THEN Popped(list) ELSE list
       IN  /\ live' = (live \ (IF full THEN Head1(list) ELSE {})) \cup {p}
           /\ key' = [key EXCEPT ![p] = PushKey(popped)]
           /\ list' = Pushed(popped, p)
    /\ UNCHANGED panicked

\* Shard::remove
Remove(p) ==
    /\ p \in live
    /\ live' = live \ {p}
    /\ list' = Taken(list, key[p])
    /\ UNCHANGED <<key, panicked>>

\* Shard::read_mut of the least recently read layer: move_to_tail.
Read(p) ==
    /\ p \in live
    /\ LET i == key[p].index
       IN  IF ~Current(list, key[p]) \/ list.tail = i THEN UNCHANGED <<list, panicked>>
           ELSE IF list.tail = None THEN panicked' = TRUE /\ UNCHANGED list
           ELSE list' = MovedToTail(list, i) /\ UNCHANGED panicked
    /\ UNCHANGED <<key, live>>

Next == \E p \in Pointers : Write(p) \/ Remove(p) \/ Read(p)

Spec == Init /\ [][Next]_vars

-----------------------------------------------------------------------------
Indexes == DOMAIN list.nodes
VacantNodes == {i \in Indexes : ~list.nodes[i].full}

\* Who refers to a free node: the list itself (0) or a vacant node.
FreeKey(i) == IF i = 0 THEN list.free ELSE list.nodes[i].free
FreeKeys == {i \in VacantNodes \cup {0} : FreeKey(i) # None}

TypeOK ==
    LET KeyOrNone == [index : 1..Cardinality(Pointers), gen : 1..MaxGeneration] \cup {None}
        Links == (1..Cardinality(Pointers)) \cup {None}
        Nodes == [full : BOOLEAN, value : Pointers \cup {None}, prev : Links,
                  next : Links, free : KeyOrNone, gen : 1..MaxGeneration]
    IN  /\ list \in [nodes : Seq(Nodes), len : Nat, head : Links, tail : Links,
                     free : KeyOrNone]
        /\ key \in [Pointers -> KeyOrNone]
        /\ live \subseteq Pointers
        /\ panicked \in BOOLEAN

\* The free list names every vacant node once, by the generation the node has:
\* neither assert_eq!(key.gen, node.gen) nor the unreachable! of
\* push_tail_with_key can be reached, and no vacant node is lost.
FreeListSound ==
    /\ \A i \in FreeKeys :
          /\ FreeKey(i).index \in VacantNodes
          /\ Current(list, FreeKey(i))
    /\ \A i, j \in FreeKeys : FreeKey(i).index = FreeKey(j).index => i = j
    /\ Cardinality(FreeKeys) = Cardinality(VacantNodes)

\* A Key opens the node of its own pointer or none: what is removed, or moved,
\* through the Key of a pointer that may have left long ago is never another
\* pointer, however often its node was used again.
KeyNamesItsOwn ==
    \A p \in Pointers :
        key[p] # None /\ Current(list, key[p])
            => list.nodes[key[p].index].full /\ list.nodes[key[p].index].value = p

\* Every pointer of the cache has one node, and only one.
LiveHaveANode ==
    \A p \in live : Cardinality({i \in Indexes : list.nodes[i].value = p}) = 1

\* A pointer is read only after it was pushed, so the list has a tail:
\* move_to_tail says so with self.tail.unwrap() (list.rs:171).
TailIsThere == ~panicked
=============================================================================
