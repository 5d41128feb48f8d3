--------------------------------- MODULE Bag ---------------------------------
(***************************************************************************)
(* The bag behind the randomized eviction layers (evict/bag.rs) under      *)
(* EvictRandom's shard (evict/random.rs).  The bag is an unordered vector  *)
(* of pointers; every pointer carries, in its own layer value, an atomic   *)
(* Key: its index in that vector.  Removal swaps the last element into the *)
(* hole and has to correct the Key of the element it moved, which lives in *)
(* the shared Arc of that other entry.                                     *)
(*                                                                         *)
(* Indexes count from 1 here and from 0 in the code.  A pointer that was   *)
(* never written has index 0; one that left the bag keeps the Key it had,  *)
(* as the Arc does while a caller still holds it.                          *)
(***************************************************************************)
EXTENDS Naturals, Sequences, FiniteSets

CONSTANTS Pointers, Capacity

\* EvictRandom::new_shard asserts capacity > 0.
ASSUME CapacityAssumption == Capacity \in Nat \ {0}

VARIABLES values,   \* Bag::values
          index     \* the Key inside each pointer's layer value

vars == <<values, index>>

Members == {values[i] : i \in 1..Len(values)}

Init ==
    /\ values = <<>>
    /\ index = [p \in Pointers |-> 0]

-----------------------------------------------------------------------------
\* Vec::swap_remove
SwapRemove(s, i) ==
    [j \in 1..(Len(s) - 1) |-> IF j = i THEN s[Len(s)] ELSE s[j]]

\* Mutation: do_remove does not tell the moved element its new index.
UncorrectedIndexes(s, i) == index

\* do_remove: the element moved into the hole, if any, learns its new index.
Reindexed(s, i) ==
    [p \in Pointers |-> IF i < Len(s) /\ p = s[Len(s)] THEN i ELSE index[p]]

\* insert_with_key: construct(Key(len)) builds the pointer around its index.
Push(s, ix, p) ==
    /\ values' = Append(s, p)
    /\ index' = [ix EXCEPT ![p] = Len(s) + 1]

\* Mutation: write never makes room.
WriteUnbounded(p) == p \notin Members /\ Push(values, index, p)

\* RandomShard::write when the bag has room.
WriteWithRoom(p) ==
    /\ p \notin Members
    /\ Len(values) # Capacity
    /\ Push(values, index, p)

\* A write to a full bag: the element at i is taken out first.
WriteEvicting(p, i) ==
    /\ p \notin Members
    /\ Len(values) = Capacity
    /\ Push(SwapRemove(values, i), Reindexed(values, i), p)

\* RandomShard::write when the bag is full: Bag::pop draws any index.
WriteFull(p) == \E i \in 1..Len(values) : WriteEvicting(p, i)

\* RandomShard::remove -> remove_by_value: trusts the Key inside the pointer.
\* The cache removes only pointers it has in its table, which the shard
\* model shows to be the members of the layer.
Remove(p) ==
    /\ p \in Members
    /\ values' = SwapRemove(values, index[p])
    /\ index' = Reindexed(values, index[p])

Next == \E p \in Pointers : WriteWithRoom(p) \/ WriteFull(p) \/ Remove(p)

Spec == Init /\ [][Next]_vars

-----------------------------------------------------------------------------
\* The bag holds pointers, never more than its capacity (so the vector is
\* never reallocated), and indexes are positions a vector of that length has.
TypeOK ==
    /\ values \in Seq(Pointers)
    /\ Len(values) <= Capacity
    /\ index \in [Pointers -> 0..Capacity]

\* The Key stored in every pointer of the bag is the place where the bag has
\* it, after any sequence of swap_removes: remove_by_value and get, which
\* index the vector with a stored Key, always hit their own entry.
KeysAreIndexes == \A i \in 1..Len(values) : index[values[i]] = i

\* The bag is an evicting layer: it gives up a pointer only to admit another
\* when it is full, and one at a time.
Layer == INSTANCE EvictingLayer WITH members <- Members
ImplementsLayer == Layer!Spec
=============================================================================
