------------------------------- MODULE AndThen -------------------------------
(***************************************************************************)
(* Two layers in one (AndThenShard, layer.rs) and the table they serve.    *)
(* A write enters the second layer, b, which calls back into the first, a,  *)
(* which calls back into the cache; each of them may evict on the way, from *)
(* what it believes is in the table.  What b evicts is taken out of a and   *)
(* the table at once; what a evicts is taken out of the table at once, but  *)
(* b, in the middle of its own write, learns of it only at the end.        *)
(*                                                                         *)
(* Each layer keeps the contract of EvictingLayer with a capacity of its   *)
(* own (LayerCapacityFraction); one that never evicts, such as an expiry    *)
(* layer, has a capacity it never reaches.                                  *)
(***************************************************************************)
EXTENDS Naturals, FiniteSets

CONSTANTS Pointers, CapacityA, CapacityB

ASSUME PointersAssumption == IsFiniteSet(Pointers)
ASSUME CapacityAssumption == CapacityA \in Nat \ {0} /\ CapacityB \in Nat \ {0}

VARIABLES a, b,   \* the pointers each layer knows
          table   \* the pointers in the cache

vars == <<a, b, table>>

Init == a = {} /\ b = {} /\ table = {}

\* What a layer may give up before it admits one more pointer.
Victims(members, capacity) ==
    IF Cardinality(members) = capacity THEN {{v} : v \in members} ELSE {{}}

\* Mutation: what a evicts is never taken out of b.
WriteForgetful(p) ==
    /\ p \notin table
    /\ \E outB \in Victims(b, CapacityB) :
       \E outA \in Victims(a \ outB, CapacityA) :
          /\ table' = ((table \ outB) \ outA) \cup {p}
          /\ a' = ((a \ outB) \ outA) \cup {p}
          /\ b' = (b \ outB) \cup {p}

\* Mutation: WriteB::remove tells the cache and passes a by.
WriteBypassing(p) ==
    /\ p \notin table
    /\ \E outB \in Victims(b, CapacityB) :
       \E outA \in Victims(a, CapacityA) :
          /\ table' = ((table \ outB) \ outA) \cup {p}
          /\ a' = (a \ outA) \cup {p}
          /\ b' = ((b \ outB) \cup {p}) \ outA

\* AndThenShard::write.  The calls nest: b.write, WriteB::remove(outB),
\* WriteB::write, a.write, WriteA::remove(outA), the cache's own write; the
\* pointer then goes into table, a and b, and outA at last out of b.
Write(p) ==
    /\ p \notin table
    /\ \E outB \in Victims(b, CapacityB) :
       \E outA \in Victims(a \ outB, CapacityA) :
          /\ table' = ((table \ outB) \ outA) \cup {p}
          /\ a' = ((a \ outB) \ outA) \cup {p}
          /\ b' = ((b \ outB) \cup {p}) \ outA

\* AndThenShard::remove, of a pointer the cache takes out of its table.
Remove(p) ==
    /\ p \in table
    /\ table' = table \ {p}
    /\ a' = a \ {p}
    /\ b' = b \ {p}

Next == \E p \in Pointers : Write(p) \/ Remove(p)

Spec == Init /\ [][Next]_vars

-----------------------------------------------------------------------------
\* Both layers know exactly what is in the table, whichever of them evicted:
\* neither ever evicts, or is asked to remove, a pointer that is not there.
SameMembers == table \subseteq Pointers /\ a = table /\ b = table

\* Together they are one evicting layer with the smaller capacity: a write
\* never costs two pointers, though each of the layers may evict one.
SmallerCapacity == IF CapacityA < CapacityB THEN CapacityA ELSE CapacityB

Layer == INSTANCE EvictingLayer WITH members <- table, Capacity <- SmallerCapacity
ImplementsLayer == Layer!Spec
=============================================================================
