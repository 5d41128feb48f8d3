---------------------------- MODULE AndThenProofs ----------------------------
(***************************************************************************)
(* Two evicting layers, one after the other, are an evicting layer: for    *)
(* all capacities and any finite set of pointers.                          *)
(***************************************************************************)
EXTENDS AndThen, FiniteSetTheorems, TLAPS

\* That the table is within the smaller capacity is what keeps the second
\* eviction from happening after the first.
Inv == SameMembers /\ Cardinality(table) <= SmallerCapacity

LEMMA SmallerIsOne ==
    /\ SmallerCapacity \in Nat \ {0}
    /\ SmallerCapacity <= CapacityA /\ SmallerCapacity <= CapacityB
    /\ SmallerCapacity = CapacityA \/ SmallerCapacity = CapacityB
BY CapacityAssumption DEF SmallerCapacity

LEMMA Finite ==
    ASSUME NEW S \in SUBSET Pointers
    PROVE  /\ IsFiniteSet(S) /\ Cardinality(S) \in Nat
           /\ \A p \in S : Cardinality(S \ {p}) = Cardinality(S) - 1
           /\ \A p \in Pointers \ S : Cardinality(S \cup {p}) = Cardinality(S) + 1
<1>1. IsFiniteSet(S)
    BY FS_Subset, PointersAssumption
<1> QED BY <1>1, FS_CardinalityType, FS_AddElement, FS_RemoveElement

\* A write as the contract has it: the table loses nothing below the smaller
\* capacity and one pointer at it, and the layers lose the same.
LEMMA WriteShape ==
    ASSUME Inv, NEW p \in Pointers, Write(p)
    PROVE  /\ SameMembers'
           /\ \/ Cardinality(table) # SmallerCapacity /\ table' = table \cup {p}
              \/ /\ Cardinality(table) = SmallerCapacity
                 /\ \E v \in table : table' = (table \ {v}) \cup {p}
<1>1. /\ table \in SUBSET Pointers /\ a = table /\ b = table /\ p \notin table
      /\ Cardinality(table) <= SmallerCapacity
    BY DEF Inv, SameMembers, Write
<1>2. PICK outB \in Victims(table, CapacityB) :
          \E outA \in Victims(table \ outB, CapacityA) :
             /\ table' = ((table \ outB) \ outA) \cup {p}
             /\ a' = ((table \ outB) \ outA) \cup {p}
             /\ b' = ((table \ outB) \cup {p}) \ outA
    BY <1>1 DEF Write
<1>3. PICK outA \in Victims(table \ outB, CapacityA) :
          /\ table' = ((table \ outB) \ outA) \cup {p}
          /\ a' = ((table \ outB) \ outA) \cup {p}
          /\ b' = ((table \ outB) \cup {p}) \ outA
    BY <1>2
<1>4. Cardinality(table) \in Nat
      /\ \A v \in table : Cardinality(table \ {v}) = Cardinality(table) - 1
    BY <1>1, Finite
<1>5. outB \subseteq table /\ outA \subseteq table
    BY <1>3 DEF Victims
<1>6. SameMembers'
    BY <1>1, <1>3, <1>5 DEF SameMembers
<1>7. CASE Cardinality(table) = CapacityB
    <2>1. PICK v \in table : outB = {v}
        BY <1>3, <1>7 DEF Victims
    <2>2. Cardinality(table \ outB) # CapacityA
        BY <1>1, <1>4, <1>7, <2>1, SmallerIsOne, CapacityAssumption
    <2>3. outA = {}
        BY <1>3, <2>2 DEF Victims
    <2>4. table' = (table \ {v}) \cup {p}
        BY <1>3, <2>1, <2>3
    <2>5. Cardinality(table) = SmallerCapacity
        BY <1>1, <1>4, <1>7, SmallerIsOne, CapacityAssumption
    <2> QED BY <1>6, <2>4, <2>5
<1>8. CASE Cardinality(table) # CapacityB
    <2>1. outB = {} /\ table \ outB = table
        BY <1>3, <1>8 DEF Victims
    <2>2. CASE Cardinality(table) = CapacityA
        <3>1. PICK v \in table : outA = {v}
            BY <1>3, <2>1, <2>2 DEF Victims
        <3>2. table' = (table \ {v}) \cup {p}
            BY <1>3, <2>1, <3>1
        <3>3. Cardinality(table) = SmallerCapacity
            BY <1>1, <1>4, <1>8, <2>2, SmallerIsOne, CapacityAssumption
        <3> QED BY <1>6, <3>2, <3>3
    <2>3. CASE Cardinality(table) # CapacityA
        <3>1. outA = {}
            BY <1>3, <2>1, <2>3 DEF Victims
        <3>2. table' = table \cup {p}
            BY <1>3, <2>1, <3>1
        <3>3. Cardinality(table) # SmallerCapacity
            BY <1>8, <2>3, SmallerIsOne
        <3> QED BY <1>6, <3>2, <3>3
    <2> QED BY <2>2, <2>3
<1> QED BY <1>7, <1>8

LEMMA Inductive == Init /\ [][Next]_vars => []Inv
<1>1. Init => Inv
    BY FS_EmptySet, SmallerIsOne DEF Init, Inv, SameMembers
<1>2. Inv /\ [Next]_vars => Inv'
    <2> SUFFICES ASSUME Inv, [Next]_vars PROVE Inv'
        OBVIOUS
    <2>1. table \in SUBSET Pointers /\ Cardinality(table) \in Nat
        BY Finite DEF Inv, SameMembers
    <2>2. ASSUME NEW p \in Pointers, Write(p) PROVE Inv'
        <3>1. CASE Cardinality(table) # SmallerCapacity /\ table' = table \cup {p}
            <4>1. Cardinality(table') = Cardinality(table) + 1
                BY <2>1, <2>2, <3>1, Finite DEF Write
            <4>2. Cardinality(table') <= SmallerCapacity
                BY <2>1, <3>1, <4>1, SmallerIsOne DEF Inv
            <4> QED BY <2>2, <4>2, WriteShape DEF Inv, SmallerCapacity
        <3>2. ASSUME NEW v \in table, table' = (table \ {v}) \cup {p} PROVE Inv'
            <4>1. table \ {v} \in SUBSET Pointers /\ p \in Pointers \ (table \ {v})
                BY <2>1, <2>2 DEF Write
            <4>2. Cardinality(table') = Cardinality(table \ {v}) + 1
                BY <3>2, <4>1, Finite
            <4>3. Cardinality(table \ {v}) = Cardinality(table) - 1
                BY <2>1, <3>2, Finite
            <4>4. Cardinality(table') <= SmallerCapacity
                BY <2>1, <4>2, <4>3, SmallerIsOne DEF Inv
            <4> QED BY <2>2, <4>4, WriteShape DEF Inv, SmallerCapacity
        <3> QED BY <2>2, <3>1, <3>2, WriteShape
    <2>3. ASSUME NEW p \in Pointers, Remove(p) PROVE Inv'
        <3>1. p \in table /\ table' = table \ {p}
            BY <2>3 DEF Remove
        <3>2. Cardinality(table') = Cardinality(table) - 1
            BY <2>1, <3>1, Finite
        <3>3. Cardinality(table') <= SmallerCapacity
            BY <2>1, <3>2, SmallerIsOne DEF Inv
        <3> QED BY <2>3, <3>1, <3>3 DEF Inv, SameMembers, Remove, SmallerCapacity
    <2>4. CASE UNCHANGED vars
        BY <2>4 DEF vars, Inv, SameMembers, SmallerCapacity
    <2> QED BY <2>2, <2>3, <2>4 DEF Next
<1> QED BY <1>1, <1>2, PTL

\* The two layers and the table never disagree on what is in the cache.
THEOREM MembersAgree == Spec => []SameMembers
<1>1. Inv => SameMembers
    BY DEF Inv
<1> QED BY <1>1, Inductive, PTL DEF Spec

\* The instance counts as the module does.
LEMMA LayerCardinality == ASSUME NEW S PROVE Layer!Cardinality(S) = Cardinality(S)
BY DEF Layer!Cardinality, Cardinality

\* AndThen keeps the contract its two layers keep, with the smaller of the two
\* capacities.
THEOREM AndThenImplementsLayer == Spec => ImplementsLayer
<1>1. Init => Layer!Init
    BY DEF Init, Layer!Init
<1>2. Inv /\ [Next]_vars => [Layer!Next]_table
    <2> SUFFICES ASSUME Inv, [Next]_vars PROVE [Layer!Next]_table
        OBVIOUS
    <2>1. ASSUME NEW p \in Pointers, Write(p) PROVE Layer!Next
        <3>1. p \notin table
            BY <2>1 DEF Write
        <3>2. Layer!Write(p)
            BY <2>1, <3>1, WriteShape, LayerCardinality DEF Layer!Write
        <3> QED BY <3>2 DEF Layer!Next
    <2>2. ASSUME NEW p \in Pointers, Remove(p) PROVE Layer!Next
        BY <2>2 DEF Remove, Layer!Remove, Layer!Next
    <2> QED BY <2>1, <2>2 DEF Next, vars
<1> QED BY <1>1, <1>2, Inductive, PTL DEF Spec, ImplementsLayer, Layer!Spec
=============================================================================
