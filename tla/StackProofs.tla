----------------------------- MODULE StackProofs -----------------------------
(***************************************************************************)
(* Proofs about MultiLayer and the stack AndThen(MultiLayer(l0, l1), l2),  *)
(* for any pointers, capacities and leaves.                                *)
(*                                                                         *)
(* MultiLayer: the variant of a pointer changes only while the pointer is  *)
(* in neither layer, so removing by variant always finds it.  Every step   *)
(* of the stack is a step of MultiLayer or leaves it alone.  For the stack *)
(* the invariant adds what holds in the middle of a write: the outer layer, *)
(* if it evicts, has room for one more and the pointer in hand is nowhere  *)
(* yet, so that the inner eviction, told afterwards, leaves all three in   *)
(* agreement.                                                              *)
(***************************************************************************)
EXTENDS Stack, FiniteSetTheorems, TLAPS

-----------------------------------------------------------------------------
(* MultiLayer.                                                             *)

LEMMA VictimsAreMembers ==
    ASSUME NEW i \in {0, 1}, NEW out \in Victims(i)
    PROVE  /\ out \subseteq s[i]
           /\ \/ out = {} /\ ~(evicts[i] /\ Cardinality(s[i]) = Capacity)
              \/ \E v \in s[i] : out = {v} /\ evicts[i] /\ Cardinality(s[i]) = Capacity
  BY DEF Victims

LEMMA WriteShares ==
    ASSUME SharedOut, NEW p \in Pointers, NEW i \in {0, 1}, Write(p, i)
    PROVE  /\ SharedOut'
           /\ p \notin s[i] /\ s'[1 - i] = s[1 - i] /\ evicts' = evicts
           /\ \E out \in Victims(i) :
                 /\ s'[i] = (s[i] \ out) \cup {p}
                 /\ table' = (table \ out) \cup {p} /\ out \subseteq table
  <1>1. PICK out \in Victims(i) : /\ s' = [s EXCEPT ![i] = (s[i] \ out) \cup {p}]
                                     /\ table' = (table \ out) \cup {p}
    BY DEF Write
  <1>2. /\ p \notin table /\ variant' = [variant EXCEPT ![p] = i]
        /\ table \subseteq Pointers /\ variant \in [Pointers -> {0, 1}]
        /\ s = [j \in {0, 1} |-> {q \in table : variant[q] = j}]
    BY DEF Write, SharedOut
  <1>3. out \subseteq s[i] /\ s[i] = {q \in table : variant[q] = i}
    BY <1>2, VictimsAreMembers
  <1>4. /\ s'[i] = (s[i] \ out) \cup {p} /\ 1 - i \in {0, 1} /\ 1 - i # i
        /\ s'[1 - i] = s[1 - i]
    <2>1. 1 - i \in {0, 1} /\ 1 - i # i
      OBVIOUS
    <2>2. \A j \in {0, 1} : s'[j] = IF j = i THEN (s[i] \ out) \cup {p} ELSE s[j]
      BY <1>1, <1>2
    <2>3. QED
      BY <2>1, <2>2
  <1>5. variant' \in [Pointers -> {0, 1}] /\ table' \subseteq Pointers
    BY <1>1, <1>2
  <1>6. ASSUME NEW j \in {0, 1} PROVE s'[j] = {q \in table' : variant'[q] = j}
    <2>1. CASE j = i
      BY <1>1, <1>2, <1>3, <1>4, <2>1
    <2>2. CASE j # i
      BY <1>1, <1>2, <1>3, <2>2
    <2>3. QED
      BY <2>1, <2>2
  <1>7. s' = [j \in {0, 1} |-> {q \in table' : variant'[q] = j}]
    BY <1>1, <1>2, <1>6
  <1>8. evicts' = evicts
    BY DEF Write
  <1>9. QED
    BY <1>1, <1>2, <1>3, <1>4, <1>5, <1>7, <1>8 DEF SharedOut

LEMMA RemoveShares ==
    ASSUME SharedOut, NEW p \in Pointers, Remove(p)
    PROVE  /\ SharedOut'
           /\ p \in s[variant[p]] /\ variant[p] \in {0, 1} /\ evicts' = evicts
           /\ s'[variant[p]] = s[variant[p]] \ {p}
           /\ s'[1 - variant[p]] = s[1 - variant[p]]
           /\ \A j \in {0, 1} : s'[j] = s[j] \ {p}
  <1>1. /\ p \in table /\ table' = table \ {p} /\ variant' = variant /\ evicts' = evicts
        /\ s' = [s EXCEPT ![variant[p]] = s[variant[p]] \ {p}]
        /\ table \subseteq Pointers /\ variant \in [Pointers -> {0, 1}]
        /\ s = [j \in {0, 1} |-> {q \in table : variant[q] = j}]
    BY DEF Remove, SharedOut
  <1>2. variant[p] \in {0, 1} /\ p \in s[variant[p]]
    BY <1>1
  <1>3. ASSUME NEW j \in {0, 1}
        PROVE  s'[j] = {q \in table' : variant'[q] = j} /\ s'[j] = s[j] \ {p}
    <2>1. CASE j = variant[p]
      BY <1>1, <2>1
    <2>2. CASE j # variant[p]
      BY <1>1, <2>2
    <2>3. QED
      BY <2>1, <2>2
  <1>4. s' = [j \in {0, 1} |-> {q \in table' : variant'[q] = j}]
    BY <1>1, <1>3
  <1>5. 1 - variant[p] \in {0, 1} /\ 1 - variant[p] # variant[p]
    BY <1>2
  <1>6. QED
    BY <1>1, <1>2, <1>3, <1>4, <1>5 DEF SharedOut

LEMMA MultiShares == Spec => []SharedOut
  <1>1. Init => SharedOut
    BY DEF Init, SharedOut
  <1>2. SharedOut /\ [Next]_vars => SharedOut'
    <2>1. SharedOut /\ UNCHANGED vars => SharedOut'
      BY DEF vars, SharedOut
    <2>2. QED
      BY <2>1, WriteShares, RemoveShares DEF Next
  <1>3. QED
    BY <1>1, <1>2, PTL DEF Spec

\* The instances count as MultiLayer does.
LEMMA LayersCardinality ==
    ASSUME NEW S
    PROVE  /\ Layer0!Cardinality(S) = Cardinality(S)
           /\ Layer1!Cardinality(S) = Cardinality(S)
           /\ Roomy0!Cardinality(S) = Cardinality(S)
           /\ Roomy1!Cardinality(S) = Cardinality(S)
  BY DEF Layer0!Cardinality, Layer1!Cardinality, Roomy0!Cardinality, Roomy1!Cardinality,
         Cardinality

\* Sets of pointers are finite, and no layer knows more pointers than there are.
LEMMA PointersCount ==
    ASSUME NEW S \in SUBSET Pointers
    PROVE  /\ IsFiniteSet(S) /\ Cardinality(S) \in Nat /\ Cardinality(S) # Never
           /\ \A T \in SUBSET S : Cardinality(T) <= Cardinality(S)
           /\ \A p \in S : Cardinality(S \ {p}) = Cardinality(S) - 1
           /\ \A p : Cardinality(S \cup {p}) <= Cardinality(S) + 1
           /\ \A p \in Pointers : Cardinality(S \cup {p}) \in Nat
  <1>1. IsFiniteSet(S) /\ Cardinality(S) \in Nat
    BY FS_Subset, FS_CardinalityType, PointersAssumption
  <1>2. \A T \in SUBSET S : Cardinality(T) <= Cardinality(S)
    BY <1>1, FS_Subset
  <1>3. ASSUME NEW p
        PROVE  IsFiniteSet(S \cup {p}) /\ Cardinality(S \cup {p}) <= Cardinality(S) + 1
    <2>1. /\ IsFiniteSet(S \cup {p})
          /\ Cardinality(S \cup {p}) = IF p \in S THEN Cardinality(S) ELSE Cardinality(S) + 1
      BY <1>1, FS_AddElement
    <2>2. QED
      BY <1>1, <2>1
  <1>4. Cardinality(S) # Never
    <2>1. Cardinality(S) <= Cardinality(Pointers) /\ Cardinality(Pointers) \in Nat
      BY FS_Subset, FS_CardinalityType, PointersAssumption
    <2>2. QED
      BY <1>1, <2>1 DEF Never
  <1>5. QED
    BY <1>1, <1>2, <1>3, <1>4, FS_RemoveElement, FS_CardinalityType

\* A step of MultiLayer is a step of one layer and leaves the other alone.
LEMMA MultiStep ==
    ASSUME SharedOut, [Next]_vars
    PROVE  /\ [IF evicts[0] THEN Layer0!Next ELSE Roomy0!Next]_(s[0])
           /\ [IF evicts[1] THEN Layer1!Next ELSE Roomy1!Next]_(s[1])
  <1> DEFINE Steps == /\ [IF evicts[0] THEN Layer0!Next ELSE Roomy0!Next]_(s[0])
                      /\ [IF evicts[1] THEN Layer1!Next ELSE Roomy1!Next]_(s[1])
  <1>1. ASSUME NEW p \in Pointers, NEW i \in {0, 1}, Write(p, i)
        PROVE  Steps
    <2>1. PICK out \in Victims(i) : s'[i] = (s[i] \ out) \cup {p}
      BY <1>1, WriteShares
    <2>2. p \notin s[i] /\ s'[1 - i] = s[1 - i]
      BY <1>1, WriteShares
    <2>3. IF evicts[i] /\ Cardinality(s[i]) = Capacity
          THEN \E v \in s[i] : s'[i] = (s[i] \ {v}) \cup {p}
          ELSE s'[i] = s[i] \cup {p}
      BY <2>1, VictimsAreMembers
    <2>4. Cardinality(s[i]) # Never
      BY PointersCount DEF SharedOut
    <2>5. CASE i = 0
      BY <2>2, <2>3, <2>4, <2>5, LayersCardinality
         DEF Layer0!Next, Layer0!Write, Roomy0!Next, Roomy0!Write
    <2>6. CASE i = 1
      BY <2>2, <2>3, <2>4, <2>6, LayersCardinality
         DEF Layer1!Next, Layer1!Write, Roomy1!Next, Roomy1!Write
    <2>7. QED
      BY <2>5, <2>6
  <1>2. ASSUME NEW p \in Pointers, Remove(p)
        PROVE  Steps
    <2>1. CASE variant[p] = 0
      BY <1>2, <2>1, RemoveShares DEF Layer0!Next, Layer0!Remove, Roomy0!Next, Roomy0!Remove
    <2>2. CASE variant[p] = 1
      BY <1>2, <2>2, RemoveShares DEF Layer1!Next, Layer1!Remove, Roomy1!Next, Roomy1!Remove
    <2>3. QED
      BY <1>2, <2>1, <2>2, RemoveShares
  <1>3. QED
    BY <1>1, <1>2 DEF Next, vars

LEMMA MultiIsTwoLayers == Spec => EachIsALayer
  <1>1. Init => Layer0!Init /\ Layer1!Init
    BY DEF Init, Layer0!Init, Layer1!Init
  <1>2. SharedOut /\ [Next]_vars
            => /\ [IF evicts[0] THEN Layer0!Next ELSE Roomy0!Next]_(s[0])
               /\ [IF evicts[1] THEN Layer1!Next ELSE Roomy1!Next]_(s[1])
    BY MultiStep
  <1>3. QED
    BY <1>1, <1>2, MultiShares, PTL DEF Spec, EachIsALayer

\* A layer that evicts stays within its capacity.
SublayersKept == \A i \in {0, 1} : evicts[i] => Cardinality(s[i]) <= Capacity

LEMMA StepKeepsWithin ==
    ASSUME SharedOut, SublayersKept, [Next]_vars
    PROVE  SublayersKept'
  <1>1. \A i \in {0, 1} : s[i] \in SUBSET Pointers
    BY DEF SharedOut
  <1>2. ASSUME NEW p \in Pointers, NEW i \in {0, 1}, Write(p, i)
        PROVE  SublayersKept'
    <2>1. /\ s'[1 - i] = s[1 - i] /\ evicts' = evicts
          /\ \E out \in Victims(i) : s'[i] = (s[i] \ out) \cup {p}
      BY <1>2, WriteShares
    <2>2. PICK out \in Victims(i) : s'[i] = (s[i] \ out) \cup {p}
      BY <2>1
    <2>3. evicts[i] => Cardinality(s'[i]) <= Capacity
      <3>1. CASE out = {} /\ ~(evicts[i] /\ Cardinality(s[i]) = Capacity)
        <4>1. s'[i] = s[i] \cup {p} /\ s[i] \in SUBSET Pointers
          BY <1>1, <2>2, <3>1
        <4>2. /\ Cardinality(s[i] \cup {p}) <= Cardinality(s[i]) + 1
              /\ Cardinality(s[i]) \in Nat /\ Cardinality(s[i] \cup {p}) \in Nat
          BY <4>1, PointersCount
        <4>3. QED
          BY <3>1, <4>1, <4>2, CapacityAssumption DEF SublayersKept
      <3>2. CASE \E v \in s[i] : out = {v} /\ evicts[i] /\ Cardinality(s[i]) = Capacity
        <4>1. PICK v \in s[i] : out = {v} /\ Cardinality(s[i]) = Capacity
          BY <3>2
        <4>2. Cardinality(s[i] \ {v}) = Cardinality(s[i]) - 1 /\ s[i] \ {v} \in SUBSET Pointers
          BY <1>1, PointersCount
        <4>3. /\ Cardinality((s[i] \ {v}) \cup {p}) <= Cardinality(s[i] \ {v}) + 1
              /\ Cardinality((s[i] \ {v}) \cup {p}) \in Nat
          BY <4>2, PointersCount
        <4>4. QED
          BY <2>2, <4>1, <4>2, <4>3, CapacityAssumption
      <3>3. QED
        BY <3>1, <3>2, VictimsAreMembers
    <2>4. 1 - i \in {0, 1} /\ {0, 1} = {i, 1 - i}
      OBVIOUS
    <2>5. QED
      BY <2>1, <2>3, <2>4 DEF SublayersKept
  <1>3. ASSUME NEW p \in Pointers, Remove(p)
        PROVE  SublayersKept'
    <2> SUFFICES ASSUME NEW i \in {0, 1}, evicts[i] PROVE Cardinality(s'[i]) <= Capacity
      BY <1>3, RemoveShares DEF SublayersKept
    <2>1. s[i] \in SUBSET Pointers /\ s'[i] \in SUBSET s[i]
      BY <1>1, <1>3, RemoveShares
    <2>2. /\ Cardinality(s'[i]) <= Cardinality(s[i])
          /\ Cardinality(s[i]) \in Nat /\ Cardinality(s'[i]) \in Nat
      BY <2>1, PointersCount
    <2>3. QED
      BY <2>2, CapacityAssumption DEF SublayersKept
  <1>4. QED
    BY <1>2, <1>3 DEF Next, vars, SublayersKept

-----------------------------------------------------------------------------
(* The stack.                                                              *)

\* The outer layer, if it evicts, stays within its capacity.
OuterKept == kind[2] \in Evicting => Cardinality(outer) <= CapacityOuter

\* In the middle of a write an outer layer that evicts has room and nobody reads.
RoomMade ==
    /\ writing \in Pointers \cup {None}
    /\ writing # None =>
          /\ writing \notin table /\ last = NoRead
          /\ kind[2] \in Evicting => Cardinality(outer) < CapacityOuter

SIInv ==
    /\ SharedOut /\ OuterAgrees /\ OuterKept /\ SublayersKept /\ RoomMade
    /\ kind \in [{0, 1, 2} -> Kinds]
    /\ evicts = [i \in {0, 1} |-> kind[i] \in Evicting]
    /\ ExpiredNeverServed /\ ReadersAreTold

\* What is taken out is gone from the table and every layer.
LEMMA TakeOutStep ==
    ASSUME SharedOut, OuterAgrees, OuterKept, SublayersKept, kind' = kind,
           NEW p \in Pointers, TakeOut(p)
    PROVE  /\ SharedOut' /\ OuterAgrees' /\ OuterKept' /\ SublayersKept'
           /\ p \notin table' \cup outer' \cup s'[0] \cup s'[1]
           /\ table' = table \ {p} /\ variant' = variant /\ evicts' = evicts
           /\ Cardinality(outer') = Cardinality(outer) - 1
  <1>1. /\ SharedOut' /\ table' = table \ {p} /\ outer' = table' /\ p \in table
        /\ variant' = variant /\ evicts' = evicts
        /\ \A j \in {0, 1} : s'[j] = s[j] \ {p}
    BY RemoveShares DEF TakeOut, Remove, OuterAgrees
  <1>2. SublayersKept'
    BY StepKeepsWithin DEF TakeOut, Next
  <1>3. /\ Cardinality(outer') = Cardinality(outer) - 1
        /\ Cardinality(outer) \in Nat
    <2>1. outer \in SUBSET Pointers
      BY DEF SharedOut, OuterAgrees
    <2>2. QED
      BY <1>1, <2>1, PointersCount DEF OuterAgrees
  <1>4. OuterKept'
    BY <1>3, OuterAssumption DEF OuterKept
  <1>5. QED
    BY <1>1, <1>2, <1>3, <1>4 DEF OuterAgrees

LEMMA BeginWriteStep ==
    ASSUME SIInv, NEW p \in Pointers, BeginWrite(p)
    PROVE  SIInv'
  <1>1. /\ p \notin table /\ writing' = p /\ last' = NoRead /\ kind' = kind
    BY DEF BeginWrite
  <1>2. outer \in SUBSET Pointers /\ Cardinality(outer) \in Nat /\ CapacityOuter \in Nat
    BY PointersCount, OuterAssumption DEF SIInv, OuterAgrees, SharedOut
  <1>3. /\ SharedOut' /\ OuterAgrees' /\ OuterKept' /\ SublayersKept' /\ evicts' = evicts
        /\ table' \subseteq table
        /\ kind[2] \in Evicting => Cardinality(outer') < CapacityOuter
    <2>1. CASE OuterFull
      <3>1. PICK v \in outer : TakeOut(v)
        BY <2>1 DEF BeginWrite
      <3>2. QED
        BY <1>1, <1>2, <2>1, <3>1, TakeOutStep DEF SIInv, OuterFull
    <2>2. CASE ~OuterFull
      <3>1. UNCHANGED <<s, variant, table, evicts, outer>>
        BY <2>2 DEF BeginWrite
      <3>2. kind[2] \in Evicting => Cardinality(outer') < CapacityOuter
        BY <1>2, <2>2, <3>1 DEF SIInv, OuterKept, OuterFull
      <3>3. QED
        BY <1>1, <3>1, <3>2 DEF SIInv, OuterAgrees, OuterKept, SublayersKept, SharedOut
    <2>3. QED
      BY <2>1, <2>2
  <1>4. ExpiredNeverServed' /\ ReadersAreTold'
    BY <1>1 DEF ExpiredNeverServed, ReadersAreTold, NoRead
  <1>5. QED
    BY <1>1, <1>3, <1>4 DEF SIInv, RoomMade

\* The inner layer's victims are what the table lost, and the outer layer is
\* told of just those.
LEMMA EndWriteStep ==
    ASSUME SIInv, NEW i \in {0, 1}, EndWrite(i)
    PROVE  SIInv'
  <1>1. /\ writing \in Pointers /\ Write(writing, i) /\ writing \notin table
        /\ kind[2] \in Evicting => Cardinality(outer) < CapacityOuter
        /\ last = NoRead
        /\ writing' = None /\ kind' = kind /\ last' = last
        /\ outer = table /\ SharedOut
        /\ outer' = (outer \cup {writing}) \ (table \ table')
    BY DEF SIInv, RoomMade, EndWrite, OuterAgrees
  <1>2. SharedOut' /\ evicts' = evicts
    BY <1>1, WriteShares
  <1>3. SublayersKept'
    BY <1>1, StepKeepsWithin DEF SIInv, Next
  <1>4. PICK out \in SUBSET table : table' = (table \ out) \cup {writing}
    BY <1>1, WriteShares
  <1>5. outer' = table'
    BY <1>1, <1>4
  <1>6. OuterKept'
    <2>1. table \in SUBSET Pointers /\ table \cup {writing} \in SUBSET Pointers
      BY <1>1 DEF SharedOut
    <2>2. /\ outer' \in SUBSET Pointers
          /\ Cardinality(outer') <= Cardinality(table \cup {writing})
      BY <1>4, <1>5, <2>1, PointersCount
    <2>3. /\ Cardinality(table \cup {writing}) <= Cardinality(table) + 1
          /\ Cardinality(table \cup {writing}) \in Nat /\ Cardinality(table) \in Nat
          /\ Cardinality(outer') \in Nat
      BY <1>1, <2>1, <2>2, PointersCount
    <2>4. QED
      BY <1>1, <2>2, <2>3, OuterAssumption DEF OuterKept
  <1>7. ExpiredNeverServed' /\ ReadersAreTold'
    BY <1>1 DEF ExpiredNeverServed, ReadersAreTold, NoRead
  <1>8. QED
    BY <1>1, <1>2, <1>3, <1>5, <1>6, <1>7 DEF SIInv, OuterAgrees, RoomMade

LEMMA RemoveEntryStep ==
    ASSUME SIInv, NEW p \in Pointers, RemoveEntry(p)
    PROVE  SIInv'
  <1>1. SharedOut' /\ OuterAgrees' /\ OuterKept' /\ SublayersKept' /\ evicts' = evicts
    BY TakeOutStep DEF SIInv, RemoveEntry
  <1>2. ExpiredNeverServed' /\ ReadersAreTold'
    BY DEF RemoveEntry, ExpiredNeverServed, ReadersAreTold, NoRead
  <1>3. QED
    BY <1>1, <1>2 DEF SIInv, RoomMade, RemoveEntry

\* A read that tells all holders, or that no holder keeps time for, serves
\* nothing that is over; which leaves must be told is up to the caller.
LEMMA ReadStep ==
    ASSUME SIInv, NEW p \in Pointers, NEW how, NEW told, NEW method,
           Read(p, how, told, method),
           told \subseteq Holders(p),
           \A i \in Holders(p) : kind[i] = "expiry" => i \in told,
           how \in {"get", "entry"} =>
              \A i \in Holders(p) : ReadLock[kind[i]] # "None" => i \in told,
           method = "read_ref" => \A i \in told : kind[i] # "list"
    PROVE  SIInv'
  <1>1. /\ writing' = writing /\ writing = None /\ kind' = kind
    BY DEF Read
  <1>2. PICK due \in SUBSET {i \in Holders(p) : kind[i] = "expiry"} :
           /\ IF Verdict(told, due) THEN TakeOut(p)
              ELSE UNCHANGED <<s, variant, table, evicts, outer>>
           /\ last' = [how |-> how, ptr |-> p, told |-> told, method |-> method, due |-> due,
                       served |-> ~Verdict(told, due)]
    BY DEF Read
  <1>3. /\ last'.how = how /\ last'.ptr = p /\ last'.told = told /\ last'.method = method
        /\ last'.due = due /\ last'.served = ~Verdict(told, due)
    BY <1>2
  <1>4. Verdict(told, due) <=> due # {}
    BY DEF Verdict
  <1>5. /\ SharedOut' /\ OuterAgrees' /\ OuterKept' /\ SublayersKept'
        /\ variant' = variant /\ evicts' = evicts
        /\ due # {} => p \notin table' \cup outer' \cup s'[0] \cup s'[1]
    <2>1. CASE Verdict(told, due)
      BY <1>1, <1>2, <2>1, TakeOutStep DEF SIInv
    <2>2. CASE ~Verdict(told, due)
      <3>1. UNCHANGED <<s, variant, table, evicts, outer>> /\ due = {}
        BY <1>2, <1>4, <2>2
      <3>2. QED
        BY <1>1, <3>1 DEF SIInv, SharedOut, OuterAgrees, OuterKept, SublayersKept
    <2>3. QED
      BY <2>1, <2>2
  <1>6. ExpiredNeverServed'
    BY <1>3, <1>4, <1>5 DEF ExpiredNeverServed
  <1>7. ReadersAreTold'
    BY <1>1, <1>3, <1>5 DEF ReadersAreTold, Holders
  <1>8. QED
    BY <1>1, <1>5, <1>6, <1>7 DEF SIInv, RoomMade

\* The lock of a combination is at least that of each of its parts.
LEMMA OrCovers ==
    ASSUME NEW x, NEW y
    PROVE  /\ Or(x, y) \in {"None", "Ref", "Mut"}
           /\ Or(x, y) # "Mut" => x # "Mut" /\ y # "Mut"
           /\ Or(x, y) = "None" => x # "Ref" /\ y # "Ref"
  BY DEF Or

LEMMA LocksCover ==
    ASSUME SIInv, NEW p \in Pointers
    PROVE  /\ Holders(p) \subseteq {0, 1, 2}
           /\ \A i \in {0, 1, 2} :
                 /\ StackLock = "None" => ReadLock[kind[i]] = "None"
                 /\ StackLock # "Mut" => ReadLock[kind[i]] # "Mut"
                 /\ StackIterLock = "None" => kind[i] # "expiry"
           /\ StackLock \in {"None", "Ref", "Mut"}
  <1>1. \A i \in {0, 1, 2} : kind[i] \in Kinds
    BY DEF SIInv
  <1>2. \A k \in Kinds : /\ ReadLock[k] \in {"None", "Ref", "Mut"}
                         /\ k = "expiry" => ReadLock[k] = "Ref" /\ IterReadLock[k] = "Ref"
    BY DEF Kinds, ReadLock, IterReadLock
  <1>3. /\ StackLock = "None" => MultiLock = "None" /\ ReadLock[kind[2]] = "None"
        /\ StackLock # "Mut" => MultiLock # "Mut" /\ ReadLock[kind[2]] # "Mut"
        /\ StackIterLock = "None" => MultiLock = "None" /\ kind[2] # "expiry"
        /\ StackLock \in {"None", "Ref", "Mut"}
    BY <1>1, <1>2, OrCovers DEF StackLock, StackIterLock, MultiLock
  <1>4. \A i \in {0, 1} : /\ MultiLock = "None" => ReadLock[kind[i]] = "None"
                          /\ MultiLock # "Mut" => ReadLock[kind[i]] # "Mut"
    BY <1>1, <1>2, OrCovers DEF MultiLock
  <1>5. Holders(p) \subseteq {0, 1, 2}
    BY DEF SIInv, SharedOut, Holders
  <1>6. QED
    BY <1>1, <1>2, <1>3, <1>4, <1>5

LEMMA SStepInv == SIInv /\ [SNext]_svars => SIInv'
  <1> SUFFICES ASSUME SIInv, [SNext]_svars PROVE SIInv'
    OBVIOUS
  <1>1. /\ ReadLock["list"] = "Mut" /\ ReadLock["expiry"] = "Ref"
    BY DEF ReadLock
  <1>2. ASSUME NEW p \in Pointers, Get(p) PROVE SIInv'
    <2>1. CASE StackLock = "None"
      <3>1. \A i \in Holders(p) : ReadLock[kind[i]] = "None" /\ kind[i] # "expiry"
        BY <1>1, <2>1, LocksCover
      <3>2. Read(p, "get", {}, "none")
        BY <1>2, <2>1 DEF Get
      <3>3. QED
        BY <3>1, <3>2, ReadStep
    <2>2. CASE StackLock = "Ref"
      <3>1. \A i \in Holders(p) : kind[i] # "list"
        BY <1>1, <2>2, LocksCover
      <3>2. Read(p, "get", Holders(p), "read_ref")
        BY <1>2, <2>2 DEF Get
      <3>3. QED
        BY <3>1, <3>2, ReadStep
    <2>3. CASE StackLock = "Mut"
      <3>1. Read(p, "get", Holders(p), "read_mut")
        BY <1>2, <2>3 DEF Get
      <3>2. QED
        BY <3>1, ReadStep
    <2>4. QED
      BY <2>1, <2>2, <2>3, LocksCover
  <1>3. ASSUME NEW p \in Pointers, OpenEntry(p) PROVE SIInv'
    BY <1>3, ReadStep DEF OpenEntry
  <1>4. ASSUME NEW p \in Pointers, IterOver(p) PROVE SIInv'
    <2>1. CASE StackIterLock = "None"
      <3>1. \A i \in Holders(p) : kind[i] # "expiry"
        BY <2>1, LocksCover
      <3>2. Read(p, "iter", {}, "none")
        BY <1>4, <2>1 DEF IterOver
      <3>3. QED
        BY <3>1, <3>2, ReadStep
    <2>2. CASE StackIterLock # "None"
      <3>1. Read(p, "iter", Holders(p), "iter_read_mut")
        BY <1>4, <2>2 DEF IterOver
      <3>2. QED
        BY <3>1, ReadStep
    <2>3. QED
      BY <2>1, <2>2
  <1>5. CASE UNCHANGED svars
    BY <1>5 DEF svars, SIInv, SharedOut, OuterAgrees, OuterKept, SublayersKept, RoomMade,
                ExpiredNeverServed, ReadersAreTold
  <1>6. QED
    BY <1>2, <1>3, <1>4, <1>5, BeginWriteStep, EndWriteStep, RemoveEntryStep DEF SNext

LEMMA SInductiveInvariant == SSpec => []SIInv
  <1>1. SInit => SIInv
    <2> SUFFICES ASSUME SInit PROVE SIInv
      OBVIOUS
    <2>1. SharedOut /\ outer = table /\ table = {}
      BY DEF SInit, Init, SharedOut
    <2>2. OuterAgrees /\ OuterKept /\ SublayersKept
      BY <2>1, FS_EmptySet, OuterAssumption, CapacityAssumption
         DEF SInit, Init, OuterAgrees, OuterKept, SublayersKept
    <2>3. ExpiredNeverServed /\ ReadersAreTold
      BY DEF SInit, NoRead, ExpiredNeverServed, ReadersAreTold
    <2>4. QED
      BY <2>1, <2>2, <2>3 DEF SInit, SIInv, RoomMade
  <1>2. QED
    BY <1>1, SStepInv, PTL DEF SSpec

\* What is kept of each layer bounds the table, which the two share.
LEMMA KeptBounds == SIInv => KeptWithin
  <1> SUFFICES ASSUME SIInv PROVE KeptWithin
    OBVIOUS
  <1>1. /\ table = s[0] \cup s[1] /\ s[0] \in SUBSET Pointers /\ s[1] \in SUBSET Pointers
        /\ outer = table
    BY DEF SIInv, SharedOut, OuterAgrees
  <1>2. \A i \in {0, 1} : kind[i] \in Evicting => Cardinality(s[i]) <= Capacity
    BY DEF SIInv, SublayersKept
  <1>3. /\ Cardinality(table) <= Cardinality(s[0]) + Cardinality(s[1])
        /\ Cardinality(s[0]) \in Nat /\ Cardinality(s[1]) \in Nat /\ Cardinality(table) \in Nat
    <2>1. /\ IsFiniteSet(s[0]) /\ IsFiniteSet(s[1])
          /\ Cardinality(s[0]) \in Nat /\ Cardinality(s[1]) \in Nat
          /\ Cardinality(s[0] \cap s[1]) \in Nat /\ Cardinality(s[0] \cup s[1]) \in Nat
      <3>1. s[0] \cap s[1] \in SUBSET Pointers /\ s[0] \cup s[1] \in SUBSET Pointers
        BY <1>1
      <3>2. QED
        BY <1>1, <3>1, PointersCount
    <2>2. Cardinality(s[0] \cup s[1])
              = Cardinality(s[0]) + Cardinality(s[1]) - Cardinality(s[0] \cap s[1])
      BY <2>1, FS_Union
    <2>3. QED
      BY <1>1, <2>1, <2>2
  <1>4. kind[0] \in Evicting /\ kind[1] \in Evicting => Cardinality(table) <= 2 * Capacity
    BY <1>2, <1>3, CapacityAssumption
  <1>5. kind[2] \in Evicting => Cardinality(table) <= CapacityOuter
    BY <1>1 DEF SIInv, OuterKept
  <1>6. QED
    BY <1>2, <1>4, <1>5 DEF KeptWithin

\* To MultiLayer a stack of which it is a part is a user like any other.
LEMMA StackStep ==
    ASSUME SIInv, [SNext]_svars
    PROVE  [Next]_vars
  <1>1. ASSUME NEW p \in Pointers, TakeOut(p) PROVE Next
    BY <1>1 DEF TakeOut, Next
  <1>2. ASSUME NEW p \in Pointers, NEW how, NEW told, NEW method, Read(p, how, told, method)
        PROVE  [Next]_vars
    BY <1>1, <1>2 DEF Read, vars
  <1>3. ASSUME NEW p \in Pointers, Get(p) \/ OpenEntry(p) \/ IterOver(p)
        PROVE  [Next]_vars
    BY <1>2, <1>3 DEF Get, OpenEntry, IterOver
  <1>4. ASSUME NEW p \in Pointers, BeginWrite(p) \/ RemoveEntry(p)
        PROVE  [Next]_vars
    BY <1>1, <1>4 DEF BeginWrite, RemoveEntry, vars, SIInv, OuterAgrees, SharedOut
  <1>5. ASSUME NEW i \in {0, 1}, EndWrite(i) PROVE Next
    BY <1>5 DEF EndWrite, SIInv, RoomMade, Next
  <1>6. QED
    BY <1>3, <1>4, <1>5 DEF SNext, svars, vars

LEMMA StackUsesMulti == SSpec => Spec
  <1>1. SInit => Init
    BY DEF SInit
  <1>2. SIInv /\ [SNext]_svars => [Next]_vars
    BY StackStep
  <1>3. QED
    BY <1>1, <1>2, SInductiveInvariant, PTL DEF SSpec, Spec

\* In any stack the two layers of MultiLayer share out the table by the variant,
\* whatever key_fn answers: Resolve0 and Resolve1 never reach their unreachable!.
THEOREM LayersShareOut == SSpec => []SharedOut
  BY SInductiveInvariant, PTL DEF SIInv

\* Each sublayer lives the life of a layer of its own, one that evicts at its
\* capacity or one that never does.
THEOREM SublayersAreLayers == SSpec => EachIsALayer
  BY StackUsesMulti, MultiIsTwoLayers, PTL

\* The outer layer and the table agree through nested evictions.
THEOREM StackAgrees == SSpec => []OuterAgrees
  BY SInductiveInvariant, PTL DEF SIInv

\* The leaves that evict, and they alone, bound the table: by the capacity of the
\* outer layer, or by twice the shard's for the two layers of MultiLayer.
THEOREM StackKeptWithin == SSpec => []KeptWithin
  BY SInductiveInvariant, KeptBounds, PTL

\* Whatever the leaves are and whatever lock their combination asks for, no
\* read serves a pointer that one of its holders finds to be over.
THEOREM NothingExpiredServed == SSpec => []ExpiredNeverServed
  BY SInductiveInvariant, PTL DEF SIInv

\* Whatever the leaves are, each that asks for reads is told of its own, and the
\* unreachable! read_ref of a list layer stays so.
THEOREM LeavesAreTold == SSpec => []ReadersAreTold
  BY SInductiveInvariant, PTL DEF SIInv
=============================================================================
