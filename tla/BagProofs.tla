----------------------------- MODULE BagProofs ------------------------------
(***************************************************************************)
(* Proofs about the bag and what is built on it, for every set of pointers *)
(* and every capacity.                                                     *)
(*                                                                         *)
(* The bag.  TypeOK and KeysAreIndexes are inductive together:             *)
(* KeysAreIndexes makes every remove hit a position of the vector (so      *)
(* TypeOK is kept) and makes the members pairwise distinct (so one index   *)
(* is corrected, and one member leaves, per remove).                       *)
(*                                                                         *)
(* The least-of-n bag, for any readers, draws and clock.  Every step of it *)
(* is a step of Bag or leaves the bag alone, so what is shown of the bag   *)
(* holds of it.  StampsFollowReads is inductive together with two facts    *)
(* about time: no stamp is from the future, and what a reader is about to  *)
(* store is not below the stamp of any element untouched since the last    *)
(* write.                                                                  *)
(*                                                                         *)
(* A shard that survives panics, for any number of them.  The bag stays a  *)
(* bag because swap_remove at any index keeps every stored Key right; what *)
(* the table holds beyond the bag is counted by the panics.                *)
(***************************************************************************)
EXTENDS LeastOfN, Unwind, TLAPS, SequenceTheorems, FunctionTheorems, FiniteSetTheorems

IInv == TypeOK /\ KeysAreIndexes

\* What swap_remove returns: a sequence one shorter, that holds at i the
\* element that was last and everywhere else what was there.
LEMMA SwapRemoveShape ==
    ASSUME NEW S, NEW s \in Seq(S), NEW i \in 1..Len(s)
    PROVE  /\ SwapRemove(s, i) \in Seq(S)
           /\ Len(SwapRemove(s, i)) = Len(s) - 1
           /\ \A j \in 1..(Len(s) - 1) :
                 SwapRemove(s, i)[j] = IF j = i THEN s[Len(s)] ELSE s[j]
  <1>1. Len(s) \in Nat /\ Len(s) - 1 \in Nat
    OBVIOUS
  <1>2. \A j \in 1..Len(s) : s[j] \in S
    OBVIOUS
  <1>3. \A j \in 1..(Len(s) - 1) :
           (IF j = i THEN s[Len(s)] ELSE s[j]) \in S
    BY <1>1, <1>2
  <1>4. SwapRemove(s, i) \in [1..(Len(s) - 1) -> S]
    BY <1>3 DEF SwapRemove
  <1>5. SwapRemove(s, i) \in Seq(S)
    BY <1>1, <1>4, SeqDef
  <1>6. Len(SwapRemove(s, i)) = Len(s) - 1
    BY <1>1, <1>4, <1>5, LenProperties
  <1>7. QED
    BY <1>5, <1>6 DEF SwapRemove

\* When every stored Key is right, no pointer is in the bag twice.
LEMMA MembersDistinct ==
    ASSUME IInv, NEW i \in 1..Len(values), NEW j \in 1..Len(values),
           values[i] = values[j]
    PROVE  i = j
  BY DEF IInv, KeysAreIndexes

\* Taking out position i and correcting the moved element's Key keeps every
\* stored Key right, and takes out exactly the pointer that was at i.
LEMMA SwapRemoveKeepsKeys ==
    ASSUME IInv, NEW i \in 1..Len(values)
    PROVE  LET s == SwapRemove(values, i)
               ix == Reindexed(values, i)
           IN  /\ \A j \in 1..Len(s) : ix[s[j]] = j
               /\ ix \in [Pointers -> 0..Capacity]
               /\ {s[j] : j \in 1..Len(s)} = Members \ {values[i]}
  <1> DEFINE s == SwapRemove(values, i)
             ix == Reindexed(values, i)
             n == Len(values)
  <1>1. /\ values \in Seq(Pointers) /\ n \in Nat /\ n <= Capacity
        /\ index \in [Pointers -> 0..Capacity]
        /\ Capacity \in Nat
    BY CapacityAssumption DEF IInv, TypeOK
  <1>2. \A j \in 1..n : values[j] \in Pointers
    BY <1>1
  <1>3. /\ Len(s) = n - 1
        /\ \A j \in 1..(n - 1) : s[j] = IF j = i THEN values[n] ELSE values[j]
    BY <1>1, SwapRemoveShape
  <1>4. \A j, k \in 1..n : values[j] = values[k] => j = k
    BY MembersDistinct
  <1>5. \A j \in 1..n : index[values[j]] = j
    BY DEF IInv, KeysAreIndexes
  <1>6. \A p \in Pointers : ix[p] = IF i < n /\ p = values[n] THEN i ELSE index[p]
    BY DEF Reindexed
  <1>7. \A j \in 1..Len(s) : ix[s[j]] = j
    <2> SUFFICES ASSUME NEW j \in 1..(n - 1) PROVE ix[s[j]] = j
      BY <1>1, <1>3
    <2>1. CASE j = i
      <3>1. i \in 1..(n - 1) /\ i < n /\ n \in 1..n
        BY <2>1, <1>1
      <3>2. s[i] = values[n]
        BY <3>1, <1>3
      <3>3. ix[values[n]] = i
        BY <3>1, <1>2, <1>6
      <3>4. QED
        BY <2>1, <3>2, <3>3
    <2>2. CASE j # i
      <3>1. s[j] = values[j] /\ j # n /\ j \in 1..n /\ n \in 1..n
        BY <2>2, <1>1, <1>3
      <3>2. values[j] # values[n]
        BY <3>1, <1>4
      <3>3. QED
        BY <3>1, <3>2, <1>2, <1>5, <1>6
    <2>3. QED
      BY <2>1, <2>2
  <1>8. ix \in [Pointers -> 0..Capacity]
    BY <1>1 DEF Reindexed
  <1>9. {s[j] : j \in 1..Len(s)} = Members \ {values[i]}
    <2>1. ASSUME NEW j \in 1..(n - 1)
          PROVE  s[j] \in Members \ {values[i]}
      <3>1. CASE j = i
        BY <3>1, <1>1, <1>3, <1>4 DEF Members
      <3>2. CASE j # i
        <4>1. s[j] = values[j] /\ j \in 1..n
          BY <3>2, <1>1, <1>3
        <4>2. values[j] # values[i]
          BY <4>1, <3>2, <1>4
        <4>3. QED
          BY <4>1, <4>2 DEF Members
      <3>3. QED
        BY <3>1, <3>2
    <2>2. ASSUME NEW p \in Members \ {values[i]}
          PROVE  \E j \in 1..(n - 1) : s[j] = p
      <3>1. PICK k \in 1..n : values[k] = p
        BY DEF Members
      <3>2. k # i
        BY <3>1
      <3>3. CASE k = n
        <4>1. i \in 1..(n - 1)
          BY <3>2, <3>3, <1>1
        <4>2. s[i] = p
          BY <4>1, <3>1, <3>3, <1>3
        <4>3. QED
          BY <4>1, <4>2
      <3>4. CASE k # n
        <4>1. k \in 1..(n - 1)
          BY <3>4, <1>1
        <4>2. s[k] = p
          BY <4>1, <3>1, <3>2, <1>3
        <4>3. QED
          BY <4>1, <4>2
      <3>5. QED
        BY <3>3, <3>4
    <2>3. QED
      BY <2>1, <2>2, <1>3
  <1>10. QED
    BY <1>7, <1>8, <1>9

\* insert_with_key at the end of a bag that has room keeps both facts.
LEMMA PushKeepsKeys ==
    ASSUME NEW s \in Seq(Pointers), NEW ix \in [Pointers -> 0..Capacity],
           Len(s) < Capacity,
           \A j \in 1..Len(s) : ix[s[j]] = j,
           NEW p \in Pointers, \A j \in 1..Len(s) : s[j] # p,
           Push(s, ix, p)
    PROVE  /\ IInv'
           /\ Members' = {s[j] : j \in 1..Len(s)} \cup {p}
  <1> DEFINE n == Len(s)
  <1>1. /\ values' = Append(s, p)
        /\ index' = [ix EXCEPT ![p] = n + 1]
        /\ n \in Nat /\ Capacity \in Nat
    BY CapacityAssumption DEF Push
  <1>2. /\ values' \in Seq(Pointers)
        /\ Len(values') = n + 1
        /\ \A j \in 1..n : values'[j] = s[j]
        /\ values'[n + 1] = p
    BY <1>1
  <1>3. TypeOK'
    BY <1>1, <1>2 DEF TypeOK
  <1>4. \A j \in 1..n : s[j] \in Pointers
    OBVIOUS
  <1>5. KeysAreIndexes'
    <2> SUFFICES ASSUME NEW j \in 1..(n + 1) PROVE index'[values'[j]] = j
      BY <1>2 DEF KeysAreIndexes
    <2>1. CASE j = n + 1
      BY <2>1, <1>1, <1>2
    <2>2. CASE j # n + 1
      <3>1. j \in 1..n /\ values'[j] = s[j] /\ s[j] \in Pointers /\ s[j] # p
        BY <2>2, <1>1, <1>2, <1>4
      <3>2. QED
        BY <3>1, <1>1
    <2>3. QED
      BY <2>1, <2>2
  <1>6. Members' = {s[j] : j \in 1..n} \cup {p}
    <2>1. Members' = {values'[j] : j \in 1..(n + 1)}
      BY <1>2 DEF Members
    <2>2. Members' \subseteq {s[j] : j \in 1..n} \cup {p}
      <3> SUFFICES ASSUME NEW j \in 1..(n + 1)
                   PROVE  values'[j] \in {s[k] : k \in 1..n} \cup {p}
        BY <2>1
      <3>1. CASE j = n + 1
        BY <3>1, <1>2
      <3>2. CASE j # n + 1
        BY <3>2, <1>1, <1>2
      <3>3. QED
        BY <3>1, <3>2
    <2>3. {s[j] : j \in 1..n} \subseteq Members'
      <3> SUFFICES ASSUME NEW k \in 1..n PROVE s[k] \in Members'
        OBVIOUS
      <3>1. k \in 1..(n + 1) /\ values'[k] = s[k]
        BY <1>1, <1>2
      <3>2. QED
        BY <3>1, <2>1
    <2>4. p \in Members'
      <3>1. n + 1 \in 1..(n + 1)
        BY <1>1
      <3>2. QED
        BY <3>1, <2>1, <1>2
    <2>5. QED
      BY <2>2, <2>3, <2>4
  <1>7. QED
    BY <1>3, <1>5, <1>6 DEF IInv

\* A remove hits its own entry: the stored Key is the position of the pointer.
LEMMA StoredKeyHits ==
    ASSUME IInv, NEW p \in Members
    PROVE  index[p] \in 1..Len(values) /\ values[index[p]] = p
  <1>1. PICK i \in 1..Len(values) : values[i] = p
    BY DEF Members
  <1>2. index[p] = i
    BY <1>1 DEF IInv, KeysAreIndexes
  <1>3. QED
    BY <1>1, <1>2

\* The effect of each operation on the invariant and on the set of members,
\* the step from which both theorems below follow.
LEMMA WriteWithRoomStep ==
    ASSUME IInv, NEW p \in Pointers, WriteWithRoom(p)
    PROVE  IInv' /\ Members' = Members \cup {p}
  <1>1. /\ values \in Seq(Pointers) /\ Len(values) < Capacity
        /\ index \in [Pointers -> 0..Capacity]
    BY CapacityAssumption DEF IInv, TypeOK, WriteWithRoom
  <1>2. \A j \in 1..Len(values) : index[values[j]] = j /\ values[j] # p
    BY DEF IInv, KeysAreIndexes, WriteWithRoom, Members
  <1>3. QED
    BY <1>1, <1>2, PushKeepsKeys DEF WriteWithRoom, Members

LEMMA WriteEvictingStep ==
    ASSUME IInv, NEW p \in Pointers, NEW i \in 1..Len(values), WriteEvicting(p, i)
    PROVE  IInv' /\ Members' = (Members \ {values[i]}) \cup {p}
  <1> DEFINE s == SwapRemove(values, i)
             ix == Reindexed(values, i)
  <1>1. Push(s, ix, p)
    BY DEF WriteEvicting
  <1>2. values \in Seq(Pointers) /\ Len(values) = Capacity
    BY DEF IInv, TypeOK, WriteEvicting
  <1>3. s \in Seq(Pointers) /\ Len(s) < Capacity
    BY <1>2, SwapRemoveShape
  <1>4. /\ \A j \in 1..Len(s) : ix[s[j]] = j
        /\ ix \in [Pointers -> 0..Capacity]
        /\ {s[j] : j \in 1..Len(s)} = Members \ {values[i]}
    BY SwapRemoveKeepsKeys
  <1>5. \A j \in 1..Len(s) : s[j] # p
    BY <1>4 DEF WriteEvicting
  <1>6. IInv' /\ Members' = {s[j] : j \in 1..Len(s)} \cup {p}
    BY <1>1, <1>3, <1>4, <1>5, PushKeepsKeys
  <1>7. QED
    BY <1>4, <1>6

LEMMA WriteFullStep ==
    ASSUME IInv, NEW p \in Pointers, WriteFull(p)
    PROVE  IInv' /\ \E v \in Members : Members' = (Members \ {v}) \cup {p}
  <1>1. PICK i \in 1..Len(values) : WriteEvicting(p, i)
    BY DEF WriteFull
  <1>2. values[i] \in Members
    BY DEF Members
  <1>3. QED
    BY <1>1, <1>2, WriteEvictingStep

LEMMA RemoveStep ==
    ASSUME IInv, NEW p \in Pointers, Remove(p)
    PROVE  IInv' /\ Members' = Members \ {p}
  <1> DEFINE i == index[p]
  <1>1. i \in 1..Len(values) /\ values[i] = p
    BY StoredKeyHits DEF Remove
  <1>2. values \in Seq(Pointers) /\ Len(values) <= Capacity
    BY DEF IInv, TypeOK
  <1>3. values' \in Seq(Pointers) /\ Len(values') <= Capacity
    BY <1>1, <1>2, SwapRemoveShape, CapacityAssumption DEF Remove
  <1>4. /\ \A j \in 1..Len(values') : index'[values'[j]] = j
        /\ index' \in [Pointers -> 0..Capacity]
        /\ {values'[j] : j \in 1..Len(values')} = Members \ {p}
    BY <1>1, SwapRemoveKeepsKeys DEF Remove
  <1>5. QED
    BY <1>3, <1>4 DEF IInv, TypeOK, KeysAreIndexes, Members

LEMMA InductiveInvariant == Spec => []IInv
  <1>1. Init => IInv
    BY CapacityAssumption DEF Init, IInv, TypeOK, KeysAreIndexes
  <1>2. IInv /\ [Next]_vars => IInv'
    <2> SUFFICES ASSUME IInv, [Next]_vars PROVE IInv'
      OBVIOUS
    <2>1. ASSUME NEW p \in Pointers, WriteWithRoom(p) PROVE IInv'
      BY <2>1, WriteWithRoomStep
    <2>2. ASSUME NEW p \in Pointers, WriteFull(p) PROVE IInv'
      BY <2>2, WriteFullStep
    <2>3. ASSUME NEW p \in Pointers, Remove(p) PROVE IInv'
      BY <2>3, RemoveStep
    <2>4. CASE UNCHANGED vars
      BY <2>4 DEF vars, IInv, TypeOK, KeysAreIndexes
    <2>5. QED
      BY <2>1, <2>2, <2>3, <2>4 DEF Next
  <1>3. QED
    BY <1>1, <1>2, PTL DEF Spec

\* The bag is always a vector of at most Capacity pointers whose stored Keys
\* are indexes, so the vector never grows past what it was allocated with.
THEOREM TypeCorrect == Spec => []TypeOK
  BY InductiveInvariant, PTL DEF IInv

\* Every Key stored in a pointer of the bag is that pointer's position, for
\* every interleaving of writes, evictions and removes.
THEOREM StoredKeysCorrect == Spec => []KeysAreIndexes
  BY InductiveInvariant, PTL DEF IInv

\* The bag has as many members as positions.
LEMMA MemberCount ==
    ASSUME IInv
    PROVE  Cardinality(Members) = Len(values)
  <1> DEFINE n == Len(values)
             f == [i \in 1..n |-> values[i]]
  <1>1. n \in Nat
    BY DEF IInv, TypeOK
  <1>2. IsFiniteSet(1..n) /\ Cardinality(1..n) = n
    <2>1. /\ IsFiniteSet(1..n)
          /\ Cardinality(1..n) = IF 1 > n THEN 0 ELSE n - 1 + 1
      BY <1>1, FS_Interval, 1 \in Int, n \in Int
    <2>2. QED
      BY <1>1, <2>1
  <1>3. f \in Bijection(1..n, Members)
    <2>1. f \in [1..n -> Members]
      BY DEF Members
    <2>2. \A i, j \in 1..n : f[i] = f[j] => i = j
      BY MembersDistinct
    <2>3. \A p \in Members : \E i \in 1..n : f[i] = p
      BY DEF Members
    <2>4. QED
      BY <2>1, <2>2, <2>3, Fun_IsBij
  <1>4. ExistsBijection(1..n, Members)
    BY <1>3 DEF ExistsBijection
  <1>5. QED
    BY <1>2, <1>4, FS_Bijection

\* The instance counts as the bag does.
LEMMA LayerCardinality == ASSUME NEW S PROVE Layer!Cardinality(S) = Cardinality(S)
  BY DEF Layer!Cardinality, Cardinality

\* The bag implements the evicting layer: a write gives up at most one member
\* and only when full.
THEOREM BagImplementsLayer == Spec => ImplementsLayer
  <1>1. Init => Layer!Init
    BY DEF Init, Layer!Init, Members
  <1>2. IInv /\ [Next]_vars => [Layer!Next]_Members
    <2> SUFFICES ASSUME IInv, [Next]_vars
                 PROVE  [Layer!Next]_Members
      OBVIOUS
    <2>1. ASSUME NEW p \in Pointers, WriteWithRoom(p)
          PROVE  Layer!Write(p)
      BY <2>1, WriteWithRoomStep, MemberCount, LayerCardinality DEF WriteWithRoom, Layer!Write
    <2>2. ASSUME NEW p \in Pointers, WriteFull(p)
          PROVE  Layer!Write(p)
      BY <2>2, WriteFullStep, MemberCount, LayerCardinality DEF WriteFull, WriteEvicting, Layer!Write
    <2>3. ASSUME NEW p \in Pointers, Remove(p)
          PROVE  Layer!Remove(p)
      BY <2>3, RemoveStep DEF Remove, Layer!Remove
    <2>4. CASE UNCHANGED vars
      BY <2>4 DEF vars, Members
    <2>5. QED
      BY <2>1, <2>2, <2>3, <2>4 DEF Next, Layer!Next
  <1>3. QED
    BY <1>1, <1>2, InductiveInvariant, PTL DEF Spec, ImplementsLayer, Layer!Spec

-----------------------------------------------------------------------------
(* The least-of-n bag.                                                     *)

\* Every step of the least-of-n bag is a step of the bag or a stutter.
LEMMA BagStep == ASSUME [LNext]_lvars PROVE [Next]_vars
  <1>1. ASSUME NEW p \in Pointers, LWriteWithRoom(p) PROVE Next
    BY <1>1 DEF LWriteWithRoom, Next
  <1>2. ASSUME NEW p \in Pointers, LWriteFull(p) PROVE Next
    <2>1. PICK S \in Samples : \E i \in S : WriteEvicting(p, i)
      BY <1>2 DEF LWriteFull
    <2>2. \E i \in 1..Len(values) : WriteEvicting(p, i)
      BY <2>1 DEF Samples
    <2>3. QED
      BY <2>2 DEF Next, WriteFull
  <1>3. ASSUME NEW p \in Pointers, LRemove(p) PROVE Next
    BY <1>3 DEF LRemove, Next
  <1>4. ASSUME NEW r \in Readers, NEW p \in Pointers, ReadClock(r, p)
        PROVE  UNCHANGED vars
    BY <1>4 DEF ReadClock, vars
  <1>5. ASSUME NEW r \in Readers, StoreStamp(r) PROVE UNCHANGED vars
    BY <1>5 DEF StoreStamp, vars
  <1>6. CASE Tick \/ UNCHANGED lvars
    BY <1>6 DEF Tick, lvars, vars
  <1>7. QED
    BY <1>1, <1>2, <1>3, <1>4, <1>5, <1>6 DEF LNext

\* A least-of-n bag is a bag: with stamps, readers and samples it does to the
\* vector only what EvictRandom may do, so its stored Keys are indexes.
THEOREM LeastOfNIsABag == LSpec => Spec
  <1>1. LInit => Init
    BY DEF LInit
  <1>2. [LNext]_lvars => [Next]_vars
    BY BagStep
  <1>3. QED
    BY <1>1, <1>2, PTL DEF LSpec, Spec

\* Choosing the victim by its stamp is within the contract of an evicting layer.
THEOREM LeastOfNImplementsLayer == LSpec => ImplementsLayer
  BY LeastOfNIsABag, BagImplementsLayer

-----------------------------------------------------------------------------
\* One stamp per element, none later than now; zero is fixed in the past, and
\* before there is an element.
StampsTyped ==
    /\ stamps \in Seq(Nat) /\ Len(stamps) = Len(values)
    /\ clock \in Nat
    /\ zero = {} \/ \E z \in Nat : zero = {z} /\ z <= clock
    /\ values # <<>> => zero # {}
    /\ \A z \in zero, i \in 1..Len(values) : stamps[i] <= Offset(clock, z)

\* What a reader holds: a member it found and a time in the past.
ReadingTyped ==
    \A r \in Readers : \A a \in reading[r] : a.ptr \in Members /\ a.now <= clock

\* What a reader will store outranks everything untouched since the last write.
PendingOutranks ==
    \A r \in Readers, i \in 1..Len(values) : \A a \in reading[r], z \in zero :
        values[i] \notin since => stamps[i] <= Offset(a.now, z)

LIInv ==
    /\ IInv
    /\ StampsTyped /\ ReadingTyped
    /\ PendingOutranks /\ StampsFollowReads
    /\ reading \in [Readers -> SUBSET [ptr : Pointers, now : Nat]]
    /\ since \subseteq Members

\* Offsets are natural numbers and keep the order of instants.
LEMMA OffsetMonotone ==
    ASSUME NEW s \in Nat, NEW t \in Nat, NEW z \in Nat
    PROVE  /\ Offset(s, z) \in Nat
           /\ s <= t => Offset(s, z) <= Offset(t, z)
  BY DEF Offset

\* A new stamp is put after stamps from the past, none of which is above it.
LEMMA AppendStampStep ==
    ASSUME StampsTyped, NEW k \in Seq(Nat), AppendStamp(k),
           \A i \in 1..Len(k) : \A z \in zero : k[i] <= Offset(clock, z),
           zero = {} => k = <<>>
    PROVE  /\ stamps' \in Seq(Nat) /\ Len(stamps') = Len(k) + 1
           /\ \A i \in 1..Len(k) : stamps'[i] = k[i] /\ stamps'[i] <= stamps'[Len(k) + 1]
           /\ clock' \in Nat /\ clock <= clock'
           /\ \E z \in Nat : zero' = {z} /\ z <= clock'
           /\ \A z \in zero', i \in 1..(Len(k) + 1) : stamps'[i] <= Offset(clock', z)
  <1>1. PICK z \in (IF zero = {} THEN clock..MaxClock ELSE zero) :
           /\ zero' = {z}
           /\ clock' = IF z > clock THEN z ELSE clock
           /\ stamps' = Append(k, Offset(clock, z))
    BY DEF AppendStamp
  <1>2. clock \in Nat /\ z \in Nat
    BY MaxClockAssumption DEF StampsTyped
  <1>3. clock' \in Nat /\ clock <= clock' /\ z <= clock'
    BY <1>1, <1>2
  <1>4. /\ Offset(clock, z) \in Nat /\ Offset(clock', z) \in Nat
        /\ Offset(clock, z) <= Offset(clock', z)
    BY <1>2, <1>3, OffsetMonotone
  <1>5. /\ stamps' \in Seq(Nat) /\ Len(stamps') = Len(k) + 1
        /\ \A i \in 1..Len(k) : stamps'[i] = k[i]
        /\ stamps'[Len(k) + 1] = Offset(clock, z)
    BY <1>1, <1>4
  <1>6. \A i \in 1..Len(k) : k[i] <= Offset(clock, z) /\ k[i] \in Nat
    <2>1. CASE zero = {}
      BY <2>1
    <2>2. CASE zero # {}
      BY <2>2, <1>1
    <2>3. QED
      BY <2>1, <2>2
  <1>7. \A i \in 1..(Len(k) + 1) : stamps'[i] <= Offset(clock', z)
    <2> SUFFICES ASSUME NEW i \in 1..(Len(k) + 1) PROVE stamps'[i] <= Offset(clock', z)
      OBVIOUS
    <2>2. CASE i = Len(k) + 1
      BY <2>2, <1>4, <1>5
    <2>3. CASE i # Len(k) + 1
      <3>1. i \in 1..Len(k)
        BY <2>3, Len(k) \in Nat
      <3>2. k[i] \in Nat /\ k[i] <= Offset(clock, z) /\ stamps'[i] = k[i]
        BY <3>1, <1>5, <1>6
      <3>3. QED
        BY <3>2, <1>4
    <2>4. QED
      BY <2>2, <2>3
  <1>8. QED
    BY <1>1, <1>2, <1>3, <1>5, <1>6, <1>7

\* Taking element i out moves pointers and stamps alike: what is at a position
\* afterwards was together at one position before.
LEMMA TakenTogether ==
    ASSUME IInv, StampsTyped, NEW i \in 1..Len(values)
    PROVE  /\ StampsWithout(i) \in Seq(Nat)
           /\ Len(StampsWithout(i)) = Len(values) - 1
           /\ Len(SwapRemove(values, i)) = Len(values) - 1
           /\ \A j \in 1..(Len(values) - 1) : \E k \in 1..Len(values) :
                 /\ SwapRemove(values, i)[j] = values[k]
                 /\ StampsWithout(i)[j] = stamps[k]
  <1> DEFINE n == Len(values)
  <1>1. values \in Seq(Pointers) /\ stamps \in Seq(Nat) /\ Len(stamps) = n /\ n \in Nat
    BY DEF IInv, TypeOK, StampsTyped
  <1>2. /\ SwapRemove(stamps, i) \in Seq(Nat)
        /\ Len(SwapRemove(stamps, i)) = n - 1
        /\ \A j \in 1..(n - 1) :
              SwapRemove(stamps, i)[j] = IF j = i THEN stamps[n] ELSE stamps[j]
    <2> DEFINE S == Nat
    <2> HIDE DEF S
    <2>1. stamps \in Seq(S) /\ i \in 1..Len(stamps) /\ Len(stamps) = n
      BY <1>1 DEF S
    <2>2. /\ SwapRemove(stamps, i) \in Seq(S)
          /\ Len(SwapRemove(stamps, i)) = Len(stamps) - 1
          /\ \A j \in 1..(Len(stamps) - 1) :
                SwapRemove(stamps, i)[j] = IF j = i THEN stamps[Len(stamps)] ELSE stamps[j]
      BY <2>1, SwapRemoveShape
    <2>3. QED
      BY <2>1, <2>2 DEF S
  <1>3. /\ Len(SwapRemove(values, i)) = n - 1
        /\ \A j \in 1..(n - 1) :
              SwapRemove(values, i)[j] = IF j = i THEN values[n] ELSE values[j]
    BY <1>1, SwapRemoveShape
  <1>4. ASSUME NEW j \in 1..(n - 1)
        PROVE  \E k \in 1..n : /\ SwapRemove(values, i)[j] = values[k]
                               /\ SwapRemove(stamps, i)[j] = stamps[k]
    <2>1. CASE j = i
      BY <2>1, <1>1, <1>2, <1>3, n \in 1..n
    <2>2. CASE j # i
      BY <2>2, <1>1, <1>2, <1>3, j \in 1..n
    <2>3. QED
      BY <2>1, <2>2
  <1>5. QED
    BY <1>2, <1>3, <1>4 DEF StampsWithout

\* Without readers, what a write appends keeps every fact: v is the vector the
\* new pointer is pushed to, and k the stamps beside it.
LEMMA WriteKeepsStamps ==
    ASSUME LIInv, IInv', ExclusiveLock, reading' = reading,
           NEW p \in Pointers, since' = {p},
           NEW v, NEW k \in Seq(Nat), Len(k) = Len(v), Len(v) \in Nat,
           \A j \in 1..Len(v) : \E i \in 1..Len(values) : k[j] = stamps[i],
           Len(values') = Len(v) + 1, values'[Len(v) + 1] = p,
           values = <<>> => Len(v) = 0,
           AppendStamp(k)
    PROVE  LIInv'
  <1> DEFINE n == Len(v)
  <1>1. StampsTyped /\ reading \in [Readers -> SUBSET [ptr : Pointers, now : Nat]]
    BY DEF LIInv
  <1>2. \A i \in 1..Len(k) : \A z \in zero : k[i] <= Offset(clock, z)
    BY <1>1 DEF StampsTyped
  <1>3. zero = {} => k = <<>>
    BY <1>1 DEF StampsTyped
  <1>4. /\ stamps' \in Seq(Nat) /\ Len(stamps') = n + 1
        /\ \A i \in 1..n : stamps'[i] = k[i] /\ stamps'[i] <= stamps'[n + 1]
        /\ clock' \in Nat /\ clock <= clock'
        /\ \E z \in Nat : zero' = {z} /\ z <= clock'
        /\ \A z \in zero', i \in 1..(n + 1) : stamps'[i] <= Offset(clock', z)
    BY <1>1, <1>2, <1>3, AppendStampStep
  <1>5. StampsTyped'
    BY <1>4 DEF StampsTyped
  <1>6. \A r \in Readers : reading'[r] = {}
    BY DEF ExclusiveLock, InRead
  <1>7. ReadingTyped' /\ PendingOutranks'
    BY <1>6 DEF ReadingTyped, PendingOutranks
  <1>8. StampsFollowReads'
    <2> SUFFICES ASSUME NEW i \in 1..(n + 1), NEW j \in 1..(n + 1),
                        values'[i] = p, values'[j] # p
                 PROVE  stamps'[i] >= stamps'[j]
      BY DEF StampsFollowReads
    <2>1. i = n + 1 /\ j # n + 1
      <3>1. n + 1 \in 1..(n + 1)
        OBVIOUS
      <3>2. i = n + 1
        BY <3>1 DEF IInv, KeysAreIndexes
      <3>3. QED
        BY <3>2
    <2>2. j \in 1..n
      BY <2>1
    <2>3. stamps'[j] \in Nat /\ stamps'[n + 1] \in Nat
      BY <1>4, <2>2
    <2>4. QED
      BY <2>1, <2>2, <2>3, <1>4
  <1>9. since' \subseteq Members'
    <2>1. n + 1 \in 1..Len(values')
      OBVIOUS
    <2>2. QED
      BY <2>1 DEF Members
  <1>10. QED
    BY <1>1, <1>5, <1>7, <1>8, <1>9 DEF LIInv

LEMMA LWriteWithRoomStep ==
    ASSUME LIInv, IInv', NEW p \in Pointers, LWriteWithRoom(p)
    PROVE  LIInv'
  <1>1. /\ ExclusiveLock /\ reading' = reading /\ since' = {p} /\ AppendStamp(stamps)
        /\ values' = Append(values, p)
    BY DEF LWriteWithRoom, WriteWithRoom, Push
  <1>2. /\ values \in Seq(Pointers) /\ Len(values) \in Nat
        /\ stamps \in Seq(Nat) /\ Len(stamps) = Len(values)
    BY DEF LIInv, IInv, TypeOK, StampsTyped
  <1>3. Len(values') = Len(values) + 1 /\ values'[Len(values) + 1] = p
    BY <1>1, <1>2
  <1>4. \A j \in 1..Len(values) : \E i \in 1..Len(values) : stamps[j] = stamps[i]
    OBVIOUS
  <1>5. values = <<>> => Len(values) = 0
    OBVIOUS
  <1>6. QED
    BY <1>1, <1>2, <1>3, <1>4, <1>5, WriteKeepsStamps

LEMMA LWriteFullStep ==
    ASSUME LIInv, IInv', NEW p \in Pointers, LWriteFull(p)
    PROVE  LIInv'
  <1>1. PICK S \in Samples :
           \E i \in S : WriteEvicting(p, i) /\ AppendStamp(StampsWithout(i))
    BY DEF LWriteFull
  <1>2. PICK i \in 1..Len(values) : WriteEvicting(p, i) /\ AppendStamp(StampsWithout(i))
    BY <1>1 DEF Samples
  <1> DEFINE v == SwapRemove(values, i)
             k == StampsWithout(i)
  <1>3. values \in Seq(Pointers) /\ Len(values) \in Nat /\ IInv /\ StampsTyped
    BY DEF LIInv, IInv, TypeOK
  <1>4. /\ k \in Seq(Nat) /\ Len(k) = Len(v) /\ Len(v) = Len(values) - 1
        /\ \A j \in 1..(Len(values) - 1) : \E m \in 1..Len(values) : k[j] = stamps[m]
    BY <1>3, TakenTogether
  <1>5. Len(v) \in Nat /\ v \in Seq(Pointers)
    BY <1>3, <1>4, SwapRemoveShape
  <1>6. values' = Append(v, p)
    BY <1>2 DEF WriteEvicting, Push
  <1>7. Len(values') = Len(v) + 1 /\ values'[Len(v) + 1] = p
    BY <1>5, <1>6
  <1>8. values # <<>>
    BY <1>3
  <1>9. ExclusiveLock /\ reading' = reading /\ since' = {p}
    BY DEF LWriteFull
  <1> HIDE DEF v, k
  <1>10. QED
    BY <1>2, <1>4, <1>5, <1>7, <1>8, <1>9, WriteKeepsStamps DEF k

LEMMA LRemoveStep ==
    ASSUME LIInv, IInv', NEW p \in Pointers, LRemove(p)
    PROVE  LIInv'
  <1> DEFINE i == index[p]
             n == Len(values)
  <1>1. /\ ExclusiveLock /\ Remove(p) /\ stamps' = StampsWithout(i)
        /\ since' = since \ {p} /\ UNCHANGED <<clock, zero, reading>>
    BY DEF LRemove
  <1>2. IInv /\ StampsTyped /\ n \in Nat /\ p \in Members
    BY <1>1 DEF LIInv, IInv, TypeOK, Remove
  <1>3. i \in 1..n /\ values[i] = p /\ values' = SwapRemove(values, i)
    BY <1>1, <1>2, StoredKeyHits DEF Remove
  <1>4. /\ stamps' \in Seq(Nat) /\ Len(stamps') = n - 1 /\ Len(values') = n - 1
        /\ \A j \in 1..(n - 1) : \E k \in 1..n :
              values'[j] = values[k] /\ stamps'[j] = stamps[k]
    BY <1>1, <1>2, <1>3, TakenTogether
  <1>5. Members' = Members \ {p}
    BY <1>1, <1>2, RemoveStep
  <1>6. \A j \in 1..(n - 1) : values'[j] # p
    BY <1>4, <1>5 DEF Members
  <1>7. StampsTyped'
    <2>1. values' # <<>> => values # <<>>
      BY <1>3, <1>2
    <2>2. \A z \in zero, j \in 1..(n - 1) : stamps'[j] <= Offset(clock, z)
      BY <1>2, <1>4 DEF StampsTyped
    <2>3. QED
      BY <1>1, <1>2, <1>4, <2>1, <2>2 DEF StampsTyped
  <1>8. \A r \in Readers : reading'[r] = {}
    BY <1>1 DEF ExclusiveLock, InRead
  <1>9. ReadingTyped' /\ PendingOutranks'
    BY <1>8 DEF ReadingTyped, PendingOutranks
  <1>10. StampsFollowReads'
    <2> SUFFICES ASSUME NEW j \in 1..(n - 1), NEW k \in 1..(n - 1),
                        values'[j] \in since', values'[k] \notin since'
                 PROVE  stamps'[j] >= stamps'[k]
      BY <1>4 DEF StampsFollowReads
    <2>1. PICK j0 \in 1..n : values'[j] = values[j0] /\ stamps'[j] = stamps[j0]
      BY <1>4
    <2>2. PICK k0 \in 1..n : values'[k] = values[k0] /\ stamps'[k] = stamps[k0]
      BY <1>4
    <2>3. values[j0] \in since /\ values[k0] \notin since
      BY <2>1, <2>2, <1>1, <1>6
    <2>4. QED
      BY <2>1, <2>2, <2>3 DEF LIInv, StampsFollowReads
  <1>11. QED
    BY <1>1, <1>5, <1>7, <1>9, <1>10 DEF LIInv

LEMMA ReadClockStep ==
    ASSUME LIInv, IInv', NEW r \in Readers, NEW p \in Pointers, ReadClock(r, p)
    PROVE  LIInv'
  <1> DEFINE a == [ptr |-> p, now |-> clock]
  <1>1. /\ p \in Members /\ reading' = [reading EXCEPT ![r] = {a}]
        /\ UNCHANGED <<values, index, stamps, clock, zero, since>>
    BY DEF ReadClock
  <1>2. /\ StampsTyped /\ clock \in Nat
        /\ reading \in [Readers -> SUBSET [ptr : Pointers, now : Nat]]
    BY DEF LIInv, StampsTyped
  <1>3. /\ reading' \in [Readers -> SUBSET [ptr : Pointers, now : Nat]]
        /\ reading'[r] = {a}
        /\ \A q \in Readers \ {r} : reading'[q] = reading[q]
    BY <1>1, <1>2
  <1>4. StampsTyped' /\ StampsFollowReads' /\ since' \subseteq Members'
    BY <1>1 DEF LIInv, StampsTyped, StampsFollowReads, Members, Offset
  <1>5. ReadingTyped'
    BY <1>1, <1>2, <1>3 DEF LIInv, ReadingTyped, Members
  <1>6. PendingOutranks'
    <2> SUFFICES ASSUME NEW q \in Readers, NEW i \in 1..Len(values),
                        NEW b \in reading'[q], NEW z \in zero, values[i] \notin since
                 PROVE  stamps[i] <= Offset(b.now, z)
      BY <1>1 DEF PendingOutranks
    <2>1. CASE q = r
      <3>1. b.now = clock
        BY <2>1, <1>3
      <3>2. QED
        BY <3>1, <1>2 DEF StampsTyped
    <2>2. CASE q # r
      <3>1. b \in reading[q]
        BY <2>2, <1>3
      <3>2. QED
        BY <3>1 DEF LIInv, PendingOutranks
    <2>3. QED
      BY <2>1, <2>2
  <1>7. QED
    BY <1>3, <1>4, <1>5, <1>6 DEF LIInv

LEMMA StoreStampStep ==
    ASSUME LIInv, IInv', NEW r \in Readers, StoreStamp(r)
    PROVE  LIInv'
  <1> DEFINE n == Len(values)
  <1>1. PICK a \in reading[r], z \in zero :
           /\ stamps' = [stamps EXCEPT ![index[a.ptr]] = Offset(a.now, z)]
           /\ since' = since \cup {a.ptr}
    BY DEF StoreStamp
  <1>2. /\ reading' = [reading EXCEPT ![r] = {}]
        /\ UNCHANGED <<values, index, clock, zero>>
    BY DEF StoreStamp
  <1>3. /\ IInv /\ StampsTyped /\ n \in Nat /\ clock \in Nat
        /\ reading \in [Readers -> SUBSET [ptr : Pointers, now : Nat]]
    BY DEF LIInv, IInv, TypeOK, StampsTyped
  <1>4. a.ptr \in Members /\ a.now \in Nat /\ a.now <= clock
    BY <1>3 DEF LIInv, ReadingTyped
  <1> DEFINE i == index[a.ptr]
             o == Offset(a.now, z)
  <1>5. i \in 1..n /\ values[i] = a.ptr
    BY <1>3, <1>4, StoredKeyHits
  <1>6. zero = {z} /\ z \in Nat /\ o \in Nat /\ o <= Offset(clock, z)
    BY <1>3, <1>4, OffsetMonotone DEF StampsTyped
  <1>7. stamps \in Seq(Nat) /\ Len(stamps) = n
    BY <1>3 DEF StampsTyped
  <1>8. /\ stamps' \in Seq(Nat) /\ Len(stamps') = n /\ stamps'[i] = o
        /\ \A j \in 1..n : j # i => stamps'[j] = stamps[j]
    BY <1>1, <1>5, <1>6, <1>7
  <1>9. \A j \in 1..n : j # i => values[j] # a.ptr
    BY <1>3, <1>5, MembersDistinct
  <1>10. StampsTyped'
    <2>1. \A j \in 1..n : stamps'[j] <= Offset(clock, z)
      BY <1>3, <1>6, <1>8 DEF StampsTyped
    <2>2. \A y \in zero', j \in 1..n : stamps'[j] <= Offset(clock', y)
      BY <2>1, <1>2, <1>6
    <2>3. QED
      BY <2>2, <1>2, <1>3, <1>8 DEF StampsTyped
  <1>11. /\ reading' \in [Readers -> SUBSET [ptr : Pointers, now : Nat]]
         /\ reading'[r] = {}
         /\ \A q \in Readers \ {r} : reading'[q] = reading[q]
    BY <1>2, <1>3
  <1>12. ReadingTyped'
    BY <1>2, <1>11 DEF LIInv, ReadingTyped, Members
  <1>13. \A q \in Readers, j \in 1..n : \A b \in reading[q] :
            values[j] \notin since => stamps[j] <= Offset(b.now, z)
    BY <1>6 DEF LIInv, PendingOutranks
  <1>14. PendingOutranks'
    <2> SUFFICES ASSUME NEW q \in Readers, NEW j \in 1..n,
                        NEW b \in reading'[q], NEW y \in zero', values[j] \notin since'
                 PROVE  stamps'[j] <= Offset(b.now, y)
      BY <1>2 DEF PendingOutranks
    <2>1. b \in reading[q] /\ y = z
      BY <1>2, <1>6, <1>11
    <2>2. values[j] \notin since /\ j # i
      BY <1>1, <1>5
    <2>3. stamps'[j] = stamps[j]
      BY <2>2, <1>8
    <2>4. QED
      BY <2>1, <2>2, <2>3, <1>13
  <1>15. StampsFollowReads'
    <2> SUFFICES ASSUME NEW j \in 1..n, NEW k \in 1..n,
                        values[j] \in since', values[k] \notin since'
                 PROVE  stamps'[j] >= stamps'[k]
      BY <1>2 DEF StampsFollowReads
    <2>1. values[k] \notin since /\ k # i /\ stamps'[k] = stamps[k] /\ stamps[k] \in Nat
      BY <1>1, <1>5, <1>7, <1>8
    <2>2. CASE j = i
      BY <2>1, <2>2, <1>6, <1>8, <1>13
    <2>3. CASE j # i
      <3>1. values[j] \in since /\ stamps'[j] = stamps[j]
        BY <2>3, <1>1, <1>8, <1>9
      <3>2. QED
        BY <3>1, <2>1 DEF LIInv, StampsFollowReads
    <2>4. QED
      BY <2>2, <2>3
  <1>16. since' \subseteq Members'
    BY <1>1, <1>2, <1>4 DEF LIInv, Members
  <1>17. QED
    BY <1>10, <1>11, <1>12, <1>14, <1>15, <1>16 DEF LIInv

LEMMA TickStep ==
    ASSUME LIInv, IInv', Tick
    PROVE  LIInv'
  <1>1. /\ clock' = clock + 1
        /\ UNCHANGED <<values, index, stamps, zero, reading, since>>
    BY DEF Tick
  <1>2. StampsTyped /\ clock \in Nat /\ stamps \in Seq(Nat) /\ Len(stamps) = Len(values)
    BY DEF LIInv, StampsTyped
  <1>3. StampsTyped'
    <2>1. \A z \in zero, i \in 1..Len(values) : stamps[i] <= Offset(clock + 1, z)
      <3> SUFFICES ASSUME NEW z \in zero, NEW i \in 1..Len(values)
                   PROVE  stamps[i] <= Offset(clock + 1, z)
        OBVIOUS
      <3>1. z \in Nat /\ stamps[i] \in Nat /\ stamps[i] <= Offset(clock, z)
        BY <1>2 DEF StampsTyped
      <3>2. /\ Offset(clock, z) \in Nat /\ Offset(clock + 1, z) \in Nat
            /\ Offset(clock, z) <= Offset(clock + 1, z)
        BY <3>1, <1>2, clock + 1 \in Nat, clock <= clock + 1, OffsetMonotone
      <3>3. QED
        BY <3>1, <3>2
    <2>2. \A z \in zero', i \in 1..Len(values') : stamps'[i] <= Offset(clock', z)
      BY <1>1, <2>1
    <2>3. QED
      BY <1>1, <1>2, <2>2 DEF StampsTyped
  <1>4. ReadingTyped'
    <2> SUFFICES ASSUME NEW r \in Readers, NEW a \in reading[r]
                 PROVE  a.ptr \in Members /\ a.now <= clock + 1
      BY <1>1 DEF ReadingTyped, Members
    <2>1. a.ptr \in Members /\ a.now \in Nat /\ a.now <= clock
      BY DEF LIInv, ReadingTyped
    <2>2. QED
      BY <2>1, <1>2
  <1>5. PendingOutranks' /\ StampsFollowReads' /\ since' \subseteq Members'
    BY <1>1 DEF LIInv, PendingOutranks, StampsFollowReads, Members
  <1>6. QED
    BY <1>1, <1>3, <1>4, <1>5 DEF LIInv

LEMMA LInductiveInvariant == LSpec => []LIInv
  <1>1. LInit => LIInv
    <2> SUFFICES ASSUME LInit PROVE LIInv
      OBVIOUS
    <2>1. values = <<>> /\ Len(values) = 0 /\ stamps = <<>>
      BY DEF LInit, Init
    <2>2. IInv
      BY CapacityAssumption DEF LInit, Init, IInv, TypeOK, KeysAreIndexes
    <2>3. StampsTyped
      BY <2>1 DEF LInit, StampsTyped
    <2>4. ReadingTyped /\ PendingOutranks /\ StampsFollowReads
      BY <2>1 DEF LInit, ReadingTyped, PendingOutranks, StampsFollowReads
    <2>5. QED
      BY <2>2, <2>3, <2>4 DEF LInit, LIInv
  <1>2. LIInv /\ IInv' /\ [LNext]_lvars => LIInv'
    <2> SUFFICES ASSUME LIInv, IInv', [LNext]_lvars PROVE LIInv'
      OBVIOUS
    <2>1. ASSUME NEW p \in Pointers, LWriteWithRoom(p) PROVE LIInv'
      BY <2>1, LWriteWithRoomStep
    <2>2. ASSUME NEW p \in Pointers, LWriteFull(p) PROVE LIInv'
      BY <2>2, LWriteFullStep
    <2>3. ASSUME NEW p \in Pointers, LRemove(p) PROVE LIInv'
      BY <2>3, LRemoveStep
    <2>4. ASSUME NEW r \in Readers, NEW p \in Pointers, ReadClock(r, p) PROVE LIInv'
      BY <2>4, ReadClockStep
    <2>5. ASSUME NEW r \in Readers, StoreStamp(r) PROVE LIInv'
      BY <2>5, StoreStampStep
    <2>6. CASE Tick
      BY <2>6, TickStep
    <2>7. CASE UNCHANGED lvars
      <3>1. StampsTyped' /\ ReadingTyped'
        BY <2>7 DEF lvars, LIInv, StampsTyped, ReadingTyped, Members, Offset
      <3>2. PendingOutranks' /\ StampsFollowReads'
        BY <2>7 DEF lvars, LIInv, PendingOutranks, StampsFollowReads, Offset
      <3>3. QED
        BY <3>1, <3>2, <2>7 DEF lvars, LIInv, Members
    <2>8. QED
      BY <2>1, <2>2, <2>3, <2>4, <2>5, <2>6, <2>7 DEF LNext
  <1>3. QED
    BY <1>1, <1>2, LeastOfNIsABag, InductiveInvariant, PTL DEF LSpec

\* However many readers overlap and however elements are swapped about, no
\* pointer used since the last write is ranked below one that was not.
THEOREM StampsAreOrdered == LSpec => []StampsFollowReads
  BY LInductiveInvariant, PTL DEF LIInv

-----------------------------------------------------------------------------
\* The clock keeps to its bound, and a reader holds one access at a time.
LBounds ==
    /\ clock <= MaxClock
    /\ \A r \in Readers : reading[r] = {} \/ \E a : reading[r] = {a}

LEMMA LBoundsStep == LIInv /\ LBounds /\ [LNext]_lvars => LBounds'
  <1> SUFFICES ASSUME LIInv, LBounds, [LNext]_lvars PROVE LBounds'
    OBVIOUS
  <1>1. /\ clock \in Nat /\ MaxClock \in Nat
        /\ zero = {} \/ \E z \in Nat : zero = {z} /\ z <= clock
    BY MaxClockAssumption DEF LIInv, StampsTyped
  <1>2. ASSUME NEW kept, AppendStamp(kept) PROVE clock' <= MaxClock
    BY <1>1, <1>2 DEF AppendStamp, LBounds
  <1>3. ASSUME NEW p \in Pointers, LWriteWithRoom(p) \/ LWriteFull(p) \/ LRemove(p)
        PROVE  LBounds'
    BY <1>2, <1>3 DEF LWriteWithRoom, LWriteFull, LRemove, LBounds
  <1>4. ASSUME NEW r \in Readers, NEW o, reading' = [reading EXCEPT ![r] = o],
               o = {} \/ \E a : o = {a}, clock' = clock
        PROVE  LBounds'
    BY <1>4 DEF LIInv, LBounds
  <1>5. ASSUME NEW r \in Readers, StoreStamp(r) PROVE LBounds'
    BY <1>4, <1>5 DEF StoreStamp
  <1>6. ASSUME NEW r \in Readers, NEW p \in Pointers, ReadClock(r, p) PROVE LBounds'
    BY <1>4, <1>6 DEF ReadClock
  <1>7. CASE Tick
    BY <1>1, <1>7 DEF Tick, LBounds
  <1>8. CASE UNCHANGED lvars
    BY <1>8 DEF lvars, LBounds
  <1>9. QED
    BY <1>3, <1>5, <1>6, <1>7, <1>8 DEF LNext

\* The bag has its shape, every element has its stamp, no stamp and no pending read is from the future,
\* and a reader always refers to a member: the shared lock keeps writers out.
THEOREM LTypeCorrect == LSpec => []LTypeOK
  <1>1. LInit => LBounds
    BY MaxClockAssumption DEF LInit, LBounds
  <1>2. LIInv /\ LBounds => LTypeOK
    <2> SUFFICES ASSUME LIInv, LBounds PROVE LTypeOK
      OBVIOUS
    <2>1. /\ clock \in Nat /\ clock \in 0..MaxClock
          /\ stamps \in Seq(Nat) /\ Len(stamps) = Len(values)
          /\ values # <<>> => zero # {}
          /\ zero = {} \/ \E z \in Nat : zero = {z} /\ z <= clock
      BY MaxClockAssumption DEF LIInv, LBounds, StampsTyped
    <2>2. ASSUME NEW i \in 1..Len(stamps) PROVE stamps[i] \in 0..clock
      <3>1. values # <<>>
        BY <2>1
      <3>2. PICK z \in zero : z \in Nat /\ z <= clock
        BY <2>1, <3>1
      <3>3. stamps[i] <= Offset(clock, z) /\ stamps[i] \in Nat
        BY <2>1, <3>2 DEF LIInv, StampsTyped
      <3>4. QED
        BY <2>1, <3>2, <3>3 DEF Offset
    <2>3. stamps \in Seq(0..clock)
      BY <2>1, <2>2, SeqDef
    <2>4. ASSUME NEW r \in Readers
          PROVE  \/ reading[r] = {}
                 \/ \E p \in Members, t \in 0..clock : reading[r] = {[ptr |-> p, now |-> t]}
      <3>1. SUFFICES ASSUME NEW a, reading[r] = {a}
                     PROVE  \E p \in Members, t \in 0..clock : a = [ptr |-> p, now |-> t]
        BY DEF LBounds
      <3>2. a \in [ptr : Pointers, now : Nat] /\ a.ptr \in Members /\ a.now <= clock
        BY <3>1 DEF LIInv, ReadingTyped
      <3>3. a = [ptr |-> a.ptr, now |-> a.now] /\ a.now \in 0..clock
        BY <2>1, <3>2
      <3>4. QED
        BY <3>2, <3>3
    <2>5. zero \in {{}} \cup {{z} : z \in 0..clock}
      BY <2>1
    <2>6. since \subseteq Members
      BY DEF LIInv
    <2>7. QED
      BY <2>1, <2>3, <2>4, <2>5, <2>6 DEF LTypeOK, LIInv, IInv
  <1>3. QED
    BY <1>1, <1>2, LBoundsStep, LInductiveInvariant, PTL DEF LSpec

-----------------------------------------------------------------------------
(* A shard that survives panics.                                           *)

UIInv ==
    /\ IInv
    /\ stored \subseteq Pointers /\ IsFiniteSet(stored)
    /\ faults \in 0..MaxFaults
    /\ NeverOutOfSync /\ OrphansAreCounted

\* do_remove at any index leaves a sound bag without the pointer it hit.
LEMMA TakeOutStep ==
    ASSUME IInv, NEW i \in 1..Len(values), TakeOut(i)
    PROVE  /\ IInv'
           /\ Len(values') = Len(values) - 1
           /\ Members' = Members \ {values[i]}
  <1>1. values \in Seq(Pointers) /\ Len(values) \in Nat /\ Len(values) <= Capacity
    BY DEF IInv, TypeOK
  <1>2. /\ values' \in Seq(Pointers)
        /\ Len(values') = Len(values) - 1
    BY <1>1, SwapRemoveShape DEF TakeOut
  <1>3. /\ \A j \in 1..Len(values') : index'[values'[j]] = j
        /\ index' \in [Pointers -> 0..Capacity]
        /\ {values'[j] : j \in 1..Len(values')} = Members \ {values[i]}
    BY SwapRemoveKeepsKeys DEF TakeOut
  <1>4. Len(values') <= Capacity
    BY <1>1, <1>2, CapacityAssumption
  <1>5. QED
    BY <1>2, <1>3, <1>4 DEF IInv, TypeOK, KeysAreIndexes, Members

\* One pointer more or less changes the count by at most one.
LEMMA CountOne ==
    ASSUME NEW S, IsFiniteSet(S), NEW x
    PROVE  /\ IsFiniteSet(S \cup {x}) /\ IsFiniteSet(S \ {x})
           /\ Cardinality(S) \in Nat /\ Cardinality(S \ {x}) \in Nat
           /\ Cardinality(S \cup {x}) \in Nat
           /\ Cardinality(S \cup {x}) <= Cardinality(S) + 1
           /\ Cardinality(S \ {x}) <= Cardinality(S)
           /\ x \in S => Cardinality(S \ {x}) = Cardinality(S) - 1
  BY FS_AddElement, FS_RemoveElement, FS_CardinalityType

LEMMA InsertWithRoomStep ==
    ASSUME UIInv, NEW p \in Pointers, InsertWithRoom(p)
    PROVE  UIInv'
  <1>1. /\ WriteWithRoom(p) /\ stored' = stored \cup {p} /\ faults' = faults
    BY DEF InsertWithRoom
  <1>2. IInv' /\ Members' = Members \cup {p}
    BY <1>1, WriteWithRoomStep DEF UIInv
  <1>3. Len(values') = Len(values) + 1 /\ Len(values) \in Nat
    BY <1>1 DEF UIInv, IInv, TypeOK, WriteWithRoom, Push
  <1>4. /\ IsFiniteSet(stored') /\ Cardinality(stored) \in Nat
        /\ Cardinality(stored') \in Nat /\ Cardinality(stored') <= Cardinality(stored) + 1
    BY <1>1, CountOne DEF UIInv
  <1>5. Cardinality(stored) <= Len(values) + faults /\ faults \in Nat
    BY MaxFaultsAssumption DEF UIInv, OrphansAreCounted
  <1>6. OrphansAreCounted'
    BY <1>1, <1>3, <1>4, <1>5 DEF OrphansAreCounted
  <1>7. QED
    BY <1>1, <1>2, <1>4, <1>6 DEF UIInv, NeverOutOfSync

LEMMA InsertFullStep ==
    ASSUME UIInv, NEW p \in Pointers, InsertFull(p)
    PROVE  UIInv'
  <1>1. PICK i \in 1..Len(values) :
           WriteEvicting(p, i) /\ stored' = (stored \ {values[i]}) \cup {p}
    BY DEF InsertFull, StoredInstead
  <1>2. faults' = faults /\ p \notin stored
    BY DEF InsertFull
  <1>3. IInv' /\ Members' = (Members \ {values[i]}) \cup {p}
    BY <1>1, WriteEvictingStep DEF UIInv
  <1>4. values[i] \in stored
    BY DEF UIInv, NeverOutOfSync, Members
  <1>5. Len(values') = Len(values) /\ Len(values) \in Nat
    <2>1. values \in Seq(Pointers) /\ Len(values) \in Nat
      BY DEF UIInv, IInv, TypeOK
    <2>2. /\ SwapRemove(values, i) \in Seq(Pointers)
          /\ Len(SwapRemove(values, i)) = Len(values) - 1
      BY <2>1, SwapRemoveShape
    <2>3. values' = Append(SwapRemove(values, i), p)
      BY <1>1 DEF WriteEvicting, Push
    <2>4. QED
      BY <2>1, <2>2, <2>3
  <1>6. /\ IsFiniteSet(stored \ {values[i]}) /\ Cardinality(stored) \in Nat
        /\ Cardinality(stored \ {values[i]}) = Cardinality(stored) - 1
    BY <1>4, CountOne DEF UIInv
  <1>7. /\ IsFiniteSet(stored') /\ Cardinality(stored') \in Nat
        /\ Cardinality(stored') <= Cardinality(stored \ {values[i]}) + 1
    BY <1>1, <1>6, CountOne
  <1>8. Cardinality(stored) <= Len(values) + faults /\ faults \in Nat
    BY MaxFaultsAssumption DEF UIInv, OrphansAreCounted
  <1>9. OrphansAreCounted'
    BY <1>2, <1>5, <1>6, <1>7, <1>8 DEF OrphansAreCounted
  <1>10. QED
    BY <1>1, <1>2, <1>3, <1>7, <1>9 DEF UIInv, NeverOutOfSync

\* A pointer leaves the bag and one (this or another) leaves the table.
LEMMA OneLeavesBoth ==
    ASSUME UIInv, NEW i \in 1..Len(values), TakeOut(i),
           NEW p \in stored, stored' = stored \ {p}, p \notin Members',
           faults' \in 0..MaxFaults, faults <= faults'
    PROVE  UIInv'
  <1>1. /\ IInv' /\ Len(values') = Len(values) - 1
        /\ Members' = Members \ {values[i]}
    BY TakeOutStep DEF UIInv
  <1>2. /\ IsFiniteSet(stored') /\ Cardinality(stored) \in Nat
        /\ Cardinality(stored') = Cardinality(stored) - 1
    BY CountOne DEF UIInv
  <1>3. /\ Cardinality(stored) <= Len(values) + faults
        /\ faults \in Nat /\ faults' \in Nat /\ Len(values) \in Nat
    BY MaxFaultsAssumption DEF UIInv, OrphansAreCounted, IInv, TypeOK
  <1>4. OrphansAreCounted'
    BY <1>1, <1>2, <1>3 DEF OrphansAreCounted
  <1>5. QED
    BY <1>1, <1>2, <1>4 DEF UIInv, NeverOutOfSync

\* What do_remove leaves in the bag is never the pointer it was asked for: it
\* either hit that pointer or was asked for an orphan.
LEMMA AskedForIsOut ==
    ASSUME UIInv, NEW p \in Pointers, InRange(p), TakeOut(index[p])
    PROVE  p \notin Members'
  <1>1. index[p] \in 1..Len(values) /\ Members' = Members \ {values[index[p]]}
    BY TakeOutStep DEF UIInv, InRange
  <1>2. p \in Members => values[index[p]] = p
    BY StoredKeyHits DEF UIInv
  <1>3. QED
    BY <1>1, <1>2

LEMMA InsertPanicsStep ==
    ASSUME UIInv, InsertPanics
    PROVE  UIInv'
  <1>1. PICK i \in 1..Len(values) : TakeOut(i) /\ stored' = stored \ {values[i]}
    BY DEF InsertPanics
  <1>2. faults' \in 0..MaxFaults /\ faults <= faults'
    BY MaxFaultsAssumption DEF InsertPanics, Panics, UIInv
  <1>3. values[i] \in stored /\ values[i] \notin Members'
    BY <1>1, TakeOutStep DEF UIInv, NeverOutOfSync, Members
  <1>4. QED
    BY <1>1, <1>2, <1>3, OneLeavesBoth

LEMMA ReplaceStep ==
    ASSUME UIInv, NEW p \in Pointers, NEW r \in Pointers, Replace(p, r)
    PROVE  UIInv'
  <1> DEFINE i == index[p]
             s == SwapRemove(values, i)
             ix == Reindexed(values, i)
  <1>1. /\ p \in stored /\ i \in 1..Len(values)
        /\ r \notin stored /\ r \notin Members
        /\ Push(s, ix, r)
        /\ stored' = (stored \ {p}) \cup {r} /\ faults' = faults
    BY DEF Replace, InRange
  <1>2. values \in Seq(Pointers) /\ Len(values) \in Nat /\ Len(values) <= Capacity /\ IInv
    BY DEF UIInv, IInv, TypeOK
  <1>3. s \in Seq(Pointers) /\ Len(s) = Len(values) - 1 /\ Len(s) < Capacity
    BY <1>1, <1>2, SwapRemoveShape, CapacityAssumption
  <1>4. /\ \A j \in 1..Len(s) : ix[s[j]] = j
        /\ ix \in [Pointers -> 0..Capacity]
        /\ {s[j] : j \in 1..Len(s)} = Members \ {values[i]}
    BY <1>1, <1>2, SwapRemoveKeepsKeys
  <1>5. \A j \in 1..Len(s) : s[j] # r
    BY <1>1, <1>4
  <1>6. IInv' /\ Members' = {s[j] : j \in 1..Len(s)} \cup {r}
    BY <1>1, <1>3, <1>4, <1>5, PushKeepsKeys
  <1>7. Len(values') = Len(values)
    BY <1>1, <1>2, <1>3 DEF Push
  <1>8. p \in Members => values[i] = p
    BY <1>2, StoredKeyHits
  <1>9. /\ IsFiniteSet(stored \ {p}) /\ Cardinality(stored) \in Nat
        /\ Cardinality(stored \ {p}) = Cardinality(stored) - 1
    BY <1>1, CountOne DEF UIInv
  <1>10. /\ IsFiniteSet(stored') /\ Cardinality(stored') \in Nat
         /\ Cardinality(stored') <= Cardinality(stored \ {p}) + 1
    BY <1>1, <1>9, CountOne
  <1>11. Cardinality(stored) <= Len(values) + faults /\ faults \in Nat
    BY MaxFaultsAssumption DEF UIInv, OrphansAreCounted
  <1>12. OrphansAreCounted'
    BY <1>1, <1>2, <1>7, <1>9, <1>10, <1>11 DEF OrphansAreCounted
  <1>13. NeverOutOfSync'
    BY <1>1, <1>4, <1>6, <1>8 DEF UIInv, NeverOutOfSync
  <1>14. QED
    BY <1>1, <1>6, <1>10, <1>12, <1>13 DEF UIInv

LEMMA ReplacePanicsStep ==
    ASSUME UIInv, NEW p \in Pointers, ReplacePanics(p)
    PROVE  UIInv'
  <1>1. /\ index[p] \in 1..Len(values) /\ TakeOut(index[p])
        /\ faults < MaxFaults /\ faults' = faults + 1 /\ stored' = stored
    BY DEF ReplacePanics, InRange, Panics
  <1>2. /\ IInv' /\ Len(values') = Len(values) - 1
        /\ Members' = Members \ {values[index[p]]}
    BY <1>1, TakeOutStep DEF UIInv
  <1>3. /\ Cardinality(stored) <= Len(values) + faults
        /\ Cardinality(stored) \in Nat /\ Len(values) \in Nat /\ faults \in Nat
    BY MaxFaultsAssumption, FS_CardinalityType DEF UIInv, OrphansAreCounted, IInv, TypeOK
  <1>4. OrphansAreCounted'
    BY <1>1, <1>2, <1>3 DEF OrphansAreCounted
  <1>5. faults' \in 0..MaxFaults
    BY <1>1, <1>3, MaxFaultsAssumption
  <1>6. QED
    BY <1>1, <1>2, <1>4, <1>5 DEF UIInv, NeverOutOfSync

\* A removal whose swap_remove does not panic, in either order.
LEMMA RemovalStep ==
    ASSUME UIInv, NEW p \in stored, InRange(p), TakeOut(index[p]),
           stored' = stored \ {p}, faults' = faults
    PROVE  UIInv'
  <1>1. p \in Pointers /\ index[p] \in 1..Len(values)
    BY DEF UIInv, InRange
  <1>2. p \notin Members'
    BY <1>1, AskedForIsOut
  <1>3. faults' \in 0..MaxFaults /\ faults <= faults'
    BY MaxFaultsAssumption DEF UIInv
  <1>4. QED
    BY <1>1, <1>2, <1>3, OneLeavesBoth

LEMMA TableFirstStep ==
    ASSUME UIInv, NEW p \in Pointers, TableFirst(p)
    PROVE  UIInv'
  <1>1. p \in stored /\ stored' = stored \ {p} /\ faults' = faults
    BY DEF TableFirst
  <1>2. CASE InRange(p)
    <2>1. TakeOut(index[p])
      BY <1>2 DEF TableFirst
    <2>2. QED
      BY <1>1, <1>2, <2>1, RemovalStep
  <1>3. CASE ~InRange(p)
    <2>1. UNCHANGED <<values, index>>
      BY <1>3 DEF TableFirst
    <2>2. p \notin Members
      BY <1>3, StoredKeyHits DEF UIInv, InRange
    <2>3. IInv' /\ Members' = Members
      BY <2>1 DEF UIInv, IInv, TypeOK, KeysAreIndexes, Members
    <2>4. /\ IsFiniteSet(stored') /\ Cardinality(stored') \in Nat
          /\ Cardinality(stored') <= Cardinality(stored) /\ Cardinality(stored) \in Nat
      BY <1>1, CountOne DEF UIInv
    <2>5. /\ Cardinality(stored) <= Len(values) + faults
          /\ faults \in Nat /\ Len(values) \in Nat
      BY MaxFaultsAssumption DEF UIInv, OrphansAreCounted, IInv, TypeOK
    <2>6. OrphansAreCounted'
      BY <1>1, <2>1, <2>4, <2>5 DEF OrphansAreCounted
    <2>7. QED
      BY <1>1, <2>2, <2>3, <2>4, <2>6 DEF UIInv, NeverOutOfSync
  <1>4. QED
    BY <1>2, <1>3

LEMMA LayerFirstStep ==
    ASSUME UIInv, NEW p \in Pointers, LayerFirst(p)
    PROVE  UIInv'
  BY RemovalStep DEF LayerFirst

LEMMA UInductiveInvariant == USpec => []UIInv
  <1>1. UInit => UIInv
    <2> SUFFICES ASSUME UInit PROVE UIInv
      OBVIOUS
    <2>1. values = <<>> /\ Len(values) = 0 /\ stored = {} /\ faults = 0
      BY DEF UInit, Init
    <2>2. IInv /\ Members = {}
      BY <2>1, CapacityAssumption DEF UInit, Init, IInv, TypeOK, KeysAreIndexes, Members
    <2>3. IsFiniteSet(stored) /\ Cardinality(stored) = 0
      BY <2>1, FS_EmptySet
    <2>4. QED
      BY <2>1, <2>2, <2>3, MaxFaultsAssumption DEF UIInv, NeverOutOfSync, OrphansAreCounted
  <1>2. UIInv /\ [UNext]_uvars => UIInv'
    <2> SUFFICES ASSUME UIInv, [UNext]_uvars PROVE UIInv'
      OBVIOUS
    <2>1. CASE InsertPanics
      BY <2>1, InsertPanicsStep
    <2>2. ASSUME NEW p \in Pointers, InsertWithRoom(p) PROVE UIInv'
      BY <2>2, InsertWithRoomStep
    <2>3. ASSUME NEW p \in Pointers, InsertFull(p) PROVE UIInv'
      BY <2>3, InsertFullStep
    <2>4. ASSUME NEW p \in Pointers, NEW r \in Pointers, Replace(p, r) PROVE UIInv'
      BY <2>4, ReplaceStep
    <2>5. ASSUME NEW p \in Pointers, ReplacePanics(p) PROVE UIInv'
      BY <2>5, ReplacePanicsStep
    <2>6. ASSUME NEW p \in Pointers, TableFirst(p) PROVE UIInv'
      BY <2>6, TableFirstStep
    <2>7. ASSUME NEW p \in Pointers, LayerFirst(p) PROVE UIInv'
      BY <2>7, LayerFirstStep
    <2>8. CASE UNCHANGED uvars
      BY <2>8 DEF uvars, UIInv, IInv, TypeOK, KeysAreIndexes, Members,
                  NeverOutOfSync, OrphansAreCounted
    <2>9. QED
      BY <2>1, <2>2, <2>3, <2>4, <2>5, <2>6, <2>7, <2>8 DEF UNext
  <1>3. QED
    BY <1>1, <1>2, PTL DEF USpec

\* After any number of panics in any operations, an eviction finds its victim
\* in the table.
THEOREM EvictionsFindTheirVictim == USpec => []NeverOutOfSync
  BY UInductiveInvariant, PTL DEF UIInv

\* The table never holds more than the bag does plus one pointer per panic.
THEOREM OrphansBoundedByPanics == USpec => []OrphansAreCounted
  BY UInductiveInvariant, PTL DEF UIInv

\* The Keys of the pointers in the bag stay right while orphans with stale
\* Keys are removed through them.
THEOREM KeysSurvivePanics == USpec => []KeysAreIndexes
  BY UInductiveInvariant, PTL DEF UIInv, IInv
=============================================================================
