------------------------------- MODULE Unwind -------------------------------
(***************************************************************************)
(* A shard whose layer is ExpireAfterWriteLayer (or ExpireAfterReadLayer)  *)
(* followed by EvictRandom, when the user's expire_at_fn panics.  Every    *)
(* write of the layer makes room in the bag, calls expire_at_fn, and only  *)
(* then builds the new pointer, so a panic unwinds out of an operation     *)
(* that is half done.  parking_lot's lock is not poisoned by that: the     *)
(* shard stays in use.                                                     *)
(*                                                                         *)
(* A replace forgets the old pointer before the write.  When the write     *)
(* panics, the old pointer is still in the table and no longer in the bag: *)
(* an orphan, whose Key is the index it once had.  Removing an orphan      *)
(* trusts that Key: the bag then gives up whichever pointer is there now,  *)
(* which becomes an orphan itself, or panics if it is that short.          *)
(*                                                                         *)
(* Each step is one operation of the cache under the exclusive lock.  The  *)
(* keys are left out: a pointer not in use stands for a value of the key   *)
(* the operation is about.                                                 *)
(***************************************************************************)
EXTENDS Bag

CONSTANT MaxFaults   \* a bound on the calls of expire_at_fn that panic

ASSUME MaxFaultsAssumption == MaxFaults \in Nat

VARIABLES stored,   \* the pointers in Shard::values
          faults    \* how many calls of expire_at_fn have panicked

uvars == <<values, index, stored, faults>>

UInit == Init /\ stored = {} /\ faults = 0

-----------------------------------------------------------------------------
\* The Key of p is an index the bag has: swap_remove does not panic.
InRange(p) == index[p] \in 1..Len(values)

\* do_remove of whatever is at i.
TakeOut(i) ==
    /\ values' = SwapRemove(values, i)
    /\ index' = Reindexed(values, i)

Panics ==
    /\ faults < MaxFaults
    /\ faults' = faults + 1

\* Mutation: the victim is not taken out of the table.
StoredBesides(p, i) == stored \cup {p}

\* What is stored once the victim at i has made room for p.
StoredInstead(p, i) == (stored \ {values[i]}) \cup {p}

\* VacantEntry::insert
InsertWithRoom(p) ==
    /\ p \notin stored
    /\ WriteWithRoom(p)
    /\ stored' = stored \cup {p}
    /\ UNCHANGED faults

InsertFull(p) ==
    /\ p \notin stored
    /\ \E i \in 1..Len(values) :
          WriteEvicting(p, i) /\ stored' = StoredInstead(p, i)
    /\ UNCHANGED faults

\* insert, when expire_at_fn panics: the victim is gone and nothing came
\* instead.  With room in the bag such an insert changes nothing.
InsertPanics ==
    /\ Len(values) = Capacity
    /\ \E i \in 1..Len(values) :
          TakeOut(i) /\ stored' = stored \ {values[i]}
    /\ Panics

\* OccupiedEntry::replace.  When the Key of p is out of range, forgetting p
\* panics before anything has changed.
Replace(p, r) ==
    /\ p \in stored /\ InRange(p)
    /\ r \notin stored \cup Members
    /\ Push(SwapRemove(values, index[p]), Reindexed(values, index[p]), r)
    /\ stored' = (stored \ {p}) \cup {r}
    /\ UNCHANGED faults

\* replace, when expire_at_fn panics: p is forgotten and stays in the table.
ReplacePanics(p) ==
    /\ p \in stored /\ InRange(p)
    /\ TakeOut(index[p])
    /\ Panics
    /\ UNCHANGED stored

\* Mutation: the layer is not told of a removal.
RemoveUntold(p) ==
    /\ p \in stored
    /\ stored' = stored \ {p}
    /\ UNCHANGED <<values, index, faults>>

\* OccupiedEntry::remove, and get of an expired pointer: out of the table,
\* then out of the bag, where a Key out of range panics.
TableFirst(p) ==
    /\ p \in stored
    /\ stored' = stored \ {p}
    /\ IF InRange(p) THEN TakeOut(index[p]) ELSE UNCHANGED <<values, index>>
    /\ UNCHANGED faults

\* entry and iter, of an expired pointer: out of the bag, then out of the
\* table.  A Key out of range panics every time the key is asked for.
LayerFirst(p) ==
    /\ p \in stored /\ InRange(p)
    /\ TakeOut(index[p])
    /\ stored' = stored \ {p}
    /\ UNCHANGED faults

UNext ==
    \/ InsertPanics
    \/ \E p \in Pointers :
          \/ InsertWithRoom(p) \/ InsertFull(p)
          \/ ReplacePanics(p) \/ TableFirst(p) \/ LayerFirst(p)
          \/ \E r \in Pointers : Replace(p, r)

USpec == UInit /\ [][UNext]_uvars

-----------------------------------------------------------------------------
\* However many operations were unwound, everything the bag may evict is in
\* the table: the expect "layer shard and map out of sync" in Write::remove
\* does not fire.
NeverOutOfSync == Members \subseteq stored

\* A panic leaves at most one orphan behind, and removing an orphan makes no
\* more of them, although it knocks another pointer out of the bag.  So the
\* shard outgrows its capacity by no more than the panics there were.
OrphansAreCounted == Cardinality(stored) <= Len(values) + faults
=============================================================================
