------------------------------ MODULE RawTable -------------------------------
(***************************************************************************)
(* hashbrown::raw::RawTable 0.14, the table inside every shard, as the     *)
(* cache uses it (sync.rs): where each stored pointer sits, how many       *)
(* buckets there are and how many insertions are left before the table has *)
(* to make room (growth_left).  This is a library, not code of the         *)
(* repository: only what the cache can observe of it is described.         *)
(*                                                                         *)
(* A bucket that is erased becomes EMPTY (and growth_left goes up) or a    *)
(* tombstone (and it does not), according to the control bytes around it;  *)
(* a slot to insert into is EMPTY (growth_left goes down) or a tombstone.  *)
(* The table keeps no control bytes here: the choices are left open and    *)
(* only the number of tombstones is kept.  An erased bucket can only be a  *)
(* tombstone inside a run of Group::WIDTH buckets that are not EMPTY.      *)
(***************************************************************************)
EXTENDS Integers, FiniteSets, Functions

CONSTANTS Pointers,   \* the values stored: Arc allocations, as many as addresses
          Slots,      \* the bucket numbers the probe sequences may yield (a bound)
          GroupWidth  \* Group::WIDTH: 4, 8 or 16 according to the build

ASSUME PointersAssumption == IsFiniteSet(Pointers)
ASSUME SlotsAssumption == Slots \subseteq Nat
ASSUME GroupWidthAssumption == GroupWidth \in Nat

Nowhere == -1

\* The pointers in the table.
Items(tab) == {p \in Pointers : tab.slot[p] # Nowhere}

ItemsAt(tab, i) == {p \in Pointers : tab.slot[p] = i}

\* bucket_mask_to_capacity: the most items and tombstones b buckets may hold.
FullCapacity(b) == IF b <= 8 THEN b - 1 ELSE (b \div 8) * 7

Tombstones(tab) ==
    FullCapacity(tab.buckets) - tab.growth - Cardinality(Items(tab))

SlotsIn(b) == {i \in Slots : i < b}

\* The slots find_insert_slot may return.
FreeSlots(tab) == {i \in SlotsIn(tab.buckets) : ItemsAt(tab, i) = {}}

\* with_capacity, given the bucket count that capacity_to_buckets computes.
EmptyTable(b) ==
    [slot |-> [p \in Pointers |-> Nowhere],
     buckets |-> b,
     growth |-> FullCapacity(b)]

\* Every item placed anew, without tombstones.
Rehashed(tab, b) ==
    {[slot |-> [p \in Pointers |-> IF p \in Items(tab) THEN f[p] ELSE Nowhere],
      buckets |-> b,
      growth |-> FullCapacity(b) - Cardinality(Items(tab))] :
        f \in Injection(Items(tab), SlotsIn(b))}

\* reserve(1): in place when at least half of the table is tombstones, so the
\* number of buckets stays what it was although every item may have moved.
Reserve(tab) ==
    IF tab.growth > 0 THEN {tab}
    ELSE IF Cardinality(Items(tab)) + 1 <= FullCapacity(tab.buckets) \div 2
         THEN Rehashed(tab, tab.buckets)
         ELSE Rehashed(tab, 2 * tab.buckets)

\* remove and remove_entry, of an item that was found.
MayLeaveTombstone(tab) == FullCapacity(tab.buckets) - tab.growth >= GroupWidth

Erase(tab, p) ==
    {[tab EXCEPT !.slot[p] = Nowhere, !.growth = g] :
        g \in {h \in {tab.growth, tab.growth + 1} :
                  h = tab.growth => MayLeaveTombstone(tab)}}

\* The same of several items at once, one after the other.
EraseAll(tab, X) ==
    {[tab EXCEPT !.slot = [p \in Pointers |-> IF p \in X THEN Nowhere ELSE tab.slot[p]],
                 !.growth = g] :
        g \in {h \in tab.growth..(tab.growth + Cardinality(X)) :
                  h < tab.growth + Cardinality(X) => MayLeaveTombstone(tab)}}

\* A write through a bucket pointer: whatever was there is gone.
Overwrite(tab, i, p) ==
    [tab EXCEPT !.slot = [q \in Pointers |->
        IF q = p THEN i ELSE IF tab.slot[q] = i THEN Nowhere ELSE tab.slot[q]]]

\* insert_in_slot
InsertInSlot(tab, i, p) ==
    {[Overwrite(tab, i, p) EXCEPT !.growth = g] :
        g \in {h \in {tab.growth - 1, tab.growth} :
                  h >= 0 /\ (h = tab.growth => Tombstones(tab) > 0)}}
=============================================================================
