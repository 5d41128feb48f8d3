--------------------------- MODULE ShardProperties ---------------------------
(***************************************************************************)
(* What is checked of a shard.                                             *)
(***************************************************************************)
EXTENDS Shard

OpKinds == {"idle", "answered", "condemning", "occupied", "vacant"}

TableShape(tab) ==
    tab \in [slot : [Pointers -> SlotsIn(tab.buckets) \cup {Nowhere}],
             buckets : Nat, growth : Int]

Ops == [at : OpKinds, ptr : Pointers \cup {None}, key : Keys \cup {None},
        slot : Slots \cup {Nowhere}, buckets : Nat]

InEntry(t) == op[t].at \in {"occupied", "vacant"}

\* The shape of the state; the write lock is held by the thread that is inside
\* an entry and by nobody else.
TypeOK ==
    /\ TableShape(table)
    /\ layer \subseteq Pointers
    /\ expired \subseteq Stored
    /\ writer \in Threads \cup {None}
    /\ op \in [Threads -> Ops]
    /\ \A t \in Threads : InEntry(t) <=> writer = t

\* The layer knows exactly the pointers in the table, so an eviction always
\* finds its victim there (the expect "layer shard and map out of sync" in
\* Write::remove) and a layer is never asked to remove what it does not know.
InSync == layer = Stored

\* A key is in the table at most once, and no two pointers share a bucket.
OneEntryPerKey ==
    \A p, q \in Stored :
        KeyOf[p] = KeyOf[q] \/ table.slot[p] = table.slot[q] => p = q

\* The bucket an OccupiedEntry points to still holds its pointer, and the slot
\* of a VacantEntry is still free and its key still absent, when the caller
\* comes to use them.
EntryIntact ==
    \A t \in Threads :
        /\ op[t].at = "occupied" =>
              op[t].ptr \in Stored /\ table.slot[op[t].ptr] = op[t].slot
        /\ op[t].at = "vacant" =>
              /\ op[t].slot \in FreeSlots(table)
              /\ \A p \in Stored : KeyOf[p] # op[t].key

\* The room that opening a VacantEntry made is there when it is filled, however
\* much code the caller runs in between: insert_in_slot, which does not make
\* room and does not check, never takes growth_left below zero.
RoomReserved ==
    /\ table.growth >= 0 /\ Tombstones(table) >= 0
    /\ \A t \in Threads : op[t].at = "vacant" => table.growth > 0

\* Whatever the interleaving, a shard holds no more than its capacity.
WithinCapacity == Cardinality(Stored) <= Capacity

\* A get that found its pointer expired is the removal of that pointer: layer.rs
\* says of read_ref "If result is remove, remove() will be called after with
\* the same pointer".  When get is over, the layer no longer knows it.
RemovedAfterRemove ==
    [][\A t \in Threads :
          op[t].at = "condemning" /\ op'[t].at # "condemning"
              => op[t].ptr \notin layer']_vars

\* A get removes no bystander: outside an entry, a pointer leaves the table only
\* because a get condemned that very pointer, whatever has been moved into or
\* inserted at the bucket the get remembers in the meantime.
OnlyTheCondemned ==
    [][\A p \in Stored \ Stored' :
          writer # None \/ writer' # None
          \/ \E t \in Threads : op[t].at = "condemning" /\ op[t].ptr = p
                                 /\ op'[t].at = "answered"]_vars

\* A get that has condemned a pointer gets the write lock and answers.
CondemningEnds ==
    \A t \in Threads : op[t].at = "condemning" ~> op[t].at = "answered"

-----------------------------------------------------------------------------
\* The shard as the map its callers see.  A thread that is condemning a pointer
\* has already found nothing; an entry has already found what it holds.
Map == [k \in Keys |-> IF \E p \in Stored : KeyOf[p] = k
                       THEN CHOOSE p \in Stored : KeyOf[p] = k ELSE None]

Quiet == "quiet"

Answer ==
    [t \in Threads |-> CASE op[t].at = "idle" -> Quiet
                         [] op[t].at \in {"condemning", "vacant"} -> None
                         [] OTHER -> op[t].ptr]

Abstract == INSTANCE CacheMap WITH map <- Map, stale <- expired, answer <- Answer

\* Every get, entry, insert, replace, remove and expiry takes effect at one
\* instant: no lookup finds a stale pointer, an entry's write acts on what the
\* entry saw, and a mapping that is not stale goes only by an entry or by an
\* eviction at capacity.  Deadlines do not move here (Touches is FALSE).
ImplementsCacheMap == Abstract!Spec
=============================================================================
