-------------------------------- MODULE Shard --------------------------------
(***************************************************************************)
(* One shard of SyncCache (sync.rs) whose layer is an expiry layer         *)
(* (expire.rs, READ_LOCK = Ref) in front of an eviction layer that keeps   *)
(* the contract of EvictingLayer.  Threads work on the shard behind its    *)
(* RwLock.                                                                 *)
(*                                                                         *)
(* What one lock acquisition covers is one step, except for an Entry, whose *)
(* guard the caller holds across its own code: opening an entry takes      *)
(* writer, and using or dropping it gives writer back.  A get that meets   *)
(* an expired pointer lets go of the read lock, remembers the bucket, and  *)
(* takes the write lock later: the thread is then "condemning".            *)
(*                                                                         *)
(* A pointer is an Arc allocation and its key never changes.  An allocation *)
(* can be used for a new value once nobody refers to it.                   *)
(***************************************************************************)
EXTENDS RawTable

CONSTANTS Threads, Keys,
          KeyOf,        \* the key of the value each allocation may hold
          Capacity,     \* capacity_per_shard
          MinBuckets,   \* the buckets of a table made for that capacity
          Touches,      \* TRUE for ExpireAfterRead, whose reads renew the deadline
          None          \* no pointer, no thread

ASSUME KeyOfAssumption == KeyOf \in [Pointers -> Keys]
ASSUME CapacityAssumption == Capacity \in Nat \ {0}
ASSUME MinBucketsAssumption == MinBuckets \in Nat /\ FullCapacity(MinBuckets) >= 1
ASSUME NoneAssumption == None \notin Pointers /\ None \notin Threads /\ None \notin Keys

VARIABLES table,     \* Shard::values
          layer,     \* the pointers Shard::layer knows
          expired,   \* the stored pointers whose deadline has passed
          writer,    \* the thread inside an Entry's write guard, or None
          op         \* what each thread is in the middle of

vars == <<table, layer, expired, writer, op>>

Stored == Items(table)

-----------------------------------------------------------------------------
Op(at, p, k, i, b) == [at |-> at, ptr |-> p, key |-> k, slot |-> i, buckets |-> b]

Idle           == Op("idle", None, None, Nowhere, 0)
Answered(p)    == Op("answered", p, None, Nowhere, 0)      \* an Option<Pointer>
Condemning(p)  == Op("condemning", p, None, table.slot[p], table.buckets)
Occupied(p, i) == Op("occupied", p, None, i, 0)            \* OccupiedEntry
Vacant(k, i)   == Op("vacant", None, k, i, 0)              \* VacantEntry

Init ==
    /\ table = EmptyTable(MinBuckets)
    /\ layer = {}
    /\ expired = {}
    /\ writer = None
    /\ op = [t \in Threads |-> Idle]

\* Arc::new: an allocation that neither the shard nor any thread refers to.
Fresh(p) == p \notin Stored /\ p \notin layer /\ \A t \in Threads : op[t].ptr # p

Continue(t, o) == op' = [op EXCEPT ![t] = o]

-----------------------------------------------------------------------------
\* get, when the key is not in the table.
GetMissing(t, k) ==
    /\ op[t] = Idle /\ writer = None
    /\ \A p \in Stored : KeyOf[p] # k
    /\ Continue(t, Answered(None))
    /\ UNCHANGED <<table, layer, expired, writer>>

\* get, when read_ref says Retain.
GetRetain(t, p) ==
    /\ op[t] = Idle /\ writer = None
    /\ p \in Stored \ expired
    /\ Continue(t, Answered(p))
    /\ UNCHANGED <<table, layer, expired, writer>>

\* get, when read_ref says Remove: all that is known is where the pointer was.
GetCondemn(t, p) ==
    /\ op[t] = Idle /\ writer = None
    /\ p \in Stored \cap expired
    /\ Continue(t, Condemning(p))
    /\ expired' = IF Touches THEN expired \ {p} ELSE expired
    /\ UNCHANGED <<table, layer, writer>>

\* Mutation: no Arc::ptr_eq, whatever sits in the remembered bucket is removed.
LookupByBucket(o) ==
    {p \in Stored : IF table.buckets > o.buckets THEN p = o.ptr ELSE table.slot[p] = o.slot}

\* What the write phase of get finds of the pointer it condemned: anywhere by
\* address if the table has grown, else only in the bucket it remembers.
Lookup(o) ==
    {p \in Stored : p = o.ptr /\ (table.buckets > o.buckets \/ table.slot[p] = o.slot)}

\* Mutation: a get whose pointer is gone keeps looking for it.
GetRemoveFound(t) ==
    /\ op[t].at = "condemning" /\ writer = None
    /\ \E p \in Lookup(op[t]) :
          /\ table' \in Erase(table, p)
          /\ layer' = layer \ {op[t].ptr}
          /\ expired' = expired \ {p}
    /\ Continue(t, Answered(None))
    /\ UNCHANGED writer

GetRemove(t) ==
    /\ op[t].at = "condemning" /\ writer = None
    /\ \/ /\ Lookup(op[t]) = {}
          /\ UNCHANGED <<table, layer, expired>>
       \/ \E p \in Lookup(op[t]) :
             /\ table' \in Erase(table, p)
             /\ layer' = layer \ {op[t].ptr}
             /\ expired' = expired \ {p}
    /\ Continue(t, Answered(None))
    /\ UNCHANGED writer

-----------------------------------------------------------------------------
\* Mutation: entry takes the lock in shared mode.
EnterShared(t) == op[t] = Idle /\ writer' = t

\* entry takes the write lock; find_or_find_insert_slot makes room for one
\* more before it looks, found or not.
Enter(t) == op[t] = Idle /\ writer = None /\ writer' = t

\* Mutation: no room is reserved.
EntryVacantUnreserved(t, k) ==
    /\ Enter(t)
    /\ \A p \in Stored : KeyOf[p] # k
    /\ \E i \in FreeSlots(table) : Continue(t, Vacant(k, i))
    /\ UNCHANGED <<table, layer, expired>>

EntryVacant(t, k) ==
    /\ Enter(t)
    /\ \A p \in Stored : KeyOf[p] # k
    /\ table' \in Reserve(table)
    /\ \E i \in FreeSlots(table') : Continue(t, Vacant(k, i))
    /\ UNCHANGED <<layer, expired>>

\* Mutation: the bucket is looked up before room is made.
EntryOccupiedEarly(t, p) ==
    /\ Enter(t)
    /\ p \in Stored \ expired
    /\ table' \in Reserve(table)
    /\ Continue(t, Occupied(p, table.slot[p]))
    /\ UNCHANGED <<layer, expired>>

\* entry, when read_mut says Retain.
EntryOccupied(t, p) ==
    /\ Enter(t)
    /\ p \in Stored \ expired
    /\ table' \in Reserve(table)
    /\ Continue(t, Occupied(p, table'.slot[p]))
    /\ UNCHANGED <<layer, expired>>

\* entry, when read_mut says Remove: the slot it frees is the one to insert in.
EntryExpired(t, p) ==
    /\ Enter(t)
    /\ p \in Stored \cap expired
    /\ \E tab \in Reserve(table) :
          /\ table' \in Erase(tab, p)
          /\ Continue(t, Vacant(KeyOf[p], tab.slot[p]))
    /\ layer' = layer \ {p}
    /\ expired' = expired \ {p}

\* Mutation: the layer gives a member up without Write::remove.
EvictionsUntold(S) ==
    IF Cardinality(S) = Capacity
    THEN {[layer |-> S \ {v}, table |-> table] : v \in S}
    ELSE {[layer |-> S, table |-> table]}

\* What a layer's write does to the members S and to the table before the new
\* pointer exists: when the layer is full, one member is given up, and
\* Write::remove takes it out of the table.
Evictions(S) ==
    IF Cardinality(S) = Capacity
    THEN UNION {{[layer |-> S \ {v}, table |-> tab] : tab \in Erase(table, v)} : v \in S}
    ELSE {[layer |-> S, table |-> table]}

\* Mutation: the entry's guard is never given back.
LeaveLocked(t, o) == UNCHANGED writer /\ Continue(t, o)

\* Both kinds of entry are consumed by using them: the guard goes with them.
Leave(t, o) == writer' = None /\ Continue(t, o)

\* OccupiedEntry::replace: the layer forgets the old pointer, takes the new
\* one, and the new one overwrites the bucket the entry points to.
Replace(t, p) ==
    /\ op[t].at = "occupied"
    /\ Fresh(p) /\ KeyOf[p] = KeyOf[op[t].ptr]
    /\ \E e \in Evictions(layer \ {op[t].ptr}) :
          /\ table' = Overwrite(e.table, op[t].slot, p)
          /\ layer' = e.layer \cup {p}
    /\ expired' = expired \cap Items(table')
    /\ Leave(t, Answered(p))

\* OccupiedEntry::remove
Remove(t) ==
    /\ op[t].at = "occupied"
    /\ table' \in Erase(table, op[t].ptr)
    /\ layer' = layer \ {op[t].ptr}
    /\ expired' = expired \ {op[t].ptr}
    /\ Leave(t, Answered(op[t].ptr))

\* VacantEntry::insert: the slot was chosen when the entry was opened.
Insert(t, p) ==
    /\ op[t].at = "vacant"
    /\ Fresh(p) /\ KeyOf[p] = op[t].key
    /\ \E e \in Evictions(layer) :
          /\ table' \in InsertInSlot(e.table, op[t].slot, p)
          /\ layer' = e.layer \cup {p}
    /\ expired' = expired \cap Items(table')
    /\ Leave(t, Answered(p))

\* OccupiedEntry::into_pointer
IntoPointer(t) ==
    /\ op[t].at = "occupied"
    /\ Leave(t, Answered(op[t].ptr))
    /\ UNCHANGED <<table, layer, expired>>

\* An entry dropped unused (remove_if whose closure says no, and the like).
DropEntry(t) ==
    /\ op[t].at \in {"occupied", "vacant"}
    /\ Leave(t, Idle)
    /\ UNCHANGED <<table, layer, expired>>

-----------------------------------------------------------------------------
\* The caller is done with the pointer it was given.
DropPointer(t) ==
    /\ op[t].at = "answered"
    /\ Continue(t, Idle)
    /\ UNCHANGED <<table, layer, expired, writer>>

\* The clock passes a stored pointer's deadline.
Expire(p) ==
    /\ p \in Stored \ expired
    /\ expired' = expired \cup {p}
    /\ UNCHANGED <<table, layer, writer, op>>

Release(t) ==
    \/ Remove(t) \/ IntoPointer(t) \/ DropEntry(t)
    \/ \E p \in Pointers : Replace(t, p) \/ Insert(t, p)

Next ==
    \/ \E t \in Threads, k \in Keys : GetMissing(t, k) \/ EntryVacant(t, k)
    \/ \E t \in Threads, p \in Pointers :
          \/ GetRetain(t, p) \/ GetCondemn(t, p)
          \/ EntryOccupied(t, p) \/ EntryExpired(t, p)
    \/ \E t \in Threads : GetRemove(t) \/ Release(t) \/ DropPointer(t)
    \/ \E p \in Pointers : Expire(p)

Spec == Init /\ [][Next]_vars

\* A caller uses or drops the entry it opened, and parking_lot's lock hands
\* itself to a waiting writer sooner or later (its unlock is eventually fair).
Fairness ==
    \A t \in Threads : WF_vars(Release(t)) /\ SF_vars(GetRemove(t))

FairSpec == Spec /\ Fairness
=============================================================================
