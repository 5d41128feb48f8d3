------------------------------ MODULE LeastOfN ------------------------------
(***************************************************************************)
(* EvictLeastOfN (evict/random.rs) with the strategy LeastRecentlyRead, a  *)
(* bag whose every element carries a stamp: the AtomicInstant of its last  *)
(* access (time.rs).  A full bag draws some elements at random and gives   *)
(* up the one with the least stamp.                                        *)
(*                                                                         *)
(* READ_LOCK is Ref: get calls read_ref under the shared lock, where the   *)
(* clock is read in one step and the stamp stored in another, and readers  *)
(* overlap.  write and remove run under the exclusive lock.  The strategy  *)
(* LeastRecentlyWritten is this one without readers.                       *)
(*                                                                         *)
(* The clock is DefaultClock, Instant::now: it never goes back, and several *)
(* reads of it may return the same instant.  An instant is kept as its     *)
(* distance from one process-wide zero, fixed by the first conversion.     *)
(* The u64 of nanoseconds wraps after 584 years and is not bounded here.   *)
(***************************************************************************)
EXTENDS Bag

CONSTANTS Readers,    \* the threads inside get
          Draws,      \* EvictLeastOfN::n
          MaxClock    \* a bound on the clock

\* with_strategy asserts n > 1.
ASSUME DrawsAssumption == Draws \in Nat /\ Draws > 1
ASSUME MaxClockAssumption == MaxClock \in Nat

VARIABLES stamps,   \* the strategy's value beside each pointer of the bag
          clock,    \* Instant::now()
          zero,     \* the static OnceLock of time.rs: {} before the first use
          reading,  \* what each reader is about to store, or nothing
          since     \* history: the pointers accessed since the last write

lvars == <<values, index, stamps, clock, zero, reading, since>>

\* A reader inside strategy.read: the pointer it found and the time it read.
InRead(r) == reading[r] # {}

LInit ==
    /\ Init
    /\ stamps = <<>>
    /\ clock = 0
    /\ zero = {}
    /\ reading = [r \in Readers |-> {}]
    /\ since = {}

-----------------------------------------------------------------------------
\* Mutation: the writer does not wait for the readers.
SharedLock == TRUE

\* RwLock::write is granted when no reader holds the lock.
ExclusiveLock == \A r \in Readers : ~InRead(r)

\* instant_to_offset: duration_since saturates at zero.
Offset(t, z) == IF t < z THEN 0 ELSE t - z

\* Mutation: a new element counts as never accessed.
AppendStampUnset(kept) ==
    \E z \in (IF zero = {} THEN clock..MaxClock ELSE zero) :
       /\ zero' = {z}
       /\ clock' = IF z > clock THEN z ELSE clock
       /\ stamps' = Append(kept, 0)

\* new_value: the clock is read, then made relative to zero(), which the first
\* conversion of all fixes, perhaps a little later.
AppendStamp(kept) ==
    \E z \in (IF zero = {} THEN clock..MaxClock ELSE zero) :
       /\ zero' = {z}
       /\ clock' = IF z > clock THEN z ELSE clock
       /\ stamps' = Append(kept, Offset(clock, z))

\* take(n) of iter_random, which may draw the same element again.
Samples == {S \in SUBSET (1..Len(values)) : Cardinality(S) \in 1..Draws}

\* min_by: one of the elements drawn with the least stamp.
IsLeast(i, S) == i \in S /\ \A j \in S : stamps[i] <= stamps[j]

\* swap_remove moves a pointer and its stamp together.
StampsWithout(i) == SwapRemove(stamps, i)

\* BestOfNShard::write when the bag has room.
LWriteWithRoom(p) ==
    /\ ExclusiveLock
    /\ WriteWithRoom(p)
    /\ AppendStamp(stamps)
    /\ since' = {p}
    /\ UNCHANGED reading

\* BestOfNShard::write when the bag is full.
LWriteFull(p) ==
    /\ ExclusiveLock
    /\ \E S \in Samples : \E i \in S :
          IsLeast(i, S) /\ WriteEvicting(p, i) /\ AppendStamp(StampsWithout(i))
    /\ since' = {p}
    /\ UNCHANGED reading

\* BestOfNShard::remove
LRemove(p) ==
    /\ ExclusiveLock
    /\ Remove(p)
    /\ stamps' = StampsWithout(index[p])
    /\ since' = since \ {p}
    /\ UNCHANGED <<clock, zero, reading>>

\* get, under the shared lock: read_ref finds the element of a pointer of the
\* table, and LeastRecentlyRead::read asks for the time.
ReadClock(r, p) ==
    /\ ~InRead(r)
    /\ p \in Members
    /\ reading' = [reading EXCEPT ![r] = {[ptr |-> p, now |-> clock]}]
    /\ UNCHANGED <<values, index, stamps, clock, zero, since>>

\* AtomicInstant::store into the element, and the shared lock is given back.
StoreStamp(r) ==
    /\ \E a \in reading[r], z \in zero :
          /\ stamps' = [stamps EXCEPT ![index[a.ptr]] = Offset(a.now, z)]
          /\ since' = since \cup {a.ptr}
    /\ reading' = [reading EXCEPT ![r] = {}]
    /\ UNCHANGED <<values, index, clock, zero>>

Tick ==
    /\ clock < MaxClock
    /\ clock' = clock + 1
    /\ UNCHANGED <<values, index, stamps, zero, reading, since>>

LNext ==
    \/ \E p \in Pointers : LWriteWithRoom(p) \/ LWriteFull(p) \/ LRemove(p)
    \/ \E r \in Readers : StoreStamp(r) \/ \E p \in Pointers : ReadClock(r, p)
    \/ Tick

LSpec == LInit /\ [][LNext]_lvars

-----------------------------------------------------------------------------
\* The shape of the state: the bag's, one stamp per element, zero fixed before
\* there is an element, and no stamp or pending read from the future.
LTypeOK ==
    /\ TypeOK
    /\ stamps \in Seq(0..clock) /\ Len(stamps) = Len(values)
    /\ clock \in 0..MaxClock
    /\ zero \in {{}} \cup {{z} : z \in 0..clock}
    /\ values # <<>> => zero # {}
    /\ \A r \in Readers : \/ reading[r] = {}
                          \/ \E p \in Members, t \in 0..clock :
                                reading[r] = {[ptr |-> p, now |-> t]}
    /\ since \subseteq Members

\* Readers overlap, and the stamp of a pointer may go back when the slower of
\* two readers stores last.  It never goes back past the last write: a pointer
\* that was read or written since then is not ranked below one that was not,
\* wherever removals have moved their elements in the meantime.
StampsFollowReads ==
    \A i, j \in 1..Len(values) :
        values[i] \in since /\ values[j] \notin since => stamps[i] >= stamps[j]
=============================================================================
