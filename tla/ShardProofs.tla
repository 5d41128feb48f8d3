----------------------------- MODULE ShardProofs -----------------------------
(***************************************************************************)
(* Proofs about a shard, for any threads, keys, allocations, capacity,     *)
(* table size and probe sequences.                                         *)
(*                                                                         *)
(* The argument: the shape of the state says that only the holder of the   *)
(* write lock is inside an entry; as every step of another thread needs    *)
(* the lock to be free, what an entry saw stays true (EntryIntact) until   *)
(* the step that uses it; that step therefore overwrites its own pointer   *)
(* or fills a free slot, which keeps the layer and the table in step       *)
(* (InSync) and every key at one place (OneEntryPerKey).  What is counted   *)
(* (LayerFits, RoomReserved) and what the callers see (the refinement of   *)
(* CacheMap) rest on that invariant.                                       *)
(***************************************************************************)
EXTENDS ShardProperties, FunctionTheorems, FiniteSetTheorems, TLAPS

IInv == TypeOK /\ InSync /\ OneEntryPerKey /\ EntryIntact

-----------------------------------------------------------------------------
(* What the table's operations do to its slots.                            *)

\* No two pointers share a bucket.
Apart(tab) ==
    \A p, q \in Items(tab) : tab.slot[p] = tab.slot[q] => p = q

LEMMA SlotsAreSomewhere == ASSUME NEW b PROVE Nowhere \notin SlotsIn(b)
  BY SlotsAssumption DEF SlotsIn, Nowhere

LEMMA ItemsFinite ==
    ASSUME NEW tab
    PROVE  IsFiniteSet(Items(tab)) /\ Cardinality(Items(tab)) \in Nat
  <1>1. IsFiniteSet(Items(tab))
    BY PointersAssumption, FS_Subset DEF Items
  <1>2. QED
    BY <1>1, FS_CardinalityType

LEMMA FullCapacityType == ASSUME NEW b \in Nat PROVE FullCapacity(b) \in Int
  BY DEF FullCapacity

\* Rehashing keeps the items and places them apart.
LEMMA RehashedKeeps ==
    ASSUME NEW tab, TableShape(tab), NEW b \in Nat, NEW r \in Rehashed(tab, b)
    PROVE  /\ TableShape(r)
           /\ Items(r) = Items(tab)
           /\ Apart(r)
  <1>1. PICK f \in Injection(Items(tab), SlotsIn(b)) :
           r = [slot |-> [p \in Pointers |-> IF p \in Items(tab) THEN f[p] ELSE Nowhere],
                buckets |-> b,
                growth |-> FullCapacity(b) - Cardinality(Items(tab))]
    BY DEF Rehashed
  <1>2. /\ f \in [Items(tab) -> SlotsIn(b)]
        /\ \A p, q \in Items(tab) : f[p] = f[q] => p = q
    BY Fun_InjectionProperties
  <1>3. r.buckets = b /\ r.growth \in Int
    <2>1. r.growth = FullCapacity(b) - Cardinality(Items(tab))
      BY <1>1
    <2>2. QED
      BY <1>1, <2>1, FullCapacityType, ItemsFinite
  <1>4. \A p \in Pointers : r.slot[p] = IF p \in Items(tab) THEN f[p] ELSE Nowhere
    BY <1>1
  <1>5. r.slot \in [Pointers -> SlotsIn(b) \cup {Nowhere}]
    BY <1>1, <1>2
  <1>6. TableShape(r)
    BY <1>1, <1>3, <1>5 DEF TableShape
  <1>7. Items(r) = Items(tab)
    BY <1>2, <1>4, SlotsAreSomewhere DEF Items
  <1>8. Apart(r)
    BY <1>2, <1>4, <1>7 DEF Apart, Items
  <1>9. QED
    BY <1>6, <1>7, <1>8

LEMMA ReserveKeeps ==
    ASSUME NEW tab, TableShape(tab), Apart(tab), NEW r \in Reserve(tab)
    PROVE  /\ TableShape(r)
           /\ Items(r) = Items(tab)
           /\ Apart(r)
  <1>1. tab.buckets \in Nat /\ 2 * tab.buckets \in Nat
    BY DEF TableShape
  <1>2. r = tab \/ r \in Rehashed(tab, tab.buckets) \/ r \in Rehashed(tab, 2 * tab.buckets)
    BY DEF Reserve
  <1>3. QED
    BY <1>1, <1>2, RehashedKeeps

\* Erasing takes out one pointer and moves none.
LEMMA EraseOne ==
    ASSUME NEW tab, TableShape(tab), NEW p \in Pointers, NEW r \in Erase(tab, p)
    PROVE  /\ TableShape(r)
           /\ r.buckets = tab.buckets
           /\ \A q \in Pointers : r.slot[q] = IF q = p THEN Nowhere ELSE tab.slot[q]
           /\ Items(r) = Items(tab) \ {p}
  <1>1. PICK g \in {tab.growth, tab.growth + 1} :
           r = [tab EXCEPT !.slot[p] = Nowhere, !.growth = g]
    BY DEF Erase
  <1>2. g \in Int
    BY <1>1 DEF TableShape
  <1>3. /\ r.buckets = tab.buckets
        /\ r.slot = [tab.slot EXCEPT ![p] = Nowhere]
        /\ r.slot \in [Pointers -> SlotsIn(tab.buckets) \cup {Nowhere}]
    BY <1>1 DEF TableShape
  <1>4. TableShape(r)
    BY <1>1, <1>2, <1>3 DEF TableShape
  <1>5. \A q \in Pointers : r.slot[q] = IF q = p THEN Nowhere ELSE tab.slot[q]
    BY <1>3 DEF TableShape
  <1>6. Items(r) = Items(tab) \ {p}
    BY <1>5 DEF Items
  <1>7. QED
    BY <1>3, <1>4, <1>5, <1>6

\* Overwriting a bucket puts p there in place of what was there.
LEMMA OverwriteOne ==
    ASSUME NEW tab, TableShape(tab), NEW p \in Pointers,
           NEW i \in SlotsIn(tab.buckets), NEW g \in Int, NEW r,
           r = Overwrite(tab, i, p) \/ r = [Overwrite(tab, i, p) EXCEPT !.growth = g]
    PROVE  /\ TableShape(r)
           /\ r.buckets = tab.buckets
           /\ \A q \in Pointers : r.slot[q] =
                 IF q = p THEN i ELSE IF tab.slot[q] = i THEN Nowhere ELSE tab.slot[q]
           /\ Items(r) = (Items(tab) \ ItemsAt(tab, i)) \cup {p}
  <1> DEFINE s == [q \in Pointers |->
                     IF q = p THEN i ELSE IF tab.slot[q] = i THEN Nowhere ELSE tab.slot[q]]
  <1>1. s \in [Pointers -> SlotsIn(tab.buckets) \cup {Nowhere}]
    BY DEF TableShape
  <1>2. /\ Overwrite(tab, i, p) = [tab EXCEPT !.slot = s]
        /\ r.slot = s /\ r.buckets = tab.buckets
        /\ r \in [slot : [Pointers -> SlotsIn(tab.buckets) \cup {Nowhere}],
                  buckets : Nat, growth : Int]
    BY <1>1 DEF Overwrite, TableShape
  <1>3. TableShape(r)
    BY <1>2 DEF TableShape
  <1>4. i # Nowhere
    BY SlotsAreSomewhere
  <1>5. Items(r) = (Items(tab) \ ItemsAt(tab, i)) \cup {p}
    BY <1>2, <1>4 DEF Items, ItemsAt
  <1>6. QED
    BY <1>2, <1>3, <1>5

LEMMA InsertOne ==
    ASSUME NEW tab, TableShape(tab), NEW p \in Pointers,
           NEW i \in SlotsIn(tab.buckets), NEW r \in InsertInSlot(tab, i, p)
    PROVE  /\ TableShape(r)
           /\ r.buckets = tab.buckets
           /\ \A q \in Pointers : r.slot[q] =
                 IF q = p THEN i ELSE IF tab.slot[q] = i THEN Nowhere ELSE tab.slot[q]
           /\ Items(r) = (Items(tab) \ ItemsAt(tab, i)) \cup {p}
  <1>1. PICK g \in {tab.growth - 1, tab.growth} :
           r = [Overwrite(tab, i, p) EXCEPT !.growth = g]
    BY DEF InsertInSlot
  <1>2. g \in Int
    BY <1>1 DEF TableShape
  <1>3. QED
    BY <1>1, <1>2, OverwriteOne

-----------------------------------------------------------------------------
(* What a step does to the threads.                                        *)

\* A thread that is given a new op outside an entry while nobody else is
\* inside one leaves the lock free, and there is no entry to keep intact.
LEMMA NobodyInside ==
    ASSUME TypeOK, NEW t \in Threads, NEW o \in Ops,
           o.at \notin {"occupied", "vacant"},
           writer = None \/ writer = t,
           Continue(t, o), writer' = None
    PROVE  /\ op' \in [Threads -> Ops]
           /\ writer' \in Threads \cup {None}
           /\ \A u \in Threads : InEntry(u)' <=> writer' = u
           /\ EntryIntact'
  <1>1. op' = [op EXCEPT ![t] = o] /\ op \in [Threads -> Ops]
    BY DEF Continue, TypeOK
  <1>2. op' \in [Threads -> Ops]
    BY <1>1
  <1>3. ASSUME NEW u \in Threads PROVE ~InEntry(u)'
    <2>1. CASE u = t
      BY <2>1, <1>1 DEF InEntry
    <2>2. CASE u # t
      <3>1. op'[u] = op[u]
        BY <2>2, <1>1
      <3>2. writer # u
        BY <2>2, NoneAssumption
      <3>3. QED
        BY <3>1, <3>2 DEF TypeOK, InEntry
    <2>3. QED
      BY <2>1, <2>2
  <1>4. EntryIntact'
    BY <1>3 DEF EntryIntact, InEntry
  <1>5. QED
    BY <1>2, <1>3, <1>4, NoneAssumption

\* A thread that opens an entry is the only one inside.
LEMMA OneInside ==
    ASSUME TypeOK, NEW t \in Threads, NEW o \in Ops,
           o.at \in {"occupied", "vacant"},
           Enter(t), Continue(t, o)
    PROVE  /\ op' \in [Threads -> Ops]
           /\ writer' \in Threads \cup {None}
           /\ \A u \in Threads : InEntry(u)' <=> writer' = u
           /\ op'[t] = o
  <1>1. op' = [op EXCEPT ![t] = o] /\ op \in [Threads -> Ops]
    BY DEF Continue, TypeOK
  <1>2. writer = None /\ writer' = t
    BY DEF Enter
  <1>3. op' \in [Threads -> Ops] /\ op'[t] = o
    BY <1>1
  <1>4. ASSUME NEW u \in Threads PROVE InEntry(u)' <=> writer' = u
    <2>1. CASE u = t
      BY <2>1, <1>2, <1>3 DEF InEntry
    <2>2. CASE u # t
      <3>1. op'[u] = op[u]
        BY <2>2, <1>1
      <3>2. writer # u
        BY <1>2, NoneAssumption
      <3>3. QED
        BY <2>2, <3>1, <3>2, <1>2 DEF TypeOK, InEntry
    <2>3. QED
      BY <2>1, <2>2
  <1>5. QED
    BY <1>2, <1>3, <1>4

\* What each kind of op is made of.
LEMMA OpsMade ==
    ASSUME TypeOK
    PROVE  /\ Idle \in Ops
           /\ \A p \in Pointers \cup {None} : Answered(p) \in Ops
           /\ \A p \in Pointers : Condemning(p) \in Ops
           /\ \A p \in Pointers, i \in Slots \cup {Nowhere} : Occupied(p, i) \in Ops
           /\ \A k \in Keys, i \in Slots \cup {Nowhere} : Vacant(k, i) \in Ops
  BY DEF TypeOK, TableShape, SlotsIn, Ops, OpKinds, Idle, Answered, Condemning,
         Occupied, Vacant, Op

-----------------------------------------------------------------------------
(* What a step does to the table, the layer and the expired pointers.      *)

Contents == TableShape(table) /\ layer \subseteq Pointers /\ expired \subseteq Stored
                /\ InSync /\ OneEntryPerKey

\* Taking a stored pointer out of the table and of the layer keeps both in step.
LEMMA TakeOut ==
    ASSUME Contents, NEW tab, TableShape(tab), Apart(tab), Items(tab) = Stored,
           NEW p \in Pointers, table' \in Erase(tab, p),
           layer' = layer \ {p}, expired' = expired \ {p}
    PROVE  Contents' /\ Stored' = Stored \ {p}
           /\ table'.buckets = tab.buckets
           /\ \A q \in Pointers :
                 table'.slot[q] = IF q = p THEN Nowhere ELSE tab.slot[q]
  <1>1. /\ TableShape(table')
        /\ table'.buckets = tab.buckets
        /\ \A q \in Pointers :
              table'.slot[q] = IF q = p THEN Nowhere ELSE tab.slot[q]
        /\ Items(table') = Stored \ {p}
    BY EraseOne
  <1>2. Stored' = Stored \ {p}
    BY <1>1 DEF Stored
  <1>3. OneEntryPerKey'
    <2> SUFFICES ASSUME NEW q \in Stored', NEW r \in Stored',
                        KeyOf[q] = KeyOf[r] \/ table'.slot[q] = table'.slot[r]
                 PROVE  q = r
      BY DEF OneEntryPerKey
    <2>1. /\ q \in Stored /\ r \in Stored /\ q \in Pointers /\ r \in Pointers
          /\ q # p /\ r # p
      BY <1>2 DEF Stored, Items
    <2>2. table'.slot[q] = tab.slot[q] /\ table'.slot[r] = tab.slot[r]
      BY <1>1, <2>1
    <2>3. QED
      BY <2>1, <2>2 DEF Contents, OneEntryPerKey, Apart
  <1>4. QED
    BY <1>1, <1>2, <1>3 DEF Contents, InSync

\* What a full layer gives up has left the table too; everything else stays.
LEMMA EvictionsShape ==
    ASSUME TableShape(table), NEW S \in SUBSET Stored, NEW e \in Evictions(S)
    PROVE  /\ e.layer \subseteq S
           /\ TableShape(e.table) /\ e.table.buckets = table.buckets
           /\ \A q \in Pointers : e.table.slot[q] =
                 IF q \in S \ e.layer THEN Nowhere ELSE table.slot[q]
           /\ Items(e.table) = Stored \ (S \ e.layer)
  <1>1. CASE Cardinality(S) = Capacity
    <2>1. PICK v \in S : e \in {[layer |-> S \ {v}, table |-> tab] : tab \in Erase(table, v)}
      BY <1>1 DEF Evictions
    <2>2. e.layer = S \ {v} /\ e.table \in Erase(table, v)
      BY <2>1
    <2>3. v \in Pointers /\ S \ e.layer = {v}
      BY <2>2 DEF Stored, Items
    <2>4. QED
      BY <2>2, <2>3, EraseOne DEF Stored
  <1>2. CASE Cardinality(S) # Capacity
    <2>1. e.layer = S /\ e.table = table
      BY <1>2 DEF Evictions
    <2>2. QED
      BY <2>1 DEF Stored
  <1>3. QED
    BY <1>1, <1>2

\* A write puts a fresh pointer at slot i, where the pointers of old (none, or
\* the one that is replaced) were, after the layer made room.
WritesAt(p, i, old, e) ==
    /\ p \in Pointers /\ p \notin Stored
    /\ i \in SlotsIn(table.buckets) /\ old \in SUBSET Stored
    /\ \A q \in Pointers : table.slot[q] = i <=> q \in old
    /\ \A q \in Stored \ old : KeyOf[q] # KeyOf[p]
    /\ e \in Evictions(layer \ old)
    /\ TableShape(table')
    /\ \A q \in Pointers : table'.slot[q] =
          IF q = p THEN i
          ELSE IF e.table.slot[q] = i THEN Nowhere ELSE e.table.slot[q]
    /\ Items(table') = (Items(e.table) \ ItemsAt(e.table, i)) \cup {p}
    /\ layer' = e.layer \cup {p}
    /\ expired' = expired \cap Items(table')

LEMMA WriteOne ==
    ASSUME Contents, NEW p, NEW i, NEW old, NEW e, WritesAt(p, i, old, e)
    PROVE  Contents'
  <1> USE DEF WritesAt
  <1> DEFINE gone == (layer \ old) \ e.layer
  <1>1. layer = Stored /\ Stored \subseteq Pointers /\ i # Nowhere
    BY SlotsAreSomewhere DEF Contents, InSync, Stored, Items
  <1>2. /\ e.layer \subseteq layer \ old
        /\ \A q \in Pointers : e.table.slot[q] =
              IF q \in gone THEN Nowhere ELSE table.slot[q]
        /\ Items(e.table) = Stored \ gone
    BY <1>1, EvictionsShape DEF Contents
  <1>3. ItemsAt(e.table, i) = old
    BY <1>1, <1>2 DEF ItemsAt
  <1>4. Stored' = e.layer \cup {p}
    BY <1>1, <1>2, <1>3 DEF Stored
  <1>5. InSync' /\ layer' \subseteq Pointers
    BY <1>1, <1>2, <1>4 DEF InSync
  <1>6. ASSUME NEW q \in e.layer
        PROVE  /\ q \in Stored \ old /\ q \in Pointers /\ q # p
               /\ table'.slot[q] = table.slot[q] /\ table.slot[q] # i
    <2>1. q \in Stored \ old /\ q \in Pointers /\ q # p /\ q \notin gone
      BY <1>1, <1>2
    <2>2. QED
      BY <2>1, <1>2
  <1>7. OneEntryPerKey'
    <2> SUFFICES ASSUME NEW q \in e.layer \cup {p}, NEW r \in e.layer \cup {p},
                        KeyOf[q] = KeyOf[r] \/ table'.slot[q] = table'.slot[r],
                        q # r
                 PROVE  FALSE
      BY <1>4 DEF OneEntryPerKey
    <2>1. table'.slot[p] = i
      OBVIOUS
    <2>2. CASE q \in e.layer /\ r \in e.layer
      BY <2>2, <1>6 DEF Contents, OneEntryPerKey
    <2>3. CASE q = p \/ r = p
      BY <2>1, <2>3, <1>6
    <2>4. QED
      BY <2>2, <2>3
  <1>8. expired' \subseteq Stored'
    BY DEF Stored
  <1>9. QED
    BY <1>5, <1>7, <1>8 DEF Contents

-----------------------------------------------------------------------------
(* The steps.                                                              *)

LEMMA InvSplit ==
    IInv <=> /\ Contents
             /\ writer \in Threads \cup {None}
             /\ op \in [Threads -> Ops]
             /\ \A t \in Threads : InEntry(t) <=> writer = t
             /\ EntryIntact
  BY DEF IInv, TypeOK, Contents

LEMMA InvSplitNext ==
    IInv' <=> /\ Contents'
              /\ writer' \in Threads \cup {None}
              /\ op' \in [Threads -> Ops]
              /\ \A t \in Threads : InEntry(t)' <=> writer' = t
              /\ EntryIntact'
  BY DEF IInv, TypeOK, Contents

\* A thread outside an entry goes on outside it and touches neither the table
\* nor the layer: the lookups of get, and the end of a pointer's use.
LEMMA OutsideStep ==
    ASSUME IInv, NEW t \in Threads, NEW o \in Ops,
           ~InEntry(t), o.at \notin {"occupied", "vacant"},
           Continue(t, o),
           UNCHANGED <<table, layer, writer>>, expired' \subseteq expired
    PROVE  IInv'
  <1>1. op' = [op EXCEPT ![t] = o] /\ op \in [Threads -> Ops]
    BY DEF Continue, IInv, TypeOK
  <1>2. op' \in [Threads -> Ops]
    BY <1>1
  <1>3. ASSUME NEW u \in Threads
        PROVE  InEntry(u)' <=> InEntry(u)
    BY <1>1 DEF InEntry
  <1>4. ASSUME NEW u \in Threads, InEntry(u)
        PROVE  op'[u] = op[u]
    BY <1>1, <1>4
  <1>5. EntryIntact'
    <2> SUFFICES ASSUME NEW u \in Threads, InEntry(u)
                 PROVE  /\ op[u].at = "occupied" =>
                              op[u].ptr \in Stored' /\ table'.slot[op[u].ptr] = op[u].slot
                        /\ op[u].at = "vacant" =>
                              /\ op[u].slot \in FreeSlots(table')
                              /\ \A p \in Stored' : KeyOf[p] # op[u].key
      BY <1>3, <1>4 DEF EntryIntact, InEntry
    <2>1. QED
      BY DEF IInv, EntryIntact, Stored
  <1>6. Contents'
    BY DEF IInv, TypeOK, Contents, InSync, OneEntryPerKey, Stored
  <1>7. QED
    BY <1>2, <1>3, <1>5, <1>6, InvSplitNext DEF IInv, TypeOK

LEMMA GetMissingStep ==
    ASSUME IInv, NEW t \in Threads, NEW k \in Keys, GetMissing(t, k)
    PROVE  IInv'
  <1>1. Answered(None) \in Ops
    BY OpsMade DEF IInv
  <1>2. QED
    BY <1>1, OutsideStep DEF GetMissing, Answered, Idle, Op, InEntry

LEMMA GetRetainStep ==
    ASSUME IInv, NEW t \in Threads, NEW p \in Pointers, GetRetain(t, p)
    PROVE  IInv'
  <1>1. Answered(p) \in Ops
    BY OpsMade DEF IInv
  <1>2. QED
    BY <1>1, OutsideStep DEF GetRetain, Answered, Idle, Op, InEntry

LEMMA GetCondemnStep ==
    ASSUME IInv, NEW t \in Threads, NEW p \in Pointers, GetCondemn(t, p)
    PROVE  IInv'
  <1>1. Condemning(p) \in Ops
    BY OpsMade DEF IInv
  <1>2. Condemning(p).at = "condemning" /\ ~InEntry(t)
    BY DEF GetCondemn, Condemning, Idle, Op, InEntry
  <1>3. expired' \subseteq expired
    BY DEF GetCondemn
  <1>4. QED
    BY <1>1, <1>2, <1>3, OutsideStep DEF GetCondemn

LEMMA DropPointerStep ==
    ASSUME IInv, NEW t \in Threads, DropPointer(t)
    PROVE  IInv'
  <1>1. Idle \in Ops
    BY OpsMade DEF IInv
  <1>2. QED
    BY <1>1, OutsideStep DEF DropPointer, Idle, Op, InEntry

LEMMA ExpireStep ==
    ASSUME IInv, NEW p \in Pointers, Expire(p)
    PROVE  IInv'
  <1>1. Stored' = Stored /\ expired' \subseteq Stored
    BY DEF Expire, Stored, IInv, TypeOK
  <1>2. TypeOK'
    BY <1>1 DEF Expire, IInv, TypeOK, InEntry
  <1>3. InSync' /\ OneEntryPerKey' /\ EntryIntact'
    BY <1>1 DEF Expire, IInv, InSync, OneEntryPerKey, EntryIntact
  <1>4. QED
    BY <1>2, <1>3 DEF IInv

\* The write phase of get: nobody is inside an entry, before or after.
LEMMA GetRemoveStep ==
    ASSUME IInv, NEW t \in Threads, GetRemove(t)
    PROVE  IInv'
  <1>1. /\ Answered(None) \in Ops /\ Continue(t, Answered(None))
        /\ writer = None /\ writer' = None
        /\ Answered(None).at \notin {"occupied", "vacant"}
    BY OpsMade DEF IInv, GetRemove, Answered, Op
  <1>2. Contents'
    <2>1. CASE UNCHANGED <<table, layer, expired>>
      BY <2>1 DEF IInv, TypeOK, Contents, InSync, OneEntryPerKey, Stored
    <2>2. ASSUME NEW p \in Lookup(op[t]),
                 table' \in Erase(table, p),
                 layer' = layer \ {op[t].ptr},
                 expired' = expired \ {p}
          PROVE  Contents'
      <3>1. p = op[t].ptr /\ p \in Pointers
        BY DEF Lookup, Stored, Items
      <3>2. Contents /\ TableShape(table) /\ Apart(table) /\ Items(table) = Stored
        BY InvSplit DEF Contents, OneEntryPerKey, Apart, Stored
      <3>3. QED
        BY <2>2, <3>1, <3>2, TakeOut
    <2>3. QED
      BY <2>1, <2>2 DEF GetRemove
  <1>3. QED
    BY <1>1, <1>2, NobodyInside, InvSplitNext DEF IInv

-----------------------------------------------------------------------------
(* Opening an entry.                                                       *)

LEMMA ReservedContents ==
    ASSUME IInv, NEW tab \in Reserve(table)
    PROVE  /\ TableShape(tab) /\ Apart(tab) /\ Items(tab) = Stored
           /\ \A p \in Stored : tab.slot[p] \in SlotsIn(tab.buckets)
  <1>1. TableShape(table) /\ Apart(table)
    BY DEF IInv, TypeOK, OneEntryPerKey, Apart, Stored
  <1>2. TableShape(tab) /\ Apart(tab) /\ Items(tab) = Stored
    BY <1>1, ReserveKeeps DEF Stored
  <1>3. QED
    BY <1>2 DEF TableShape, Items

\* Making room moves items but changes neither which there are nor the layer.
LEMMA ReserveContents ==
    ASSUME IInv, table' \in Reserve(table), UNCHANGED <<layer, expired>>
    PROVE  Contents' /\ Stored' = Stored
  <1>1. TableShape(table') /\ Apart(table') /\ Items(table') = Stored
    BY ReservedContents
  <1>2. Stored' = Stored
    BY <1>1 DEF Stored
  <1>3. OneEntryPerKey'
    BY <1>1, <1>2 DEF IInv, OneEntryPerKey, Apart
  <1>4. QED
    BY <1>1, <1>2, <1>3 DEF IInv, TypeOK, InSync, Contents

LEMMA EntryVacantStep ==
    ASSUME IInv, NEW t \in Threads, NEW k \in Keys, EntryVacant(t, k)
    PROVE  IInv'
  <1>1. Contents' /\ Stored' = Stored
    BY ReserveContents DEF EntryVacant
  <1>2. PICK i \in FreeSlots(table') : Continue(t, Vacant(k, i))
    BY DEF EntryVacant
  <1>3. Vacant(k, i) \in Ops
    BY OpsMade DEF IInv, FreeSlots, SlotsIn
  <1>4. /\ op' \in [Threads -> Ops]
        /\ writer' \in Threads \cup {None}
        /\ \A u \in Threads : InEntry(u)' <=> writer' = u
        /\ op'[t] = Vacant(k, i)
    BY <1>2, <1>3, OneInside DEF EntryVacant, IInv, Vacant, Op
  <1>5. \A u \in Threads : InEntry(u)' => u = t
    BY <1>4 DEF EntryVacant, Enter
  <1>6. EntryIntact'
    BY <1>1, <1>2, <1>4, <1>5 DEF EntryIntact, InEntry, EntryVacant, Vacant, Op
  <1>7. QED
    BY <1>1, <1>4, <1>6, InvSplitNext

LEMMA EntryOccupiedStep ==
    ASSUME IInv, NEW t \in Threads, NEW p \in Pointers, EntryOccupied(t, p)
    PROVE  IInv'
  <1> DEFINE i == table'.slot[p]
  <1>1. Contents' /\ Stored' = Stored
    BY ReserveContents DEF EntryOccupied
  <1>2. p \in Stored /\ i \in SlotsIn(table'.buckets)
    BY ReservedContents DEF EntryOccupied
  <1>3. Occupied(p, i) \in Ops
    BY <1>2, OpsMade DEF IInv, SlotsIn
  <1>4. /\ op' \in [Threads -> Ops]
        /\ writer' \in Threads \cup {None}
        /\ \A u \in Threads : InEntry(u)' <=> writer' = u
        /\ op'[t] = Occupied(p, i)
    BY <1>3, OneInside DEF EntryOccupied, IInv, Occupied, Op
  <1>5. \A u \in Threads : InEntry(u)' => u = t
    BY <1>4 DEF EntryOccupied, Enter
  <1>6. EntryIntact'
    BY <1>1, <1>2, <1>4, <1>5 DEF EntryIntact, InEntry, Occupied, Op
  <1>7. QED
    BY <1>1, <1>4, <1>6, InvSplitNext

\* The slot the expired pointer leaves is free, and its key is gone with it.
LEMMA EntryExpiredStep ==
    ASSUME IInv, NEW t \in Threads, NEW p \in Pointers, EntryExpired(t, p)
    PROVE  IInv'
  <1>1. PICK tab \in Reserve(table) : /\ table' \in Erase(tab, p)
                                      /\ Continue(t, Vacant(KeyOf[p], tab.slot[p]))
    BY DEF EntryExpired
  <1> DEFINE i == tab.slot[p]
             o == Vacant(KeyOf[p], i)
  <1>2. /\ TableShape(tab) /\ Apart(tab) /\ Items(tab) = Stored
        /\ p \in Stored /\ i \in SlotsIn(tab.buckets)
    BY ReservedContents DEF EntryExpired
  <1>3. /\ Contents' /\ Stored' = Stored \ {p}
        /\ table'.buckets = tab.buckets
        /\ \A q \in Pointers :
              table'.slot[q] = IF q = p THEN Nowhere ELSE tab.slot[q]
    <2>1. Contents
      BY InvSplit
    <2>2. layer' = layer \ {p} /\ expired' = expired \ {p}
      BY DEF EntryExpired
    <2>3. QED
      BY <1>1, <1>2, <2>1, <2>2, TakeOut
  <1>4. o \in Ops
    BY <1>2, OpsMade, KeyOfAssumption DEF IInv, SlotsIn
  <1>5. /\ op' \in [Threads -> Ops]
        /\ writer' \in Threads \cup {None}
        /\ \A u \in Threads : InEntry(u)' <=> writer' = u
        /\ op'[t] = o
    BY <1>1, <1>4, OneInside DEF EntryExpired, IInv, Vacant, Op
  <1>6. \A u \in Threads : InEntry(u)' => u = t
    BY <1>5 DEF EntryExpired, Enter
  <1>7. i \in FreeSlots(table')
    <2>1. i # Nowhere
      BY <1>2, SlotsAreSomewhere
    <2>2. ASSUME NEW q \in Pointers PROVE table'.slot[q] # i
      <3>1. CASE q = p
        BY <3>1, <1>3, <2>1
      <3>2. CASE q # p
        BY <3>2, <1>2, <1>3, <2>1 DEF Apart, Items
      <3>3. QED
        BY <3>1, <3>2
    <2>3. QED
      BY <1>2, <1>3, <2>2 DEF FreeSlots, ItemsAt
  <1>8. \A q \in Stored' : KeyOf[q] # KeyOf[p]
    BY <1>2, <1>3 DEF IInv, OneEntryPerKey
  <1>9. EntryIntact'
    BY <1>5, <1>6, <1>7, <1>8 DEF EntryIntact, InEntry, Vacant, Op
  <1>10. QED
    BY <1>3, <1>5, <1>9, InvSplitNext

-----------------------------------------------------------------------------
(* Using an entry: what it saw is still so.                                *)

LEMMA OccupiedSees ==
    ASSUME IInv, NEW t \in Threads, op[t].at = "occupied"
    PROVE  /\ writer = t
           /\ op[t].ptr \in Stored /\ op[t].ptr \in Pointers
           /\ op[t].slot \in SlotsIn(table.buckets)
           /\ \A q \in Pointers : table.slot[q] = op[t].slot <=> q = op[t].ptr
  <1>1. writer = t
    BY DEF IInv, TypeOK, InEntry
  <1>2. /\ op[t].ptr \in Stored /\ table.slot[op[t].ptr] = op[t].slot
        /\ op[t].ptr \in Pointers
    BY DEF IInv, EntryIntact, Stored, Items
  <1>3. table.slot[op[t].ptr] # Nowhere
    BY <1>2 DEF Stored, Items
  <1>4. op[t].slot \in SlotsIn(table.buckets)
    BY <1>2, <1>3 DEF IInv, TypeOK, TableShape
  <1>5. ASSUME NEW q \in Pointers, table.slot[q] = op[t].slot
        PROVE  q = op[t].ptr
    BY <1>2, <1>3, <1>5 DEF IInv, OneEntryPerKey, Stored, Items
  <1>6. QED
    BY <1>1, <1>2, <1>4, <1>5

\* Whatever a thread does with its entry, it is outside afterwards.
LEMMA LeaveStep ==
    ASSUME IInv, NEW t \in Threads, InEntry(t), NEW o \in Ops,
           o.at \notin {"occupied", "vacant"}, Leave(t, o), Contents'
    PROVE  IInv'
  <1>1. writer = t /\ writer' = None /\ Continue(t, o)
    BY DEF IInv, TypeOK, Leave
  <1>2. QED
    BY <1>1, NobodyInside, InvSplitNext DEF IInv

LEMMA ReplaceStep ==
    ASSUME IInv, NEW t \in Threads, NEW p \in Pointers, Replace(t, p)
    PROVE  IInv'
  <1> DEFINE i == op[t].slot
             old == {op[t].ptr}
  <1>1. op[t].at = "occupied" /\ InEntry(t)
    BY DEF Replace, InEntry
  <1>2. /\ old \in SUBSET Stored
        /\ i \in SlotsIn(table.buckets)
        /\ \A q \in Pointers : table.slot[q] = i <=> q \in old
    BY <1>1, OccupiedSees
  <1>3. Contents /\ p \notin Stored /\ layer = Stored
    BY InvSplit DEF Replace, Fresh, IInv, InSync
  <1>4. \A q \in Stored \ old : KeyOf[q] # KeyOf[p]
    BY <1>2 DEF Replace, IInv, OneEntryPerKey
  <1> HIDE DEF i, old
  <1>5. PICK e \in Evictions(layer \ old) : /\ table' = Overwrite(e.table, i, p)
                                            /\ layer' = e.layer \cup {p}
    BY DEF Replace, i, old
  <1>6. TableShape(e.table) /\ e.table.buckets = table.buckets
    BY <1>3, <1>5, EvictionsShape DEF Contents
  <1>7. /\ TableShape(table')
        /\ \A q \in Pointers : table'.slot[q] =
              IF q = p THEN i
              ELSE IF e.table.slot[q] = i THEN Nowhere ELSE e.table.slot[q]
        /\ Items(table') = (Items(e.table) \ ItemsAt(e.table, i)) \cup {p}
    BY <1>2, <1>5, <1>6, 0 \in Int, OverwriteOne
  <1>8. expired' = expired \cap Items(table')
    BY DEF Replace
  <1>9. Contents'
    <2>1. WritesAt(p, i, old, e)
      BY <1>2, <1>3, <1>4, <1>5, <1>7, <1>8 DEF WritesAt
    <2>2. QED
      BY <1>3, <2>1, WriteOne
  <1>10. Answered(p) \in Ops /\ Answered(p).at = "answered" /\ Leave(t, Answered(p))
    BY OpsMade DEF IInv, Replace, Answered, Op
  <1>11. QED
    BY <1>1, <1>9, <1>10, LeaveStep

LEMMA InsertStep ==
    ASSUME IInv, NEW t \in Threads, NEW p \in Pointers, Insert(t, p)
    PROVE  IInv'
  <1> DEFINE i == op[t].slot
  <1>1. op[t].at = "vacant" /\ InEntry(t)
    BY DEF Insert, InEntry
  <1>2. /\ i \in FreeSlots(table)
        /\ \A q \in Stored : KeyOf[q] # KeyOf[p]
    BY <1>1 DEF Insert, IInv, EntryIntact
  <1>3. /\ i \in SlotsIn(table.buckets)
        /\ \A q \in Pointers : table.slot[q] = i <=> q \in {}
    BY <1>2 DEF FreeSlots, ItemsAt
  <1>4. Contents /\ p \notin Stored /\ layer = Stored /\ layer \ {} = layer
    BY InvSplit DEF Insert, Fresh, IInv, InSync
  <1> HIDE DEF i
  <1>5. PICK e \in Evictions(layer) : /\ table' \in InsertInSlot(e.table, i, p)
                                      /\ layer' = e.layer \cup {p}
    BY DEF Insert, i
  <1>6. TableShape(e.table) /\ e.table.buckets = table.buckets
    BY <1>4, <1>5, EvictionsShape DEF Contents
  <1>7. /\ TableShape(table')
        /\ \A q \in Pointers : table'.slot[q] =
              IF q = p THEN i
              ELSE IF e.table.slot[q] = i THEN Nowhere ELSE e.table.slot[q]
        /\ Items(table') = (Items(e.table) \ ItemsAt(e.table, i)) \cup {p}
    BY <1>3, <1>5, <1>6, InsertOne
  <1>8. expired' = expired \cap Items(table')
    BY DEF Insert
  <1>9. Contents'
    <2>1. {} \in SUBSET Stored /\ e \in Evictions(layer \ {})
      BY <1>4, <1>5
    <2>2. \A q \in Stored \ {} : KeyOf[q] # KeyOf[p]
      BY <1>2
    <2>3. WritesAt(p, i, {}, e)
      BY <1>3, <1>4, <1>5, <1>7, <1>8, <2>1, <2>2 DEF WritesAt
    <2>4. QED
      BY <1>4, <2>3, WriteOne
  <1>10. Answered(p) \in Ops /\ Answered(p).at = "answered" /\ Leave(t, Answered(p))
    BY OpsMade DEF IInv, Insert, Answered, Op
  <1>11. QED
    BY <1>1, <1>9, <1>10, LeaveStep

LEMMA RemoveStep ==
    ASSUME IInv, NEW t \in Threads, Remove(t)
    PROVE  IInv'
  <1> DEFINE p == op[t].ptr
  <1>1. op[t].at = "occupied" /\ InEntry(t)
    BY DEF Remove, InEntry
  <1>2. p \in Pointers
    BY <1>1, OccupiedSees
  <1>3. Contents /\ TableShape(table) /\ Apart(table) /\ Items(table) = Stored
    BY InvSplit DEF Contents, OneEntryPerKey, Apart, Stored
  <1>4. Contents'
    BY <1>2, <1>3, TakeOut DEF Remove
  <1>5. Answered(p) \in Ops /\ Answered(p).at = "answered" /\ Leave(t, Answered(p))
    BY <1>2, OpsMade DEF IInv, Remove, Answered, Op
  <1>6. QED
    BY <1>1, <1>4, <1>5, LeaveStep

LEMMA UnusedEntryStep ==
    ASSUME IInv, NEW t \in Threads, IntoPointer(t) \/ DropEntry(t)
    PROVE  IInv'
  <1>1. InEntry(t) /\ UNCHANGED <<table, layer, expired>>
    BY DEF IntoPointer, DropEntry, InEntry
  <1>2. Contents'
    BY <1>1 DEF IInv, TypeOK, Contents, InSync, OneEntryPerKey, Stored
  <1>3. CASE IntoPointer(t)
    <2>1. op[t].ptr \in Pointers
      BY <1>3, OccupiedSees DEF IntoPointer
    <2>2. /\ Answered(op[t].ptr) \in Ops /\ Answered(op[t].ptr).at = "answered"
          /\ Leave(t, Answered(op[t].ptr))
      BY <1>3, <2>1, OpsMade DEF IInv, IntoPointer, Answered, Op
    <2>3. QED
      BY <1>1, <1>2, <2>2, LeaveStep
  <1>4. CASE DropEntry(t)
    <2>1. Idle \in Ops /\ Idle.at = "idle" /\ Leave(t, Idle)
      BY <1>4, OpsMade DEF IInv, DropEntry, Idle, Op
    <2>2. QED
      BY <1>1, <1>2, <2>1, LeaveStep
  <1>5. QED
    BY <1>3, <1>4

-----------------------------------------------------------------------------
LEMMA InitInv == Init => IInv
  <1> SUFFICES ASSUME Init PROVE IInv
    OBVIOUS
  <1>1. /\ table.slot = [p \in Pointers |-> Nowhere]
        /\ TableShape(table)
    BY MinBucketsAssumption, FullCapacityType DEF Init, EmptyTable, TableShape
  <1>2. Stored = {}
    BY <1>1 DEF Stored, Items
  <1>3. Idle \in Ops /\ Idle.at = "idle"
    BY DEF Idle, Op, Ops, OpKinds
  <1>4. TypeOK
    BY <1>1, <1>2, <1>3, NoneAssumption DEF Init, TypeOK, InEntry
  <1>5. InSync /\ OneEntryPerKey /\ EntryIntact
    BY <1>2, <1>3 DEF Init, InSync, OneEntryPerKey, EntryIntact
  <1>6. QED
    BY <1>4, <1>5 DEF IInv

LEMMA StepInv == IInv /\ [Next]_vars => IInv'
  <1> SUFFICES ASSUME IInv, [Next]_vars PROVE IInv'
    OBVIOUS
  <1>1. ASSUME NEW t \in Threads, NEW k \in Keys, GetMissing(t, k) \/ EntryVacant(t, k)
        PROVE  IInv'
    BY <1>1, GetMissingStep, EntryVacantStep
  <1>2. ASSUME NEW t \in Threads, NEW p \in Pointers,
               \/ GetRetain(t, p) \/ GetCondemn(t, p)
               \/ EntryOccupied(t, p) \/ EntryExpired(t, p)
        PROVE  IInv'
    BY <1>2, GetRetainStep, GetCondemnStep, EntryOccupiedStep, EntryExpiredStep
  <1>3. ASSUME NEW t \in Threads, GetRemove(t) \/ DropPointer(t)
        PROVE  IInv'
    BY <1>3, GetRemoveStep, DropPointerStep
  <1>4. ASSUME NEW t \in Threads, Release(t)
        PROVE  IInv'
    BY <1>4, RemoveStep, UnusedEntryStep, ReplaceStep, InsertStep DEF Release
  <1>5. ASSUME NEW p \in Pointers, Expire(p)
        PROVE  IInv'
    BY <1>5, ExpireStep
  <1>6. CASE UNCHANGED vars
    <2>1. Stored' = Stored
      BY <1>6 DEF vars, Stored
    <2>2. TypeOK'
      BY <1>6, <2>1 DEF vars, IInv, TypeOK, InEntry
    <2>3. InSync' /\ OneEntryPerKey' /\ EntryIntact'
      BY <1>6, <2>1 DEF vars, IInv, InSync, OneEntryPerKey, EntryIntact
    <2>4. QED
      BY <2>2, <2>3 DEF IInv
  <1>7. QED
    BY <1>1, <1>2, <1>3, <1>4, <1>5, <1>6 DEF Next

LEMMA InductiveInvariant == Spec => []IInv
  BY InitInv, StepInv, PTL DEF Spec

\* The state has the shape TypeOK says, and the write lock is held exactly by
\* the thread that is inside an entry.
THEOREM TypeCorrect == Spec => []TypeOK
  BY InductiveInvariant, PTL DEF IInv

\* The layer always knows exactly the pointers in the table: for any number of
\* threads, the expect in Write::remove cannot fail.
THEOREM LayerInSync == Spec => []InSync
  BY InductiveInvariant, PTL DEF IInv

\* No interleaving of gets, entries and evictions puts a key into the table
\* twice, or two pointers into one bucket.
THEOREM KeysUnique == Spec => []OneEntryPerKey
  BY InductiveInvariant, PTL DEF IInv

\* The bucket or slot an entry points to, through unsafe code, stays what it was
\* when the entry was opened for as long as the entry lives.
THEOREM EntriesIntact == Spec => []EntryIntact
  BY InductiveInvariant, PTL DEF IInv
-----------------------------------------------------------------------------
\* The layer is within its capacity; with InSync, so is the table.
LayerFits == Cardinality(layer) <= Capacity

LEMMA Counts ==
    ASSUME NEW S \in SUBSET Pointers
    PROVE  /\ IsFiniteSet(S) /\ Cardinality(S) \in Nat
           /\ \A T \in SUBSET S : Cardinality(T) <= Cardinality(S)
           /\ \A p \in S : Cardinality(S \ {p}) = Cardinality(S) - 1
           /\ \A p \in Pointers \ S : Cardinality(S \cup {p}) = Cardinality(S) + 1
  <1>1. IsFiniteSet(S)
    BY FS_Subset, PointersAssumption
  <1>2. \A T \in SUBSET S : Cardinality(T) <= Cardinality(S)
    BY <1>1, FS_Subset
  <1>3. QED
    BY <1>1, <1>2, FS_CardinalityType, FS_AddElement, FS_RemoveElement

\* A write that finds the layer no fuller than its capacity leaves it so.
LEMMA WriteFits ==
    ASSUME NEW S \in SUBSET Pointers, Cardinality(S) <= Capacity,
           NEW e \in Evictions(S), NEW p \in Pointers, p \notin S
    PROVE  Cardinality(e.layer \cup {p}) <= Capacity
  <1>1. CASE Cardinality(S) = Capacity
    <2>1. PICK v \in S : e \in {[layer |-> S \ {v}, table |-> tab] : tab \in Erase(table, v)}
      BY <1>1 DEF Evictions
    <2>2. e.layer = S \ {v} /\ e.layer \in SUBSET Pointers /\ p \notin e.layer
      BY <2>1
    <2>3. Cardinality(e.layer) = Cardinality(S) - 1
      BY <2>2, Counts
    <2>4. Cardinality(e.layer \cup {p}) = Cardinality(e.layer) + 1
      BY <2>2, Counts
    <2>5. QED
      BY <1>1, <2>3, <2>4, CapacityAssumption
  <1>2. CASE Cardinality(S) # Capacity
    <2>1. e.layer = S
      BY <1>2 DEF Evictions
    <2>2. Cardinality(S \cup {p}) = Cardinality(S) + 1 /\ Cardinality(S) \in Nat
      BY Counts
    <2>3. QED
      BY <1>2, <2>1, <2>2, CapacityAssumption
  <1>3. QED
    BY <1>1, <1>2

LEMMA StepFits == IInv /\ LayerFits /\ [Next]_vars => LayerFits'
  <1> SUFFICES ASSUME IInv, LayerFits, [Next]_vars PROVE LayerFits'
    OBVIOUS
  <1>1. layer \in SUBSET Pointers /\ Cardinality(layer) \in Nat
    BY Counts DEF IInv, TypeOK
  <1>2. ASSUME layer' \subseteq layer PROVE LayerFits'
    <2>1. Cardinality(layer') <= Cardinality(layer) /\ Cardinality(layer') \in Nat
      BY <1>1, <1>2, Counts
    <2>2. QED
      BY <1>1, <2>1, CapacityAssumption DEF LayerFits
  <1>3. ASSUME NEW t \in Threads, NEW p \in Pointers, Replace(t, p) PROVE LayerFits'
    <2>1. layer \ {op[t].ptr} \in SUBSET Pointers
      BY <1>1
    <2>2. Cardinality(layer \ {op[t].ptr}) <= Capacity
      <3>1. Cardinality(layer \ {op[t].ptr}) <= Cardinality(layer)
        BY <1>1, Counts
      <3>2. QED
        BY <1>1, <2>1, <3>1, Counts, CapacityAssumption DEF LayerFits
    <2>3. PICK e \in Evictions(layer \ {op[t].ptr}) : layer' = e.layer \cup {p}
      BY <1>3 DEF Replace
    <2>4. p \notin layer \ {op[t].ptr}
      BY <1>3 DEF Replace, Fresh
    <2>5. QED
      BY <2>1, <2>2, <2>3, <2>4, WriteFits DEF LayerFits
  <1>4. ASSUME NEW t \in Threads, NEW p \in Pointers, Insert(t, p) PROVE LayerFits'
    <2>1. PICK e \in Evictions(layer) : layer' = e.layer \cup {p}
      BY <1>4 DEF Insert
    <2>2. p \notin layer
      BY <1>4 DEF Insert, Fresh
    <2>3. QED
      BY <1>1, <2>1, <2>2, WriteFits DEF LayerFits
  <1>5. ASSUME NEW t \in Threads, Release(t) PROVE LayerFits'
    <2>1. ASSUME Remove(t) \/ IntoPointer(t) \/ DropEntry(t) PROVE layer' \subseteq layer
      BY <2>1 DEF Remove, IntoPointer, DropEntry
    <2>2. QED
      BY <1>2, <1>3, <1>4, <1>5, <2>1 DEF Release
  <1>6. ASSUME NEW t \in Threads, NEW k \in Keys, GetMissing(t, k) \/ EntryVacant(t, k)
        PROVE  layer' \subseteq layer
    BY <1>6 DEF GetMissing, EntryVacant
  <1>7. ASSUME NEW t \in Threads, NEW p \in Pointers,
               \/ GetRetain(t, p) \/ GetCondemn(t, p)
               \/ EntryOccupied(t, p) \/ EntryExpired(t, p)
        PROVE  layer' \subseteq layer
    BY <1>7 DEF GetRetain, GetCondemn, EntryOccupied, EntryExpired
  <1>8. ASSUME NEW t \in Threads, GetRemove(t) \/ DropPointer(t)
        PROVE  layer' \subseteq layer
    BY <1>8 DEF GetRemove, DropPointer
  <1>9. ASSUME NEW p \in Pointers, Expire(p) PROVE layer' \subseteq layer
    BY <1>9 DEF Expire
  <1>10. CASE UNCHANGED vars
    BY <1>2, <1>10 DEF vars
  <1>11. QED
    BY <1>2, <1>5, <1>6, <1>7, <1>8, <1>9, <1>10 DEF Next

\* Whatever the interleaving, a shard never holds more than its capacity.
THEOREM CapacityKept == Spec => []WithinCapacity
  <1>1. Init => LayerFits
    BY FS_EmptySet, CapacityAssumption DEF Init, LayerFits
  <1>2. IInv /\ LayerFits => WithinCapacity
    BY DEF IInv, InSync, LayerFits, WithinCapacity
  <1>3. QED
    BY <1>1, <1>2, StepFits, InductiveInvariant, PTL DEF Spec

-----------------------------------------------------------------------------
(* The room for a pending insertion.                                       *)

Room(tab) == tab.growth >= 0 /\ Tombstones(tab) >= 0

\* A table twice as large has more room, whichever formula its size goes by.
LEMMA DoublingGrows ==
    ASSUME NEW b \in Nat, FullCapacity(b) >= 0
    PROVE  FullCapacity(2 * b) > FullCapacity(b)
  <1>1. CASE b <= 8
    <2>1. b \in 1..8
      BY <1>1 DEF FullCapacity
    <2>2. QED
      BY <2>1 DEF FullCapacity
  <1>2. CASE b > 8
    <2>1. (2 * b) \div 8 > b \div 8 /\ (2 * b) \div 8 \in Int /\ b \div 8 \in Int
      BY <1>2
    <2>2. QED
      BY <1>2, <2>1 DEF FullCapacity
  <1>3. QED
    BY <1>1, <1>2

\* reserve(1) makes room for one, whether it rehashes in place or grows.
LEMMA ReserveMakesRoom ==
    ASSUME NEW tab, TableShape(tab), Room(tab), NEW r \in Reserve(tab)
    PROVE  Room(r) /\ r.growth > 0
  <1> DEFINE n == Cardinality(Items(tab))
             full == FullCapacity(tab.buckets)
  <1>1. n \in Nat /\ full \in Int /\ tab.growth \in Int /\ tab.buckets \in Nat
    BY ItemsFinite, FullCapacityType DEF TableShape
  <1>2. full - tab.growth - n >= 0 /\ tab.growth >= 0
    BY DEF Room, Tombstones
  <1>3. ASSUME NEW b \in Nat, r \in Rehashed(tab, b), n < FullCapacity(b)
        PROVE  Room(r) /\ r.growth > 0
    <2>1. r.buckets = b /\ r.growth = FullCapacity(b) - n
      BY <1>3 DEF Rehashed
    <2>2. Items(r) = Items(tab)
      BY <1>3, RehashedKeeps
    <2>3. QED
      BY <1>1, <1>3, <2>1, <2>2, FullCapacityType DEF Room, Tombstones
  <1>4. CASE tab.growth > 0
    BY <1>4 DEF Reserve
  <1>5. CASE ~(tab.growth > 0) /\ n + 1 <= full \div 2
    <2>1. r \in Rehashed(tab, tab.buckets) /\ n < full
      BY <1>1, <1>5 DEF Reserve
    <2>2. QED
      BY <1>1, <1>3, <2>1
  <1>6. CASE ~(tab.growth > 0) /\ ~(n + 1 <= full \div 2)
    <2>1. r \in Rehashed(tab, 2 * tab.buckets)
      BY <1>6 DEF Reserve
    <2>2. n < FullCapacity(2 * tab.buckets) /\ 2 * tab.buckets \in Nat
      BY <1>1, <1>2, DoublingGrows, FullCapacityType
    <2>3. QED
      BY <1>3, <2>1, <2>2
  <1>7. QED
    BY <1>4, <1>5, <1>6

\* Erasing an item gives its room back or leaves a tombstone.
LEMMA EraseKeepsRoom ==
    ASSUME NEW tab, TableShape(tab), Room(tab), NEW p \in Items(tab), NEW r \in Erase(tab, p)
    PROVE  Room(r) /\ r.growth >= tab.growth
  <1>1. p \in Pointers /\ Items(tab) \in SUBSET Pointers
    BY DEF Items
  <1>2. /\ r.buckets = tab.buckets /\ Items(r) = Items(tab) \ {p}
        /\ tab.growth \in Int /\ tab.buckets \in Nat
    BY <1>1, EraseOne DEF TableShape
  <1>3. r.growth \in {tab.growth, tab.growth + 1}
    BY DEF Erase, TableShape
  <1>4. /\ Cardinality(Items(r)) = Cardinality(Items(tab)) - 1
        /\ Cardinality(Items(tab)) \in Nat
    BY <1>1, <1>2, Counts
  <1>5. QED
    BY <1>2, <1>3, <1>4, FullCapacityType DEF Room, Tombstones

\* What a layer gives up leaves room behind as well.
LEMMA EvictionsKeepRoom ==
    ASSUME TableShape(table), Room(table), NEW S \in SUBSET Stored, NEW e \in Evictions(S)
    PROVE  Room(e.table)
  <1>1. CASE Cardinality(S) = Capacity
    <2>1. PICK v \in S : e \in {[layer |-> S \ {v}, table |-> tab] : tab \in Erase(table, v)}
      BY <1>1 DEF Evictions
    <2>2. e.table \in Erase(table, v) /\ v \in Items(table)
      BY <2>1 DEF Stored
    <2>3. QED
      BY <2>2, EraseKeepsRoom
  <1>2. CASE Cardinality(S) # Capacity
    BY <1>2 DEF Evictions
  <1>3. QED
    BY <1>1, <1>2

\* After a step that lets go of the lock nobody holds a vacant entry.
LEMMA NobodyVacant ==
    ASSUME IInv', writer' = None, Room(table')
    PROVE  RoomReserved'
  <1>1. \A t \in Threads : op'[t].at # "vacant"
    BY NoneAssumption DEF IInv, TypeOK, InEntry
  <1>2. QED
    BY <1>1 DEF RoomReserved, Room

\* Opening an entry leaves room for one.
LEMMA OpeningReserves ==
    ASSUME Room(table'), table'.growth > 0
    PROVE  RoomReserved'
  BY DEF RoomReserved, Room

LEMMA ReplaceRoom ==
    ASSUME IInv, IInv', RoomReserved, NEW t \in Threads, NEW p \in Pointers, Replace(t, p)
    PROVE  RoomReserved'
  <1> DEFINE i == op[t].slot
             q == op[t].ptr
  <1>1. /\ q \in Stored /\ i \in SlotsIn(table.buckets)
        /\ \A r \in Pointers : table.slot[r] = i <=> r = q
    BY OccupiedSees DEF Replace
  <1>2. PICK e \in Evictions(layer \ {q}) : table' = Overwrite(e.table, i, p)
    BY DEF Replace
  <1>3. /\ TableShape(table) /\ Room(table) /\ layer \ {q} \in SUBSET Stored
        /\ p \notin Stored
    BY DEF IInv, TypeOK, RoomReserved, Room, InSync, Replace, Fresh
  <1>4. /\ TableShape(e.table) /\ e.table.buckets = table.buckets
        /\ Items(e.table) = Stored \ ((layer \ {q}) \ e.layer)
        /\ \A r \in Pointers : e.table.slot[r] =
              IF r \in (layer \ {q}) \ e.layer THEN Nowhere ELSE table.slot[r]
    BY <1>3, EvictionsShape
  <1>5. Room(e.table)
    BY <1>3, EvictionsKeepRoom
  <1>6. ItemsAt(e.table, i) = {q} /\ q \in Items(e.table)
    BY <1>1, <1>4, SlotsAreSomewhere DEF ItemsAt, Stored, Items
  <1> HIDE DEF i, q
  <1>7. /\ Items(table') = (Items(e.table) \ {q}) \cup {p}
        /\ table'.buckets = e.table.buckets
    BY <1>1, <1>2, <1>4, <1>6, 0 \in Int, OverwriteOne
  <1>8. table'.growth = e.table.growth
    BY <1>2 DEF Overwrite, TableShape
  <1>9. /\ Cardinality(Items(table')) = Cardinality(Items(e.table))
        /\ Cardinality(Items(e.table)) \in Nat
    <2>1. Items(e.table) \in SUBSET Pointers /\ Items(e.table) \ {q} \in SUBSET Pointers
      BY DEF Items
    <2>2. p \notin Items(e.table) \ {q}
      BY <1>3, <1>4
    <2>3. /\ Cardinality(Items(e.table) \ {q}) = Cardinality(Items(e.table)) - 1
          /\ Cardinality(Items(e.table)) \in Nat
      BY <1>6, <2>1, Counts
    <2>4. Cardinality(Items(table')) = Cardinality(Items(e.table) \ {q}) + 1
      BY <1>7, <2>1, <2>2, Counts
    <2>5. QED
      BY <2>3, <2>4
  <1>10. Room(table')
    BY <1>5, <1>7, <1>8, <1>9 DEF Room, Tombstones
  <1>11. QED
    BY <1>10, NobodyVacant DEF Replace, Leave

LEMMA InsertRoom ==
    ASSUME IInv, IInv', RoomReserved, NEW t \in Threads, NEW p \in Pointers, Insert(t, p)
    PROVE  RoomReserved'
  <1> DEFINE i == op[t].slot
  <1>1. i \in SlotsIn(table.buckets) /\ \A r \in Pointers : table.slot[r] # i
    BY DEF Insert, IInv, EntryIntact, FreeSlots, ItemsAt
  <1>2. PICK e \in Evictions(layer) : table' \in InsertInSlot(e.table, i, p)
    BY DEF Insert
  <1>3. /\ TableShape(table) /\ Room(table) /\ layer \in SUBSET Stored
        /\ p \notin Stored
    BY DEF IInv, TypeOK, RoomReserved, Room, InSync, Insert, Fresh
  <1>4. /\ TableShape(e.table) /\ e.table.buckets = table.buckets
        /\ Items(e.table) = Stored \ (layer \ e.layer)
        /\ \A r \in Pointers : e.table.slot[r] =
              IF r \in layer \ e.layer THEN Nowhere ELSE table.slot[r]
    BY <1>3, EvictionsShape
  <1>5. Room(e.table)
    BY <1>3, EvictionsKeepRoom
  <1>6. ItemsAt(e.table, i) = {}
    BY <1>1, <1>4, SlotsAreSomewhere DEF ItemsAt
  <1> HIDE DEF i
  <1>7. /\ Items(table') = Items(e.table) \cup {p}
        /\ table'.buckets = e.table.buckets
    BY <1>1, <1>2, <1>4, <1>6, InsertOne
  <1>8. \/ table'.growth = e.table.growth - 1 /\ table'.growth >= 0
        \/ table'.growth = e.table.growth /\ Tombstones(e.table) > 0
    <2>1. PICK g \in {e.table.growth - 1, e.table.growth} :
             /\ g >= 0 /\ (g = e.table.growth => Tombstones(e.table) > 0)
             /\ table' = [Overwrite(e.table, i, p) EXCEPT !.growth = g]
      BY <1>2 DEF InsertInSlot
    <2>2. table'.growth = g
      BY <1>4, <2>1 DEF Overwrite, TableShape
    <2>3. QED
      BY <2>1, <2>2
  <1>9. /\ Cardinality(Items(table')) = Cardinality(Items(e.table)) + 1
        /\ Cardinality(Items(e.table)) \in Nat
    <2>1. Items(e.table) \in SUBSET Pointers /\ p \notin Items(e.table)
      BY <1>3, <1>4 DEF Items
    <2>2. QED
      BY <1>7, <2>1, Counts
  <1>10. FullCapacity(e.table.buckets) \in Int /\ e.table.growth \in Int
    BY <1>4, FullCapacityType DEF TableShape
  <1>11. Room(table')
    BY <1>5, <1>7, <1>8, <1>9, <1>10 DEF Room, Tombstones
  <1>12. QED
    BY <1>11, NobodyVacant DEF Insert, Leave

LEMMA StepRoom == IInv /\ IInv' /\ RoomReserved /\ [Next]_vars => RoomReserved'
  <1> SUFFICES ASSUME IInv, IInv', RoomReserved, [Next]_vars PROVE RoomReserved'
    OBVIOUS
  <1>1. TableShape(table) /\ Room(table) /\ Apart(table)
    BY DEF IInv, TypeOK, RoomReserved, Room, OneEntryPerKey, Apart, Stored
  <1>2. ASSUME NEW t \in Threads, NEW o \in Ops, o.at # "vacant", Continue(t, o),
               table' = table
        PROVE  RoomReserved'
    <2>1. \A u \in Threads : op'[u].at = "vacant" => op[u].at = "vacant"
      BY <1>2 DEF Continue, IInv, TypeOK
    <2>2. QED
      BY <1>2, <2>1 DEF RoomReserved
  <1>3. /\ Idle \in Ops /\ Idle.at = "idle"
        /\ \A p \in Pointers \cup {None} :
              Answered(p) \in Ops /\ Answered(p).at = "answered"
        /\ \A p \in Pointers : Condemning(p) \in Ops /\ Condemning(p).at = "condemning"
    BY OpsMade DEF IInv, Idle, Answered, Condemning, Op
  <1>4. ASSUME NEW t \in Threads, NEW k \in Keys, GetMissing(t, k) \/ EntryVacant(t, k)
        PROVE  RoomReserved'
    <2>1. CASE GetMissing(t, k)
      BY <2>1, <1>2, <1>3 DEF GetMissing
    <2>2. CASE EntryVacant(t, k)
      BY <2>2, <1>1, ReserveMakesRoom, OpeningReserves DEF EntryVacant
    <2>3. QED
      BY <1>4, <2>1, <2>2
  <1>5. ASSUME NEW t \in Threads, NEW p \in Pointers,
               \/ GetRetain(t, p) \/ GetCondemn(t, p)
               \/ EntryOccupied(t, p) \/ EntryExpired(t, p)
        PROVE  RoomReserved'
    <2>1. CASE GetRetain(t, p) \/ GetCondemn(t, p)
      BY <2>1, <1>2, <1>3 DEF GetRetain, GetCondemn
    <2>2. CASE EntryOccupied(t, p)
      BY <2>2, <1>1, ReserveMakesRoom, OpeningReserves DEF EntryOccupied
    <2>3. CASE EntryExpired(t, p)
      <3>1. PICK tab \in Reserve(table) : table' \in Erase(tab, p)
        BY <2>3 DEF EntryExpired
      <3>2. TableShape(tab) /\ Items(tab) = Stored /\ p \in Stored
        BY <2>3, <3>1, ReservedContents DEF EntryExpired
      <3>3. Room(tab) /\ tab.growth > 0 /\ tab.growth \in Int
        BY <1>1, <3>1, <3>2, ReserveMakesRoom DEF TableShape
      <3>4. Room(table') /\ table'.growth >= tab.growth
        BY <3>1, <3>2, <3>3, EraseKeepsRoom
      <3>5. table'.growth \in Int
        BY <3>1, <3>2, EraseOne DEF TableShape, Stored, Items
      <3>6. QED
        BY <3>3, <3>4, <3>5, OpeningReserves
    <2>4. QED
      BY <1>5, <2>1, <2>2, <2>3
  <1>6. ASSUME NEW t \in Threads, GetRemove(t) PROVE RoomReserved'
    <2>1. writer' = None
      BY <1>6 DEF GetRemove
    <2>2. Room(table')
      <3>1. CASE table' = table
        BY <3>1, <1>1
      <3>2. ASSUME NEW p \in Lookup(op[t]), table' \in Erase(table, p) PROVE Room(table')
        BY <1>1, <3>2, EraseKeepsRoom DEF Lookup, Stored
      <3>3. QED
        BY <1>6, <3>1, <3>2 DEF GetRemove
    <2>3. QED
      BY <2>1, <2>2, NobodyVacant
  <1>7. ASSUME NEW t \in Threads, Release(t) PROVE RoomReserved'
    <2>1. CASE Remove(t)
      <3>1. op[t].ptr \in Items(table)
        BY <2>1, OccupiedSees DEF Remove, Stored
      <3>2. Room(table')
        BY <1>1, <2>1, <3>1, EraseKeepsRoom DEF Remove
      <3>3. QED
        BY <2>1, <3>2, NobodyVacant DEF Remove, Leave
    <2>2. CASE IntoPointer(t) \/ DropEntry(t)
      BY <1>1, <2>2, NobodyVacant DEF IntoPointer, DropEntry, Leave
    <2>3. QED
      BY <1>7, <2>1, <2>2, ReplaceRoom, InsertRoom DEF Release
  <1>8. ASSUME NEW t \in Threads, DropPointer(t) PROVE RoomReserved'
    BY <1>8, <1>2, <1>3 DEF DropPointer
  <1>9. ASSUME NEW p \in Pointers, Expire(p) PROVE RoomReserved'
    BY <1>9 DEF Expire, RoomReserved
  <1>10. CASE UNCHANGED vars
    BY <1>10 DEF vars, RoomReserved
  <1>11. QED
    BY <1>4, <1>5, <1>6, <1>7, <1>8, <1>9, <1>10 DEF Next

\* A vacant entry's room is there when it is filled: insert_in_slot, which does
\* not check, never takes growth_left below zero, and no accounting of items and
\* tombstones exceeds what the buckets can hold.
THEOREM RoomIsReserved == Spec => []RoomReserved
  <1>1. Init => RoomReserved
    <2> SUFFICES ASSUME Init PROVE RoomReserved
      OBVIOUS
    <2>1. /\ table.growth = FullCapacity(MinBuckets) /\ table.buckets = MinBuckets
          /\ Items(table) = {}
      BY DEF Init, EmptyTable, Items
    <2>2. \A t \in Threads : op[t].at # "vacant"
      BY DEF Init, Idle, Op
    <2>3. QED
      BY <2>1, <2>2, MinBucketsAssumption, FullCapacityType, FS_EmptySet
      DEF RoomReserved, Tombstones
  <1>2. QED
    BY <1>1, StepRoom, InductiveInvariant, PTL DEF Spec

-----------------------------------------------------------------------------
\* A pointer that leaves the table while no entry is open was condemned by a get
\* that has now answered: what moved into its bucket is never taken for it.
THEOREM NoBystanderGoes == Spec => OnlyTheCondemned
  <1> DEFINE Condemned(p) ==
        \E t \in Threads : op[t].at = "condemning" /\ op[t].ptr = p /\ op'[t].at = "answered"
  <1>1. ASSUME IInv, [Next]_vars, writer = None, writer' = None,
               NEW p \in Stored \ Stored'
        PROVE  Condemned(p)
    <2>1. ASSUME Stored' = Stored PROVE FALSE
      BY <2>1
    <2>2. ASSUME NEW t \in Threads, GetRemove(t) PROVE Condemned(p)
      <3>1. PICK q \in Lookup(op[t]) : table' \in Erase(table, q)
        BY <2>1, <2>2 DEF GetRemove, Stored
      <3>2. q = op[t].ptr /\ q \in Pointers
        BY DEF Lookup, Stored, Items
      <3>3. Stored' = Stored \ {q}
        BY <1>1, <3>1, <3>2, EraseOne DEF IInv, TypeOK, Stored
      <3>4. op[t].at = "condemning" /\ op'[t].at = "answered"
        BY <1>1, <2>2 DEF GetRemove, Continue, Answered, Op, IInv, TypeOK
      <3>5. QED
        BY <3>2, <3>3, <3>4
    <2>3. ASSUME NEW t \in Threads, Enter(t) PROVE FALSE
      BY <1>1, <2>3, NoneAssumption DEF Enter
    <2>4. ASSUME NEW t \in Threads, Release(t) PROVE FALSE
      <3>1. InEntry(t)
        BY <2>4 DEF Release, Remove, IntoPointer, DropEntry, Replace, Insert, InEntry
      <3>2. QED
        BY <1>1, <3>1, NoneAssumption DEF IInv, TypeOK
    <2>5. CASE UNCHANGED table
      BY <2>1, <2>5 DEF Stored
    <2>6. QED
      BY <1>1, <2>2, <2>3, <2>4, <2>5
      DEF Next, vars, GetMissing, EntryVacant, GetRetain, GetCondemn, EntryOccupied,
          EntryExpired, DropPointer, Expire
  <1>2. IInv /\ [Next]_vars =>
          [\A p \in Stored \ Stored' :
              writer # None \/ writer' # None \/ Condemned(p)]_vars
    BY <1>1
  <1>3. QED
    BY <1>2, InductiveInvariant, PTL DEF Spec, OnlyTheCondemned
-----------------------------------------------------------------------------
(* The shard as the map its callers see.                                   *)

\* The pointers of S as a map from their keys: Map is this of Stored.
MapOf(S) == [k \in Keys |-> IF \E p \in S : KeyOf[p] = k
                            THEN CHOOSE p \in S : KeyOf[p] = k ELSE None]

KeysApart(S) == \A p, q \in S : KeyOf[p] = KeyOf[q] => p = q

\* A map of pointers with different keys is all there is to know of them.
LEMMA MapHolds ==
    ASSUME NEW S \in SUBSET Pointers, KeysApart(S)
    PROVE  /\ MapOf(S) \in [Keys -> Pointers \cup {None}]
           /\ \A p \in S : KeyOf[p] \in Keys /\ MapOf(S)[KeyOf[p]] = p
           /\ \A k \in Keys : MapOf(S)[k] # None =>
                 MapOf(S)[k] \in S /\ KeyOf[MapOf(S)[k]] = k
           /\ \A k \in Keys : MapOf(S)[k] = None <=> \A p \in S : KeyOf[p] # k
           /\ Abstract!Mapped(MapOf(S)) = S
  <1>1. ASSUME NEW k \in Keys, NEW p \in S, KeyOf[p] = k
        PROVE  MapOf(S)[k] = p
    <2>1. (CHOOSE q \in S : KeyOf[q] = k) = p
      BY <1>1 DEF KeysApart
    <2>2. QED
      BY <1>1, <2>1 DEF MapOf
  <1>2. ASSUME NEW k \in Keys, \A p \in S : KeyOf[p] # k
        PROVE  MapOf(S)[k] = None
    BY <1>2 DEF MapOf
  <1>3. \A p \in S : KeyOf[p] \in Keys /\ p # None
    BY KeyOfAssumption, NoneAssumption
  <1>4. MapOf(S) \in [Keys -> Pointers \cup {None}]
    <2>1. \A k \in Keys : MapOf(S)[k] \in Pointers \cup {None}
      BY <1>1, <1>2
    <2>2. QED
      BY <2>1 DEF MapOf
  <1>5. \A k \in Keys : MapOf(S)[k] # None => MapOf(S)[k] \in S /\ KeyOf[MapOf(S)[k]] = k
    BY <1>1, <1>2
  <1>6. \A k \in Keys : MapOf(S)[k] = None <=> \A p \in S : KeyOf[p] # k
    BY <1>1, <1>2, <1>3
  <1>7. Abstract!Mapped(MapOf(S)) = S
    BY <1>1, <1>3, <1>5 DEF Abstract!Mapped
  <1>8. QED
    BY <1>1, <1>3, <1>4, <1>5, <1>6, <1>7

\* Without one of its pointers, the map is without that pointer's key.
LEMMA MapWithout ==
    ASSUME NEW S \in SUBSET Pointers, KeysApart(S), NEW p \in S
    PROVE  MapOf(S \ {p}) = [MapOf(S) EXCEPT ![KeyOf[p]] = None]
  <1>1. S \ {p} \in SUBSET Pointers /\ KeysApart(S \ {p})
    BY DEF KeysApart
  <1>2. ASSUME NEW k \in Keys
        PROVE  MapOf(S \ {p})[k] = IF k = KeyOf[p] THEN None ELSE MapOf(S)[k]
    <2>1. CASE k = KeyOf[p]
      BY <1>1, <2>1, MapHolds DEF KeysApart
    <2>2. CASE k # KeyOf[p] /\ \E q \in S : KeyOf[q] = k
      <3>1. PICK q \in S : KeyOf[q] = k
        BY <2>2
      <3>2. q \in S \ {p}
        BY <2>2, <3>1
      <3>3. MapOf(S)[k] = q /\ MapOf(S \ {p})[k] = q
        BY <1>1, <3>1, <3>2, MapHolds
      <3>4. QED
        BY <2>2, <3>3
    <2>3. CASE k # KeyOf[p] /\ \A q \in S : KeyOf[q] # k
      BY <1>1, <2>3, MapHolds
    <2>4. QED
      BY <2>1, <2>2, <2>3
  <1>3. MapOf(S) \in [Keys -> Pointers \cup {None}]
        /\ MapOf(S \ {p}) \in [Keys -> Pointers \cup {None}]
    BY <1>1, MapHolds
  <1>4. QED
    BY <1>2, <1>3

\* The keys that are mapped are as many as the pointers they map to.
LEMMA MappedCount ==
    ASSUME NEW S \in SUBSET Pointers, KeysApart(S), NEW k \in Keys
    PROVE  Cardinality({l \in Keys \ {k} : MapOf(S)[l] # None})
              = Cardinality({p \in S : KeyOf[p] # k})
  <1> DEFINE K == {l \in Keys \ {k} : MapOf(S)[l] # None}
             P == {p \in S : KeyOf[p] # k}
             f == [p \in P |-> KeyOf[p]]
  <1>1. \A p \in P : KeyOf[p] \in K
    BY MapHolds, NoneAssumption
  <1>2. \A p, q \in P : f[p] = f[q] => p = q
    BY DEF KeysApart
  <1>3. \A l \in K : \E p \in P : f[p] = l
    BY MapHolds
  <1>4. f \in [P -> K]
    BY <1>1
  <1>5. f \in Injection(P, K) /\ f \in Surjection(P, K)
    <2> HIDE DEF f, P, K
    <2>1. f \in Injection(P, K)
      BY <1>2, <1>4 DEF Injection, IsInjective
    <2>2. QED
      BY <1>3, <1>4, <2>1 DEF Surjection
  <1>6. ExistsBijection(P, K)
    BY <1>5 DEF ExistsBijection, Bijection
  <1>7. IsFiniteSet(P)
    BY PointersAssumption, FS_Subset
  <1> HIDE DEF K, P, f
  <1>8. Cardinality(K) = Cardinality(P)
    BY <1>6, <1>7, FS_Bijection
  <1>9. QED
    BY <1>8 DEF K, P

LEMMA AbstractCardinality == ASSUME NEW S PROVE Abstract!Cardinality(S) = Cardinality(S)
  BY DEF Abstract!Cardinality, Cardinality

-----------------------------------------------------------------------------
\* What a thread has learned, by its op.
AnswerOf(o) ==
    CASE o.at = "idle" -> Quiet
      [] o.at \in {"condemning", "vacant"} -> None
      [] OTHER -> o.ptr

LEMMA Answers ==
    /\ Answer = [t \in Threads |-> AnswerOf(op[t])]
    /\ AnswerOf(Idle) = Quiet
    /\ \A p : AnswerOf(Answered(p)) = p
    /\ \A p, i : AnswerOf(Occupied(p, i)) = p
    /\ \A k, i : AnswerOf(Vacant(k, i)) = None
    /\ \A p : AnswerOf(Condemning(p)) = None
  BY DEF Answer, AnswerOf, Idle, Answered, Occupied, Vacant, Condemning, Op

LEMMA AnswerStep ==
    ASSUME TypeOK, NEW t \in Threads, NEW o, Continue(t, o)
    PROVE  Answer' = [Answer EXCEPT ![t] = AnswerOf(o)]
  <1>1. Answer' = [u \in Threads |-> AnswerOf(op'[u])]
    BY DEF Answer, AnswerOf
  <1>2. \A u \in Threads : op'[u] = IF u = t THEN o ELSE op[u]
    BY DEF Continue, TypeOK
  <1>3. QED
    BY <1>1, <1>2, Answers

\* A pointer that a get has condemned is stale for as long as it is stored: its
\* allocation is not used again while the get refers to it.
CondemnedIsStale ==
    \A t \in Threads :
        op[t].at = "condemning" /\ op[t].ptr \in Stored => op[t].ptr \in expired

\* What the abstract map is, and becomes.
LEMMA MapIs ==
    /\ Map = MapOf(Stored) /\ Map' = MapOf(Stored')
    /\ IInv => Stored \in SUBSET Pointers /\ KeysApart(Stored)
    /\ IInv' => Stored' \in SUBSET Pointers /\ KeysApart(Stored')
    /\ IInv => expired \in SUBSET Stored
    /\ IInv' => expired' \in SUBSET Stored'
  <1>1. Map = MapOf(Stored) /\ Map' = MapOf(Stored')
    BY DEF Map, MapOf
  <1>2. Stored \in SUBSET Pointers /\ Stored' \in SUBSET Pointers
    BY DEF Stored, Items
  <1>3. (IInv => KeysApart(Stored)) /\ (IInv' => KeysApart(Stored'))
    BY DEF IInv, OneEntryPerKey, KeysApart
  <1>4. QED
    BY <1>1, <1>2, <1>3 DEF IInv, TypeOK

\* A lookup that finds a pointer in time.
LEMMA FoundStep ==
    ASSUME IInv, NEW t \in Threads, NEW p \in Stored \ expired, op[t] = Idle,
           NEW o, AnswerOf(o) = p, Continue(t, o),
           Stored' = Stored, expired' = expired
    PROVE  Abstract!Next
  <1>1. KeyOf[p] \in Keys /\ Map[KeyOf[p]] = p /\ p # None
    BY MapIs, MapHolds, NoneAssumption DEF Stored, Items
  <1>2. Answer[t] = Quiet /\ Answer' = [Answer EXCEPT ![t] = p]
    BY Answers, AnswerStep DEF IInv
  <1>3. Map' = Map
    BY MapIs
  <1>4. Abstract!Found(t, KeyOf[p])
    BY <1>1, <1>2, <1>3 DEF Abstract!Found
  <1>5. QED
    BY <1>1, <1>4 DEF Abstract!Next

\* A lookup that finds nothing, or a pointer whose time is over, which it may
\* take out.
LEMMA MissedStep ==
    ASSUME IInv, IInv', NEW t \in Threads, NEW k \in Keys, op[t] = Idle,
           \A p \in Stored : KeyOf[p] = k => p \in expired,
           NEW o, AnswerOf(o) = None, Continue(t, o),
           \/ Stored' = Stored /\ expired' = expired
           \/ \E p \in Stored : /\ KeyOf[p] = k /\ Stored' = Stored \ {p}
                                /\ expired' = expired \ {p}
    PROVE  Abstract!Next
  <1>1. Map[k] = None \/ Map[k] \in expired
    BY MapIs, MapHolds
  <1>2. Answer[t] = Quiet /\ Answer' = [Answer EXCEPT ![t] = None]
    BY Answers, AnswerStep DEF IInv
  <1>3. Map' \in {Map, [Map EXCEPT ![k] = None]}
    BY MapIs, MapWithout
  <1>4. expired' = expired \cap Abstract!Mapped(Map')
    <2>1. Abstract!Mapped(Map') = Stored'
      BY MapIs, MapHolds
    <2>2. QED
      BY <2>1, MapIs
  <1>5. Abstract!Missed(t, k)
    BY <1>1, <1>2, <1>3, <1>4 DEF Abstract!Missed
  <1>6. QED
    BY <1>5 DEF Abstract!Next

\* A thread goes on to the next operation.
LEMMA ForgetStep ==
    ASSUME IInv, NEW t \in Threads, Continue(t, Idle),
           Stored' = Stored, expired' = expired
    PROVE  Abstract!Next
  <1>1. Answer' = [Answer EXCEPT ![t] = Quiet]
    BY Answers, AnswerStep DEF IInv
  <1>2. Abstract!Forget(t)
    BY <1>1, MapIs DEF Abstract!Forget
  <1>3. QED
    BY <1>2 DEF Abstract!Next

\* A step that only changes what the map does not show.
LEMMA SilentStep ==
    ASSUME IInv, NEW t \in Threads, NEW o, AnswerOf(o) = AnswerOf(op[t]), Continue(t, o),
           Stored' = Stored, expired' = expired
    PROVE  UNCHANGED Abstract!vars
  <1>1. Answer' = [Answer EXCEPT ![t] = AnswerOf(o)] /\ Answer[t] = AnswerOf(o)
    BY Answers, AnswerStep DEF IInv
  <1>2. Answer' = Answer
    BY <1>1, Answers
  <1>3. QED
    BY <1>2, MapIs DEF Abstract!vars

\* A write, after which the key in hand maps to the new pointer, and one other
\* key to nothing if the layer was full.
LEMMA PutStep ==
    ASSUME IInv, IInv', NEW t \in Threads, NEW p \in Pointers, NEW old \in SUBSET Stored,
           p \notin Stored, \A q \in Stored : q \in old <=> KeyOf[q] = KeyOf[p],
           Map[KeyOf[p]] = Answer[t],
           NEW e \in Evictions(layer \ old), layer' = e.layer \cup {p},
           expired' = expired \cap Items(table'), Continue(t, Answered(p))
    PROVE  Abstract!Next
  <1> DEFINE S == layer \ old
             k == KeyOf[p]
             others == {l \in Keys \ {k} : Map[l] # None}
  <1>1. k \in Keys /\ p # None
    BY KeyOfAssumption, NoneAssumption
  <1>2. /\ S = {q \in Stored : KeyOf[q] # k} /\ S \in SUBSET Pointers
        /\ Stored' = e.layer \cup {p}
    BY DEF IInv, InSync, Stored, Items
  <1>3. Cardinality(others) = Cardinality(S)
    BY <1>1, <1>2, MapIs, MappedCount
  <1>4. PICK gone \in SUBSET S :
           /\ e.layer = S \ gone
           /\ Cardinality(gone) = IF Cardinality(S) = Capacity THEN 1 ELSE 0
           /\ \A v, w \in gone : v = w
           /\ gone # {} => Cardinality(gone) = 1
    <2>1. CASE Cardinality(S) = Capacity
      <3>1. PICK v \in S : e.layer = S \ {v}
        BY <2>1 DEF Evictions
      <3>2. Cardinality({v}) = 1
        BY FS_Singleton
      <3>3. QED
        BY <2>1, <3>1, <3>2
    <2>2. CASE Cardinality(S) # Capacity
      <3>1. e.layer = S \ {} /\ Cardinality({}) = 0
        BY <2>2, FS_EmptySet DEF Evictions
      <3>2. QED
        BY <2>2, <3>1
    <2>3. QED
      BY <2>1, <2>2
  <1> DEFINE out == {KeyOf[v] : v \in gone}
  <1>5. out \in SUBSET others
    BY <1>2, MapIs, MapHolds, NoneAssumption
  <1>6. Cardinality(out) = Cardinality(gone)
    <2>1. CASE gone = {}
      BY <2>1
    <2>2. CASE gone # {}
      <3>1. PICK v \in gone : out = {KeyOf[v]}
        BY <1>4, <2>2
      <3>2. QED
        BY <1>4, <2>2, <3>1, FS_Singleton
    <2>3. QED
      BY <2>1, <2>2
  <1>7. Map' = [l \in Keys |-> IF l = k THEN p ELSE IF l \in out THEN None ELSE Map[l]]
    <2>1. ASSUME NEW l \in Keys
          PROVE  Map'[l] = IF l = k THEN p ELSE IF l \in out THEN None ELSE Map[l]
      <3>1. CASE l = k
        BY <1>2, <3>1, MapIs, MapHolds
      <3>2. CASE l # k /\ l \in out
        <4>1. \A q \in Stored' : KeyOf[q] # l
          BY <1>2, <1>4, <3>2, MapIs DEF KeysApart
        <4>2. QED
          BY <3>2, <4>1, MapIs, MapHolds
      <3>3. CASE l # k /\ l \notin out /\ \E q \in Stored : KeyOf[q] = l
        <4>1. PICK q \in Stored : KeyOf[q] = l
          BY <3>3
        <4>2. q \in S \ gone
          BY <1>2, <3>3, <4>1
        <4>3. q \in Stored'
          BY <1>2, <1>4, <4>2
        <4>4. Map[l] = q /\ Map'[l] = q
          BY <4>1, <4>3, MapIs, MapHolds
        <4>5. QED
          BY <3>3, <4>4
      <3>4. CASE l # k /\ l \notin out /\ \A q \in Stored : KeyOf[q] # l
        <4>1. \A q \in Stored' : KeyOf[q] # l
          BY <1>2, <1>4, <3>4
        <4>2. Map[l] = None /\ Map'[l] = None
          BY <3>4, <4>1, MapIs, MapHolds
        <4>3. QED
          BY <3>4, <4>2
      <3>5. QED
        BY <3>1, <3>2, <3>3, <3>4
    <2>2. Map' = [l \in Keys |-> Map'[l]]
      BY MapIs DEF MapOf
    <2>3. QED
      BY <2>1, <2>2
  <1>8. /\ p \notin Abstract!Mapped(Map)
        /\ expired' = expired \cap Abstract!Mapped(Map')
    BY MapIs, MapHolds DEF Stored
  <1>9. Answer' = [Answer EXCEPT ![t] = p]
    BY Answers, AnswerStep DEF IInv
  <1>10. Abstract!Put(t, k, p)
    <2>1. Abstract!Cardinality(out) = IF Abstract!Cardinality(others) = Capacity THEN 1 ELSE 0
      BY <1>3, <1>4, <1>6, AbstractCardinality
    <2> HIDE DEF out
    <2>2. QED
      BY <1>5, <1>7, <1>8, <1>9, <2>1 DEF Abstract!Put
  <1>11. QED
    BY <1>1, <1>10 DEF Abstract!Next

\* The caller takes out what its entry holds.
LEMMA RemovalStep ==
    ASSUME IInv, NEW t \in Threads, NEW p \in Stored, Answer[t] = p,
           NEW o, AnswerOf(o) = p, Continue(t, o),
           Stored' = Stored \ {p}, expired' = expired \ {p}
    PROVE  Abstract!Next
  <1>1. KeyOf[p] \in Keys /\ Map[KeyOf[p]] = p /\ p # None
    BY MapIs, MapHolds, NoneAssumption DEF Stored, Items
  <1>2. Map' = [Map EXCEPT ![KeyOf[p]] = None]
    BY MapIs, MapWithout
  <1>3. Answer' = Answer
    BY Answers, AnswerStep DEF IInv
  <1>4. Abstract!Remove(t, KeyOf[p])
    BY <1>1, <1>2, <1>3 DEF Abstract!Remove
  <1>5. QED
    BY <1>1, <1>4 DEF Abstract!Next

\* A get takes out the stale pointer it has condemned.
LEMMA ExpungeStep ==
    ASSUME IInv, NEW t \in Threads, NEW p \in expired,
           AnswerOf(op[t]) = None, Continue(t, Answered(None)),
           Stored' = Stored \ {p}, expired' = expired \ {p}
    PROVE  Abstract!Next
  <1>1. p \in Stored /\ KeyOf[p] \in Keys /\ Map[KeyOf[p]] = p
    BY MapIs, MapHolds
  <1>2. Map' = [Map EXCEPT ![KeyOf[p]] = None]
    BY <1>1, MapIs, MapWithout
  <1>3. Answer' = Answer
    BY Answers, AnswerStep DEF IInv
  <1>4. Abstract!Expunge(KeyOf[p])
    BY <1>1, <1>2, <1>3 DEF Abstract!Expunge
  <1>5. QED
    BY <1>1, <1>4 DEF Abstract!Next

\* A use of an entry, each by its own case: what the entry saw is still so.
LEMMA ReleaseStep ==
    ASSUME IInv, IInv', NEW t \in Threads, Release(t)
    PROVE  Abstract!Next \/ UNCHANGED Abstract!vars
  <1>1. Answer[t] = AnswerOf(op[t])
    BY Answers
  <1>2. op[t].at = "occupied" => AnswerOf(op[t]) = op[t].ptr
    BY DEF AnswerOf
  <1>3. op[t].at = "vacant" => AnswerOf(op[t]) = None
    BY DEF AnswerOf
  <1>4. CASE Remove(t)
    <2>1. op[t].ptr \in Stored /\ op[t].ptr \in Pointers /\ op[t].at = "occupied"
      BY <1>4, OccupiedSees DEF Remove
    <2>2. Stored' = Stored \ {op[t].ptr}
      BY <1>4, <2>1, EraseOne DEF Remove, IInv, TypeOK, Stored
    <2>3. Continue(t, Answered(op[t].ptr)) /\ expired' = expired \ {op[t].ptr}
      BY <1>4 DEF Remove, Leave
    <2>4. QED
      BY <1>1, <1>2, <2>1, <2>2, <2>3, Answers, RemovalStep
  <1>5. CASE IntoPointer(t)
    <2>1. op[t].at = "occupied" /\ Continue(t, Answered(op[t].ptr))
          /\ Stored' = Stored /\ expired' = expired
      BY <1>5 DEF IntoPointer, Leave, Stored
    <2>2. QED
      BY <1>2, <2>1, Answers, SilentStep
  <1>6. CASE DropEntry(t)
    <2>1. Continue(t, Idle) /\ Stored' = Stored /\ expired' = expired
      BY <1>6 DEF DropEntry, Leave, Stored
    <2>2. QED
      BY <2>1, ForgetStep
  <1>7. ASSUME NEW p \in Pointers, Replace(t, p) PROVE Abstract!Next
    <2> DEFINE q == op[t].ptr
    <2>1. /\ op[t].at = "occupied" /\ q \in Stored /\ p \notin Stored
          /\ KeyOf[p] = KeyOf[q]
          /\ expired' = expired \cap Items(table') /\ Continue(t, Answered(p))
      BY <1>7, OccupiedSees DEF Replace, Fresh, Leave
    <2>2. PICK e \in Evictions(layer \ {q}) : layer' = e.layer \cup {p}
      BY <1>7 DEF Replace
    <2>3. \A r \in Stored : r \in {q} <=> KeyOf[r] = KeyOf[p]
      BY <2>1 DEF IInv, OneEntryPerKey
    <2>4. Map[KeyOf[p]] = Answer[t]
      BY <1>1, <1>2, <2>1, MapIs, MapHolds
    <2> HIDE DEF q
    <2>5. QED
      BY <2>1, <2>2, <2>3, <2>4, PutStep
  <1>8. ASSUME NEW p \in Pointers, Insert(t, p) PROVE Abstract!Next
    <2>1. /\ op[t].at = "vacant" /\ p \notin Stored
          /\ \A r \in Stored : KeyOf[r] # KeyOf[p]
          /\ expired' = expired \cap Items(table') /\ Continue(t, Answered(p))
      BY <1>8 DEF Insert, Fresh, Leave, IInv, EntryIntact
    <2>2. PICK e \in Evictions(layer \ {}) : layer' = e.layer \cup {p}
      <3>1. layer \ {} = layer
        OBVIOUS
      <3>2. QED
        BY <1>8, <3>1 DEF Insert
    <2>3. \A r \in Stored : r \in {} <=> KeyOf[r] = KeyOf[p]
      BY <2>1
    <2>4. Map[KeyOf[p]] = Answer[t]
      BY <1>1, <1>3, <2>1, MapIs, MapHolds, KeyOfAssumption
    <2>5. QED
      BY <2>1, <2>2, <2>3, <2>4, PutStep
  <1>9. QED
    BY <1>4, <1>5, <1>6, <1>7, <1>8 DEF Release

-----------------------------------------------------------------------------
\* What is condemned stays stale when a step stores nothing but pointers nobody
\* refers to, and makes nothing that stays fresh again.
LEMMA StaleKept ==
    ASSUME IInv, CondemnedIsStale, NEW t \in Threads, NEW o, Continue(t, o),
           o.at = "condemning" => o.ptr \in expired',
           \A p \in Stored' : \/ p \in Stored /\ (p \in expired => p \in expired')
                              \/ \A u \in Threads : op[u].ptr # p
    PROVE  CondemnedIsStale'
  <1>1. \A u \in Threads : op'[u] = IF u = t THEN o ELSE op[u]
    BY DEF Continue, IInv, TypeOK
  <1>2. QED
    BY <1>1 DEF CondemnedIsStale

LEMMA StepStale ==
    Touches = FALSE /\ IInv /\ IInv' /\ CondemnedIsStale /\ [Next]_vars => CondemnedIsStale'
  <1> SUFFICES ASSUME Touches = FALSE, IInv, IInv', CondemnedIsStale, [Next]_vars
               PROVE  CondemnedIsStale'
    OBVIOUS
  <1>1. /\ Idle.at = "idle" /\ \A p : Answered(p).at = "answered"
        /\ \A p : Condemning(p).at = "condemning" /\ Condemning(p).ptr = p
        /\ \A p, i : Occupied(p, i).at = "occupied"
        /\ \A k, i : Vacant(k, i).at = "vacant"
    BY DEF Idle, Answered, Condemning, Occupied, Vacant, Op
  <1>2. ASSUME Items(table') = Items(table) PROVE Stored' = Stored
    BY <1>2 DEF Stored
  <1>3. \A tab \in Reserve(table) : TableShape(tab) /\ Items(tab) = Stored
    BY ReservedContents
  <1>4. ASSUME NEW t \in Threads, NEW k \in Keys, GetMissing(t, k) \/ EntryVacant(t, k)
        PROVE  CondemnedIsStale'
    <2>1. Stored' = Stored /\ expired' = expired
      BY <1>3, <1>4 DEF GetMissing, EntryVacant, Stored
    <2>2. PICK o : Continue(t, o) /\ o.at # "condemning"
      BY <1>1, <1>4 DEF GetMissing, EntryVacant
    <2>3. QED
      BY <2>1, <2>2, StaleKept
  <1>5. ASSUME NEW t \in Threads, NEW p \in Pointers,
               GetRetain(t, p) \/ EntryOccupied(t, p)
        PROVE  CondemnedIsStale'
    <2>1. Stored' = Stored /\ expired' = expired
      BY <1>3, <1>5 DEF GetRetain, EntryOccupied, Stored
    <2>2. PICK o : Continue(t, o) /\ o.at # "condemning"
      BY <1>1, <1>5 DEF GetRetain, EntryOccupied
    <2>3. QED
      BY <2>1, <2>2, StaleKept
  <1>6. ASSUME NEW t \in Threads, NEW p \in Pointers, GetCondemn(t, p)
        PROVE  CondemnedIsStale'
    <2>1. Stored' = Stored /\ expired' = expired /\ Continue(t, Condemning(p)) /\ p \in expired
      BY <1>6 DEF GetCondemn, Stored
    <2>2. QED
      BY <1>1, <2>1, StaleKept
  <1>7. ASSUME NEW t \in Threads, NEW p \in Pointers, EntryExpired(t, p)
        PROVE  CondemnedIsStale'
    <2>1. PICK tab \in Reserve(table) : /\ table' \in Erase(tab, p)
                                        /\ Continue(t, Vacant(KeyOf[p], tab.slot[p]))
      BY <1>7 DEF EntryExpired
    <2>2. Stored' = Stored \ {p} /\ expired' = expired \ {p}
      BY <1>3, <1>7, <2>1, EraseOne DEF EntryExpired, Stored
    <2>3. QED
      BY <1>1, <2>1, <2>2, StaleKept
  <1>8. ASSUME NEW t \in Threads, GetRemove(t) PROVE CondemnedIsStale'
    <2>1. Continue(t, Answered(None))
      BY <1>8 DEF GetRemove
    <2>2. \/ Stored' = Stored /\ expired' = expired
          \/ \E p : Stored' = Stored \ {p} /\ expired' = expired \ {p}
      <3>1. ASSUME NEW p \in Lookup(op[t]), table' \in Erase(table, p)
            PROVE  Stored' = Stored \ {p}
        BY <3>1, EraseOne DEF IInv, TypeOK, Stored, Lookup, Items
      <3>2. QED
        BY <1>8, <3>1 DEF GetRemove, Stored
    <2>3. QED
      BY <1>1, <2>1, <2>2, StaleKept
  <1>9. ASSUME NEW t \in Threads, Release(t) PROVE CondemnedIsStale'
    <2>1. CASE Remove(t)
      <3>1. op[t].ptr \in Pointers
        BY <2>1, OccupiedSees DEF Remove
      <3>2. Stored' = Stored \ {op[t].ptr} /\ expired' = expired \ {op[t].ptr}
        BY <2>1, <3>1, EraseOne DEF Remove, IInv, TypeOK, Stored
      <3>3. Continue(t, Answered(op[t].ptr))
        BY <2>1 DEF Remove, Leave
      <3>4. QED
        BY <1>1, <3>2, <3>3, StaleKept
    <2>2. CASE IntoPointer(t) \/ DropEntry(t)
      <3>1. Stored' = Stored /\ expired' = expired
        BY <2>2 DEF IntoPointer, DropEntry, Stored
      <3>2. PICK o : Continue(t, o) /\ o.at # "condemning"
        BY <1>1, <2>2 DEF IntoPointer, DropEntry, Leave
      <3>3. QED
        BY <3>1, <3>2, StaleKept
    <2>3. ASSUME NEW p \in Pointers, Replace(t, p) \/ Insert(t, p) PROVE CondemnedIsStale'
      <3>1. /\ expired' = expired \cap Stored' /\ Continue(t, Answered(p))
            /\ \A u \in Threads : op[u].ptr # p
        BY <2>3 DEF Replace, Insert, Fresh, Leave, Stored
      <3>2. PICK S \in SUBSET Stored : \E e \in Evictions(S) : layer' = e.layer \cup {p}
        <4>1. layer \in SUBSET Stored
          BY DEF IInv, InSync
        <4>2. layer \ {op[t].ptr} \in SUBSET Stored
          BY <4>1
        <4>3. QED
          BY <2>3, <4>1, <4>2 DEF Replace, Insert
      <3>3. Stored' \subseteq Stored \cup {p}
        BY <3>2, EvictionsShape DEF IInv, TypeOK, InSync
      <3>4. QED
        BY <1>1, <3>1, <3>3, StaleKept
    <2>4. QED
      BY <1>9, <2>1, <2>2, <2>3 DEF Release
  <1>10. ASSUME NEW t \in Threads, DropPointer(t) PROVE CondemnedIsStale'
    BY <1>1, <1>10, StaleKept DEF DropPointer, Stored
  <1>11. ASSUME NEW p \in Pointers, Expire(p) PROVE CondemnedIsStale'
    BY <1>11 DEF Expire, CondemnedIsStale, Stored
  <1>12. CASE UNCHANGED vars
    BY <1>12 DEF vars, CondemnedIsStale, Stored
  <1>13. QED
    BY <1>4, <1>5, <1>6, <1>7, <1>8, <1>9, <1>10, <1>11, <1>12 DEF Next

LEMMA StepMaps ==
    ASSUME Touches = FALSE, IInv, IInv', CondemnedIsStale, [Next]_vars
    PROVE  [Abstract!Next]_(Abstract!vars)
  <1>1. \A tab \in Reserve(table) : TableShape(tab) /\ Items(tab) = Stored
    BY ReservedContents
  <1>2. ASSUME NEW t \in Threads, NEW k \in Keys, GetMissing(t, k) \/ EntryVacant(t, k)
        PROVE  Abstract!Next
    <2>1. /\ op[t] = Idle /\ \A p \in Stored : KeyOf[p] # k
          /\ Stored' = Stored /\ expired' = expired
      BY <1>1, <1>2 DEF GetMissing, EntryVacant, Enter, Stored
    <2>2. PICK o : Continue(t, o) /\ AnswerOf(o) = None
      BY <1>2, Answers DEF GetMissing, EntryVacant
    <2>3. QED
      BY <2>1, <2>2, MissedStep
  <1>3. ASSUME NEW t \in Threads, NEW p \in Pointers,
               GetRetain(t, p) \/ EntryOccupied(t, p)
        PROVE  Abstract!Next
    <2>1. /\ op[t] = Idle /\ p \in Stored \ expired
          /\ Stored' = Stored /\ expired' = expired
      BY <1>1, <1>3 DEF GetRetain, EntryOccupied, Enter, Stored
    <2>2. PICK o : Continue(t, o) /\ AnswerOf(o) = p
      BY <1>3, Answers DEF GetRetain, EntryOccupied
    <2>3. QED
      BY <2>1, <2>2, FoundStep
  <1>4. ASSUME NEW t \in Threads, NEW p \in Pointers, GetCondemn(t, p)
        PROVE  Abstract!Next
    <2>1. /\ op[t] = Idle /\ p \in expired /\ p \in Stored /\ Continue(t, Condemning(p))
          /\ Stored' = Stored /\ expired' = expired
      BY <1>4 DEF GetCondemn, Stored
    <2>2. KeyOf[p] \in Keys /\ \A q \in Stored : KeyOf[q] = KeyOf[p] => q \in expired
      BY <2>1, KeyOfAssumption DEF IInv, OneEntryPerKey
    <2>3. QED
      BY <2>1, <2>2, Answers, MissedStep
  <1>5. ASSUME NEW t \in Threads, NEW p \in Pointers, EntryExpired(t, p)
        PROVE  Abstract!Next
    <2>1. PICK tab \in Reserve(table) : /\ table' \in Erase(tab, p)
                                        /\ Continue(t, Vacant(KeyOf[p], tab.slot[p]))
      BY <1>5 DEF EntryExpired
    <2>2. /\ op[t] = Idle /\ p \in expired /\ p \in Stored
          /\ Stored' = Stored \ {p} /\ expired' = expired \ {p}
      BY <1>1, <1>5, <2>1, EraseOne DEF EntryExpired, Enter, Stored
    <2>3. KeyOf[p] \in Keys /\ \A q \in Stored : KeyOf[q] = KeyOf[p] => q \in expired
      BY <2>2, KeyOfAssumption DEF IInv, OneEntryPerKey
    <2>4. QED
      BY <2>1, <2>2, <2>3, Answers, MissedStep
  <1>6. ASSUME NEW t \in Threads, GetRemove(t)
        PROVE  Abstract!Next \/ UNCHANGED Abstract!vars
    <2>1. op[t].at = "condemning" /\ Continue(t, Answered(None)) /\ AnswerOf(op[t]) = None
      BY <1>6 DEF GetRemove, AnswerOf
    <2>2. CASE UNCHANGED <<table, layer, expired>>
      BY <2>1, <2>2, Answers, SilentStep DEF Stored
    <2>3. ASSUME NEW p \in Lookup(op[t]), table' \in Erase(table, p), expired' = expired \ {p}
          PROVE  Abstract!Next
      <3>1. p = op[t].ptr /\ p \in Stored /\ p \in Pointers
        BY DEF Lookup, Stored, Items
      <3>2. p \in expired
        BY <2>1, <3>1 DEF CondemnedIsStale
      <3>3. Stored' = Stored \ {p}
        BY <2>3, <3>1, EraseOne DEF IInv, TypeOK, Stored
      <3>4. QED
        BY <2>1, <2>3, <3>2, <3>3, ExpungeStep
    <2>4. QED
      BY <1>6, <2>2, <2>3 DEF GetRemove
  <1>7. ASSUME NEW t \in Threads, DropPointer(t) PROVE Abstract!Next
    BY <1>7, ForgetStep DEF DropPointer, Stored
  <1>8. ASSUME NEW p \in Pointers, Expire(p) PROVE Abstract!Next
    <2>1. /\ p \in Abstract!Mapped(Map) /\ expired' = expired \cup {p} /\ Stored' = Stored
          /\ op' = op
      BY <1>8, MapIs, MapHolds DEF Expire, Stored
    <2>2. Map' = Map /\ Answer' = Answer
      BY <2>1, MapIs DEF Answer
    <2>3. Abstract!Expire(p)
      BY <2>1, <2>2 DEF Abstract!Expire
    <2>4. QED
      BY <2>3 DEF Abstract!Next
  <1>9. CASE UNCHANGED vars
    BY <1>9 DEF vars, Abstract!vars, Map, Answer, Stored
  <1>10. QED
    BY <1>2, <1>3, <1>4, <1>5, <1>6, <1>7, <1>8, <1>9, ReleaseStep DEF Next

\* Where reads do not move deadlines, a shard with all its locks, buckets and
\* half-finished gets behaves as a bounded map each of whose operations takes
\* effect at one instant.
THEOREM ShardIsAMap ==
    ASSUME Touches = FALSE
    PROVE  Spec => ImplementsCacheMap
  <1>1. Init => Abstract!Init
    <2> SUFFICES ASSUME Init PROVE Abstract!Init
      OBVIOUS
    <2>1. Stored = {}
      BY DEF Init, EmptyTable, Stored, Items
    <2>2. Map = [k \in Keys |-> None]
      BY <2>1 DEF Map
    <2>3. Answer = [t \in Threads |-> Quiet]
      BY Answers DEF Init
    <2>4. QED
      BY <2>2, <2>3 DEF Init, Abstract!Init
  <1>2. Init => CondemnedIsStale
    BY DEF Init, Idle, Op, CondemnedIsStale
  <1>3. IInv /\ IInv' /\ CondemnedIsStale /\ [Next]_vars
           => [Abstract!Next]_(Abstract!vars) /\ CondemnedIsStale'
    BY StepMaps, StepStale
  <1>4. QED
    BY <1>1, <1>2, <1>3, InductiveInvariant, PTL
    DEF Spec, ImplementsCacheMap, Abstract!Spec
=============================================================================
