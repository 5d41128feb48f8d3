----------------------------- MODULE IterProofs -----------------------------
(***************************************************************************)
(* Proofs about a shard that is iterated over, for any threads, keys,      *)
(* tables and chunks.  A chunk takes what it removes out of the layer and  *)
(* the table together and runs only while nobody is inside an entry, so    *)
(* the shard's own inductive invariant survives it.                        *)
(***************************************************************************)
EXTENDS Iter, ShardProofs

\* Erasing a set of items takes out those and moves none.
LEMMA EraseSet ==
    ASSUME NEW tab, TableShape(tab), NEW X \in SUBSET Pointers, NEW r \in EraseAll(tab, X)
    PROVE  /\ TableShape(r)
           /\ \A q \in Pointers : r.slot[q] = IF q \in X THEN Nowhere ELSE tab.slot[q]
           /\ Items(r) = Items(tab) \ X
  <1>1. IsFiniteSet(X) /\ Cardinality(X) \in Nat
    BY PointersAssumption, FS_Subset, FS_CardinalityType
  <1>2. PICK g \in tab.growth..(tab.growth + Cardinality(X)) :
           r = [tab EXCEPT !.slot = [p \in Pointers |-> IF p \in X THEN Nowhere ELSE tab.slot[p]],
                           !.growth = g]
    BY DEF EraseAll
  <1>3. g \in Int
    BY <1>1, <1>2 DEF TableShape
  <1>4. /\ r.buckets = tab.buckets
        /\ r.slot = [p \in Pointers |-> IF p \in X THEN Nowhere ELSE tab.slot[p]]
    BY <1>2 DEF TableShape
  <1>5. r.slot \in [Pointers -> SlotsIn(tab.buckets) \cup {Nowhere}]
    BY <1>4 DEF TableShape
  <1>6. TableShape(r)
    BY <1>2, <1>3, <1>4, <1>5 DEF TableShape
  <1>7. \A q \in Pointers : r.slot[q] = IF q \in X THEN Nowhere ELSE tab.slot[q]
    BY <1>4
  <1>8. Items(r) = Items(tab) \ X
    BY <1>7 DEF Items
  <1>9. QED
    BY <1>6, <1>7, <1>8

\* What a chunk does to the table and the layer.
LEMMA ChunkContents ==
    ASSUME IInv, IterChunk
    PROVE  /\ Contents'
           /\ \A q \in Pointers :
                 table'.slot[q] = IF q \in ThisChunk \cap expired THEN Nowhere
                                  ELSE table.slot[q]
  <1> DEFINE over == ThisChunk \cap expired
  <1>1. /\ table' \in EraseAll(table, over)
        /\ layer' = layer \ over /\ expired' = expired \ over
    BY DEF IterChunk
  <1>2. over \in SUBSET Pointers
    BY DEF ThisChunk, Stored, Items
  <1>3. Contents
    BY InvSplit
  <1>4. /\ TableShape(table')
        /\ \A q \in Pointers : table'.slot[q] = IF q \in over THEN Nowhere ELSE table.slot[q]
        /\ Items(table') = Items(table) \ over
    BY <1>1, <1>2, <1>3, EraseSet DEF Contents
  <1>5. Stored' = Stored \ over
    BY <1>4 DEF Stored
  <1>6. OneEntryPerKey'
    <2> SUFFICES ASSUME NEW q \in Stored', NEW r \in Stored',
                        KeyOf[q] = KeyOf[r] \/ table'.slot[q] = table'.slot[r]
                 PROVE  q = r
      BY DEF OneEntryPerKey
    <2>1. q \in Stored \ over /\ r \in Stored \ over /\ q \in Pointers /\ r \in Pointers
      BY <1>5 DEF Stored, Items
    <2>2. table'.slot[q] = table.slot[q] /\ table'.slot[r] = table.slot[r]
      BY <1>4, <2>1
    <2>3. QED
      BY <2>1, <2>2, <1>3 DEF Contents, OneEntryPerKey
  <1>7. Contents'
    BY <1>1, <1>3, <1>4, <1>5, <1>6 DEF Contents, InSync
  <1>8. QED
    BY <1>4, <1>7

LEMMA ChunkKeepsInv ==
    ASSUME IInv, IterChunk
    PROVE  IInv'
  <1>1. writer = None /\ UNCHANGED <<writer, op>>
    BY DEF IterChunk, ChunkLocked
  <1>2. \A t \in Threads : ~InEntry(t) /\ ~InEntry(t)'
    BY <1>1, NoneAssumption DEF IInv, TypeOK, InEntry
  <1>3. EntryIntact'
    BY <1>2 DEF EntryIntact, InEntry
  <1>4. QED
    BY <1>1, <1>2, <1>3, ChunkContents, InvSplit, InvSplitNext, NoneAssumption

\* Everything but a chunk is a step of the shard or leaves the shard alone.
LEMMA IterStep == IInv /\ [INext]_ivars => IInv'
  <1> SUFFICES ASSUME IInv, [INext]_ivars PROVE IInv'
    OBVIOUS
  <1>1. CASE StartIter \/ EndIter
    BY <1>1, StepInv DEF StartIter, EndIter
  <1>2. CASE IterChunk
    BY <1>2, ChunkKeepsInv
  <1>3. CASE OtherThreads
    BY <1>3, StepInv DEF OtherThreads
  <1>4. CASE UNCHANGED ivars
    <2>1. UNCHANGED vars
      BY <1>4 DEF ivars, vars
    <2>2. QED
      BY <2>1, StepInv
  <1>5. QED
    BY <1>1, <1>2, <1>3, <1>4 DEF INext

-----------------------------------------------------------------------------
\* The walk covers the buckets there were when it began, where everything that
\* has stayed put still is.
Walk ==
    /\ scan.next \in Nat /\ scan.buckets \in Nat
    /\ scan = [on |-> scan.on, next |-> scan.next, buckets |-> scan.buckets,
               found |-> scan.found, twice |-> scan.twice, kept |-> scan.kept]
    /\ \A p \in scan.kept : p \in Stored /\ table.slot[p] < scan.buckets

LEMMA StoredSlots ==
    ASSUME IInv, NEW p \in Stored
    PROVE  p \in Pointers /\ table.slot[p] \in Nat /\ table.slot[p] < table.buckets
  BY SlotsAssumption DEF IInv, TypeOK, TableShape, Stored, Items, SlotsIn, Nowhere

LEMMA SweepStep ==
    IInv /\ Walk /\ SweepsTheUnmoved /\ [INext]_ivars => Walk' /\ SweepsTheUnmoved'
  <1> SUFFICES ASSUME IInv, Walk, SweepsTheUnmoved, [INext]_ivars
               PROVE  Walk' /\ SweepsTheUnmoved'
    OBVIOUS
  <1>1. CASE StartIter
    <2>1. /\ scan' = [Off EXCEPT !.on = TRUE, !.buckets = table.buckets, !.kept = Stored]
          /\ table' = table /\ Stored' = Stored
      BY <1>1 DEF StartIter, vars, Stored
    <2>2. /\ scan'.next = 0 /\ scan'.buckets = table.buckets /\ scan'.kept = Stored
          /\ scan'.found = {} /\ scan'.twice = {}
      BY <2>1 DEF Off
    <2>3. table.buckets \in Nat
      BY DEF IInv, TypeOK, TableShape
    <2>4. Walk'
      BY <2>1, <2>2, <2>3, StoredSlots DEF Walk, Off
    <2>5. SweepsTheUnmoved'
      BY <2>1, <2>2, StoredSlots DEF SweepsTheUnmoved
    <2>6. QED
      BY <2>4, <2>5
  <1>2. CASE IterChunk
    <2> DEFINE live == ThisChunk \ expired
               over == ThisChunk \cap expired
    <2>1. scan' = [scan EXCEPT !.next = @ + Chunk, !.found = @ \cup live,
                               !.twice = @ \cup (scan.found \cap live),
                               !.kept = Unmoved(@)]
      BY <1>2 DEF IterChunk, NextChunk
    <2>2. /\ scan'.next = scan.next + Chunk /\ scan'.buckets = scan.buckets
          /\ scan'.found = scan.found \cup live
          /\ scan'.twice = scan.twice \cup (scan.found \cap live)
          /\ scan'.kept = Unmoved(scan.kept) /\ scan'.on = scan.on
      BY <2>1 DEF Walk, Off
    <2>3. ASSUME NEW p \in scan'.kept
          PROVE  /\ p \in scan.kept /\ table'.slot[p] = table.slot[p]
                 /\ p \in Stored /\ p \in Stored' /\ p \notin over
                 /\ table.slot[p] \in Nat /\ table.slot[p] < scan.buckets
      <3>1. p \in scan.kept /\ table'.slot[p] = table.slot[p]
        BY <2>2 DEF Unmoved
      <3>2. p \in Stored /\ table.slot[p] < scan.buckets
        BY <3>1 DEF Walk
      <3>3. p \in Pointers /\ table.slot[p] \in Nat /\ table.slot[p] # Nowhere
        BY <3>2, StoredSlots DEF Nowhere
      <3>4. p \notin over
        BY <1>2, <3>1, <3>3, ChunkContents
      <3>5. p \in Stored'
        BY <3>1, <3>3 DEF Stored, Items
      <3>6. QED
        BY <3>1, <3>2, <3>3, <3>4, <3>5
    <2>4. Walk'
      <3>1. scan'.next \in Nat /\ scan'.buckets \in Nat
        BY <2>2, ChunkAssumption DEF Walk
      <3>2. \A p \in scan'.kept : p \in Stored' /\ table'.slot[p] < scan'.buckets
        BY <2>2, <2>3
      <3>3. scan' = [on |-> scan'.on, next |-> scan'.next, buckets |-> scan'.buckets,
                     found |-> scan'.found, twice |-> scan'.twice, kept |-> scan'.kept]
        <4> DEFINE F == scan.found \cup live
                   W == scan.twice \cup (scan.found \cap live)
        <4>1. scan' = [scan EXCEPT !.next = scan.next + Chunk, !.found = F, !.twice = W,
                                   !.kept = Unmoved(scan.kept)]
          BY <2>1
        <4> HIDE DEF F, W
        <4>2. QED
          BY <4>1 DEF Walk
      <3>4. QED
        BY <3>1, <3>2, <3>3 DEF Walk
    <2>5. ASSUME NEW p \in scan'.kept
          PROVE  p \notin scan'.twice /\ (p \in scan'.found <=> table'.slot[p] < scan'.next)
      <3>1. /\ p \notin scan.twice
            /\ p \in scan.found <=> table.slot[p] < scan.next
        BY <2>3, <2>5 DEF SweepsTheUnmoved
      <3>2. p \in live <=> /\ table.slot[p] >= scan.next
                           /\ table.slot[p] < scan.next + Chunk
        BY <2>3, <2>5, ChunkAssumption DEF ThisChunk, Walk
      <3>3. QED
        BY <2>2, <2>3, <2>5, <3>1, <3>2, ChunkAssumption DEF Walk
    <2>6. QED
      BY <2>4, <2>5 DEF SweepsTheUnmoved
  <1>3. CASE EndIter
    BY <1>3 DEF EndIter, Walk, SweepsTheUnmoved, Off
  <1>4. CASE OtherThreads
    <2>1. scan' = [scan EXCEPT !.kept = Unmoved(@)]
      BY <1>4 DEF OtherThreads
    <2>2. /\ scan'.next = scan.next /\ scan'.buckets = scan.buckets
          /\ scan'.found = scan.found /\ scan'.twice = scan.twice
          /\ scan'.kept = Unmoved(scan.kept) /\ scan'.on = scan.on
      BY <2>1 DEF Walk, Off
    <2>3. ASSUME NEW p \in scan'.kept
          PROVE  /\ p \in scan.kept /\ table'.slot[p] = table.slot[p]
                 /\ p \in Stored' /\ table.slot[p] < scan.buckets
      <3>1. p \in scan.kept /\ table'.slot[p] = table.slot[p]
        BY <2>2 DEF Unmoved
      <3>2. p \in Stored /\ table.slot[p] < scan.buckets
        BY <3>1 DEF Walk
      <3>3. p \in Pointers /\ table.slot[p] # Nowhere
        BY <3>2, StoredSlots DEF Nowhere
      <3>4. QED
        BY <3>1, <3>2, <3>3 DEF Stored, Items
    <2>4. Walk'
      BY <2>1, <2>2, <2>3 DEF Walk, Off
    <2>5. SweepsTheUnmoved'
      BY <2>2, <2>3 DEF SweepsTheUnmoved
    <2>6. QED
      BY <2>4, <2>5
  <1>5. CASE UNCHANGED ivars
    BY <1>5 DEF ivars, Walk, SweepsTheUnmoved, Stored
  <1>6. QED
    BY <1>1, <1>2, <1>3, <1>4, <1>5 DEF INext

LEMMA IterInvariant == ISpec => [](IInv /\ Walk /\ SweepsTheUnmoved)
  <1>1. IInit => IInv /\ Walk /\ SweepsTheUnmoved
    <2>1. IInit => IInv
      BY InitInv DEF IInit
    <2>2. ASSUME IInit PROVE Walk /\ SweepsTheUnmoved
      <3>1. scan = [on |-> FALSE, next |-> 0, buckets |-> 0, found |-> {}, twice |-> {},
                    kept |-> {}]
        BY <2>2 DEF IInit, Off
      <3>2. QED
        BY <3>1 DEF Walk, SweepsTheUnmoved
    <2>3. QED
      BY <2>1, <2>2
  <1>2. QED
    BY <1>1, IterStep, SweepStep, PTL DEF ISpec

\* Iterating, which removes what it finds expired chunk by chunk, keeps the
\* layer in step with the table.
THEOREM IterKeepsInSync == ISpec => []InSync
  BY IterInvariant, PTL DEF IInv

\* No chunk comes between the opening of an entry and its use.
THEOREM IterKeepsEntries == ISpec => []EntryIntact
  BY IterInvariant, PTL DEF IInv

\* An iteration returns everything the table leaves in place exactly once.
THEOREM IterSweeps == ISpec => []SweepsTheUnmoved
  BY IterInvariant, PTL
=============================================================================
