-------------------------------- MODULE Iter --------------------------------
(***************************************************************************)
(* SyncCache::iter over a shard that other threads use meanwhile.  The     *)
(* iterator reads the number of buckets under the shared lock and lets the *)
(* lock go; then it walks that many buckets in chunks, taking the lock for *)
(* each.  The layer expires, so ITER_READ_LOCK is Ref and the lock taken   *)
(* is the exclusive one: a chunk takes the expired pointers it meets out   *)
(* of the layer and the table and clones the others.                       *)
(*                                                                         *)
(* Between two chunks the table may grow or rehash and every pointer move. *)
(***************************************************************************)
EXTENDS ShardProperties

CONSTANT Chunk   \* CHUNK: 256 in the code

ASSUME ChunkAssumption == Chunk \in Nat \ {0}

VARIABLE scan    \* the iterator's progress through the shard

ivars == <<table, layer, expired, writer, op, scan>>

\* next, buckets: i and buckets_len; found: pointers; twice: those pushed to
\* it more than once.  kept is history: the pointers that were in the table
\* when the walk began and have not been moved or removed since.
Off == [on |-> FALSE, next |-> 0, buckets |-> 0, found |-> {}, twice |-> {}, kept |-> {}]

IInit == Init /\ scan = Off

-----------------------------------------------------------------------------
\* Those of S the table has left where they are.
Unmoved(S) == {p \in S : table'.slot[p] = table.slot[p]}

\* The shared lock, once: buckets_len.
StartIter ==
    /\ ~scan.on /\ writer = None
    /\ scan' = [Off EXCEPT !.on = TRUE, !.buckets = table.buckets, !.kept = Stored]
    /\ UNCHANGED vars

\* Mutation: the bound of a chunk does not stop before the next one begins.
OverlappingChunk ==
    {p \in Stored : table.slot[p] \in scan.next..(scan.next + Chunk)}

\* The pointers in the buckets of this chunk.
ThisChunk ==
    {p \in Stored : /\ table.slot[p] \in scan.next..(scan.next + Chunk - 1)
                    /\ table.slot[p] < scan.buckets}

\* Mutation: a chunk is walked without waiting for an open entry.
ChunkShared == scan.on /\ scan.next < scan.buckets

\* The exclusive lock for one chunk.
ChunkLocked == scan.on /\ scan.next < scan.buckets /\ writer = None

\* Mutation: a chunk without pointers is left early, before i += CHUNK.
NextChunkFound == IF ThisChunk = {} THEN scan.next ELSE scan.next + Chunk

\* i += CHUNK
NextChunk == scan.next + Chunk

\* Mutation: a chunk takes expired pointers out of the table only.
IterChunkUntold ==
    /\ ChunkLocked
    /\ LET over == ThisChunk \cap expired
           live == ThisChunk \ expired
       IN  /\ table' \in EraseAll(table, over)
           /\ expired' = expired \ over
           /\ scan' = [scan EXCEPT !.next = NextChunk,
                                   !.found = @ \cup live,
                                   !.twice = @ \cup (scan.found \cap live),
                                   !.kept = Unmoved(@)]
    /\ UNCHANGED <<layer, writer, op>>

\* One chunk.
IterChunk ==
    /\ ChunkLocked
    /\ LET over == ThisChunk \cap expired
           live == ThisChunk \ expired
       IN  /\ table' \in EraseAll(table, over)
           /\ layer' = layer \ over
           /\ expired' = expired \ over
           /\ scan' = [scan EXCEPT !.next = NextChunk,
                                   !.found = @ \cup live,
                                   !.twice = @ \cup (scan.found \cap live),
                                   !.kept = Unmoved(@)]
    /\ UNCHANGED <<writer, op>>

\* The walk is over, and the caller drops the pointers it was given.
EndIter ==
    /\ scan.on /\ scan.next >= scan.buckets
    /\ scan' = Off
    /\ UNCHANGED vars

\* The other threads.  What the iterator has cloned is not allocated anew.
OtherThreads ==
    /\ Next
    /\ (Stored' \ Stored) \cap scan.found = {}
    /\ scan' = [scan EXCEPT !.kept = Unmoved(@)]

INext == StartIter \/ IterChunk \/ EndIter \/ OtherThreads

ISpec == IInit /\ [][INext]_ivars

\* The iterator, too, gets the lock in the end.
IFairSpec == ISpec /\ Fairness /\ SF_ivars(IterChunk)

-----------------------------------------------------------------------------
\* An iteration that other threads interfere with still returns every pointer
\* that stays in its bucket from beginning to end exactly once: only a pointer
\* the table has moved, or that came or went, can be missed or come twice.
SweepsTheUnmoved ==
    \A p \in scan.kept :
        /\ p \notin scan.twice
        /\ p \in scan.found <=> table.slot[p] < scan.next

\* An iteration begun gets to its end, whatever entries are opened meanwhile.
IterationEnds == scan.on ~> (scan.on => scan.next >= scan.buckets)
=============================================================================
