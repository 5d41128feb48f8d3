------------------------------- MODULE MCShard -------------------------------
EXTENDS ShardProperties, Builder, TLC

CONSTANTS t1, t2, a1, a2, b1, c1, d1, ka, kb, kc, kd

ASSUME BuilderAssumption == BuilderNumbers(0..70 \cup {2047, 2048, 2049}, 1..140, 4)

MCThreads == {t1, t2}
MCSlots == {0, 1, 2}
MCSlots5 == 0..4

\* Four shards and a capacity of two: each is given two.
MCCapacity == CapacityPerShard(TargetShardsToExact(3), 2)
MCMinBuckets == Buckets(MCCapacity)

\* One key whose value can be replaced, two that compete for its place.
MCKeys3 == {ka, kb, kc}
MCPointers3 == {a1, a2, b1, c1}
MCKeyOf3 == a1 :> ka @@ a2 :> ka @@ b1 :> kb @@ c1 :> kc

\* Threads are alike, and so are the allocations of one key.
Symmetry3 == Permutations(MCThreads) \cup Permutations({a1, a2})

\* Four keys with one allocation each, and the permutations that move a key
\* along with its allocation.
MCCapacity4 == CapacityPerShard(4, 1)
MCMinBuckets4 == Buckets(MCCapacity4)
MCKeys4 == {ka, kb, kc, kd}
MCPointers4 == {a1, b1, c1, d1}
MCKeyOf4 == a1 :> ka @@ b1 :> kb @@ c1 :> kc @@ d1 :> kd
AllocationOf == ka :> a1 @@ kb :> b1 @@ kc :> c1 @@ kd :> d1
Symmetry4 ==
    {p @@ [a \in MCPointers4 |-> AllocationOf[p[MCKeyOf4[a]]]] :
        p \in Permutations(MCKeys4)} \cup Permutations(MCThreads)
=============================================================================
