------------------------------- MODULE Builder -------------------------------
(***************************************************************************)
(* The numbers SyncCacheBuilder and hash_and_shard (sync.rs) compute: how  *)
(* many shards there are, what capacity each is given and which of them a  *)
(* hash belongs to.                                                        *)
(***************************************************************************)
EXTENDS Integers, Bitwise

\* MAX_SHARDS is 2^11.
PowersOfTwo == {2 ^ n : n \in 0..11}
MaxShards == 2048

\* The asserts of exact_shards.
ExactShardsAccepts(shards) == shards \in 1..MaxShards /\ shards \in PowersOfTwo

\* target_shards_to_exact
TargetShardsToExact(target) ==
    IF target > MaxShards THEN MaxShards
    ELSE CHOOSE n \in PowersOfTwo : n >= target /\ \A m \in PowersOfTwo : m >= target => n <= m

\* build_with_layer: capacity_per_shard is self.shards.div_ceil(capacity), and
\* a cache without a capacity has 16 for each shard.
DivCeil(a, b) == (a + b - 1) \div b
CapacityPerShard(shards, capacity) == DivCeil(shards, capacity)
DefaultCapacity(shards) == shards * 16

\* capacity_to_buckets of RawTable::with_capacity: the fewest that hold them.
Buckets(capacity) ==
    IF capacity < 4 THEN 4
    ELSE IF capacity < 8 THEN 8
    ELSE CHOOSE b \in PowersOfTwo :
            /\ b >= (capacity * 8) \div 7
            /\ \A c \in PowersOfTwo : c >= (capacity * 8) \div 7 => b <= c

\* hash_and_shard: hash ^ hash.rotate_right(BITS / 2), masked, for hashes of
\* 2 * half bits.
RotateHalf(hash, half) == (hash \div 2 ^ half) + (hash % 2 ^ half) * 2 ^ half
ShardOf(hash, half, shards) == (hash ^^ RotateHalf(hash, half)) & (shards - 1)

\* What fixed-width arithmetic owes the rest: whatever number of shards is
\* asked for passes the asserts of exact_shards and is not below it unless that
\* is too many; whatever capacity, every shard gets some (EvictRandom asserts
\* it); and every hash has a shard and every shard a hash, as long as there are
\* no more shards than half a hash has values.
BuilderNumbers(targets, capacities, half) ==
    /\ \A t \in targets :
          LET shards == TargetShardsToExact(t)
          IN  /\ ExactShardsAccepts(shards)
              /\ shards >= t \/ shards = MaxShards
              /\ \A c \in capacities \cup {DefaultCapacity(shards)} :
                    CapacityPerShard(shards, c) >= 1
    /\ \A n \in PowersOfTwo :
          n <= 2 ^ half =>
              {ShardOf(h, half, n) : h \in 0..(2 ^ (2 * half) - 1)} = 0..(n - 1)
=============================================================================
