# cach: a verification project in TLA+

`cach` is a Rust library for concurrent caches: a sharded hash table with
pluggable *layers* that decide what expires and what is evicted, and adapters
that load missing values. This directory holds TLA+ modules that model it, the
TLC configurations that check them, and proofs that TLAPS checks. Source paths
below are relative to the repository's `src/` directory (in `PROJECT.json`:
`src/src/...`).

## 1. The system

| Component | State | Operations | Talks to |
|---|---|---|---|
| `SyncCache` (`sync.rs`) | a vector of shards, each an `RwLock` around a `RawTable` of `Arc` pointers and a layer shard | `get`, `entry`, `iter`, `len` | layer, hashbrown |
| `OccupiedEntry`, `VacantEntry` (`sync.rs`) | the write guard, a raw bucket pointer or an insert slot | `replace`, `remove`, `into_pointer`, `insert` | layer, table |
| `Cache` trait (`lib.rs`) | none | `insert`, `upsert`, `or_insert*`, `remove_if`, `remove`, `get` as sequences over an entry | any cache |
| Expiry layers (`expire.rs`) | a deadline: in the value, fixed at write, or renewed by every read with an atomic swap | `write`, `read_ref` | clock, user closure |
| `EvictRandom`, `EvictLeastOfN` (`evict/random.rs`, `evict/bag.rs`) | a vector of pointers; its index in every pointer; a stamp | `write`, `remove`, `read_ref` | the cache, through `Write::remove` |
| `EvictLeastRecentlyRead`, `EvictLeastRecentlyWritten` (`evict/read.rs`, `write.rs`, `list.rs`, `index.rs`) | a linked list in a vector with a free list and generations; a `Key` in every pointer | `write`, `remove`, `read_mut` | the cache, through `Write::remove` |
| `AndThen`, `MultiLayer`, `LayerCapacityFraction` (`layer.rs`, `layer/multi.rs`) | two layers | `write`, `remove`, reads | both layers, nested callbacks |
| `DedupLoadIntrusive` (`load/dedup.rs`) | `Waiting` or `Complete` values in an inner cache | `load`, and `Cache` | inner cache, user's load, executor |
| `DedupLoad` (`load/dedup.rs`), `EvictGenerational`, `LocalCache`, `build.rs` | unfinished or commented out | | |
| `wrap.rs`, `map.rs` | none | forward calls | a cache |
| `time.rs` | the process-wide instant everything is counted from | clocks, `AtomicInstant` | |

How they interact. A cache operation hashes its key to one shard and takes that
shard's lock; a layer is only ever called under it. A write hands the layer a
`Write` callback; the layer may call `Write::remove` for a victim, which takes
it out of the table at once, and then `Write::write`, which builds the `Arc`
around the layer's own value. Layers nest, so the callbacks do too.

What is hard about it, and what makes each part correct:

* **Shard.** `get` under a layer with `READ_LOCK = Ref` finds an expired pointer
  under the read lock, drops it, and comes back with the write lock and a bucket
  *number*. In between anything may have happened. Entries keep raw buckets and
  slots while the caller's code runs, and insertion does not look again.
  Correct: table and layer agree, an entry finds what it saw, no get removes a
  bystander, the whole is an atomic bounded map.
* **Layers.** Each evicting layer has its own idea of what is in the table, and
  finds its members through an index or key stored inside other entries' `Arc`s.
  Correct: the idea is right; a removal hits the pointer it was given; one write
  costs at most one value.
* **Iteration.** `iter` takes a shard's lock once per chunk of buckets; between two
  chunks the table may grow, rehash, lose and gain values. Correct: what stays put
  comes exactly once, an expired value is removed from table and layer alike.
* **Reads under the shared lock.** Stamps and deadlines are stored by readers that
  overlap, after each has read the clock. Correct: no read is judged by another's
  time, eviction does not prefer what was just read, a pointer judged over goes.
* **User closures.** `expire_at_fn` runs in the middle of every write and may panic;
  the lock is not poisoned. Correct: the next eviction still finds its victim.
* **Loads.** Tasks that miss together must share a load; values may be lost from
  the cache while somebody waits. Correct: no load is repeated without a loss,
  and everybody gets an answer.

## 2. The modules

| Module | Models | Notes |
|---|---|---|
| `RawTable` | hashbrown 0.14's table, as far as the cache can see it | external; operators, no behaviour |
| `CacheMap` | what `trait Cache` promises | abstract specification |
| `Shard` | one `SyncCache` shard under an expiry layer in front of an evicting one | core |
| `ShardProperties` | what is checked of `Shard`, and its refinement of `CacheMap` | |
| `Iter` | `SyncCache::iter` over a `Shard` in use | composes with `Shard` |
| `Builder` | the builder's numbers and `hash_and_shard` | pure operators; give `MCShard` its constants |
| `EvictingLayer` | the contract of an evicting layer | abstract specification |
| `Bag` | `EvictRandom` on `Bag` | implements `EvictingLayer` |
| `LeastOfN` | `EvictLeastOfN` with `LeastRecentlyRead`: `Bag` with stamps and readers | implements `Bag` |
| `Unwind` | `Bag` under a shard whose `expire_at_fn` panics | composes `Bag` with the table |
| `Expiry` | `ExpireAfterRead`, `ExpireAfterWrite` and `AtomicInstant` | |
| `AndThen` | two layers in sequence | implements `EvictingLayer` |
| `Multi` | two layers side by side, each evicting when full or never | each implements `EvictingLayer`, one that never evicts with a capacity it never reaches |
| `Stack` | `AndThen(MultiLayer(l0, l1), l2)` with any leaves, and the cache's reads | composes with `Multi` |
| `List` | the list layers | |
| `Dedup` | `DedupLoadIntrusive` | |
| `*Proofs` | theorems about the module they are named after; `BagProofs` also about `LeastOfN` and `Unwind`, `StackProofs` also about `Multi` | |
| `MC*` | constants for TLC | |

Definitions whose comment starts with *Mutation* are bugs the properties must
catch; nothing uses them in the specifications.

### Shard

`table` is `Shard::values`, `layer` the set of pointers `Shard::layer` knows,
`expired` the stored pointers whose deadline has passed, `writer` the thread that
holds the write lock inside an entry, `op` what each thread keeps in local
variables: nothing, an `Option<Pointer>`, the condemned pointer with its bucket
number and the table's size, or an entry.

What happens under one lock acquisition is one step, except for an entry, whose
guard outlives the call. So `get` is `GetMissing`, `GetRetain` or `GetCondemn`
followed by `GetRemove`; `entry` is `EntryVacant`, `EntryOccupied` or
`EntryExpired`; `Replace`, `Remove`, `Insert`, `IntoPointer` and `DropEntry` use
an entry up. The trait's `insert`, `upsert`, `remove_if` and so on are those two
steps. A `READ_LOCK` of `None` is the same model without expiry, and `Mut` is
`entry` and `IntoPointer` or `DropEntry`.

A pointer is an allocation. It may be used for a new value once nobody holds it
(`Fresh`), which is what makes `Arc::ptr_eq` a sound test and a bucket number an
unsound one. `Erase` and `InsertInSlot` leave open whether a bucket becomes, or
is, a tombstone; `Reserve` rehashes in place or doubles by hashbrown's rule, and
a rehash may put every item anywhere.

The evicting layer behind the shard is the contract of `EvictingLayer`
(`Evictions`). `Bag` implements it, `AndThen` of an expiry layer and an evicting
one implements it, and the contract's precondition (only members are removed,
only non-members are written) is `InSync` with `Fresh`.

### Iter

`scan` is what `iter` keeps in local variables while it walks a shard: `i`,
`buckets_len` and the pointers so far; `kept` is history. `StartIter` is the shared
lock taken once for the number of buckets, `IterChunk` the exclusive one taken for
each chunk (`ITER_READ_LOCK` is `Ref` under an expiry layer, and the code takes the
exclusive lock for it). All that happens to the shard in between is
`Shard`'s own next-state relation. With `ITER_READ_LOCK = None` the chunk takes the
shared lock and removes nothing: the same step with `expired` empty.

### Bag, LeastOfN, Unwind

`Bag` keeps the vector and every pointer's stored index (counted from 1); a
pointer outside keeps the index it had. `LeastOfN` extends it with the stamp beside
each pointer, the clock, and what a reader inside `strategy.read` is about to
store: reading the clock and storing the stamp are two steps, under a lock other
readers share. A full bag draws up to `Draws` elements, perhaps the same twice, and
gives up one with the least stamp.

`Unwind` is the bag, the table and a panic in `expire_at_fn`. `replace` calls
`layer.remove` first, so a panic leaves the old pointer in the table as an *orphan*
whose Key is an index it once had; removing the orphan takes whatever is at that
index out of the bag, which makes that one the orphan. A Key beyond the bag's end
makes `swap_remove` panic instead. What is not left to chance is exactly what the
properties say: the bag's members are in the table, and there are no more orphans
than panics.

### Expiry

`TakeTime` and `Swap` are the two halves of `read_ref`: other readers swap and the
clock ticks in between. `ExpireAfterWrite` is the same without the store
(`renews = FALSE`). Deadlines are stored modulo `Limit` as their distance from
`zero`, which the first conversion in the process fixes, maybe after the time it is
to convert was taken (`BeginWrite`, `EndWrite`), maybe by another cache
(`OtherCache`). `Ends` holds negative distances too: nothing stops an
`expire_at_fn` from answering with the past.

`RemoveCondemned` is the write phase of `get`. It looks where the pointer was:
`Rehash`, an entry that makes room in place, moves any pointers and makes the
readers that mean to remove them `stale`, and a stale reader may or may not find
its pointer (`Findable`): it does if the table has grown since, or a later rehash
moved the pointer back.

One clock stands for the layer's and for the `Instant::now` in `zero()`
(`time.rs:33-36`). That is right for `DefaultClock`; a clock given by `with_clock`
that lags behind is not modelled.

### AndThen, Multi, Stack

`AndThen` writes the nested callbacks of `AndThenShard::write` in their order: b's
victim leaves a and the table at once, a's victim leaves b only at the end. `Multi`
remembers each pointer's variant and lets `key_fn` decide at random; `evicts` says of
each sublayer whether it gives up a pointer when full (`Victims`). `Stack` puts
the second into the first and gives every leaf one of the crate's kinds, told apart
by their `READ_LOCK`s, the methods they implement and whether they evict:
`EvictRandom` and `EvictLeastOfN` do (`Evicting`), the expiry layers (`expire.rs:167`,
`237`), `LayerNone` (`layer.rs:138`) and the lists (`ListsNeverEvict`) do not, and
a write through those costs nothing. It folds locks and verdicts with
`or` as the code does, and dispatches `get`, `entry` and `iter` by the result. A
write is two steps there only to keep each of them readable: nothing runs between.
A get that is told to remove a pointer does so at once; the window between its two
locks is `Shard`'s.

### List

The operators are the code's for any `head` and `tail`. In the code nothing ever
sets those, nor `len`. A panic leaves the state as it was (the lock is released
and not poisoned) and is remembered in `panicked`. Because a reused node hands
out a `Key` whose generation is already past, its pointer can never be removed
from the list again: the model stops when every one of its few pointers is held
by such a node, so its run does not look for deadlock.

### Dedup

`value` is what the inner cache has under each key, `at` how far each task is in
`load` and `key` which key it loads. Wakers are left out because the code never
creates the slab that would hold them; a waiter therefore spins, and a spinning task
occupies one of `Workers` threads, so that `Poll` may find none free. `Vacate` is
any loss of a value from the inner cache; `lost` remembers that a `Complete` value
was lost while a call for its key was under way. The loss of a `Waiting` value
alone is made good by its leader, who inserts the loaded value whatever is under
the key (`dedup.rs:316-338`).

## 3. What TLC checks

| Run | Question | Instance | Result |
|---|---|---|---|
| `shard` | do table, layer and entries agree? is a shard an atomic bounded map? | 2 threads, 3 keys, 4 allocations, capacity 2, 4 buckets | holds, 103 978 states |
| `shard_rehash` | is a condemned pointer removed? | 4 keys, capacity 4, 8 buckets, groups of 4 | **violated** |
| `iter` | does a walk yield what stays? does it, and does a get that condemned, end? | 2 threads, 2 keys, chunks of 1, renewing reads | holds, 172 970 states |
| `least_of_n` | are indexes and stamps right? is it an evicting layer? | 4 pointers, capacity 3, 2 readers, 2 draws, clock to 3 | holds, 83 165 states |
| `unwind` | what do panics in the middle of a write leave? | 6 pointers, capacity 3, 2 panics | holds, 1 440 states |
| `list_keys` | is the free list sound? are stale keys harmless? | 4 pointers | holds, 65 913 states |
| `list_read` | is there a tail to move to? | 4 pointers | **violated** |
| `and_then` | do two layers make one? | 9 pointers, capacities 3 and 4, so that the first evicts, or 3 and 3, so that both are full | holds, 260 states |
| `stack` | do three layers agree, whatever they are? who bounds the table? do reads reach them? | 5 pointers, capacities 2, 2 and 3, all 125 choices of leaves | holds, 41 658 states |
| `expiry` | are deadlines and verdicts right? | 2 pointers, 2 readers, clock 1 to 5, deadlines at -1, +1, +3, rehashes at any time | holds, 2 438 232 states |
| `dedup` | are loads shared? is every load answered? | 3 tasks, 2 keys, 2 workers, pending, drops, a loss per key | holds, 196 166 states |
| `dedup_vacated` | and when a Complete value is lost? | 2 tasks, 1 key, 1 loss | **violated** |

Every run of `MCShard` also evaluates `BuilderAssumption`: for targets 0 to 70 and
around `MAX_SHARDS`, capacities 1 to 140 and all 8-bit hashes, the number of shards
passes the asserts of `exact_shards`, every shard has a capacity, and
`hash_and_shard` uses every shard and no other.

Bounds and why they are enough:

* Two threads: the shard's lock admits one writer, so a third thread could only
  do, between two steps of a get, what one other thread can do in several steps.
* Three keys at capacity two: an eviction has a choice, and the key in hand may be
  the victim's neighbour. Two allocations of one key let a value be replaced, and
  an allocation come back at the bucket a get remembers.
* `Slots` and `GroupWidth`: with `GroupWidth = 1` any erased bucket may become a
  tombstone, so tiny tables fill with tombstones and rehash; this allows more than
  any build of hashbrown does. `Slots` bounds where a probe may end.
  `shard_rehash` uses a real width instead (4, the portable build; 8 and 16 need
  larger tables for the same schedule), as a violation must be one the build
  can produce.
* `and_then`: with the smaller layer first only the first evicts, and the removal from
  the second is late. With equal capacities both are full, the second evicts first,
  and its victim has to make room in the first. `MCAndThen` has a behaviour of each
  kind; the remaining order is covered by the proof.
* `MaxVacated` bounds how often a key is lost in `Dedup`; `MaxGeneration` stands
  for 2^32 - 1 in `List`, where no node's generation passes 3.
* `iter`: `Chunk = 1` (256 in the code) and a table of two buckets to begin with
  make a table that grows between chunks, as 1024 buckets would. Renewing
  reads (`Touches`) let a pointer that one get condemned be alive again for another.
* `least_of_n`: one pointer more than the bag holds, so that it evicts and re-admits;
  two readers are enough for a late store to carry the earlier time.
* `unwind`: with two panics an orphan can knock a pointer out whose removal does the
  same to a third, and an index can lie beyond the end. `NeverOutOfSync` and
  `OrphansAreCounted` are proved for any number.
* `expiry`: `Limit = 8` is just what the comment at `time.rs:40` asks of the clock and
  the deadlines ("584 years, plently of uptime"), stated as `UptimeAssumption`. Two
  readers suffice for one swap between another's two steps. `CondemnedHaveATaker`
  needs a deadline shorter than the clock's range, which +1 and -1 give.
* `stack`: the outer layer's capacity lies between one sublayer's and both, so that
  inner and outer evictions meet in one write. Leaves that never evict stand beside
  ones that do, and five pointers are one more than two sublayers hold.
* `dedup`: two threads for three tasks, so that spinning waiters can starve a leader,
  and a third task comes upon what two others have left.
* Symmetry: pointers, readers and threads that are interchangeable; the runs with
  liveness properties use none.

Fairness. In `Shard`, `WF(Release(t))`: a caller uses or drops the entry it
opened. `SF(GetRemove(t))` and, in `Iter`, `SF(IterChunk)`: parking_lot's unlock is
eventually fair, so a thread that waits for the write lock is not overtaken for
ever. In `Dedup`, `SF(Poll(t))`: an executor takes the futures it was given from a
queue, so one that waits is polled if threads come free again and again; and weak
fairness of what a task does on its thread: a spinning thread is scheduled, the
user's load answers or stays pending. No fairness makes a waiter give up its thread.

`LoadAnswered` then says of a call of `load` that it returns, also if `Waiting` values
are evicted, unless

1. a `Complete` value of its key was lost while a call for the key was under way
   (`lost`; the finding below),
2. a load of the key was given up: a dropped future, or a pending load, which `select`
   never polls again (`given_up`), or
3. waiters occupy every thread of the executor from some time on (`[]Starved`): they
   spin inside `poll` (`dedup.rs:411-415`), so the leader they wait for never runs.

What happens to other keys matters only through the third.

### Findings

* **`sync.rs:323`** (`shard_rehash`). `layer.rs:54` promises that a `Remove` from
  `read_ref` is followed by `remove()` with the same pointer. `get` takes an
  unchanged number of buckets for an unmoved pointer; a rehash in place moves it.
  The pointer then stays, and under `ExpireAfterRead` stays with a renewed
  deadline although its get answered `None`. Nothing gets out of step
  (`InSync` holds): an expired value merely lives on.
* **`evict/list.rs:171`** (`list_read`). No push links a node, so the first read
  under `EvictLeastRecentlyRead` panics on `self.tail.unwrap()`, and neither list
  layer ever evicts.
* **`load/dedup.rs:447`** (`dedup_vacated`). A waiter that finds its key vacant puts
  a `Waiting` value there and calls `load`, which waits for it; the comment three
  lines above says that this "would hang forever". In the run the leader has inserted
  the loaded value, the cache loses that `Complete` value before the waiter looks
  again, and the waiter spins on its own `Waiting` value. The loss of a `Waiting` value
  whose leader is still to run is harmless, as the leader answers everybody.

## 4. What is proved

All theorems are for every value of the constants, from the modules' named
assumptions only: finite sets of pointers, a capacity of at least one, a table
with room for one item, `None` distinct from everything it stands beside, and in
`List` a generation limit above 2 (it is 2^32 - 1 in the code). One theorem,
`ShardIsAMap`, has an assumption of its own. Every invariant the runs check, and
every action property and refinement, is stated by a theorem.

* `ShardProofs`: `TypeCorrect`, `LayerInSync`, `KeysUnique` and `EntriesIntact`. The
  inductive invariant is `IInv == TypeOK /\ InSync /\ OneEntryPerKey /\ EntryIntact`.
  None of the parts is inductive alone: `InSync` after a `Replace` needs the
  overwritten bucket to be the entry's own (`EntryIntact`); `EntryIntact` in turn
  needs that only the lock's holder is inside an entry (`TypeOK`) and that no two
  pointers share a bucket (`OneEntryPerKey`). Facts about the table come first,
  then what a removal and a write do to the contents, then one lemma per action.
  On top of it:
  * `CapacityKept`, from a second invariant (`LayerFits`).
  * `RoomIsReserved`: the table's books balance. Every table operation keeps
    items, tombstones and free room within what the buckets can hold; `Reserve`
    leaves room for one, and only the lock's holder, who reserved, uses it.
  * `NoBystanderGoes`, an action property of the steps that leave the lock free.
  * `ShardIsAMap`: `Spec => ImplementsCacheMap` if `Touches = FALSE`, which is the
    condition the property states ("deadlines do not move here"). The abstract map
    is a function chosen from the stored pointers, so the lemmas first say what
    adding, dropping and swapping a pointer does to it; then each action is
    mapped to a step of `CacheMap` or a stutter. A get that condemned has already
    answered "nothing" in the abstract map, so its later removal must be the removal
    of a stale mapping: that is the extra invariant `CondemnedIsStale`. With
    `Touches = TRUE` a second read can renew the deadline of a pointer a first one
    has condemned, and neither the invariant nor the refinement is claimed.
* `IterProofs`: a chunk keeps `ShardProofs`' `IInv`, all other steps are the shard's
  own, so `InSync` and `EntryIntact` hold during iteration; and `SweepsTheUnmoved`,
  with the invariant that `kept` pointers lie below the number of buckets
  read at the start.
* `BagProofs`, in three parts.
  * The bag: stored keys are indexes, and `Spec => ImplementsLayer`. A
    `swap_remove` through a right index removes exactly its pointer; right
    indexes also make the vector free of duplicates, which is why its length is
    the number of its members.
  * The least-of-n bag: every step of it is a step of `Bag` or leaves the bag
    alone (`LeastOfNIsABag`), so that the theorems of the bag hold of it,
    `LeastOfNImplementsLayer` among them. For `StampsFollowReads` the strengthening
    is that no stamp is from the future and that what a reader is about to store
    is not below the stamp of any element untouched since the last write
    (`PendingOutranks`): no reader is inside `get` during a write, so every pending
    time is later than that write. `LTypeCorrect` follows from the same invariant.
  * Panics: `NeverOutOfSync`, `OrphansAreCounted` and `KeysAreIndexes` together, with
    the shape of the bag: a `swap_remove` by a wrong index still removes exactly one
    member of a vector without duplicates.
* `AndThenProofs`: layers and table agree, and two evicting layers are one with the
  smaller capacity. The table being within the smaller capacity is what excludes
  a second victim. With `BagProofs`, this is the assumption `Shard` makes.
* `StackProofs`: `SharedOut` is inductive for `Multi`, because a variant changes only
  while its pointer is in neither layer; and every step of `Stack` is a step of
  `Multi` or leaves it alone, so it holds in a stack (`LayersShareOut`), as does
  `SublayersAreLayers`. For `StackAgrees` and `StackKeptWithin` the invariant says what
  holds halfway through a write: the outer layer, if it evicts, has made room for one,
  and the pointer in hand is nowhere yet (`RoomMade`), so the inner victim, which
  leaves the outer layer last, restores the agreement. `StackAgrees` has no bound on the
  table in it: only leaves that evict give one, which is `StackKeptWithin`.
  `NothingExpiredServed` and `LeavesAreTold` follow from the dispatch for all 125
  choices of leaves at once.
* `ListProofs`. As nothing sets `head`, `tail` or a link, a node has three lives, told
  apart by its generation: appended (1), vacant (2), used again (3). The Key of a node
  used again is of generation 2, so it opens nothing and the third life is the
  last; a Key that does open a node is of generation 1 and names the node's first
  pointer (`ThreeLives`). This gives `KeysNameTheirOwn` and, with `Placed`,
  `LiveHaveOneNode`. `FreeListIsSound` is kept because a removal makes the node refer
  to what the list referred to, and the list to the node, and a reuse undoes
  that. `ListTypeCorrect` needs a bound on the vector: it grows only when no node is
  vacant, and that an empty free list means so takes an argument by counting
  (as many keys on vacant nodes as vacant nodes, so each names another) and
  one that the free list ends (`Ranked`). `ListsNeverEvict` states for every
  capacity what follows from a `len` that is never counted.
* `ExpiryProofs`: `DeadlinesExact`, `VerdictsRight` and `CondemnedHaveATaker`, from
  `UptimeAssumption`. The strengthening is that what is stored for a live pointer is
  the saturated distance of its deadline from `zero`, which no longer changes, and
  that a reader that has taken its time did so after `zero` was set, so that no
  saturated deadline can lie after it. `CondemnedHaveATaker` is about pointers that
  are still in the bucket they were judged in (`condemned` forgets what a rehash
  moves, `RehashKeeps`); of the others it claims nothing, as `shard_rehash` shows
  that they can be left behind.
* `DedupProofs`: `LoadsAreShared`, with the strengthening that a vacant key has
  used up no load that a loss has not paid for (`VacantHasCredit`); and
  `WaitingHasLoader`, with the strengthenings that nobody is busy with a key that is
  vacant and was never lost (`NeverTouched`), that a `Waiting` value never lost has
  exactly one loader (`OneLoader`), and that whoever is busy with a key that is not
  complete has one, also after its `Waiting` value was evicted (`BusyHaveLoader`),
  each unless a load was given up and the last unless a `Complete` value was lost.

Only model-checked: the liveness properties `CondemningEnds`, `IterationEnds` and
`LoadAnswered`, since fairness and ENABLED are beyond the prover's reach, and
`BuilderAssumption`, as `Builder` uses bitwise operators, which no backend of the
prover knows. The three violations are TLC's counterexamples.

## 5. What is not modelled, and why

* `len`: a sum over shards read one after the other; the trait promises nothing of it.
* Several shards: they share nothing but the hash, so one shard's behaviours are all.
* Calls back into the cache from a closure run under an entry. That is a
  self-deadlock callers must avoid: an entry must be used or dropped before the next
  operation on the same cache by the same thread. Panics of closures that run before
  anything has changed, or of a value's own methods.
* A `replace` with another key: `debug_assert` forbids it (`sync.rs:452`).
* `MultiLayer` gives both sublayers the shard's full capacity (`multi.rs:43`), and
  inside an `AndThen` one write may then cost two values. `Stack` contains both, and
  `KeptWithin` bounds the first; nothing in the repository says otherwise.
* Deadlines and stamps beyond 584 years (`UptimeAssumption`).
* A clock given by `with_clock` that lags behind `Instant::now`, which `zero()` calls.
* Memory orderings: every shared field is behind the shard's lock except stamps and
  the deadlines of `ExpireAfterRead`, each a single atomic.
* Hashing: equal keys hash equally and every probe sequence is possible.
* `DedupLoad`: unfinished. Its leader unwraps a slab of wakers nobody creates
  (`dedup.rs:542`), and the future of those who wait ends in `todo!()`.
* `EvictGenerational`, `LocalCache`, most of `build.rs`: commented out. `wrap.rs` and
  `map.rs` only forward calls.

## 6. What is left

1. `Shard` with `Bag` in the place of the abstract evicting layer, refining `Shard`.
2. Panics under `LeastOfN`, whose Keys are followed by readers as well.
3. A weaker abstract map that holds when reads renew deadlines (`Touches = TRUE`).
