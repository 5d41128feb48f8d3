-------------------------------- MODULE Stack --------------------------------
(***************************************************************************)
(* A stack of both combinators: AndThen(MultiLayer(l0, l1), l2), and what  *)
(* SyncCache's get, entry and iter make of it.  The leaves are any of the  *)
(* layers of the crate, told apart by the locks their reads ask for, the   *)
(* methods they implement and whether they evict when they are full.  A    *)
(* leaf that keeps time may find a pointer it is asked about to be over.   *)
(*                                                                         *)
(* The window between a get's two locks is left to Shard: here a get that  *)
(* is told to remove a pointer removes it.  A list leaf's read_mut, which  *)
(* panics (TailIsThere of List), is here the read its callers expect.      *)
(***************************************************************************)
EXTENDS Multi

CONSTANTS CapacityOuter,   \* the capacity of l2 (LayerCapacityFraction)
          None             \* no pointer

ASSUME OuterAssumption == CapacityOuter \in Nat \ {0} /\ None \notin Pointers

VARIABLES outer,     \* the pointers l2 knows
          kind,      \* what each leaf is
          writing,   \* the pointer a write has made room for, or None
          last       \* history: the last read

svars == <<s, variant, table, evicts, outer, kind, writing, last>>

\* EvictRandom; EvictLeastOfN; LayerNone and EvictLeastRecentlyWritten;
\* EvictLeastRecentlyRead, whose read_ref is unreachable!(); the expiry layers.
Kinds == {"random", "stamps", "plain", "list", "expiry"}

\* The kinds that give up a pointer when full: neither LayerNone nor the expiry
\* layers do, and the lists never find themselves full (ListProofs).
Evicting == {"random", "stamps"}

\* READ_LOCK and ITER_READ_LOCK of a leaf.
ReadLock == [random |-> "None", stamps |-> "Ref", plain |-> "None", list |-> "Mut",
             expiry |-> "Ref"]
IterReadLock == [random |-> "None", stamps |-> "None", plain |-> "None", list |-> "None",
                 expiry |-> "Ref"]

\* Mutation: the weaker of two locks.
OrWeaker(x, y) ==
    IF "None" \in {x, y} THEN "None" ELSE IF "Ref" \in {x, y} THEN "Ref" ELSE "Mut"

\* ReadLock::or
Or(x, y) ==
    IF "Mut" \in {x, y} THEN "Mut" ELSE IF "Ref" \in {x, y} THEN "Ref" ELSE "None"

\* MultiLayer's ITER_READ_LOCK is made of its layers' READ_LOCKs.
MultiLock == Or(ReadLock[kind[0]], ReadLock[kind[1]])
StackLock == Or(MultiLock, ReadLock[kind[2]])
StackIterLock == Or(MultiLock, IterReadLock[kind[2]])

\* Mutation: the second layer's verdict is the stack's.
VerdictOfSecond(told, due) == 2 \in told /\ 2 \in due

\* ReadResult::or over the leaves that were told of the read: whether the
\* pointer is to be removed.
Verdict(told, due) == told \cap due # {}

\* Mutation: a sublayer is found by key_fn, as for a write.
HoldersByKeyFn(p) == {1 - variant[p], 2}

\* The leaves AndThen and MultiLayer pass a read of p to.
Holders(p) == {variant[p], 2}

NoRead == [how |-> "none", ptr |-> None, told |-> {}, method |-> "none", due |-> {},
           served |-> FALSE]

SInit ==
    /\ Init
    /\ outer = {} /\ writing = None /\ last = NoRead
    /\ kind \in [{0, 1, 2} -> Kinds]
    /\ evicts = [i \in {0, 1} |-> kind[i] \in Evicting]

-----------------------------------------------------------------------------
\* AndThenShard::remove and the cache's own, of p.
TakeOut(p) == Remove(p) /\ outer' = outer \ {p}

OuterFull == kind[2] \in Evicting /\ Cardinality(outer) = CapacityOuter

\* A write begins with l2: if l2 evicts, WriteB::remove takes its victim out of
\* MultiLayer and the table.
BeginWrite(p) ==
    /\ writing = None /\ p \notin table
    /\ \/ OuterFull /\ \E v \in outer : TakeOut(v)
       \/ ~OuterFull /\ UNCHANGED <<s, variant, table, evicts, outer>>
    /\ writing' = p
    /\ last' = NoRead
    /\ UNCHANGED kind

\* Mutation: removed_by_a is dropped.
EndWriteForgetful(i) ==
    /\ writing # None
    /\ Write(writing, i)
    /\ outer' = outer \cup {writing}
    /\ writing' = None
    /\ UNCHANGED <<kind, last>>

\* Then MultiLayer writes, where key_fn says i, and l2 is at last told what it
\* has evicted (removed_by_a).
EndWrite(i) ==
    /\ writing # None
    /\ Write(writing, i)
    /\ outer' = (outer \cup {writing}) \ (table \ table')
    /\ writing' = None
    /\ UNCHANGED <<kind, last>>

\* entry(key).remove()
RemoveEntry(p) ==
    /\ writing = None
    /\ TakeOut(p)
    /\ last' = NoRead
    /\ UNCHANGED <<kind, writing>>

\* A read of p by a method that every holder is told of, or none of them.
Read(p, how, told, method) ==
    /\ writing = None /\ p \in table
    /\ \E due \in SUBSET {i \in Holders(p) : kind[i] = "expiry"} :
          /\ IF Verdict(told, due) THEN TakeOut(p)
             ELSE UNCHANGED <<s, variant, table, evicts, outer>>
          /\ last' = [how |-> how, ptr |-> p, told |-> told, method |-> method, due |-> due,
                      served |-> ~Verdict(told, due)]
    /\ UNCHANGED <<kind, writing>>

\* get goes by READ_LOCK: nobody is told, or everybody under the shared lock,
\* or it is entry(key) and into_pointer().
Get(p) ==
    \/ StackLock = "None" /\ Read(p, "get", {}, "none")
    \/ StackLock = "Ref" /\ Read(p, "get", Holders(p), "read_ref")
    \/ StackLock = "Mut" /\ Read(p, "get", Holders(p), "read_mut")

OpenEntry(p) == Read(p, "entry", Holders(p), "read_mut")

\* iter goes by ITER_READ_LOCK.
IterOver(p) ==
    \/ StackIterLock = "None" /\ Read(p, "iter", {}, "none")
    \/ StackIterLock # "None" /\ Read(p, "iter", Holders(p), "iter_read_mut")

SNext ==
    \/ \E p \in Pointers :
          BeginWrite(p) \/ RemoveEntry(p) \/ Get(p) \/ OpenEntry(p) \/ IterOver(p)
    \/ \E i \in {0, 1} : EndWrite(i)

SSpec == SInit /\ [][SNext]_svars

-----------------------------------------------------------------------------
\* However the leaves are combined, the outer layer and the table agree, also
\* on what the inner layers evicted while the outer one was writing.
OuterAgrees == outer = table

\* The table is bounded by the leaves that evict, and by them alone: by the outer
\* layer's capacity if it evicts, and by one capacity per layer of MultiLayer, so
\* by twice the shard's if both do (multi.rs:43).
KeptWithin ==
    /\ kind[2] \in Evicting => Cardinality(table) <= CapacityOuter
    /\ \A i \in {0, 1} : kind[i] \in Evicting => Cardinality(s[i]) <= Capacity
    /\ kind[0] \in Evicting /\ kind[1] \in Evicting => Cardinality(table) <= 2 * Capacity

\* Whatever the other leaves are, and whatever lock they made the read take, a
\* pointer one of its holders finds to be over is not served by get, entry or
\* iter, and the read takes it out of the table and every layer.  (A get does so
\* in a second step, which may miss the pointer after a rehash in place: that is
\* Shard's RemovedAfterRemove.)
ExpiredNeverServed ==
    last.due # {} => /\ ~last.served
                     /\ last.ptr \notin table \cup outer \cup s[0] \cup s[1]

\* A leaf that asked to be told of reads is told of every get and entry of its
\* own pointers and of no other leaf's, and one that keeps a list never through
\* read_ref, which is unreachable!() there.
ReadersAreTold ==
    /\ last.how \in {"get", "entry"} /\ last.served =>
          \A i \in {variant[last.ptr], 2} : ReadLock[kind[i]] # "None" => i \in last.told
    /\ last.served => last.told \subseteq {variant[last.ptr], 2}
    /\ last.method = "read_ref" => \A i \in last.told : kind[i] # "list"
=============================================================================
