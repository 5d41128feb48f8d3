------------------------------- MODULE Expiry -------------------------------
(***************************************************************************)
(* The deadlines of the expiry layers (expire.rs) and the number they are  *)
(* kept as (AtomicInstant, time.rs).  A read takes the time, asks          *)
(* expire_at_fn for a new deadline, swaps it in and judges the old one; it *)
(* does so under a lock that other readers share, so that the clock ticks  *)
(* and others swap between taking the time and swapping.  A read that      *)
(* judges a pointer to be over lets go of the lock and comes back to       *)
(* remove it from the bucket it found it in: if meanwhile the table was    *)
(* rehashed in place, the pointer may be elsewhere and is missed.          *)
(*                                                                         *)
(* A deadline is stored as the nanoseconds, modulo 2^64, since the first   *)
(* time anybody in the process stored one.                                 *)
(*                                                                         *)
(* One clock stands for the layer's Clock and for Instant::now, which      *)
(* zero() calls: true of DefaultClock, not of a clock given by with_clock  *)
(* that lags behind.                                                       *)
(***************************************************************************)
EXTENDS Integers, FiniteSets

CONSTANTS Pointers, Readers,
          Ends,       \* how long after now expire_at_fn may set a deadline
          Start,      \* the time at first
          MaxClock,   \* the last time (a bound)
          Limit,      \* 2^64
          None        \* no time, no pointer

ASSUME EndsAssumption == Ends \subseteq Int
ASSUME ClockAssumption ==
    Start \in Nat /\ MaxClock \in Nat /\ Start <= MaxClock /\ Limit \in Nat \ {0}
ASSUME NoneAssumption == None \notin Int /\ None \notin Pointers

\* "2^64 nanos = 584 years, plently of uptime before wrapping!" (time.rs:40):
\* no deadline is that far from the start.
ASSUME UptimeAssumption == \A e \in Ends : MaxClock + e - Start < Limit

VARIABLES clock,      \* the time
          zero,       \* OFFSET: the instant deadlines are counted from, once set
          renews,     \* the layer is ExpireAfterRead; else ExpireAfterWrite
          live,       \* the pointers in the table
          offset,     \* what each pointer's layer value holds
          deadline,   \* history: the instant last given for each pointer
          condemned,  \* history: the live pointers some read has judged over
                      \* in the bucket they are still in
          writing,    \* the time a write has taken, before it stores anything
          op,         \* what each reader is in the middle of
          stale       \* the readers whose pointer has left the bucket they found
                      \* it in and mean to remove it from

vars == <<clock, zero, renews, live, offset, deadline, condemned, writing, op, stale>>

Op(at, p, now, old) == [at |-> at, ptr |-> p, now |-> now, old |-> old]
Idle == Op("idle", None, 0, 0)

Init ==
    /\ clock = Start
    /\ zero = None
    /\ renews \in BOOLEAN
    /\ live = {}
    /\ offset = [p \in Pointers |-> 0]
    /\ deadline = [p \in Pointers |-> 0]
    /\ condemned = {}
    /\ writing = None
    /\ op = [r \in Readers |-> Idle]
    /\ stale = {}

-----------------------------------------------------------------------------
\* Mutation: the distance is taken without saturating at zero.
OffsetWrapping(i, z) == (i - z) % Limit

\* Mutation: the distance is kept signed.
OffsetSigned(i, z) == i - z

\* instant_to_offset: duration_since saturates, as_nanos() as u64 truncates.
Offset(i, z) == (IF i < z THEN 0 ELSE i - z) % Limit

\* offset_to_instant
Instant(o, z) == z + o

\* zero(): OFFSET.get_or_init(Instant::now)
ZeroNow == IF zero = None THEN clock ELSE zero

\* What the layer reads back of what it stored: an AtomicInstant, or under
\* ExpireAfterWrite the Instant itself.
Kept(p) == IF renews THEN Instant(offset[p], zero) ELSE deadline[p]

Shared == {r \in Readers : op[r].at = "timed"}
Continue(r, o) == op' = [op EXCEPT ![r] = o]

\* Mutation: the start of the count moves.
TickZero ==
    /\ clock < MaxClock
    /\ clock' = clock + 1
    /\ zero' = IF zero = None THEN None ELSE zero + 1
    /\ UNCHANGED <<renews, live, offset, deadline, condemned, writing, op, stale>>

Tick ==
    /\ clock < MaxClock
    /\ clock' = clock + 1
    /\ UNCHANGED <<zero, renews, live, offset, deadline, condemned, writing, op, stale>>

\* Another cache of the process stores an instant.
OtherCache ==
    /\ zero = None
    /\ zero' = clock
    /\ UNCHANGED <<clock, renews, live, offset, deadline, condemned, writing, op, stale>>

-----------------------------------------------------------------------------
\* Arc::new: an allocation nobody refers to.
Fresh(p) == p \notin live /\ \A r \in Readers : op[r].ptr # p

\* Shard::write takes the time, under the exclusive lock ...
BeginWrite ==
    /\ writing = None /\ Shared = {}
    /\ \E p \in Pointers : Fresh(p)
    /\ writing' = clock
    /\ UNCHANGED <<clock, zero, renews, live, offset, deadline, condemned, op, stale>>

\* ... and stores the deadline, counted from a start that may be later.
EndWrite(p) ==
    /\ writing # None /\ Fresh(p)
    /\ \E e \in Ends :
          /\ deadline' = [deadline EXCEPT ![p] = writing + e]
          /\ IF renews
             THEN /\ zero' = ZeroNow
                  /\ offset' = [offset EXCEPT ![p] = Offset(writing + e, ZeroNow)]
             ELSE UNCHANGED <<zero, offset>>
    /\ live' = live \cup {p}
    /\ writing' = None
    /\ UNCHANGED <<clock, renews, condemned, op, stale>>

\* A removal, or an eviction, by anybody else.
Remove(p) ==
    /\ writing = None /\ Shared = {} /\ p \in live
    /\ live' = live \ {p} /\ condemned' = condemned \ {p}
    /\ UNCHANGED <<clock, zero, renews, offset, deadline, writing, op, stale>>

\* read_ref begins: let now = clock.now().
TakeTime(r, p) ==
    /\ writing = None /\ op[r] = Idle /\ p \in live
    /\ Continue(r, Op("timed", p, clock, 0))
    /\ UNCHANGED <<clock, zero, renews, live, offset, deadline, condemned, writing, stale>>

\* Mutation: what has just been stored is judged, not what was there.
JudgeNew(r, p, end) == IF renews THEN op[r].now + end ELSE Kept(p)

\* The instant the read compares with now: what the swap gave back.
Judge(r, p, end) == Kept(p)

\* read_ref ends: the swap, for ExpireAfterRead, and the comparison.
Swap(r) ==
    LET p == op[r].ptr
        now == op[r].now
    IN  /\ op[r].at = "timed"
        /\ \E e \in Ends :
              /\ IF renews
                 THEN /\ deadline' = [deadline EXCEPT ![p] = now + e]
                      /\ offset' = [offset EXCEPT ![p] = Offset(now + e, zero)]
                 ELSE UNCHANGED <<deadline, offset>>
              /\ IF Judge(r, p, e) <= now
                 THEN /\ Continue(r, Op("condemning", p, now, deadline[p]))
                      /\ condemned' = condemned \cup {p}
                 ELSE /\ Continue(r, Op("served", p, now, deadline[p]))
                      /\ UNCHANGED condemned
        /\ UNCHANGED <<clock, zero, renews, live, writing, stale>>

\* What a reader that comes back to remove its pointer may find of it: the
\* pointer, but that a stale reader finds it only if the table has grown, or it
\* was moved back.
Findable(r) == IF r \in stale THEN {{}, {op[r].ptr}} ELSE {{op[r].ptr}}

\* Mutation: the reader looks at the deadline again, which it has renewed.
RemoveIfStillOver(r) ==
    /\ op[r].at = "condemning" /\ writing = None /\ Shared = {}
    /\ \E found \in Findable(r) :
          LET gone == {p \in found \cap live : Kept(p) <= clock}
          IN  live' = live \ gone /\ condemned' = condemned \ gone
    /\ stale' = stale \ {r}
    /\ Continue(r, Idle)
    /\ UNCHANGED <<clock, zero, renews, offset, deadline, writing>>

\* A read that found its pointer over has the exclusive lock.
RemoveCondemned(r) ==
    /\ op[r].at = "condemning" /\ writing = None /\ Shared = {}
    /\ \E gone \in Findable(r) : live' = live \ gone /\ condemned' = condemned \ gone
    /\ stale' = stale \ {r}
    /\ Continue(r, Idle)
    /\ UNCHANGED <<clock, zero, renews, offset, deadline, writing>>

\* An entry makes room for one more value by rehashing in place: any pointers
\* move, and the buckets are as many as before.
Rehash(moved) ==
    /\ writing = None /\ Shared = {}
    /\ stale' = stale \cup {r \in Readers : op[r].at = "condemning" /\ op[r].ptr \in moved}
    /\ condemned' = condemned \ moved
    /\ UNCHANGED <<clock, zero, renews, live, offset, deadline, writing, op>>

\* The caller drops the pointer it was given.
Return(r) ==
    /\ op[r].at = "served"
    /\ Continue(r, Idle)
    /\ UNCHANGED <<clock, zero, renews, live, offset, deadline, condemned, writing, stale>>

Next ==
    \/ Tick \/ OtherCache \/ BeginWrite
    \/ \E p \in Pointers : EndWrite(p) \/ Remove(p) \/ \E r \in Readers : TakeTime(r, p)
    \/ \E r \in Readers : Swap(r) \/ RemoveCondemned(r) \/ Return(r)
    \/ \E moved \in SUBSET live : Rehash(moved)

Spec == Init /\ [][Next]_vars

-----------------------------------------------------------------------------
TypeOK ==
    /\ clock \in Start..MaxClock
    /\ zero \in Start..clock \cup {None}
    /\ renews \in BOOLEAN
    /\ live \subseteq Pointers /\ condemned \subseteq Pointers
    /\ offset \in [Pointers -> Nat]
    /\ deadline \in [Pointers -> Int]
    /\ writing \in Start..clock \cup {None}
    /\ op \in [Readers -> [at : {"idle", "timed", "condemning", "served"},
                           ptr : Pointers \cup {None}, now : Nat, old : Int]]
    /\ stale \subseteq {r \in Readers : op[r].at = "condemning"}

\* A deadline reads back as it was given, but for one that was over before
\* deadlines were counted, which reads back as the start of the count.
DeadlinesExact ==
    \A p \in live : Kept(p) = IF renews /\ deadline[p] < zero THEN zero ELSE deadline[p]

\* A read serves a pointer exactly if the deadline it replaced was still to
\* come when the read took the time: neither the start of the count, which the
\* first write sets only after taking its own time, nor a swap by another read
\* in between makes it err.
VerdictsRight ==
    \A r \in Readers :
        /\ op[r].at = "served" => op[r].old > op[r].now
        /\ op[r].at = "condemning" => op[r].old <= op[r].now

\* ExpireAfterRead renews a deadline with the very swap that finds it over, so
\* that other reads see the pointer alive again.  As long as a pointer stays in
\* the bucket it was judged over in, it is in the cache only while a read that
\* did so is on its way to that bucket.  A pointer that a rehash in place has
\* moved may be left behind, renewed (sync.rs:323).
CondemnedHaveATaker ==
    \A p \in condemned :
        /\ p \in live
        /\ \E r \in Readers \ stale : op[r].at = "condemning" /\ op[r].ptr = p
=============================================================================
