-------------------------------- MODULE Dedup --------------------------------
(***************************************************************************)
(* DedupLoadIntrusive (load/dedup.rs): tasks that load the same missing    *)
(* key share one load.  The first caller puts a Waiting value under the    *)
(* key and loads; the others find it there and wait for it to become       *)
(* Complete.  The cache underneath is any Cache, each of whose entries is  *)
(* used at one instant (see CacheMap) and which may lose a value at any    *)
(* time, by expiry, removal or eviction.                                   *)
(*                                                                         *)
(* Wakers::default() is an Arc<Mutex<None>>: the slab of wakers is never   *)
(* created, so nobody can register a waker and WaitIntrusiveFut::poll never *)
(* returns Pending.  A waiter is polled once and then looks at the cache   *)
(* again and again, on the executor thread that polled it; a caller whose  *)
(* own load is pending does the same (select polls the load once).         *)
(***************************************************************************)
EXTENDS Naturals, FiniteSets

CONSTANTS Tasks, Keys,
          Workers,       \* executor threads
          LoadsPend,     \* the user's load may be pending when first polled
          Drops,         \* callers may drop a future they never polled
          MaxVacated,    \* how often a key may be lost from the cache (a bound)
          None           \* no key

ASSUME NoneAssumption == None \notin Keys
ASSUME WorkersAssumption == Workers \in Nat \ {0} /\ MaxVacated \in Nat

VARIABLES value,     \* what the cache has under each key
          at,        \* how far each task is in its call of load
          key,       \* the key it loads, if it is in a call
          vacated,   \* how often each key was lost
          lost,      \* history: whether a Complete value of the key was lost
                     \* while a call for the key was under way
          loads,     \* how often a load of each key was taken on
          given_up   \* whether a load of the key was dropped or left pending

vars == <<value, at, key, vacated, lost, loads, given_up>>

Init ==
    /\ value = [k \in Keys |-> "vacant"]
    /\ at = [t \in Tasks |-> "idle"]
    /\ key = [t \in Tasks |-> None]
    /\ vacated = [k \in Keys |-> 0]
    /\ lost = [k \in Keys |-> FALSE]
    /\ loads = [k \in Keys |-> 0]
    /\ given_up = [k \in Keys |-> FALSE]

Go(t, place) == at' = [at EXCEPT ![t] = place]
SetValue(k, v) == value' = [value EXCEPT ![k] = v]
GiveUp(k) == given_up' = [given_up EXCEPT ![k] = TRUE]

\* A call on k goes on to a place, or has its answer.
GoOn(t, k, place) == Go(t, place) /\ key' = [key EXCEPT ![t] = k]
Leave(t) == GoOn(t, None, "idle")

\* A call of load that has no answer yet.
Busy(t) == at[t] # "idle"

\* Tasks whose poll is under way: each occupies a thread of the executor.
Running == {t \in Tasks : at[t] \in {"loading", "spinning", "reloading"}}
FreeWorker == Cardinality(Running) < Workers

\* Mutation: whoever meets a Waiting value loads as well.
JoinLoading(t, k, led, joined) ==
    \/ /\ value[k] # "complete"
       /\ SetValue(k, "waiting")
       /\ loads' = [loads EXCEPT ![k] = @ + 1]
       /\ GoOn(t, k, led)
    \/ /\ value[k] = "complete"
       /\ Leave(t)
       /\ UNCHANGED <<value, loads>>

\* The match at the top of load: join a Waiting value, take a Complete one, or
\* put a Waiting value and lead.
Join(t, k, led, joined) ==
    \/ /\ value[k] = "vacant"
       /\ SetValue(k, "waiting")
       /\ loads' = [loads EXCEPT ![k] = @ + 1]
       /\ GoOn(t, k, led)
    \/ /\ value[k] = "waiting"
       /\ GoOn(t, k, joined)
       /\ UNCHANGED <<value, loads>>
    \/ /\ value[k] = "complete"
       /\ Leave(t)
       /\ UNCHANGED <<value, loads>>

-----------------------------------------------------------------------------
\* load(key) is called: its entry is used before the future is first polled.
Load(t, k) ==
    /\ at[t] = "idle"
    /\ Join(t, k, "leading", "waiting")
    /\ UNCHANGED <<vacated, lost, given_up>>

\* The future is first polled.
Poll(t) ==
    /\ FreeWorker
    /\ \/ at[t] = "leading" /\ Go(t, "loading")
       \/ at[t] = "waiting" /\ Go(t, "spinning")
    /\ UNCHANGED <<value, key, vacated, lost, loads, given_up>>

\* Mutation: the loaded value is returned but not inserted.
FinishLoadAlone(t) ==
    /\ at[t] = "loading"
    /\ Leave(t)
    /\ UNCHANGED <<value, vacated, lost, loads, given_up>>

\* The user's load answers within its first poll: insert_loaded_value, which
\* writes whatever is under the key now.
FinishLoad(t) ==
    /\ at[t] = "loading"
    /\ SetValue(key[t], "complete")
    /\ Leave(t)
    /\ UNCHANGED <<vacated, lost, loads, given_up>>

\* It does not: select goes on to poll the WaitIntrusiveFut, which never lets
\* the load be polled again.
PendLoad(t) ==
    /\ LoadsPend
    /\ at[t] = "loading"
    /\ Go(t, "spinning")
    /\ GiveUp(key[t])
    /\ UNCHANGED <<value, key, vacated, lost, loads>>

\* One turn of the loop in WaitIntrusiveFut::poll that is not the same again:
\* a Complete value ends it; a vacant key gets a Waiting value, without anyone
\* to load it, and load is called anew.
Spin(t) ==
    /\ at[t] = "spinning"
    /\ \/ /\ value[key[t]] = "complete"
          /\ Leave(t)
          /\ UNCHANGED value
       \/ /\ value[key[t]] = "vacant"
          /\ SetValue(key[t], "waiting")
          /\ GoOn(t, key[t], "reloading")
    /\ UNCHANGED <<vacated, lost, loads, given_up>>

\* The boxed future calls dedup.load, and is polled at once.
Reload(t) ==
    /\ at[t] = "reloading"
    /\ Join(t, key[t], "loading", "spinning")
    /\ UNCHANGED <<vacated, lost, given_up>>

\* It drops a future that was never polled.  The Waiting value stays.
Drop(t) ==
    /\ Drops
    /\ \/ at[t] = "leading" /\ GiveUp(key[t])
       \/ at[t] = "waiting" /\ UNCHANGED given_up
    /\ Leave(t)
    /\ UNCHANGED <<value, vacated, lost, loads>>

-----------------------------------------------------------------------------
\* Cache::insert on the same cache: a Waiting value passes for a vacant entry,
\* so the new value takes its place, and that of a Complete one.
Insert(k) ==
    /\ value[k] # "complete"
    /\ SetValue(k, "complete")
    /\ UNCHANGED <<at, key, vacated, lost, loads, given_up>>

\* The cache gives up what it has under a key.  A Waiting value never expires
\* and cannot be removed, but it can be evicted.
Vacate(k) ==
    /\ value[k] # "vacant" /\ vacated[k] < MaxVacated
    /\ SetValue(k, "vacant")
    /\ vacated' = [vacated EXCEPT ![k] = @ + 1]
    /\ lost' = [lost EXCEPT ![k] = \/ @
                                  \/ /\ value[k] = "complete"
                                     /\ \E t \in Tasks : key[t] = k /\ Busy(t)]
    /\ UNCHANGED <<at, key, loads, given_up>>

TaskStep(t) ==
    Poll(t) \/ FinishLoad(t) \/ PendLoad(t) \/ Spin(t) \/ Reload(t) \/ Drop(t)

Next ==
    \/ \E t \in Tasks : TaskStep(t) \/ \E k \in Keys : Load(t, k)
    \/ \E k \in Keys : Insert(k) \/ Vacate(k)

Spec == Init /\ [][Next]_vars

\* An executor takes the futures it was given from a queue: one that waits is
\* polled if threads come free again and again.  A thread that spins keeps
\* running, and the user's load, once it runs, comes to an end.
Fairness ==
    \A t \in Tasks :
        /\ SF_vars(Poll(t))
        /\ WF_vars(FinishLoad(t) \/ Spin(t) \/ Reload(t))

FairSpec == Spec /\ Fairness

-----------------------------------------------------------------------------
TypeOK ==
    /\ value \in [Keys -> {"vacant", "waiting", "complete"}]
    /\ at \in [Tasks -> {"idle", "leading", "waiting", "loading", "spinning",
                         "reloading"}]
    /\ key \in [Tasks -> Keys \cup {None}]
    /\ \A t \in Tasks : at[t] = "idle" <=> key[t] = None
    /\ vacated \in [Keys -> 0..MaxVacated]
    /\ lost \in [Keys -> BOOLEAN]
    /\ loads \in [Keys -> 0..(MaxVacated + 1)]
    /\ given_up \in [Keys -> BOOLEAN]

\* The tasks that have taken on a load of k and can still answer it.
Loaders(k) == {t \in Tasks : key[t] = k /\ at[t] \in {"leading", "loading"}}

\* Loads are shared: whatever callers drop, insert or evict, and however often
\* waiters start over, a key is loaded once and then at most once more for
\* every time the cache lost it.
LoadsAreShared == \A k \in Keys : loads[k] <= 1 + vacated[k]

\* Somebody will fill a Waiting value, if no load of the key was given up and no
\* Complete value of it lost under those who wait for it: a load is under way,
\* also of a Waiting value that waiters put there after its leader's was evicted,
\* and whatever happens to the other keys.  It is only one, if the key was never
\* lost at all.
WaitingHasLoader ==
    \A k \in Keys :
        value[k] = "waiting" /\ ~lost[k] /\ ~given_up[k] =>
            /\ Loaders(k) # {}
            /\ vacated[k] = 0 => \E t \in Tasks : Loaders(k) = {t}

\* Every thread of the executor spins.
Starved == Cardinality({t \in Tasks : at[t] = "spinning"}) >= Workers

\* t has its answer, or may wait for ever: a Complete value of its key was lost,
\* perhaps before t had looked, or a load of the key was given up.
AnsweredOrForsaken(t) == ~Busy(t) \/ lost[key[t]] \/ given_up[key[t]]

\* Every call of load returns, also if Waiting values are evicted, unless a
\* Complete value of its key was lost under it, a load of the key was given up,
\* or waiters have taken every thread of the executor for good, so that the
\* leader they wait for is never polled (dedup.rs:411-415).
LoadAnswered == \A t \in Tasks : Busy(t) ~> AnsweredOrForsaken(t) \/ []Starved

\* Every call of load returns.  The comment at dedup.rs:444 says of the vacant
\* case "actually need to just do the insert, not re-call load() because that
\* would hang forever".
LoadReturns == \A t \in Tasks : Busy(t) ~> ~Busy(t)
=============================================================================
