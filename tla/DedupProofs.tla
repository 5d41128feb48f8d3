----------------------------- MODULE DedupProofs -----------------------------
(***************************************************************************)
(* Proofs about Dedup: for any number of tasks, keys and workers, and for  *)
(* any loss of values, a load is shared.                                   *)
(***************************************************************************)
EXTENDS Dedup, TLAPS

\* A vacant key has used up no load that a loss has not paid back; this is
\* what makes LoadsAreShared inductive.
VacantHasCredit == \A k \in Keys : value[k] = "vacant" => loads[k] <= vacated[k]

IInv == TypeOK /\ LoadsAreShared /\ VacantHasCredit

Places == {"idle", "leading", "waiting", "loading", "spinning", "reloading"}

\* Where the tasks are, as TypeOK has it.
Placed ==
    /\ at \in [Tasks -> Places]
    /\ key \in [Tasks -> Keys \cup {None}]
    /\ \A t \in Tasks : at[t] = "idle" <=> key[t] = None

LEMMA TypesPlaced ==
    /\ TypeOK => Placed
    /\ TypeOK' <=> /\ Placed'
                   /\ value' \in [Keys -> {"vacant", "waiting", "complete"}]
                   /\ vacated' \in [Keys -> 0..MaxVacated]
                   /\ lost' \in [Keys -> BOOLEAN]
                   /\ loads' \in [Keys -> 0..(MaxVacated + 1)]
                   /\ given_up' \in [Keys -> BOOLEAN]
BY DEF TypeOK, Placed, Places

LEMMA CallsPlaced ==
    ASSUME Placed, NEW t \in Tasks
    PROVE  /\ \A k \in Keys, place \in Places \ {"idle"} :
                  GoOn(t, k, place) =>
                      /\ Placed' /\ at'[t] = place /\ key'[t] = k
                      /\ \A u \in Tasks \ {t} : at'[u] = at[u] /\ key'[u] = key[u]
           /\ Leave(t) =>
                  /\ Placed' /\ at'[t] = "idle" /\ key'[t] = None
                  /\ \A u \in Tasks \ {t} : at'[u] = at[u] /\ key'[u] = key[u]
           /\ \A place \in Places \ {"idle"} :
                  Go(t, place) /\ at[t] # "idle" /\ key' = key =>
                      /\ Placed' /\ at'[t] = place
                      /\ \A u \in Tasks \ {t} : at'[u] = at[u]
<1>1. None \notin Keys
    BY NoneAssumption
<1> QED BY <1>1 DEF Placed, Places, GoOn, Leave, Go

\* What taking part in a load at a key does, whoever does it.
LEMMA JoinKeeps ==
    ASSUME IInv,
           NEW t \in Tasks, NEW k \in Keys,
           NEW led \in {"leading", "loading"}, NEW joined \in {"waiting", "spinning"},
           Join(t, k, led, joined), UNCHANGED <<vacated, lost, given_up>>
    PROVE  IInv'
<1>1. Placed'
    <2>1. Placed /\ led \in Places \ {"idle"} /\ joined \in Places \ {"idle"}
        BY TypesPlaced DEF IInv, Places
    <2> QED BY <2>1, CallsPlaced DEF Join
<1>2. CASE value[k] = "vacant"
    <2>1. value' = [value EXCEPT ![k] = "waiting"]
        BY <1>2 DEF Join, SetValue
    <2>2. loads' = [loads EXCEPT ![k] = loads[k] + 1]
        BY <1>2 DEF Join
    <2>3. loads[k] <= vacated[k] /\ vacated[k] <= MaxVacated
        BY <1>2, WorkersAssumption DEF IInv, VacantHasCredit, TypeOK
    <2>4. /\ value' \in [Keys -> {"vacant", "waiting", "complete"}]
          /\ loads' \in [Keys -> 0..(MaxVacated + 1)]
        BY <2>1, <2>2, <2>3, WorkersAssumption DEF IInv, TypeOK
    <2>5. TypeOK'
        BY <1>1, <2>4, TypesPlaced DEF IInv, TypeOK
    <2>6. LoadsAreShared'
        BY <2>2, <2>3, WorkersAssumption DEF IInv, TypeOK, LoadsAreShared
    <2>7. VacantHasCredit'
        BY <2>1, <2>2 DEF IInv, TypeOK, VacantHasCredit
    <2> QED BY <2>5, <2>6, <2>7 DEF IInv
<1>3. CASE value[k] # "vacant"
    <2>1. UNCHANGED <<value, loads, vacated>>
        BY <1>3 DEF Join, SetValue
    <2>2. TypeOK'
        BY <1>1, <2>1, TypesPlaced DEF IInv, TypeOK
    <2> QED BY <2>1, <2>2 DEF IInv, LoadsAreShared, VacantHasCredit
<1> QED BY <1>2, <1>3

\* Steps that give no key away and take on no load.
LEMMA QuietKeeps ==
    ASSUME IInv, UNCHANGED <<vacated, lost, loads>>, Placed',
           given_up' \in [Keys -> BOOLEAN],
           value' = value \/ \E k \in Keys, v \in {"waiting", "complete"} :
                                value' = [value EXCEPT ![k] = v]
    PROVE  IInv'
<1>1. TypeOK'
    BY TypesPlaced DEF IInv, TypeOK
<1>2. \A k \in Keys : value'[k] = "vacant" => value[k] = "vacant"
    BY DEF IInv, TypeOK
<1> QED BY <1>1, <1>2 DEF IInv, LoadsAreShared, VacantHasCredit

LEMMA VacateKeeps ==
    ASSUME IInv, NEW k \in Keys, Vacate(k)
    PROVE  IInv'
<1>1. /\ vacated' = [vacated EXCEPT ![k] = vacated[k] + 1]
      /\ vacated[k] < MaxVacated
      /\ value' = [value EXCEPT ![k] = "vacant"]
      /\ UNCHANGED <<at, key, loads, given_up>>
    BY DEF Vacate, SetValue
<1>2. lost' \in [Keys -> BOOLEAN]
    <2> DEFINE now == \/ lost[k]
                      \/ /\ value[k] = "complete"
                         /\ \E t \in Tasks : key[t] = k /\ Busy(t)
    <2>1. lost' = [lost EXCEPT ![k] = now]
        BY DEF Vacate
    <2>2. now \in BOOLEAN
        OBVIOUS
    <2> HIDE DEF now
    <2> QED BY <2>1, <2>2 DEF IInv, TypeOK
<1>3. TypeOK'
    <2>1. Placed'
        BY <1>1, TypesPlaced DEF Placed, IInv
    <2>2. vacated' \in [Keys -> 0..MaxVacated]
        BY <1>1, WorkersAssumption DEF IInv, TypeOK
    <2>3. value' \in [Keys -> {"vacant", "waiting", "complete"}]
        BY <1>1 DEF IInv, TypeOK
    <2> QED BY <1>1, <1>2, <2>1, <2>2, <2>3, TypesPlaced DEF IInv, TypeOK
<1>4. LoadsAreShared'
    BY <1>1, WorkersAssumption DEF IInv, TypeOK, LoadsAreShared
<1>5. VacantHasCredit'
    BY <1>1, WorkersAssumption DEF IInv, TypeOK, LoadsAreShared, VacantHasCredit
<1> QED BY <1>3, <1>4, <1>5 DEF IInv

\* What the steps of a task do to where it is.
LEMMA TaskPlaced ==
    ASSUME Placed, NEW t \in Tasks,
           Poll(t) \/ FinishLoad(t) \/ PendLoad(t) \/ Spin(t) \/ Drop(t)
    PROVE  Placed' /\ key[t] \in Keys
<1>1. at[t] # "idle" /\ key[t] \in Keys
    BY DEF Placed, Poll, FinishLoad, PendLoad, Spin, Drop
<1>2. {"loading", "spinning", "reloading"} \subseteq Places \ {"idle"}
    BY DEF Places
<1> QED BY <1>1, <1>2, CallsPlaced DEF Poll, FinishLoad, PendLoad, Spin, Drop

LEMMA Inductive == Init /\ [][Next]_vars => []IInv
<1>1. Init => IInv
    BY WorkersAssumption DEF Init, IInv, TypeOK, LoadsAreShared, VacantHasCredit
<1>2. IInv /\ [Next]_vars => IInv'
    <2> SUFFICES ASSUME IInv, [Next]_vars PROVE IInv'
        OBVIOUS
    <2>1. ASSUME NEW t \in Tasks, NEW k \in Keys, Load(t, k) PROVE IInv'
        BY <2>1, JoinKeeps DEF Load
    <2>2. ASSUME NEW t \in Tasks, Reload(t) PROVE IInv'
        <3>1. key[t] \in Keys
            BY <2>2 DEF Reload, IInv, TypeOK
        <3> QED BY <2>2, <3>1, JoinKeeps DEF Reload
    <2>3. ASSUME NEW t \in Tasks,
                 Poll(t) \/ FinishLoad(t) \/ PendLoad(t) \/ Spin(t) \/ Drop(t)
          PROVE  IInv'
        <3>1. Placed' /\ key[t] \in Keys
            BY <2>3, TaskPlaced, TypesPlaced DEF IInv
        <3>2. given_up' \in [Keys -> BOOLEAN]
            BY <2>3 DEF Poll, FinishLoad, PendLoad, Spin, Drop, GiveUp, IInv, TypeOK
        <3>3. /\ UNCHANGED <<vacated, lost, loads>>
              /\ value' = value \/ \E k \in Keys, v \in {"waiting", "complete"} :
                                      value' = [value EXCEPT ![k] = v]
            BY <2>3, <3>1 DEF Poll, FinishLoad, PendLoad, Spin, Drop, SetValue
        <3> QED BY <3>1, <3>2, <3>3, QuietKeeps
    <2>4. ASSUME NEW k \in Keys, Insert(k) PROVE IInv'
        <3>1. Placed'
            BY <2>4, TypesPlaced DEF Insert, Placed, IInv
        <3> QED BY <2>4, <3>1, QuietKeeps DEF Insert, SetValue, IInv, TypeOK
    <2>5. CASE UNCHANGED vars
        BY <2>5 DEF vars, IInv, TypeOK, LoadsAreShared, VacantHasCredit
    <2> QED BY <2>1, <2>2, <2>3, <2>4, <2>5, VacateKeeps DEF Next, TaskStep
<1> QED BY <1>1, <1>2, PTL

\* The state keeps its shape, and the number of loads its bound.
THEOREM TypeCorrect == Spec => []TypeOK
<1>1. IInv => TypeOK
    BY DEF IInv
<1> QED BY <1>1, Inductive, PTL DEF Spec

\* A key is loaded once, and at most once more for every time it was lost,
\* whatever is dropped, inserted, evicted or started over.
THEOREM SharedLoads == Spec => []LoadsAreShared
<1>1. IInv => LoadsAreShared
    BY DEF IInv
<1> QED BY <1>1, Inductive, PTL DEF Spec

-----------------------------------------------------------------------------
\* A key that is vacant and was never lost has not been loaded yet, so nobody
\* waits for it; this is what makes OneLoader inductive.
NeverTouched ==
    \A k \in Keys : value[k] = "vacant" /\ vacated[k] = 0 => \A t \in Tasks : key[t] # k

OneLoader ==
    \A k \in Keys : value[k] = "waiting" /\ vacated[k] = 0 /\ ~given_up[k]
                      => \E t \in Tasks : Loaders(k) = {t}

\* Not only a Waiting value but whoever is in a call has a loader, also after the
\* Waiting value was evicted, for the waiter that finds the key vacant then puts
\* a Waiting value of its own.
BusyHaveLoader ==
    \A k \in Keys :
        ~lost[k] /\ ~given_up[k] /\ value[k] # "complete" =>
            ((value[k] = "waiting" \/ \E t \in Tasks : key[t] = k) => Loaders(k) # {})

LInv == IInv /\ NeverTouched /\ OneLoader /\ BusyHaveLoader

\* Whoever comes upon a key first leads; whoever comes later does not.
LEMMA JoinLeads ==
    ASSUME LInv, IInv',
           NEW t \in Tasks, NEW k \in Keys,
           NEW led \in {"leading", "loading"}, NEW joined \in {"waiting", "spinning"},
           Join(t, k, led, joined), UNCHANGED <<vacated, lost, given_up>>,
           \/ at[t] = "idle"
           \/ at[t] = "reloading" /\ key[t] = k
    PROVE  LInv'
<1>1. Placed /\ None \notin Keys /\ value = [j \in Keys |-> value[j]]
    BY TypesPlaced, NoneAssumption DEF LInv, IInv, TypeOK
<1>2. /\ \A j \in Keys : t \notin Loaders(j)
      /\ \A j \in Keys : j # k => key[t] # j
      /\ led \in Places \ {"idle"} /\ joined \in Places \ {"idle"}
    BY <1>1 DEF Loaders, Placed, Places
<1>3. CASE value[k] = "vacant"
    <2>1. value' = [value EXCEPT ![k] = "waiting"] /\ GoOn(t, k, led)
        BY <1>3 DEF Join, SetValue
    <2>2. /\ at'[t] = led /\ key'[t] = k
          /\ \A u \in Tasks \ {t} : at'[u] = at[u] /\ key'[u] = key[u]
        BY <1>1, <1>2, <2>1, CallsPlaced
    <2>3. \A j \in Keys : Loaders(j)' = IF j = k THEN Loaders(j) \cup {t} ELSE Loaders(j)
        BY <1>1, <1>2, <2>2 DEF Loaders
    <2>4. vacated[k] = 0 => Loaders(k) = {}
        BY <1>3 DEF LInv, NeverTouched, Loaders
    <2>5. OneLoader'
        BY <1>1, <2>1, <2>3, <2>4 DEF LInv, OneLoader
    <2>6. NeverTouched'
        BY <1>1, <1>2, <2>1, <2>2 DEF LInv, NeverTouched
    <2>7. ASSUME NEW j \in Keys, ~lost[j], ~given_up[j], value'[j] # "complete",
                 value'[j] = "waiting" \/ \E u \in Tasks : key'[u] = j
          PROVE  Loaders(j)' # {}
        <3>1. CASE j = k
            BY <2>3, <3>1
        <3>2. CASE j # k
            BY <1>1, <2>1, <2>2, <2>3, <2>7, <3>2 DEF LInv, BusyHaveLoader
        <3> QED BY <3>1, <3>2
    <2>8. BusyHaveLoader'
        BY <2>7 DEF BusyHaveLoader
    <2> QED BY <2>5, <2>6, <2>8 DEF LInv
<1>4. CASE value[k] # "vacant"
    <2>1. /\ UNCHANGED value
          /\ \/ value[k] = "waiting" /\ GoOn(t, k, joined)
             \/ value[k] = "complete" /\ Leave(t)
        BY <1>4 DEF Join, SetValue
    <2>2. /\ \A u \in Tasks \ {t} : at'[u] = at[u] /\ key'[u] = key[u]
          /\ at'[t] \in {"idle", joined}
          /\ \A j \in Keys : key'[t] = j => j = k
        BY <1>1, <1>2, <2>1, CallsPlaced
    <2>3. \A j \in Keys : Loaders(j)' = Loaders(j)
        BY <1>2, <2>2 DEF Loaders
    <2>4. OneLoader'
        BY <2>1, <2>3 DEF LInv, OneLoader
    <2>5. NeverTouched'
        BY <1>4, <2>1, <2>2 DEF LInv, NeverTouched
    <2>6. BusyHaveLoader'
        BY <2>1, <2>2, <2>3 DEF LInv, BusyHaveLoader
    <2> QED BY <2>4, <2>5, <2>6 DEF LInv
<1> QED BY <1>3, <1>4

\* Steps by which nobody comes to a key, which take no loader away from a key that
\* is neither complete nor given up, and put a Waiting value only where somebody
\* is in a call.
LEMMA SteadyLeads ==
    ASSUME LInv, IInv', UNCHANGED <<vacated, lost>>,
           \A k \in Keys : given_up[k] => given_up'[k],
           \A t \in Tasks, k \in Keys : key'[t] = k => key[t] = k,
           \A k \in Keys : value'[k] = "vacant" => value[k] = "vacant",
           \A k \in Keys : value'[k] = "waiting" =>
               value[k] = "waiting" \/ (value[k] = "vacant" /\ \E t \in Tasks : key[t] = k),
           \A k \in Keys : value'[k] # "complete" /\ ~given_up'[k] => Loaders(k)' = Loaders(k)
    PROVE  LInv'
<1>1. /\ \A k \in Keys : value'[k] \in {"vacant", "waiting", "complete"}
      /\ \A k \in Keys : value'[k] # "complete" => value[k] # "complete"
    BY DEF LInv, IInv, TypeOK
<1>2. NeverTouched'
    BY DEF LInv, NeverTouched
<1>3. OneLoader'
    BY DEF LInv, OneLoader, NeverTouched
<1>4. BusyHaveLoader'
    BY <1>1 DEF LInv, BusyHaveLoader
<1> QED BY <1>2, <1>3, <1>4 DEF LInv

LEMMA VacateLeads ==
    ASSUME LInv, IInv', NEW k \in Keys, Vacate(k)
    PROVE  LInv'
<1>1. /\ value = [j \in Keys |-> value[j]] /\ vacated \in [Keys -> Nat]
      /\ lost = [j \in Keys |-> lost[j]] /\ Placed /\ None \notin Keys
    BY WorkersAssumption, NoneAssumption, TypesPlaced DEF LInv, IInv, TypeOK
<1>2. /\ value' = [value EXCEPT ![k] = "vacant"]
      /\ vacated' = [vacated EXCEPT ![k] = vacated[k] + 1]
      /\ UNCHANGED <<at, key, given_up>>
    BY DEF Vacate, SetValue
<1>3. vacated'[k] # 0 /\ \A j \in Keys : j # k => vacated'[j] = vacated[j]
    BY <1>1, <1>2
<1>4. \A j \in Keys : Loaders(j)' = Loaders(j)
    BY <1>2 DEF Loaders
<1>5. /\ \A j \in Keys : ~lost'[j] => ~lost[j]
      /\ ~lost'[k] /\ value[k] = "complete" => \A t \in Tasks : ~(key[t] = k /\ Busy(t))
    BY <1>1, Zenon DEF Vacate
<1>6. ~lost'[k] /\ value[k] = "complete" => \A t \in Tasks : key[t] # k
    BY <1>1, <1>5 DEF Placed, Busy
<1>7. NeverTouched'
    BY <1>1, <1>2, <1>3 DEF LInv, NeverTouched
<1>8. OneLoader'
    BY <1>1, <1>2, <1>3, <1>4 DEF LInv, OneLoader
<1>9. BusyHaveLoader'
    BY <1>1, <1>2, <1>4, <1>5, <1>6 DEF LInv, BusyHaveLoader
<1> QED BY <1>7, <1>8, <1>9 DEF LInv

LEMMA LeadStep == LInv /\ IInv' /\ [Next]_vars => LInv'
<1> SUFFICES ASSUME LInv, IInv', [Next]_vars PROVE LInv'
    OBVIOUS
<1>1. /\ Placed /\ None \notin Keys
      /\ value = [j \in Keys |-> value[j]] /\ given_up \in [Keys -> BOOLEAN]
    BY TypesPlaced, NoneAssumption DEF LInv, IInv, TypeOK
<1>2. ASSUME NEW t \in Tasks, NEW k \in Keys, Load(t, k) PROVE LInv'
    BY <1>2, JoinLeads DEF Load
<1>3. ASSUME NEW t \in Tasks, Reload(t) PROVE LInv'
    <2>1. key[t] \in Keys
        BY <1>1, <1>3 DEF Reload, Placed
    <2> QED BY <1>3, <2>1, JoinLeads DEF Reload
\* A task that goes elsewhere: who loads its key, and who loads the others.
<1>4. ASSUME NEW t \in Tasks, NEW place \in Places \ {"idle"},
             \/ Leave(t)
             \/ GoOn(t, key[t], place) /\ at[t] # "idle"
             \/ Go(t, place) /\ at[t] # "idle" /\ key' = key
      PROVE  /\ \A u \in Tasks, k \in Keys : key'[u] = k => key[u] = k
             /\ \A k \in Keys : k # key[t] => Loaders(k)' = Loaders(k)
             /\ /\ at[t] \notin {"leading", "loading"}
                /\ place \notin {"leading", "loading"} \/ Leave(t)
                => \A k \in Keys : Loaders(k)' = Loaders(k)
    <2>1. at[t] # "idle" => key[t] \in Keys
        BY <1>1 DEF Placed
    <2>2. /\ \A u \in Tasks \ {t} : at'[u] = at[u] /\ key'[u] = key[u]
          /\ \/ at'[t] = "idle" /\ key'[t] = None
             \/ at'[t] = place /\ key'[t] = key[t]
          /\ Leave(t) => at'[t] = "idle" /\ key'[t] = None
        BY <1>1, <1>4, <2>1, CallsPlaced
    <2> QED BY <1>1, <2>2 DEF Loaders
<1>5. {"loading", "spinning", "reloading"} \subseteq Places \ {"idle"}
    BY DEF Places
<1>6. ASSUME NEW t \in Tasks, Poll(t) PROVE LInv'
    <2>1. \A k \in Keys : Loaders(k)' = Loaders(k)
        BY <1>1, <1>6 DEF Poll, Go, Loaders, Placed
    <2> QED BY <1>6, <2>1, SteadyLeads DEF Poll
<1>7. ASSUME NEW t \in Tasks, FinishLoad(t) PROVE LInv'
    <2>1. /\ value' = [value EXCEPT ![key[t]] = "complete"] /\ Leave(t)
          /\ UNCHANGED <<vacated, lost, given_up>>
        BY <1>7 DEF FinishLoad, SetValue
    <2>2. /\ \A u \in Tasks, k \in Keys : key'[u] = k => key[u] = k
          /\ \A k \in Keys : k # key[t] => Loaders(k)' = Loaders(k)
        BY <1>4, <1>5, <2>1
    <2> QED BY <1>1, <2>1, <2>2, SteadyLeads
<1>8. ASSUME NEW t \in Tasks, PendLoad(t) PROVE LInv'
    <2>1. /\ given_up' = [given_up EXCEPT ![key[t]] = TRUE]
          /\ Go(t, "spinning") /\ at[t] # "idle"
          /\ UNCHANGED <<key, vacated, lost, value>>
        BY <1>8 DEF PendLoad, GiveUp
    <2>2. \A k \in Keys : k # key[t] => Loaders(k)' = Loaders(k)
        BY <1>4, <1>5, <2>1
    <2> QED BY <1>1, <2>1, <2>2, SteadyLeads
<1>9. ASSUME NEW t \in Tasks, Spin(t) PROVE LInv'
    <2>1. /\ at[t] = "spinning" /\ UNCHANGED <<vacated, lost, given_up>>
          /\ Leave(t) \/ GoOn(t, key[t], "reloading")
          /\ \/ UNCHANGED value
             \/ value[key[t]] = "vacant" /\ value' = [value EXCEPT ![key[t]] = "waiting"]
        BY <1>9 DEF Spin, SetValue
    <2>2. /\ \A u \in Tasks, k \in Keys : key'[u] = k => key[u] = k
          /\ \A k \in Keys : Loaders(k)' = Loaders(k)
        BY <1>4, <1>5, <2>1
    <2> QED BY <1>1, <2>1, <2>2, SteadyLeads
<1>10. ASSUME NEW t \in Tasks, Drop(t) PROVE LInv'
    <2>1. Leave(t) /\ UNCHANGED <<vacated, lost, value>>
        BY <1>10 DEF Drop
    <2>2. \/ at[t] = "leading" /\ given_up' = [given_up EXCEPT ![key[t]] = TRUE]
          \/ at[t] = "waiting" /\ UNCHANGED given_up
        BY <1>10 DEF Drop, GiveUp
    <2>3. /\ \A u \in Tasks, k \in Keys : key'[u] = k => key[u] = k
          /\ \A k \in Keys : k # key[t] => Loaders(k)' = Loaders(k)
          /\ at[t] = "waiting" => \A k \in Keys : Loaders(k)' = Loaders(k)
        BY <1>4, <1>5, <2>1
    <2> QED BY <1>1, <2>1, <2>2, <2>3, SteadyLeads
<1>11. ASSUME NEW k \in Keys, Insert(k) PROVE LInv'
    <2>1. \A j \in Keys : Loaders(j)' = Loaders(j)
        BY <1>11 DEF Insert, Loaders
    <2> QED BY <1>1, <1>11, <2>1, SteadyLeads DEF Insert, SetValue
<1>12. CASE UNCHANGED vars
    BY <1>12 DEF vars, LInv, NeverTouched, OneLoader, BusyHaveLoader, Loaders
<1> QED BY <1>2, <1>3, <1>6, <1>7, <1>8, <1>9, <1>10, <1>11, <1>12, VacateLeads
        DEF Next, TaskStep

\* A Waiting value has a task that will complete it unless a load of its key was
\* given up or a Complete value lost under a waiter, and exactly one if the key
\* was never lost, for any number of tasks and keys.
THEOREM WaitersHaveALoader == Spec => []WaitingHasLoader
<1>1. Init /\ IInv => LInv
    BY NoneAssumption DEF Init, LInv, NeverTouched, OneLoader, BusyHaveLoader
<1>2. LInv => WaitingHasLoader
    BY DEF LInv, OneLoader, BusyHaveLoader, WaitingHasLoader
<1> QED BY <1>1, <1>2, Inductive, LeadStep, PTL DEF Spec
=============================================================================
