---------------------------- MODULE ExpiryProofs ----------------------------
(***************************************************************************)
(* Proofs about Expiry: for any pointers, readers, deadlines and width of  *)
(* the offset, as long as no deadline is a whole width from the start.     *)
(***************************************************************************)
EXTENDS Expiry, TLAPS

LEMMA Small ==
    ASSUME NEW n \in Int, 0 <= n, n < Limit
    PROVE  n % Limit = n
  BY ClockAssumption

\* An instant some layer may set, and what becomes of it.
Reachable(i) == \E e \in Ends : i - e \in Start..MaxClock

LEMMA OffsetExact ==
    ASSUME NEW i \in Int, Reachable(i), NEW z \in Int, Start <= z
    PROVE  Offset(i, z) = IF i < z THEN 0 ELSE i - z
  <1>1. PICK e \in Ends : i - e \in Start..MaxClock
    BY DEF Reachable
  <1>2. e \in Int /\ MaxClock + e - Start < Limit
    BY <1>1, EndsAssumption, UptimeAssumption
  <1>3. i - z < Limit
    BY <1>1, <1>2, ClockAssumption
  <1>4. CASE i < z
    <2>1. 0 % Limit = 0
      BY Small, ClockAssumption
    <2>2. QED
      BY <1>4, <2>1 DEF Offset
  <1>5. CASE ~(i < z)
    <2>1. (i - z) % Limit = i - z
      BY <1>3, <1>5, Small, ClockAssumption
    <2>2. QED
      BY <1>5, <2>1 DEF Offset
  <1>6. QED
    BY <1>4, <1>5

\* What is stored for a pointer is the distance from the start of the count.
Stored(p) ==
    /\ Reachable(deadline[p])
    /\ renews => /\ zero # None
                 /\ offset[p] = IF deadline[p] < zero THEN 0 ELSE deadline[p] - zero

\* A read is of a live pointer, and took the time after the count began.
Timed(r) ==
    op[r].at = "timed" => /\ op[r].ptr \in live /\ op[r].now \in Start..clock
                          /\ renews => zero # None /\ zero <= op[r].now

IInv ==
    /\ TypeOK
    /\ \A p \in live : Stored(p)
    /\ \A r \in Readers : Timed(r)
    /\ VerdictsRight
    /\ CondemnedHaveATaker
    /\ writing # None => Shared = {}

LEMMA InvReads == IInv => DeadlinesExact
  <1> SUFFICES ASSUME IInv, NEW p \in live
               PROVE  Kept(p) = IF renews /\ deadline[p] < zero THEN zero ELSE deadline[p]
    BY DEF DeadlinesExact
  <1>1. /\ p \in Pointers /\ deadline[p] \in Int /\ Stored(p)
        /\ zero # None => zero \in Int
    BY ClockAssumption DEF IInv, TypeOK
  <1>2. CASE renews
    <2>1. zero \in Int /\ offset[p] = IF deadline[p] < zero THEN 0 ELSE deadline[p] - zero
      BY <1>1, <1>2 DEF Stored
    <2>2. QED
      BY <1>1, <1>2, <2>1 DEF Kept, Instant
  <1>3. CASE ~renews
    BY <1>3 DEF Kept
  <1>4. QED
    BY <1>2, <1>3

LEMMA InitInv == Init => IInv
  BY ClockAssumption, NoneAssumption
     DEF Init, IInv, TypeOK, Timed, VerdictsRight, CondemnedHaveATaker, Idle, Op

\* Time passes, or another cache sets the start of the count.
LEMMA ClockKeeps ==
    ASSUME IInv,
           UNCHANGED <<renews, live, offset, deadline, condemned, writing, op, stale>>,
           \/ clock < MaxClock /\ clock' = clock + 1 /\ zero' = zero
           \/ zero = None /\ zero' = clock /\ clock' = clock
    PROVE  IInv'
  <1>1. TypeOK'
    BY ClockAssumption, NoneAssumption DEF IInv, TypeOK
  <1>2. zero # None => zero' = zero
    OBVIOUS
  <1>3. \A p \in live' : Stored(p)'
    BY <1>2, ClockAssumption, NoneAssumption DEF IInv, TypeOK, Stored, Reachable
  <1>4. \A r \in Readers : Timed(r)'
    BY <1>1, <1>2, ClockAssumption, NoneAssumption DEF IInv, TypeOK, Timed
  <1>5. QED
    BY <1>1, <1>3, <1>4
       DEF IInv, VerdictsRight, CondemnedHaveATaker, Shared

LEMMA WriteKeeps ==
    ASSUME IInv, BeginWrite \/ \E p \in Pointers : EndWrite(p)
    PROVE  IInv'
  <1>1. CASE BeginWrite
    <2>1. TypeOK'
      BY <1>1, ClockAssumption, NoneAssumption DEF IInv, TypeOK, BeginWrite
    <2>2. QED
      BY <1>1, <2>1 DEF BeginWrite, IInv, Stored, Reachable, Timed, VerdictsRight,
                        CondemnedHaveATaker, Shared
  <1>2. ASSUME NEW p \in Pointers, EndWrite(p) PROVE IInv'
    <2>1. PICK e \in Ends :
            /\ deadline' = [deadline EXCEPT ![p] = writing + e]
            /\ IF renews
               THEN /\ zero' = ZeroNow
                    /\ offset' = [offset EXCEPT ![p] = Offset(writing + e, ZeroNow)]
               ELSE UNCHANGED <<zero, offset>>
      BY <1>2 DEF EndWrite
    <2>2. /\ writing \in Start..clock /\ writing # None /\ e \in Int /\ clock \in Start..MaxClock
          /\ live' = live \cup {p} /\ writing' = None
          /\ UNCHANGED <<clock, renews, condemned, op, stale>>
          /\ p \notin live /\ \A r \in Readers : op[r].ptr # p
      BY <1>2, EndsAssumption DEF EndWrite, Fresh, IInv, TypeOK
    <2>3. writing + e \in Int /\ Reachable(writing + e)
      BY <2>2, ClockAssumption DEF Reachable
    <2>4. /\ ZeroNow \in Start..clock /\ ZeroNow \in Int /\ Start <= ZeroNow
          /\ ZeroNow # None /\ (zero # None => ZeroNow = zero)
      BY <2>2, ClockAssumption, NoneAssumption DEF ZeroNow, IInv, TypeOK
    <2>5. /\ Offset(writing + e, ZeroNow)
               = IF writing + e < ZeroNow THEN 0 ELSE writing + e - ZeroNow
          /\ Offset(writing + e, ZeroNow) \in Nat
      <3> DEFINE i == writing + e
                 z == ZeroNow
      <3>1. i \in Int /\ z \in Int /\ Reachable(i) /\ Start <= z
        BY <2>3, <2>4
      <3> HIDE DEF i, z
      <3>2. Offset(i, z) = IF i < z THEN 0 ELSE i - z
        BY <3>1, OffsetExact
      <3>3. Offset(i, z) \in Nat
        BY <3>1, <3>2
      <3>4. QED
        BY <2>2, <2>4, <3>2, <3>3, ClockAssumption DEF i, z
    <2>6. /\ deadline' \in [Pointers -> Int] /\ offset' \in [Pointers -> Nat]
          /\ zero' \in Start..clock \cup {None}
      BY <2>1, <2>2, <2>3, <2>4, <2>5 DEF IInv, TypeOK
    <2>7. TypeOK'
      BY <2>2, <2>6 DEF IInv, TypeOK
    <2>8. Stored(p)'
      <3>1. deadline'[p] = writing + e
        BY <2>1 DEF IInv, TypeOK
      <3>2. renews => zero' = ZeroNow /\ offset'[p] = Offset(writing + e, ZeroNow)
        BY <2>1 DEF IInv, TypeOK
      <3>3. QED
        BY <2>2, <2>3, <2>4, <2>5, <3>1, <3>2 DEF Stored, Reachable
    <2>9. ASSUME NEW q \in live PROVE Stored(q)'
      <3>1. q \in Pointers /\ q # p /\ Stored(q)
        BY <2>2 DEF IInv, TypeOK
      <3>2. deadline'[q] = deadline[q] /\ offset'[q] = offset[q]
        BY <2>1, <3>1 DEF IInv, TypeOK
      <3>3. renews => zero' = zero
        BY <2>1, <2>4, <3>1 DEF Stored
      <3>4. QED
        BY <2>2, <3>1, <3>2, <3>3 DEF Stored, Reachable
    <2>10. \A r \in Readers : Timed(r)'
      BY <2>1, <2>2, <2>4 DEF IInv, Timed
    <2>11. QED
      BY <2>2, <2>7, <2>8, <2>9, <2>10 DEF IInv, VerdictsRight, CondemnedHaveATaker, Shared
  <1>3. QED
    BY <1>1, <1>2

LEMMA RemoveKeeps ==
    ASSUME IInv, NEW p \in Pointers, Remove(p)
    PROVE  IInv'
  <1>1. /\ live' = live \ {p} /\ condemned' = condemned \ {p} /\ Shared = {}
        /\ UNCHANGED <<clock, zero, renews, offset, deadline, writing, op, stale>>
    BY DEF Remove
  <1>2. TypeOK'
    BY <1>1 DEF IInv, TypeOK
  <1>3. \A q \in live' : Stored(q)'
    BY <1>1 DEF IInv, Stored, Reachable
  <1>4. \A r \in Readers : Timed(r)'
    BY <1>1 DEF Shared, Timed
  <1>5. QED
    BY <1>1, <1>2, <1>3, <1>4 DEF IInv, VerdictsRight, CondemnedHaveATaker, Shared

\* What a step of one reader leaves of the other readers.
LEMMA OneReader ==
    ASSUME IInv, NEW r \in Readers, NEW o, Continue(r, o)
    PROVE  op'[r] = o /\ \A s \in Readers : s # r => op'[s] = op[s]
  BY DEF IInv, TypeOK, Continue

\* Pointers move to other buckets, and those who mean to remove them are stale.
LEMMA RehashKeeps ==
    ASSUME IInv, NEW moved \in SUBSET live, Rehash(moved)
    PROVE  IInv'
  <1>1. /\ UNCHANGED <<clock, zero, renews, live, offset, deadline, writing, op>>
        /\ condemned' = condemned \ moved
        /\ stale' = stale \cup {r \in Readers : op[r].at = "condemning" /\ op[r].ptr \in moved}
    BY DEF Rehash
  <1>2. TypeOK'
    BY <1>1 DEF IInv, TypeOK
  <1>3. (\A p \in live' : Stored(p)') /\ (\A r \in Readers : Timed(r)')
    BY <1>1 DEF IInv, Stored, Reachable, Timed
  <1>4. VerdictsRight' /\ (writing # None => Shared = {})'
    BY <1>1 DEF IInv, VerdictsRight, Shared
  <1>5. CondemnedHaveATaker'
    BY <1>1 DEF IInv, CondemnedHaveATaker
  <1>6. QED
    BY <1>2, <1>3, <1>4, <1>5 DEF IInv

LEMMA TakeTimeKeeps ==
    ASSUME IInv, NEW r \in Readers, NEW p \in Pointers, TakeTime(r, p)
    PROVE  IInv'
  <1> DEFINE o == Op("timed", p, clock, 0)
  <1>1. /\ writing = None /\ op[r] = Idle /\ p \in live /\ Continue(r, o)
        /\ UNCHANGED <<clock, zero, renews, live, offset, deadline, condemned, writing, stale>>
    BY DEF TakeTime
  <1>2. op'[r] = o /\ \A s \in Readers : s # r => op'[s] = op[s]
    BY <1>1, OneReader
  <1>3. TypeOK'
    <2>1. o \in [at : {"idle", "timed", "condemning", "served"},
                 ptr : Pointers \cup {None}, now : Nat, old : Int]
      BY ClockAssumption DEF Op, IInv, TypeOK
    <2>2. op' \in [Readers -> [at : {"idle", "timed", "condemning", "served"},
                               ptr : Pointers \cup {None}, now : Nat, old : Int]]
      BY <1>1, <2>1 DEF IInv, TypeOK, Continue
    <2>3. r \notin stale
      BY <1>1 DEF IInv, TypeOK, Idle, Op
    <2>4. stale' \subseteq {x \in Readers : op'[x].at = "condemning"}
      BY <1>1, <1>2, <2>3 DEF IInv, TypeOK
    <2>5. QED
      BY <1>1, <2>2, <2>4 DEF IInv, TypeOK
  <1>4. \A q \in live' : Stored(q)'
    BY <1>1 DEF IInv, Stored, Reachable
  <1>5. Timed(r)'
    <2>1. renews => zero # None
      BY <1>1 DEF IInv, Stored
    <2>2. clock \in Start..clock /\ (zero # None => zero <= clock)
      BY ClockAssumption DEF IInv, TypeOK
    <2>3. QED
      BY <1>1, <1>2, <2>1, <2>2 DEF Timed, Op
  <1>6. \A s \in Readers : Timed(s)'
    BY <1>1, <1>2, <1>5 DEF IInv, Timed
  <1>7. VerdictsRight'
    BY <1>1, <1>2 DEF IInv, VerdictsRight, Op
  <1>8. CondemnedHaveATaker'
    BY <1>1, <1>2 DEF IInv, CondemnedHaveATaker, Idle, Op
  <1>9. QED
    BY <1>1, <1>3, <1>4, <1>6, <1>7, <1>8 DEF IInv

LEMMA SwapKeeps ==
    ASSUME IInv, NEW r \in Readers, Swap(r)
    PROVE  IInv'
  <1> DEFINE p == op[r].ptr
             now == op[r].now
             o(at) == Op(at, p, now, deadline[p])
  <1>1. PICK e \in Ends :
          /\ IF renews
             THEN /\ deadline' = [deadline EXCEPT ![p] = now + e]
                  /\ offset' = [offset EXCEPT ![p] = Offset(now + e, zero)]
             ELSE UNCHANGED <<deadline, offset>>
          /\ IF Kept(p) <= now
             THEN Continue(r, o("condemning")) /\ condemned' = condemned \cup {p}
             ELSE Continue(r, o("served")) /\ UNCHANGED condemned
    BY DEF Swap, Judge
  <1>2. /\ op[r].at = "timed"
        /\ UNCHANGED <<clock, zero, renews, live, writing, stale>>
    BY DEF Swap
  <1>3. /\ p \in live /\ p \in Pointers /\ now \in Start..clock /\ clock \in Start..MaxClock
        /\ renews => zero # None /\ zero <= now
        /\ zero # None => zero \in Int /\ Start <= zero
        /\ deadline[p] \in Int /\ e \in Int /\ now \in Int /\ now \in Nat
    BY <1>2, EndsAssumption, ClockAssumption DEF IInv, TypeOK, Timed
  <1>4. writing = None
    BY <1>2 DEF IInv, Shared
  <1>5. Kept(p) <= now <=> deadline[p] <= now
    <2>1. Kept(p) = IF renews /\ deadline[p] < zero THEN zero ELSE deadline[p]
      BY <1>3, InvReads DEF DeadlinesExact
    <2>2. QED
      BY <1>3, <2>1
  <1>6. \E at \in {"condemning", "served"} :
          /\ op'[r] = o(at) /\ (\A s \in Readers : s # r => op'[s] = op[s])
          /\ op' = [op EXCEPT ![r] = o(at)]
          /\ at = "condemning" => deadline[p] <= now /\ condemned' = condemned \cup {p}
          /\ at = "served" => deadline[p] > now /\ condemned' = condemned
    <2>1. CASE Kept(p) <= now
      <3>1. Continue(r, o("condemning")) /\ condemned' = condemned \cup {p}
        BY <1>1, <2>1
      <3>2. QED
        BY <1>5, <2>1, <3>1, OneReader DEF Continue
    <2>2. CASE ~(Kept(p) <= now)
      <3>1. Continue(r, o("served")) /\ UNCHANGED condemned
        BY <1>1, <2>2
      <3>2. deadline[p] > now
        BY <1>3, <1>5, <2>2
      <3>3. QED
        BY <3>1, <3>2, OneReader DEF Continue
    <2>3. QED
      BY <2>1, <2>2
  <1>7. PICK at \in {"condemning", "served"} :
          /\ op'[r] = o(at) /\ (\A s \in Readers : s # r => op'[s] = op[s])
          /\ op' = [op EXCEPT ![r] = o(at)]
          /\ at = "condemning" => deadline[p] <= now /\ condemned' = condemned \cup {p}
          /\ at = "served" => deadline[p] > now /\ condemned' = condemned
    BY <1>6
  <1>8. now + e \in Int /\ Reachable(now + e)
    BY <1>3, ClockAssumption DEF Reachable
  <1>9. renews => /\ Offset(now + e, zero) = IF now + e < zero THEN 0 ELSE now + e - zero
                  /\ Offset(now + e, zero) \in Nat
    BY <1>3, <1>8, OffsetExact
  <1>9a. r \notin stale
    BY <1>2 DEF IInv, TypeOK
  <1>10. TypeOK'
    <2>1. deadline' \in [Pointers -> Int] /\ offset' \in [Pointers -> Nat]
      BY <1>1, <1>3, <1>8, <1>9 DEF IInv, TypeOK
    <2>2. o(at) \in [at : {"idle", "timed", "condemning", "served"},
                     ptr : Pointers \cup {None}, now : Nat, old : Int]
      BY <1>3 DEF Op
    <2>3. op' \in [Readers -> [at : {"idle", "timed", "condemning", "served"},
                               ptr : Pointers \cup {None}, now : Nat, old : Int]]
      BY <1>7, <2>2 DEF IInv, TypeOK
    <2>4. condemned' \subseteq Pointers
      BY <1>3, <1>7 DEF IInv, TypeOK
    <2>5. stale' \subseteq {x \in Readers : op'[x].at = "condemning"}
      BY <1>2, <1>7, <1>9a DEF IInv, TypeOK
    <2>6. QED
      BY <1>2, <2>1, <2>3, <2>4, <2>5 DEF IInv, TypeOK
  <1>11. ASSUME NEW q \in live PROVE Stored(q)'
    <2>1. q \in Pointers /\ Stored(q)
      BY DEF IInv, TypeOK
    <2>2. CASE renews /\ q = p
      <3>1. deadline'[q] = now + e /\ offset'[q] = Offset(now + e, zero)
        BY <1>1, <2>1, <2>2 DEF IInv, TypeOK
      <3>2. QED
        BY <1>2, <1>3, <1>8, <1>9, <2>2, <3>1 DEF Stored, Reachable
    <2>3. CASE ~(renews /\ q = p)
      <3>1. deadline'[q] = deadline[q] /\ offset'[q] = offset[q]
        BY <1>1, <2>1, <2>3 DEF IInv, TypeOK
      <3>2. QED
        BY <1>2, <2>1, <3>1 DEF Stored, Reachable
    <2>4. QED
      BY <2>2, <2>3
  <1>12. \A s \in Readers : Timed(s)'
    BY <1>2, <1>7 DEF IInv, Timed, Op
  <1>13. VerdictsRight'
    BY <1>7 DEF IInv, VerdictsRight, Op
  <1>14. CondemnedHaveATaker'
    <2> SUFFICES ASSUME NEW q \in condemned'
                 PROVE  q \in live /\ \E s \in Readers \ stale : op'[s].at = "condemning"
                                                                 /\ op'[s].ptr = q
      BY <1>2 DEF CondemnedHaveATaker
    <2>1. CASE q \in condemned
      <3>1. PICK s \in Readers \ stale : op[s].at = "condemning" /\ op[s].ptr = q
        BY <2>1 DEF IInv, CondemnedHaveATaker
      <3>2. s # r
        BY <1>2, <3>1
      <3>3. q \in live
        BY <2>1 DEF IInv, CondemnedHaveATaker
      <3>4. QED
        BY <1>7, <3>1, <3>2, <3>3
    <2>2. CASE q \notin condemned
      <3>1. at = "condemning" /\ q = p
        BY <1>7, <2>2
      <3>2. QED
        BY <1>3, <1>7, <1>9a, <3>1 DEF Op
    <2>3. QED
      BY <2>1, <2>2
  <1>15. QED
    BY <1>2, <1>4, <1>10, <1>11, <1>12, <1>13, <1>14 DEF IInv

LEMMA LeaveKeeps ==
    ASSUME IInv, NEW r \in Readers, RemoveCondemned(r) \/ Return(r)
    PROVE  IInv'
  <1>1. /\ Continue(r, Idle) /\ op[r].at # "timed"
        /\ UNCHANGED <<clock, zero, renews, offset, deadline, writing>>
        /\ stale' = stale \ {r}
        /\ \/ /\ op[r].at = "condemning" /\ Shared = {}
              /\ \E gone \in Findable(r) : live' = live \ gone /\ condemned' = condemned \ gone
           \/ op[r].at = "served" /\ live' = live /\ condemned' = condemned
    BY DEF RemoveCondemned, Return, IInv, TypeOK
  <1>2. op'[r] = Idle /\ \A s \in Readers : s # r => op'[s] = op[s]
    BY <1>1, OneReader
  <1>2a. /\ live' \subseteq live /\ condemned' \subseteq condemned
         /\ condemned' \cap (live \ live') = {}
         /\ op[r].at = "condemning" /\ r \notin stale => op[r].ptr \notin condemned'
    BY <1>1 DEF Findable
  <1>3. TypeOK'
    <2>1. Idle \in [at : {"idle", "timed", "condemning", "served"},
                    ptr : Pointers \cup {None}, now : Nat, old : Int]
      BY DEF Idle, Op
    <2>2. op' \in [Readers -> [at : {"idle", "timed", "condemning", "served"},
                               ptr : Pointers \cup {None}, now : Nat, old : Int]]
      BY <1>1, <2>1 DEF IInv, TypeOK, Continue
    <2>3. live' \subseteq Pointers /\ condemned' \subseteq Pointers
      BY <1>2a DEF IInv, TypeOK
    <2>4. stale' \subseteq {x \in Readers : op'[x].at = "condemning"}
      BY <1>1, <1>2 DEF IInv, TypeOK
    <2>5. QED
      BY <1>1, <2>2, <2>3, <2>4 DEF IInv, TypeOK
  <1>4. \A q \in live' : Stored(q)'
    BY <1>1, <1>2a DEF IInv, Stored, Reachable
  <1>5. ASSUME NEW s \in Readers PROVE Timed(s)'
    <2>1. CASE s = r
      BY <1>2, <2>1 DEF Timed, Idle, Op
    <2>2. CASE s # r /\ op[s].at = "timed"
      <3>1. live' = live
        BY <1>1, <2>2 DEF Shared
      <3>2. QED
        BY <1>1, <1>2, <2>2, <3>1 DEF IInv, Timed
    <2>3. CASE s # r /\ op[s].at # "timed"
      BY <1>2, <2>3 DEF Timed
    <2>4. QED
      BY <2>1, <2>2, <2>3
  <1>6. VerdictsRight'
    BY <1>2 DEF IInv, VerdictsRight, Idle, Op
  <1>7. CondemnedHaveATaker'
    <2> SUFFICES ASSUME NEW q \in condemned'
                 PROVE  q \in live' /\ \E s \in Readers \ stale' : op'[s].at = "condemning"
                                                                   /\ op'[s].ptr = q
      BY DEF CondemnedHaveATaker
    <2>1. q \in condemned /\ (op[r].at = "condemning" /\ r \notin stale => q # op[r].ptr)
      BY <1>2a
    <2>2. PICK s \in Readers \ stale : op[s].at = "condemning" /\ op[s].ptr = q
      BY <2>1 DEF IInv, CondemnedHaveATaker
    <2>3. s # r /\ s \notin stale'
      BY <1>1, <2>1, <2>2
    <2>4. q \in live'
      BY <1>2a, <2>1 DEF IInv, CondemnedHaveATaker
    <2>5. QED
      BY <1>2, <2>2, <2>3, <2>4
  <1>8. writing # None => Shared' = {}
    BY <1>2 DEF IInv, Shared, Idle, Op
  <1>9. QED
    BY <1>1, <1>3, <1>4, <1>5, <1>6, <1>7, <1>8 DEF IInv

LEMMA Inductive == Spec => []IInv
  <1>1. IInv /\ [Next]_vars => IInv'
    <2> SUFFICES ASSUME IInv, [Next]_vars PROVE IInv'
      OBVIOUS
    <2>1. CASE Tick \/ OtherCache
      BY <2>1, ClockKeeps DEF Tick, OtherCache
    <2>2. CASE UNCHANGED vars
      BY <2>2 DEF vars, IInv, TypeOK, Stored, Reachable, Timed, VerdictsRight,
                  CondemnedHaveATaker, Shared
    <2>3. QED
      BY <2>1, <2>2, WriteKeeps, RemoveKeeps, RehashKeeps, TakeTimeKeeps, SwapKeeps,
         LeaveKeeps DEF Next
  <1>2. QED
    BY <1>1, InitInv, PTL DEF Spec

\* The state keeps its shape, and no time runs ahead of the clock.
THEOREM TypeCorrect == Spec => []TypeOK
  BY Inductive, PTL DEF IInv

\* The offsets an AtomicInstant keeps lose nothing that matters, whoever sets
\* the start of the count and when.
THEOREM DeadlinesReadBack == Spec => []DeadlinesExact
  BY Inductive, InvReads, PTL

\* Every read judges the deadline it replaced by the time it took itself.
THEOREM VerdictsAreRight == Spec => []VerdictsRight
  BY Inductive, PTL DEF IInv

\* Nothing that was judged over is forgotten while it stays in its bucket.
THEOREM CondemnedAreTaken == Spec => []CondemnedHaveATaker
  BY Inductive, PTL DEF IInv
=============================================================================
