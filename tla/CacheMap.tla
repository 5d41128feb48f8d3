------------------------------- MODULE CacheMap ------------------------------
(***************************************************************************)
(* What the cache promises its callers (trait Cache, lib.rs): a bounded    *)
(* map from keys to pointers in which every operation takes effect at one  *)
(* instant.                                                                *)
(*                                                                         *)
(* answer[t] is what thread t last learned or did: the pointer it found,   *)
(* wrote or removed, None when its key was not there, Quiet between        *)
(* operations.  A put or a removal through an entry acts on the mapping    *)
(* that entry saw: nothing has changed it in between.                      *)
(***************************************************************************)
EXTENDS Naturals, FiniteSets

CONSTANTS Threads, Keys, Pointers, KeyOf, Capacity, None, Quiet

VARIABLES map,      \* the pointer each key maps to, or None
          stale,    \* the mapped pointers whose time is over
          answer

vars == <<map, stale, answer>>

Mapped(m) == {m[k] : k \in Keys} \ {None}

Init ==
    /\ map = [k \in Keys |-> None]
    /\ stale = {}
    /\ answer = [t \in Threads |-> Quiet]

\* A lookup (get, or the lookup that opens an entry) finds what is there and
\* not stale.  What it finds stale it may take out.
Found(t, k) ==
    /\ answer[t] = Quiet
    /\ map[k] # None /\ map[k] \notin stale
    /\ answer' = [answer EXCEPT ![t] = map[k]]
    /\ UNCHANGED <<map, stale>>

Missed(t, k) ==
    /\ answer[t] = Quiet
    /\ map[k] = None \/ map[k] \in stale
    /\ answer' = [answer EXCEPT ![t] = None]
    /\ map' \in {map, [map EXCEPT ![k] = None]}
    /\ stale' = stale \cap Mapped(map')

\* Insert or replace.  One other key, and no more, loses its mapping when the
\* cache is full without this key.
Put(t, k, p) ==
    /\ map[k] = answer[t]
    /\ KeyOf[p] = k /\ p \notin Mapped(map)
    /\ LET others == {l \in Keys \ {k} : map[l] # None}
       IN  \E out \in SUBSET others :
             /\ Cardinality(out) = IF Cardinality(others) = Capacity THEN 1 ELSE 0
             /\ map' = [l \in Keys |-> IF l = k THEN p
                                       ELSE IF l \in out THEN None ELSE map[l]]
    /\ stale' = stale \cap Mapped(map')
    /\ answer' = [answer EXCEPT ![t] = p]

Remove(t, k) ==
    /\ map[k] = answer[t] /\ map[k] # None
    /\ map' = [map EXCEPT ![k] = None]
    /\ stale' = stale \ {map[k]}
    /\ UNCHANGED answer

\* A stale mapping may be taken out at any time.
Expunge(k) ==
    /\ map[k] \in stale
    /\ map' = [map EXCEPT ![k] = None]
    /\ stale' = stale \ {map[k]}
    /\ UNCHANGED answer

Expire(p) ==
    /\ p \in Mapped(map)
    /\ stale' = stale \cup {p}
    /\ UNCHANGED <<map, answer>>

Forget(t) ==
    /\ answer' = [answer EXCEPT ![t] = Quiet]
    /\ UNCHANGED <<map, stale>>

Next ==
    \/ \E t \in Threads, k \in Keys :
          \/ Found(t, k) \/ Missed(t, k) \/ Remove(t, k)
          \/ \E p \in Pointers : Put(t, k, p)
    \/ \E k \in Keys : Expunge(k)
    \/ \E p \in Pointers : Expire(p)
    \/ \E t \in Threads : Forget(t)

Spec == Init /\ [][Next]_vars
=============================================================================
