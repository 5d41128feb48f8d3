---------------------------- MODULE EvictingLayer ----------------------------
(***************************************************************************)
(* What an evicting layer of a shard promises to the table it serves: the  *)
(* contract of trait Shard (layer.rs) as the eviction layers use it.  The  *)
(* layer knows a set of pointers.  A write adds one pointer and, when the  *)
(* layer is full, first gives up exactly one other; a remove forgets a     *)
(* pointer the layer knows.  Which member is given up is left open.        *)
(***************************************************************************)
EXTENDS Naturals, FiniteSets

CONSTANTS Pointers,   \* the pointers (Arc allocations) that may be written
          Capacity    \* the capacity given to Layer::new_shard

VARIABLE members

\* Shard::write: the Write handed in by the cache drops the victim from the
\* table and builds the pointer that goes in.
Write(p) ==
    /\ p \notin members
    /\ IF Cardinality(members) = Capacity
       THEN \E victim \in members : members' = (members \ {victim}) \cup {p}
       ELSE members' = members \cup {p}

\* Shard::remove
Remove(p) ==
    /\ p \in members
    /\ members' = members \ {p}

Init == members = {}

Next == \E p \in Pointers : Write(p) \/ Remove(p)

Spec == Init /\ [][Next]_members
=============================================================================
