-------------------------------- MODULE Multi --------------------------------
(***************************************************************************)
(* MultiLayer (layer/multi.rs): two layers side by side.  key_fn decides   *)
(* which of the two a new value goes to; the variant of the pointer's layer *)
(* value, V0 or V1, remembers it, and everything later goes by the variant. *)
(* key_fn is the user's and need not decide alike twice.  Each of the two   *)
(* evicts when it is full, or never does: that is the layer's kind.  An     *)
(* eviction by either layer takes its victim out of the cache's table.     *)
(***************************************************************************)
EXTENDS Naturals, FiniteSets

CONSTANTS Pointers, Capacity

ASSUME PointersAssumption == IsFiniteSet(Pointers)
ASSUME CapacityAssumption == Capacity \in Nat \ {0}

VARIABLES s,        \* the pointers each of the layers 0 and 1 knows
          variant,  \* the layer each pointer was written to (0 before)
          table,    \* the pointers in the cache
          evicts    \* whether each of the layers evicts when it is full

vars == <<s, variant, table, evicts>>

Init ==
    /\ evicts \in [{0, 1} -> BOOLEAN]
    /\ s = [i \in {0, 1} |-> {}]
    /\ variant = [p \in Pointers |-> 0]
    /\ table = {}

\* Mutation: a layer is full when it knows more pointers than its capacity.
VictimsLate(i) ==
    IF evicts[i] /\ Cardinality(s[i]) > Capacity THEN {{v} : v \in s[i]} ELSE {{}}

\* What layer i may give up before it admits one more pointer.
Victims(i) ==
    IF evicts[i] /\ Cardinality(s[i]) = Capacity THEN {{v} : v \in s[i]} ELSE {{}}

\* Mutation: the other layer is asked to make room.
WriteCrossed(p, i) ==
    /\ p \notin table
    /\ variant' = [variant EXCEPT ![p] = i]
    /\ \E out \in Victims(1 - i) :
          /\ s' = [s EXCEPT ![i] = (@ \ out) \cup {p}]
          /\ table' = (table \ out) \cup {p}
    /\ UNCHANGED evicts

\* Shard::write, where key_fn says i.
Write(p, i) ==
    /\ p \notin table
    /\ variant' = [variant EXCEPT ![p] = i]
    /\ \E out \in Victims(i) :
          /\ s' = [s EXCEPT ![i] = (@ \ out) \cup {p}]
          /\ table' = (table \ out) \cup {p}
    /\ UNCHANGED evicts

\* Mutation: key_fn is asked again, and may decide otherwise.
RemoveByKeyFn(p) ==
    /\ p \in table
    /\ \E i \in {0, 1} : s' = [s EXCEPT ![i] = @ \ {p}]
    /\ table' = table \ {p}
    /\ UNCHANGED <<variant, evicts>>

\* Shard::remove
Remove(p) ==
    /\ p \in table
    /\ s' = [s EXCEPT ![variant[p]] = @ \ {p}]
    /\ table' = table \ {p}
    /\ UNCHANGED <<variant, evicts>>

Next == \E p \in Pointers : Remove(p) \/ \E i \in {0, 1} : Write(p, i)

Spec == Init /\ [][Next]_vars

-----------------------------------------------------------------------------
\* The two layers share out the table between them, each pointer with the layer
\* its variant names: Resolve0 and Resolve1 never meet the other variant
\* (their unreachable!), and no layer evicts what is not in the table.
SharedOut ==
    /\ table \subseteq Pointers
    /\ variant \in [Pointers -> {0, 1}]
    /\ s = [i \in {0, 1} |-> {p \in table : variant[p] = i}]

\* Each of the two sees the life of a layer, whatever the other does: it is
\* asked to remove only pointers it knows and gives one up only when it is full
\* itself.  A layer that never evicts is one whose capacity is never reached.
Layer0 == INSTANCE EvictingLayer WITH members <- s[0]
Layer1 == INSTANCE EvictingLayer WITH members <- s[1]
Never == Cardinality(Pointers) + 1
Roomy0 == INSTANCE EvictingLayer WITH members <- s[0], Capacity <- Never
Roomy1 == INSTANCE EvictingLayer WITH members <- s[1], Capacity <- Never
EachIsALayer ==
    /\ Layer0!Init /\ [][IF evicts[0] THEN Layer0!Next ELSE Roomy0!Next]_(s[0])
    /\ Layer1!Init /\ [][IF evicts[1] THEN Layer1!Next ELSE Roomy1!Next]_(s[1])
=============================================================================
