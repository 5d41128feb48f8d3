------------------------------ MODULE MCAndThen ------------------------------
(***************************************************************************)
(* AndThen with the first layer the smaller, so that only the first evicts  *)
(* and the second learns of it late, and with both of one capacity, so that *)
(* both are full and the second evicts first.                              *)
(***************************************************************************)
EXTENDS AndThen

CONSTANTS p1, p2, p3, p4, p5, p6, p7, p8, p9
MCPointers == {p1, p2, p3, p4, p5, p6, p7, p8, p9}

VARIABLE alike   \* whether the layers have the same capacity

Alike == INSTANCE AndThen WITH CapacityB <- CapacityA

MCInit == Init /\ alike \in BOOLEAN

MCNext ==
    \/ ~alike /\ Next /\ UNCHANGED alike
    \/ alike /\ Alike!Next /\ UNCHANGED alike

MCSpec == MCInit /\ [][MCNext]_<<vars, alike>>
=============================================================================
