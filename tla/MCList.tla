------------------------------- MODULE MCList --------------------------------
EXTENDS List, TLC

CONSTANTS p1, p2, p3, p4
MCPointers == {p1, p2, p3, p4}
MCSymmetry == Permutations(MCPointers)
=============================================================================
