------------------------------- MODULE MCIter -------------------------------
EXTENDS Iter, TLC

CONSTANTS t1, t2, a1, b1, ka, kb
MCThreads == {t1, t2}
MCKeys == {ka, kb}
MCPointers == {a1, b1}
MCKeyOf == a1 :> ka @@ b1 :> kb
MCSlots == {0, 1, 2}
=============================================================================
