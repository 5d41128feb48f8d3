------------------------------- MODULE MCDedup -------------------------------
EXTENDS Dedup

CONSTANTS t1, t2, t3, ka, kb
MCTasks2 == {t1, t2}
MCTasks3 == {t1, t2, t3}
MCKeys1 == {ka}
MCKeys2 == {ka, kb}
=============================================================================
