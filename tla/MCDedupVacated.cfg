CONSTANTS
  t1 = t1
  t2 = t2
  t3 = t3
  ka = ka
  kb = kb
  None = None
  Tasks <- MCTasks2
  Keys <- MCKeys1
  Workers = 2
  LoadsPend = FALSE
  Drops = FALSE
  MaxVacated = 1
SPECIFICATION FairSpec
PROPERTY LoadReturns
