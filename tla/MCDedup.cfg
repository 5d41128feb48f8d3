CONSTANTS
  t1 = t1
  t2 = t2
  t3 = t3
  ka = ka
  kb = kb
  None = None
  Tasks <- MCTasks3
  Keys <- MCKeys2
  Workers = 2
  LoadsPend = TRUE
  Drops = TRUE
  MaxVacated = 1
SPECIFICATION FairSpec
INVARIANTS TypeOK LoadsAreShared WaitingHasLoader
PROPERTY LoadAnswered
