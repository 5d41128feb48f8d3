CONSTANTS
  t1 = t1
  t2 = t2
  a1 = a1
  b1 = b1
  ka = ka
  kb = kb
  None = None
  Threads <- MCThreads
  Keys <- MCKeys
  Pointers <- MCPointers
  KeyOf <- MCKeyOf
  Slots <- MCSlots
  GroupWidth = 4
  Capacity = 2
  MinBuckets = 2
  Touches = TRUE
  Chunk = 1
SPECIFICATION IFairSpec
INVARIANTS InSync EntryIntact SweepsTheUnmoved
PROPERTIES CondemningEnds IterationEnds
