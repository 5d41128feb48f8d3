CONSTANTS
  t1 = t1
  t2 = t2
  a1 = a1
  a2 = a2
  b1 = b1
  c1 = c1
  d1 = d1
  ka = ka
  kb = kb
  kc = kc
  kd = kd
  None = None
  Threads <- MCThreads
  Keys <- MCKeys3
  Pointers <- MCPointers3
  KeyOf <- MCKeyOf3
  Slots <- MCSlots
  GroupWidth = 1
  Capacity <- MCCapacity
  MinBuckets <- MCMinBuckets
  Touches = FALSE
SYMMETRY Symmetry3
SPECIFICATION Spec
INVARIANTS TypeOK InSync OneEntryPerKey EntryIntact RoomReserved WithinCapacity
PROPERTIES OnlyTheCondemned ImplementsCacheMap
