CONSTANTS
  t1 = t1
  t2 = t2
  a1 = a1
  a2 = a2
  b1 = b1
  c1 = c1
  d1 = d1
  ka = ka
  kb = kb
  kc = kc
  kd = kd
  None = None
  Threads <- MCThreads
  Keys <- MCKeys4
  Pointers <- MCPointers4
  KeyOf <- MCKeyOf4
  Slots <- MCSlots5
  GroupWidth = 4
  Capacity <- MCCapacity4
  MinBuckets <- MCMinBuckets4
  Touches = TRUE
SYMMETRY Symmetry4
SPECIFICATION Spec
PROPERTY RemovedAfterRemove
