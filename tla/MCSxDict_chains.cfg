CONSTANTS
  k1 = k1
  k2 = k2
  k3 = k3
  k4 = k4
  k5 = k5
  v1 = v1
  NULL = NULL
  Keys = {k1, k2, k3, k4, k5}
  Vals = {v1}
  Hash <- CollidingHash
  InitCap = 2
  Sources <- MergeSources
SPECIFICATION FairSpec
INVARIANTS LookupAgrees IInv KeysFit CrashesOverDeleted
PROPERTIES ImplementsOrderedMap SetTakesEffect CallsReturn
CHECK_DEADLOCK FALSE
