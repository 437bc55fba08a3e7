CONSTANTS
  k1 = k1
  k2 = k2
  k3 = k3
  k4 = k4
  k5 = k5
  v1 = v1
  NULL = NULL
  Keys = {k1, k2, k3, k4}
  Vals = {v1}
  Hash <- OneChainHash
  InitCap = 4
  Sources <- NoSources
SPECIFICATION Spec
INVARIANT NeverCrashes
CHECK_DEADLOCK FALSE
