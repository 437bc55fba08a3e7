CONSTANTS
  p1 = p1
  p2 = p2
  t1 = t1
  t2 = t2
  i1 = i1
  i2 = i2
  None = None
  Procs = {p1}
  Texts = {t1}
  Imports = {i1}
  MaxTime = 2
  MaxSaves = 0
  MaxKills = 1
SPECIFICATION MCSpec
INVARIANT AloneNeverFails
