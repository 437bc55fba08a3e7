CONSTANTS
  p1 = p1
  p2 = p2
  t1 = t1
  t2 = t2
  i1 = i1
  i2 = i2
  None = None
  Procs = {p1}
  Texts = {t1}
  Imports = {i1, i2}
  MaxTime = 3
  MaxSaves = 1
  MaxKills = 0
SPECIFICATION QuietSpec
PROPERTY CacheIsFresh
