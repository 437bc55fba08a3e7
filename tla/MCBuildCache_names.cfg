CONSTANTS
  p1 = p1
  p2 = p2
  t1 = t1
  t2 = t2
  i1 = i1
  i2 = i2
  None = None
  Procs = {p1, p2}
  Texts = {t1, t2}
  Imports = {i1, i2}
  MaxTime = 1
  MaxSaves = 2
  MaxKills = 1
SPECIFICATION MCSpec
SYMMETRY Alike
INVARIANT BinaryHasItsText
INVARIANT GoodCodeRuns
PROPERTY RunsYourCode
