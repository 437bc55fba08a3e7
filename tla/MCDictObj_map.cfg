CONSTANTS
  a = a
  b = b
  c = c
  d = d
  v1 = v1
  v2 = v2
  Keys = {a, b, c, d}
  Vals = {v1, v2}
  Literals <- PlainLiterals
SPECIFICATION DictSpec
INVARIANT KeysAreThePairs
PROPERTY ImplementsOrderedMap
