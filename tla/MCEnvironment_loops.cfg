CONSTANTS
  var = var
  item = item
  fun = fun
  par = par
  n1 = n1
  n2 = n2
  s1 = s1
  None = None
  VarNames = {var}
  BoundNames = {var}
  FuncNames = {fun}
  ParamNames = {par}
  Declared = {"num"}
  Data = {n1, s1}
  Kind <- KindOf
  Signatures <- ParamSignatures
  Lambdas <- NoLambdas
  MaxEnvs = 1
  MaxDepth = 1
SPECIFICATION Spec
INVARIANT TypedKeepsType
