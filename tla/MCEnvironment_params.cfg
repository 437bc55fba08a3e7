CONSTANTS
  var = var
  item = item
  fun = fun
  par = par
  n1 = n1
  n2 = n2
  s1 = s1
  None = None
  VarNames = {var}
  BoundNames = {}
  FuncNames = {fun}
  ParamNames = {var}
  Declared = {"num"}
  Data = {n1, n2}
  Kind <- KindOf
  Signatures <- XSignatures
  Lambdas <- NoLambdas
  MaxEnvs = 2
  MaxDepth = 2
SPECIFICATION Spec
PROPERTY ParamsAreLocal
