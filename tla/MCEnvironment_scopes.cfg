CONSTANTS
  var = var
  item = item
  fun = fun
  par = par
  n1 = n1
  n2 = n2
  s1 = s1
  None = None
  VarNames = {var}
  BoundNames = {}
  FuncNames = {fun}
  ParamNames = {par}
  Declared = {"num"}
  Data = {n1, n2}
  Kind <- KindOf
  Signatures <- CounterSignatures
  Lambdas <- NoLambdas
  MaxEnvs = 3
  MaxDepth = 3
SPECIFICATION TidySpec
INVARIANT TypedKeepsType
INVARIANT ChecksFollowBinding
PROPERTY ConstNeverChanges
PROPERTY ParamsAreLocal
PROPERTY NamesStayBound
