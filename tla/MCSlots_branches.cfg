SPECIFICATION TextSpec
CONSTANTS
  Kinds <- BranchKinds
  MaxLines = 5
  MaxIndent = 1
  MaxChoices = 1
  MaxItems = 1
INVARIANT NoWildAccess
CHECK_DEADLOCK FALSE
