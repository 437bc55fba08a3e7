SPECIFICATION TidySpec
CONSTANTS
  Kinds <- VariableKinds
  MaxLines = 6
  MaxIndent = 2
  MaxChoices = 2
  MaxItems = 2
INVARIANTS NoWildAccess SameReads NoneUndefined
CHECK_DEADLOCK FALSE
