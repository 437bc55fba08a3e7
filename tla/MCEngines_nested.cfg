SPECIFICATION AnySpec
CONSTANTS
  Kinds <- AllKinds
  MaxLines = 4
  MaxIndent = 3
  MaxChoices = 2
  MaxItems = 2
INVARIANT ModuleIsValid
CHECK_DEADLOCK FALSE
