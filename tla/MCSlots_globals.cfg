SPECIFICATION TextSpec
CONSTANTS
  Kinds <- GlobalKinds
  MaxLines = 4
  MaxIndent = 1
  MaxChoices = 1
  MaxItems = 1
INVARIANT SameReads
CHECK_DEADLOCK FALSE
