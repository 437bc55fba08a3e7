SPECIFICATION Spec
CONSTANTS
  Kinds <- ControlKinds
  MaxLines = 5
  MaxIndent = 3
  MaxChoices = 2
  MaxItems = 2
INVARIANTS ModuleIsValid SameOutput
PROPERTIES Stops RunsToTheEnd
CHECK_DEADLOCK FALSE
