CONSTANTS
  Indents = {0, 1, 2, 3}
  MaxLines = 8
SPECIFICATION IndentedSpec
INVARIANTS DepthIsIndentation Balanced LinesInOrder
CHECK_DEADLOCK FALSE
