SPECIFICATION Spec
CONSTANTS
  MaxLines = 6
  MaxSpurious = 2
INVARIANTS InOrder NothingLost InputInvariant
CHECK_DEADLOCK FALSE
