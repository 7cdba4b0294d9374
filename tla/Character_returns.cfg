SPECIFICATION Spec
CONSTANTS
  Calls = {c1, c2}
  Amount = 1
  Threshold = 2
  Overlap = FALSE
  Faults = FALSE
  MaxRetries = 1
  MaxLate = 1
  Absent = Absent
  c1 = c1
  c2 = c2
  c3 = c3
PROPERTY ImplementsMemory
CHECK_DEADLOCK FALSE
