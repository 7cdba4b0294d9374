SPECIFICATION FairSpec
CONSTANTS
  Calls = {c1, c2, c3}
  Amount = 1
  Threshold = 0
  Overlap = TRUE
  Faults = TRUE
  MaxRetries = 1
  MaxLate = 1
  Absent = Absent
  c1 = c1
  c2 = c2
  c3 = c3
INVARIANTS CharacterInvariant NothingForFree InitFirst LoneInvariant LoneCallsExact
PROPERTY EveryCallEnds
CHECK_DEADLOCK FALSE
