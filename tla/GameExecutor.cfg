SPECIFICATION FairSpec
CONSTANTS
  j1 = j1
  j2 = j2
  w1 = w1
  w2 = w2
  Jobs = {j1, j2}
  Workers = {w1, w2}
  Game = Game
  MaxCross = 1
  MaxOps = 2
  None = None
INVARIANTS Confinement ExactlyOneWakeup CrossResult GameInvariant
PROPERTIES EveryJobEnds ImplementsQueue
CHECK_DEADLOCK FALSE
