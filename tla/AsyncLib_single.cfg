SPECIFICATION FairSpec
CONSTANTS
  c1 = c1
  c2 = c2
  c3 = c3
  t1 = t1
  Tasks = {c1, c2, c3}
  Pollers = {t1}
  Spawners = {t1}
  ValueTasks = {c1, c2}
  ThrowingTasks = {c3}
  MaxOps = 2
  None = None
INVARIANTS FramesAlive NoDoubleResume AwaitedResult NoLostWakeup NothingLeftBehind SingleThreadInvariant
PROPERTIES EveryTaskEnds ImplementsContract
CHECK_DEADLOCK FALSE
