SPECIFICATION Spec
CONSTANTS
  c1 = c1
  c2 = c2
  c3 = c3
  t1 = t1
  t2 = t2
  MaxOps = 1
  None = None
CHECK_DEADLOCK FALSE
CONSTANTS
  Tasks = {c1, c2}
  Pollers = {t1}
  Spawners = {t2}
  ValueTasks = {c1, c2}
  ThrowingTasks = {}
INVARIANT AwaitedResult
