SPECIFICATION Spec
CONSTANTS
  w1 = w1
  w2 = w2
  r1 = r1
  d1 = d1
  t0 = t0
  t1 = t1
  Writes = {w1, w2}
  Reads = {r1}
  Dels = {d1}
  Absent = Absent
  NoAnswer = NoAnswer
  MaxRequests = 3
  N = 2
  Threads = {t0, t1}
  ExecutorOf <- MCExecutorOf
  Main = Main
  Services <- MCServices
INVARIANT NoListenOnClosedQueue
CHECK_DEADLOCK FALSE
