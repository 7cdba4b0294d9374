SPECIFICATION FairSession
CONSTANTS
  m1 = m1
  m2 = m2
  bad = bad
  Messages = {m1, m2, bad}
  Invalid = {bad}
  Unset = Unset
  MaxSent = 3
  Greeting = m1
  MayBreak = TRUE
PROPERTY JoinReturns
CHECK_DEADLOCK FALSE
