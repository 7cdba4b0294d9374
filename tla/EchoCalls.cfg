SPECIFICATION FairSpec
CONSTANTS
  hello = hello
  world = world
  bye = bye
  Words <- MCWords
  Retries = 3
  MaxUInt = 3
  Window = 2
INVARIANTS EchoFaithful AttemptsUsed
PROPERTY CallsEnd
CHECK_DEADLOCK FALSE
