SPECIFICATION RFairSpec
CONSTANTS
  d1 = d1 d2 = d2
  User = user
  mutex = mutex
  Threads <- MCThreads
  Mutexes <- MCMutexes
  Conds = {}
  Null = Null
  Delays = {0}
  WakeUps = {}
  Size = 4
  Data <- MCData
INVARIANTS RTypeOK NoSleepOverData FetchedIsFirst
PROPERTIES InOrder GetReturns
CHECK_DEADLOCK FALSE
