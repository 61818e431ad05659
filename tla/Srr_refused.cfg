SPECIFICATION SSpec
CONSTANTS
  c1 = c1 c2 = c2 s1 = s1 s2 = s2 k1 = k1
  Clients = {c1}
  Servers = {s1}
  Threads <- MCThreads
  Connections = {k1}
  ConnectionOf <- MCOneConnection
  Channel = channel
  Mutexes <- MCMutexes
  Conds <- MCConds
  MutexOf <- MCMutexOf
  CondOf <- MCCondOf
  Null = Null
  Delays = {0}
  WakeUps = {0}
  MaxSends = 2
INVARIANTS NoReplyRefused
CHECK_DEADLOCK FALSE
