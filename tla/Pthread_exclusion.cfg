SPECIFICATION PSpec
CONSTANTS
  t1 = t1 t2 = t2 t3 = t3 p1 = p1 m1 = m1 c1 = c1
  Threads <- MCTwo
  Tasks <- MCTasks
  TaskOf <- MCTaskOf
  Main = t1
  Idle = Idle
  Null = Null
  Objects <- MCObjects
  Mutexes <- MCMutexes
  Conds <- MCConds
  WakeUps = {0}
  Delays = {0}
  Quantum = 1
  MaxTime = 0
INVARIANT MutualExclusion
