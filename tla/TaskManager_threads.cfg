SPECIFICATION FairSpec
CONSTANTS
  t1 = t1 t2 = t2 t3 = t3 p1 = p1 p2 = p2
  Threads <- MCThreads
  Tasks <- MCTasks
  TaskOf <- MCTaskOf
  Main = t1
  Idle = Idle
  Null = Null
  Objects = {o1, o2}
  Delays = {0, 1, 4}
  Quantum = 2
  MaxTime = 5
INVARIANTS TypeOK QueuesMatchStates TimerSorted IdleOnlyIfNothingReady LatenessBounded
PROPERTIES ReadyThreadsRun TimedWaitsEnd DeadIsFinal WakeIsEarned NoOvertakingInReadyQueue WakersServeInOrder
CHECK_DEADLOCK FALSE
