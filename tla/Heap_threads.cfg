SPECIFICATION HFairSpec
CONSTANTS
  t1 = t1 t2 = t2
  Threads <- MCThreads
  Requests <- MCRequests
  HeapStart = 16
  HeapEnd = 128
INVARIANTS HTypeOK Tiled NoFitMissed
PROPERTIES ImplementsAllocator KmallocReturns
CHECK_DEADLOCK FALSE
