SPECIFICATION Spec
CONSTANTS
  PageSize = 4
  LowPages = 3
  Machines <- MCMachines
  Sizes = {2, 8, 16}
INVARIANTS AvailableIsFreed
CHECK_DEADLOCK FALSE
