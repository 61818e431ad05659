SPECIFICATION MSpec
CONSTANTS
  Slaves = {1, 2}
  HeaderWords = 4
  DetectTries = 2
  PaletteTries = 2
  ClientData = {1}
  Garbage <- MCGarbage
INVARIANTS SelectedHaveHeader
CHECK_DEADLOCK FALSE
