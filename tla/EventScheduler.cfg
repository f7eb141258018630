\* Events of every kind, late passes, and clocks that wrap again and again.
SPECIFICATION FairSpec
CONSTANTS
  Configs <- MCConfigs
  Intervals = {0, 1, 3}
  WORD = 8
  SEC = 2
  Epochs = {0, 6}
  MaxLate = 2
  MaxFired = 3
  MaxCalls = 2
CHECK_DEADLOCK FALSE
INVARIANTS
  TypeOK
  LimitKept
PROPERTIES
  NoBurst
  KeepsFiring
