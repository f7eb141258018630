\* A master and a device, with clocks that wrap during the run.
SPECIFICATION Spec
CONSTANTS
  Devices = {m, s}
  Master = m
  WORD = 24
  MS_TIME_SYNC_SCHEDULE_START = 1
  MS_TIME_SYNC_START = 1
  RETRIES = 1
  MaxWait = 1
  MaxTransit = 1
  Offsets <- MCClocks
  MaxTime = 6
  MaxHandshakes = 1
  MaxLosses = 1
  MaxChanges = 2
CHECK_DEADLOCK FALSE
INVARIANTS
  TypeOK
  LagBounded
  StartsOnTime
