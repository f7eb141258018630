\* Three devices, two of them looking for others, without faults.
SPECIFICATION FairSpec
CONSTANTS
  Devices = {1, 2, 3}
  Scanners = {2, 3}
  RETRIES = 2
  MaxLosses = 0
  MaxRestarts = 0
  MaxResends = 0
CHECK_DEADLOCK FALSE
PROPERTIES
  TimesSettle
