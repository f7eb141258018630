\* Two devices that look for each other, restart, and lose frames.
SPECIFICATION FairSpec
CONSTANTS
  Devices = {1, 2}
  Scanners = {1,2}
  RETRIES = 2
  MaxLosses = 2
  MaxRestarts = 1
  MaxResends = 1
CHECK_DEADLOCK FALSE
INVARIANTS
  TypeOK
  RejectsOnlyAfterRestart
  AddresslessOnlyByOldAnswer
  NoTimeOfEarlierBoot
PROPERTIES
  TimesSettle
