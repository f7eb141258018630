\* A slave that obeys implicit state changes, among devices with states it does not have, with
\* an application that removes states.
SPECIFICATION FairSpec
CONSTANTS
  STATE_INIT = STATE_INIT
  STATE_PURG = STATE_PURG
  STATE_OTA = STATE_OTA
  STATE_RESTART = STATE_RESTART
  STATE_IDLE_BASE = STATE_IDLE_BASE
  STATE_SYNC_TEST = STATE_SYNC_TEST
  AppStates = {STATE_BLINK}
  ForeignStates = {STATE_FOREIGN}
  InitialState = STATE_PURG
  MASTER = FALSE
  IMPLICIT_STATE_CHANGE = TRUE
  WireStates = {STATE_FOREIGN, STATE_BLINK, STATE_INIT}
  CallStates = {STATE_OTA, STATE_PURG, STATE_BLINK}
  RemovableStates = {STATE_BLINK, STATE_PURG}
  LateCalls = TRUE
  MaxRx = 1
  MaxCalls = 1
  MaxResends = 0
PROPERTIES
  RequestServed
  BootCompletes
  PurgatoryEnds
