\* A CHANGE_STATE message for a state that this device does not have.
SPECIFICATION Spec
CONSTANTS
  STATE_INIT = STATE_INIT
  STATE_PURG = STATE_PURG
  STATE_OTA = STATE_OTA
  STATE_RESTART = STATE_RESTART
  STATE_IDLE_BASE = STATE_IDLE_BASE
  STATE_SYNC_TEST = STATE_SYNC_TEST
  AppStates = {STATE_BLINK}
  ForeignStates = {STATE_FOREIGN}
  InitialState = STATE_BLINK
  MASTER = FALSE
  IMPLICIT_STATE_CHANGE = FALSE
  WireStates = {STATE_FOREIGN}
  CallStates = {STATE_BLINK}
  RemovableStates = {}
  LateCalls = FALSE
  MaxRx = 1
  MaxCalls = 0
  MaxResends = 0
INVARIANTS
  RequestedIsRecognized
