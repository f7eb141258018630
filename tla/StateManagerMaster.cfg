\* A master with one application state, among devices that know only its states.
SPECIFICATION Spec
CONSTANTS
  STATE_INIT = STATE_INIT
  STATE_PURG = STATE_PURG
  STATE_OTA = STATE_OTA
  STATE_RESTART = STATE_RESTART
  STATE_IDLE_BASE = STATE_IDLE_BASE
  STATE_SYNC_TEST = STATE_SYNC_TEST
  AppStates = {STATE_BLINK}
  ForeignStates = {STATE_FOREIGN}
  InitialState = STATE_BLINK
  MASTER = TRUE
  IMPLICIT_STATE_CHANGE = FALSE
  WireStates = {STATE_IDLE_BASE, STATE_BLINK}
  CallStates = {STATE_SYNC_TEST, STATE_RESTART, STATE_BLINK, STATE_FOREIGN}
  RemovableStates = {}
  LateCalls = FALSE
  MaxRx = 1
  MaxCalls = 2
  MaxResends = 1
INVARIANTS
  TypeOK
  AnnouncementsTruthful
  EntityCoherent
  NoAbort
PROPERTIES
  ChangesAnnounced
  BootPath
