\* Two devices follow a master; every callback comes within the delay after its send.
SPECIFICATION FleetSpec
CONSTANTS
  Peers = {1, 2}
  DEFAULT_RETRIES = 1
  RecipientSets = {{}}
  MaxPaired = 2
  Settle = TRUE
  MaxMsgs = 2
  MaxLosses = 2
  MaxRefusals = 1
  MaxScans = 0
  MaxHandshakes = 1
  States <- MCStates
  InitialState <- MCInitial
  STATE_INIT = STATE_INIT
  Changes <- MCChanges
  Restarting = {1}
CHECK_DEADLOCK FALSE
INVARIANTS
  FleetTypeOK
  TransmissionsBounded
  RestsInStep
PROPERTIES
  RetriesTheFailedMessage
  FollowsMaster
  Converges
