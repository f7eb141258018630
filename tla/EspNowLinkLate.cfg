\* Callbacks come late, every transmission may fail, and handshakes come in between.
SPECIFICATION FairSpec
CONSTANTS
  Peers = {1, 2}
  DEFAULT_RETRIES = 2
  RecipientSets = {{1}}
  MaxPaired = 2
  Settle = FALSE
  MaxMsgs = 2
  MaxLosses = 16
  MaxRefusals = 1
  MaxScans = 1
  MaxHandshakes = 1
CHECK_DEADLOCK FALSE
INVARIANTS
  TypeOK
  NoMisdelivery
  FailuresBounded
PROPERTIES
  Quiesces
