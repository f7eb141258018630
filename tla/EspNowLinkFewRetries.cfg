\* One message that always fails.
SPECIFICATION Spec
CONSTANTS
  Peers = {1}
  DEFAULT_RETRIES = 3
  RecipientSets = {{}}
  MaxPaired = 1
  Settle = TRUE
  MaxMsgs = 1
  MaxLosses = 5
  MaxRefusals = 0
  MaxScans = 1
  MaxHandshakes = 0
CHECK_DEADLOCK FALSE
PROPERTIES
  RetriesRemainingAreUsed
