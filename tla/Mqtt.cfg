\* Two devices, one of them with a broker, that publish while states, servers and WiFi change.
SPECIFICATION FairSpec
CONSTANTS
  Devices = {1, 2}
  Online = {1}
  States <- MCStates
  InitialState <- MCInitialState
  Connecting <- MCConnecting
  Servers <- MCServers
  NoServer <- MCNoServer
  OwnServer <- MCOwnServer
  DefaultServer <- MCDefault
  MaxChanges = 2
  MaxDrops = 1
  MAX_PACKET_ID = 2
  Plans <- MCPlans
  RETRIES = 1
  MaxLosses = 1
CHECK_DEADLOCK FALSE
INVARIANTS
  TypeOK
  OwnServerIsUsed
PROPERTIES
  AcksFindTheirPacket
  LeaksBounded
