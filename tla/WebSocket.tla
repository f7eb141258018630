----------------------------- MODULE WebSocket -----------------------------
(***************************************************************************)
(* The WebSocket client of each device: which server it is pointed at as   *)
(* states are entered, servers are set, and WiFi comes and goes.           *)
(*                                                                         *)
(* The client of the library is external: begin() points it at a server    *)
(* and drops the connection it had; from then on it tries to connect until *)
(* it is.                                                                  *)
(***************************************************************************)
EXTENDS Naturals, Sequences, FiniteSets

CONSTANTS
  Devices,         \* their ids, naturals in the order of the ids
  Online,          \* those that know a WiFi station; the clients of the others do nothing
  States, InitialState,
  Connecting,      \* the states with doConnectToWSServer()
  Servers, NoServer,
  OwnServer,       \* state -> the server that its entity was given when it was made, or NoServer
  DefaultServer,   \* the server that setDefaultWS was given at first, or NoServer
  MaxChanges,      \* bound: changes of state, and of servers
  MaxDrops         \* bound: connections and stations that are lost

ASSUME WebSocketAssumption ==
  /\ Devices \subseteq Nat /\ IsFiniteSet(Devices) /\ Online \subseteq Devices
  /\ Connecting \subseteq States /\ InitialState \in States /\ NoServer \notin Servers
  /\ OwnServer \in [States -> Servers \cup {NoServer}]
  /\ DefaultServer \in Servers \cup {NoServer}
  /\ {MaxChanges, MaxDrops} \subseteq Nat

VARIABLES
  curState,
  wsClientInfo,          \* device -> state -> the server of the state's entity
  defaultWSClientInfo,   \* device -> the server for entities without one
  wifi,                  \* device -> WiFi.status() == WL_CONNECTED
  target,                \* device -> the server that begin() was last called with
  connected,             \* device -> webSocketClient.isConnected()
  entered,               \* history: device -> connectToWS has had WiFi since the state was entered
                         \* and the servers that it goes by were set
  changes, drops

wsVars == <<curState, wsClientInfo, defaultWSClientInfo, wifi, target, connected, entered,
            changes, drops>>

Server == Servers \cup {NoServer}

WSTypeOK ==
  /\ curState \in [Devices -> States]
  /\ wsClientInfo \in [Devices -> [States -> Server]]
  /\ defaultWSClientInfo \in [Devices -> Server]
  /\ wifi \in [Devices -> BOOLEAN] /\ target \in [Devices -> Server]
  /\ connected \in [Devices -> BOOLEAN] /\ entered \in [Devices -> BOOLEAN]
  /\ changes \in 0..MaxChanges /\ drops \in 0..MaxDrops

\* begin() of the device sets curWSClientInfo to the empty default of then, and nothing sets it
\* again.
curWSClientInfo == NoServer

\* The server of the entity, or else the default.
ServerOf(d, s) ==
  IF wsClientInfo[d][s] = NoServer THEN defaultWSClientInfo[d] ELSE wsClientInfo[d][s]

\* After the first call of connectToWS, in the initial state.
WSInit ==
  /\ curState = [d \in Devices |-> InitialState]
  /\ wsClientInfo = [d \in Devices |-> OwnServer]
  /\ defaultWSClientInfo = [d \in Devices |-> DefaultServer]
  /\ wifi = [d \in Devices |-> d \in Online]
  /\ target = [d \in Devices |->
       IF d \in Online /\ InitialState \in Connecting THEN ServerOf(d, InitialState) ELSE NoServer]
  /\ connected = [d \in Devices |-> FALSE] /\ entered = [d \in Devices |-> d \in Online]
  /\ changes = 0 /\ drops = 0

AlreadyConnectedMutant(d, i) == connected[d] /\ (i = curWSClientInfo \/ curWSClientInfo = NoServer)
AlreadyConnected(d, i) ==
  /\ connected[d]
  /\ i = curWSClientInfo \/ curWSClientInfo = NoServer
  /\ i = defaultWSClientInfo[d]

\* connectToWS, when state s is entered with WiFi on or off.
Begins(d, s, on) ==
  on /\ s \in Connecting /\ ServerOf(d, s) # NoServer /\ ~AlreadyConnected(d, ServerOf(d, s))

Change == changes < MaxChanges /\ changes' = changes + 1
Drop   == drops < MaxDrops /\ drops' = drops + 1

\* Base::setup as far as connections go: connectToWifi, which may fail, then connectToWS.
EnterState(d, s) ==
  /\ Change
  /\ s # curState[d]
  /\ curState' = [curState EXCEPT ![d] = s]
  /\ \E on \in BOOLEAN :
       /\ wifi[d] => on
       /\ wifi' = [wifi EXCEPT ![d] = on]
       /\ entered' = [entered EXCEPT ![d] = on]
       /\ IF Begins(d, s, on)
          THEN /\ target' = [target EXCEPT ![d] = ServerOf(d, s)]
               /\ connected' = [connected EXCEPT ![d] = FALSE]
          ELSE UNCHANGED <<target, connected>>
  /\ UNCHANGED <<wsClientInfo, defaultWSClientInfo, drops>>

\* The servers may be set at any time, and count from the next entry of a state on.
SetWS(d, s, i) ==
  /\ Change
  /\ i # wsClientInfo[d][s]
  /\ wsClientInfo' = [wsClientInfo EXCEPT ![d][s] = i]
  /\ entered' = [entered EXCEPT ![d] = @ /\ s # curState[d]]
  /\ UNCHANGED <<curState, defaultWSClientInfo, wifi, target, connected, drops>>

SetDefaultWS(d, i) ==
  /\ Change
  /\ i # defaultWSClientInfo[d]
  /\ defaultWSClientInfo' = [defaultWSClientInfo EXCEPT ![d] = i]
  /\ entered' = [entered EXCEPT ![d] = FALSE]
  /\ UNCHANGED <<curState, wsClientInfo, wifi, target, connected, drops>>

\* The loop of the client, on what the network does.
Connect(d) ==
  /\ wifi[d] /\ target[d] # NoServer /\ ~connected[d]
  /\ connected' = [connected EXCEPT ![d] = TRUE]
  /\ UNCHANGED <<curState, wsClientInfo, defaultWSClientInfo, wifi, target, entered, changes, drops>>

Disconnect(d) ==
  /\ connected[d] /\ Drop
  /\ connected' = [connected EXCEPT ![d] = FALSE]
  /\ \E on \in BOOLEAN : (on => wifi[d]) /\ wifi' = [wifi EXCEPT ![d] = on]
  /\ UNCHANGED <<curState, wsClientInfo, defaultWSClientInfo, target, entered, changes>>

=============================================================================
