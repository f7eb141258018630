---------------------------- MODULE StateManager ----------------------------
(***************************************************************************)
(* The state manager of one AF1 device: Base::begin, the phases of         *)
(* Base::update, and every way the requested state can change on the way.  *)
(*                                                                         *)
(* Two threads touch this state.  The loop thread runs update() for ever;  *)
(* pc is the phase it is in.  The WiFi task runs the ESP-NOW callbacks,    *)
(* which append to the inbox (a frame arrived) or to the outbox (a frame   *)
(* was not delivered and is sent again) between any two steps of the loop  *)
(* thread.  Application code runs inside the loop thread at the hook       *)
(* points of AppRuns, where it may call the public API.                    *)
(***************************************************************************)
EXTENDS Naturals, Sequences

CONSTANTS
  STATE_INIT, STATE_PURG, STATE_OTA, STATE_RESTART, STATE_IDLE_BASE,
  STATE_SYNC_TEST,        \* enum State
  AppStates,              \* ids the sketch registers with addStateEnt before the first update()
  ForeignStates,          \* ids that other devices know and this one does not
  InitialState,           \* the argument of setInitialState
  MASTER,                 \* the build flag of the same name
  IMPLICIT_STATE_CHANGE,  \* the build flag of the same name
  WireStates,             \* the ids that received messages carry
  CallStates,             \* the ids that the application passes to the API
  RemovableStates,        \* the ids it may pass to removeStateEnt
  LateCalls,              \* whether a preStateChange of its own calls the API after the base one
  MaxRx, MaxCalls, MaxResends  \* bounds: frames received, API calls, retries

BuiltIn  == {STATE_INIT, STATE_PURG, STATE_OTA, STATE_RESTART,
             STATE_IDLE_BASE, STATE_SYNC_TEST}
StateIds == BuiltIn \cup AppStates \cup ForeignStates

ASSUME StatesAssumption ==
  /\ STATE_INIT \notin {STATE_PURG, STATE_OTA, STATE_RESTART, STATE_IDLE_BASE, STATE_SYNC_TEST}
  /\ STATE_PURG \notin {STATE_OTA, STATE_RESTART, STATE_IDLE_BASE, STATE_SYNC_TEST}
  /\ STATE_OTA \notin {STATE_RESTART, STATE_IDLE_BASE, STATE_SYNC_TEST}
  /\ STATE_RESTART \notin {STATE_IDLE_BASE, STATE_SYNC_TEST}
  /\ STATE_IDLE_BASE # STATE_SYNC_TEST
  /\ AppStates \cap BuiltIn = {}
  /\ ForeignStates \cap (BuiltIn \cup AppStates) = {}
  /\ InitialState \in StateIds
  /\ WireStates \subseteq StateIds
  /\ CallStates \subseteq StateIds
  /\ RemovableStates \subseteq StateIds
  /\ MASTER \in BOOLEAN /\ IMPLICIT_STATE_CHANGE \in BOOLEAN /\ LateCalls \in BOOLEAN
  /\ MaxRx \in Nat /\ MaxCalls \in Nat /\ MaxResends \in Nat

VARIABLES
  stateEntMap,     \* id -> "absent", "ent" (a state entity) or "null" (a key holding NULL)
  curState, prevState, requestedState,
  target,          \* the copy of requestedState that update() takes before it changes state
  initialState, purgNext, isMaster, detached,
  eventMap,        \* id -> the kinds of event in the entity's eventMap
  eventOn,         \* id -> those of them that are MODE_ACTIVE
  handlerOf,       \* the state whose inbox and outbox handlers are installed
  inbox, outbox,
  purgOver,        \* getElapsedMs() has passed purgMs
  pc,              \* the phase of update()
  rx, calls, resends

reqVars   == <<curState, prevState, requestedState, target>>
cfgVars   == <<initialState, purgNext, isMaster, detached>>
evVars    == <<eventMap, eventOn>>
boxVars   == <<inbox, outbox>>
boundVars == <<rx, calls, resends>>
vars == <<stateEntMap, reqVars, cfgVars, evVars, handlerOf, boxVars, purgOver, pc, boundVars>>

-----------------------------------------------------------------------------
(* Messages.  ASK stands for the received types that are answered through   *)
(* the outbox (handshakes, time sync, MQTT), TELL for those that are not.   *)
(* In the outbox only the state changes that this device announces matter   *)
(* here: RetryMsg is the copy that onESPNowDataSent queues, OtherMsg the    *)
(* rest.                                                                   *)

InMsg == [type : {"CHANGE_STATE", "TIME_SYNC_START", "ASK", "TELL"}, state : WireStates]
Announcement(s) == [type |-> "CHANGE_STATE", state |-> s]
OtherMsg == [type |-> "OTHER"]
RetryMsg == [type |-> "RETRY"]
OutMsg   == {Announcement(s) : s \in StateIds} \cup {OtherMsg, RetryMsg}

Phases == {"inbox", "outbox", "serial", "events", "ws", "loop", "check",
           "pre", "change", "setup", "aborted", "restarting"}

Kinds == {"perm", "temp"}   \* EVENT_TYPE_PERM, EVENT_TYPE_TEMP; both START_STATE_MS

TypeOK ==
  /\ stateEntMap \in [StateIds -> {"absent", "ent", "null"}]
  /\ curState \in StateIds /\ prevState \in StateIds
  /\ requestedState \in StateIds /\ target \in StateIds
  /\ initialState \in StateIds /\ purgNext \in StateIds
  /\ isMaster \in BOOLEAN /\ detached \in BOOLEAN
  /\ eventMap \in [StateIds -> SUBSET Kinds] /\ eventOn \in [StateIds -> SUBSET Kinds]
  /\ handlerOf \in StateIds
  /\ inbox \in Seq(InMsg) /\ outbox \in Seq(OutMsg)
  /\ purgOver \in BOOLEAN /\ pc \in Phases
  /\ rx \in 0..MaxRx /\ calls \in 0..MaxCalls /\ resends \in 0..MaxResends

-----------------------------------------------------------------------------
(* begin(), then the sketch's own setup(): the state before the first       *)
(* update().                                                                *)

Registered == [s \in StateIds |-> IF s \in BuiltIn \cup AppStates THEN "ent" ELSE "absent"]

Init ==
  /\ stateEntMap = Registered
  /\ curState = STATE_INIT /\ prevState = STATE_INIT
  /\ requestedState = STATE_INIT /\ target = STATE_INIT
  /\ initialState = InitialState /\ purgNext = STATE_IDLE_BASE
  /\ isMaster = MASTER /\ detached = FALSE
  /\ eventMap = [s \in StateIds |-> {}] /\ eventOn = [s \in StateIds |-> {}]
  /\ handlerOf = STATE_INIT
  /\ inbox = <<>> /\ outbox = <<>>
  /\ purgOver = FALSE /\ pc = "inbox"
  /\ rx = 0 /\ calls = 0 /\ resends = 0

\* ESP.restart(), or the reboot after an abort: RAM is lost and begin() runs again.
Reboot ==
  /\ pc \in {"aborted", "restarting"}
  /\ stateEntMap' = Registered
  /\ curState' = STATE_INIT /\ prevState' = STATE_INIT
  /\ requestedState' = STATE_INIT /\ target' = STATE_INIT
  /\ initialState' = InitialState /\ purgNext' = STATE_IDLE_BASE
  /\ isMaster' = MASTER /\ detached' = FALSE
  /\ eventMap' = [s \in StateIds |-> {}] /\ eventOn' = [s \in StateIds |-> {}]
  /\ handlerOf' = STATE_INIT
  /\ inbox' = <<>> /\ outbox' = <<>>
  /\ purgOver' = FALSE /\ pc' = "inbox"
  /\ UNCHANGED boundVars

-----------------------------------------------------------------------------
(* Base::setRequestedState.  An id without an entity and the current state  *)
(* are ignored (the request that is pending, if any, stays); a key that     *)
(* holds NULL is dereferenced for its name.                                 *)

RecognizedMutant(s) == TRUE
Recognized(s) == stateEntMap[s] # "absent"

SetRequestedState(s, next) ==
  \/ /\ ~Recognized(s) \/ s = curState
     /\ pc' = next
     /\ UNCHANGED requestedState
  \/ /\ Recognized(s) /\ s # curState /\ stateEntMap[s] = "null"
     /\ pc' = "aborted"
     /\ UNCHANGED requestedState
  \/ /\ Recognized(s) /\ s # curState /\ stateEntMap[s] # "null"
     /\ pc' = next
     /\ requestedState' = s

-----------------------------------------------------------------------------
(* The phases of update(), in order.                                        *)

\* The request that handleInboxMsg leaves after message m: CHANGE_STATE sets it
\* unchecked, and with IMPLICIT_STATE_CHANGE so does the state of any message.
RequestAfter(m) ==
  IF /\ ~detached
     /\ \/ m.type = "CHANGE_STATE"
        \/ IMPLICIT_STATE_CHANGE /\ ~isMaster /\ m.state # curState
  THEN m.state
  ELSE requestedState

\* scheduleSyncStart: one more active temporary event in the current entity.
ScheduleSyncStartMutant ==
  /\ eventMap' = [eventMap EXCEPT ![curState] = @ \cup {"global"}]
  /\ eventOn'  = [eventOn  EXCEPT ![curState] = @ \cup {"global"}]
ScheduleSyncStart ==
  /\ eventMap' = [eventMap EXCEPT ![curState] = @ \cup {"temp"}]
  /\ eventOn'  = [eventOn  EXCEPT ![curState] = @ \cup {"temp"}]

HandleInboxMsg ==
  /\ pc = "inbox" /\ inbox # <<>>
  /\ LET m == Head(inbox)
     IN  /\ inbox' = Tail(inbox)
         /\ requestedState' = RequestAfter(m)
         /\ outbox' = IF m.type = "ASK" THEN Append(outbox, OtherMsg) ELSE outbox
         /\ IF m.type = "TIME_SYNC_START" THEN ScheduleSyncStart ELSE UNCHANGED evVars
  /\ UNCHANGED <<stateEntMap, curState, prevState, target, cfgVars, handlerOf, purgOver,
                 pc, boundVars>>

InboxEmpty ==
  /\ pc = "inbox" /\ inbox = <<>>
  /\ pc' = "outbox"
  /\ UNCHANGED <<stateEntMap, reqVars, cfgVars, evVars, handlerOf, boxVars, purgOver, boundVars>>

HandleOutboxMsg ==
  /\ pc = "outbox" /\ outbox # <<>>
  /\ outbox' = Tail(outbox)
  /\ UNCHANGED <<stateEntMap, reqVars, cfgVars, evVars, handlerOf, inbox, purgOver, pc, boundVars>>

OutboxEmpty ==
  /\ pc = "outbox" /\ outbox = <<>>
  /\ pc' = "serial"
  /\ UNCHANGED <<stateEntMap, reqVars, cfgVars, evVars, handlerOf, boxVars, purgOver, boundVars>>

\* The string handlers of begin(): OTA, RESTART, IDLE, SYNCTEST; HS; DETACH.
HandleUserInput ==
  /\ pc = "serial"
  /\ \/ /\ pc' = "events"
        /\ UNCHANGED <<requestedState, detached, outbox>>
     \/ /\ \E s \in {STATE_OTA, STATE_RESTART, STATE_IDLE_BASE, STATE_SYNC_TEST} \cap CallStates :
             SetRequestedState(s, "events")
        /\ UNCHANGED <<detached, outbox>>
     \/ /\ outbox' = Append(outbox, OtherMsg)
        /\ pc' = "events"
        /\ UNCHANGED <<requestedState, detached>>
     \/ /\ detached' \in BOOLEAN
        /\ pc' = "events"
        /\ UNCHANGED <<requestedState, outbox>>
  /\ UNCHANGED <<stateEntMap, curState, prevState, target, initialState, purgNext, isMaster,
                 evVars, handlerOf, inbox, purgOver, boundVars>>

\* AF1Event::getCurTime asks getCurStateEnt() for the time of every START_STATE_MS
\* event, and operator[] inserts a NULL for a current state that was removed.
MapAfterGetCurTime ==
  IF stateEntMap[curState] = "absent" /\ (eventMap[curState] # {} \/ MASTER)
  THEN [stateEntMap EXCEPT ![curState] = "null"]
  ELSE stateEntMap

\* A pass over the state's and the global events.  The two global events of Init()
\* call a virtual function of getCurStateEnt(): the handshake (every device) and the
\* sync start (of a master).
RunEvents ==
  /\ pc = "events"
  /\ \E handshakeDue \in BOOLEAN, syncStartDue \in {FALSE, MASTER} :
       LET due   == handshakeDue \/ syncStartDue
           asked == handshakeDue /\ curState \notin {STATE_OTA, STATE_SYNC_TEST}
           start == syncStartDue /\ curState = STATE_SYNC_TEST
       IN  IF due /\ stateEntMap[curState] # "ent"
           THEN /\ pc' = "aborted"
                /\ stateEntMap' = [stateEntMap EXCEPT ![curState] = "null"]
                /\ UNCHANGED <<outbox, evVars>>
           ELSE /\ pc' = "ws"
                /\ stateEntMap' = MapAfterGetCurTime
                /\ outbox' = IF asked \/ start THEN Append(outbox, OtherMsg) ELSE outbox
                /\ IF start THEN ScheduleSyncStart ELSE UNCHANGED evVars
  /\ UNCHANGED <<reqVars, cfgVars, handlerOf, inbox, purgOver, boundVars>>

\* webSocketClient.loop(): handleWebSocketEvent pushes the message it was given.
WebSocketLoop ==
  /\ pc = "ws"
  /\ \/ UNCHANGED <<inbox, rx>>
     \/ /\ rx < MaxRx
        /\ rx' = rx + 1
        /\ \E m \in InMsg : inbox' = Append(inbox, m)
  /\ pc' = "loop"
  /\ UNCHANGED <<stateEntMap, reqVars, cfgVars, evVars, handlerOf, outbox, purgOver, calls, resends>>

\* Init::loop and Purg::loop.
InitLoopMutant ==
  IF requestedState = STATE_INIT
  THEN SetRequestedState(initialState, "check")
  ELSE pc' = "check" /\ UNCHANGED requestedState
InitLoop == SetRequestedState(initialState, "check")

PurgLoopMutant == pc' = "check" /\ UNCHANGED requestedState
PurgLoop == SetRequestedState(purgNext, "check")

\* ArduinoOTA.handle() of OTA::loop ends with the upload's onEnd, if one ends.
OtaLoop == SetRequestedState(STATE_RESTART, "check")

RestartLoop == pc' = "restarting" /\ UNCHANGED requestedState

\* stateEnt->loop() of each entity of the library; AppCall has the application's.
StateEntLoop ==
  /\ pc = "loop"
  /\ \/ /\ curState = STATE_INIT
        /\ InitLoop
     \/ /\ curState = STATE_PURG /\ purgOver
        /\ PurgLoop
     \/ /\ curState = STATE_OTA
        /\ OtaLoop
     \/ /\ curState = STATE_RESTART
        /\ RestartLoop
     \/ /\ curState \notin {STATE_INIT, STATE_RESTART}
        /\ ~(curState = STATE_PURG /\ purgOver)
        /\ pc' = "check"
        /\ UNCHANGED requestedState
  /\ UNCHANGED <<stateEntMap, curState, prevState, target, cfgVars, evVars, handlerOf, boxVars,
                 purgOver, boundVars>>

\* update() compares, copies the request and names it; the name of a NULL is a crash.
PendingRequestMutant == requestedState # prevState
PendingRequest == requestedState # curState

CheckRequest ==
  /\ pc = "check"
  /\ \/ /\ ~PendingRequest
        /\ pc' = "inbox"
        /\ UNCHANGED target
     \/ /\ PendingRequest
        /\ target' = requestedState
        /\ pc' = IF stateEntMap[requestedState] = "null" THEN "aborted" ELSE "pre"
  /\ UNCHANGED <<stateEntMap, curState, prevState, requestedState, cfgVars, evVars, handlerOf,
                 boxVars, purgOver, boundVars>>

\* deactivateEvents: every event of the entity stops, the temporary ones are deleted.
DeactivateMutant ==
  /\ eventMap' = [eventMap EXCEPT ![curState] = @ \ {"temp"}]
  /\ eventOn'  = [eventOn  EXCEPT ![curState] = @ \ {"temp"}]
Deactivate ==
  /\ eventMap' = [eventMap EXCEPT ![curState] = @ \ {"temp"}]
  /\ eventOn'  = [eventOn  EXCEPT ![curState] = {}]

\* What a master that is not detached tells the others about its next state.
MayAnnounceMutant == isMaster
MayAnnounce == isMaster /\ ~detached
SendStateChangeMessagesMutant == Append(outbox, Announcement(requestedState))
SendStateChangeMessages == Append(outbox, Announcement(target))

\* Base::preStateChange: stateEntMap.at(s) throws for an id that is not there.
PreStateChange ==
  /\ pc = "pre"
  /\ \/ /\ stateEntMap[target] # "ent"
        /\ pc' = "aborted"
        /\ UNCHANGED <<evVars, outbox>>
     \/ /\ stateEntMap[target] = "ent"
        /\ pc' = "change"
        /\ Deactivate
        /\ outbox' = IF MayAnnounce THEN SendStateChangeMessages ELSE outbox
  /\ UNCHANGED <<stateEntMap, reqVars, cfgVars, handlerOf, inbox, purgOver, boundVars>>

\* Base::handleStateChange up to the call of setup(), and Base::setup's events.
HandleStateChange ==
  /\ pc = "change"
  /\ \/ /\ stateEntMap[target] = "absent"
        /\ pc' = "inbox"
        /\ UNCHANGED <<curState, prevState, eventOn, purgOver>>
     \/ /\ stateEntMap[target] = "null"
        /\ pc' = "aborted"
        /\ UNCHANGED <<curState, prevState, eventOn, purgOver>>
     \/ /\ stateEntMap[target] = "ent"
        /\ prevState' = curState
        /\ curState' = target
        /\ eventOn' = [eventOn EXCEPT ![target] = eventMap[target]]
        /\ purgOver' = FALSE
        /\ pc' = "setup"
  /\ UNCHANGED <<stateEntMap, requestedState, target, cfgVars, eventMap, handlerOf, boxVars,
                 boundVars>>

\* setup() returned: the handlers of the new entity are installed.
InstallHandlers ==
  /\ pc = "setup"
  /\ handlerOf' = curState
  /\ pc' = "inbox"
  /\ UNCHANGED <<stateEntMap, reqVars, cfgVars, evVars, boxVars, purgOver, boundVars>>

-----------------------------------------------------------------------------
(* The application.  Its string handlers and event callbacks run in every   *)
(* state; its entities add their handlers, WebSocket callbacks, loop(),     *)
(* preStateChange() and setup() while one of them is the current state.     *)

AppRuns ==
  \/ pc \in {"serial", "events"}
  \/ curState \in AppStates /\ pc \in {"inbox", "outbox", "ws", "loop", "pre", "setup"}
  \/ curState \in AppStates /\ pc = "change" /\ LateCalls

AddStateEnt(s) == stateEntMap' = [stateEntMap EXCEPT ![s] = "ent"]

RemoveStateEnt(s) == stateEntMap' = [stateEntMap EXCEPT ![s] = "absent"]

\* setPurgNext: operator[] again, and a call through the NULL it may return.
SetPurgNext(n) ==
  \/ /\ stateEntMap[STATE_PURG] = "ent"
     /\ purgNext' = n
     /\ UNCHANGED <<stateEntMap, pc>>
  \/ /\ stateEntMap[STATE_PURG] # "ent"
     /\ stateEntMap' = [stateEntMap EXCEPT ![STATE_PURG] = "null"]
     /\ pc' = "aborted"
     /\ UNCHANGED purgNext

AddEvent(k) ==
  /\ eventMap' = [eventMap EXCEPT ![curState] = @ \cup {k}]
  /\ eventOn'  = [eventOn  EXCEPT ![curState] = @ \cup {k}]

RemoveEvent(k) ==
  /\ eventMap' = [eventMap EXCEPT ![curState] = @ \ {k}]
  /\ eventOn'  = [eventOn  EXCEPT ![curState] = @ \ {k}]

AppCall ==
  /\ AppRuns /\ calls < MaxCalls
  /\ calls' = calls + 1
  /\ \/ /\ \E s \in CallStates : SetRequestedState(s, pc)
        /\ UNCHANGED <<stateEntMap, cfgVars, evVars>>
     \/ /\ \E s \in CallStates \ ForeignStates : stateEntMap[s] # "ent" /\ AddStateEnt(s)
        /\ UNCHANGED <<requestedState, cfgVars, evVars, pc>>
     \/ /\ \E s \in RemovableStates : RemoveStateEnt(s)
        /\ UNCHANGED <<requestedState, cfgVars, evVars, pc>>
     \/ /\ initialState' \in CallStates
        /\ UNCHANGED <<stateEntMap, requestedState, purgNext, isMaster, detached, evVars, pc>>
     \/ /\ \E n \in CallStates : SetPurgNext(n)
        /\ UNCHANGED <<requestedState, initialState, isMaster, detached, evVars>>
     \/ /\ isMaster' \in BOOLEAN
        /\ UNCHANGED <<stateEntMap, requestedState, initialState, purgNext, detached, evVars, pc>>
     \/ /\ detached' \in BOOLEAN
        /\ UNCHANGED <<stateEntMap, requestedState, initialState, purgNext, isMaster, evVars, pc>>
     \/ /\ \E k \in Kinds : AddEvent(k) \/ RemoveEvent(k)
        /\ UNCHANGED <<stateEntMap, requestedState, cfgVars, pc>>
  /\ UNCHANGED <<curState, prevState, target, handlerOf, boxVars, purgOver, rx, resends>>

-----------------------------------------------------------------------------
(* The WiFi task, and time.                                                 *)

OnESPNowDataRecv ==
  /\ pc \notin {"aborted", "restarting"}
  /\ rx < MaxRx
  /\ rx' = rx + 1
  /\ \E m \in InMsg : inbox' = Append(inbox, m)
  /\ UNCHANGED <<stateEntMap, reqVars, cfgVars, evVars, handlerOf, outbox, purgOver, pc,
                 calls, resends>>

OnESPNowDataSent ==   \* not delivered, and sent again
  /\ pc \notin {"aborted", "restarting"}
  /\ resends < MaxResends
  /\ resends' = resends + 1
  /\ outbox' = Append(outbox, RetryMsg)
  /\ UNCHANGED <<stateEntMap, reqVars, cfgVars, evVars, handlerOf, inbox, purgOver, pc, rx, calls>>

PurgElapse ==
  /\ curState = STATE_PURG /\ ~purgOver
  /\ pc \notin {"aborted", "restarting"}
  /\ purgOver' = TRUE
  /\ UNCHANGED <<stateEntMap, reqVars, cfgVars, evVars, handlerOf, boxVars, pc, boundVars>>

-----------------------------------------------------------------------------
Update ==
  \/ HandleInboxMsg \/ InboxEmpty \/ HandleOutboxMsg \/ OutboxEmpty
  \/ HandleUserInput \/ RunEvents \/ WebSocketLoop \/ StateEntLoop
  \/ CheckRequest \/ PreStateChange \/ HandleStateChange \/ InstallHandlers

Next == Update \/ Reboot \/ AppCall \/ OnESPNowDataRecv \/ OnESPNowDataSent \/ PurgElapse

Spec == Init /\ [][Next]_vars

\* The sketch's loop() calls update() for ever, a device that aborts or restarts boots
\* again, and time passes.  Nothing is assumed of the application, of the network or of
\* which branch a phase takes.
FairSpec == Spec /\ WF_vars(Update) /\ WF_vars(Reboot) /\ WF_vars(PurgElapse)

-----------------------------------------------------------------------------
(* Properties.                                                              *)

AnnouncedAt == {i \in DOMAIN outbox : outbox[i].type = "CHANGE_STATE"}

\* What a device tells the others is what it does.  update() takes its own copy of the
\* request before preStateChange because "Requested state may have changed between last
\* and next function call" (base.cpp:159): whatever the application requests in the
\* middle of a change, the announcement in the outbox is the only one, it is for the
\* state being entered, and it is sent before update() can change state or restart again.
AnnouncementsTruthful ==
  pc # "aborted" =>
    \A i \in AnnouncedAt :
      /\ pc \in {"change", "setup", "inbox", "outbox"}
      /\ outbox[i].state = IF pc = "change" THEN target ELSE curState
      /\ AnnouncedAt = {i}

\* A master that is not detached announces every state it enters and no other device
\* announces any: at the moment of the change, whatever the WiFi task queued meanwhile.
ChangesAnnounced ==
  [][pc = "change" /\ pc' = "setup" =>
       ((\E i \in AnnouncedAt' : outbox'[i].state = curState') <=> (isMaster' /\ ~detached'))]_vars

\* Init::loop has the last word: a device leaves STATE_INIT for its initial state, if
\* that is one it can enter, whatever messages, commands and callbacks requested before.
BootPath ==
  [][(/\ curState = STATE_INIT /\ curState' # STATE_INIT
      /\ initialState # STATE_INIT /\ stateEntMap[initialState] = "ent")
     => curState' = initialState]_vars

\* Events belong to the entity that is current: no other entity has a running event or
\* keeps a temporary one (deactivateEvents), and what update() runs next is driven by the
\* handlers of the current state and not by those of the one before.
EntityCoherent ==
  /\ \A s \in StateIds \ {curState} : eventOn[s] = {} /\ "temp" \notin eventMap[s]
  /\ \A s \in StateIds : eventOn[s] \subseteq eventMap[s]
  /\ pc \notin {"setup", "aborted"} => handlerOf = curState

\* No request can bring the device down while the other devices send the states it knows
\* and the application removes none: stateEntMap.at(s) never throws, no NULL is called.
NoAbort == pc # "aborted"

\* "Requested state ... is not recognized, not setting." (base.cpp:1181-1183): the requested
\* state has an entity.  handleInboxMsg sets it without asking (base.cpp:220, 311).
RequestedIsRecognized == Recognized(requestedState)

\* A request for a state that can be entered is served, unless another one replaces it, the
\* device restarts or the state is removed, even though requests arrive from three sides.
RequestServed ==
  \A s \in StateIds :
    (requestedState = s /\ curState # s /\ stateEntMap[s] = "ent")
      ~> (curState = s \/ requestedState # s \/ stateEntMap[s] # "ent")

\* A device that is in STATE_INIT, after power-on or after a crash, gets out of it, if its
\* initial state can be entered at all.
BootCompletes ==
  (curState = STATE_INIT)
    ~> (curState # STATE_INIT \/ initialState = STATE_INIT \/ stateEntMap[initialState] # "ent")

\* Purgatory ends: the timer of Purg::loop is restarted by setup() at every entry, and the
\* state it leads to is entered if nothing else takes the device away first.
PurgatoryEnds ==
  (curState = STATE_PURG)
    ~> (curState # STATE_PURG \/ purgNext = STATE_PURG \/ stateEntMap[purgNext] # "ent")

=============================================================================
