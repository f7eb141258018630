------------------------- MODULE StateManagerProofs -------------------------
(***************************************************************************)
(* Theorems about the state manager, for any set of state ids, any build   *)
(* flags and any bounds.                                                   *)
(***************************************************************************)
EXTENDS StateManager, TLAPS, SequenceTheorems

\* What setRequestedState leaves in the request and in the phase.
LEMMA SetRequestedStateType ==
  ASSUME TypeOK, NEW s \in StateIds, NEW next \in Phases, SetRequestedState(s, next)
  PROVE  requestedState' \in StateIds /\ pc' \in Phases
  BY DEF TypeOK, SetRequestedState, Phases, Recognized

\* The part of StatesAssumption that typing needs.
LEMMA Constants ==
  /\ InitialState \in StateIds /\ WireStates \subseteq StateIds
  /\ CallStates \subseteq StateIds /\ RemovableStates \subseteq StateIds
  /\ MASTER \in BOOLEAN /\ MaxRx \in Nat /\ MaxCalls \in Nat /\ MaxResends \in Nat
  BY StatesAssumption DEF StatesAssumption

\* What the outbox may be given.
LEMMA OutMsgType ==
  /\ OtherMsg \in OutMsg /\ RetryMsg \in OutMsg
  /\ \A s \in StateIds : Announcement(s) \in OutMsg
  BY DEF OutMsg

\* Appending to the boxes.
LEMMA AppendType ==
  ASSUME TypeOK
  PROVE  /\ \A m \in InMsg : Append(inbox, m) \in Seq(InMsg)
         /\ \A m \in OutMsg : Append(outbox, m) \in Seq(OutMsg)
  BY AppendProperties DEF TypeOK

\* Adding a temporary event to an entity keeps the event maps well typed.
LEMMA ScheduleSyncStartType ==
  ASSUME TypeOK, ScheduleSyncStart
  PROVE  eventMap' \in [StateIds -> SUBSET Kinds] /\ eventOn' \in [StateIds -> SUBSET Kinds]
<1>1. \A K \in SUBSET Kinds : K \cup {"temp"} \in SUBSET Kinds
  BY DEF Kinds
<1> QED BY <1>1 DEF TypeOK, ScheduleSyncStart

\* The state after begin() is well typed.
LEMMA BootType ==
  /\ Registered \in [StateIds -> {"absent", "ent", "null"}]
  /\ [s \in StateIds |-> {}] \in [StateIds -> SUBSET Kinds]
  /\ STATE_INIT \in StateIds /\ STATE_IDLE_BASE \in StateIds
  /\ "inbox" \in Phases
  /\ <<>> \in Seq(InMsg) /\ <<>> \in Seq(OutMsg)
  BY EmptySeq DEF Registered, StateIds, BuiltIn, Phases

LEMMA BuiltInStates == BuiltIn \subseteq StateIds
  BY DEF StateIds

\* Every reachable state has its type.
THEOREM TypeCorrect == Spec => []TypeOK
<1> USE Constants
<1>1. Init => TypeOK
  <2> SUFFICES ASSUME Init PROVE TypeOK
    OBVIOUS
  <2>1. isMaster \in BOOLEAN /\ detached \in BOOLEAN /\ purgOver \in BOOLEAN
    BY DEF Init
  <2>2. rx \in 0..MaxRx /\ calls \in 0..MaxCalls /\ resends \in 0..MaxResends
    BY DEF Init
  <2> QED BY <2>1, <2>2, BootType DEF Init, TypeOK
<1>2. TypeOK /\ [Next]_vars => TypeOK'
  <2> SUFFICES ASSUME TypeOK, [Next]_vars PROVE TypeOK'
    OBVIOUS
  <2>1. CASE HandleInboxMsg
    <3>1. Head(inbox) \in InMsg /\ inbox' \in Seq(InMsg)
      BY <2>1 DEF HandleInboxMsg, TypeOK
    <3>2. requestedState' \in StateIds
      BY <2>1, <3>1 DEF HandleInboxMsg, TypeOK, RequestAfter, InMsg
    <3>3. outbox' \in Seq(OutMsg)
      BY <2>1, OutMsgType, AppendType DEF HandleInboxMsg, TypeOK
    <3>4. eventMap' \in [StateIds -> SUBSET Kinds] /\ eventOn' \in [StateIds -> SUBSET Kinds]
      BY <2>1, ScheduleSyncStartType DEF HandleInboxMsg, TypeOK, evVars
    <3> QED BY <2>1, <3>1, <3>2, <3>3, <3>4 DEF HandleInboxMsg, TypeOK, cfgVars, boundVars
  <2>2. CASE InboxEmpty
    BY <2>2 DEF InboxEmpty, TypeOK, Phases, reqVars, cfgVars, evVars, boxVars, boundVars
  <2>3. CASE HandleOutboxMsg
    BY <2>3 DEF HandleOutboxMsg, TypeOK, reqVars, cfgVars, evVars, boundVars
  <2>4. CASE OutboxEmpty
    BY <2>4 DEF OutboxEmpty, TypeOK, Phases, reqVars, cfgVars, evVars, boxVars, boundVars
  <2>5. CASE HandleUserInput
    <3>1. requestedState' \in StateIds /\ pc' \in Phases
      BY <2>5, SetRequestedStateType, BuiltInStates DEF HandleUserInput, TypeOK, Phases, BuiltIn
    <3>2. detached' \in BOOLEAN
      BY <2>5 DEF HandleUserInput, TypeOK
    <3>3. outbox' \in Seq(OutMsg)
      BY <2>5, OutMsgType, AppendType DEF HandleUserInput, TypeOK
    <3> QED BY <2>5, <3>1, <3>2, <3>3 DEF HandleUserInput, TypeOK, evVars, boundVars
  <2>6. CASE RunEvents
    <3>1. stateEntMap' \in [StateIds -> {"absent", "ent", "null"}] /\ pc' \in Phases
      BY <2>6 DEF RunEvents, TypeOK, MapAfterGetCurTime, Phases
    <3>2. outbox' \in Seq(OutMsg)
      BY <2>6, OutMsgType, AppendType DEF RunEvents, TypeOK
    <3>3. eventMap' \in [StateIds -> SUBSET Kinds] /\ eventOn' \in [StateIds -> SUBSET Kinds]
      BY <2>6, ScheduleSyncStartType DEF RunEvents, TypeOK, evVars
    <3> QED BY <2>6, <3>1, <3>2, <3>3 DEF RunEvents, TypeOK, reqVars, cfgVars, boundVars
  <2>7. CASE WebSocketLoop
    <3>1. inbox' \in Seq(InMsg)
      BY <2>7, AppendType DEF WebSocketLoop, TypeOK
    <3>2. rx' \in 0..MaxRx
      BY <2>7 DEF WebSocketLoop, TypeOK
    <3> QED BY <2>7, <3>1, <3>2 DEF WebSocketLoop, TypeOK, Phases, reqVars, cfgVars, evVars
  <2>8. CASE StateEntLoop
    <3>1. requestedState' \in StateIds /\ pc' \in Phases
      BY <2>8, SetRequestedStateType, BuiltInStates
      DEF StateEntLoop, InitLoop, PurgLoop, OtaLoop, RestartLoop, TypeOK, Phases, BuiltIn
    <3> QED BY <2>8, <3>1 DEF StateEntLoop, TypeOK, cfgVars, evVars, boxVars, boundVars
  <2>9. CASE CheckRequest
    BY <2>9 DEF CheckRequest, TypeOK, Phases, cfgVars, evVars, boxVars, boundVars
  <2>10. CASE PreStateChange
    <3>1. outbox' \in Seq(OutMsg)
      BY <2>10, OutMsgType, AppendType DEF PreStateChange, TypeOK, SendStateChangeMessages
    <3>2. eventMap' \in [StateIds -> SUBSET Kinds] /\ eventOn' \in [StateIds -> SUBSET Kinds]
      BY <2>10 DEF PreStateChange, TypeOK, Deactivate, evVars
    <3> QED BY <2>10, <3>1, <3>2 DEF PreStateChange, TypeOK, Phases, reqVars, cfgVars, boundVars
  <2>11. CASE HandleStateChange
    BY <2>11 DEF HandleStateChange, TypeOK, Phases, cfgVars, boxVars, boundVars
  <2>12. CASE InstallHandlers
    BY <2>12 DEF InstallHandlers, TypeOK, Phases, reqVars, cfgVars, evVars, boxVars, boundVars
  <2>13. CASE Reboot
    BY <2>13, BootType DEF Reboot, TypeOK, boundVars
  <2>14. CASE AppCall
    <3>1. requestedState' \in StateIds /\ pc' \in Phases
      BY <2>14, SetRequestedStateType DEF AppCall, TypeOK, SetPurgNext, Phases
    <3>2. stateEntMap' \in [StateIds -> {"absent", "ent", "null"}]
      BY <2>14 DEF AppCall, TypeOK, AddStateEnt, RemoveStateEnt, SetPurgNext
    <3>3. eventMap' \in [StateIds -> SUBSET Kinds] /\ eventOn' \in [StateIds -> SUBSET Kinds]
      BY <2>14 DEF AppCall, TypeOK, AddEvent, RemoveEvent, evVars
    <3>4. initialState' \in StateIds /\ purgNext' \in StateIds
      BY <2>14 DEF AppCall, TypeOK, SetPurgNext, cfgVars
    <3>5. isMaster' \in BOOLEAN /\ detached' \in BOOLEAN
      BY <2>14 DEF AppCall, TypeOK, SetPurgNext, cfgVars
    <3>6. calls' \in 0..MaxCalls
      BY <2>14 DEF AppCall, TypeOK
    <3> QED BY <2>14, <3>1, <3>2, <3>3, <3>4, <3>5, <3>6 DEF AppCall, TypeOK, boxVars
  <2>15. CASE OnESPNowDataRecv
    BY <2>15 DEF OnESPNowDataRecv, TypeOK, reqVars, cfgVars, evVars
  <2>16. CASE OnESPNowDataSent
    BY <2>16, OutMsgType, AppendType DEF OnESPNowDataSent, TypeOK, reqVars, cfgVars, evVars
  <2>17. CASE PurgElapse
    BY <2>17 DEF PurgElapse, TypeOK, reqVars, cfgVars, evVars, boxVars, boundVars
  <2>18. CASE UNCHANGED vars
    BY <2>18 DEF vars, TypeOK, reqVars, cfgVars, evVars, boxVars, boundVars
  <2> QED BY <2>1, <2>2, <2>3, <2>4, <2>5, <2>6, <2>7, <2>8, <2>9, <2>10, <2>11, <2>12,
             <2>13, <2>14, <2>15, <2>16, <2>17, <2>18 DEF Next, Update
<1> QED BY <1>1, <1>2, PTL DEF Spec

-----------------------------------------------------------------------------
(* Announcements.                                                           *)

\* The three ways in which the outbox changes, and what each does to the announcements.
LEMMA OutboxDomain ==
  ASSUME TypeOK
  PROVE  /\ DOMAIN outbox = 1..Len(outbox) /\ Len(outbox) \in Nat
         /\ \A i \in DOMAIN outbox : outbox[i] \in OutMsg
  BY LenProperties, ElementOfSeq DEF TypeOK

LEMMA AppendKeepsAnnouncements ==
  ASSUME TypeOK, NEW m \in {OtherMsg, RetryMsg}, outbox' = Append(outbox, m)
  PROVE  AnnouncedAt' = AnnouncedAt /\ \A i \in AnnouncedAt : outbox'[i] = outbox[i]
<1>1. m \in OutMsg /\ m.type # "CHANGE_STATE"
  BY OutMsgType DEF OtherMsg, RetryMsg
<1>2. /\ DOMAIN outbox' = 1..(Len(outbox) + 1)
      /\ \A i \in 1..Len(outbox) : outbox'[i] = outbox[i]
      /\ outbox'[Len(outbox) + 1] = m
  BY <1>1, AppendProperties, LenProperties DEF TypeOK
<1> QED BY <1>1, <1>2, OutboxDomain DEF AnnouncedAt

LEMMA AppendAnnounces ==
  ASSUME TypeOK, AnnouncedAt = {}, outbox' = SendStateChangeMessages
  PROVE  /\ AnnouncedAt' = {Len(outbox) + 1}
         /\ outbox'[Len(outbox) + 1].state = target
<1>1. Announcement(target) \in OutMsg
  BY OutMsgType DEF TypeOK
<1>2. /\ DOMAIN outbox' = 1..(Len(outbox) + 1)
      /\ \A i \in 1..Len(outbox) : outbox'[i] = outbox[i]
      /\ outbox'[Len(outbox) + 1] = Announcement(target)
  BY <1>1, AppendProperties, LenProperties DEF TypeOK, SendStateChangeMessages
<1> QED BY <1>2, OutboxDomain DEF AnnouncedAt, Announcement

LEMMA TailAnnouncements ==
  ASSUME TypeOK, outbox # <<>>, outbox' = Tail(outbox)
  PROVE  \A i \in AnnouncedAt' : i \in Nat /\ i + 1 \in AnnouncedAt /\ outbox'[i] = outbox[i + 1]
<1>1. /\ DOMAIN outbox' = 1..(Len(outbox) - 1)
      /\ \A i \in 1..(Len(outbox) - 1) : outbox'[i] = outbox[i + 1]
  BY HeadTailProperties, LenProperties DEF TypeOK
<1> QED BY <1>1, OutboxDomain DEF AnnouncedAt

\* The inductive invariant behind the announcements: between preStateChange and
\* handleStateChange the target stays enterable, and what was decided stays true.
AnnounceInv ==
  /\ TypeOK
  /\ AnnouncementsTruthful
  /\ pc = "change" => stateEntMap[target] = "ent"
  /\ pc = "change" /\ ~LateCalls => ((AnnouncedAt # {}) <=> (isMaster /\ ~detached))

LEMMA AnnounceInit == Init => AnnouncementsTruthful
  BY DEF Init, AnnouncementsTruthful, AnnouncedAt

\* Steps that leave the outbox, the target and the current state alone, and stay within the
\* phases in which an announcement may wait.
LEMMA QuietStep ==
  ASSUME AnnouncementsTruthful, AnnouncedAt' = AnnouncedAt,
         \A i \in AnnouncedAt : outbox'[i] = outbox[i],
         UNCHANGED <<curState, target>>,
         pc # "aborted",
         pc' = pc \/ pc' = "aborted" \/ AnnouncedAt = {} \/ (pc = "inbox" /\ pc' = "outbox")
                  \/ (pc = "setup" /\ pc' = "inbox")
  PROVE  AnnouncementsTruthful'
  BY DEF AnnouncementsTruthful

\* What the steps of the application leave alone.
LEMMA AppCallFrame ==
  ASSUME AppCall
  PROVE  /\ AppRuns /\ UNCHANGED <<curState, prevState, target, handlerOf, inbox, outbox>>
         /\ pc' \in {pc, "aborted"}
  BY DEF AppCall, SetRequestedState, SetPurgNext, boxVars

\* Each step keeps the announcements truthful.
LEMMA AnnounceStep ==
  ASSUME AnnounceInv, TypeOK', ~LateCalls \/ RemovableStates = {}, [Next]_vars
  PROVE  AnnounceInv'
<1> USE DEF AnnounceInv
<1>1. CASE HandleInboxMsg
  <2>1. AnnouncedAt' = AnnouncedAt /\ \A i \in AnnouncedAt : outbox'[i] = outbox[i]
    BY <1>1, AppendKeepsAnnouncements DEF HandleInboxMsg, AnnouncedAt
  <2> QED BY <1>1, <2>1, QuietStep DEF HandleInboxMsg
<1>2. CASE InboxEmpty
  BY <1>2, QuietStep DEF InboxEmpty, reqVars, boxVars, AnnouncedAt
<1>3. CASE HandleOutboxMsg
  <2>1. \A i \in AnnouncedAt' : i \in Nat /\ i + 1 \in AnnouncedAt /\ outbox'[i] = outbox[i + 1]
    BY <1>3, TailAnnouncements DEF HandleOutboxMsg
  <2>2. ASSUME NEW i \in AnnouncedAt' PROVE AnnouncedAt' = {i}
    <3>1. AnnouncedAt = {i + 1}
      BY <1>3, <2>1 DEF HandleOutboxMsg, AnnouncementsTruthful
    <3>2. \A j \in AnnouncedAt' : j = i
      BY <2>1, <3>1
    <3> QED BY <3>2
  <2>3. AnnouncementsTruthful'
    BY <1>3, <2>1, <2>2 DEF HandleOutboxMsg, reqVars, AnnouncementsTruthful
  <2> QED BY <1>3, <2>3 DEF HandleOutboxMsg
<1>4. CASE OutboxEmpty
  BY <1>4, QuietStep DEF OutboxEmpty, reqVars, boxVars, AnnouncedAt
<1>5. CASE HandleUserInput
  <2>1. AnnouncedAt = {} /\ pc' # "change"
    BY <1>5 DEF HandleUserInput, AnnouncementsTruthful, SetRequestedState
  <2>2. AnnouncedAt' = AnnouncedAt
    BY <1>5, AppendKeepsAnnouncements DEF HandleUserInput, AnnouncedAt
  <2> QED BY <2>1, <2>2 DEF AnnouncementsTruthful
<1>6. CASE RunEvents
  <2>1. AnnouncedAt = {} /\ pc' # "change"
    BY <1>6 DEF RunEvents, AnnouncementsTruthful
  <2>2. AnnouncedAt' = AnnouncedAt
    BY <1>6, AppendKeepsAnnouncements DEF RunEvents, AnnouncedAt
  <2> QED BY <2>1, <2>2 DEF AnnouncementsTruthful
<1>7. CASE WebSocketLoop
  BY <1>7 DEF WebSocketLoop, AnnouncementsTruthful, AnnouncedAt
<1>8. CASE StateEntLoop
  BY <1>8 DEF StateEntLoop, InitLoop, PurgLoop, OtaLoop, RestartLoop, SetRequestedState, boxVars,
              AnnouncementsTruthful, AnnouncedAt
<1>9. CASE CheckRequest
  BY <1>9 DEF CheckRequest, boxVars, AnnouncementsTruthful, AnnouncedAt
<1>10. CASE PreStateChange
  <2>1. AnnouncedAt = {}
    BY <1>10 DEF PreStateChange, AnnouncementsTruthful
  <2>2. CASE pc' = "aborted"
    BY <2>2 DEF AnnouncementsTruthful
  <2>3. CASE pc' = "change" /\ MayAnnounce
    BY <1>10, <2>1, <2>3, AppendAnnounces
    DEF PreStateChange, AnnouncementsTruthful, MayAnnounce, reqVars, cfgVars
  <2>4. CASE pc' = "change" /\ ~MayAnnounce
    BY <1>10, <2>1, <2>4
    DEF PreStateChange, AnnouncementsTruthful, MayAnnounce, reqVars, cfgVars, AnnouncedAt
  <2> QED BY <1>10, <2>2, <2>3, <2>4 DEF PreStateChange
<1>11. CASE HandleStateChange
  <2>1. /\ curState' = target /\ target' = target /\ pc' = "setup" /\ pc = "change"
        /\ outbox' = outbox
    BY <1>11 DEF HandleStateChange, boxVars
  <2> QED BY <2>1 DEF AnnouncementsTruthful, AnnouncedAt
<1>12. CASE InstallHandlers
  BY <1>12, QuietStep DEF InstallHandlers, reqVars, boxVars, AnnouncedAt
<1>13. CASE Reboot
  BY <1>13 DEF Reboot, AnnouncementsTruthful, AnnouncedAt
<1>14. CASE AppCall
  <2>1. AnnouncementsTruthful'
    BY <1>14, AppCallFrame, QuietStep DEF AnnouncedAt, AppRuns
  <2>2. ASSUME pc' = "change"
        PROVE  pc = "change" /\ LateCalls /\ RemovableStates = {}
    BY <1>14, <2>2, AppCallFrame DEF AppRuns
  <2>3. pc' = "change" => stateEntMap'[target] = "ent"
    BY <1>14, <2>2 DEF AppCall, AddStateEnt, SetPurgNext, TypeOK
  <2> QED BY <2>1, <2>2, <2>3, <1>14, AppCallFrame
<1>15. CASE OnESPNowDataRecv
  BY <1>15, QuietStep DEF OnESPNowDataRecv, reqVars, cfgVars, AnnouncedAt
<1>16. CASE OnESPNowDataSent
  <2>1. AnnouncedAt' = AnnouncedAt /\ \A i \in AnnouncedAt : outbox'[i] = outbox[i]
    BY <1>16, AppendKeepsAnnouncements DEF OnESPNowDataSent
  <2> QED BY <1>16, <2>1, QuietStep DEF OnESPNowDataSent, reqVars, cfgVars
<1>17. CASE PurgElapse
  BY <1>17, QuietStep DEF PurgElapse, reqVars, cfgVars, boxVars, AnnouncedAt
<1>18. CASE UNCHANGED vars
  BY <1>18 DEF vars, reqVars, cfgVars, boxVars, AnnouncementsTruthful, AnnouncedAt
<1> QED BY <1>1, <1>2, <1>3, <1>4, <1>5, <1>6, <1>7, <1>8, <1>9, <1>10, <1>11, <1>12,
           <1>13, <1>14, <1>15, <1>16, <1>17, <1>18 DEF Next, Update

LEMMA AnnounceInvariant ==
  ASSUME ~LateCalls \/ RemovableStates = {}
  PROVE  Spec => []AnnounceInv
<1>1. Init /\ TypeOK => AnnounceInv
  BY AnnounceInit DEF AnnounceInv, Init
<1>2. AnnounceInv /\ TypeOK' /\ [Next]_vars => AnnounceInv'
  BY AnnounceStep
<1> QED BY <1>1, <1>2, TypeCorrect, PTL DEF Spec

\* While the application does not both unregister states and call the API in the middle of
\* a change, every announcement in the outbox is for the state the device goes to or is in.
THEOREM AnnouncementsAreTruthful ==
  ASSUME ~LateCalls \/ RemovableStates = {}
  PROVE  Spec => []AnnouncementsTruthful
<1>1. AnnounceInv => AnnouncementsTruthful
  BY DEF AnnounceInv
<1> QED BY <1>1, AnnounceInvariant, PTL

\* A device announces the states it enters exactly when it is a master and not detached.
THEOREM EveryChangeIsAnnounced ==
  ASSUME ~LateCalls
  PROVE  Spec => ChangesAnnounced
<1>1. AnnounceInv /\ [Next]_vars =>
        [pc = "change" /\ pc' = "setup" =>
          ((\E i \in AnnouncedAt' : outbox'[i].state = curState') <=> (isMaster' /\ ~detached'))]_vars
  <2> SUFFICES ASSUME AnnounceInv, Next, pc = "change", pc' = "setup"
               PROVE  (\E i \in AnnouncedAt' : outbox'[i].state = curState')
                        <=> (isMaster' /\ ~detached')
    OBVIOUS
  <2>1. HandleStateChange
    BY AppCallFrame
    DEF Next, Update, HandleInboxMsg, InboxEmpty, HandleOutboxMsg, OutboxEmpty, HandleUserInput,
        RunEvents, WebSocketLoop, StateEntLoop, CheckRequest, PreStateChange, InstallHandlers,
        Reboot, OnESPNowDataRecv, OnESPNowDataSent, PurgElapse
  <2>2. /\ curState' = target /\ outbox' = outbox
        /\ isMaster' = isMaster /\ detached' = detached
    BY <2>1 DEF HandleStateChange, boxVars, cfgVars
  <2>3. \A i \in AnnouncedAt : outbox[i].state = target
    BY DEF AnnounceInv, AnnouncementsTruthful
  <2>4. (AnnouncedAt # {}) <=> (isMaster /\ ~detached)
    BY DEF AnnounceInv
  <2>5. AnnouncedAt' = AnnouncedAt
    BY <2>2 DEF AnnouncedAt
  <2> QED BY <2>2, <2>3, <2>4, <2>5
<1> QED BY <1>1, AnnounceInvariant, PTL DEF Spec, ChangesAnnounced

-----------------------------------------------------------------------------
(* Booting.                                                                 *)

\* Between Init::loop and the change nothing can replace the request: no application code
\* runs in STATE_INIT after the events phase, and the WiFi task only fills the boxes.
BootInv ==
  (/\ curState = STATE_INIT /\ pc \in {"check", "pre", "change"}
   /\ initialState # STATE_INIT /\ stateEntMap[initialState] = "ent")
  => /\ requestedState = initialState
     /\ pc \in {"pre", "change"} => target = initialState

LEMMA InitIsNotAnAppState ==
  STATE_INIT \notin AppStates \cup {STATE_PURG, STATE_OTA, STATE_RESTART}
  BY StatesAssumption DEF StatesAssumption, BuiltIn

LEMMA BootStep ==
  ASSUME BootInv, [Next]_vars
  PROVE  BootInv'
<1> USE DEF BootInv
<1>1. CASE HandleInboxMsg \/ InboxEmpty \/ HandleOutboxMsg \/ OutboxEmpty
  BY <1>1 DEF HandleInboxMsg, InboxEmpty, HandleOutboxMsg, OutboxEmpty
<1>2. CASE HandleUserInput
  BY <1>2 DEF HandleUserInput, SetRequestedState
<1>3. CASE RunEvents \/ WebSocketLoop
  BY <1>3 DEF RunEvents, WebSocketLoop
<1>4. CASE StateEntLoop
  BY <1>4, InitIsNotAnAppState DEF StateEntLoop, InitLoop, PurgLoop, OtaLoop, RestartLoop, SetRequestedState, Recognized, cfgVars
<1>5. CASE CheckRequest
  BY <1>5 DEF CheckRequest, cfgVars
<1>6. CASE PreStateChange
  BY <1>6 DEF PreStateChange, reqVars, cfgVars
<1>7. CASE HandleStateChange \/ InstallHandlers
  BY <1>7 DEF HandleStateChange, InstallHandlers
<1>8. CASE Reboot
  BY <1>8 DEF Reboot
<1>9. CASE AppCall
  BY <1>9, AppCallFrame, InitIsNotAnAppState DEF AppRuns
<1>10. CASE OnESPNowDataRecv \/ OnESPNowDataSent \/ PurgElapse
  BY <1>10 DEF OnESPNowDataRecv, OnESPNowDataSent, PurgElapse, reqVars, cfgVars
<1>11. CASE UNCHANGED vars
  BY <1>11 DEF vars, reqVars, cfgVars
<1> QED BY <1>1, <1>2, <1>3, <1>4, <1>5, <1>6, <1>7, <1>8, <1>9, <1>10, <1>11 DEF Next, Update

\* A device leaves STATE_INIT for its initial state, whatever was requested before.
THEOREM InitialStateComesFirst == Spec => BootPath
<1>1. Init => BootInv
  BY DEF Init, BootInv
<1>2. BootInv /\ [Next]_vars => BootInv'
  BY BootStep
<1>3. BootInv /\ [Next]_vars =>
        [(/\ curState = STATE_INIT /\ curState' # STATE_INIT
          /\ initialState # STATE_INIT /\ stateEntMap[initialState] = "ent")
         => curState' = initialState]_vars
  <2> SUFFICES ASSUME BootInv, Next, curState = STATE_INIT, curState' # STATE_INIT,
                      initialState # STATE_INIT, stateEntMap[initialState] = "ent"
               PROVE  curState' = initialState
    OBVIOUS
  <2>1. HandleStateChange
    BY AppCallFrame
    DEF Next, Update, HandleInboxMsg, InboxEmpty, HandleOutboxMsg, OutboxEmpty, HandleUserInput,
        RunEvents, WebSocketLoop, StateEntLoop, CheckRequest, PreStateChange, InstallHandlers,
        Reboot, OnESPNowDataRecv, OnESPNowDataSent, PurgElapse, reqVars
  <2> QED BY <2>1 DEF HandleStateChange, BootInv
<1> QED BY <1>1, <1>2, <1>3, PTL DEF Spec, BootPath

-----------------------------------------------------------------------------
(* Crashes.                                                                 *)

Known == BuiltIn \cup AppStates

\* With no foreign state on the air and none removed, the map never changes and nothing
\* that is not in it is ever requested.
KnownInv ==
  /\ TypeOK
  /\ stateEntMap = Registered
  /\ curState \in Known /\ requestedState \in Known /\ target \in Known
  /\ pc # "aborted"

LEMMA RegisteredIsKnown ==
  /\ \A s \in StateIds : (Registered[s] = "ent" <=> s \in Known) /\ Registered[s] # "null"
  /\ \A s \in StateIds : Registered[s] # "absent" => s \in Known
  /\ BuiltIn \subseteq Known /\ Known \subseteq StateIds
  /\ \A s \in StateIds \ ForeignStates : s \in Known
  BY DEF Registered, Known, StateIds

LEMMA SetRequestedStateKnown ==
  ASSUME KnownInv, NEW s \in StateIds, NEW next, SetRequestedState(s, next)
  PROVE  requestedState' \in Known /\ pc' = next
  BY RegisteredIsKnown DEF KnownInv, SetRequestedState, Recognized

LEMMA KnownStep ==
  ASSUME KnownInv, TypeOK', WireStates \cap ForeignStates = {}, RemovableStates = {},
         [Next]_vars
  PROVE  KnownInv'
<1> USE RegisteredIsKnown DEF KnownInv
<1>1. CASE HandleInboxMsg
  <2>1. Head(inbox) \in InMsg
    BY <1>1 DEF HandleInboxMsg, TypeOK
  <2>2. requestedState' \in Known
    BY <1>1, <2>1, Constants DEF HandleInboxMsg, InMsg, RequestAfter
  <2> QED BY <1>1, <2>2 DEF HandleInboxMsg
<1>2. CASE InboxEmpty \/ HandleOutboxMsg \/ OutboxEmpty
  BY <1>2 DEF InboxEmpty, HandleOutboxMsg, OutboxEmpty, reqVars
<1>3. CASE HandleUserInput
  BY <1>3, SetRequestedStateKnown DEF HandleUserInput, BuiltIn
<1>4. CASE RunEvents
  BY <1>4 DEF RunEvents, MapAfterGetCurTime, TypeOK, reqVars
<1>5. CASE WebSocketLoop
  BY <1>5 DEF WebSocketLoop, reqVars
<1>6. CASE StateEntLoop
  BY <1>6, SetRequestedStateKnown DEF StateEntLoop, InitLoop, PurgLoop, OtaLoop, RestartLoop, TypeOK, BuiltIn
<1>7. CASE CheckRequest
  BY <1>7 DEF CheckRequest
<1>8. CASE PreStateChange
  BY <1>8 DEF PreStateChange, reqVars
<1>9. CASE HandleStateChange
  BY <1>9 DEF HandleStateChange
<1>10. CASE InstallHandlers
  BY <1>10 DEF InstallHandlers, reqVars
<1>11. CASE Reboot
  BY <1>11 DEF Reboot, BuiltIn
<1>12. CASE AppCall
  <2>1. /\ requestedState' \in Known
        /\ pc' = pc
    BY <1>12, SetRequestedStateKnown, Constants DEF AppCall, SetPurgNext, BuiltIn
  <2>2. stateEntMap' = stateEntMap
    BY <1>12, Constants DEF AppCall, SetPurgNext, BuiltIn
  <2> QED BY <1>12, <2>1, <2>2, AppCallFrame
<1>13. CASE OnESPNowDataRecv \/ OnESPNowDataSent \/ PurgElapse
  BY <1>13 DEF OnESPNowDataRecv, OnESPNowDataSent, PurgElapse, reqVars
<1>14. CASE UNCHANGED vars
  BY <1>14 DEF vars, reqVars
<1> QED BY <1>1, <1>2, <1>3, <1>4, <1>5, <1>6, <1>7, <1>8, <1>9, <1>10, <1>11, <1>12,
           <1>13, <1>14 DEF Next, Update

\* Messages that name only states of this device never bring it down, as long as the
\* application unregisters no state.
THEOREM NoCrash ==
  ASSUME WireStates \cap ForeignStates = {}, RemovableStates = {}
  PROVE  Spec => []NoAbort
<1>1. Init /\ TypeOK => KnownInv
  BY RegisteredIsKnown DEF Init, KnownInv, BuiltIn
<1>2. KnownInv /\ TypeOK' /\ [Next]_vars => KnownInv'
  BY KnownStep
<1>3. KnownInv => NoAbort
  BY DEF KnownInv, NoAbort
<1> QED BY <1>1, <1>2, <1>3, TypeCorrect, PTL DEF Spec

-----------------------------------------------------------------------------
(* Events and handlers.                                                     *)

\* Between preStateChange and handleStateChange the old entity has nothing running either.
CoherentInv ==
  /\ TypeOK
  /\ EntityCoherent
  /\ pc = "change" => eventOn[curState] = {} /\ "temp" \notin eventMap[curState]

\* A step that changes no event, no handler and no current state, and does not reach a
\* phase that asks for more.
LEMMA NoEventStep ==
  ASSUME CoherentInv, TypeOK', UNCHANGED <<curState, eventMap, eventOn, handlerOf>>,
         pc # "aborted", pc' = "change" => pc = "change", pc = "setup" => pc' \in {"setup", "aborted"}
  PROVE  CoherentInv'
  BY DEF CoherentInv, EntityCoherent

LEMMA ScheduleStep ==
  ASSUME CoherentInv, TypeOK', ScheduleSyncStart, UNCHANGED <<curState, handlerOf>>,
         pc \notin {"setup", "aborted", "change"}, pc' # "change"
  PROVE  CoherentInv'
  BY DEF CoherentInv, EntityCoherent, ScheduleSyncStart, TypeOK

LEMMA CoherentStep ==
  ASSUME CoherentInv, TypeOK', ~LateCalls, [Next]_vars
  PROVE  CoherentInv'
<1>1. CASE HandleInboxMsg
  BY <1>1, NoEventStep, ScheduleStep DEF HandleInboxMsg, evVars
<1>2. CASE InboxEmpty \/ HandleOutboxMsg \/ OutboxEmpty
  BY <1>2, NoEventStep DEF InboxEmpty, HandleOutboxMsg, OutboxEmpty, reqVars, evVars
<1>3. CASE HandleUserInput
  BY <1>3, NoEventStep DEF HandleUserInput, SetRequestedState, evVars
<1>4. CASE RunEvents
  BY <1>4, NoEventStep, ScheduleStep DEF RunEvents, reqVars, evVars
<1>5. CASE WebSocketLoop
  BY <1>5, NoEventStep DEF WebSocketLoop, reqVars, evVars
<1>6. CASE StateEntLoop
  BY <1>6, NoEventStep DEF StateEntLoop, InitLoop, PurgLoop, OtaLoop, RestartLoop, SetRequestedState, evVars
<1>7. CASE CheckRequest
  BY <1>7, NoEventStep DEF CheckRequest, evVars
<1>8. CASE PreStateChange
  BY <1>8, NoEventStep
  DEF PreStateChange, Deactivate, CoherentInv, EntityCoherent, TypeOK, reqVars, evVars
<1>9. CASE HandleStateChange
  <2>1. CASE pc' = "setup"
    <3>1. /\ curState' = target /\ eventMap' = eventMap /\ target \in StateIds
          /\ eventOn' = [eventOn EXCEPT ![target] = eventMap[target]]
          /\ pc = "change"
      BY <1>9, <2>1 DEF HandleStateChange, CoherentInv, TypeOK
    <3>2. \A s \in StateIds : eventOn'[s] = IF s = target THEN eventMap[s] ELSE eventOn[s]
      BY <3>1 DEF CoherentInv, TypeOK
    <3>3. \A s \in StateIds \ {target} : eventOn[s] = {} /\ "temp" \notin eventMap[s]
      BY <3>1 DEF CoherentInv, EntityCoherent
    <3> QED BY <2>1, <3>1, <3>2, <3>3 DEF CoherentInv, EntityCoherent
  <2>2. CASE pc' # "setup"
    BY <1>9, <2>2, NoEventStep DEF HandleStateChange
  <2> QED BY <2>1, <2>2
<1>10. CASE InstallHandlers
  BY <1>10 DEF InstallHandlers, CoherentInv, EntityCoherent, reqVars, evVars
<1>11. CASE Reboot
  BY <1>11 DEF Reboot, CoherentInv, EntityCoherent
<1>12. CASE AppCall
  <2>1. CASE UNCHANGED evVars
    BY <1>12, <2>1, AppCallFrame, NoEventStep DEF AppRuns, evVars
  <2>2. CASE \E k \in Kinds : AddEvent(k) \/ RemoveEvent(k)
    BY <1>12, <2>2, AppCallFrame
    DEF AppRuns, AddEvent, RemoveEvent, CoherentInv, EntityCoherent, TypeOK
  <2> QED BY <1>12, <2>1, <2>2 DEF AppCall
<1>13. CASE OnESPNowDataRecv \/ OnESPNowDataSent \/ PurgElapse
  BY <1>13, NoEventStep DEF OnESPNowDataRecv, OnESPNowDataSent, PurgElapse, reqVars, evVars
<1>14. CASE UNCHANGED vars
  BY <1>14 DEF vars, reqVars, evVars, CoherentInv, EntityCoherent
<1> QED BY <1>1, <1>2, <1>3, <1>4, <1>5, <1>6, <1>7, <1>8, <1>9, <1>10, <1>11, <1>12,
           <1>13, <1>14 DEF Next, Update

\* The events that run and the handlers that are installed are those of the current state.
THEOREM EntitiesAreCoherent ==
  ASSUME ~LateCalls
  PROVE  Spec => []EntityCoherent
<1>1. Init /\ TypeOK => CoherentInv
  BY DEF Init, CoherentInv, EntityCoherent
<1>2. CoherentInv /\ TypeOK' /\ [Next]_vars => CoherentInv'
  BY CoherentStep
<1>3. CoherentInv => EntityCoherent
  BY DEF CoherentInv
<1> QED BY <1>1, <1>2, <1>3, TypeCorrect, PTL DEF Spec

=============================================================================
