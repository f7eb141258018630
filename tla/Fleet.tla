------------------------------- MODULE Fleet -------------------------------
(***************************************************************************)
(* How the devices of a fleet follow their master: its changes of state,   *)
(* the announcements that the link carries to the others, and what each    *)
(* of them makes of an announcement.                                       *)
(*                                                                         *)
(* The master's sender is EspNowLink; here it is run by update(), which    *)
(* empties the inbox, then the outbox, and changes the state last.  The    *)
(* devices know each other, and nobody is detached.                        *)
(***************************************************************************)
EXTENDS EspNowLink

CONSTANTS
  States, InitialState,
  STATE_INIT,            \* the state of a device that boots
  Changes,               \* the changes of state that the master's application asks for
  Restarting             \* bound: the other devices that restart, each of them once

ASSUME FleetAssumption == 
  /\ InitialState \in States /\ STATE_INIT \notin States
  /\ Changes \subseteq States \X States /\ Restarting \subseteq Peers

VARIABLES
  phase,       \* of the master's update(): "inbox", "outbox", "rest"
  curState,    \* of the master
  stateIn,     \* message number -> the state that it announces
  inbox,       \* peer -> the numbers of the announcements in its inbox
  requested,   \* peer -> its requestedState
  cur,         \* peer -> its curState
  drained,     \* peer -> update() has found its inbox empty and a change of state due
  handled,     \* history: peer -> the last announcement that it handled
  unaware,     \* history: the peers that have restarted and, since their boot was done, handled
               \* no announcement
  restarted    \* history: the peers that have restarted

masterVars == <<phase, curState, stateIn>>
peerVars   == <<inbox, requested, cur, drained, handled, unaware, restarted>>
fleetVars  == <<vars, masterVars, peerVars>>

DeviceStates == States \cup {STATE_INIT}

FleetTypeOK ==
  /\ TypeOK
  /\ phase \in {"inbox", "outbox", "rest"}
  /\ curState \in States /\ stateIn \in [MsgNos -> States]
  /\ inbox \in [Peers -> Seq(MsgNos)]
  /\ requested \in [Peers -> DeviceStates] /\ cur \in [Peers -> DeviceStates]
  /\ drained \in [Peers -> BOOLEAN]
  /\ handled \in [Peers -> MsgNos] /\ unaware \subseteq Peers
  /\ restarted \subseteq Restarting

\* After the handshakes, with every device in its initial state.
FleetInit ==
  /\ peers = Peers /\ macToID = Peers /\ paired = Peers
  /\ asked = Peers /\ asking = {}
  /\ lastMsg = [p \in Ids |-> Blank]
  /\ outbox = <<>> /\ sending = Idle /\ air = <<>> /\ cb = Idle
  /\ pushed = 0 /\ losses = 0 /\ scans = 0 /\ handshakes = 0
  /\ order = [n \in MsgNos |-> [to |-> {}, maxRetries |-> 0]]
  /\ tx = [n \in MsgNos |-> [p \in Ids |-> 0]] /\ refused = {}
  /\ phase = "inbox" /\ curState = InitialState
  /\ stateIn = [n \in MsgNos |-> InitialState]
  /\ inbox = [p \in Peers |-> <<>>]
  /\ requested = [p \in Peers |-> InitialState] /\ cur = [p \in Peers |-> InitialState]
  /\ drained = [p \in Peers |-> FALSE]
  /\ handled = [p \in Peers |-> 0] /\ unaware = {} /\ restarted = {}

-----------------------------------------------------------------------------
(* The master.                                                              *)

\* A peer that has restarted asks for a handshake, and is answered.
HandleHandshakeRequest ==
  /\ phase = "inbox"
  /\ handshakes < Cardinality(restarted)
  /\ ReceiveHandshakeRequest
  /\ \E p \in restarted : outbox' = Append(outbox, Handshake(p))
  /\ UNCHANGED <<masterVars, peerVars>>

\* outbox.handleMessages goes on until the outbox is empty.
EmptyOutbox ==
  /\ phase = "outbox"
  /\ HandleOutboxMsg \/ SendDone \/ \E p \in Ids : SendTo(p)
  /\ UNCHANGED <<masterVars, peerVars>>

NextPhase ==
  /\ Ready
  /\ \/ phase = "inbox" /\ phase' = "outbox"
     \/ phase = "outbox" /\ outbox = <<>> /\ phase' = "rest"
     \/ phase = "rest" /\ phase' = "inbox"
  /\ UNCHANGED <<vars, curState, stateIn, peerVars>>

\* preStateChange and handleStateChange: the announcement is pushed to everyone, with retries.
ChangeState(s) ==
  /\ phase = "rest" /\ s # curState /\ <<curState, s>> \in Changes
  /\ PushOutbox
  /\ order'[pushed'] = [to |-> {}, maxRetries |-> DEFAULT_RETRIES]
  /\ curState' = s
  /\ stateIn' = [stateIn EXCEPT ![pushed'] = s]
  /\ phase' = "inbox"
  /\ UNCHANGED peerVars

-----------------------------------------------------------------------------
(* The driver.  A frame that is reported as not delivered may have arrived  *)
(* all the same, if it is the acknowledgement that was lost.                *)

Arrives(f) ==
  inbox' = IF f.no # 0 THEN [inbox EXCEPT ![f.to] = Append(@, f.no)] ELSE inbox

Report ==
  /\ \/ Delivered /\ Arrives(Head(air))
     \/ NotDelivered /\ (Arrives(Head(air)) \/ UNCHANGED inbox)
  /\ UNCHANGED <<masterVars, requested, cur, drained, handled, unaware, restarted>>

QueueAgain == Requeue /\ UNCHANGED <<masterVars, peerVars>>

-----------------------------------------------------------------------------
(* The other devices.                                                       *)

\* CHANGE_STATE, whatever was requested before, and also while the device boots.
FirstRequestWinsMutant(p, n) == IF requested[p] # cur[p] THEN requested[p] ELSE stateIn[n]
RequestAfter(p, n) == stateIn[n]

HandleInboxMsg(p) ==
  /\ inbox[p] # <<>> /\ ~drained[p]
  /\ LET n == Head(inbox[p])
     IN  /\ requested' = [requested EXCEPT ![p] = RequestAfter(p, n)]
         /\ handled' = [handled EXCEPT ![p] = n]
  /\ inbox' = [inbox EXCEPT ![p] = Tail(@)]
  /\ unaware' = IF cur[p] = STATE_INIT THEN unaware ELSE unaware \ {p}
  /\ UNCHANGED <<vars, masterVars, cur, drained, restarted>>

\* The request at the end of update(): Init::loop has asked for the initial state by then,
\* whatever was asked for before.
RequestAtCheck(p) == IF cur[p] = STATE_INIT THEN InitialState ELSE requested[p]

InboxEmpty(p) ==
  /\ inbox[p] = <<>> /\ ~drained[p] /\ RequestAtCheck(p) # cur[p]
  /\ drained' = [drained EXCEPT ![p] = TRUE]
  /\ requested' = [requested EXCEPT ![p] = RequestAtCheck(p)]
  /\ UNCHANGED <<vars, masterVars, inbox, cur, handled, unaware, restarted>>

HandleStateChange(p) ==
  /\ drained[p] /\ drained' = [drained EXCEPT ![p] = FALSE]
  /\ cur' = [cur EXCEPT ![p] = requested[p]]
  /\ UNCHANGED <<vars, masterVars, inbox, requested, handled, unaware, restarted>>

\* The device boots again, and nobody tells it the present state.
Restart(p) ==
  /\ p \in Restarting \ restarted /\ restarted' = restarted \cup {p}
  /\ inbox' = [inbox EXCEPT ![p] = <<>>]
  /\ requested' = [requested EXCEPT ![p] = STATE_INIT]
  /\ cur' = [cur EXCEPT ![p] = STATE_INIT]
  /\ drained' = [drained EXCEPT ![p] = FALSE]
  /\ unaware' = unaware \cup {p}
  /\ UNCHANGED <<vars, masterVars, handled>>

-----------------------------------------------------------------------------
MasterLoop  == EmptyOutbox \/ NextPhase
Driver      == Report \/ QueueAgain
Follower(p) == HandleInboxMsg(p) \/ InboxEmpty(p) \/ HandleStateChange(p)

FleetNext ==
  \/ MasterLoop \/ Driver
  \/ HandleHandshakeRequest \/ \E s \in States : ChangeState(s)
  \/ \E p \in Peers : Follower(p) \/ Restart(p)

\* Every loop thread keeps calling update(), and the driver reports on every frame.
FleetSpec ==
  /\ FleetInit /\ [][FleetNext]_fleetVars
  /\ WF_fleetVars(MasterLoop) /\ WF_fleetVars(Driver)
  /\ \A p \in Peers : WF_fleetVars(Follower(p))

-----------------------------------------------------------------------------
(* Properties.                                                              *)

\* The devices follow their master: what they hear of is its path through the states, in order,
\* and the last of it is its present state.  A retry is queued behind what is in the outbox
\* (base.cpp:650), and yet no device goes back to an announcement after a later one, because
\* the outbox is emptied before the state changes again: as long as each callback comes within
\* the delay after its send.
MasterPath == [i \in 1 .. pushed + 1 |-> IF i = pushed + 1 THEN curState ELSE stateIn[i - 1]]
AfterBoot(s) == IF s = STATE_INIT THEN InitialState ELSE s
Follow == INSTANCE Following WITH
            Followers <- Peers, path <- MasterPath, place <- [p \in Peers |-> handled[p] + 1],
            wanted <- [p \in Peers |-> AfterBoot(requested[p])],
            entered <- [p \in Peers |-> AfterBoot(cur[p])]
FollowsMaster == Follow!Spec

\* Every device ends up in the state of the master, unless it hears of nothing after it has
\* restarted, where what it hears of while it boots does not count (init.cpp:90); or the driver
\* refuses to send it the last announcement, of which nobody hears (base.cpp:880); or more frames
\* are lost than a message is sent again: half as often as it asks for, because every retry is
\* counted twice (base.cpp:648).
Resends == (DEFAULT_RETRIES + 1) \div 2
Told    == {p \in Peers \ unaware : <<pushed, p>> \notin refused}
Converges == <>[](losses > Resends \/ \A p \in Told : cur[p] = curState)

\* It does not take waiting for ever: as soon as nothing is left to send, to retry or to handle,
\* no device is in another state than the master, but for the same reasons.
MasterRests == outbox = <<>> /\ sending = Idle /\ air = <<>> /\ cb = Idle
Rests(p)    == inbox[p] = <<>> /\ requested[p] = cur[p]
RestsInStep ==
  MasterRests => losses > Resends \/ \A p \in Told : Rests(p) => cur[p] = curState

=============================================================================
