----------------------------- MODULE FleetProofs -----------------------------
(***************************************************************************)
(* Theorems about a fleet, for any devices and states, any restarts,       *)
(* losses and refusals, and callbacks that come within the delay after     *)
(* their send.                                                             *)
(***************************************************************************)
EXTENDS Fleet, EspNowLinkProofs

LEMMA FleetConstants ==
  /\ InitialState \in States /\ STATE_INIT \notin States
  /\ Changes \subseteq States \X States /\ Restarting \subseteq Peers
  BY FleetAssumption DEF FleetAssumption

-----------------------------------------------------------------------------
(* Types.                                                                   *)

\* Every step of the fleet is a step of the master's sender, or leaves it as it is.
LEMMA LinkSteps ==
  ASSUME [FleetNext]_fleetVars
  PROVE  [Next]_vars
<1>1. CASE UNCHANGED fleetVars
  BY <1>1 DEF fleetVars
<1>2. CASE MasterLoop
  BY <1>2 DEF MasterLoop, EmptyOutbox, NextPhase, Next, Loop
<1>3. CASE Driver
  BY <1>3 DEF Driver, Report, QueueAgain, Next, WiFi
<1>4. CASE HandleHandshakeRequest \/ \E s \in States : ChangeState(s)
  BY <1>4 DEF HandleHandshakeRequest, ChangeState, Next, App
<1>5. CASE \E p \in Peers : Follower(p) \/ Restart(p)
  BY <1>5 DEF Follower, HandleInboxMsg, InboxEmpty, HandleStateChange, Restart
<1> QED BY <1>1, <1>2, <1>3, <1>4, <1>5 DEF FleetNext

\* An announcement that arrives, or none.
LEMMA ArrivesType ==
  ASSUME FleetTypeOK, air # <<>>, Arrives(Head(air))
  PROVE  inbox' \in [Peers -> Seq(MsgNos)]
<1>1. Head(air) \in Frame
  BY DEF FleetTypeOK, TypeOK
<1>2. CASE Head(air).no = 0
  BY <1>2 DEF Arrives, FleetTypeOK
<1>3. CASE Head(air).no # 0
  <2>1. inbox' = [inbox EXCEPT ![Head(air).to] = Append(@, Head(air).no)]
    BY <1>3 DEF Arrives
  <2>2. ASSUME NEW p \in Peers, p = Head(air).to
        PROVE  Append(inbox[p], Head(air).no) \in Seq(MsgNos)
    BY <1>1, <2>2, AppendProperties DEF FleetTypeOK, Frame
  <2> QED BY <2>1, <2>2 DEF FleetTypeOK
<1> QED BY <1>2, <1>3

LEMMA FleetTypeStep ==
  ASSUME FleetTypeOK, [FleetNext]_fleetVars
  PROVE  FleetTypeOK'
<1> USE FleetConstants
<1>1. TypeOK'
  BY LinkSteps, LinkTypeStep DEF FleetTypeOK
<1>2. CASE UNCHANGED fleetVars
  BY <1>1, <1>2 DEF FleetTypeOK, fleetVars, masterVars, peerVars
<1>3. CASE MasterLoop
  <2>1. CASE EmptyOutbox
    BY <1>1, <2>1 DEF EmptyOutbox, FleetTypeOK, masterVars, peerVars
  <2>2. CASE NextPhase
    BY <1>1, <2>2 DEF NextPhase, FleetTypeOK, peerVars
  <2> QED BY <1>3, <2>1, <2>2 DEF MasterLoop
<1>4. CASE Driver
  <2>1. inbox' \in [Peers -> Seq(MsgNos)]
    BY <1>4, ArrivesType DEF Driver, Report, QueueAgain, Delivered, NotDelivered, FleetTypeOK, peerVars
  <2> QED BY <1>1, <1>4, <2>1 DEF Driver, Report, QueueAgain, FleetTypeOK, masterVars, peerVars
<1>5. CASE HandleHandshakeRequest
  BY <1>1, <1>5 DEF HandleHandshakeRequest, FleetTypeOK, masterVars, peerVars
<1>6. ASSUME NEW s \in States, ChangeState(s)
      PROVE  FleetTypeOK'
  BY <1>1, <1>6 DEF ChangeState, FleetTypeOK, peerVars
<1>7. ASSUME NEW p \in Peers, HandleInboxMsg(p)
      PROVE  FleetTypeOK'
  <2>1. inbox[p] \in Seq(MsgNos) /\ inbox[p] # <<>>
    BY <1>7 DEF HandleInboxMsg, FleetTypeOK
  <2>2. Head(inbox[p]) \in MsgNos /\ Tail(inbox[p]) \in Seq(MsgNos)
    BY <2>1, HeadTailProperties
  <2>3. inbox' \in [Peers -> Seq(MsgNos)]
    BY <1>7, <2>2 DEF HandleInboxMsg, FleetTypeOK
  <2>4. handled' \in [Peers -> MsgNos] /\ requested' \in [Peers -> DeviceStates]
    BY <1>7, <2>2 DEF HandleInboxMsg, RequestAfter, FleetTypeOK, DeviceStates
  <2> QED BY <1>1, <1>7, <2>3, <2>4 DEF HandleInboxMsg, FleetTypeOK, masterVars
<1>8. ASSUME NEW p \in Peers, InboxEmpty(p) \/ HandleStateChange(p)
      PROVE  FleetTypeOK'
  BY <1>1, <1>8 DEF InboxEmpty, RequestAtCheck, HandleStateChange, FleetTypeOK, DeviceStates, masterVars
<1>9. ASSUME NEW p \in Peers, Restart(p)
      PROVE  FleetTypeOK'
  <2>1. inbox' \in [Peers -> Seq(MsgNos)]
    BY <1>9, EmptySeq DEF Restart, FleetTypeOK
  <2>2. restarted' \subseteq Restarting
    BY <1>9 DEF Restart, FleetTypeOK
  <2> QED BY <1>1, <1>9, <2>1, <2>2 DEF Restart, FleetTypeOK, DeviceStates, masterVars
<1> QED BY <1>2, <1>3, <1>4, <1>5, <1>6, <1>7, <1>8, <1>9 DEF FleetNext, Follower

LEMMA FleetInitType == FleetInit => FleetTypeOK
<1> SUFFICES ASSUME FleetInit PROVE FleetTypeOK
  OBVIOUS
<1> USE Constants, IdTypes, FleetConstants
<1>1. outbox \in Seq(Msg) /\ air \in Seq(Frame)
  BY EmptySeq DEF FleetInit
<1>2. lastMsg \in [Ids -> Msg]
  BY DEF FleetInit
<1>3. /\ order \in [MsgNos -> [to : SUBSET Peers, maxRetries : {0, DEFAULT_RETRIES}]]
      /\ tx \in [MsgNos -> [Ids -> Nat]]
  BY DEF FleetInit
<1>4. /\ pushed \in 0..MaxMsgs /\ losses \in 0..MaxLosses
      /\ scans \in 0..MaxScans /\ handshakes \in 0..MaxHandshakes
  BY DEF FleetInit
<1>5. TypeOK
  BY <1>1, <1>2, <1>3, <1>4 DEF FleetInit, TypeOK
<1>6. inbox \in [Peers -> Seq(MsgNos)]
  BY EmptySeq DEF FleetInit
<1>7. handled \in [Peers -> MsgNos] /\ restarted \subseteq Restarting
  BY DEF FleetInit
<1> QED BY <1>5, <1>6, <1>7 DEF FleetInit, FleetTypeOK, DeviceStates

\* Every reachable state of a fleet has its type.
THEOREM FleetTypeCorrect == FleetSpec => []FleetTypeOK
<1>1. FleetInit => FleetTypeOK
  BY FleetInitType
<1>2. FleetTypeOK /\ [FleetNext]_fleetVars => FleetTypeOK'
  BY FleetTypeStep
<1> QED BY <1>1, <1>2, PTL DEF FleetSpec

-----------------------------------------------------------------------------
(* The order of announcements, and what is retried.                         *)

\* The state changes only when the outbox is empty, so no announcement is queued, sent or
\* retried together with another one.
Present(n) == n = 0 \/ n = pushed

\* What makes a retry one of the message that failed: there is one frame in the air at a time,
\* of the last message of its peer.
FrameOk(f) == Present(f.no) /\ f.to \in Peers /\ lastMsg[f.to].no = f.no
MasterInv ==
  /\ macToID = Peers /\ peers \subseteq Peers /\ asking = {}
  /\ sending = Idle => air = <<>> /\ cb = Idle
  /\ phase # "outbox" => sending = Idle
  /\ phase = "rest" => outbox = <<>>
  /\ \A i \in DOMAIN outbox : Present(outbox[i].no)
  /\ sending # Idle => Present(sending.msg.no)
  /\ \A i \in DOMAIN air : i = 1 /\ FrameOk(air[i])
  /\ cb # Idle => air = <<>> /\ cb.peer \in Peers /\ Present(lastMsg[cb.peer].no)

\* The inbox of a peer goes on from what it has handled, in order.
InboxOk(p) ==
  /\ handled[p] <= pushed
  /\ \A i \in DOMAIN inbox[p] :
       /\ handled[p] <= inbox[p][i] /\ inbox[p][i] <= pushed
       /\ \A j \in DOMAIN inbox[p] : i <= j => inbox[p][i] <= inbox[p][j]

FleetInv == FleetTypeOK /\ MasterInv /\ \A p \in Peers : InboxOk(p)

\* What the types say of the elements of the sequences.
LEMMA ElementTypes ==
  ASSUME FleetTypeOK
  PROVE  /\ outbox \in Seq(Msg) /\ \A i \in DOMAIN outbox : outbox[i] \in Msg
         /\ air \in Seq(Frame) /\ \A i \in DOMAIN air : air[i] \in Frame
         /\ \A p \in Ids : lastMsg[p] \in Msg
         /\ pushed \in Nat
  BY Constants, ElementOfSeq, LenProperties DEF FleetTypeOK, TypeOK

\* A step that sends nothing and takes nothing out of the air.
LEMMA HandleOutboxMsgMaster ==
  ASSUME FleetTypeOK, MasterInv, phase = "outbox", UNCHANGED phase, HandleOutboxMsg
  PROVE  MasterInv'
<1>1. outbox \in Seq(Msg) /\ outbox # <<>>
  BY ElementTypes DEF HandleOutboxMsg
<1>2. /\ Head(outbox) = outbox[1] /\ 1 \in DOMAIN outbox
      /\ \A i \in DOMAIN outbox' : i + 1 \in DOMAIN outbox /\ outbox'[i] = outbox[i + 1]
  BY <1>1, TailElements DEF HandleOutboxMsg
<1>3. Present(Head(outbox).no) /\ \A i \in DOMAIN outbox' : Present(outbox'[i].no)
  BY <1>2 DEF MasterInv
<1>4. sending'.msg = Head(outbox) /\ air = <<>> /\ cb = Idle
  BY DEF HandleOutboxMsg, Ready, MasterInv
<1> QED BY <1>3, <1>4 DEF HandleOutboxMsg, MasterInv, Present, FrameOk, tableVars, askVars, boundVars

LEMMA SendToMaster ==
  ASSUME Settle, FleetTypeOK, MasterInv, phase = "outbox", UNCHANGED phase,
         NEW p \in Ids, SendTo(p)
  PROVE  MasterInv'
<1>1. /\ air = <<>> /\ cb = Idle /\ cb' = Idle /\ p \in Peers
      /\ sending # Idle /\ Present(sending.msg.no)
  BY DEF SendTo, Settled, MasterInv
<1>2. sending \in [busy : {TRUE}, msg : Msg, rest : SUBSET Ids]
  BY <1>1, BusyType DEF FleetTypeOK
<1>3. sending' # Idle /\ sending'.msg = sending.msg
  BY <1>2 DEF SendTo, Idle
<1>4. (\A i \in DOMAIN air : i = 1 /\ FrameOk(air[i]))'
  <2>1. CASE Refuse(sending.msg, p)
    BY <1>1, <2>1 DEF Refuse
  <2>2. CASE Accept(sending.msg, p)
    <3> DEFINE m == [sending.msg EXCEPT !.sendCnt = @ + 1]
               f == [no |-> sending.msg.no, to |-> p]
    <3>1. m.no = sending.msg.no
      BY <1>2 DEF Msg
    <3>2. lastMsg' = [lastMsg EXCEPT ![p] = m] /\ air' = Append(air, f)
      BY <2>2 DEF Accept
    <3> HIDE DEF m
    <3>3. lastMsg'[p].no = f.no
      BY <3>1, <3>2 DEF FleetTypeOK, TypeOK
    <3>4. \A i \in DOMAIN air' : i = 1 /\ air'[i] = f
      BY <1>1, <3>2
    <3>5. f.no = sending.msg.no /\ f.to = p /\ pushed' = pushed
      BY DEF SendTo, boundVars
    <3> QED BY <1>1, <3>3, <3>4, <3>5 DEF FrameOk, Present
  <2> QED BY <2>1, <2>2 DEF SendTo
<1> QED BY <1>1, <1>3, <1>4 DEF SendTo, MasterInv, Present, tableVars, askVars, boundVars

LEMMA SendDoneMaster ==
  ASSUME Settle, FleetTypeOK, MasterInv, phase = "outbox", UNCHANGED phase, SendDone
  PROVE  MasterInv'
  BY DEF SendDone, Settled, MasterInv, Present, FrameOk, tableVars, askVars, boundVars

LEMMA DeliveredMaster ==
  ASSUME FleetTypeOK, MasterInv, UNCHANGED phase, Delivered
  PROVE  MasterInv'
<1>1. air' = <<>>
  BY ElementTypes, HeadTailProperties, LenProperties DEF Delivered, MasterInv
<1> QED BY <1>1 DEF Delivered, MasterInv, Present, FrameOk, tableVars, askVars, boundVars

\* The frame in the air, if there is one.
LEMMA OneFrame ==
  ASSUME FleetTypeOK, MasterInv, air # <<>>
  PROVE  /\ Head(air) \in Frame /\ Head(air) = air[1] /\ 1 \in DOMAIN air /\ FrameOk(Head(air))
         /\ Tail(air) = <<>> /\ sending # Idle /\ phase = "outbox" /\ cb = Idle
         /\ PeerDeviceID(Head(air)) = Head(air).to
<1>1. air \in Seq(Frame)
  BY ElementTypes
<1>2. Head(air) \in Frame /\ Head(air) = air[1] /\ 1 \in DOMAIN air
  BY <1>1, HeadTailProperties, LenProperties
<1>3. Tail(air) = <<>>
  BY <1>1, HeadTailProperties, LenProperties DEF MasterInv
<1> QED BY <1>2, <1>3 DEF MasterInv, FrameOk, PeerDeviceID

LEMMA NotDeliveredMaster ==
  ASSUME FleetTypeOK, MasterInv, UNCHANGED phase, NotDelivered
  PROVE  MasterInv'
<1> DEFINE p == Head(air).to
<1>1. air # <<>> /\ air' = <<>>
  BY OneFrame DEF NotDelivered
<1>2. PeerDeviceID(Head(air)) = p /\ p \in Peers /\ Present(lastMsg[p].no)
  BY <1>1, OneFrame DEF FrameOk
<1>3. peers' = peers \cup {p} /\ cb' \in {Idle, [busy |-> TRUE, peer |-> p]}
  BY <1>2 DEF NotDelivered
<1>4. cb' # Idle => cb'.peer = p
  BY <1>3
<1>5. sending # Idle /\ sending' = sending /\ phase = "outbox"
  BY <1>1, OneFrame DEF NotDelivered
<1> HIDE DEF p
<1> QED BY <1>1, <1>2, <1>3, <1>4, <1>5
        DEF NotDelivered, MasterInv, Present, FrameOk, askVars

LEMMA RequeueMaster ==
  ASSUME FleetTypeOK, MasterInv, UNCHANGED phase, Requeue
  PROVE  MasterInv'
<1> DEFINE m == RetryOf(lastMsg[cb.peer], cb.peer)
<1>1. cb # Idle /\ sending # Idle /\ phase = "outbox"
  BY DEF Requeue, MasterInv
<1>2. lastMsg[cb.peer] \in Msg /\ cb.peer \in Ids
  BY <1>1, ElementTypes, IdTypes DEF MasterInv
<1>3. m \in Msg /\ m.no = lastMsg[cb.peer].no
  BY <1>2 DEF RetryOf, Msg
<1>4. outbox' = Append(outbox, m) /\ cb' = Idle
  BY DEF Requeue
<1>5. Present(m.no)
  BY <1>1, <1>3 DEF MasterInv
<1> HIDE DEF m
<1>6. \A i \in DOMAIN outbox' : Present(outbox'[i].no)
  BY <1>3, <1>4, <1>5, ElementTypes, AppendElements DEF MasterInv
<1> QED BY <1>1, <1>4, <1>6 DEF Requeue, MasterInv, Present, FrameOk, tableVars, askVars, boundVars

LEMMA HandshakeMaster ==
  ASSUME FleetTypeOK, MasterInv, phase = "inbox", UNCHANGED phase, ReceiveHandshakeRequest
  PROVE  MasterInv'
<1>1. PICK p \in Peers : /\ peers' = peers \cup {p}
                         /\ lastMsg' = [lastMsg EXCEPT ![p] = Blank]
                         /\ outbox' = Append(outbox, Handshake(p))
  BY DEF ReceiveHandshakeRequest
<1>2. sending = Idle /\ air = <<>> /\ cb = Idle
  BY DEF ReceiveHandshakeRequest, Ready, MasterInv
<1>3. \A i \in DOMAIN outbox' : Present(outbox'[i].no)
  BY <1>1, HandshakeType, IdTypes, ElementTypes, AppendElements DEF MasterInv, Present
<1> QED BY <1>1, <1>2, <1>3 DEF ReceiveHandshakeRequest, MasterInv, Present, FrameOk, askVars

LEMMA ChangeStateMaster ==
  ASSUME FleetTypeOK, MasterInv, NEW s \in States, ChangeState(s)
  PROVE  MasterInv'
<1>1. PICK to \in RecipientSets, max \in {0, DEFAULT_RETRIES} :
        outbox' = Append(outbox, [no |-> pushed', to |-> to, sendCnt |-> 0, maxRetries |-> max])
  BY DEF ChangeState, PushOutbox
<1>2. outbox = <<>> /\ sending = Idle /\ air = <<>> /\ cb = Idle
  BY DEF ChangeState, PushOutbox, Ready, MasterInv
<1>3. \A i \in DOMAIN outbox' : outbox'[i].no = pushed'
  BY <1>1, <1>2
<1> QED BY <1>2, <1>3 DEF ChangeState, PushOutbox, MasterInv, Present, tableVars, askVars

LEMMA MasterStep ==
  ASSUME Settle, FleetTypeOK, MasterInv, [FleetNext]_fleetVars
  PROVE  MasterInv'
<1>1. CASE UNCHANGED vars /\ UNCHANGED phase
  BY <1>1 DEF MasterInv, Present, FrameOk, vars, tableVars, askVars, boundVars
<1>2. CASE EmptyOutbox
  BY <1>2, HandleOutboxMsgMaster, SendDoneMaster, SendToMaster DEF EmptyOutbox, masterVars
<1>3. CASE NextPhase
  BY <1>3 DEF NextPhase, Ready, MasterInv, Present, FrameOk, vars, tableVars, askVars, boundVars
<1>4. CASE Report
  BY <1>4, DeliveredMaster, NotDeliveredMaster DEF Report, masterVars
<1>5. CASE QueueAgain
  BY <1>5, RequeueMaster DEF QueueAgain, masterVars
<1>6. CASE HandleHandshakeRequest
  BY <1>6, HandshakeMaster DEF HandleHandshakeRequest, masterVars
<1>7. ASSUME NEW s \in States, ChangeState(s)
      PROVE  MasterInv'
  BY <1>7, ChangeStateMaster
<1>8. CASE UNCHANGED fleetVars \/ \E p \in Peers : Follower(p) \/ Restart(p)
  BY <1>1, <1>8 DEF fleetVars, masterVars, Follower, HandleInboxMsg, InboxEmpty, HandleStateChange, Restart
<1> QED BY <1>2, <1>3, <1>4, <1>5, <1>6, <1>7, <1>8 DEF FleetNext, MasterLoop, Driver

\* Numbers of announcements are numbers.
LEMMA Numbers ==
  ASSUME FleetTypeOK, NEW p \in Peers
  PROVE  /\ pushed \in Nat /\ handled[p] \in Nat /\ inbox[p] \in Seq(MsgNos)
         /\ \A i \in DOMAIN inbox[p] : inbox[p][i] \in Nat
<1>1. MsgNos \subseteq Nat
  BY Constants DEF MsgNos
<1>2. inbox[p] \in Seq(MsgNos) /\ handled[p] \in MsgNos
  BY DEF FleetTypeOK
<1> QED BY <1>1, <1>2, ElementTypes, ElementOfSeq, LenProperties

\* What arrives is the last announcement.
LEMMA ReportInboxes ==
  ASSUME FleetInv, Report, NEW p \in Peers
  PROVE  InboxOk(p)'
<1>1. /\ air # <<>> /\ UNCHANGED <<pushed, handled>>
      /\ inbox' = inbox \/ Arrives(Head(air))
  BY DEF Report, Delivered, NotDelivered, boundVars
<1>2. inbox'[p] = inbox[p] \/ inbox'[p] = Append(inbox[p], pushed)
  <2>1. Present(Head(air).no) /\ Head(air).to \in Peers
    BY <1>1, OneFrame DEF FleetInv, FrameOk
  <2> QED BY <1>1, <2>1 DEF Arrives, Present, FleetInv, FleetTypeOK
<1>3. CASE inbox'[p] = inbox[p]
  BY <1>1, <1>3 DEF InboxOk, FleetInv
<1>4. CASE inbox'[p] = Append(inbox[p], pushed)
  <2>1. inbox[p] \in Seq(MsgNos) /\ pushed \in Nat /\ \A i \in DOMAIN inbox[p] : inbox[p][i] \in Nat
    BY Numbers DEF FleetInv
  <2>2. \A i \in DOMAIN inbox'[p] :
          \/ i \in DOMAIN inbox[p] /\ inbox'[p][i] = inbox[p][i]
          \/ i = Len(inbox[p]) + 1 /\ inbox'[p][i] = pushed
    <3>1. pushed \in MsgNos
      BY DEF FleetInv, FleetTypeOK, TypeOK, MsgNos
    <3> DEFINE s == inbox[p]
               t == Append(s, pushed)
    <3> HIDE DEF s
    <3>2. /\ t \in Seq(MsgNos) /\ Len(t) = Len(s) + 1 /\ t[Len(s) + 1] = pushed
          /\ \A i \in 1 .. Len(s) : t[i] = s[i]
      BY <2>1, <3>1, AppendProperties DEF s
    <3>3. DOMAIN s = 1 .. Len(s) /\ Len(s) \in Nat /\ DOMAIN t = 1 .. Len(s) + 1
      BY <2>1, <3>2, LenProperties DEF s
    <3> HIDE DEF t
    <3>4. \A i \in DOMAIN t :
            \/ i \in DOMAIN s /\ t[i] = s[i]
            \/ i = Len(s) + 1 /\ t[i] = pushed
      BY <3>2, <3>3
    <3> QED BY <1>4, <3>4 DEF s, t
  <2>3. \A i \in DOMAIN inbox[p] : i <= Len(inbox[p]) /\ i \in Nat
    BY <2>1, LenProperties
  <2> QED BY <1>1, <2>1, <2>2, <2>3, Numbers DEF InboxOk, FleetInv
<1> QED BY <1>2, <1>3, <1>4

LEMMA HandleInboxes ==
  ASSUME FleetInv, NEW p \in Peers, NEW q \in Peers, HandleInboxMsg(q)
  PROVE  InboxOk(p)' /\ Head(inbox[q]) >= handled[q]
<1>1. inbox[q] \in Seq(MsgNos) /\ inbox[q] # <<>> /\ UNCHANGED pushed
  BY Numbers DEF HandleInboxMsg, FleetInv, vars, boundVars
<1>2. /\ 1 \in DOMAIN inbox[q] /\ Head(inbox[q]) = inbox[q][1]
      /\ \A i \in DOMAIN Tail(inbox[q]) : i + 1 \in DOMAIN inbox[q] /\ Tail(inbox[q])[i] = inbox[q][i + 1]
  BY <1>1, TailElements
<1>3. Head(inbox[q]) >= handled[q]
  BY <1>2, Numbers DEF FleetInv, InboxOk
<1>4. CASE p # q
  <2>1. inbox'[p] = inbox[p] /\ handled'[p] = handled[p]
    BY <1>4 DEF HandleInboxMsg, FleetInv, FleetTypeOK
  <2> QED BY <1>1, <1>3, <2>1 DEF InboxOk, FleetInv
<1>5. CASE p = q
  <2>1. inbox'[p] = Tail(inbox[p]) /\ handled'[p] = inbox[p][1]
    BY <1>2, <1>5 DEF HandleInboxMsg, FleetInv, FleetTypeOK
  <2>2. \A i \in DOMAIN Tail(inbox[p]) : i \in Nat \ {0}
    BY <1>1, <1>5, HeadTailProperties, LenProperties
  <2>3. DOMAIN inbox[p] \subseteq Nat
    BY <1>1, <1>5, LenProperties
  <2>4. \A i, j \in DOMAIN inbox[p] : i <= j => inbox[p][i] <= inbox[p][j]
    BY DEF InboxOk, FleetInv
  <2>5. \A i \in DOMAIN inbox[p] : inbox[p][1] <= inbox[p][i] /\ inbox[p][i] <= pushed
    <3>1. \A i \in DOMAIN inbox[p] : 1 <= i
      BY <1>1, <1>5, LenProperties
    <3> QED BY <1>2, <1>5, <2>4, <3>1 DEF InboxOk, FleetInv
  <2>6. \A i, j \in DOMAIN Tail(inbox[p]) : i <= j => Tail(inbox[p])[i] <= Tail(inbox[p])[j]
    <3> SUFFICES ASSUME NEW i \in DOMAIN Tail(inbox[p]), NEW j \in DOMAIN Tail(inbox[p]), i <= j
                 PROVE  Tail(inbox[p])[i] <= Tail(inbox[p])[j]
      OBVIOUS
    <3>1. i + 1 <= j + 1
      BY <2>2
    <3> QED BY <1>2, <1>5, <2>4, <3>1
  <2>7. \A i \in DOMAIN Tail(inbox[p]) :
          inbox[p][1] <= Tail(inbox[p])[i] /\ Tail(inbox[p])[i] <= pushed
    BY <1>2, <1>5, <2>5
  <2>8. handled'[p] <= pushed'
    BY <1>1, <1>2, <1>5, <2>1, <2>5
  <2>9. \A i \in DOMAIN inbox'[p] : handled'[p] <= inbox'[p][i] /\ inbox'[p][i] <= pushed'
    BY <1>1, <2>1, <2>7
  <2>10. \A i \in DOMAIN inbox'[p] : \A j \in DOMAIN inbox'[p] : i <= j => inbox'[p][i] <= inbox'[p][j]
    BY <2>1, <2>6
  <2>11. InboxOk(p)'
    BY <2>8, <2>9, <2>10 DEF InboxOk
  <2> QED BY <1>3, <2>11
<1> QED BY <1>3, <1>4, <1>5

LEMMA InboxStep ==
  ASSUME FleetInv, [FleetNext]_fleetVars, NEW p \in Peers
  PROVE  InboxOk(p)'
<1>1. CASE UNCHANGED <<inbox, handled>> /\ pushed' \in {pushed, pushed + 1}
  <2>1. \A n \in Nat : n <= pushed => n <= pushed'
    BY <1>1, Numbers DEF FleetInv
  <2> QED BY <1>1, <2>1, Numbers DEF InboxOk, FleetInv
<1>2. CASE MasterLoop
  BY <1>1, <1>2 DEF MasterLoop, EmptyOutbox, NextPhase, HandleOutboxMsg, SendDone, SendTo, peerVars, vars, boundVars
<1>3. CASE Report
  BY <1>3, ReportInboxes
<1>4. CASE QueueAgain
  BY <1>1, <1>4 DEF QueueAgain, Requeue, peerVars, boundVars
<1>5. CASE HandleHandshakeRequest \/ \E s \in States : ChangeState(s)
  BY <1>1, <1>5 DEF HandleHandshakeRequest, ReceiveHandshakeRequest, ChangeState, PushOutbox, peerVars
<1>6. ASSUME NEW q \in Peers, HandleInboxMsg(q)
      PROVE  InboxOk(p)'
  BY <1>6, HandleInboxes
<1>7. ASSUME NEW q \in Peers, InboxEmpty(q) \/ HandleStateChange(q)
      PROVE  InboxOk(p)'
  BY <1>1, <1>7 DEF InboxEmpty, HandleStateChange, vars, boundVars
<1>8. ASSUME NEW q \in Peers, Restart(q)
      PROVE  InboxOk(p)'
  <2>1. UNCHANGED <<handled, pushed>> /\ (inbox'[p] = inbox[p] \/ inbox'[p] = <<>>)
    BY <1>8 DEF Restart, vars, boundVars, FleetInv, FleetTypeOK
  <2>2. CASE inbox'[p] = inbox[p]
    BY <2>1, <2>2 DEF InboxOk, FleetInv
  <2>3. CASE inbox'[p] = <<>>
    BY <2>1, <2>3 DEF InboxOk, FleetInv
  <2> QED BY <2>1, <2>2, <2>3
<1>9. CASE UNCHANGED fleetVars
  BY <1>1, <1>9 DEF fleetVars, peerVars, vars, boundVars
<1> QED BY <1>2, <1>3, <1>4, <1>5, <1>6, <1>7, <1>8, <1>9 DEF FleetNext, Driver, Follower

LEMMA FleetInitInv == FleetInit => FleetInv
<1> SUFFICES ASSUME FleetInit PROVE FleetInv
  OBVIOUS
<1>1. MasterInv
  BY IdTypes DEF FleetInit, MasterInv, Idle
<1>2. \A p \in Peers : InboxOk(p)
  BY DEF FleetInit, InboxOk
<1> QED BY <1>1, <1>2, FleetInitType DEF FleetInv

\* The invariant, for callbacks in time.
LEMMA FleetInvariant == ASSUME Settle PROVE FleetSpec => []FleetInv
<1>1. FleetInit => FleetInv
  BY FleetInitInv
<1>2. FleetInv /\ [FleetNext]_fleetVars => FleetInv'
  BY FleetTypeStep, MasterStep, InboxStep DEF FleetInv
<1> QED BY <1>1, <1>2, PTL DEF FleetSpec

\* The message that is retried is the one whose transmission failed.
THEOREM TheFailedMessageIsRetried == ASSUME Settle PROVE FleetSpec => RetriesTheFailedMessage
<1> DEFINE Same == cb = Idle /\ cb' # Idle /\ Head(air).to \in macToID
                     => lastMsg[cb'.peer].no = Head(air).no
<1>1. ASSUME FleetInv, NotDelivered
      PROVE  Same
  <2>1. PeerDeviceID(Head(air)) = Head(air).to /\ FrameOk(Head(air))
    BY <1>1, OneFrame DEF NotDelivered, FleetInv
  <2>2. cb' # Idle => cb' = [busy |-> TRUE, peer |-> Head(air).to]
    BY <1>1, <2>1 DEF NotDelivered
  <2> QED BY <2>1, <2>2 DEF FrameOk
<1>2. ASSUME [FleetNext]_fleetVars
      PROVE  NotDelivered \/ cb' = cb \/ cb' = Idle
  BY <1>2, LinkSteps DEF Next, Loop, WiFi, App, HandleOutboxMsg, SendDone, SendTo, SendHandshakeRequest,
     Delivered, Requeue, HandleHandshakes, ReceiveHandshakeRequest, PushOutbox, vars
<1>3. FleetInv /\ [FleetNext]_fleetVars => [Same]_vars
  BY <1>1, <1>2
<1> QED BY <1>3, FleetInvariant, PTL DEF FleetSpec, RetriesTheFailedMessage

-----------------------------------------------------------------------------
(* The number of transmissions.                                             *)

\* A copy of the last announcement that is still to go to p: in the outbox, in sendMsgESPNow, in
\* the air, or about to be queued.
Covers(m, p)  == m.no # 0 /\ (m.to = {} \/ p \in m.to)
InSending(p)  == sending # Idle /\ p \in sending.rest /\ sending.msg.no # 0
InAir(p)      == \E i \in DOMAIN air : air[i].to = p /\ air[i].no # 0
InCallback(p) == cb # Idle /\ cb.peer = p /\ lastMsg[p].no # 0

\* The copy counts the transmissions to p, and one more is left.
SentTo(p)  == tx[pushed][p]
Retries    == order[pushed].maxRetries
Counts(m, sent, retries) == sent <= m.sendCnt /\ m.maxRetries = retries
MayGoAgain(p) == SentTo(p) <= Retries

\* There is at most one such copy for each peer.
InOutboxOk(p) ==
  \A i \in DOMAIN outbox : Covers(outbox[i], p) =>
    /\ Counts(outbox[i], SentTo(p), Retries) /\ MayGoAgain(p)
    /\ ~InSending(p) /\ ~InAir(p) /\ ~InCallback(p)
    /\ \A j \in DOMAIN outbox : Covers(outbox[j], p) => i = j
CopyOk(p) ==
  /\ InOutboxOk(p)
  /\ InSending(p) => Counts(sending.msg, SentTo(p), Retries) /\ MayGoAgain(p) /\ ~InAir(p) /\ ~InCallback(p)
  /\ InAir(p) => Counts(lastMsg[p], SentTo(p), Retries)
  /\ InCallback(p) => Counts(lastMsg[p], SentTo(p), Retries) /\ MayGoAgain(p)
Unsent == \A n \in MsgNos, p \in Ids : n > pushed => tx[n][p] = 0

CopyInv == FleetInv /\ Unsent /\ TransmissionsBounded /\ \A p \in Peers : CopyOk(p)

LEMMA CountTypes ==
  ASSUME FleetInv
  PROVE  /\ pushed \in MsgNos /\ MsgNos \subseteq Nat
         /\ \A n \in MsgNos : order[n].maxRetries \in Nat /\ \A p \in Ids : tx[n][p] \in Nat
         /\ tx \in [MsgNos -> [Ids -> Nat]]
<1>1. /\ pushed \in 0..MaxMsgs /\ tx \in [MsgNos -> [Ids -> Nat]]
      /\ order \in [MsgNos -> [to : SUBSET Peers, maxRetries : {0, DEFAULT_RETRIES}]]
  BY DEF FleetInv, FleetTypeOK, TypeOK
<1>2. \A n \in MsgNos : order[n].maxRetries \in Nat
  BY <1>1, Constants
<1>3. \A n \in MsgNos : \A p \in Ids : tx[n][p] \in Nat
  BY <1>1
<1> QED BY <1>1, <1>2, <1>3, Constants DEF MsgNos

\* A message takes its copies with it into sendMsgESPNow.
LEMMA HandleOutboxMsgCopy ==
  ASSUME CopyInv, HandleOutboxMsg, NEW p \in Peers
  PROVE  CopyOk(p)'
<1>1. /\ outbox \in Seq(Msg) /\ outbox # <<>> /\ air = <<>> /\ cb = Idle
      /\ UNCHANGED <<air, cb, lastMsg, tx, order, pushed>>
  BY ElementTypes DEF HandleOutboxMsg, Ready, CopyInv, FleetInv, MasterInv, boundVars, histVars
<1>2. Head(outbox) = outbox[1] /\ 1 \in DOMAIN outbox
  BY <1>1, TailElements
<1>3. \A i \in DOMAIN outbox' :
        i \in Nat /\ i # 0 /\ i + 1 \in DOMAIN outbox /\ outbox'[i] = outbox[i + 1]
  <2>1. outbox' = Tail(outbox) /\ Tail(outbox) \in Seq(Msg)
    BY <1>1, HeadTailProperties DEF HandleOutboxMsg
  <2> QED BY <1>1, <2>1, TailElements, LenProperties
<1>4. InSending(p)' => Covers(outbox[1], p)
  BY <1>2 DEF HandleOutboxMsg, InSending, Covers, RecipientIDs
<1>5. ~InAir(p)' /\ ~InCallback(p)'
  BY <1>1 DEF InAir, InCallback
<1>6. SentTo(p)' = SentTo(p) /\ Retries' = Retries /\ (MayGoAgain(p)' <=> MayGoAgain(p))
  BY <1>1 DEF SentTo, Retries, MayGoAgain
<1>7. ASSUME NEW i \in DOMAIN outbox', Covers(outbox'[i], p)
      PROVE  /\ Counts(outbox'[i], SentTo(p)', Retries') /\ MayGoAgain(p)' /\ ~InSending(p)'
             /\ \A j \in DOMAIN outbox' : Covers(outbox'[j], p) => i = j
  <2>1. Covers(outbox[i + 1], p) /\ i + 1 # 1
    BY <1>3, <1>7
  <2>2. /\ Counts(outbox[i + 1], SentTo(p), Retries) /\ MayGoAgain(p)
        /\ \A j \in DOMAIN outbox : Covers(outbox[j], p) => i + 1 = j
    BY <1>3, <2>1 DEF CopyInv, CopyOk, InOutboxOk
  <2>3. ~InSending(p)'
    BY <1>2, <1>4, <2>1, <2>2
  <2>4. ASSUME NEW j \in DOMAIN outbox', Covers(outbox'[j], p)
        PROVE  i = j
    <3>1. i + 1 = j + 1
      BY <1>3, <2>2, <2>4
    <3> QED BY <1>3, <3>1
  <2> QED BY <1>3, <1>6, <2>2, <2>3, <2>4
<1>8. InSending(p)' => Counts(sending.msg, SentTo(p), Retries)' /\ MayGoAgain(p)'
  <2>1. sending'.msg = outbox[1]
    BY <1>2 DEF HandleOutboxMsg
  <2>2. InSending(p)' => Counts(outbox[1], SentTo(p), Retries) /\ MayGoAgain(p)
    BY <1>2, <1>4 DEF CopyInv, CopyOk, InOutboxOk
  <2> QED BY <1>6, <2>1, <2>2
<1> QED BY <1>5, <1>7, <1>8 DEF CopyOk, InOutboxOk

LEMMA SendDoneCopy ==
  ASSUME CopyInv, SendDone, NEW p \in Peers
  PROVE  CopyOk(p)'
<1>1. UNCHANGED <<outbox, air, cb, lastMsg, tx, order, pushed>> /\ ~InSending(p)'
  BY DEF SendDone, InSending, boundVars, histVars
<1>2. CopyOk(p)
  BY DEF CopyInv
<1> QED BY <1>1, <1>2 DEF CopyOk, InOutboxOk, InAir, InCallback, SentTo, Retries, MayGoAgain

\* One transmission more, counted by the message that becomes the peer's last one.
LEMMA SendToCopy ==
  ASSUME Settle, CopyInv, NEW q \in Ids, SendTo(q), NEW p \in Peers
  PROVE  CopyOk(p)'
<1> DEFINE m == sending.msg
<1>1. /\ sending # Idle /\ q \in Peers /\ q \in sending.rest /\ air = <<>> /\ cb = Idle /\ cb' = Idle
      /\ UNCHANGED <<outbox, order, pushed>>
  BY DEF SendTo, Settled, Current, CopyInv, FleetInv, MasterInv, boundVars
<1>2. sending \in [busy : {TRUE}, msg : Msg, rest : SUBSET Ids]
  BY <1>1, BusyType DEF CopyInv, FleetInv, FleetTypeOK
<1>3. m \in Msg /\ m.no \in MsgNos /\ (m.no # 0 => m.no = pushed)
  BY <1>1, <1>2 DEF CopyInv, FleetInv, MasterInv, Present, Msg
<1>4. sending'.msg = m /\ sending'.rest = sending.rest \ {q}
  BY <1>2 DEF SendTo
<1>5. ~InCallback(p)' /\ Retries' = Retries
  BY <1>1 DEF InCallback, Retries
<1>6. CopyOk(p)
  BY DEF CopyInv
<1>7. \/ UNCHANGED <<air, tx>>
      \/ /\ q \in paired
         /\ lastMsg' = [lastMsg EXCEPT ![q] = [m EXCEPT !.sendCnt = @ + 1]]
         /\ air' = Append(air, [no |-> m.no, to |-> q])
         /\ tx' = [tx EXCEPT ![m.no][q] = @ + 1]
  BY DEF SendTo, Accept, Refuse
<1> HIDE DEF m
<1>8. CASE UNCHANGED <<air, tx>>
  <2>1. ~InAir(p)' /\ SentTo(p)' = SentTo(p) /\ (MayGoAgain(p)' <=> MayGoAgain(p))
    BY <1>1, <1>5, <1>8 DEF InAir, SentTo, MayGoAgain
  <2>2. InSending(p)' => InSending(p)
    BY <1>1, <1>4 DEF InSending, m
  <2> QED BY <1>1, <1>4, <1>5, <1>6, <2>1, <2>2 DEF CopyOk, InOutboxOk, m
<1>9. CASE /\ lastMsg' = [lastMsg EXCEPT ![q] = [m EXCEPT !.sendCnt = @ + 1]]
           /\ air' = Append(air, [no |-> m.no, to |-> q])
           /\ tx' = [tx EXCEPT ![m.no][q] = @ + 1]
  <2>1. \A i \in DOMAIN air' : air'[i] = [no |-> m.no, to |-> q]
    BY <1>1, <1>9
  <2>2. InAir(p)' => p = q /\ m.no # 0
    BY <2>1 DEF InAir
  <2>3. CASE p # q \/ m.no = 0
    <3>1. (p # q \/ pushed # 0) => SentTo(p)' = SentTo(p)
      BY <1>1, <1>3, <1>9, <2>3, CountTypes DEF SentTo, CopyInv
    <3>2. ~InAir(p)'
      BY <2>2, <2>3
    <3>3. (InSending(p)' => InSending(p)) /\ (InSending(p)' => pushed # 0)
      BY <1>1, <1>3, <1>4, CountTypes DEF InSending, m, CopyInv
    <3>4. \A i \in DOMAIN outbox : Covers(outbox[i], p) => pushed # 0
      BY DEF Covers, CopyInv, FleetInv, MasterInv, Present
    <3>5. pushed # 0 => (MayGoAgain(p)' <=> MayGoAgain(p))
      BY <1>5, <2>3, <3>1 DEF MayGoAgain
    <3>6. InOutboxOk(p)'
      BY <1>1, <1>5, <1>6, <3>1, <3>2, <3>3, <3>4, <3>5 DEF CopyOk, InOutboxOk
    <3>7. InSending(p)' => Counts(sending.msg, SentTo(p), Retries)' /\ MayGoAgain(p)'
      BY <1>4, <1>5, <1>6, <3>1, <3>3, <3>5 DEF CopyOk, m
    <3> QED BY <1>5, <3>2, <3>6, <3>7 DEF CopyOk
  <2>4. CASE p = q /\ m.no # 0
    <3>1. InSending(p) /\ ~InSending(p)'
      BY <1>1, <1>4, <2>4 DEF InSending, m
    <3>2. Counts(m, SentTo(p), Retries) /\ \A i \in DOMAIN outbox : ~Covers(outbox[i], p)
      BY <1>6, <3>1 DEF CopyOk, InOutboxOk, m
    <3>3. SentTo(p)' = SentTo(p) + 1
      BY <1>1, <1>3, <1>9, <2>4, CountTypes, IdTypes DEF SentTo, CopyInv
    <3>4. lastMsg'[p].sendCnt = m.sendCnt + 1 /\ lastMsg'[p].maxRetries = m.maxRetries
      <4>1. lastMsg'[p] = [m EXCEPT !.sendCnt = @ + 1]
        BY <1>9, <2>4, IdTypes DEF CopyInv, FleetInv, FleetTypeOK, TypeOK
      <4> QED BY <1>3, <4>1 DEF Msg
    <3>5. SentTo(p) \in Nat /\ m.sendCnt \in Nat
      BY <1>3, CountTypes, IdTypes DEF SentTo, CopyInv, Msg
    <3>6. Counts(lastMsg[p], SentTo(p), Retries)'
      BY <1>5, <3>2, <3>3, <3>4, <3>5 DEF Counts
    <3> QED BY <1>1, <1>5, <3>1, <3>2, <3>6 DEF CopyOk, InOutboxOk
  <2> QED BY <2>3, <2>4
<1> QED BY <1>7, <1>8, <1>9

LEMMA DeliveredCopy ==
  ASSUME CopyInv, Delivered, NEW p \in Peers
  PROVE  CopyOk(p)'
<1>1. UNCHANGED <<outbox, sending, cb, lastMsg, tx, order, pushed>> /\ air' = <<>>
  BY OneFrame DEF Delivered, CopyInv, FleetInv, boundVars, histVars
<1>2. CopyOk(p) /\ ~InAir(p)'
  BY <1>1 DEF CopyInv, InAir
<1> QED BY <1>1, <1>2 DEF CopyOk, InOutboxOk, InSending, InCallback, SentTo, Retries, MayGoAgain

\* A copy goes from the air into the callback only if there is a retry left for it.
LEMMA NotDeliveredCopy ==
  ASSUME CopyInv, NotDelivered, NEW p \in Peers
  PROVE  CopyOk(p)'
<1> DEFINE f == Head(air)
<1>1. UNCHANGED <<outbox, sending, lastMsg, tx, order, pushed>> /\ air' = <<>> /\ air # <<>>
  BY OneFrame DEF NotDelivered, CopyInv, FleetInv, histVars
<1>2. f = air[1] /\ 1 \in DOMAIN air /\ lastMsg[f.to].no = f.no /\ PeerDeviceID(f) = f.to
  BY <1>1, OneFrame DEF FrameOk, CopyInv, FleetInv
<1>3. cb' # Idle => cb'.peer = f.to /\ HasRetriesLeft(lastMsg[f.to])
  BY <1>2 DEF NotDelivered
<1>4. CopyOk(p) /\ ~InAir(p)' /\ cb = Idle
  BY <1>1, OneFrame DEF CopyInv, FleetInv, InAir
<1>5. SentTo(p)' = SentTo(p) /\ Retries' = Retries /\ (MayGoAgain(p)' <=> MayGoAgain(p))
      /\ (InSending(p)' <=> InSending(p))
  BY <1>1 DEF SentTo, Retries, MayGoAgain, InSending
<1>6. CASE InCallback(p)'
  <2>1. f.to = p /\ InAir(p) /\ HasRetriesLeft(lastMsg[p])
    BY <1>1, <1>2, <1>3, <1>6 DEF InCallback, InAir
  <2>2. /\ Counts(lastMsg[p], SentTo(p), Retries) /\ ~InSending(p)
        /\ \A i \in DOMAIN outbox : ~Covers(outbox[i], p)
    BY <1>4, <2>1 DEF CopyOk, InOutboxOk
  <2>3. MayGoAgain(p)
    <3>1. lastMsg[p].sendCnt \in Nat /\ lastMsg[p].maxRetries \in Nat /\ SentTo(p) \in Nat
      <4>1. lastMsg[p] \in Msg
        BY ElementTypes, IdTypes DEF CopyInv, FleetInv
      <4>2. SentTo(p) \in Nat
        BY CountTypes, IdTypes DEF CopyInv, SentTo
      <4> QED BY <4>1, <4>2, Constants DEF Msg
    <3> QED BY <2>1, <2>2, <3>1 DEF Counts, MayGoAgain, HasRetriesLeft
  <2> QED BY <1>1, <1>4, <1>5, <2>2, <2>3 DEF CopyOk, InOutboxOk
<1>7. CASE ~InCallback(p)'
  BY <1>1, <1>4, <1>5, <1>7 DEF CopyOk, InOutboxOk
<1> QED BY <1>6, <1>7

\* From the callback it goes back into the outbox.
LEMMA RequeueCopy ==
  ASSUME CopyInv, Requeue, NEW p \in Peers
  PROVE  CopyOk(p)'
<1> DEFINE q == cb.peer
           m == RetryOf(lastMsg[q], q)
<1>1. /\ UNCHANGED <<sending, air, lastMsg, tx, order, pushed>> /\ cb' = Idle /\ air = <<>>
      /\ cb # Idle /\ outbox' = Append(outbox, m)
  BY DEF Requeue, CopyInv, FleetInv, MasterInv, boundVars, histVars
<1>2. lastMsg[q] \in Msg /\ q \in Ids /\ outbox \in Seq(Msg)
  BY <1>1, ElementTypes, IdTypes DEF CopyInv, FleetInv, MasterInv
<1>3. m \in Msg /\ m.sendCnt = lastMsg[q].sendCnt + 1 /\ m.maxRetries = lastMsg[q].maxRetries
  BY <1>2 DEF RetryOf, Msg
<1>4. Covers(m, p) => InCallback(p) /\ p = q
  BY <1>1 DEF RetryOf, Covers, InCallback
<1> HIDE DEF m
<1>5. CopyOk(p) /\ ~InAir(p)' /\ ~InCallback(p)'
  BY <1>1 DEF CopyInv, InAir, InCallback
<1>6. SentTo(p)' = SentTo(p) /\ Retries' = Retries /\ (MayGoAgain(p)' <=> MayGoAgain(p))
      /\ (InSending(p)' <=> InSending(p))
  BY <1>1 DEF SentTo, Retries, MayGoAgain, InSending
<1>7. \A i \in DOMAIN outbox' :
        \/ i \in DOMAIN outbox /\ outbox'[i] = outbox[i]
        \/ i = Len(outbox) + 1 /\ outbox'[i] = m
  <2>1. /\ outbox' \in Seq(Msg) /\ Len(outbox') = Len(outbox) + 1 /\ outbox'[Len(outbox) + 1] = m
        /\ \A i \in 1 .. Len(outbox) : outbox'[i] = outbox[i]
    BY <1>1, <1>2, <1>3, AppendProperties
  <2>2. DOMAIN outbox = 1 .. Len(outbox) /\ Len(outbox) \in Nat /\ DOMAIN outbox' = 1 .. Len(outbox')
    BY <1>2, <2>1, LenProperties
  <2> QED BY <2>1, <2>2
<1>8. CASE Covers(m, p)
  <2>1. /\ Counts(lastMsg[p], SentTo(p), Retries) /\ MayGoAgain(p)
        /\ \A i \in DOMAIN outbox : ~Covers(outbox[i], p)
        /\ ~InSending(p)
    BY <1>4, <1>5, <1>8 DEF CopyOk, InOutboxOk
  <2>2. Counts(m, SentTo(p), Retries)
    <3>1. SentTo(p) \in Nat /\ lastMsg[q].sendCnt \in Nat
      BY <1>2, CountTypes, IdTypes DEF CopyInv, SentTo, Msg
    <3> QED BY <1>3, <1>4, <1>8, <2>1, <3>1 DEF Counts
  <2>3. \A i \in DOMAIN outbox' : Covers(outbox'[i], p) => i = Len(outbox) + 1 /\ outbox'[i] = m
    BY <1>7, <2>1
  <2> QED BY <1>5, <1>6, <2>1, <2>2, <2>3 DEF CopyOk, InOutboxOk
<1>9. CASE ~Covers(m, p)
  <2>1. \A i \in DOMAIN outbox' : Covers(outbox'[i], p) => i \in DOMAIN outbox /\ outbox'[i] = outbox[i]
    BY <1>7, <1>9
  <2> QED BY <1>1, <1>5, <1>6, <2>1 DEF CopyOk, InOutboxOk
<1> QED BY <1>8, <1>9

\* A handshake message is no copy.
LEMMA HandshakeCopy ==
  ASSUME CopyInv, ReceiveHandshakeRequest, NEW p \in Peers
  PROVE  CopyOk(p)'
<1>1. PICK q \in Peers : outbox' = Append(outbox, Handshake(q))
  BY DEF ReceiveHandshakeRequest
<1>2. /\ sending' = Idle /\ air' = <<>> /\ cb' = Idle
      /\ UNCHANGED <<tx, order, pushed>> /\ outbox \in Seq(Msg)
  BY ElementTypes DEF ReceiveHandshakeRequest, Ready, CopyInv, FleetInv, MasterInv, histVars
<1>3. ~InSending(p)' /\ ~InAir(p)' /\ ~InCallback(p)'
  BY <1>2 DEF InSending, InAir, InCallback
<1>4. SentTo(p)' = SentTo(p) /\ Retries' = Retries /\ (MayGoAgain(p)' <=> MayGoAgain(p))
  BY <1>2 DEF SentTo, Retries, MayGoAgain
<1>5. \A i \in DOMAIN outbox' : Covers(outbox'[i], p) => i \in DOMAIN outbox /\ outbox'[i] = outbox[i]
  <2>1. Handshake(q) \in Msg /\ ~Covers(Handshake(q), p)
    BY HandshakeType, IdTypes DEF Covers
  <2> QED BY <1>1, <1>2, <2>1, AppendElements
<1>6. CopyOk(p)
  BY DEF CopyInv
<1> QED BY <1>3, <1>4, <1>5, <1>6 DEF CopyOk, InOutboxOk

\* The only copy of a new announcement is the one in the outbox.
LEMMA ChangeStateCopy ==
  ASSUME CopyInv, NEW s \in States, ChangeState(s), NEW p \in Peers
  PROVE  CopyOk(p)'
<1>1. /\ outbox = <<>> /\ sending' = Idle /\ air' = <<>> /\ cb' = Idle
      /\ pushed' = pushed + 1 /\ pushed < MaxMsgs /\ tx' = tx
  BY DEF ChangeState, PushOutbox, Ready, CopyInv, FleetInv, MasterInv
<1>2. PICK to \in RecipientSets, max \in {0, DEFAULT_RETRIES} :
        /\ outbox' = Append(outbox, [no |-> pushed', to |-> to, sendCnt |-> 0, maxRetries |-> max])
        /\ order' = [order EXCEPT ![pushed'] = [to |-> to, maxRetries |-> max]]
  BY DEF ChangeState, PushOutbox
<1>3. pushed' \in MsgNos /\ pushed' > pushed
  BY <1>1, CountTypes, Constants DEF CopyInv, MsgNos
<1>4. SentTo(p)' = 0 /\ Retries' = max /\ max \in Nat
  <2>1. tx[pushed'][p] = 0
    BY <1>3, IdTypes DEF CopyInv, Unsent
  <2> QED BY <1>1, <1>2, <1>3, <2>1, Constants DEF SentTo, Retries, CopyInv, FleetInv, FleetTypeOK, TypeOK
<1>5. \A i \in DOMAIN outbox' : i = 1 /\ outbox'[i].sendCnt = 0 /\ outbox'[i].maxRetries = max
  BY <1>1, <1>2
<1>6. ~InSending(p)' /\ ~InAir(p)' /\ ~InCallback(p)' /\ MayGoAgain(p)'
  BY <1>1, <1>4 DEF InSending, InAir, InCallback, MayGoAgain
<1>7. InOutboxOk(p)'
  BY <1>4, <1>5, <1>6 DEF InOutboxOk, Counts
<1> QED BY <1>6, <1>7 DEF CopyOk

LEMMA CopyStep ==
  ASSUME Settle, CopyInv, [FleetNext]_fleetVars, NEW p \in Peers
  PROVE  CopyOk(p)'
<1>1. CASE UNCHANGED vars
  <2>1. UNCHANGED <<outbox, sending, air, cb, lastMsg, tx, order, pushed>> /\ CopyOk(p)
    BY <1>1 DEF vars, boundVars, histVars, CopyInv
  <2> QED BY <2>1 DEF CopyOk, InOutboxOk, InSending, InAir, InCallback, SentTo, Retries, MayGoAgain
<1>2. CASE EmptyOutbox
  BY <1>2, HandleOutboxMsgCopy, SendDoneCopy, SendToCopy DEF EmptyOutbox
<1>3. CASE Report
  BY <1>3, DeliveredCopy, NotDeliveredCopy DEF Report
<1>4. CASE QueueAgain \/ HandleHandshakeRequest
  BY <1>4, RequeueCopy, HandshakeCopy DEF QueueAgain, HandleHandshakeRequest
<1>5. ASSUME NEW s \in States, ChangeState(s)
      PROVE  CopyOk(p)'
  BY <1>5, ChangeStateCopy
<1>6. CASE NextPhase \/ UNCHANGED fleetVars \/ \E q \in Peers : Follower(q) \/ Restart(q)
  BY <1>1, <1>6 DEF NextPhase, fleetVars, Follower, HandleInboxMsg, InboxEmpty, HandleStateChange, Restart
<1> QED BY <1>2, <1>3, <1>4, <1>5, <1>6 DEF FleetNext, MasterLoop, Driver

\* What a step adds to the transmissions is one of the last announcement's copy, or of a
\* handshake message.
LEMMA TransmissionStep ==
  ASSUME Settle, CopyInv, [FleetNext]_fleetVars
  PROVE  Unsent' /\ TransmissionsBounded'
<1>1. CASE UNCHANGED <<tx, order>> /\ pushed' \in {pushed, pushed + 1}
  BY <1>1, CountTypes DEF CopyInv, Unsent, TransmissionsBounded
<1>2. ASSUME NEW q \in Ids, SendTo(q)
      PROVE  Unsent' /\ TransmissionsBounded'
  <2> DEFINE n == sending.msg.no
  <2>1. sending # Idle /\ q \in Peers /\ q \in sending.rest /\ UNCHANGED <<order, pushed>>
    BY <1>2 DEF SendTo, Current, CopyInv, FleetInv, MasterInv, boundVars
  <2>2. n \in MsgNos /\ Present(n)
    <3>1. sending.msg \in Msg
      BY <2>1, BusyType DEF CopyInv, FleetInv, FleetTypeOK
    <3> QED BY <2>1, <3>1 DEF CopyInv, FleetInv, MasterInv, Msg
  <2>3. tx' = tx \/ tx' = [tx EXCEPT ![n][q] = @ + 1]
    BY <1>2 DEF SendTo, Accept, Refuse
  <2>4. n # 0 => n = pushed /\ tx[n][q] <= order[n].maxRetries
    <3>1. n # 0 => InSending(q)
      BY <2>1 DEF InSending
    <3> QED BY <2>1, <2>2, <3>1 DEF CopyInv, CopyOk, MayGoAgain, SentTo, Retries, Present
  <2> HIDE DEF n
  <2>5. CASE tx' = tx
    BY <1>1, <2>1, <2>5
  <2>6. CASE tx' = [tx EXCEPT ![n][q] = @ + 1]
    <3>1. \A k \in MsgNos, p \in Ids : tx'[k][p] = IF k = n /\ p = q THEN tx[k][p] + 1 ELSE tx[k][p]
      BY <2>2, <2>6, CountTypes DEF CopyInv
    <3>2. Unsent'
      BY <2>1, <2>2, <3>1, CountTypes DEF CopyInv, Unsent, Present
    <3>3. TransmissionsBounded'
      BY <2>1, <2>2, <2>4, <3>1, CountTypes DEF CopyInv, TransmissionsBounded
    <3> QED BY <3>2, <3>3
  <2> QED BY <2>3, <2>5, <2>6
<1>3. CASE EmptyOutbox
  BY <1>1, <1>2, <1>3 DEF EmptyOutbox, HandleOutboxMsg, SendDone, boundVars, histVars
<1>4. ASSUME NEW s \in States, ChangeState(s)
      PROVE  Unsent' /\ TransmissionsBounded'
  <2>1. PICK to \in RecipientSets, max \in {0, DEFAULT_RETRIES} :
          order' = [order EXCEPT ![pushed'] = [to |-> to, maxRetries |-> max]]
    BY <1>4 DEF ChangeState, PushOutbox
  <2>2. tx' = tx /\ pushed' = pushed + 1 /\ pushed < MaxMsgs
    BY <1>4 DEF ChangeState, PushOutbox
  <2>3. pushed' \in MsgNos /\ pushed' > pushed /\ max \in Nat
    BY <2>2, CountTypes, Constants DEF CopyInv, MsgNos
  <2>4. Unsent'
    BY <2>2, CountTypes DEF CopyInv, Unsent
  <2>5. \A n \in MsgNos : order'[n].maxRetries = IF n = pushed' THEN max ELSE order[n].maxRetries
    BY <2>1, <2>3 DEF CopyInv, FleetInv, FleetTypeOK, TypeOK
  <2>6. \A p \in Ids : tx[pushed'][p] = 0
    BY <2>3 DEF CopyInv, Unsent
  <2> QED BY <2>2, <2>3, <2>4, <2>5, <2>6 DEF CopyInv, TransmissionsBounded
<1>5. CASE Driver \/ HandleHandshakeRequest
  BY <1>1, <1>5 DEF Driver, Report, QueueAgain, HandleHandshakeRequest, Delivered, NotDelivered, Requeue,
     ReceiveHandshakeRequest, boundVars, histVars
<1>6. CASE NextPhase \/ UNCHANGED fleetVars \/ \E q \in Peers : Follower(q) \/ Restart(q)
  <2>1. UNCHANGED vars
    BY <1>6 DEF NextPhase, fleetVars, Follower, HandleInboxMsg, InboxEmpty, HandleStateChange, Restart
  <2> QED BY <1>1, <2>1 DEF vars, boundVars, histVars
<1> QED BY <1>3, <1>4, <1>5, <1>6 DEF FleetNext, MasterLoop

\* No announcement is transmitted to a device more often than its retries allow.
THEOREM RetriesAreLimited == ASSUME Settle PROVE FleetSpec => []TransmissionsBounded
<1>1. FleetInit => CopyInv
  <2> SUFFICES ASSUME FleetInit PROVE CopyInv
    OBVIOUS
  <2>1. FleetInv /\ \A n \in MsgNos, p \in Ids : tx[n][p] = 0 /\ order[n].maxRetries = 0
    BY FleetInitInv DEF FleetInit
  <2>2. \A p \in Peers : CopyOk(p)
    BY DEF FleetInit, CopyOk, InOutboxOk, InSending, InAir, InCallback
  <2> QED BY <2>1, <2>2 DEF CopyInv, Unsent, TransmissionsBounded
<1>2. CopyInv /\ [FleetNext]_fleetVars => CopyInv'
  BY FleetTypeStep, MasterStep, InboxStep, CopyStep, TransmissionStep DEF CopyInv, FleetInv
<1>3. CopyInv => TransmissionsBounded
  BY DEF CopyInv
<1> QED BY <1>1, <1>2, <1>3, PTL DEF FleetSpec

-----------------------------------------------------------------------------
(* Rest.                                                                    *)

\* A copy of the last announcement is underway to p, and more of its transmissions may fail than
\* have been lost: each failure counts twice in sendCnt.
Lasts(m, c) == m.maxRetries = DEFAULT_RETRIES /\ m.sendCnt <= c
InOutboxFor(p) == \E i \in DOMAIN outbox : Covers(outbox[i], p) /\ Lasts(outbox[i], 2 * losses)
Underway(p) ==
  \/ InOutboxFor(p)
  \/ InSending(p) /\ Lasts(sending.msg, 2 * losses)
  \/ InAir(p) /\ Lasts(lastMsg[p], 2 * losses + 1)
  \/ InCallback(p) /\ Lasts(lastMsg[p], 2 * losses - 1)

\* Or it is there, or it is given up, or was refused; a device that has restarted need not get it.
Arrived(p) == handled[p] = pushed \/ \E i \in DOMAIN inbox[p] : inbox[p][i] = pushed
Refused(p) == <<pushed, p>> \in refused
Due(p) ==
  p \notin unaware \/ inbox[p] # <<>> => losses > Resends \/ Refused(p) \/ Arrived(p) \/ Underway(p)

\* The master can reach all devices and writes to no others; what a device has handled last is what
\* it requests.
AllPaired == peers = Peers /\ Peers \subseteq paired
Addressed ==
  /\ \A i \in DOMAIN outbox : outbox[i].to \subseteq Peers
  /\ sending # Idle => sending.rest \subseteq Peers

\* A device that boots is unaware, and has the initial state requested when it is done.
BootOk(p) ==
  /\ cur[p] = STATE_INIT => p \in unaware
  /\ (cur[p] = STATE_INIT /\ ~drained[p]) \/ requested[p] \in States
Informed ==
  /\ curState = stateIn[pushed]
  /\ \A p \in Peers \ unaware : requested[p] = stateIn[handled[p]]
  /\ \A p \in Peers : BootOk(p)

RestInv == FleetInv /\ AllPaired /\ Addressed /\ Informed /\ \A p \in Peers : Due(p)

\* The table stays complete: what is written over is written again, and is paired already.
LEMMA AllPairedStep ==
  ASSUME FleetInv, AllPaired, [FleetNext]_fleetVars
  PROVE  AllPaired'
<1>1. CASE UNCHANGED <<peers, paired>>
  BY <1>1 DEF AllPaired
<1>2. CASE NotDelivered
  <2>1. PeerDeviceID(Head(air)) \in Peers
    BY <1>2, OneFrame DEF NotDelivered, FleetInv, FrameOk
  <2> QED BY <1>2, <2>1 DEF NotDelivered, AllPaired
<1>3. CASE ReceiveHandshakeRequest
  BY <1>3 DEF ReceiveHandshakeRequest, ConnectToPeers, AllPaired
<1>4. CASE UNCHANGED vars
  BY <1>1, <1>4 DEF vars, tableVars
<1>5. CASE EmptyOutbox \/ QueueAgain \/ \E s \in States : ChangeState(s)
  BY <1>1, <1>5 DEF EmptyOutbox, HandleOutboxMsg, SendDone, SendTo, QueueAgain, Requeue, ChangeState,
     PushOutbox, tableVars
<1>6. CASE Report
  BY <1>1, <1>2, <1>6 DEF Report, Delivered, tableVars
<1>7. CASE NextPhase \/ UNCHANGED fleetVars \/ \E q \in Peers : Follower(q) \/ Restart(q)
  BY <1>4, <1>7 DEF NextPhase, fleetVars, Follower, HandleInboxMsg, InboxEmpty, HandleStateChange, Restart
<1> QED BY <1>3, <1>5, <1>6, <1>7 DEF FleetNext, MasterLoop, Driver, HandleHandshakeRequest

\* A request is always that of the announcement handled last, and its state stays what it announced.
LEMMA InformedStep ==
  ASSUME FleetInv, Informed, [FleetNext]_fleetVars
  PROVE  Informed'
<1>1. CASE UNCHANGED <<curState, stateIn, pushed, unaware, requested, handled, cur, drained>>
  BY <1>1 DEF Informed, BootOk
<1>2. ASSUME NEW s \in States, ChangeState(s)
      PROVE  Informed'
  <2>1. /\ pushed' = pushed + 1 /\ pushed < MaxMsgs /\ curState' = s
        /\ stateIn' = [stateIn EXCEPT ![pushed'] = s]
        /\ UNCHANGED <<unaware, requested, handled, cur, drained>>
    BY <1>2 DEF ChangeState, PushOutbox, peerVars
  <2>2. pushed' \in MsgNos /\ stateIn \in [MsgNos -> States]
    BY <2>1, CountTypes, Constants DEF MsgNos, FleetInv, FleetTypeOK
  <2>3. \A p \in Peers : handled[p] # pushed'
    BY <2>1, Numbers DEF FleetInv, InboxOk
  <2>4. \A p \in Peers : BootOk(p)'
    BY <2>1 DEF Informed, BootOk
  <2> QED BY <2>1, <2>2, <2>3, <2>4 DEF Informed
<1>3. ASSUME NEW q \in Peers, HandleInboxMsg(q)
      PROVE  Informed'
  <2>1. /\ UNCHANGED <<curState, stateIn, pushed, cur, drained>>
        /\ unaware' = IF cur[q] = STATE_INIT THEN unaware ELSE unaware \ {q}
    BY <1>3 DEF HandleInboxMsg, masterVars, vars, boundVars
  <2>2. \A p \in Peers : p # q => requested'[p] = requested[p] /\ handled'[p] = handled[p]
    BY <1>3 DEF HandleInboxMsg, FleetInv, FleetTypeOK
  <2>3. requested'[q] = stateIn[handled'[q]]
    BY <1>3 DEF HandleInboxMsg, RequestAfter, FleetInv, FleetTypeOK
  <2>4. requested'[q] \in States
    <3>1. handled'[q] \in MsgNos
      BY <1>3, FleetTypeStep DEF FleetInv, FleetTypeOK, FleetNext, Follower
    <3> QED BY <2>3, <3>1 DEF FleetInv, FleetTypeOK
  <2>5. \A p \in Peers : BootOk(p)'
    BY <2>1, <2>2, <2>4 DEF Informed, BootOk
  <2> QED BY <2>1, <2>2, <2>3, <2>5 DEF Informed
<1>4. ASSUME NEW q \in Peers, Restart(q)
      PROVE  Informed'
  <2>1. UNCHANGED <<curState, stateIn, pushed, handled>> /\ unaware' = unaware \cup {q}
    BY <1>4 DEF Restart, masterVars, vars, boundVars
  <2>2. \A p \in Peers : p # q => requested'[p] = requested[p] /\ cur'[p] = cur[p] /\ drained'[p] = drained[p]
    BY <1>4 DEF Restart, FleetInv, FleetTypeOK
  <2>3. cur'[q] = STATE_INIT /\ ~drained'[q]
    BY <1>4 DEF Restart, FleetInv, FleetTypeOK
  <2>4. \A p \in Peers : BootOk(p)'
    BY <2>1, <2>2, <2>3, FleetConstants DEF Informed, BootOk
  <2> QED BY <2>1, <2>2, <2>4 DEF Informed
<1>5. CASE MasterLoop \/ Driver \/ HandleHandshakeRequest
  BY <1>1, <1>5 DEF MasterLoop, EmptyOutbox, HandleOutboxMsg, SendDone, SendTo, NextPhase, Driver, Report,
     Delivered, NotDelivered, QueueAgain, Requeue, HandleHandshakeRequest, ReceiveHandshakeRequest,
     masterVars, peerVars, vars, boundVars
<1>6. ASSUME NEW q \in Peers, InboxEmpty(q)
      PROVE  Informed'
  <2>1. UNCHANGED <<curState, stateIn, pushed, unaware, handled, cur>>
    BY <1>6 DEF InboxEmpty, masterVars, vars, boundVars
  <2>2. \A p \in Peers : p # q => requested'[p] = requested[p] /\ drained'[p] = drained[p]
    BY <1>6 DEF InboxEmpty, FleetInv, FleetTypeOK
  <2>3. requested'[q] = IF cur[q] = STATE_INIT THEN InitialState ELSE requested[q]
    BY <1>6 DEF InboxEmpty, RequestAtCheck, FleetInv, FleetTypeOK
  <2>4. \A p \in Peers : BootOk(p)'
    BY <2>1, <2>2, <2>3, FleetConstants DEF Informed, BootOk
  <2>5. \A p \in Peers \ unaware : requested'[p] = requested[p]
    BY <2>2, <2>3 DEF Informed, BootOk
  <2> QED BY <2>1, <2>4, <2>5 DEF Informed
<1>7. ASSUME NEW q \in Peers, HandleStateChange(q)
      PROVE  Informed'
  <2>1. UNCHANGED <<curState, stateIn, pushed, unaware, handled, requested>> /\ drained[q]
    BY <1>7 DEF HandleStateChange, masterVars, vars, boundVars
  <2>2. \A p \in Peers : p # q => cur'[p] = cur[p] /\ drained'[p] = drained[p]
    BY <1>7 DEF HandleStateChange, FleetInv, FleetTypeOK
  <2>3. cur'[q] = requested[q]
    BY <1>7 DEF HandleStateChange, FleetInv, FleetTypeOK
  <2>4. \A p \in Peers : BootOk(p)'
    BY <2>1, <2>2, <2>3, FleetConstants DEF Informed, BootOk
  <2> QED BY <2>1, <2>4 DEF Informed
<1>8. CASE UNCHANGED fleetVars
  BY <1>1, <1>8 DEF fleetVars, masterVars, peerVars, vars, boundVars
<1> QED BY <1>2, <1>3, <1>4, <1>5, <1>6, <1>7, <1>8 DEF FleetNext, Follower

\* The messages in the outbox after one was put in or taken out.
LEMMA OutboxAfter ==
  ASSUME FleetInv
  PROVE  /\ \A m \in Msg : outbox' = Append(outbox, m) =>
              /\ \A i \in DOMAIN outbox : i \in DOMAIN outbox' /\ outbox'[i] = outbox[i]
              /\ \A i \in DOMAIN outbox' : outbox'[i] = m \/ (i \in DOMAIN outbox /\ outbox'[i] = outbox[i])
              /\ \E i \in DOMAIN outbox' : outbox'[i] = m
         /\ outbox # <<>> /\ outbox' = Tail(outbox) =>
              /\ Head(outbox) = outbox[1] /\ 1 \in DOMAIN outbox
              /\ \A i \in DOMAIN outbox' : i + 1 \in DOMAIN outbox /\ outbox'[i] = outbox[i + 1]
              /\ \A i \in DOMAIN outbox : i # 1 => i - 1 \in DOMAIN outbox' /\ outbox'[i - 1] = outbox[i]
<1>1. outbox \in Seq(Msg) /\ DOMAIN outbox = 1 .. Len(outbox) /\ Len(outbox) \in Nat
  BY ElementTypes, LenProperties DEF FleetInv
<1>2. ASSUME NEW m \in Msg, outbox' = Append(outbox, m)
      PROVE  /\ \A i \in DOMAIN outbox : i \in DOMAIN outbox' /\ outbox'[i] = outbox[i]
             /\ \A i \in DOMAIN outbox' : outbox'[i] = m \/ (i \in DOMAIN outbox /\ outbox'[i] = outbox[i])
             /\ \E i \in DOMAIN outbox' : outbox'[i] = m
  <2>1. /\ outbox' \in Seq(Msg) /\ Len(outbox') = Len(outbox) + 1 /\ outbox'[Len(outbox) + 1] = m
        /\ \A i \in 1 .. Len(outbox) : outbox'[i] = outbox[i]
    BY <1>1, <1>2, AppendProperties
  <2>2. DOMAIN outbox' = 1 .. Len(outbox) + 1
    BY <2>1, LenProperties
  <2> QED BY <1>1, <2>1, <2>2
<1>3. ASSUME outbox # <<>>, outbox' = Tail(outbox)
      PROVE  /\ Head(outbox) = outbox[1] /\ 1 \in DOMAIN outbox
             /\ \A i \in DOMAIN outbox' : i + 1 \in DOMAIN outbox /\ outbox'[i] = outbox[i + 1]
             /\ \A i \in DOMAIN outbox : i # 1 => i - 1 \in DOMAIN outbox' /\ outbox'[i - 1] = outbox[i]
  <2>1. outbox' \in Seq(Msg) /\ Len(outbox') = Len(outbox) - 1 /\ Head(outbox) = outbox[1]
    BY <1>1, <1>3, HeadTailProperties
  <2>2. DOMAIN outbox' = 1 .. Len(outbox) - 1
    BY <2>1, LenProperties
  <2>3. /\ 1 \in DOMAIN outbox
        /\ \A i \in DOMAIN outbox' : i + 1 \in DOMAIN outbox /\ outbox'[i] = outbox[i + 1]
    BY <1>1, <1>3, TailElements
  <2>4. ASSUME NEW i \in DOMAIN outbox, i # 1
        PROVE  i - 1 \in DOMAIN outbox' /\ outbox'[i - 1] = outbox[i]
    <3>1. i - 1 \in DOMAIN outbox' /\ (i - 1) + 1 = i
      BY <1>1, <2>2, <2>4
    <3> QED BY <2>3, <3>1
  <2> QED BY <2>1, <2>3, <2>4
<1> QED BY <1>2, <1>3

\* A retry goes to its own device, and no announcement to anything that is none.
LEMMA AddressedStep ==
  ASSUME FleetInv, AllPaired, Addressed, [FleetNext]_fleetVars
  PROVE  Addressed'
<1>1. CASE UNCHANGED <<outbox, sending>>
  BY <1>1 DEF Addressed
<1>2. CASE HandleOutboxMsg
  <2>1. /\ Head(outbox) = outbox[1] /\ 1 \in DOMAIN outbox
        /\ \A i \in DOMAIN outbox' : i + 1 \in DOMAIN outbox /\ outbox'[i] = outbox[i + 1]
    BY <1>2, OutboxAfter DEF HandleOutboxMsg
  <2>2. RecipientIDs(Head(outbox)) \subseteq Peers
    BY <2>1 DEF RecipientIDs, Addressed, AllPaired
  <2> QED BY <1>2, <2>1, <2>2 DEF HandleOutboxMsg, Addressed
<1>3. ASSUME NEW q \in Ids, SendTo(q)
      PROVE  Addressed'
  <2>1. sending # Idle /\ UNCHANGED outbox /\ sending \in [busy : {TRUE}, msg : Msg, rest : SUBSET Ids]
    BY <1>3, BusyType DEF SendTo, FleetInv, FleetTypeOK
  <2>2. sending'.rest = sending.rest \ {q}
    BY <1>3, <2>1 DEF SendTo
  <2> QED BY <2>1, <2>2 DEF Addressed
<1>4. CASE SendDone
  BY <1>4 DEF SendDone, Addressed
<1>5. CASE Requeue
  <2>1. cb # Idle /\ cb.peer \in Peers /\ lastMsg[cb.peer] \in Msg
    BY <1>5, ElementTypes, IdTypes DEF Requeue, FleetInv, MasterInv
  <2> DEFINE m == RetryOf(lastMsg[cb.peer], cb.peer)
  <2>2. m \in Msg /\ m.to \subseteq Peers
    BY <2>1, IdTypes DEF RetryOf, Msg
  <2>3. outbox' = Append(outbox, m) /\ sending' = sending
    BY <1>5 DEF Requeue
  <2> HIDE DEF m
  <2> QED BY <2>2, <2>3, OutboxAfter DEF Addressed
<1>6. CASE ReceiveHandshakeRequest
  <2>1. PICK q \in Peers : outbox' = Append(outbox, Handshake(q))
    BY <1>6 DEF ReceiveHandshakeRequest
  <2>2. Handshake(q) \in Msg /\ Handshake(q).to \subseteq Peers
    BY HandshakeType, IdTypes DEF Handshake
  <2>3. sending' = sending
    BY <1>6 DEF ReceiveHandshakeRequest
  <2> QED BY <2>1, <2>2, <2>3, OutboxAfter DEF Addressed
<1>7. ASSUME NEW s \in States, ChangeState(s)
      PROVE  Addressed'
  <2>1. PICK to \in RecipientSets, max \in {0, DEFAULT_RETRIES} :
          outbox' = Append(outbox, [no |-> pushed', to |-> to, sendCnt |-> 0, maxRetries |-> max])
    BY <1>7 DEF ChangeState, PushOutbox
  <2>2. outbox = <<>> /\ sending' = Idle /\ to \subseteq Peers
    BY <1>7, Constants DEF ChangeState, PushOutbox, Ready, FleetInv, MasterInv
  <2>3. \A i \in DOMAIN outbox' : outbox'[i].to = to
    BY <2>1, <2>2
  <2> QED BY <2>2, <2>3 DEF Addressed
<1>8. CASE Report \/ NextPhase \/ UNCHANGED fleetVars \/ \E q \in Peers : Follower(q) \/ Restart(q)
  BY <1>1, <1>8 DEF Report, Delivered, NotDelivered, NextPhase, fleetVars, Follower, HandleInboxMsg, InboxEmpty,
     HandleStateChange, Restart, vars
<1> QED BY <1>2, <1>3, <1>4, <1>5, <1>6, <1>7, <1>8
        DEF FleetNext, MasterLoop, EmptyOutbox, Driver, QueueAgain, HandleHandshakeRequest

\* What must still reach p stays underway, whatever the loop of the master does.
LEMMA LoopUnderway ==
  ASSUME Settle, RestInv, EmptyOutbox, NEW p \in Peers, Underway(p)
  PROVE  Underway(p)' \/ Refused(p)'
<1>1. CASE HandleOutboxMsg
  <2>1. /\ outbox # <<>> /\ outbox' = Tail(outbox) /\ sending = Idle /\ losses' = losses
        /\ ~InAir(p) /\ ~InCallback(p)
    BY <1>1 DEF HandleOutboxMsg, Ready, RestInv, FleetInv, MasterInv, InAir, InCallback, boundVars
  <2>2. PICK i \in DOMAIN outbox : Covers(outbox[i], p) /\ Lasts(outbox[i], 2 * losses)
    BY <2>1 DEF Underway, InOutboxFor, InSending
  <2>3. CASE i = 1
    <3>1. sending' = [busy |-> TRUE, msg |-> outbox[1], rest |-> RecipientIDs(outbox[1])]
      BY <1>1, <2>1, OutboxAfter DEF HandleOutboxMsg, RestInv
    <3>2. p \in RecipientIDs(outbox[1]) /\ outbox[1].no # 0
      BY <2>2, <2>3 DEF Covers, RecipientIDs, RestInv, AllPaired
    <3>3. InSending(p)' /\ Lasts(sending'.msg, 2 * losses')
      BY <2>1, <2>2, <2>3, <3>1, <3>2 DEF InSending, Idle
    <3> QED BY <3>3 DEF Underway, Lasts
  <2>4. CASE i # 1
    <3>1. i - 1 \in DOMAIN outbox' /\ outbox'[i - 1] = outbox[i]
      BY <2>1, <2>4, OutboxAfter DEF RestInv
    <3>2. InOutboxFor(p)'
      BY <2>1, <2>2, <3>1 DEF InOutboxFor, Covers, Lasts
    <3> QED BY <3>2 DEF Underway
  <2> QED BY <2>3, <2>4
<1>2. ASSUME NEW q \in Ids, SendTo(q)
      PROVE  Underway(p)' \/ Refused(p)'
  <2>1. /\ sending # Idle /\ q \in Peers /\ q \in sending.rest /\ air = <<>> /\ ~InAir(p) /\ ~InCallback(p)
        /\ UNCHANGED <<outbox, losses>> /\ q \in paired
    BY <1>2 DEF SendTo, Settled, Current, RestInv, AllPaired, boundVars, InAir, InCallback, FleetInv, MasterInv
  <2>2. sending \in [busy : {TRUE}, msg : Msg, rest : SUBSET Ids]
    BY <2>1, BusyType DEF RestInv, FleetInv, FleetTypeOK
  <2>3. sending'.msg = sending.msg /\ sending'.rest = sending.rest \ {q} /\ sending' # Idle
    BY <1>2, <2>2 DEF SendTo, Idle
  <2>4. CASE InOutboxFor(p)
    <3>1. InOutboxFor(p)'
      BY <2>1, <2>4 DEF InOutboxFor
    <3> QED BY <3>1 DEF Underway
  <2>5. CASE InSending(p) /\ Lasts(sending.msg, 2 * losses) /\ p # q
    <3>1. InSending(p)' /\ Lasts(sending'.msg, 2 * losses')
      BY <2>1, <2>3, <2>5 DEF InSending
    <3> QED BY <3>1 DEF Underway, Lasts
  <2>6. CASE InSending(p) /\ Lasts(sending.msg, 2 * losses) /\ p = q /\ Accept(sending.msg, q)
    <3> DEFINE m == [sending.msg EXCEPT !.sendCnt = @ + 1]
               f == [no |-> sending.msg.no, to |-> p]
    <3>1. lastMsg' = [lastMsg EXCEPT ![p] = m] /\ air' = Append(air, f)
      BY <2>6 DEF Accept
    <3>2. m.sendCnt = sending.msg.sendCnt + 1 /\ m.maxRetries = sending.msg.maxRetries
      BY <2>2 DEF Msg
    <3>3. f.to = p /\ f.no # 0
      BY <2>6 DEF InSending
    <3> HIDE DEF m, f
    <3>4. lastMsg'[p] = m
      BY <3>1, IdTypes DEF RestInv, FleetInv, FleetTypeOK, TypeOK
    <3>5. InAir(p)'
      <4>1. 1 \in DOMAIN air' /\ air'[1] = f
        BY <2>1, <3>1
      <4> QED BY <3>3, <4>1 DEF InAir
    <3>6. Lasts(m, 2 * losses + 1)
      <4>1. sending.msg.sendCnt \in Nat /\ losses \in Nat
        BY <2>2 DEF Msg, RestInv, FleetInv, FleetTypeOK, TypeOK
      <4> QED BY <2>6, <3>2, <4>1 DEF Lasts
    <3> QED BY <2>1, <3>4, <3>5, <3>6 DEF Underway, Lasts
  <2>7. CASE InSending(p) /\ p = q /\ Refuse(sending.msg, q)
    <3>1. sending.msg.no = pushed /\ pushed' = pushed
      BY <1>2, <2>1, <2>7 DEF SendTo, boundVars, InSending, Present, RestInv, FleetInv, MasterInv
    <3>2. <<sending.msg.no, q>> \in refused'
      BY <2>1, <2>7 DEF Refuse
    <3> QED BY <2>7, <3>1, <3>2 DEF Refused
  <2>8. Accept(sending.msg, q) \/ Refuse(sending.msg, q)
    BY <1>2 DEF SendTo
  <2> QED BY <2>1, <2>4, <2>5, <2>6, <2>7, <2>8 DEF Underway
<1>3. CASE SendDone
  <2>1. sending.rest = {} /\ UNCHANGED <<outbox, air, cb, lastMsg, losses>>
    BY <1>3 DEF SendDone, LoopEnds, Current, RestInv, Addressed, AllPaired, boundVars
  <2>2. ~InSending(p)
    BY <2>1 DEF InSending
  <2> QED BY <2>1, <2>2 DEF Underway, InOutboxFor, InAir, InCallback
<1> QED BY <1>1, <1>2, <1>3 DEF EmptyOutbox

\* A retry and a handshake message are put behind the others.
LEMMA QueuedUnderway ==
  ASSUME RestInv, QueueAgain \/ HandleHandshakeRequest, NEW p \in Peers, Underway(p)
  PROVE  Underway(p)'
<1>1. CASE Requeue
  <2> DEFINE q == cb.peer
             m == RetryOf(lastMsg[q], q)
  <2>1. /\ UNCHANGED <<sending, air, lastMsg, losses>>
        /\ cb # Idle /\ q \in Peers /\ outbox' = Append(outbox, m)
    BY <1>1 DEF Requeue, RestInv, FleetInv, MasterInv, boundVars
  <2>2. lastMsg[q] \in Msg
    BY <2>1, ElementTypes, IdTypes DEF RestInv, FleetInv
  <2>3. /\ m \in Msg /\ m.sendCnt = lastMsg[q].sendCnt + 1 /\ m.maxRetries = lastMsg[q].maxRetries
        /\ m.no = lastMsg[q].no /\ m.to = {q}
    BY <2>1, <2>2, IdTypes DEF RetryOf, Msg
  <2> HIDE DEF m
  <2>4. /\ \A i \in DOMAIN outbox : i \in DOMAIN outbox' /\ outbox'[i] = outbox[i]
        /\ \E i \in DOMAIN outbox' : outbox'[i] = m
    BY <2>1, <2>3, OutboxAfter DEF RestInv
  <2>5. CASE InOutboxFor(p)
    <3>1. InOutboxFor(p)'
      BY <2>1, <2>4, <2>5 DEF InOutboxFor, Covers, Lasts
    <3> QED BY <3>1 DEF Underway
  <2>6. CASE InCallback(p) /\ Lasts(lastMsg[p], 2 * losses - 1)
    <3>1. Covers(m, p) /\ p = q
      BY <2>3, <2>6 DEF InCallback, Covers
    <3>2. Lasts(m, 2 * losses)
      <4>1. lastMsg[q].sendCnt \in Nat /\ losses \in Nat
        BY <2>2 DEF Msg, RestInv, FleetInv, FleetTypeOK, TypeOK
      <4> QED BY <2>3, <2>6, <3>1, <4>1 DEF Lasts
    <3>3. PICK i \in DOMAIN outbox' : outbox'[i] = m
      BY <2>4
    <3>4. InOutboxFor(p)'
      BY <2>1, <3>1, <3>2, <3>3 DEF InOutboxFor, Covers, Lasts
    <3> QED BY <3>4 DEF Underway
  <2>7. CASE InSending(p) /\ Lasts(sending.msg, 2 * losses)
    <3>1. InSending(p)' /\ Lasts(sending.msg, 2 * losses)'
      BY <2>1, <2>7 DEF InSending, Lasts
    <3> QED BY <3>1 DEF Underway
  <2>8. CASE InAir(p) /\ Lasts(lastMsg[p], 2 * losses + 1)
    <3>1. InAir(p)' /\ Lasts(lastMsg[p], 2 * losses + 1)'
      BY <2>1, <2>8 DEF InAir, Lasts
    <3> QED BY <3>1 DEF Underway
  <2> QED BY <2>5, <2>6, <2>7, <2>8 DEF Underway
<1>2. CASE ReceiveHandshakeRequest
  <2>1. PICK q \in Peers : outbox' = Append(outbox, Handshake(q))
    BY <1>2 DEF ReceiveHandshakeRequest
  <2>2. /\ ~InSending(p) /\ ~InAir(p) /\ ~InCallback(p) /\ losses' = losses
    BY <1>2 DEF ReceiveHandshakeRequest, Ready, RestInv, FleetInv, MasterInv, InSending, InAir, InCallback
  <2>3. Handshake(q) \in Msg
    BY HandshakeType, IdTypes
  <2>4. InOutboxFor(p)'
    BY <2>1, <2>2, <2>3, OutboxAfter DEF Underway, InOutboxFor, RestInv, Covers, Lasts
  <2> QED BY <2>4 DEF Underway
<1> QED BY <1>1, <1>2 DEF QueueAgain, HandleHandshakeRequest

\* What was lost is retried until more is lost than it lasts.
LEMMA NotDeliveredUnderway ==
  ASSUME RestInv, NotDelivered, NEW p \in Peers, Underway(p)
  PROVE  Underway(p)' \/ losses' > Resends
<1> DEFINE f == Head(air)
<1>1. /\ UNCHANGED <<outbox, sending, lastMsg>> /\ losses' = losses + 1 /\ losses \in Nat /\ ~InCallback(p)
  BY DEF NotDelivered, InCallback, RestInv, FleetInv, FleetTypeOK, TypeOK
<1>2. f = air[1] /\ 1 \in DOMAIN air /\ PeerDeviceID(f) = f.to /\ \A i \in DOMAIN air : i = 1
  BY OneFrame DEF NotDelivered, RestInv, FleetInv, MasterInv
<1>3. \A m \in Msg : Lasts(m, 2 * losses) => Lasts(m, 2 * losses')
  BY <1>1 DEF Lasts, Msg
<1>4. CASE InOutboxFor(p)
  <2>1. \A i \in DOMAIN outbox : outbox[i] \in Msg
    BY ElementTypes DEF RestInv, FleetInv
  <2>2. InOutboxFor(p)'
    BY <1>1, <1>3, <1>4, <2>1 DEF InOutboxFor, Lasts
  <2> QED BY <2>2 DEF Underway
<1>5. CASE InSending(p) /\ Lasts(sending.msg, 2 * losses)
  <2>1. sending.msg \in Msg
    BY <1>5, BusyType DEF InSending, RestInv, FleetInv, FleetTypeOK
  <2>2. InSending(p)' /\ Lasts(sending'.msg, 2 * losses')
    BY <1>1, <1>3, <1>5, <2>1 DEF InSending
  <2> QED BY <2>2 DEF Underway, Lasts
<1>6. CASE InAir(p) /\ Lasts(lastMsg[p], 2 * losses + 1)
  <2>1. f.to = p /\ f.no # 0 /\ lastMsg[p].no = f.no
    BY <1>2, <1>6, OneFrame DEF InAir, NotDelivered, RestInv, FleetInv, FrameOk
  <2>2. lastMsg[p] \in Msg /\ lastMsg[p].sendCnt \in Nat
    BY ElementTypes, IdTypes DEF RestInv, FleetInv, Msg
  <2>3. CASE HasRetriesLeft(lastMsg[p])
    <3>1. cb' = [busy |-> TRUE, peer |-> p]
      BY <1>2, <2>1, <2>3 DEF NotDelivered
    <3>2. InCallback(p)'
      BY <1>1, <2>1, <3>1 DEF InCallback, Idle
    <3>3. Lasts(lastMsg[p], 2 * losses' - 1)
      BY <1>1, <1>6, <2>2 DEF Lasts
    <3> QED BY <1>1, <3>2, <3>3 DEF Underway, Lasts
  <2>4. CASE ~HasRetriesLeft(lastMsg[p])
    BY <1>1, <1>6, <2>2, <2>4, Constants DEF Lasts, HasRetriesLeft, Resends
  <2> QED BY <2>3, <2>4
<1> QED BY <1>1, <1>4, <1>5, <1>6 DEF Underway

\* A step that leaves the sender as it is.
LEMMA UnderwayStays ==
  ASSUME UNCHANGED vars, NEW p \in Peers, Underway(p)
  PROVE  Underway(p)'
<1>1. UNCHANGED <<outbox, sending, air, cb, lastMsg, losses>>
  BY DEF vars, boundVars
<1>2. (InOutboxFor(p)' <=> InOutboxFor(p)) /\ (InSending(p)' <=> InSending(p))
      /\ (InAir(p)' <=> InAir(p)) /\ (InCallback(p)' <=> InCallback(p))
  BY <1>1 DEF InOutboxFor, InSending, InAir, InCallback
<1> QED BY <1>1, <1>2 DEF Underway, Lasts

\* An announcement is underway to everyone as soon as it is made.
LEMMA AnnouncementUnderway ==
  ASSUME RestInv, NEW s \in States, ChangeState(s), NEW p \in Peers
  PROVE  Underway(p)'
<1>1. PICK to \in RecipientSets, max \in {0, DEFAULT_RETRIES} :
        /\ outbox' = Append(outbox, [no |-> pushed', to |-> to, sendCnt |-> 0, maxRetries |-> max])
        /\ order' = [order EXCEPT ![pushed'] = [to |-> to, maxRetries |-> max]]
  BY DEF ChangeState, PushOutbox
<1>2. /\ outbox = <<>> /\ pushed' = pushed + 1 /\ pushed < MaxMsgs /\ pushed \in Nat /\ losses' = losses
      /\ losses \in Nat /\ order \in [MsgNos -> [to : SUBSET Peers, maxRetries : {0, DEFAULT_RETRIES}]]
  BY ElementTypes DEF ChangeState, PushOutbox, RestInv, FleetInv, MasterInv, FleetTypeOK, TypeOK
<1>3. pushed' \in MsgNos /\ pushed' # 0
  BY <1>2, Constants DEF MsgNos
<1>4. order'[pushed'] = [to |-> to, maxRetries |-> max]
  BY <1>1, <1>2, <1>3
<1>5. to = {} /\ max = DEFAULT_RETRIES
  BY <1>4 DEF ChangeState
<1> DEFINE m == [no |-> pushed', to |-> to, sendCnt |-> 0, maxRetries |-> max]
<1>6. 1 \in DOMAIN outbox' /\ outbox'[1] = m
  BY <1>1, <1>2
<1>7. Covers(m, p) /\ Lasts(m, 2 * losses')
  BY <1>2, <1>3, <1>5 DEF Covers, Lasts
<1> HIDE DEF m
<1>8. InOutboxFor(p)'
  BY <1>6, <1>7 DEF InOutboxFor, Covers, Lasts
<1> QED BY <1>8 DEF Underway

\* What is delivered has arrived.
LEMMA ReportDue ==
  ASSUME RestInv, Report, NEW p \in Peers
  PROVE  Due(p)'
<1> DEFINE f == Head(air)
<1>1. /\ UNCHANGED <<pushed, handled, unaware, refused>> /\ air # <<>>
      /\ losses \in Nat /\ losses' \in Nat /\ losses' >= losses /\ Resends \in Int
  BY Constants DEF Report, Delivered, NotDelivered, boundVars, histVars, Resends, RestInv, FleetInv, FleetTypeOK, TypeOK
<1>2. Present(f.no) /\ f.to \in Peers /\ f = air[1] /\ \A i \in DOMAIN air : i = 1
  BY <1>1, OneFrame DEF RestInv, FleetInv, FrameOk, MasterInv
<1>3. \/ inbox'[p] = inbox[p]
      \/ inbox'[p] = Append(inbox[p], pushed)
  BY <1>1, <1>2 DEF Report, Arrives, Present, RestInv, FleetInv, FleetTypeOK
<1>4. inbox'[p] = Append(inbox[p], pushed) => Arrived(p)'
  <2>1. inbox[p] \in Seq(MsgNos) /\ pushed \in MsgNos
    BY Numbers DEF RestInv, FleetInv, FleetTypeOK, TypeOK, MsgNos
  <2>2. \E i \in DOMAIN Append(inbox[p], pushed) : Append(inbox[p], pushed)[i] = pushed
    BY <2>1, AppendProperties, LenProperties
  <2> QED BY <1>1, <2>2 DEF Arrived
<1>5. ASSUME inbox'[p] = inbox[p]
      PROVE  Due(p)'
  <2>1. CASE losses > Resends \/ Refused(p)
    BY <1>1, <2>1 DEF Due, Refused
  <2>2. CASE Arrived(p)
    <3>1. Arrived(p)'
      BY <1>1, <1>5, <2>2 DEF Arrived
    <3> QED BY <3>1 DEF Due
  <2>3. CASE Underway(p) /\ NotDelivered
    BY <2>3, NotDeliveredUnderway DEF Due
  <2>4. CASE Underway(p) /\ Delivered /\ Arrives(Head(air))
    <3>1. UNCHANGED <<outbox, sending, lastMsg, cb, losses>> /\ ~InCallback(p)
      BY <2>4 DEF Delivered, InCallback, boundVars
    <3>2. CASE InAir(p)
      <4>1. f.to = p /\ f.no = pushed /\ f.no # 0
        BY <1>2, <3>2 DEF InAir, Present
      <4>2. inbox'[p] = Append(inbox[p], pushed)
        BY <2>4, <4>1 DEF Arrives, RestInv, FleetInv, FleetTypeOK
      <4> QED BY <1>4, <4>2 DEF Due
    <3>3. CASE InOutboxFor(p) \/ (InSending(p) /\ Lasts(sending.msg, 2 * losses))
      <4>1. InOutboxFor(p)' \/ (InSending(p) /\ Lasts(sending.msg, 2 * losses))'
        BY <3>1, <3>3 DEF InOutboxFor, InSending, Lasts
      <4> QED BY <4>1 DEF Due, Underway
    <3> QED BY <2>4, <3>1, <3>2, <3>3 DEF Underway
  <2>5. CASE ~(p \notin unaware \/ inbox[p] # <<>>)
    BY <1>1, <1>5, <2>5 DEF Due
  <2>6. Due(p) /\ (NotDelivered \/ (Delivered /\ Arrives(Head(air))))
    <3>1. Due(p)
      BY DEF RestInv
    <3>2. NotDelivered \/ (Delivered /\ Arrives(Head(air)))
      BY DEF Report
    <3> QED BY <3>1, <3>2
  <2> QED BY <2>1, <2>2, <2>3, <2>4, <2>5, <2>6 DEF Due
<1> QED BY <1>3, <1>4, <1>5 DEF Due

\* A device takes the last announcement out of its inbox last.
LEMMA HandleDue ==
  ASSUME RestInv, NEW q \in Peers, HandleInboxMsg(q), NEW p \in Peers
  PROVE  Due(p)'
<1>1. /\ UNCHANGED <<pushed, losses, refused>> /\ (Underway(p) => Underway(p)')
      /\ unaware' \in {unaware, unaware \ {q}} /\ (Refused(p)' <=> Refused(p))
  BY UnderwayStays DEF HandleInboxMsg, vars, boundVars, histVars, Refused
<1>2. CASE p # q
  <2>1. inbox'[p] = inbox[p] /\ handled'[p] = handled[p]
    BY <1>2 DEF HandleInboxMsg, RestInv, FleetInv, FleetTypeOK
  <2>2. Arrived(p)' <=> Arrived(p)
    BY <1>1, <2>1 DEF Arrived
  <2> QED BY <1>1, <1>2, <2>1, <2>2 DEF RestInv, Due
<1>3. CASE p = q
  <2>1. inbox[p] # <<>> /\ inbox[p] \in Seq(MsgNos) /\ pushed \in Nat /\ handled[p] \in Nat
        /\ \A i \in DOMAIN inbox[p] : inbox[p][i] \in Nat
    BY <1>3, Numbers DEF HandleInboxMsg, RestInv, FleetInv
  <2>2. /\ 1 \in DOMAIN inbox[p] /\ Head(inbox[p]) = inbox[p][1]
        /\ \A i \in DOMAIN inbox[p] : i # 1 => i - 1 \in DOMAIN Tail(inbox[p]) /\ Tail(inbox[p])[i - 1] = inbox[p][i]
    <3>1. DOMAIN inbox[p] = 1 .. Len(inbox[p]) /\ Len(inbox[p]) \in Nat
      BY <2>1, LenProperties
    <3>2. Tail(inbox[p]) \in Seq(MsgNos) /\ Len(Tail(inbox[p])) = Len(inbox[p]) - 1
      BY <2>1, HeadTailProperties
    <3>3. DOMAIN Tail(inbox[p]) = 1 .. Len(inbox[p]) - 1
      BY <3>2, LenProperties
    <3>4. /\ 1 \in DOMAIN inbox[p] /\ Head(inbox[p]) = inbox[p][1]
          /\ \A i \in DOMAIN Tail(inbox[p]) : Tail(inbox[p])[i] = inbox[p][i + 1]
      BY <2>1, TailElements
    <3>5. ASSUME NEW i \in DOMAIN inbox[p], i # 1
          PROVE  i - 1 \in DOMAIN Tail(inbox[p]) /\ (i - 1) + 1 = i
      BY <3>1, <3>3, <3>5
    <3>6. ASSUME NEW i \in DOMAIN inbox[p], i # 1
          PROVE  i - 1 \in DOMAIN Tail(inbox[p]) /\ Tail(inbox[p])[i - 1] = inbox[p][i]
      BY <3>4, <3>5, <3>6
    <3> QED BY <3>4, <3>6
  <2>3. inbox'[p] = Tail(inbox[p]) /\ handled'[p] = inbox[p][1]
    BY <1>3, <2>2 DEF HandleInboxMsg, RestInv, FleetInv, FleetTypeOK
  <2>4. ASSUME Arrived(p)
        PROVE  Arrived(p)'
    <3>1. CASE handled[p] = pushed \/ inbox[p][1] = pushed
      <4>1. handled[p] <= inbox[p][1] /\ inbox[p][1] <= pushed
        BY <2>2 DEF RestInv, FleetInv, InboxOk
      <4>2. inbox[p][1] = pushed
        BY <2>1, <2>2, <3>1, <4>1
      <4> QED BY <1>1, <2>3, <4>2 DEF Arrived
    <3>2. ASSUME NEW i \in DOMAIN inbox[p], inbox[p][i] = pushed, i # 1
          PROVE  Arrived(p)'
      <4>1. i - 1 \in DOMAIN inbox'[p] /\ inbox'[p][i - 1] = pushed'
        BY <1>1, <2>2, <2>3, <3>2
      <4> QED BY <4>1 DEF Arrived
    <3> QED BY <2>4, <3>1, <3>2 DEF Arrived
  <2> QED BY <1>1, <2>1, <2>4 DEF RestInv, Due
<1> QED BY <1>2, <1>3

\* Whatever happens, what a device is due is underway, has arrived, or is lost too often.
LEMMA DueStep ==
  ASSUME Settle, RestInv, [FleetNext]_fleetVars, NEW p \in Peers
  PROVE  Due(p)'
<1>1. ASSUME UNCHANGED <<inbox, handled, unaware, pushed, losses>>, refused \subseteq refused',
             Underway(p) => Underway(p)' \/ Refused(p)'
      PROVE  Due(p)'
  BY <1>1 DEF RestInv, Due, Arrived, Refused
<1>2. CASE EmptyOutbox
  <2>1. UNCHANGED <<inbox, handled, unaware, pushed, losses>>
    BY <1>2 DEF EmptyOutbox, HandleOutboxMsg, SendDone, SendTo, peerVars, boundVars
  <2>2. refused \subseteq refused'
    BY <1>2 DEF EmptyOutbox, HandleOutboxMsg, SendDone, SendTo, Accept, Refuse, histVars
  <2> QED BY <1>1, <1>2, <2>1, <2>2, LoopUnderway
<1>3. CASE QueueAgain \/ HandleHandshakeRequest
  <2>1. UNCHANGED <<inbox, handled, unaware, pushed, losses, refused>>
    BY <1>3 DEF QueueAgain, Requeue, HandleHandshakeRequest, ReceiveHandshakeRequest, peerVars, boundVars, histVars
  <2> QED BY <1>1, <1>3, <2>1, QueuedUnderway
<1>4. CASE Report
  BY <1>4, ReportDue
<1>5. ASSUME NEW s \in States, ChangeState(s)
      PROVE  Due(p)'
  BY <1>5, AnnouncementUnderway DEF Due
<1>6. ASSUME NEW q \in Peers, HandleInboxMsg(q)
      PROVE  Due(p)'
  BY <1>6, HandleDue
<1>7. ASSUME NEW q \in Peers, Restart(q)
      PROVE  Due(p)'
  <2>1. /\ UNCHANGED <<handled, pushed, losses>> /\ unaware' = unaware \cup {q}
        /\ (Underway(p) => Underway(p)') /\ (Refused(p)' <=> Refused(p))
    BY <1>7, UnderwayStays DEF Restart, vars, boundVars, histVars, Refused
  <2>2. inbox' = [inbox EXCEPT ![q] = <<>>] /\ inbox \in [Peers -> Seq(MsgNos)]
    BY <1>7 DEF Restart, RestInv, FleetInv, FleetTypeOK
  <2>3. CASE p = q
    BY <2>1, <2>2, <2>3 DEF Due
  <2>4. CASE p # q
    <3>1. inbox'[p] = inbox[p]
      BY <2>2, <2>4
    <3> QED BY <2>1, <2>4, <3>1 DEF RestInv, Due, Arrived
  <2> QED BY <2>3, <2>4
<1>8. CASE NextPhase \/ UNCHANGED fleetVars \/ \E q \in Peers : InboxEmpty(q) \/ HandleStateChange(q)
  <2>1. UNCHANGED <<vars, inbox, handled, unaware>>
    BY <1>8 DEF NextPhase, fleetVars, InboxEmpty, HandleStateChange, peerVars
  <2>2. UNCHANGED <<pushed, losses, refused>> /\ (Underway(p) => Underway(p)')
    BY <2>1, UnderwayStays DEF vars, boundVars, histVars
  <2> QED BY <1>1, <2>1, <2>2
<1> QED BY <1>2, <1>3, <1>4, <1>5, <1>6, <1>7, <1>8 DEF FleetNext, MasterLoop, Driver, Follower

\* With nothing left to send, to retry or to handle, a device is in the state that was announced
\* last, if it has heard of a state since its last boot was done, the driver did not refuse to send it
\* that announcement, and no more is lost than an announcement lasts.
THEOREM DevicesRestInStep == ASSUME Settle PROVE FleetSpec => []RestsInStep
<1>1. FleetInit => RestInv
  <2> SUFFICES ASSUME FleetInit PROVE RestInv
    OBVIOUS
  <2>1. AllPaired /\ Addressed /\ \A p \in Peers : Due(p)
    BY DEF FleetInit, AllPaired, Addressed, Due, Arrived
  <2>2. Informed
    BY Constants, FleetConstants DEF FleetInit, Informed, BootOk, MsgNos
  <2> QED BY <2>1, <2>2, FleetInitInv DEF RestInv
<1>2. RestInv /\ [FleetNext]_fleetVars => RestInv'
  BY FleetTypeStep, MasterStep, InboxStep, AllPairedStep, AddressedStep, InformedStep, DueStep
     DEF RestInv, FleetInv
<1>3. RestInv => RestsInStep
  <2> SUFFICES ASSUME RestInv, MasterRests, ~(losses > Resends), NEW p \in Told, Rests(p)
               PROVE  cur[p] = curState
    BY DEF RestsInStep
  <2>1. ~Underway(p)
    BY DEF MasterRests, Underway, InOutboxFor, InSending, InAir, InCallback
  <2>2. p \in Peers \ unaware /\ ~Refused(p)
    BY DEF Told, Refused
  <2>3. handled[p] = pushed
    BY <2>1, <2>2 DEF RestInv, Due, Arrived, Rests
  <2> QED BY <2>2, <2>3 DEF RestInv, Informed, Rests
<1> QED BY <1>1, <1>2, <1>3, PTL DEF FleetSpec


-----------------------------------------------------------------------------
(* Following.                                                               *)

Places  == [p \in Peers |-> handled[p] + 1]
Wanted  == [p \in Peers |-> AfterBoot(requested[p])]
Entered == [p \in Peers |-> AfterBoot(cur[p])]

PathOf(n, s, f) == [i \in 1 .. n + 1 |-> IF i = n + 1 THEN s ELSE f[i - 1]]

\* The path is a sequence of states, whose last is the master's, and the number of an announcement
\* is its place.
LEMMA PathType ==
  ASSUME NEW n \in 0 .. MaxMsgs, NEW f \in [MsgNos -> States], NEW s, s = f[n]
  PROVE  /\ PathOf(n, s, f) \in Seq(States) /\ Len(PathOf(n, s, f)) = n + 1
         /\ PathOf(n, s, f)[n + 1] = s
         /\ \A k \in 0 .. n : PathOf(n, s, f)[k + 1] = f[k]
<1> DEFINE path == PathOf(n, s, f)
<1>1. n \in Nat /\ \A k \in 0 .. n : k \in MsgNos
  BY Constants DEF MsgNos
<1>2. \A i \in 1 .. n + 1 : path[i] = IF i = n + 1 THEN s ELSE f[i - 1]
  BY DEF PathOf
<1>3. \A i \in 1 .. n + 1 : i - 1 \in 0 .. n
  BY <1>1
<1>4. path \in [1 .. n + 1 -> States] /\ n + 1 \in Nat
  <2>1. \A i \in 1 .. n + 1 : path[i] \in States
    BY <1>1, <1>2, <1>3
  <2> QED BY <1>1, <2>1 DEF PathOf
<1> HIDE DEF path
<1>5. path \in Seq(States) /\ Len(path) = n + 1
  BY <1>4, IsASeq, LenProperties
<1>6. \A k \in 0 .. n : k + 1 \in 1 .. n + 1 /\ (k + 1) - 1 = k
  BY <1>1
<1>7. \A k \in 0 .. n : path[k + 1] = f[k]
  BY <1>1, <1>2, <1>6
<1>8. path[n + 1] = s
  BY <1>1, <1>2
<1> QED BY <1>5, <1>7, <1>8 DEF path

\* The same of the path of this state.
LEMMA MasterPathType ==
  ASSUME FleetInv, Informed
  PROVE  /\ MasterPath \in Seq(States) /\ Len(MasterPath) = pushed + 1 /\ pushed \in Nat
         /\ MasterPath[pushed + 1] = curState
         /\ \A n \in 0 .. pushed : MasterPath[n + 1] = stateIn[n]
<1>1. /\ pushed \in 0 .. MaxMsgs /\ pushed \in Nat /\ stateIn \in [MsgNos -> States]
      /\ curState = stateIn[pushed] /\ MasterPath = PathOf(pushed, curState, stateIn)
  BY ElementTypes DEF FleetInv, FleetTypeOK, TypeOK, Informed, MasterPath, PathOf
<1> QED BY <1>1, PathType

\* A change of state makes the path longer by one, and changes nothing that was announced.
LEMMA LeadStep ==
  ASSUME FleetInv, Informed, FleetInv', Informed', NEW s \in States, ChangeState(s)
  PROVE  Follow!Lead(s)
<1>1. /\ pushed' = pushed + 1 /\ curState' = s /\ <<curState, s>> \in Changes
      /\ stateIn' = [stateIn EXCEPT ![pushed'] = s]
      /\ UNCHANGED <<handled, requested, cur>>
  BY DEF ChangeState, PushOutbox, peerVars
<1>2. /\ MasterPath \in Seq(States) /\ Len(MasterPath) = pushed + 1 /\ pushed \in Nat
      /\ MasterPath[pushed + 1] = curState
      /\ \A n \in 0 .. pushed : MasterPath[n + 1] = stateIn[n]
  BY MasterPathType
<1>3. /\ MasterPath' \in Seq(States) /\ Len(MasterPath') = pushed + 2
      /\ MasterPath'[pushed + 2] = s
      /\ \A n \in 0 .. pushed : MasterPath'[n + 1] = stateIn'[n]
  <2>1. /\ pushed' \in 0 .. MaxMsgs /\ stateIn' \in [MsgNos -> States] /\ curState' = stateIn'[pushed']
        /\ MasterPath' = PathOf(pushed', curState', stateIn')
    BY DEF FleetInv, FleetTypeOK, TypeOK, Informed, MasterPath, PathOf
  <2>2. /\ MasterPath' \in Seq(States) /\ Len(MasterPath') = pushed' + 1
        /\ MasterPath'[pushed' + 1] = curState'
        /\ \A n \in 0 .. pushed' : MasterPath'[n + 1] = stateIn'[n]
    <3>1. PICK n, c, f : n = pushed' /\ c = curState' /\ f = stateIn'
      OBVIOUS
    <3>2. n \in 0 .. MaxMsgs /\ f \in [MsgNos -> States] /\ c = f[n]
      BY <2>1, <3>1
    <3>3. /\ PathOf(n, c, f) \in Seq(States) /\ Len(PathOf(n, c, f)) = n + 1
          /\ PathOf(n, c, f)[n + 1] = c /\ \A k \in 0 .. n : PathOf(n, c, f)[k + 1] = f[k]
      BY <3>2, PathType
    <3> QED BY <2>1, <3>1, <3>3
  <2>3. pushed' + 1 = pushed + 2 /\ \A n \in 0 .. pushed : n \in 0 .. pushed'
    BY <1>1, <1>2
  <2> QED BY <1>1, <2>2, <2>3
<1> DEFINE t == Append(MasterPath, s)
<1>4. /\ t \in Seq(States) /\ Len(t) = Len(MasterPath) + 1 /\ t[Len(MasterPath) + 1] = s
      /\ \A i \in 1 .. Len(MasterPath) : t[i] = MasterPath[i]
  BY <1>2, AppendProperties
<1>5. Len(t) = pushed + 2 /\ t[pushed + 2] = s /\ \A i \in 1 .. pushed + 1 : t[i] = MasterPath[i]
  BY <1>2, <1>4
<1> HIDE DEF t
<1>6. ASSUME NEW i \in 1 .. pushed + 2
      PROVE  MasterPath'[i] = t[i]
  <2>1. CASE i = pushed + 2
    BY <1>3, <1>5, <2>1
  <2>2. CASE i # pushed + 2
    <3>1. i - 1 \in 0 .. pushed /\ (i - 1) + 1 = i /\ i \in 1 .. pushed + 1 /\ i - 1 # pushed'
      BY <1>1, <1>2, <2>2
    <3>2. stateIn'[i - 1] = stateIn[i - 1]
      <4>1. stateIn \in [MsgNos -> States] /\ i - 1 \in MsgNos
        BY <1>2, <3>1, Constants DEF FleetInv, FleetTypeOK, TypeOK, MsgNos
      <4> QED BY <1>1, <3>1, <4>1
    <3> QED BY <1>2, <1>3, <1>5, <3>1, <3>2
  <2> QED BY <2>1, <2>2
<1>7. MasterPath' = t
  BY <1>3, <1>4, <1>5, <1>6, SeqEqual
<1>8. MasterPath[Len(MasterPath)] = curState
  BY <1>2
<1>9. UNCHANGED <<Places, Wanted, Entered>>
  BY <1>1 DEF Places, Wanted, Entered
<1> QED BY <1>1, <1>7, <1>8, <1>9 DEF Follow!Lead, t, Places, Wanted, Entered

\* A device hears of no state but those on the path, from its place on.
LEMMA HearStep ==
  ASSUME FleetInv, Informed, NEW q \in Peers, HandleInboxMsg(q)
  PROVE  Follow!Hear(q)
<1> DEFINE n == Head(inbox[q])
<1>1. /\ UNCHANGED <<curState, stateIn, pushed, cur>>
      /\ requested' = [requested EXCEPT ![q] = stateIn[n]]
      /\ handled' = [handled EXCEPT ![q] = n]
  BY DEF HandleInboxMsg, RequestAfter, masterVars, vars, boundVars
<1>2. handled[q] <= n /\ n <= pushed /\ n \in Nat /\ handled[q] \in Nat /\ pushed \in Nat
  <2>1. inbox[q] \in Seq(MsgNos) /\ inbox[q] # <<>>
    BY Numbers DEF HandleInboxMsg, FleetInv
  <2>2. 1 \in DOMAIN inbox[q] /\ n = inbox[q][1]
    BY <2>1, TailElements
  <2> QED BY <2>2, Numbers DEF FleetInv, InboxOk
<1> HIDE DEF n
<1>3. n + 1 \in handled[q] + 1 .. pushed + 1 /\ n \in 0 .. pushed
  BY <1>2
<1>4. Len(MasterPath) = pushed + 1 /\ MasterPath[n + 1] = stateIn[n]
  BY <1>3, MasterPathType
<1>5. handled \in [Peers -> MsgNos] /\ Places[q] = handled[q] + 1
  BY DEF FleetInv, FleetTypeOK, Places
<1>6. Places' = [Places EXCEPT ![q] = n + 1]
  BY <1>1, <1>5 DEF Places
<1>7. MasterPath' = MasterPath
  BY <1>1 DEF MasterPath
<1>8. \E i \in Places[q] .. Len(MasterPath) :
        Places' = [Places EXCEPT ![q] = i] /\ Wanted' = [Wanted EXCEPT ![q] = MasterPath[i]]
  <2>1. n \in MsgNos
    BY <1>3, Constants DEF MsgNos, FleetInv, FleetTypeOK, TypeOK
  <2>2. AfterBoot(stateIn[n]) = stateIn[n]
    BY <2>1, FleetConstants DEF AfterBoot, FleetInv, FleetTypeOK
  <2>3. Wanted' = [Wanted EXCEPT ![q] = stateIn[n]]
    BY <1>1, <2>2 DEF Wanted, FleetInv, FleetTypeOK
  <2> QED BY <1>3, <1>4, <1>5, <1>6, <2>3
<1>9. Entered' = Entered
  BY <1>1 DEF Entered
<1> QED BY <1>1, <1>7, <1>8, <1>9 DEF Follow!Hear, Places, Wanted, Entered

\* Every step of a fleet is one of following, or none.
LEMMA FollowStep ==
  ASSUME FleetInv, Informed, FleetInv', Informed', [FleetNext]_fleetVars
  PROVE  [Follow!Next]_<<MasterPath, Places, Wanted, Entered>>
<1>1. CASE UNCHANGED <<curState, stateIn, pushed, handled, requested, cur>>
  BY <1>1 DEF MasterPath, Places, Wanted, Entered
<1>2. ASSUME NEW s \in States, ChangeState(s)
      PROVE  Follow!Next
  BY <1>2, LeadStep DEF Follow!Next
<1>3. ASSUME NEW q \in Peers, HandleInboxMsg(q)
      PROVE  Follow!Next
  BY <1>3, HearStep DEF Follow!Next
<1>4. ASSUME NEW q \in Peers, HandleStateChange(q)
      PROVE  Follow!Next
  <2>1. UNCHANGED <<curState, stateIn, pushed, handled, requested>> /\ cur' = [cur EXCEPT ![q] = requested[q]]
    BY <1>4 DEF HandleStateChange, masterVars, vars, boundVars
  <2>2. MasterPath' = MasterPath /\ Places' = Places /\ Wanted' = Wanted
    BY <2>1 DEF MasterPath, Places, Wanted
  <2>3. Entered' = [Entered EXCEPT ![q] = Wanted[q]]
    BY <2>1 DEF Entered, Wanted, FleetInv, FleetTypeOK
  <2>4. Follow!Enter(q)
    BY <2>2, <2>3 DEF Follow!Enter, Places, Wanted, Entered
  <2> QED BY <2>4 DEF Follow!Next
<1>5. ASSUME NEW q \in Peers, Restart(q) \/ (InboxEmpty(q) /\ cur[q] = STATE_INIT)
      PROVE  Follow!Next
  <2>1. /\ UNCHANGED <<curState, stateIn, pushed, handled>>
        /\ requested' \in {[requested EXCEPT ![q] = InitialState], [requested EXCEPT ![q] = STATE_INIT]}
        /\ cur' = [cur EXCEPT ![q] = STATE_INIT]
    BY <1>5 DEF Restart, InboxEmpty, RequestAtCheck, masterVars, vars, boundVars, FleetInv, FleetTypeOK
  <2>2. MasterPath' = MasterPath /\ Places' = Places
    BY <2>1 DEF MasterPath, Places
  <2>3. AfterBoot(InitialState) = InitialState /\ AfterBoot(STATE_INIT) = InitialState
    BY DEF AfterBoot
  <2>4. Wanted' = [Wanted EXCEPT ![q] = InitialState] /\ Entered' = [Entered EXCEPT ![q] = InitialState]
    BY <2>1, <2>3 DEF Wanted, Entered, FleetInv, FleetTypeOK
  <2>5. Follow!StartAgain(q)
    BY <2>2, <2>4 DEF Follow!StartAgain, Places, Wanted, Entered
  <2> QED BY <2>5 DEF Follow!Next
<1>6. CASE MasterLoop \/ Driver \/ HandleHandshakeRequest
  BY <1>1, <1>6 DEF MasterLoop, EmptyOutbox, HandleOutboxMsg, SendDone, SendTo, NextPhase, Driver, Report,
     Delivered, NotDelivered, QueueAgain, Requeue, HandleHandshakeRequest, ReceiveHandshakeRequest,
     masterVars, peerVars, vars, boundVars
<1>7. ASSUME NEW q \in Peers, InboxEmpty(q), cur[q] # STATE_INIT
      PROVE  UNCHANGED <<MasterPath, Places, Wanted, Entered>>
  <2>1. UNCHANGED <<curState, stateIn, pushed, handled, requested, cur>>
    BY <1>7 DEF InboxEmpty, RequestAtCheck, masterVars, vars, boundVars, FleetInv, FleetTypeOK
  <2> QED BY <2>1 DEF MasterPath, Places, Wanted, Entered
<1>8. CASE UNCHANGED fleetVars
  BY <1>1, <1>8 DEF fleetVars, masterVars, peerVars, vars, boundVars
<1> QED BY <1>2, <1>3, <1>4, <1>5, <1>6, <1>7, <1>8 DEF FleetNext, Follower

\* The devices of a fleet follow their master: no loss, no retry and no restart makes one of them go
\* back or want a state that the master was not in.
THEOREM TheFleetFollows == ASSUME Settle PROVE FleetSpec => FollowsMaster
<1>1. FleetInit => FleetInv /\ Informed
  <2>1. FleetInit => Informed
    BY Constants, FleetConstants DEF FleetInit, Informed, BootOk, MsgNos
  <2> QED BY <2>1, FleetInitInv
<1>2. FleetInit => Follow!Init
  <2> SUFFICES ASSUME FleetInit PROVE Follow!Init
    OBVIOUS
  <2>1. /\ MasterPath \in Seq(States) /\ Len(MasterPath) = 1 /\ MasterPath[1] = InitialState
    <3>1. pushed = 0 /\ curState = InitialState
      BY DEF FleetInit
    <3> QED BY <1>1, <3>1, MasterPathType
  <2>2. /\ <<InitialState>> \in Seq(States) /\ Len(<<InitialState>>) = 1
        /\ <<InitialState>>[1] = InitialState
    BY FleetConstants
  <2>3. MasterPath = <<InitialState>>
    BY <2>1, <2>2, SeqEqual
  <2>4. [p \in Peers |-> handled[p] + 1] = [p \in Peers |-> 1]
    BY DEF FleetInit
  <2>5. Wanted = [p \in Peers |-> InitialState] /\ Entered = [p \in Peers |-> InitialState]
    BY DEF FleetInit, Wanted, Entered, AfterBoot
  <2> QED BY <2>3, <2>4, <2>5 DEF Follow!Init, FleetInit, Wanted, Entered
<1>3. FleetInv /\ Informed /\ [FleetNext]_fleetVars => FleetInv' /\ Informed'
  BY FleetTypeStep, MasterStep, InboxStep, InformedStep DEF FleetInv
<1>4. FleetInv /\ Informed /\ FleetInv' /\ Informed' /\ [FleetNext]_fleetVars
        => [Follow!Next]_<<MasterPath, Places, Wanted, Entered>>
  BY FollowStep
<1> QED BY <1>1, <1>2, <1>3, <1>4, PTL DEF FleetSpec, FollowsMaster, Follow!Spec, Places, Wanted, Entered

=============================================================================
