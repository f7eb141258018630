-------------------------------- MODULE Mqtt --------------------------------
(***************************************************************************)
(* Publications and their acknowledgements (quality of service 1 and 2) on *)
(* all devices at once.  Everything that a device pushes goes to all the   *)
(* others by ESP-NOW and to the broker that its WebSocket client is        *)
(* connected to, the acknowledgements included; and a frame that is sent   *)
(* again is numbered again and goes to the broker again.                   *)
(*                                                                         *)
(* The devices know each other.  The result of a transmission is known     *)
(* before the next one (EspNowLink's Settle).  The broker is external: it  *)
(* answers as a device does, in the order of what it receives, and a       *)
(* connection that is lost takes with it what it has not answered.         *)
(***************************************************************************)
EXTENDS WebSocket

CONSTANTS
  MAX_PACKET_ID,
  Plans,          \* bound: the publications of a run, as sequences of qualities of service
  RETRIES,        \* how often a message with DEFAULT_RETRIES is really sent again (EspNowLink)
  MaxLosses       \* bound

ASSUME MqttAssumption ==
  /\ MAX_PACKET_ID \in Nat \ {0} /\ Plans \subseteq Seq(0..2)
  /\ {RETRIES, MaxLosses} \subseteq Nat
  /\ 0 \notin Devices

VARIABLES
  unackedPackets,   \* device -> packet id -> the packet that is stored there, or NoPacket
  nextPacketId,
  inbox, outbox,
  draining,         \* device -> it is in outbox.handleMessages
  toBroker,         \* device -> what the broker has not handled of the present connection
  toPublish,        \* what is left of the plan
  losses,
  numbered          \* history: device -> how many packets it has numbered

packetVars == <<unackedPackets, nextPacketId, numbered>>
boxVars    == <<inbox, outbox, draining>>
vars == <<wsVars, packetVars, boxVars, toBroker, toPublish, losses>>

Broker    == 0
NoPacket  == [by |-> Broker, no |-> 0]
PacketIds == 0 .. MAX_PACKET_ID - 1
Types == {"PUBLISH", "PUBACK", "PUBREC", "PUBREL", "PUBCOMP"}

\* A packet is the no-th that by has numbered; the broker counts its publications.
Packet == [by : Devices \cup {Broker}, no : Nat]

\* packet is what the message publishes or acknowledges; to is {} for everyone; left is how
\* often the message is sent again if it fails.
Msg == [type : Types, qos : 0..2, id : PacketIds, packet : Packet,
        to : SUBSET Devices, left : 0..RETRIES]

TypeOK ==
  /\ WSTypeOK
  /\ unackedPackets \in [Devices -> [PacketIds -> Packet]]
  /\ nextPacketId \in [Devices -> PacketIds]
  /\ inbox \in [Devices -> Seq(Msg)] /\ outbox \in [Devices -> Seq(Msg)]
  /\ draining \in [Devices -> BOOLEAN] /\ toBroker \in [Devices -> Seq(Msg)]
  /\ toPublish \in Seq(0..2) /\ losses \in 0..MaxLosses
  /\ numbered \in [Devices -> Nat]

Init ==
  /\ WSInit
  /\ unackedPackets = [d \in Devices |-> [i \in PacketIds |-> NoPacket]]
  /\ nextPacketId = [d \in Devices |-> 0]
  /\ inbox = [d \in Devices |-> <<>>] /\ outbox = [d \in Devices |-> <<>>]
  /\ draining = [d \in Devices |-> FALSE] /\ toBroker = [d \in Devices |-> <<>>]
  /\ toPublish \in Plans /\ losses = 0 /\ numbered = [d \in Devices |-> 0]

-----------------------------------------------------------------------------
Publication(qos, id, packet, left) ==
  [type |-> "PUBLISH", qos |-> qos, id |-> id, packet |-> packet, to |-> {}, left |-> left]

\* The application pushes a publication, with or without retries.
Publish(d) ==
  /\ toPublish # <<>> /\ toPublish' = Tail(toPublish)
  /\ \E left \in {0, RETRIES} :
       outbox' = [outbox EXCEPT ![d] = Append(@, Publication(Head(toPublish), 0, NoPacket, left))]
  /\ UNCHANGED <<wsVars, packetVars, inbox, draining, toBroker, losses>>

\* What a device answers in handleInboxMsg; its answers have no quality of service and go to
\* everyone.
AnswerType(m) ==
  CASE m.type = "PUBLISH" /\ m.qos = 1 -> "PUBACK"
    [] m.type = "PUBLISH" /\ m.qos = 2 -> "PUBREC"
    [] m.type = "PUBREC" -> "PUBREL"
    [] m.type = "PUBREL" -> "PUBCOMP"
    [] OTHER -> "none"
Answers(m) ==
  IF AnswerType(m) = "none" THEN <<>>
  ELSE <<[type |-> AnswerType(m), qos |-> 0, id |-> m.id, packet |-> m.packet,
         to |-> {}, left |-> 0]>>

\* PUBACK and PUBCOMP erase what is stored under their id, whoever they are from; PUBREC takes
\* its place.
StoredAfterMutant(d, m) ==
  CASE m.type = "PUBACK" -> [unackedPackets[d] EXCEPT ![m.id] = NoPacket]
    [] m.type = "PUBREC" -> [unackedPackets[d] EXCEPT ![m.id] = m.packet]
    [] OTHER -> unackedPackets[d]
StoredAfter(d, m) ==
  CASE m.type \in {"PUBACK", "PUBCOMP"} -> [unackedPackets[d] EXCEPT ![m.id] = NoPacket]
    [] m.type = "PUBREC" -> [unackedPackets[d] EXCEPT ![m.id] = m.packet]
    [] OTHER -> unackedPackets[d]

HandleInboxMsg(d) ==
  /\ inbox[d] # <<>> /\ ~draining[d]
  /\ LET m == Head(inbox[d])
     IN  /\ unackedPackets' = [unackedPackets EXCEPT ![d] = StoredAfter(d, m)]
         /\ outbox' = [outbox EXCEPT ![d] = @ \o Answers(m)]
  /\ inbox' = [inbox EXCEPT ![d] = Tail(@)]
  /\ UNCHANGED <<wsVars, nextPacketId, numbered, draining, toBroker, toPublish, losses>>

-----------------------------------------------------------------------------
(* handleOutboxMsg.                                                         *)

\* A message with a quality of service gets the next id at every pass through handleOutboxMsg.
\* PUBREL has none (AnswerType), so what is numbered are publications.
IsNumbered(m) == m.type \in {"PUBLISH", "PUBREL"} /\ m.qos > 0

IdAfterMutant(d) == nextPacketId[d]
IdWithoutBoundMutant(d) == nextPacketId[d] + 1
IdAfter(d) == (nextPacketId[d] + 1) % MAX_PACKET_ID

NextPacket(d) == [by |-> d, no |-> numbered[d] + 1]

Number(d, m) ==
  IF IsNumbered(m)
  THEN /\ unackedPackets' = [unackedPackets EXCEPT ![d][nextPacketId[d]] = NextPacket(d)]
       /\ nextPacketId' = [nextPacketId EXCEPT ![d] = IdAfter(d)]
       /\ numbered' = [numbered EXCEPT ![d] = @ + 1]
  ELSE UNCHANGED packetVars
Numbered(d, m) ==
  IF IsNumbered(m) THEN [m EXCEPT !.id = nextPacketId[d], !.packet = NextPacket(d)] ELSE m

RecipientIDs(d, m) == IF m.to # {} THEN m.to ELSE Devices \ {d}

InOrder(s) == \A i, j \in DOMAIN s : i < j => s[i] < s[j]

\* The message goes to each recipient by ESP-NOW, and is queued again for each that it was lost
\* on the way to, unless the driver refused it, which no callback reports; then to the broker,
\* if the client is connected.
Send(d, m) ==
  \E lost \in SUBSET RecipientIDs(d, m) : \E failed \in SUBSET lost :
    /\ losses' = losses + Cardinality(lost) /\ losses' <= MaxLosses
    /\ inbox' = [p \in Devices |->
                   IF p \in RecipientIDs(d, m) \ lost THEN Append(inbox[p], m) ELSE inbox[p]]
    /\ IF m.left > 0
       THEN \E again \in [1..Cardinality(failed) -> failed] :
              /\ InOrder(again)
              /\ outbox' = [outbox EXCEPT ![d] = Tail(@) \o
                   [i \in DOMAIN again |-> [m EXCEPT !.to = {again[i]}, !.left = @ - 1]]]
       ELSE outbox' = [outbox EXCEPT ![d] = Tail(@)]
    /\ toBroker' = IF connected[d] THEN [toBroker EXCEPT ![d] = Append(@, m)] ELSE toBroker

HandleOutboxMsg(d) ==
  /\ outbox[d] # <<>> /\ (draining[d] \/ inbox[d] = <<>>)
  /\ Number(d, Head(outbox[d]))
  /\ Send(d, Numbered(d, Head(outbox[d])))
  /\ draining' = [draining EXCEPT ![d] = outbox'[d] # <<>>]
  /\ UNCHANGED <<wsVars, toPublish>>

-----------------------------------------------------------------------------
(* The broker.                                                              *)

BrokerHandles(d) ==
  /\ toBroker[d] # <<>>
  /\ inbox' = [inbox EXCEPT ![d] = @ \o Answers(Head(toBroker[d]))]
  /\ toBroker' = [toBroker EXCEPT ![d] = Tail(@)]
  /\ UNCHANGED <<wsVars, packetVars, outbox, draining, toPublish, losses>>

\* The broker sends the device a publication, under an id of its own.
BrokerPublishes(d) ==
  /\ connected[d]
  /\ toPublish # <<>> /\ toPublish' = Tail(toPublish)
  /\ \E id \in PacketIds :
       LET packet == [by |-> Broker, no |-> Len(toPublish)]
       IN  inbox' = [inbox EXCEPT ![d] = Append(@, Publication(Head(toPublish), id, packet, 0))]
  /\ UNCHANGED <<wsVars, packetVars, outbox, draining, toBroker, losses>>

\* A state is entered, and the client looks after its connection, once the outbox has been
\* emptied: what is there then, the application pushed since.
ClientTurn(d) ==
  /\ ~draining[d] /\ \A i \in DOMAIN outbox[d] : outbox[d][i].type = "PUBLISH"
  /\ \/ \E s \in States : EnterState(d, s)
     \/ \E s \in States, i \in Servers : SetWS(d, s, i)
     \/ \E i \in Servers : SetDefaultWS(d, i)
     \/ Connect(d)
     \/ Disconnect(d)
  /\ toBroker' = IF connected'[d] THEN toBroker ELSE [toBroker EXCEPT ![d] = <<>>]
  /\ UNCHANGED <<packetVars, boxVars, toPublish, losses>>

Handle(d) == HandleInboxMsg(d) \/ HandleOutboxMsg(d)

Next ==
  \/ \E d \in Devices : Publish(d) \/ Handle(d)
  \/ \E d \in Online : BrokerHandles(d) \/ BrokerPublishes(d) \/ ClientTurn(d)

Spec == Init /\ [][Next]_vars

\* The loop threads keep running, and the broker answers as long as the connection lasts.
FairSpec ==
  /\ Spec
  /\ \A d \in Devices : WF_vars(Handle(d))
  /\ \A d \in Online : WF_vars(BrokerHandles(d))

-----------------------------------------------------------------------------
(* Properties.                                                              *)

\* A state with a server of its own is on it and no other, whatever the client was connected to
\* before, if it was entered with WiFi; unless that is the default server, for which any
\* connection that there is will do (base.cpp:1096).
OwnServerIsUsed ==
  \A d \in Devices :
    LET own == wsClientInfo[d][curState[d]]
    IN  entered[d] /\ curState[d] \in Connecting /\ own \notin {NoServer, defaultWSClientInfo[d]}
          => target[d] = own

\* An acknowledgement erases or replaces another packet than its own only if one of the two is
\* someone else's, or if the device has gone through all its packet ids between them.
FarApart(p, q) == p.no >= q.no + MAX_PACKET_ID \/ q.no >= p.no + MAX_PACKET_ID
NoMixUp(d) ==
  LET m == Head(inbox[d])
      p == unackedPackets[d][m.id]
  IN  p # NoPacket /\ p # m.packet /\ unackedPackets'[d][m.id] # p
        => p.by # d \/ m.packet.by # d \/ FarApart(p, m.packet)
AcksFindTheirPacket == [][\A d \in Devices : HandleInboxMsg(d) => NoMixUp(d)]_vars

\* Acknowledgements do not answer each other for ever, and every lost frame leaves behind one
\* unacknowledged packet at most.
Stored(d) == {i \in PacketIds : unackedPackets[d][i] # NoPacket}
LeaksBounded ==
  <>[](\A d \in Devices : /\ inbox[d] = <<>> /\ outbox[d] = <<>>
                          /\ Cardinality(Stored(d)) <= losses)

=============================================================================
