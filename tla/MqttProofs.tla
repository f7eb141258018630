----------------------------- MODULE MqttProofs -----------------------------
(***************************************************************************)
(* Proofs about Mqtt and the WebSocket module it extends, for any devices, *)
(* states, servers and packet ids: types, that a state's own server is     *)
(* used, and that acknowledgements find the packet that they are for.      *)
(*                                                                         *)
(* A packet and the id it was sent under stay together wherever they go:   *)
(* the number of the packet is one more than the id, and a multiple of     *)
(* MAX_PACKET_ID.  So the messages of every box are in the set Good.       *)
(***************************************************************************)
EXTENDS Mqtt, TLAPS, FiniteSetTheorems, SequenceTheorems

-----------------------------------------------------------------------------
(* Data.                                                                    *)

LEMMA Constants ==
  /\ Devices \subseteq Nat /\ IsFiniteSet(Devices) /\ Online \subseteq Devices
  /\ Connecting \subseteq States /\ InitialState \in States /\ NoServer \notin Servers
  /\ OwnServer \in [States -> Server] /\ DefaultServer \in Server
  /\ MaxChanges \in Nat /\ MaxDrops \in Nat
  /\ MAX_PACKET_ID \in Nat \ {0} /\ Plans \subseteq Seq(0..2)
  /\ RETRIES \in Nat /\ MaxLosses \in Nat /\ 0 \notin Devices
  BY WebSocketAssumption, MqttAssumption DEF Server

\* The id that the packet was sent under, if it is a device's.
Paired(id, packet) ==
  packet.by \in Devices => \E k \in Nat : packet.no = MAX_PACKET_ID * k + id + 1
Good == {m \in Msg : Paired(m.id, m.packet)}

LEMMA GoodIsMsg ==
  /\ Good \subseteq Msg
  /\ \A s \in Seq(Good) : s \in Seq(Msg)
<1>1. Good \subseteq Msg
  BY DEF Good
<1>2. ASSUME NEW s \in Seq(Good)
      PROVE  s \in Seq(Msg)
  BY <1>1, <1>2, SeqMonotonic
<1> QED BY <1>1, <1>2

LEMMA NoPacketPaired ==
  ASSUME NEW id \in PacketIds, NEW n
  PROVE  Paired(id, NoPacket) /\ Paired(id, [by |-> Broker, no |-> n])
  BY Constants DEF Paired, NoPacket, Broker

\* Two packets of one device under one id are a whole round of ids apart.
LEMMA SameIdFarApart ==
  ASSUME NEW id \in PacketIds, NEW p \in Packet, NEW q \in Packet, p # q,
         p.by \in Devices, p.by = q.by, Paired(id, p), Paired(id, q)
  PROVE  FarApart(p, q)
<1>1. p.no \in Nat /\ q.no \in Nat /\ p.no # q.no
  BY DEF Packet
<1>2. PICK i \in Nat, j \in Nat :
        p.no = MAX_PACKET_ID * i + id + 1 /\ q.no = MAX_PACKET_ID * j + id + 1
  BY DEF Paired
<1>3. ASSUME NEW a \in Nat, NEW b \in Nat, a > b
      PROVE  MAX_PACKET_ID * a >= MAX_PACKET_ID * b + MAX_PACKET_ID
  <2>1. PICK c \in Nat : a = b + 1 + c
    <3>1. a - b - 1 \in Nat /\ a = b + 1 + (a - b - 1)
      BY <1>3
    <3> QED BY <3>1
  <2>2. /\ MAX_PACKET_ID * (b + 1 + c) = MAX_PACKET_ID * b + MAX_PACKET_ID + MAX_PACKET_ID * c
        /\ MAX_PACKET_ID * c \in Nat /\ MAX_PACKET_ID * b \in Nat
    BY <2>1, Constants
  <2> QED BY <2>1, <2>2, Constants
<1>4. id \in Nat /\ MAX_PACKET_ID * i \in Nat /\ MAX_PACKET_ID * j \in Nat /\ i # j
  BY <1>1, <1>2, Constants DEF PacketIds
<1>5. CASE i > j
  BY <1>2, <1>3, <1>4, <1>5, Constants DEF FarApart
<1>6. CASE j > i
  BY <1>2, <1>3, <1>4, <1>6, Constants DEF FarApart
<1> QED BY <1>4, <1>5, <1>6

\* The answer to a message has its id and its packet.
LEMMA AnswersType ==
  ASSUME NEW m \in Good
  PROVE  Answers(m) \in Seq(Good)
<1>1. m \in Msg /\ Paired(m.id, m.packet) /\ 0 \in 0..RETRIES /\ 0 \in 0..2
  BY Constants DEF Good
<1>2. AnswerType(m) \in Types \cup {"none"}
  BY DEF AnswerType, Types
<1> DEFINE answer == [type |-> AnswerType(m), qos |-> 0, id |-> m.id, packet |-> m.packet,
                      to |-> {}, left |-> 0]
<1>3. AnswerType(m) # "none" => answer \in Good
  BY <1>1, <1>2 DEF Good, Msg
<1>4. Answers(m) = IF AnswerType(m) = "none" THEN <<>> ELSE <<answer>>
  BY DEF Answers
<1> HIDE DEF answer
<1> QED BY <1>3, <1>4

LEMMA AppendType ==
  ASSUME NEW S, NEW s \in Seq(S), NEW x \in S
  PROVE  Append(s, x) \in Seq(S)
  BY AppendProperties

LEMMA TailType ==
  ASSUME NEW S, NEW s \in Seq(S), s # <<>>
  PROVE  Head(s) \in S /\ Tail(s) \in Seq(S)
  BY HeadTailProperties

LEMMA ConcatType ==
  ASSUME NEW S, NEW s \in Seq(S), NEW t \in Seq(S)
  PROVE  s \o t \in Seq(S)
  BY ConcatProperties

-----------------------------------------------------------------------------
(* The WebSocket client.                                                    *)

\* A turn of the client keeps its types.
LEMMA ClientType ==
  ASSUME WSTypeOK, NEW d \in Devices,
         \/ \E s \in States : EnterState(d, s)
         \/ \E s \in States, i \in Servers : SetWS(d, s, i)
         \/ \E i \in Servers : SetDefaultWS(d, i)
         \/ Connect(d)
         \/ Disconnect(d)
  PROVE  WSTypeOK'
<1>1. CASE \E s \in States : EnterState(d, s)
  <2>1. PICK s \in States : EnterState(d, s)
    BY <1>1
  <2>2. ServerOf(d, s) \in Server
    BY DEF ServerOf, WSTypeOK
  <2>3. changes' \in 0..MaxChanges /\ curState' \in [Devices -> States]
    BY <2>1, Constants DEF WSTypeOK, EnterState, Change
  <2>4. wifi' \in [Devices -> BOOLEAN] /\ entered' \in [Devices -> BOOLEAN]
    BY <2>1 DEF WSTypeOK, EnterState
  <2>5. \/ UNCHANGED <<target, connected>>
        \/ /\ target' = [target EXCEPT ![d] = ServerOf(d, s)]
           /\ connected' = [connected EXCEPT ![d] = FALSE]
    BY <2>1 DEF EnterState
  <2>6. target' \in [Devices -> Server] /\ connected' \in [Devices -> BOOLEAN]
    BY <2>2, <2>5 DEF WSTypeOK
  <2> QED BY <2>1, <2>3, <2>4, <2>6 DEF WSTypeOK, EnterState
<1>2. CASE \E s \in States, i \in Servers : SetWS(d, s, i)
  <2>1. PICK s \in States, i \in Servers : SetWS(d, s, i)
    BY <1>2
  <2>2. changes' \in 0..MaxChanges
    BY <2>1, Constants DEF WSTypeOK, SetWS, Change
  <2>3. wsClientInfo' \in [Devices -> [States -> Server]] /\ entered' \in [Devices -> BOOLEAN]
    BY <2>1 DEF WSTypeOK, SetWS, Server
  <2> QED BY <2>1, <2>2, <2>3 DEF WSTypeOK, SetWS
<1>3. CASE \E i \in Servers : SetDefaultWS(d, i)
  <2>1. PICK i \in Servers : SetDefaultWS(d, i)
    BY <1>3
  <2>2. changes' \in 0..MaxChanges
    BY <2>1, Constants DEF WSTypeOK, SetDefaultWS, Change
  <2>3. defaultWSClientInfo' \in [Devices -> Server] /\ entered' \in [Devices -> BOOLEAN]
    BY <2>1 DEF WSTypeOK, SetDefaultWS, Server
  <2> QED BY <2>1, <2>2, <2>3 DEF WSTypeOK, SetDefaultWS
<1>4. CASE Connect(d)
  BY <1>4 DEF WSTypeOK, Connect
<1>5. CASE Disconnect(d)
  <2>1. drops' \in 0..MaxDrops
    BY <1>5, Constants DEF WSTypeOK, Disconnect, Drop
  <2> QED BY <1>5, <2>1 DEF WSTypeOK, Disconnect
<1> QED BY <1>1, <1>2, <1>3, <1>4, <1>5

\* A turn of the client leaves a state that has its own server, and was entered with WiFi, at
\* that server.
LEMMA ClientServer ==
  ASSUME WSTypeOK, OwnServerIsUsed, NEW d \in Devices,
         \/ \E s \in States : EnterState(d, s)
         \/ \E s \in States, i \in Servers : SetWS(d, s, i)
         \/ \E i \in Servers : SetDefaultWS(d, i)
         \/ Connect(d)
         \/ Disconnect(d)
  PROVE  OwnServerIsUsed'
<1> DEFINE own(e) == wsClientInfo[e][curState[e]]
<1> SUFFICES ASSUME NEW e \in Devices, entered'[e], curState'[e] \in Connecting,
                    own(e)' # NoServer, own(e)' # defaultWSClientInfo'[e]
             PROVE  target'[e] = own(e)'
  BY DEF OwnServerIsUsed
<1>1. ASSUME entered[e], curState[e] \in Connecting, own(e) # NoServer,
             own(e) # defaultWSClientInfo[e]
      PROVE  target[e] = own(e)
  BY <1>1 DEF OwnServerIsUsed
<1>2. CASE \E s \in States : EnterState(d, s)
  <2>1. PICK s \in States : EnterState(d, s)
    BY <1>2
  <2>2. CASE e = d
    <3>1. curState'[d] = s /\ own(d)' = wsClientInfo[d][s] /\ defaultWSClientInfo' = defaultWSClientInfo
      BY <2>1 DEF EnterState, WSTypeOK
    <3>2. ServerOf(d, s) = own(d)' /\ ~AlreadyConnected(d, ServerOf(d, s))
      BY <2>2, <3>1 DEF ServerOf, AlreadyConnected
    <3>3. PICK on \in BOOLEAN :
            /\ entered' = [entered EXCEPT ![d] = on]
            /\ Begins(d, s, on) => target' = [target EXCEPT ![d] = ServerOf(d, s)]
      BY <2>1 DEF EnterState
    <3>4. on = TRUE
      BY <2>2, <3>3 DEF WSTypeOK
    <3>5. Begins(d, s, on)
      BY <2>2, <3>1, <3>2, <3>4 DEF Begins
    <3> QED BY <2>2, <3>2, <3>3, <3>5 DEF WSTypeOK
  <2>3. CASE e # d
    <3>1. UNCHANGED <<wsClientInfo, defaultWSClientInfo>> /\ curState'[e] = curState[e]
          /\ target'[e] = target[e] /\ entered'[e] = entered[e]
      BY <2>1, <2>3 DEF EnterState, WSTypeOK
    <3> QED BY <1>1, <3>1
  <2> QED BY <2>2, <2>3
<1>3. CASE \E s \in States, i \in Servers : SetWS(d, s, i)
  <2>1. PICK s \in States, i \in Servers : SetWS(d, s, i)
    BY <1>3
  <2>2. UNCHANGED <<curState, defaultWSClientInfo, target>>
    BY <2>1 DEF SetWS
  <2>3. entered[e] /\ ~(e = d /\ s = curState[d])
    BY <2>1 DEF SetWS, WSTypeOK
  <2>4. own(e)' = own(e)
    BY <2>1, <2>2, <2>3 DEF SetWS, WSTypeOK
  <2> QED BY <1>1, <2>2, <2>3, <2>4
<1>4. CASE \E i \in Servers : SetDefaultWS(d, i)
  <2>1. e # d /\ UNCHANGED <<curState, wsClientInfo, target>>
    BY <1>4 DEF SetDefaultWS, WSTypeOK
  <2>2. entered'[e] = entered[e] /\ defaultWSClientInfo'[e] = defaultWSClientInfo[e]
    BY <1>4, <2>1 DEF SetDefaultWS, WSTypeOK
  <2> QED BY <1>1, <2>1, <2>2
<1>5. CASE Connect(d) \/ Disconnect(d)
  <2>1. UNCHANGED <<curState, wsClientInfo, defaultWSClientInfo, target, entered>>
    BY <1>5 DEF Connect, Disconnect
  <2> QED BY <1>1, <2>1
<1> QED BY <1>2, <1>3, <1>4, <1>5

-----------------------------------------------------------------------------
(* The invariant.                                                           *)

PacketsOk ==
  /\ unackedPackets \in [Devices -> [PacketIds -> Packet]]
  /\ \A d \in Devices, i \in PacketIds : Paired(i, unackedPackets[d][i])

\* The next id is that of the next packet.
CountsOk ==
  /\ nextPacketId \in [Devices -> PacketIds] /\ numbered \in [Devices -> Nat]
  /\ \A d \in Devices : \E k \in Nat : numbered[d] = MAX_PACKET_ID * k + nextPacketId[d]

BoxesOk ==
  /\ inbox \in [Devices -> Seq(Good)] /\ outbox \in [Devices -> Seq(Good)]
  /\ draining \in [Devices -> BOOLEAN] /\ toBroker \in [Devices -> Seq(Good)]

BoundsOk == toPublish \in Seq(0..2) /\ losses \in 0..MaxLosses

MqttInv == WSTypeOK /\ OwnServerIsUsed /\ PacketsOk /\ CountsOk /\ BoxesOk /\ BoundsOk

LEMMA MqttInvType == MqttInv => TypeOK
<1> SUFFICES ASSUME MqttInv PROVE TypeOK
  OBVIOUS
<1>1. /\ inbox \in [Devices -> Seq(Msg)] /\ outbox \in [Devices -> Seq(Msg)]
      /\ toBroker \in [Devices -> Seq(Msg)]
  BY GoodIsMsg DEF MqttInv, BoxesOk
<1> QED BY <1>1 DEF MqttInv, TypeOK, PacketsOk, CountsOk, BoxesOk, BoundsOk

\* One of the boxes is written.
LEMMA BoxUpdate ==
  ASSUME NEW S, NEW f \in [Devices -> S], NEW g, NEW d \in Devices, NEW x \in S,
         g = [f EXCEPT ![d] = x]
  PROVE  g \in [Devices -> S]
  OBVIOUS

LEMMA ServersKept ==
  ASSUME UNCHANGED wsVars
  PROVE  (WSTypeOK => WSTypeOK') /\ (OwnServerIsUsed => OwnServerIsUsed')
  BY DEF wsVars, WSTypeOK, OwnServerIsUsed

LEMMA PacketsKept ==
  ASSUME UNCHANGED packetVars
  PROVE  (PacketsOk => PacketsOk') /\ (CountsOk => CountsOk')
  BY DEF packetVars, PacketsOk, CountsOk

\* A packet is stored under an id, or erased.
LEMMA PacketStored ==
  ASSUME PacketsOk, NEW d \in Devices, NEW i \in PacketIds, NEW x \in Packet, Paired(i, x),
         \/ unackedPackets' = [unackedPackets EXCEPT ![d][i] = x]
         \/ unackedPackets' = [unackedPackets EXCEPT ![d] = [unackedPackets[d] EXCEPT ![i] = x]]
  PROVE  PacketsOk'
<1>1. unackedPackets \in [Devices -> [PacketIds -> Packet]]
  BY DEF PacketsOk
<1>2. /\ unackedPackets'[d] = [unackedPackets[d] EXCEPT ![i] = x]
      /\ \A e \in Devices \ {d} : unackedPackets'[e] = unackedPackets[e]
  BY <1>1
<1>3. unackedPackets' \in [Devices -> [PacketIds -> Packet]]
  BY <1>1
<1>4. \A e \in Devices, j \in PacketIds :
        \/ unackedPackets'[e][j] = unackedPackets[e][j]
        \/ j = i /\ unackedPackets'[e][j] = x
  BY <1>1, <1>2
<1> QED BY <1>3, <1>4 DEF PacketsOk

LEMMA NoPacketType == NoPacket \in Packet
  BY DEF NoPacket, Packet

LEMMA PublicationType ==
  ASSUME NEW qos \in 0..2, NEW id \in PacketIds, NEW n \in Nat, NEW left \in 0..RETRIES
  PROVE  Publication(qos, id, [by |-> Broker, no |-> n], left) \in Good
<1>1. [by |-> Broker, no |-> n] \in Packet
  BY DEF Packet
<1>2. Publication(qos, id, [by |-> Broker, no |-> n], left) \in Msg
  BY <1>1 DEF Publication, Msg, Types
<1> QED BY <1>2, NoPacketPaired DEF Publication, Good

-----------------------------------------------------------------------------
(* The steps.                                                               *)

LEMMA PublishStep ==
  ASSUME MqttInv, NEW d \in Devices, Publish(d)
  PROVE  MqttInv'
<1>1. /\ toPublish \in Seq(0..2) /\ toPublish # <<>> /\ toPublish' = Tail(toPublish)
      /\ UNCHANGED <<wsVars, packetVars, inbox, draining, toBroker, losses>> /\ BoxesOk
  BY DEF MqttInv, Publish, BoundsOk
<1>2. PICK left \in {0, RETRIES} :
        outbox' = [outbox EXCEPT ![d] = Append(@, Publication(Head(toPublish), 0, NoPacket, left))]
  BY DEF Publish
<1>3. Head(toPublish) \in 0..2 /\ toPublish' \in Seq(0..2)
  BY <1>1, TailType
<1>4. Publication(Head(toPublish), 0, NoPacket, left) \in Good
  <2>1. 0 \in PacketIds /\ left \in 0..RETRIES
    BY Constants DEF PacketIds
  <2> QED BY <1>3, <2>1, PublicationType DEF NoPacket
<1>5. outbox' \in [Devices -> Seq(Good)]
  <2>1. outbox[d] \in Seq(Good)
    BY <1>1 DEF BoxesOk
  <2>2. Append(outbox[d], Publication(Head(toPublish), 0, NoPacket, left)) \in Seq(Good)
    BY <1>4, <2>1, AppendType
  <2> QED BY <1>1, <1>2, <2>2 DEF BoxesOk
<1> QED BY <1>1, <1>3, <1>5, ServersKept, PacketsKept DEF MqttInv, BoxesOk, BoundsOk

LEMMA InboxStep ==
  ASSUME MqttInv, NEW d \in Devices, HandleInboxMsg(d)
  PROVE  MqttInv'
<1> DEFINE m == Head(inbox[d])
<1>1. /\ inbox[d] # <<>> /\ inbox[d] \in Seq(Good) /\ outbox[d] \in Seq(Good)
      /\ BoxesOk /\ PacketsOk /\ CountsOk
      /\ unackedPackets' = [unackedPackets EXCEPT ![d] = StoredAfter(d, m)]
      /\ outbox' = [outbox EXCEPT ![d] = @ \o Answers(m)]
      /\ inbox' = [inbox EXCEPT ![d] = Tail(@)]
      /\ UNCHANGED <<wsVars, nextPacketId, numbered, draining, toBroker, toPublish, losses>>
  BY DEF MqttInv, HandleInboxMsg, BoxesOk
<1>2. m \in Good /\ Tail(inbox[d]) \in Seq(Good)
  BY <1>1, TailType
<1> HIDE DEF m
<1>3. m.id \in PacketIds /\ m.packet \in Packet /\ Paired(m.id, m.packet)
  BY <1>2 DEF Good, Msg
<1>4. BoxesOk'
  <2>1. outbox[d] \o Answers(m) \in Seq(Good)
    BY <1>1, <1>2, AnswersType, ConcatType
  <2> QED BY <1>1, <1>2, <2>1 DEF BoxesOk
<1>5. PacketsOk'
  <2>1. PICK x \in Packet :
          /\ Paired(m.id, x)
          /\ \/ unackedPackets' = [unackedPackets EXCEPT ![d] = [unackedPackets[d] EXCEPT ![m.id] = x]]
             \/ unackedPackets' = [unackedPackets EXCEPT ![d] = unackedPackets[d]]
    BY <1>1, <1>3, NoPacketPaired, NoPacketType DEF StoredAfter
  <2>2. [unackedPackets EXCEPT ![d] = unackedPackets[d]] = unackedPackets
    BY <1>1 DEF PacketsOk
  <2>3. CASE unackedPackets' = unackedPackets
    BY <1>1, <2>3 DEF PacketsOk
  <2> QED BY <1>1, <1>3, <2>1, <2>2, <2>3, PacketStored
<1>6. CountsOk'
  BY <1>1 DEF CountsOk
<1> QED BY <1>1, <1>4, <1>5, <1>6, ServersKept DEF MqttInv, BoundsOk

\* The sequence of the copies that are sent again.
LEMMA AgainType ==
  ASSUME NEW m \in Good, m.left > 0, NEW lost \in SUBSET Devices,
         NEW again \in [1..Cardinality(lost) -> lost]
  PROVE  [i \in DOMAIN again |-> [m EXCEPT !.to = {again[i]}, !.left = @ - 1]] \in Seq(Good)
<1>1. Cardinality(lost) \in Nat
  BY Constants, FS_Subset, FS_CardinalityType
<1>2. m \in Msg /\ m.left \in 0..RETRIES /\ Paired(m.id, m.packet)
  BY DEF Good, Msg
<1>3. m.left - 1 \in 0..RETRIES
  BY <1>2, Constants
<1>4. ASSUME NEW p \in Devices
      PROVE  [m EXCEPT !.to = {p}, !.left = @ - 1] \in Good
  <2>1. [m EXCEPT !.to = {p}, !.left = @ - 1] \in Msg
    BY <1>2, <1>3 DEF Msg
  <2>2. /\ [m EXCEPT !.to = {p}, !.left = @ - 1].id = m.id
        /\ [m EXCEPT !.to = {p}, !.left = @ - 1].packet = m.packet
    BY <1>2 DEF Msg
  <2> QED BY <1>2, <2>1, <2>2 DEF Good
<1>5. [i \in DOMAIN again |-> [m EXCEPT !.to = {again[i]}, !.left = @ - 1]]
        \in [1..Cardinality(lost) -> Good]
  BY <1>4
<1>6. \A f \in [1..Cardinality(lost) -> Good] : f \in Seq(Good)
  BY <1>1
<1> QED BY <1>5, <1>6

LEMMA OutboxStep ==
  ASSUME MqttInv, NEW d \in Devices, HandleOutboxMsg(d)
  PROVE  MqttInv'
<1> DEFINE m == Head(outbox[d])
           n == Numbered(d, m)
<1>1. /\ outbox[d] # <<>> /\ outbox[d] \in Seq(Good) /\ BoxesOk /\ PacketsOk /\ CountsOk
      /\ Number(d, m) /\ Send(d, n)
      /\ draining' = [draining EXCEPT ![d] = outbox'[d] # <<>>]
      /\ UNCHANGED <<wsVars, toPublish>>
  BY DEF MqttInv, HandleOutboxMsg, BoxesOk
<1>2. m \in Good /\ Tail(outbox[d]) \in Seq(Good)
  BY <1>1, TailType
<1> HIDE DEF m
<1>3. /\ nextPacketId[d] \in PacketIds /\ NextPacket(d) \in Packet /\ NextPacket(d).by = d
      /\ Paired(nextPacketId[d], NextPacket(d)) /\ numbered[d] \in Nat
  BY <1>1 DEF CountsOk, NextPacket, Packet, Paired
<1>4. n \in Good
  <2>1. m \in Msg
    BY <1>2 DEF Good
  <2>2. CASE IsNumbered(m)
    <3>1. n = [m EXCEPT !.id = nextPacketId[d], !.packet = NextPacket(d)]
      BY <2>2 DEF Numbered
    <3>2. n \in Msg /\ n.id = nextPacketId[d] /\ n.packet = NextPacket(d)
      BY <1>3, <2>1, <3>1 DEF Msg
    <3> QED BY <1>3, <3>2 DEF Good
  <2> QED BY <1>2, <2>2 DEF Numbered
<1> HIDE DEF n
<1>5. PacketsOk'
  <2>1. \/ unackedPackets' = unackedPackets
        \/ unackedPackets' = [unackedPackets EXCEPT ![d][nextPacketId[d]] = NextPacket(d)]
    BY <1>1 DEF Number, packetVars
  <2>2. CASE unackedPackets' = unackedPackets
    BY <1>1, <2>2 DEF PacketsOk
  <2> QED BY <1>1, <1>3, <2>1, <2>2, PacketStored
<1>6. CountsOk'
  <2>1. CASE IsNumbered(m)
    <3>1. /\ nextPacketId' = [nextPacketId EXCEPT ![d] = IdAfter(d)]
          /\ numbered' = [numbered EXCEPT ![d] = @ + 1]
      BY <1>1, <2>1 DEF Number
    <3>2. PICK k \in Nat : numbered[d] = MAX_PACKET_ID * k + nextPacketId[d]
      BY <1>1 DEF CountsOk
    <3>3. \/ nextPacketId[d] + 1 < MAX_PACKET_ID /\ IdAfter(d) = nextPacketId[d] + 1
          \/ nextPacketId[d] + 1 = MAX_PACKET_ID /\ IdAfter(d) = 0
      BY <1>3, Constants DEF IdAfter, PacketIds
    <3>4. IdAfter(d) \in PacketIds
      BY <1>3, <3>3, Constants DEF PacketIds
    <3>5. \E j \in Nat : numbered[d] + 1 = MAX_PACKET_ID * j + IdAfter(d)
      <4>1. CASE IdAfter(d) = nextPacketId[d] + 1
        <5>1. MAX_PACKET_ID * k \in Nat /\ nextPacketId[d] \in Nat
          BY <1>3, Constants DEF PacketIds
        <5>2. numbered[d] + 1 = MAX_PACKET_ID * k + IdAfter(d)
          BY <3>2, <4>1, <5>1
        <5> QED BY <5>2
      <4>2. CASE nextPacketId[d] + 1 = MAX_PACKET_ID /\ IdAfter(d) = 0
        <5>1. /\ MAX_PACKET_ID * (k + 1) = MAX_PACKET_ID * k + MAX_PACKET_ID
              /\ MAX_PACKET_ID * k \in Nat /\ k + 1 \in Nat
          BY Constants
        <5>2. numbered[d] + 1 = MAX_PACKET_ID * (k + 1) + IdAfter(d)
          BY <1>3, <3>2, <4>2, <5>1, Constants DEF PacketIds
        <5> QED BY <5>1, <5>2
      <4> QED BY <3>3, <4>1, <4>2
    <3>6. nextPacketId' \in [Devices -> PacketIds] /\ numbered' \in [Devices -> Nat]
      BY <1>1, <3>1, <3>4 DEF CountsOk
    <3>7. ASSUME NEW e \in Devices
          PROVE  \E j \in Nat : numbered'[e] = MAX_PACKET_ID * j + nextPacketId'[e]
      <4>1. CASE e = d
        <5>1. numbered'[e] = numbered[d] + 1 /\ nextPacketId'[e] = IdAfter(d)
          BY <1>1, <3>1, <4>1 DEF CountsOk
        <5> QED BY <3>5, <5>1
      <4>2. CASE e # d
        <5>1. numbered'[e] = numbered[e] /\ nextPacketId'[e] = nextPacketId[e]
          BY <1>1, <3>1, <4>2 DEF CountsOk
        <5> QED BY <1>1, <5>1 DEF CountsOk
      <4> QED BY <4>1, <4>2
    <3> QED BY <3>6, <3>7 DEF CountsOk
  <2>2. CASE ~IsNumbered(m)
    BY <1>1, <2>2, PacketsKept DEF Number
  <2> QED BY <2>1, <2>2
<1>7. BoxesOk' /\ losses' \in 0..MaxLosses
  <2>1. PICK lost \in SUBSET RecipientIDs(d, n), failed \in SUBSET RecipientIDs(d, n) :
          /\ losses' = losses + Cardinality(lost) /\ losses' <= MaxLosses
          /\ inbox' = [p \in Devices |->
               IF p \in RecipientIDs(d, n) \ lost THEN Append(inbox[p], n) ELSE inbox[p]]
          /\ IF n.left > 0
             THEN \E again \in [1..Cardinality(failed) -> failed] :
                    outbox' = [outbox EXCEPT ![d] = Tail(@) \o
                      [i \in DOMAIN again |-> [n EXCEPT !.to = {again[i]}, !.left = @ - 1]]]
             ELSE outbox' = [outbox EXCEPT ![d] = Tail(@)]
          /\ toBroker' = IF connected[d] THEN [toBroker EXCEPT ![d] = Append(@, n)] ELSE toBroker
    BY <1>1 DEF Send
  <2>2. lost \in SUBSET Devices /\ failed \in SUBSET Devices
    BY <1>4, <2>1 DEF RecipientIDs, Good, Msg
  <2>3. losses' \in 0..MaxLosses
    <3>1. IsFiniteSet(lost)
      BY <2>2, Constants, FS_Subset
    <3>2. Cardinality(lost) \in Nat
      BY <3>1, FS_CardinalityType
    <3>3. losses \in Nat
      BY Constants DEF MqttInv, BoundsOk
    <3>4. losses' = losses + Cardinality(lost) /\ losses' <= MaxLosses
      BY <2>1
    <3> QED BY <3>2, <3>3, <3>4, Constants
  <2>4. \A p \in Devices : /\ Append(inbox[p], n) \in Seq(Good)
                           /\ Append(toBroker[p], n) \in Seq(Good)
    BY <1>1, <1>4, AppendType DEF BoxesOk
  <2>5. inbox' \in [Devices -> Seq(Good)]
    BY <1>1, <2>1, <2>4 DEF BoxesOk
  <2>6. toBroker' \in [Devices -> Seq(Good)]
    BY <1>1, <2>1, <2>4 DEF BoxesOk
  <2>7. PICK s \in Seq(Good) : outbox' = [outbox EXCEPT ![d] = s]
    <3>1. CASE n.left > 0
      <4>1. PICK again \in [1..Cardinality(failed) -> failed] :
              outbox' = [outbox EXCEPT ![d] = Tail(@) \o
                [i \in DOMAIN again |-> [n EXCEPT !.to = {again[i]}, !.left = @ - 1]]]
        BY <2>1, <3>1
      <4>2. PICK copies \in Seq(Good) :
              copies = [i \in DOMAIN again |-> [n EXCEPT !.to = {again[i]}, !.left = @ - 1]]
        BY <1>4, <2>2, <3>1, AgainType
      <4>3. Tail(outbox[d]) \o copies \in Seq(Good)
        BY <1>2, ConcatType
      <4>4. outbox' = [outbox EXCEPT ![d] = Tail(outbox[d]) \o copies]
        BY <4>1, <4>2
      <4> QED BY <4>3, <4>4
    <3>2. CASE ~(n.left > 0)
      <4>1. outbox' = [outbox EXCEPT ![d] = Tail(outbox[d])]
        BY <2>1, <3>2
      <4> QED BY <1>2, <4>1
    <3> QED BY <3>1, <3>2
  <2>8. outbox' \in [Devices -> Seq(Good)]
    BY <1>1, <2>7 DEF BoxesOk
  <2>9. draining' \in [Devices -> BOOLEAN]
    BY <1>1 DEF BoxesOk
  <2> QED BY <2>3, <2>5, <2>6, <2>8, <2>9 DEF BoxesOk
<1> QED BY <1>1, <1>5, <1>6, <1>7, ServersKept DEF MqttInv, BoundsOk

LEMMA BrokerStep ==
  ASSUME MqttInv, NEW d \in Devices, BrokerHandles(d) \/ BrokerPublishes(d)
  PROVE  MqttInv'
<1>1. /\ BoxesOk /\ BoundsOk /\ UNCHANGED <<wsVars, packetVars, outbox, draining, losses>>
      /\ inbox[d] \in Seq(Good) /\ toBroker[d] \in Seq(Good)
  BY DEF MqttInv, BrokerHandles, BrokerPublishes, BoxesOk
<1>2. CASE BrokerHandles(d)
  <2>1. /\ toBroker[d] # <<>> /\ UNCHANGED toPublish
        /\ inbox' = [inbox EXCEPT ![d] = @ \o Answers(Head(toBroker[d]))]
        /\ toBroker' = [toBroker EXCEPT ![d] = Tail(@)]
    BY <1>2 DEF BrokerHandles
  <2>2. Head(toBroker[d]) \in Good /\ Tail(toBroker[d]) \in Seq(Good)
    BY <1>1, <2>1, TailType
  <2>3. inbox[d] \o Answers(Head(toBroker[d])) \in Seq(Good)
    BY <1>1, <2>2, AnswersType, ConcatType
  <2>4. BoxesOk'
    BY <1>1, <2>1, <2>2, <2>3 DEF BoxesOk
  <2> QED BY <1>1, <2>1, <2>4, ServersKept, PacketsKept DEF MqttInv, BoundsOk
<1>3. CASE BrokerPublishes(d)
  <2>1. toPublish # <<>> /\ toPublish' = Tail(toPublish) /\ UNCHANGED toBroker
    BY <1>3 DEF BrokerPublishes
  <2>2. PICK id \in PacketIds :
          inbox' = [inbox EXCEPT ![d] = Append(@,
            Publication(Head(toPublish), id, [by |-> Broker, no |-> Len(toPublish)], 0))]
    BY <1>3 DEF BrokerPublishes
  <2>3. Head(toPublish) \in 0..2 /\ toPublish' \in Seq(0..2) /\ Len(toPublish) \in Nat
    BY <1>1, <2>1, TailType, LenProperties DEF BoundsOk
  <2>4. Publication(Head(toPublish), id, [by |-> Broker, no |-> Len(toPublish)], 0) \in Good
    <3>1. 0 \in 0..RETRIES
      BY Constants
    <3> QED BY <2>3, <3>1, PublicationType
  <2>5. Append(inbox[d], Publication(Head(toPublish), id, [by |-> Broker, no |-> Len(toPublish)], 0))
          \in Seq(Good)
    BY <1>1, <2>4, AppendType
  <2>6. BoxesOk'
    BY <1>1, <2>1, <2>2, <2>5 DEF BoxesOk
  <2> QED BY <1>1, <2>3, <2>6, ServersKept, PacketsKept DEF MqttInv, BoundsOk
<1> QED BY <1>2, <1>3

LEMMA ClientStep ==
  ASSUME MqttInv, NEW d \in Devices, ClientTurn(d)
  PROVE  MqttInv'
<1>1. WSTypeOK /\ OwnServerIsUsed /\ BoxesOk /\ UNCHANGED <<packetVars, boxVars, toPublish, losses>>
  BY DEF MqttInv, ClientTurn
<1>2. \/ \E s \in States : EnterState(d, s)
      \/ \E s \in States, i \in Servers : SetWS(d, s, i)
      \/ \E i \in Servers : SetDefaultWS(d, i)
      \/ Connect(d)
      \/ Disconnect(d)
  BY DEF ClientTurn
<1>3. WSTypeOK' /\ OwnServerIsUsed'
  <2>1. WSTypeOK'
    BY <1>1, <1>2, ClientType
  <2>2. OwnServerIsUsed'
    BY <1>1, <1>2, ClientServer
  <2> QED BY <2>1, <2>2
<1>4. BoxesOk'
  <2>1. toBroker' = toBroker \/ toBroker' = [toBroker EXCEPT ![d] = <<>>]
    BY DEF ClientTurn
  <2>2. <<>> \in Seq(Good)
    BY EmptySeq
  <2> QED BY <1>1, <2>1, <2>2 DEF BoxesOk, boxVars
<1> QED BY <1>1, <1>3, <1>4, PacketsKept DEF MqttInv, BoundsOk

LEMMA InitInv == Init => MqttInv
<1> SUFFICES ASSUME Init PROVE MqttInv
  OBVIOUS
<1>1. WSTypeOK /\ OwnServerIsUsed
  <2>1. WSTypeOK
    <3>1. \A d \in Devices : ServerOf(d, InitialState) \in Server
      BY Constants DEF Init, WSInit, ServerOf, Server
    <3>2. NoServer \in Server
      BY DEF Server
    <3> QED BY <3>1, <3>2, Constants DEF Init, WSInit, WSTypeOK
  <2>2. OwnServerIsUsed
    BY Constants DEF Init, WSInit, OwnServerIsUsed, ServerOf
  <2> QED BY <2>1, <2>2
<1>2. PacketsOk
  BY NoPacketType, NoPacketPaired DEF Init, PacketsOk
<1>3. CountsOk
  <2>1. 0 \in PacketIds /\ 0 = MAX_PACKET_ID * 0 + 0
    BY Constants DEF PacketIds
  <2> QED BY <2>1 DEF Init, CountsOk
<1>4. BoxesOk /\ BoundsOk
  <2>1. <<>> \in Seq(Good)
    BY EmptySeq
  <2> QED BY <2>1, Constants DEF Init, BoxesOk, BoundsOk
<1> QED BY <1>1, <1>2, <1>3, <1>4 DEF MqttInv

LEMMA NextInv ==
  ASSUME MqttInv, [Next]_vars
  PROVE  MqttInv'
<1>1. CASE Next
  BY <1>1, PublishStep, InboxStep, OutboxStep, BrokerStep, ClientStep, Constants DEF Next, Handle
<1>2. CASE UNCHANGED vars
  <2>1. UNCHANGED <<wsVars, packetVars>>
    BY <1>2 DEF vars
  <2>2. BoxesOk' /\ BoundsOk'
    BY <1>2 DEF vars, boxVars, MqttInv, BoxesOk, BoundsOk
  <2> QED BY <2>1, <2>2, ServersKept, PacketsKept DEF MqttInv
<1> QED BY <1>1, <1>2

-----------------------------------------------------------------------------
(* The theorems.                                                            *)

\* The strengthened invariant holds in every reachable state.
THEOREM MqttInvariant == Spec => []MqttInv
BY InitInv, NextInv, PTL DEF Spec

\* Every reachable state has its type.
THEOREM MqttTypeCorrect == Spec => []TypeOK
BY MqttInvType, MqttInvariant, PTL

\* A state that was entered with WiFi is on the server of its own, whatever the client was
\* connected to before (base.cpp:1096).
THEOREM StatesUseTheirServer == Spec => []OwnServerIsUsed
<1>1. MqttInv => OwnServerIsUsed
  BY DEF MqttInv
<1> QED BY <1>1, MqttInvariant, PTL

\* Acknowledgements erase and replace their own packet, or that of another device, or one that
\* is a whole round of packet ids away (base.cpp:261, 323).
THEOREM AcksAreForTheirPacket == Spec => AcksFindTheirPacket
<1>1. MqttInv => [\A d \in Devices : HandleInboxMsg(d) => NoMixUp(d)]_vars
  <2> SUFFICES ASSUME MqttInv, NEW d \in Devices, HandleInboxMsg(d)
               PROVE  NoMixUp(d)
    OBVIOUS
  <2> DEFINE m == Head(inbox[d])
             p == unackedPackets[d][m.id]
  <2> SUFFICES ASSUME p # m.packet, p.by = d, m.packet.by = d
               PROVE  FarApart(p, m.packet)
    BY DEF NoMixUp
  <2>1. m \in Good
    <3>1. inbox[d] \in Seq(Good) /\ inbox[d] # <<>>
      BY DEF MqttInv, BoxesOk, HandleInboxMsg
    <3> QED BY <3>1, TailType
  <2>2. m.id \in PacketIds /\ m.packet \in Packet /\ Paired(m.id, m.packet)
    BY <2>1 DEF Good, Msg
  <2>3. p \in Packet /\ Paired(m.id, p)
    BY <2>2 DEF MqttInv, PacketsOk
  <2> HIDE DEF m, p
  <2> QED BY <2>2, <2>3, SameIdFarApart
<1> QED BY <1>1, MqttInvariant, PTL DEF AcksFindTheirPacket

=============================================================================
