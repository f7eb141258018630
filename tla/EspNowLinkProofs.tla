-------------------------- MODULE EspNowLinkProofs --------------------------
(***************************************************************************)
(* Theorems about the ESP-NOW sender, for any set of peers, any recipients,*)
(* any bounds, and callbacks as late as they like.                         *)
(***************************************************************************)
EXTENDS EspNowLink, TLAPS, SequenceTheorems, FiniteSetTheorems

\* The part of LinkAssumption that typing needs.
LEMMA Constants ==
  /\ Peers \subseteq Nat \ {0} /\ RecipientSets \subseteq SUBSET Peers
  /\ DEFAULT_RETRIES \in Nat /\ MaxPaired \in Nat /\ MaxMsgs \in Nat /\ MaxLosses \in Nat
  /\ MaxRefusals \in Nat
  /\ MaxScans \in Nat /\ MaxHandshakes \in Nat
  BY LinkAssumption DEF LinkAssumption

LEMMA IdTypes ==
  /\ Phantom \in Ids /\ Peers \subseteq Ids /\ 0 \in MsgNos /\ Blank \in Msg
  /\ Idle.busy = FALSE
  BY Constants DEF Ids, MsgNos, Blank, Msg, Idle

LEMMA ConnectType ==
  ASSUME TypeOK, NEW ps \in SUBSET Ids, ConnectToPeers(ps)
  PROVE  paired' \subseteq Ids
  BY DEF TypeOK, ConnectToPeers

\* A handshake message is one that lastMsg and the outbox may hold.
LEMMA HandshakeType ==
  ASSUME NEW p \in Ids
  PROVE  Handshake(p) \in Msg /\ Handshake(p).no = 0
  BY Constants DEF Handshake, Msg, MsgNos

\* What sending and cb hold when they are not idle.
LEMMA BusyType ==
  ASSUME TypeOK
  PROVE  /\ sending # Idle => /\ sending \in [busy : {TRUE}, msg : Msg, rest : SUBSET Ids]
                              /\ sending.msg \in Msg /\ sending.rest \subseteq Ids
         /\ cb # Idle => cb.peer \in Ids
  BY DEF TypeOK

\* Every step preserves the types.
LEMMA LinkTypeStep ==
  ASSUME TypeOK, [Next]_vars
  PROVE  TypeOK'
<1> USE Constants, IdTypes
<1>1. CASE HandleOutboxMsg
  <2>1. Head(outbox) \in Msg /\ outbox' \in Seq(Msg)
    BY <1>1 DEF HandleOutboxMsg, TypeOK
  <2>2. RecipientIDs(Head(outbox)) \subseteq Ids
    BY <2>1 DEF RecipientIDs, Msg, TypeOK
  <2>3. sending' \in [busy : {TRUE}, msg : Msg, rest : SUBSET Ids]
    BY <1>1, <2>1, <2>2 DEF HandleOutboxMsg
  <2> QED BY <1>1, <2>1, <2>3 DEF HandleOutboxMsg, TypeOK, tableVars, askVars, boundVars, histVars
<1>2. CASE SendDone
  BY <1>2 DEF SendDone, TypeOK, tableVars, askVars, boundVars, histVars
<1>3. ASSUME NEW p \in Ids, SendTo(p)
      PROVE  TypeOK'
  <2>1. sending.msg \in Msg /\ sending.rest \subseteq Ids
    BY <1>3, BusyType DEF SendTo
  <2>2. sending' \in [busy : {TRUE}, msg : Msg, rest : SUBSET Ids]
    BY <1>3, BusyType DEF SendTo
  <2>3. [sending.msg EXCEPT !.sendCnt = @ + 1] \in Msg
    BY <2>1 DEF Msg
  <2>4. lastMsg' \in [Ids -> Msg]
    <3>1. \E m \in Msg : lastMsg' = [lastMsg EXCEPT ![p] = m]
      BY <1>3, <2>1, <2>3 DEF SendTo, Accept, Refuse
    <3> QED BY <3>1 DEF TypeOK
  <2>5. [no |-> sending.msg.no, to |-> p] \in Frame
    BY <2>1 DEF Msg, Frame
  <2>6. air' \in Seq(Frame)
    <3>1. air' = air \/ air' = Append(air, [no |-> sending.msg.no, to |-> p])
      BY <1>3 DEF SendTo, Accept, Refuse
    <3>2. air \in Seq(Frame)
      BY DEF TypeOK
    <3>3. Append(air, [no |-> sending.msg.no, to |-> p]) \in Seq(Frame)
      BY <2>5, <3>2, AppendProperties
    <3> QED BY <3>1, <3>2, <3>3
  <2>7. tx' \in [MsgNos -> [Ids -> Nat]]
    <3>1. tx' = tx \/ tx' = [tx EXCEPT ![sending.msg.no][p] = @ + 1]
      BY <1>3 DEF SendTo, Accept, Refuse
    <3>2. sending.msg.no \in MsgNos
      BY <2>1 DEF Msg
    <3>3. tx[sending.msg.no] \in [Ids -> Nat]
      BY <3>2 DEF TypeOK
    <3>4. [tx[sending.msg.no] EXCEPT ![p] = @ + 1] \in [Ids -> Nat]
      BY <3>3
    <3>5. tx \in [MsgNos -> [Ids -> Nat]]
      BY DEF TypeOK
    <3> QED BY <3>1, <3>4, <3>5
  <2>8. refused' \subseteq MsgNos \X Ids
    <3>1. refused' = refused \/ refused' = refused \cup {<<sending.msg.no, p>>}
      BY <1>3 DEF SendTo, Accept, Refuse
    <3>2. <<sending.msg.no, p>> \in MsgNos \X Ids
      BY <2>1 DEF Msg
    <3> QED BY <3>1, <3>2 DEF TypeOK
  <2> QED BY <1>3, <2>2, <2>4, <2>6, <2>7, <2>8 DEF SendTo, TypeOK, tableVars, askVars, boundVars
<1>4. CASE Delivered
  <2>1. Head(air) \in Frame /\ air' \in Seq(Frame)
    BY <1>4 DEF Delivered, TypeOK
  <2> QED BY <1>4, <2>1 DEF Delivered, TypeOK, tableVars, askVars, boundVars, histVars
<1>5. CASE NotDelivered
  <2>1. Head(air) \in Frame /\ air' \in Seq(Frame)
    BY <1>5 DEF NotDelivered, TypeOK
  <2>2. PeerDeviceID(Head(air)) \in Ids
    BY <2>1 DEF PeerDeviceID, Frame
  <2>3. losses' \in 0..MaxLosses
    BY <1>5 DEF NotDelivered, TypeOK
  <2>4. cb' \in {Idle} \cup [busy : {TRUE}, peer : Ids]
    BY <1>5, <2>2 DEF NotDelivered
  <2>5. peers' \subseteq Ids
    BY <1>5, <2>2 DEF NotDelivered, TypeOK
  <2> QED BY <1>5, <2>1, <2>3, <2>4, <2>5 DEF NotDelivered, TypeOK, askVars, histVars
<1>6. CASE Requeue
  <2>1. RetryOf(lastMsg[cb.peer], cb.peer) \in Msg
    <3>1. cb.peer \in Ids /\ lastMsg[cb.peer] \in Msg
      BY <1>6, BusyType DEF Requeue, TypeOK
    <3> QED BY <3>1 DEF Msg, RetryOf
  <2>2. outbox' \in Seq(Msg)
    BY <1>6, <2>1, AppendProperties DEF Requeue, TypeOK
  <2> QED BY <1>6, <2>2 DEF Requeue, TypeOK, tableVars, askVars, boundVars, histVars
<1>7. CASE HandleHandshakes
  <2>1. peers' \subseteq Ids /\ macToID' \subseteq Peers
    BY <1>7 DEF HandleHandshakes, TypeOK
  <2>2. lastMsg' \in [Ids -> Msg]
    BY <1>7 DEF HandleHandshakes, TypeOK
  <2>3. paired' \subseteq Ids
    BY <1>7, ConnectType DEF HandleHandshakes, TypeOK
  <2>4. scans' \in 0..MaxScans
    BY <1>7 DEF HandleHandshakes, TypeOK
  <2>5. asking' \subseteq Ids
    BY <1>7 DEF HandleHandshakes, ToAsk, TypeOK
  <2> QED BY <1>7, <2>1, <2>2, <2>3, <2>4, <2>5 DEF HandleHandshakes, TypeOK, histVars
<1>8. CASE ReceiveHandshakeRequest
  <2>1. peers' \subseteq Ids /\ paired' \subseteq Ids
    <3>1. PICK p \in Peers : peers' = peers \cup {p} /\ ConnectToPeers(peers \cup {p})
      BY <1>8 DEF ReceiveHandshakeRequest
    <3>2. peers \cup {p} \subseteq Ids
      BY DEF TypeOK
    <3> QED BY <3>1, <3>2, ConnectType
  <2>2. lastMsg' \in [Ids -> Msg]
    BY <1>8 DEF ReceiveHandshakeRequest, TypeOK
  <2>3. handshakes' \in 0..MaxHandshakes
    BY <1>8 DEF ReceiveHandshakeRequest, TypeOK
  <2>4. outbox' \in Seq(Msg)
    BY <1>8, HandshakeType, AppendProperties DEF ReceiveHandshakeRequest, TypeOK
  <2> QED BY <1>8, <2>1, <2>2, <2>3, <2>4 DEF ReceiveHandshakeRequest, TypeOK, askVars, histVars
<1>9. CASE PushOutbox
  <2>1. pushed' \in 1..MaxMsgs /\ pushed' \in MsgNos
    BY <1>9 DEF PushOutbox, TypeOK, MsgNos
  <2>2. PICK to \in RecipientSets, max \in {0, DEFAULT_RETRIES} :
          /\ outbox' = Append(outbox, [no |-> pushed', to |-> to, sendCnt |-> 0, maxRetries |-> max])
          /\ order' = [order EXCEPT ![pushed'] = [to |-> to, maxRetries |-> max]]
    BY <1>9 DEF PushOutbox
  <2>3. [no |-> pushed', to |-> to, sendCnt |-> 0, maxRetries |-> max] \in Msg
    BY <2>1, <2>2 DEF Msg
  <2>4. outbox' \in Seq(Msg)
    BY <2>2, <2>3, AppendProperties DEF TypeOK
  <2>5. order' \in [MsgNos -> [to : SUBSET Peers, maxRetries : {0, DEFAULT_RETRIES}]]
    BY <2>2 DEF TypeOK
  <2>6. pushed' \in 0..MaxMsgs
    BY <2>1
  <2> QED BY <1>9, <2>4, <2>5, <2>6 DEF PushOutbox, TypeOK, tableVars, askVars
<1>10. ASSUME NEW p \in Ids, SendHandshakeRequest(p)
       PROVE  TypeOK'
  <2>1. outbox' \in Seq(Msg)
    BY <1>10, HandshakeType, AppendProperties DEF SendHandshakeRequest, TypeOK
  <2>2. asked' \subseteq Ids /\ asking' \subseteq Ids
    BY <1>10 DEF SendHandshakeRequest, TypeOK
  <2> QED BY <1>10, <2>1, <2>2 DEF SendHandshakeRequest, TypeOK, tableVars, boundVars, histVars
<1>11. CASE UNCHANGED vars
  BY <1>11 DEF vars, TypeOK, tableVars, askVars, boundVars, histVars
<1> QED BY <1>1, <1>2, <1>3, <1>4, <1>5, <1>6, <1>7, <1>8, <1>9, <1>10, <1>11
        DEF Next, Loop, WiFi, App

\* Every reachable state has its type.
THEOREM LinkTypeCorrect == Spec => []TypeOK
<1> USE Constants, IdTypes
<1>1. Init => TypeOK
  <2> SUFFICES ASSUME Init PROVE TypeOK
    OBVIOUS
  <2>1. outbox \in Seq(Msg) /\ air \in Seq(Frame)
    BY EmptySeq DEF Init
  <2>2. lastMsg \in [Ids -> Msg]
    BY DEF Init
  <2>3. /\ order \in [MsgNos -> [to : SUBSET Peers, maxRetries : {0, DEFAULT_RETRIES}]]
        /\ tx \in [MsgNos -> [Ids -> Nat]]
    BY DEF Init
  <2>4. /\ pushed \in 0..MaxMsgs /\ losses \in 0..MaxLosses
        /\ scans \in 0..MaxScans /\ handshakes \in 0..MaxHandshakes
    BY DEF Init
  <2> QED BY <2>1, <2>2, <2>3, <2>4 DEF Init, TypeOK
<1>2. TypeOK /\ [Next]_vars => TypeOK'
  BY LinkTypeStep
<1> QED BY <1>1, <1>2, PTL DEF Spec

-----------------------------------------------------------------------------
(* Misdelivery.                                                             *)

\* Peer p may be sent message n, and message m may be handed to sendMsgESPNow, when the
\* first c messages have been pushed as o says.
AllowedAt(n, p, o, c) == n <= c /\ (n = 0 \/ o[n].to = {} \/ p \in o[n].to)
FitsAt(m, o, c) ==
  /\ m.no <= c
  /\ m.no = 0 \/ o[m.no].to = {} \/ (m.to # {} /\ m.to \subseteq o[m.no].to)
Allowed(n, p) == AllowedAt(n, p, order, pushed)
Fits(m) == FitsAt(m, order, pushed)

\* The inductive invariant: the last message of every peer is one that may go to that peer,
\* so that a copy of it addressed to the peer may go out as well.
LinkInv ==
  /\ TypeOK
  /\ \A i \in DOMAIN outbox : Fits(outbox[i])
  /\ sending # Idle => Fits(sending.msg) /\ \A p \in sending.rest : Allowed(sending.msg.no, p)
  /\ \A p \in Ids : Allowed(lastMsg[p].no, p)
  /\ \A i \in DOMAIN air : Allowed(air[i].no, air[i].to)

\* The elements of a sequence after Append and Tail.
LEMMA AppendElements ==
  ASSUME NEW S, NEW s \in Seq(S), NEW e \in S
  PROVE  \A i \in DOMAIN Append(s, e) :
           \/ i \in DOMAIN s /\ Append(s, e)[i] = s[i]
           \/ Append(s, e)[i] = e
  BY AppendProperties, LenProperties

LEMMA TailElements ==
  ASSUME NEW S, NEW s \in Seq(S), s # <<>>
  PROVE  /\ 1 \in DOMAIN s /\ Head(s) = s[1]
         /\ \A i \in DOMAIN Tail(s) : i + 1 \in DOMAIN s /\ Tail(s)[i] = s[i + 1]
  BY HeadTailProperties, LenProperties

\* A blank message may go anywhere.
LEMMA BlankIsAllowed == TypeOK => \A p \in Ids : Allowed(Blank.no, p)
  BY DEF TypeOK, Allowed, AllowedAt, Blank

\* The outbox stays fit when a handshake message is put in.
LEMMA HandshakeFits ==
  ASSUME TypeOK, \A i \in DOMAIN outbox : Fits(outbox[i]), NEW p \in Ids
  PROVE  \A i \in DOMAIN Append(outbox, Handshake(p)) : Fits(Append(outbox, Handshake(p))[i])
<1>1. Fits(Handshake(p))
  BY HandshakeType DEF Fits, FitsAt, TypeOK
<1>2. outbox \in Seq(Msg) /\ Handshake(p) \in Msg
  BY HandshakeType DEF TypeOK
<1> QED BY <1>1, <1>2, AppendElements

LEMMA MisdeliveryStep ==
  ASSUME LinkInv, TypeOK', [Next]_vars
  PROVE  LinkInv'
<1> USE Constants, IdTypes
<1>1. CASE HandleOutboxMsg
  <2>1. Head(outbox) = outbox[1] /\ 1 \in DOMAIN outbox
    BY <1>1, TailElements DEF HandleOutboxMsg, LinkInv, TypeOK
  <2>2. Fits(Head(outbox))
    BY <2>1 DEF LinkInv
  <2>3. \A p \in RecipientIDs(Head(outbox)) : Allowed(Head(outbox).no, p)
    BY <2>2 DEF RecipientIDs, Fits, FitsAt, Allowed, AllowedAt
  <2>4. \A i \in DOMAIN outbox' : Fits(outbox'[i])
    BY <1>1, TailElements DEF HandleOutboxMsg, LinkInv, TypeOK
  <2> QED BY <1>1, <2>2, <2>3, <2>4 DEF HandleOutboxMsg, LinkInv, Fits, FitsAt, Allowed, AllowedAt, boundVars, histVars
<1>2. CASE SendDone
  BY <1>2 DEF SendDone, LinkInv, Fits, FitsAt, Allowed, AllowedAt, boundVars, histVars
<1>3. ASSUME NEW p \in Ids, SendTo(p)
      PROVE  LinkInv'
  <2>1. p \in sending.rest /\ sending # Idle /\ UNCHANGED <<outbox, pushed, order>>
    BY <1>3 DEF SendTo, Current, boundVars
  <2>2. Allowed(sending.msg.no, p) /\ Fits(sending.msg)
    BY <2>1 DEF LinkInv
  <2>3. /\ sending'.msg = sending.msg
        /\ sending'.rest \subseteq sending.rest
    BY <1>3, BusyType DEF SendTo, LinkInv
  <2>4. sending.msg \in Msg
    BY <2>1, BusyType DEF LinkInv
  <2>5. \A q \in Ids : Allowed(lastMsg'[q].no, q)
    <3>1. CASE Accept(sending.msg, p)
      <4> DEFINE m == [sending.msg EXCEPT !.sendCnt = @ + 1]
      <4>1. m.no = sending.msg.no
        BY <2>4 DEF Msg
      <4>2. lastMsg' = [lastMsg EXCEPT ![p] = m]
        BY <3>1 DEF Accept
      <4> HIDE DEF m
      <4> QED BY <2>2, <4>1, <4>2 DEF LinkInv, TypeOK
    <3>2. CASE Refuse(sending.msg, p)
      <4>1. lastMsg' = [lastMsg EXCEPT ![p] = sending.msg]
        BY <3>2 DEF Refuse
      <4> QED BY <2>2, <4>1 DEF LinkInv, TypeOK
    <3> QED BY <1>3, <3>1, <3>2 DEF SendTo
  <2>6. \A i \in DOMAIN air' : Allowed(air'[i].no, air'[i].to)
    <3>1. CASE air' = air
      BY <3>1 DEF LinkInv
    <3>2. CASE air' = Append(air, [no |-> sending.msg.no, to |-> p])
      <4>1. [no |-> sending.msg.no, to |-> p] \in Frame
        BY <2>4 DEF Frame, Msg
      <4> QED BY <2>2, <3>2, <4>1, AppendElements DEF LinkInv, TypeOK
    <3> QED BY <1>3, <3>1, <3>2 DEF SendTo, Accept, Refuse
  <2> QED BY <2>1, <2>2, <2>3, <2>5, <2>6 DEF LinkInv, Fits, FitsAt, Allowed, AllowedAt
<1>4. CASE Delivered \/ NotDelivered
  <2>1. /\ UNCHANGED <<lastMsg, outbox, sending, pushed, order>>
        /\ air # <<>> /\ air' = Tail(air)
    BY <1>4 DEF Delivered, NotDelivered, boundVars, histVars
  <2>2. \A i \in DOMAIN air' : Allowed(air'[i].no, air'[i].to)
    BY <2>1, TailElements DEF LinkInv, TypeOK
  <2> QED BY <2>1, <2>2 DEF LinkInv, Fits, FitsAt, Allowed, AllowedAt
<1>5. CASE Requeue
  <2>1. cb.peer \in Ids /\ lastMsg[cb.peer] \in Msg /\ Allowed(lastMsg[cb.peer].no, cb.peer)
    BY <1>5, BusyType DEF Requeue, LinkInv, TypeOK
  <2>2. RetryOf(lastMsg[cb.peer], cb.peer) \in Msg /\ Fits(RetryOf(lastMsg[cb.peer], cb.peer))
    BY <2>1 DEF RetryOf, Msg, Fits, FitsAt, Allowed, AllowedAt
  <2>3. \A i \in DOMAIN outbox' : Fits(outbox'[i])
    BY <1>5, <2>2, AppendElements DEF Requeue, LinkInv, TypeOK
  <2> QED BY <1>5, <2>3 DEF Requeue, LinkInv, Fits, FitsAt, Allowed, AllowedAt, boundVars, histVars
<1>6. CASE HandleHandshakes
  <2>1. \A p \in Ids : Allowed(lastMsg'[p].no, p)
    BY <1>6, BlankIsAllowed DEF HandleHandshakes, LinkInv
  <2> QED BY <1>6, <2>1 DEF HandleHandshakes, LinkInv, Fits, FitsAt, Allowed, AllowedAt, histVars
<1>7. CASE ReceiveHandshakeRequest
  <2>1. \A p \in Ids : Allowed(lastMsg'[p].no, p)
    <3>1. PICK q \in Peers : lastMsg' = [lastMsg EXCEPT ![q] = Blank]
      BY <1>7 DEF ReceiveHandshakeRequest
    <3> QED BY <3>1, BlankIsAllowed DEF LinkInv, TypeOK
  <2>2. \A i \in DOMAIN outbox' : Fits(outbox'[i])
    BY <1>7, HandshakeFits DEF ReceiveHandshakeRequest, LinkInv
  <2> QED BY <1>7, <2>1, <2>2 DEF ReceiveHandshakeRequest, LinkInv, Fits, FitsAt, Allowed, AllowedAt, histVars
<1>8. CASE PushOutbox
  <2>1. PICK to \in RecipientSets, max \in {0, DEFAULT_RETRIES} :
          /\ outbox' = Append(outbox, [no |-> pushed', to |-> to, sendCnt |-> 0, maxRetries |-> max])
          /\ order' = [order EXCEPT ![pushed'] = [to |-> to, maxRetries |-> max]]
    BY <1>8 DEF PushOutbox
  <2>2. pushed' = pushed + 1 /\ pushed' \in MsgNos /\ pushed \in Nat
    BY <1>8 DEF PushOutbox, LinkInv, TypeOK, MsgNos
  <2>3. /\ order'[pushed'].to = to
        /\ \A n \in MsgNos : n <= pushed => order'[n] = order[n]
    BY <2>1, <2>2 DEF LinkInv, TypeOK, MsgNos
  <2>4. \A n \in MsgNos, p \in Ids : Allowed(n, p) => AllowedAt(n, p, order', pushed')
    BY <2>2, <2>3 DEF Allowed, AllowedAt, MsgNos
  <2>5. \A m \in Msg : Fits(m) => FitsAt(m, order', pushed')
    BY <2>2, <2>3 DEF Fits, FitsAt, Msg, MsgNos
  <2>6. (\A i \in DOMAIN outbox : Fits(outbox[i]))'
    <3> DEFINE m == [no |-> pushed + 1, to |-> to, sendCnt |-> 0, maxRetries |-> max]
    <3>1. m \in Msg /\ m.no = pushed + 1 /\ m.to = to
      BY <2>1, <2>2 DEF Msg
    <3>2. outbox' = Append(outbox, m)
      BY <2>1, <2>2
    <3>3. outbox \in Seq(Msg)
      BY DEF LinkInv, TypeOK
    <3> HIDE DEF m
    <3> SUFFICES ASSUME NEW i \in DOMAIN outbox' PROVE FitsAt(outbox'[i], order', pushed')
      BY DEF Fits
    <3>4. CASE i \in DOMAIN outbox /\ outbox'[i] = outbox[i]
      <4>1. outbox[i] \in Msg /\ Fits(outbox[i])
        BY <3>3, <3>4, ElementOfSeq, LenProperties DEF LinkInv
      <4> QED BY <2>5, <3>4, <4>1
    <3>5. CASE outbox'[i] = m
      BY <2>2, <2>3, <3>1, <3>5 DEF FitsAt
    <3> QED BY <3>1, <3>2, <3>3, <3>4, <3>5, AppendElements
  <2>7. sending = Idle /\ UNCHANGED <<lastMsg, sending, air>>
    BY <1>8 DEF PushOutbox, Ready
  <2>8. (\A p \in Ids : Allowed(lastMsg[p].no, p))'
    <3>1. \A p \in Ids : lastMsg[p].no \in MsgNos
      BY DEF LinkInv, TypeOK, Msg
    <3> QED BY <2>4, <2>7, <3>1 DEF LinkInv, Allowed
  <2>9. (\A i \in DOMAIN air : Allowed(air[i].no, air[i].to))'
    <3>1. \A i \in DOMAIN air : air[i] \in Frame
      BY ElementOfSeq, LenProperties DEF LinkInv, TypeOK
    <3>2. \A i \in DOMAIN air : air[i].no \in MsgNos /\ air[i].to \in Ids
      BY <3>1 DEF Frame
    <3> QED BY <2>4, <2>7, <3>2 DEF LinkInv, Allowed
  <2>10. (sending # Idle)' = FALSE
    BY <2>7
  <2> QED BY <2>6, <2>8, <2>9, <2>10 DEF LinkInv
<1>9. ASSUME NEW p \in Ids, SendHandshakeRequest(p)
      PROVE  LinkInv'
  <2>1. \A i \in DOMAIN outbox' : Fits(outbox'[i])
    BY <1>9, HandshakeFits DEF SendHandshakeRequest, LinkInv
  <2> QED BY <1>9, <2>1 DEF SendHandshakeRequest, LinkInv, Fits, FitsAt, Allowed, AllowedAt, boundVars, histVars
<1>10. CASE UNCHANGED vars
  BY <1>10 DEF vars, LinkInv, Fits, FitsAt, Allowed, AllowedAt, boundVars, histVars
<1> QED BY <1>1, <1>2, <1>3, <1>4, <1>5, <1>6, <1>7, <1>8, <1>9, <1>10 DEF Next, Loop, WiFi, App

\* Whatever fails and whatever is retried, a message pushed for some peers goes to no other.
THEOREM NoMessageGoesAstray == Spec => []NoMisdelivery
<1>1. Init /\ TypeOK => LinkInv
  BY IdTypes DEF Init, LinkInv, Allowed, AllowedAt, Blank
<1>2. LinkInv /\ TypeOK' /\ [Next]_vars => LinkInv'
  BY MisdeliveryStep
<1>3. LinkInv => NoMisdelivery
  BY DEF LinkInv, NoMisdelivery, Allowed, AllowedAt
<1> QED BY <1>1, <1>2, <1>3, LinkTypeCorrect, PTL DEF Spec

-----------------------------------------------------------------------------
(* Failures do not feed on themselves.                                      *)
(*                                                                          *)
(* A failure may queue a copy of another message than the one that failed,  *)
(* so no message's own sendCnt limits what comes of it.  But every copy, of *)
(* whatever message, goes round the same ring: outbox, sendMsgESPNow, air,  *)
(* callback, outbox.  Number the copies as they join the outbox: as the     *)
(* ring is first in, first out, a retry gets a number at most MaxCopies     *)
(* above that of the frame that failed, and its sendCnt is one higher.  So  *)
(* the numbers that a message can still need are limited, and losses and    *)
(* transmissions never exceed the numbers.                                  *)

\* What is pushed: messages, responses to handshakes, and per scan a request to every peer.  A
\* scan counts for one more, because it resets the last messages of peers.
MaxPushes == MaxMsgs + MaxHandshakes + MaxScans * (Cardinality(Ids) + 1)
Pushes    == pushed + handshakes + scans * (Cardinality(Ids) + 1)

\* A message is for so many peers at most, so n pushes make so many copies.
Copies(n) == Cardinality(Ids) * n
MaxCopies == Copies(MaxPushes)

\* With that many copies about, each may fail DEFAULT_RETRIES + 1 times before the message of
\* the last push has no retries left.
MaxNeed    == (DEFAULT_RETRIES + 1) * MaxCopies
Ceiling(n) == (Cardinality(Ids) + MaxNeed) * n
FailureBound == Ceiling(MaxPushes)

\* How often a message may still fail and be queued again, and what its copies need for that.
Left(m) == IF HasRetriesLeft(m) THEN (m.maxRetries + 1) - m.sendCnt ELSE 0
Need(m) == Left(m) * MaxCopies

\* How many copies a message in the outbox will make at most.
Width(m) == IF m.to = {} THEN Cardinality(Ids) ELSE Cardinality(m.to)

\* The copies are numbered in the order in which they enter the outbox, and go round in that
\* order.  s[i] is the last number of the i-th of the n messages in the outbox, s[0] that of all
\* before; a[i] is the number of the i-th of the k frames in the air; x was transmitted last, f
\* failed or was delivered last.
Lengths(n, k) == n = Len(outbox) /\ k = Len(air)
OutboxNumbered(s, n) == \A i \in 1..n : s[i - 1] + Width(outbox[i]) <= s[i]
AirOrdered(a, k) == \A i, j \in 1..k : i < j => a[i] < a[j]
AirNumbered(a, k, x, f) == f <= x /\ \A i \in 1..k : f < a[i] /\ a[i] <= x
SendingNumbered(s, x) == x + (IF sending = Idle THEN 0 ELSE Cardinality(sending.rest)) <= s[0]
Numbered(s, n, a, k, x, f) ==
  /\ Lengths(n, k) /\ OutboxNumbered(s, n) /\ SendingNumbered(s, x)
  /\ AirOrdered(a, k) /\ AirNumbered(a, k, x, f)

\* Every failure and every transmission uses up a number; e pushes have come in.
Counted(s, n, x, f, e) ==
  /\ losses <= f /\ \A m \in MsgNos, p \in Ids : tx[m][p] <= x
  /\ s[n] + (IF cb = Idle THEN 0 ELSE 1) <= f + Copies(e)
  /\ e + Cardinality(asking) <= Pushes
BelowCeiling(s, n, e) == \A i \in 0..n : s[i] <= Ceiling(e)

\* A failure is charged to the last message of the peer that the callback looks up: one that
\* macToIDMap leads to, or the phantom.
LookedUp == macToID \cup {Phantom}

\* The numbers that are left after a copy's own number suffice for all that may come of it.  If
\* its peer is not in macToIDMap then that is any last message of the phantom.
Fresh(n, e) == n + MaxNeed <= Ceiling(e)
OutboxOk(m, n, e) ==
  Fresh(n, e) \/ (m.to # {} /\ m.to \subseteq LookedUp /\ n + Need(m) <= Ceiling(e))
SendingOk(n, e) ==
  Fresh(n, e) \/ (sending.rest \subseteq LookedUp /\ n + Need(sending.msg) <= Ceiling(e))
AirOk(to, n, e) ==
  Fresh(n, e) \/ (to \in LookedUp /\ n + Need(lastMsg[to]) <= Ceiling(e))

OutboxSuffices(s, n, e) == \A i \in 1..n : OutboxOk(outbox[i], s[i], e)
AirSuffices(a, k, e)    == \A i \in 1..k : AirOk(air[i].to, a[i], e)
CallbackSuffices(f, e)  ==
  cb # Idle => /\ HasRetriesLeft(lastMsg[cb.peer]) /\ cb.peer \in LookedUp
               /\ f + Need(lastMsg[cb.peer]) <= Ceiling(e)
Sufficient(s, n, a, k, f, e) ==
  /\ OutboxSuffices(s, n, e) /\ (sending # Idle => SendingOk(s[0], e))
  /\ AirSuffices(a, k, e) /\ CallbackSuffices(f, e)

Numbering(s, n, a, k, x, f, e) ==
  /\ Numbered(s, n, a, k, x, f) /\ Counted(s, n, x, f, e)
  /\ BelowCeiling(s, n, e) /\ Sufficient(s, n, a, k, f, e)

BoundInv ==
  TypeOK /\ \E s, a \in [Nat -> Nat], n, k, x, f, e \in Nat : Numbering(s, n, a, k, x, f, e)

-----------------------------------------------------------------------------
\* The ids can be counted, and so can any of them.
LEMMA IdsFinite ==
  /\ IsFiniteSet(Ids) /\ Cardinality(Ids) \in Nat
  /\ \A S : S \subseteq Ids =>
       IsFiniteSet(S) /\ Cardinality(S) \in Nat /\ Cardinality(S) <= Cardinality(Ids)
<1>1. IsFiniteSet(Ids)
  BY FS_AddElement, LinkAssumption DEF LinkAssumption, Ids
<1> QED BY <1>1, FS_Subset, FS_CardinalityType

\* The arithmetic of the bounds.
LEMMA Arithmetic ==
  /\ MaxPushes \in Nat /\ MaxCopies \in Nat /\ MaxNeed \in Nat
  /\ \A n \in Nat : Copies(n) \in Nat /\ Ceiling(n) \in Nat
  /\ \A n \in Nat : n <= MaxPushes => Copies(n) <= MaxCopies /\ Ceiling(n) <= FailureBound
  /\ \A n \in Nat : Copies(n + 1) = Copies(n) + Cardinality(Ids)
  /\ \A n \in Nat : Ceiling(n + 1) = Ceiling(n) + Cardinality(Ids) + MaxNeed
  /\ Copies(0) = 0 /\ Ceiling(0) = 0
<1> DEFINE I == Cardinality(Ids)
<1>1. I \in Nat
  BY IdsFinite
<1>2. /\ \A b, c \in Nat : b * c \in Nat /\ b * (c + 1) = b * c + b /\ b * 0 = 0
      /\ \A b, c, d \in Nat : c <= d => b * c <= b * d
  <2>1. \A b, c \in Nat : b * c \in Nat /\ b * (c + 1) = b * c + b /\ b * 0 = 0
    OBVIOUS
  <2>2. ASSUME NEW b \in Nat, NEW c \in Nat, NEW d \in Nat, c <= d
        PROVE  b * c <= b * d
    <3>1. PICK k \in Nat : d = c + k
      BY <2>2
    <3>2. b * d = b * c + b * k /\ b * k \in Nat /\ b * c \in Nat
      BY <3>1
    <3> QED BY <3>2
  <2> QED BY <2>1, <2>2
<1>3. MaxPushes \in Nat
  BY <1>1, <1>2, Constants DEF MaxPushes
<1>4. MaxCopies \in Nat /\ MaxNeed \in Nat
  BY <1>1, <1>2, <1>3, Constants DEF MaxCopies, Copies, MaxNeed
<1>5. I + MaxNeed \in Nat
  BY <1>1, <1>4
<1>6. \A n \in Nat : /\ Copies(n) \in Nat /\ Copies(n + 1) = Copies(n) + I
                     /\ n <= MaxPushes => Copies(n) <= MaxCopies
  BY <1>1, <1>2, <1>3 DEF Copies, MaxCopies
<1>7. \A n \in Nat : /\ Ceiling(n) \in Nat /\ Ceiling(n + 1) = Ceiling(n) + (I + MaxNeed)
                     /\ n <= MaxPushes => Ceiling(n) <= FailureBound
  BY <1>2, <1>3, <1>5 DEF Ceiling, FailureBound
<1>8. Copies(0) = 0 /\ Ceiling(0) = 0
  BY <1>1, <1>2, <1>5 DEF Copies, Ceiling
<1> HIDE DEF I
<1>9. \A n \in Nat : Ceiling(n + 1) = Ceiling(n) + I + MaxNeed
  BY <1>1, <1>4, <1>7
<1> QED BY <1>1, <1>3, <1>4, <1>6, <1>7, <1>8, <1>9 DEF I

\* Of that, the part without equations.
LEMMA Bounds ==
  /\ Cardinality(Ids) \in Nat /\ MaxPushes \in Nat /\ MaxCopies \in Nat /\ MaxNeed \in Nat
  /\ \A n \in Nat : Copies(n) \in Nat /\ Ceiling(n) \in Nat
  /\ \A n \in Nat : n <= MaxPushes => Copies(n) <= MaxCopies /\ Ceiling(n) <= FailureBound
  BY Arithmetic, IdsFinite

\* What one push more makes of it.
LEMMA NextPush ==
  ASSUME NEW e \in Nat
  PROVE  /\ Copies(e + 1) = Copies(e) + Cardinality(Ids)
         /\ Ceiling(e + 1) = Ceiling(e) + Cardinality(Ids) + MaxNeed
  BY Arithmetic

\* What a message needs is what the copy of it needs that a failure makes, and one round more.
LEMMA Needs ==
  ASSUME NEW m \in Msg
  PROVE  /\ Need(m) \in Nat /\ Need(m) <= MaxNeed
         /\ Need([m EXCEPT !.sendCnt = @ + 1]) \in Nat
         /\ Need([m EXCEPT !.sendCnt = @ + 1]) <= Need(m)
         /\ \A p \in Ids : HasRetriesLeft(m) => /\ Need(RetryOf(m, p)) \in Nat
                                                /\ Need(RetryOf(m, p)) + MaxCopies = Need(m)
<1>1. MaxCopies \in Nat /\ DEFAULT_RETRIES \in Nat
  BY Arithmetic, Constants
<1>2. \A b, c \in Nat : /\ b * MaxCopies \in Nat
                        /\ b <= c => b * MaxCopies <= c * MaxCopies
                        /\ (b + 1) * MaxCopies = b * MaxCopies + MaxCopies
  <2>1. ASSUME NEW b \in Nat, NEW c \in Nat, b <= c
        PROVE  b * MaxCopies <= c * MaxCopies
    <3>1. PICK k \in Nat : c = b + k
      BY <2>1
    <3>2. /\ c * MaxCopies = b * MaxCopies + k * MaxCopies
          /\ k * MaxCopies \in Nat /\ b * MaxCopies \in Nat
      BY <1>1, <3>1
    <3> QED BY <3>2
  <2> QED BY <1>1, <2>1
<1>3. m.sendCnt \in Nat /\ m.maxRetries \in Nat /\ m.maxRetries <= DEFAULT_RETRIES
  BY <1>1 DEF Msg
<1>4. Left(m) \in Nat /\ Left(m) <= DEFAULT_RETRIES + 1
  BY <1>1, <1>3 DEF Left, HasRetriesLeft
<1> DEFINE n == [m EXCEPT !.sendCnt = @ + 1]
<1>5. n.sendCnt = m.sendCnt + 1 /\ n.maxRetries = m.maxRetries
  BY DEF Msg
<1>6. Left(n) \in Nat /\ Left(n) <= Left(m)
  BY <1>3, <1>5 DEF Left, HasRetriesLeft
<1>7. ASSUME NEW p \in Ids, HasRetriesLeft(m)
      PROVE  Left(RetryOf(m, p)) \in Nat /\ Left(m) = Left(RetryOf(m, p)) + 1
  BY <1>3, <1>7 DEF Left, HasRetriesLeft, RetryOf
<1>8. Need(m) \in Nat /\ Need(m) <= MaxNeed
  BY <1>1, <1>2, <1>4 DEF Need, MaxNeed
<1>9. Need(n) \in Nat /\ Need(n) <= Need(m)
  BY <1>2, <1>4, <1>6 DEF Need
<1>10. ASSUME NEW p \in Ids, HasRetriesLeft(m)
       PROVE  Need(RetryOf(m, p)) \in Nat /\ Need(RetryOf(m, p)) + MaxCopies = Need(m)
  BY <1>2, <1>7, <1>10 DEF Need
<1> QED BY <1>8, <1>9, <1>10

\* A message is for no more peers than there are.
LEMMA WidthType ==
  ASSUME NEW m \in Msg
  PROVE  /\ Width(m) \in Nat /\ Width(m) <= Cardinality(Ids)
         /\ TypeOK => RecipientIDs(m) \subseteq Ids /\ Cardinality(RecipientIDs(m)) <= Width(m)
<1>1. m.to \subseteq Ids /\ Cardinality(m.to) \in Nat /\ Cardinality(m.to) <= Cardinality(Ids)
  BY IdsFinite DEF Msg
<1>2. Width(m) \in Nat /\ Width(m) <= Cardinality(Ids)
  BY <1>1, IdsFinite DEF Width
<1>3. TypeOK => RecipientIDs(m) \subseteq Ids /\ Cardinality(RecipientIDs(m)) <= Width(m)
  <2>1. TypeOK => peers \subseteq Ids /\ Cardinality(peers) <= Cardinality(Ids)
    BY IdsFinite DEF TypeOK
  <2> QED BY <1>1, <2>1, IdsFinite DEF Width, RecipientIDs
<1> QED BY <1>2, <1>3

\* There are no more pushes than the bounds allow.
LEMMA PushesType == TypeOK => Pushes \in Nat /\ Pushes <= MaxPushes
<1> SUFFICES ASSUME TypeOK PROVE Pushes \in Nat /\ Pushes <= MaxPushes
  OBVIOUS
<1>1. /\ scans \in Nat /\ scans <= MaxScans /\ pushed \in Nat /\ pushed <= MaxMsgs
      /\ handshakes \in Nat /\ handshakes <= MaxHandshakes
  BY Constants DEF TypeOK
<1>2. Cardinality(Ids) + 1 \in Nat
  BY IdsFinite
<1> DEFINE b == scans * (Cardinality(Ids) + 1)
           c == MaxScans * (Cardinality(Ids) + 1)
<1>3. PICK d \in Nat : MaxScans = scans + d
  BY <1>1, Constants
<1>4. b \in Nat /\ c \in Nat /\ b <= c
  <2>1. c = b + d * (Cardinality(Ids) + 1) /\ b \in Nat /\ d * (Cardinality(Ids) + 1) \in Nat
    BY <1>1, <1>2, <1>3
  <2> HIDE DEF b, c
  <2> QED BY <2>1
<1>5. Pushes = pushed + handshakes + b /\ MaxPushes = MaxMsgs + MaxHandshakes + c
  BY DEF Pushes, MaxPushes
<1> HIDE DEF b, c
<1> QED BY <1>1, <1>4, <1>5, Constants

\* The numbers that a state has are below the ceiling, and the copies that go round are no more
\* than were pushed.
LEMMA NumberTypes ==
  ASSUME TypeOK, NEW s \in [Nat -> Nat], NEW a \in [Nat -> Nat], NEW n \in Nat, NEW k \in Nat,
         NEW x \in Nat, NEW f \in Nat, NEW e \in Nat, Numbering(s, n, a, k, x, f, e)
  PROVE  /\ x <= s[0] /\ s[0] <= Ceiling(e) /\ f <= x
         /\ \A i \in 0..n : s[i] <= Ceiling(e)
         /\ \A i \in 1..k : f < a[i] /\ a[i] <= s[0]
         /\ e <= MaxPushes /\ Copies(e) <= MaxCopies /\ Ceiling(e) <= FailureBound
<1>1. sending # Idle => Cardinality(sending.rest) \in Nat
  BY BusyType, IdsFinite
<1>2. x <= s[0]
  BY <1>1 DEF Numbering, Numbered, SendingNumbered
<1>3. \A i \in 0..n : s[i] <= Ceiling(e)
  BY DEF Numbering, BelowCeiling
<1>4. s[0] <= Ceiling(e)
  BY <1>3
<1>5. f <= x /\ \A i \in 1..k : f < a[i] /\ a[i] <= x
  BY DEF Numbering, Numbered, AirNumbered
<1>6. Cardinality(asking) \in Nat
  BY IdsFinite DEF TypeOK
<1>7. e <= MaxPushes
  BY <1>6, PushesType, Bounds DEF Numbering, Counted
<1> QED BY <1>2, <1>3, <1>4, <1>5, <1>7, Bounds

\* At most one message is put into the outbox.
AddsOne == outbox' = outbox \/ \E m \in Msg : outbox' = Append(outbox, m)

\* The outbox after that.
LEMMA Added ==
  ASSUME TypeOK, TypeOK', NEW n \in Nat, NEW k \in Nat, Lengths(n, k), AddsOne
  PROVE  \E l \in {n, n + 1} :
           /\ l = Len(outbox')
           /\ \A i \in 1..n : outbox'[i] = outbox[i]
           /\ l = n + 1 => Width(outbox'[l]) \in Nat /\ Width(outbox'[l]) <= Cardinality(Ids)
<1>1. CASE outbox' = outbox
  BY <1>1 DEF Lengths
<1>2. ASSUME NEW m \in Msg, outbox' = Append(outbox, m)
      PROVE  /\ Len(outbox') = n + 1 /\ \A i \in 1..n : outbox'[i] = outbox[i]
             /\ outbox'[n + 1] = m
  BY <1>2, AppendProperties, LenProperties DEF TypeOK, Lengths
<1> QED BY <1>1, <1>2, WidthType DEF AddsOne

\* The numbers of a state are those of the state after a step.
LEMMA Renumbered ==
  ASSUME TypeOK', NEW s \in [Nat -> Nat], NEW a \in [Nat -> Nat], NEW n \in Nat, NEW k \in Nat,
         NEW x \in Nat, NEW f \in Nat, NEW e \in Nat, Numbering(s, n, a, k, x, f, e)'
  PROVE  BoundInv'
  BY Zenon DEF BoundInv

\* A push raises the ceiling so far that no number is near it.
LEMMA PushStep ==
  ASSUME TypeOK, TypeOK', NEW s \in [Nat -> Nat], NEW a \in [Nat -> Nat], NEW n \in Nat, NEW k \in Nat,
         NEW x \in Nat, NEW f \in Nat, NEW e \in Nat, Numbering(s, n, a, k, x, f, e),
         UNCHANGED <<sending, air, cb, losses, tx>>, AddsOne,
         e + 1 + Cardinality(asking') <= Pushes', macToID \subseteq macToID',
         cb # Idle => HasRetriesLeft(lastMsg'[cb.peer])
  PROVE  BoundInv'
<1>1. /\ Lengths(n, k) /\ OutboxNumbered(s, n) /\ SendingNumbered(s, x)
      /\ AirOrdered(a, k) /\ AirNumbered(a, k, x, f)
  BY DEF Numbering, Numbered
<1>2. PICK l \in {n, n + 1} :
        /\ l = Len(outbox')
        /\ \A i \in 1..n : outbox'[i] = outbox[i]
        /\ l = n + 1 => Width(outbox'[l]) \in Nat /\ Width(outbox'[l]) <= Cardinality(Ids)
  BY <1>1, Added
<1> DEFINE I == Cardinality(Ids)
           t == [i \in Nat |-> IF i <= n THEN s[i] ELSE s[n] + I]
<1>3. I \in Nat /\ MaxNeed \in Nat /\ Ceiling(e) \in Nat /\ Copies(e) \in Nat
  BY Bounds
<1>4. /\ Copies(e + 1) = Copies(e) + I /\ Ceiling(e + 1) = Ceiling(e) + I + MaxNeed
  BY NextPush
<1>5. t \in [Nat -> Nat] /\ t[0] = s[0] /\ (\A i \in 0..n : t[i] = s[i]) /\ t[n + 1] = s[n] + I
  BY <1>3
<1> HIDE DEF t, I
<1>0. /\ x <= s[0] /\ s[0] <= Ceiling(e) /\ f <= x
      /\ \A i \in 0..n : s[i] <= Ceiling(e)
      /\ \A i \in 1..k : f < a[i] /\ a[i] <= s[0]
  BY NumberTypes
<1>6. \A i \in 0..n : s[i] \in Nat /\ s[i] <= Ceiling(e)
  BY <1>0
<1>7. s[0] \in Nat /\ \A i \in 1..k : a[i] \in Nat /\ a[i] <= Ceiling(e)
  BY <1>0, <1>3
<1>8. l \in Nat /\ 0 \in 0..l /\ \A i \in 0..l : t[i] \in Nat /\ t[i] <= Ceiling(e) + I
  <2>1. \A i \in 0..(n + 1) : t[i] \in Nat /\ t[i] <= Ceiling(e) + I
    BY <1>3, <1>5, <1>6
  <2> QED BY <2>1
<1>9. Lengths(l, k)'
  <2>1. k = Len(air)'
    BY <1>1 DEF Lengths
  <2> QED BY <1>2, <2>1 DEF Lengths
<1>10. OutboxNumbered(t, l)'
  <2> SUFFICES ASSUME NEW i \in 1..l PROVE t[i - 1] + Width(outbox'[i]) <= t[i]
    BY DEF OutboxNumbered, Width
  <2>1. CASE i \in 1..n
    <3>1. s[i - 1] + Width(outbox[i]) <= s[i]
      BY <1>1, <2>1 DEF OutboxNumbered
    <3>2. outbox'[i] = outbox[i]
      BY <1>2, <2>1
    <3>3. t[i] = s[i] /\ t[i - 1] = s[i - 1]
      BY <1>5, <2>1
    <3> QED BY <3>1, <3>2, <3>3
  <2>2. CASE i = n + 1 /\ l = n + 1
    <3>1. t[i] = s[n] + I /\ t[i - 1] = s[n] /\ s[n] \in Nat
      BY <1>5, <1>6, <2>2
    <3>2. Width(outbox'[i]) \in Nat /\ Width(outbox'[i]) <= I
      BY <1>2, <2>2 DEF I
    <3> QED BY <1>3, <3>1, <3>2
  <2> QED BY <2>1, <2>2
<1>11. Numbered(t, l, a, k, x, f)'
  <2>1. SendingNumbered(t, x)'
    BY <1>1, <1>5 DEF SendingNumbered
  <2> QED BY <1>1, <1>9, <1>10, <2>1 DEF Numbered, AirOrdered, AirNumbered
<1>12. Counted(t, l, x, f, e + 1)'
  <2>1. s[n] + (IF cb = Idle THEN 0 ELSE 1) <= f + Copies(e)
    BY DEF Numbering, Counted
  <2>2. t[l] \in Nat /\ t[l] <= s[n] + I /\ s[n] \in Nat
    <3>1. n \in 0..n
      OBVIOUS
    <3> QED BY <1>3, <1>5, <1>6, <3>1
  <2>3. t[l] + (IF cb = Idle THEN 0 ELSE 1) <= f + Copies(e + 1)
    BY <1>3, <1>4, <2>1, <2>2
  <2> QED BY <2>3 DEF Numbering, Counted
<1>13. BelowCeiling(t, l, e + 1)'
  BY <1>3, <1>4, <1>8 DEF BelowCeiling
<1>14. /\ \A i \in 0..l : Fresh(t[i], e + 1)
       /\ \A i \in 1..k : Fresh(a[i], e + 1)
  BY <1>3, <1>4, <1>7, <1>8 DEF Fresh
<1>15. Sufficient(t, l, a, k, f, e + 1)'
  <2>1. OutboxSuffices(t, l, e + 1)'
    BY <1>14 DEF OutboxSuffices, OutboxOk, Fresh
  <2>2. SendingOk(t[0], e + 1)'
    BY <1>8, <1>14 DEF SendingOk, Fresh
  <2>3. AirSuffices(a, k, e + 1)'
    BY <1>14 DEF AirSuffices, AirOk, Fresh
  <2>4. CallbackSuffices(f, e + 1)'
    <3> SUFFICES ASSUME cb # Idle
                 PROVE  /\ HasRetriesLeft(lastMsg'[cb.peer]) /\ cb.peer \in LookedUp'
                        /\ f + Need(lastMsg'[cb.peer]) <= Ceiling(e + 1)
      BY DEF CallbackSuffices, HasRetriesLeft, Need, Left
    <3>1. cb.peer \in LookedUp /\ cb.peer \in Ids
      BY BusyType DEF Numbering, Sufficient, CallbackSuffices
    <3>2. lastMsg'[cb.peer] \in Msg
      BY <3>1 DEF TypeOK
    <3>3. Need(lastMsg'[cb.peer]) \in Nat /\ Need(lastMsg'[cb.peer]) <= MaxNeed
      BY <3>2, Needs
    <3>4. f <= Ceiling(e)
      BY <1>0, <1>3, <1>7
    <3>5. f + Need(lastMsg'[cb.peer]) <= Ceiling(e + 1)
      BY <1>3, <1>4, <3>3, <3>4
    <3> QED BY <3>1, <3>5 DEF LookedUp
  <2> QED BY <2>1, <2>2, <2>3, <2>4 DEF Sufficient
<1>16. Numbering(t, l, a, k, x, f, e + 1)'
  BY <1>11, <1>12, <1>13, <1>15 DEF Numbering
<1>17. t \in [Nat -> Nat] /\ l \in Nat /\ e + 1 \in Nat
  BY <1>5, <1>8
<1> QED BY <1>16, <1>17, Renumbered, Zenon

\* What is put into the outbox by the handlers that push, and how they are counted.
LEMMA PushesCounted ==
  ASSUME TypeOK, TypeOK', PushOutbox \/ ReceiveHandshakeRequest \/ HandleHandshakes
  PROVE  Cardinality(asking) = 0 /\ 1 + Cardinality(asking') + Pushes <= Pushes'
<1>1. asking = {}
  BY DEF PushOutbox, ReceiveHandshakeRequest, HandleHandshakes, Ready
<1>2. Cardinality(asking) = 0
  BY <1>1, FS_EmptySet
<1>3. /\ Cardinality(asking') \in Nat /\ Cardinality(asking') <= Cardinality(Ids)
      /\ Cardinality(Ids) \in Nat
  BY IdsFinite DEF TypeOK
<1>4. pushed \in Nat /\ handshakes \in Nat /\ scans \in Nat
  BY DEF TypeOK
<1> DEFINE w == Cardinality(Ids) + 1
<1>5. w \in Nat /\ scans * w \in Nat /\ (scans + 1) * w = scans * w + w
  BY <1>3, <1>4
<1>6. CASE PushOutbox
  <2>1. pushed' = pushed + 1 /\ UNCHANGED <<handshakes, scans, asking>>
    BY <1>6 DEF PushOutbox, askVars
  <2>2. Pushes' = Pushes + 1 /\ Pushes \in Nat
    <3> HIDE DEF w
    <3> QED BY <1>4, <1>5, <2>1 DEF Pushes, w
  <2> QED BY <1>2, <2>1, <2>2
<1>7. CASE ReceiveHandshakeRequest
  <2>1. handshakes' = handshakes + 1 /\ UNCHANGED <<pushed, scans, asking>>
    BY <1>7 DEF ReceiveHandshakeRequest, askVars
  <2>2. Pushes' = Pushes + 1 /\ Pushes \in Nat
    BY <1>4, <1>5, <2>1 DEF Pushes
  <2> QED BY <1>2, <2>1, <2>2
<1>8. CASE HandleHandshakes
  <2>1. scans' = scans + 1 /\ UNCHANGED <<pushed, handshakes>>
    BY <1>8 DEF HandleHandshakes
  <2>2. Pushes' = Pushes + w /\ Pushes \in Nat
    BY <1>4, <1>5, <2>1 DEF Pushes
  <2> QED BY <1>2, <1>3, <2>2
<1> QED BY <1>6, <1>7, <1>8

\* Each of the handlers that push, and each request that sendAllHandshakes queues, is such a push.
LEMMA PushActions ==
  ASSUME TypeOK, TypeOK', NEW s \in [Nat -> Nat], NEW a \in [Nat -> Nat], NEW n \in Nat, NEW k \in Nat,
         NEW x \in Nat, NEW f \in Nat, NEW e \in Nat, Numbering(s, n, a, k, x, f, e),
         App \/ \E p \in Ids : SendHandshakeRequest(p)
  PROVE  BoundInv'
<1>1. cb # Idle => HasRetriesLeft(lastMsg[cb.peer])
  BY DEF Numbering, Sufficient, CallbackSuffices
<1>2. HasRetriesLeft(Blank)
  BY DEF HasRetriesLeft, Blank
<1>3. e + Cardinality(asking) <= Pushes /\ Cardinality(asking) \in Nat /\ Cardinality(asking') \in Nat
  BY IdsFinite DEF Numbering, Counted, TypeOK
<1>4. Pushes \in Nat /\ Pushes' \in Nat
  <2>1. Cardinality(Ids) + 1 \in Nat
    BY IdsFinite
  <2>2. pushed' \in Nat /\ handshakes' \in Nat /\ scans' \in Nat
    BY DEF TypeOK
  <2>3. Pushes' \in Nat
    BY <2>1, <2>2 DEF Pushes
  <2> QED BY <2>3, PushesType
<1>5. ASSUME PushOutbox \/ ReceiveHandshakeRequest \/ HandleHandshakes
      PROVE  e + 1 + Cardinality(asking') <= Pushes'
  BY <1>3, <1>4, <1>5, PushesCounted
<1>6. CASE PushOutbox
  <2>1. AddsOne
    <3>1. PICK to \in RecipientSets, max \in {0, DEFAULT_RETRIES} :
            outbox' = Append(outbox, [no |-> pushed', to |-> to, sendCnt |-> 0, maxRetries |-> max])
      BY <1>6 DEF PushOutbox
    <3>2. pushed' \in MsgNos /\ to \subseteq Ids
      BY <3>1, Constants, IdTypes DEF TypeOK, MsgNos
    <3>3. [no |-> pushed', to |-> to, sendCnt |-> 0, maxRetries |-> max] \in Msg
      BY <3>1, <3>2, Constants DEF Msg
    <3> QED BY <3>1, <3>3 DEF AddsOne
  <2>2. UNCHANGED <<sending, air, cb, losses, tx, macToID, lastMsg>>
    BY <1>6 DEF PushOutbox, tableVars
  <2>3. macToID \subseteq macToID' /\ (cb # Idle => HasRetriesLeft(lastMsg'[cb.peer]))
    BY <1>1, <2>2
  <2> QED BY <1>5, <1>6, <2>1, <2>2, <2>3, PushStep
<1>7. CASE ReceiveHandshakeRequest
  <2>1. PICK p \in Peers : /\ lastMsg' = [lastMsg EXCEPT ![p] = Blank]
                           /\ outbox' = Append(outbox, Handshake(p))
    BY <1>7 DEF ReceiveHandshakeRequest
  <2>2. AddsOne
    BY <2>1, HandshakeType, IdTypes DEF AddsOne
  <2>3. UNCHANGED <<sending, air, cb, losses, tx, macToID>>
    BY <1>7 DEF ReceiveHandshakeRequest, histVars
  <2>4. cb # Idle => HasRetriesLeft(lastMsg'[cb.peer])
    BY <1>1, <1>2, <2>1, BusyType DEF TypeOK
  <2> QED BY <1>5, <1>7, <2>2, <2>3, <2>4, PushStep
<1>8. CASE HandleHandshakes
  <2>1. PICK new \in SUBSET Peers :
          /\ lastMsg' = [p \in Ids |-> IF p \in new THEN Blank ELSE lastMsg[p]]
          /\ macToID' = macToID \cup new
    BY <1>8 DEF HandleHandshakes
  <2>2. AddsOne
    BY <1>8 DEF HandleHandshakes, AddsOne
  <2>3. UNCHANGED <<sending, air, cb, losses, tx>>
    BY <1>8 DEF HandleHandshakes, histVars
  <2>4. cb # Idle => HasRetriesLeft(lastMsg'[cb.peer])
    BY <1>1, <1>2, <2>1, BusyType
  <2> QED BY <1>5, <1>8, <2>1, <2>2, <2>3, <2>4, PushStep
<1>9. ASSUME NEW p \in Ids, SendHandshakeRequest(p)
      PROVE  BoundInv'
  <2>1. AddsOne
    BY <1>9, HandshakeType DEF SendHandshakeRequest, AddsOne
  <2>2. UNCHANGED <<sending, air, cb, losses, tx, macToID, lastMsg>>
    BY <1>9 DEF SendHandshakeRequest, tableVars, boundVars, histVars
  <2>3. UNCHANGED Pushes
    BY <1>9 DEF SendHandshakeRequest, boundVars, Pushes
  <2>4. Cardinality(asking') = Cardinality(asking) - 1
    <3>1. IsFiniteSet(asking)
      BY IdsFinite DEF TypeOK
    <3> QED BY <1>9, <3>1, FS_RemoveElement DEF SendHandshakeRequest
  <2>5. e + 1 + Cardinality(asking') <= Pushes'
    BY <1>3, <1>4, <2>3, <2>4
  <2>6. macToID \subseteq macToID' /\ (cb # Idle => HasRetriesLeft(lastMsg'[cb.peer]))
    BY <1>1, <2>2
  <2> QED BY <2>1, <2>2, <2>5, <2>6, PushStep
<1> QED BY <1>6, <1>7, <1>8, <1>9 DEF App

\* The elements of a sequence that its first one was taken from.
LEMMA Taken ==
  ASSUME NEW S, NEW q \in Seq(S), q # <<>>, NEW n \in Nat, n = Len(q)
  PROVE  /\ n - 1 \in Nat /\ Len(Tail(q)) = n - 1 /\ 1 \in 1..n
         /\ Head(q) = q[1] /\ q[1] \in S
         /\ \A i \in 1..(n - 1) : Tail(q)[i] = q[i + 1]
<1>1. n # 0
  BY EmptySeq
<1>2. Len(Tail(q)) = n - 1 /\ Head(q) = q[1] /\ \A i \in 1..(n - 1) : Tail(q)[i] = q[i + 1]
  BY HeadTailProperties
<1>3. q[1] \in S
  BY <1>1, ElementOfSeq
<1> QED BY <1>1, <1>2, <1>3

\* handleOutboxMsg hands the numbers of the first message on to the loop of sendMsgESPNow.
LEMMA HandleOutboxMsgStep ==
  ASSUME TypeOK, TypeOK', NEW s \in [Nat -> Nat], NEW a \in [Nat -> Nat], NEW n \in Nat, NEW k \in Nat,
         NEW x \in Nat, NEW f \in Nat, NEW e \in Nat, Numbering(s, n, a, k, x, f, e),
         HandleOutboxMsg
  PROVE  BoundInv'
<1>1. /\ Lengths(n, k) /\ OutboxNumbered(s, n) /\ SendingNumbered(s, x)
      /\ AirOrdered(a, k) /\ AirNumbered(a, k, x, f)
  BY DEF Numbering, Numbered
<1>2. /\ UNCHANGED <<tableVars, askVars, lastMsg, air, cb, boundVars, histVars>>
      /\ sending = Idle
  BY DEF HandleOutboxMsg, Ready
<1> DEFINE t == [i \in Nat |-> s[i + 1]]
           m == outbox[1]
<1>3. /\ n - 1 \in Nat /\ 1 \in 1..n /\ m \in Msg /\ Len(outbox') = n - 1
      /\ \A i \in 1..(n - 1) : outbox'[i] = outbox[i + 1]
      /\ sending' = [busy |-> TRUE, msg |-> m, rest |-> RecipientIDs(m)]
  <2>1. outbox \in Seq(Msg) /\ n = Len(outbox)
    BY <1>1 DEF TypeOK, Lengths
  <2> QED BY <2>1, Taken DEF HandleOutboxMsg
<1>4. t \in [Nat -> Nat] /\ \A i \in Nat : t[i] = s[i + 1]
  OBVIOUS
<1> HIDE DEF t, m
<1>5. /\ x <= s[0] /\ s[0] <= Ceiling(e) /\ f <= x
      /\ \A i \in 0..n : s[i] <= Ceiling(e)
      /\ \A i \in 1..k : f < a[i] /\ a[i] <= s[0]
  BY NumberTypes
<1>6. Ceiling(e) \in Nat /\ MaxNeed \in Nat /\ Copies(e) \in Nat
  BY Bounds
<1>7. Lengths(n - 1, k)'
  <2>1. UNCHANGED air
    BY <1>2
  <2> QED BY <1>1, <1>3, <2>1 DEF Lengths
<1>8. OutboxNumbered(t, n - 1)'
  <2> SUFFICES ASSUME NEW i \in 1..(n - 1) PROVE t[i - 1] + Width(outbox'[i]) <= t[i]
    BY DEF OutboxNumbered, Width
  <2>1. outbox'[i] = outbox[i + 1] /\ i + 1 \in 1..n
    BY <1>3
  <2>2. s[(i + 1) - 1] + Width(outbox[i + 1]) <= s[i + 1]
    BY <1>1, <2>1 DEF OutboxNumbered
  <2>3. t[i] = s[i + 1] /\ t[i - 1] = s[(i + 1) - 1]
    BY <1>4
  <2> QED BY <2>1, <2>2, <2>3
<1>9. SendingNumbered(t, x)'
  <2>1. sending' # Idle /\ sending'.rest = RecipientIDs(m)
    BY <1>3 DEF Idle
  <2>2. /\ Cardinality(RecipientIDs(m)) \in Nat /\ Cardinality(RecipientIDs(m)) <= Width(m)
        /\ Width(m) \in Nat
    BY <1>3, WidthType, IdsFinite
  <2>3. s[0] + Width(m) <= s[1]
    <3>1. s[1 - 1] + Width(outbox[1]) <= s[1]
      BY <1>1, <1>3 DEF OutboxNumbered
    <3> QED BY <3>1 DEF m
  <2>4. t[0] = s[1]
    BY <1>4
  <2>5. x + Cardinality(RecipientIDs(m)) <= t[0]
    BY <1>5, <2>2, <2>3, <2>4
  <2> QED BY <2>1, <2>5 DEF SendingNumbered
<1>10. Numbered(t, n - 1, a, k, x, f)'
  BY <1>1, <1>7, <1>8, <1>9 DEF Numbered, AirOrdered, AirNumbered
<1>11. Counted(t, n - 1, x, f, e)'
  <2>1. t[n - 1] = s[n]
    <3>1. (n - 1) + 1 = n
      OBVIOUS
    <3> QED BY <1>3, <1>4, <3>1
  <2>2. UNCHANGED <<losses, tx, cb, asking, Pushes>>
    BY <1>2 DEF boundVars, histVars, askVars, Pushes
  <2>3. Counted(s, n, x, f, e)
    BY DEF Numbering
  <2> QED BY <2>1, <2>2, <2>3 DEF Counted
<1>12. \A i \in 0..(n - 1) : t[i] = s[i + 1] /\ i + 1 \in 0..n
  BY <1>4
<1>13. BelowCeiling(t, n - 1, e)'
  BY <1>5, <1>12 DEF BelowCeiling
<1>14. Sufficient(t, n - 1, a, k, f, e)'
  <2>1. OutboxSuffices(s, n, e) /\ AirSuffices(a, k, e) /\ CallbackSuffices(f, e)
    BY DEF Numbering, Sufficient
  <2>2. UNCHANGED <<macToID, lastMsg, air, cb>>
    BY <1>2 DEF tableVars
  <2>3. UNCHANGED LookedUp
    BY <2>2 DEF LookedUp
  <2>4. OutboxSuffices(t, n - 1, e)'
    <3> SUFFICES ASSUME NEW i \in 1..(n - 1) PROVE OutboxOk(outbox[i], t[i], e)'
      BY DEF OutboxSuffices
    <3>1. outbox'[i] = outbox[i + 1] /\ i + 1 \in 1..n
      BY <1>3
    <3>2. OutboxOk(outbox[i + 1], s[i + 1], e)
      BY <2>1, <3>1 DEF OutboxSuffices
    <3>3. t[i] = s[i + 1]
      BY <1>4
    <3> QED BY <2>3, <3>1, <3>2, <3>3 DEF OutboxOk, Need, Left, HasRetriesLeft
  <2>5. SendingOk(t[0], e)'
    <3>1. OutboxOk(m, s[1], e)
      BY <1>3, <2>1 DEF OutboxSuffices, m
    <3>2. t[0] = s[1]
      BY <1>4
    <3>3. sending'.msg = m /\ sending'.rest = RecipientIDs(m)
      BY <1>3
    <3> QED BY <2>3, <3>1, <3>2, <3>3 DEF OutboxOk, SendingOk, RecipientIDs
  <2>6. AirSuffices(a, k, e)'
    BY <2>1, <2>2, <2>3 DEF AirSuffices, AirOk
  <2>7. CallbackSuffices(f, e)'
    BY <2>1, <2>2, <2>3 DEF CallbackSuffices
  <2> QED BY <2>4, <2>5, <2>6, <2>7 DEF Sufficient
<1>15. Numbering(t, n - 1, a, k, x, f, e)'
  BY <1>10, <1>11, <1>13, <1>14 DEF Numbering
<1> QED BY <1>3, <1>4, <1>15, Renumbered, Zenon

\* The last message that sendMsgESPNow leaves behind needs no more than the message did.
LEMMA LastMsgSuffices ==
  ASSUME TypeOK, TypeOK', NEW p \in Ids, SendTo(p), NEW c \in Nat, NEW e \in Nat, SendingOk(c, e)
  PROVE  /\ \A d \in Nat : d <= c => AirOk(p, d, e)'
         /\ \A q \in Ids, d \in Nat : d <= c /\ AirOk(q, d, e) => AirOk(q, d, e)'
         /\ SendingOk(c, e)'
         /\ \A q \in Ids : q # p => lastMsg'[q] = lastMsg[q]
<1>1. sending.msg \in Msg /\ sending.rest \subseteq Ids /\ p \in sending.rest
  BY BusyType DEF SendTo, Current
<1>2. PICK m \in Msg : /\ lastMsg' = [lastMsg EXCEPT ![p] = m]
                       /\ Need(m) \in Nat /\ Need(m) <= Need(sending.msg)
  <2>1. [sending.msg EXCEPT !.sendCnt = @ + 1] \in Msg
    BY <1>1 DEF Msg
  <2>2. Need(sending.msg) \in Nat /\ Need([sending.msg EXCEPT !.sendCnt = @ + 1]) \in Nat
    BY <1>1, Needs
  <2>3. Need([sending.msg EXCEPT !.sendCnt = @ + 1]) <= Need(sending.msg)
    BY <1>1, Needs
  <2>4. \/ lastMsg' = [lastMsg EXCEPT ![p] = [sending.msg EXCEPT !.sendCnt = @ + 1]]
        \/ lastMsg' = [lastMsg EXCEPT ![p] = sending.msg]
    BY DEF SendTo, Accept, Refuse
  <2> QED BY <1>1, <2>1, <2>2, <2>3, <2>4
<1>3. lastMsg'[p] = m /\ \A q \in Ids : q # p => lastMsg'[q] = lastMsg[q]
  BY <1>2 DEF TypeOK
<1>4. UNCHANGED LookedUp
  BY DEF SendTo, tableVars, LookedUp
<1>5. Ceiling(e) \in Nat /\ MaxNeed \in Nat /\ Need(sending.msg) \in Nat
  BY <1>1, Bounds, Needs
<1>6. ASSUME NEW d \in Nat, d <= c
      PROVE  AirOk(p, d, e)'
  <2>1. CASE Fresh(c, e)
    <3>1. Fresh(d, e)
      BY <1>5, <1>6, <2>1 DEF Fresh
    <3> QED BY <3>1 DEF AirOk, Fresh
  <2>2. CASE sending.rest \subseteq LookedUp /\ c + Need(sending.msg) <= Ceiling(e)
    <3>1. p \in LookedUp'
      BY <1>1, <1>4, <2>2
    <3>2. d + Need(m) <= Ceiling(e)
      BY <1>2, <1>5, <1>6, <2>2
    <3>3. d + Need(lastMsg'[p]) <= Ceiling(e)
      BY <1>3, <3>2
    <3> QED BY <3>1, <3>3 DEF AirOk, Need, Left, HasRetriesLeft
  <2> QED BY <2>1, <2>2 DEF SendingOk
<1>7. ASSUME NEW q \in Ids, NEW d \in Nat, d <= c, AirOk(q, d, e)
      PROVE  AirOk(q, d, e)'
  <2>1. CASE q = p
    BY <1>6, <1>7, <2>1
  <2>2. CASE q # p
    <3>1. lastMsg'[q] = lastMsg[q]
      BY <1>3, <2>2
    <3> QED BY <1>4, <1>7, <3>1 DEF AirOk, Fresh, Need, Left, HasRetriesLeft
  <2> QED BY <2>1, <2>2
<1>8. SendingOk(c, e)'
  <2>1. sending'.msg = sending.msg /\ sending'.rest \subseteq sending.rest
    BY BusyType DEF SendTo
  <2> QED BY <1>4, <2>1 DEF SendingOk, Fresh, Need, Left, HasRetriesLeft
<1> QED BY <1>3, <1>6, <1>7, <1>8

\* What sendMsgESPNow leaves as it is, whether or not the driver takes the frame.
LEMMA SendToKeeps ==
  ASSUME TypeOK, TypeOK', NEW s \in [Nat -> Nat], NEW a \in [Nat -> Nat], NEW n \in Nat, NEW k \in Nat,
         NEW x \in Nat, NEW f \in Nat, NEW e \in Nat, Numbering(s, n, a, k, x, f, e),
         NEW p \in Ids, SendTo(p)
  PROVE  /\ sending # Idle /\ sending' # Idle /\ x + 1 <= s[0]
         /\ x + 1 + Cardinality(sending'.rest) <= s[0] /\ Cardinality(sending'.rest) \in Nat
         /\ n = Len(outbox') /\ OutboxNumbered(s, n)' /\ BelowCeiling(s, n, e)'
         /\ OutboxSuffices(s, n, e)'
         /\ SendingOk(s[0], e) /\ SendingOk(s[0], e)' /\ CallbackSuffices(f, e)'
<1>1. /\ sending # Idle /\ sending.rest \subseteq Ids /\ p \in sending.rest
      /\ sending \in [busy : {TRUE}, msg : Msg, rest : SUBSET Ids]
  BY BusyType DEF SendTo, Current
<1>2. sending'.rest = sending.rest \ {p} /\ sending' # Idle
  BY <1>1 DEF SendTo, Idle
<1>3. /\ Cardinality(sending'.rest) = Cardinality(sending.rest) - 1
      /\ Cardinality(sending.rest) \in Nat /\ Cardinality(sending'.rest) \in Nat
  <2>1. IsFiniteSet(sending.rest) /\ IsFiniteSet(sending'.rest)
    BY <1>1, <1>2, IdsFinite
  <2> QED BY <1>1, <1>2, <2>1, FS_RemoveElement, FS_CardinalityType
<1>4. x + Cardinality(sending.rest) <= s[0]
  BY <1>1 DEF Numbering, Numbered, SendingNumbered
<1>5. x + 1 <= s[0] /\ x + 1 + Cardinality(sending'.rest) <= s[0]
  <2>1. s[0] \in Nat
    OBVIOUS
  <2> QED BY <1>3, <1>4, <2>1
<1>6. /\ UNCHANGED <<outbox, macToID, cb>>
      /\ cb # [busy |-> TRUE, peer |-> p]
  BY DEF SendTo, tableVars
<1>7. UNCHANGED LookedUp
  BY <1>6 DEF LookedUp
<1>8. n = Len(outbox') /\ OutboxNumbered(s, n)' /\ BelowCeiling(s, n, e)'
  BY <1>6 DEF Numbering, Numbered, Lengths, OutboxNumbered, BelowCeiling
<1>9. OutboxSuffices(s, n, e) /\ SendingOk(s[0], e) /\ CallbackSuffices(f, e)
  BY <1>1 DEF Numbering, Sufficient
<1>10. OutboxSuffices(s, n, e)'
  BY <1>6, <1>7, <1>9 DEF OutboxSuffices, OutboxOk
<1>11. s[0] \in Nat
  OBVIOUS
<1>12. SendingOk(s[0], e)' /\ \A q \in Ids : q # p => lastMsg'[q] = lastMsg[q]
  BY <1>9, <1>11, LastMsgSuffices
<1>13. CallbackSuffices(f, e)'
  <2>1. CASE cb = Idle
    BY <1>6, <2>1 DEF CallbackSuffices
  <2>2. CASE cb # Idle
    <3>1. cb \in [busy : {TRUE}, peer : Ids]
      BY <2>2 DEF TypeOK
    <3>2. cb.peer \in Ids /\ cb.peer # p
      BY <1>6, <3>1
    <3>3. lastMsg'[cb.peer] = lastMsg[cb.peer] /\ cb' = cb
      BY <1>6, <1>12, <3>2
    <3> QED BY <1>7, <1>9, <2>2, <3>3 DEF CallbackSuffices, Need, Left, HasRetriesLeft
  <2> QED BY <2>1, <2>2
<1> QED BY <1>1, <1>2, <1>3, <1>5, <1>8, <1>9, <1>10, <1>12, <1>13

\* A frame that the driver takes carries the next number.
LEMMA SendToStep ==
  ASSUME TypeOK, TypeOK', NEW s \in [Nat -> Nat], NEW a \in [Nat -> Nat], NEW n \in Nat, NEW k \in Nat,
         NEW x \in Nat, NEW f \in Nat, NEW e \in Nat, Numbering(s, n, a, k, x, f, e),
         NEW p \in Ids, SendTo(p)
  PROVE  BoundInv'
<1>1. /\ sending # Idle /\ sending' # Idle /\ x + 1 <= s[0]
      /\ x + 1 + Cardinality(sending'.rest) <= s[0] /\ Cardinality(sending'.rest) \in Nat
      /\ n = Len(outbox') /\ OutboxNumbered(s, n)' /\ BelowCeiling(s, n, e)'
      /\ OutboxSuffices(s, n, e)'
      /\ SendingOk(s[0], e) /\ SendingOk(s[0], e)' /\ CallbackSuffices(f, e)'
  BY SendToKeeps
<1>2. /\ sending # Idle /\ sending' # Idle /\ x + 1 <= s[0]
      /\ x + 1 + Cardinality(sending'.rest) <= s[0] /\ Cardinality(sending'.rest) \in Nat
  BY <1>1
<1>3. k = Len(air) /\ AirOrdered(a, k) /\ AirNumbered(a, k, x, f)
  BY DEF Numbering, Numbered, Lengths
<1>4. Counted(s, n, x, f, e) /\ AirSuffices(a, k, e)
  BY DEF Numbering, Sufficient
<1>5. UNCHANGED <<losses, cb, asking, Pushes>>
  BY DEF SendTo, boundVars, askVars, Pushes
<1>6. s[0] \in Nat
  OBVIOUS
<1>7. /\ f <= x /\ \A i \in 1..k : f < a[i] /\ a[i] <= x /\ a[i] \in Nat
  BY <1>3 DEF AirNumbered
<1>8. \A i \in 1..k : air[i].to \in Ids
  <2>1. \A i \in 1..k : air[i] \in Frame
    BY <1>3, ElementOfSeq DEF TypeOK
  <2> QED BY <2>1 DEF Frame
<1>9. \A i \in 1..k : a[i] \in Nat /\ a[i] <= s[0] /\ AirOk(air[i].to, a[i], e)
  <2>1. \A i \in 1..k : a[i] \in Nat /\ a[i] <= s[0]
    BY <1>2, <1>6, <1>7
  <2> QED BY <1>4, <2>1 DEF AirSuffices
<1>10. /\ \A d \in Nat : d <= s[0] => AirOk(p, d, e)'
       /\ \A q \in Ids, d \in Nat : d <= s[0] /\ AirOk(q, d, e) => AirOk(q, d, e)'
  BY <1>1, <1>6, LastMsgSuffices
<1>11. CASE Refuse(sending.msg, p)
  <2>1. UNCHANGED <<air, tx>>
    BY <1>11 DEF Refuse
  <2>2. Numbered(s, n, a, k, x, f)'
    <3>1. Lengths(n, k)'
      BY <1>1, <1>3, <2>1 DEF Lengths
    <3>2. SendingNumbered(s, x)'
      BY <1>2, <1>6 DEF SendingNumbered
    <3> QED BY <1>1, <1>3, <3>1, <3>2 DEF Numbered, AirOrdered, AirNumbered
  <2>3. Counted(s, n, x, f, e)'
    BY <1>4, <1>5, <2>1 DEF Counted
  <2>4. AirSuffices(a, k, e)'
    <3>1. \A i \in 1..k : AirOk(air[i].to, a[i], e)'
      BY <1>8, <1>9, <1>10, <2>1
    <3> QED BY <3>1 DEF AirSuffices
  <2>5. Numbering(s, n, a, k, x, f, e)'
    BY <1>1, <2>2, <2>3, <2>4 DEF Numbering, Sufficient
  <2> QED BY <2>5, Renumbered, Zenon
<1>12. CASE Accept(sending.msg, p)
  <2> DEFINE b == [i \in Nat |-> IF i <= k THEN a[i] ELSE x + 1]
             m == [no |-> sending.msg.no, to |-> p]
  <2>1. air' = Append(air, m) /\ tx' = [tx EXCEPT ![sending.msg.no][p] = @ + 1]
    BY <1>12 DEF Accept
  <2>2. sending.msg.no \in MsgNos /\ m \in Frame
    <3>1. sending.msg \in Msg
      BY <1>2, BusyType
    <3> QED BY <3>1 DEF Msg, Frame
  <2>3. /\ Len(air') = k + 1 /\ \A i \in 1..k : air'[i].to = air[i].to
        /\ air'[k + 1].to = p
    <3>1. air \in Seq(Frame)
      BY DEF TypeOK
    <3>2. Len(air') = k + 1 /\ (\A i \in 1..k : air'[i] = air[i]) /\ air'[k + 1] = m
      BY <1>3, <2>1, <2>2, <3>1, AppendProperties
    <3>3. m.to = p
      OBVIOUS
    <3> HIDE DEF m
    <3> QED BY <3>2, <3>3
  <2>4. b \in [Nat -> Nat] /\ (\A i \in 1..k : b[i] = a[i]) /\ b[k + 1] = x + 1
    BY <1>7
  <2> HIDE DEF b, m
  <2>5. AirOrdered(b, k + 1)
    <3> SUFFICES ASSUME NEW i \in 1..(k + 1), NEW j \in 1..(k + 1), i < j PROVE b[i] < b[j]
      BY DEF AirOrdered
    <3>1. CASE j \in 1..k
      <4>1. i \in 1..k
        BY <3>1
      <4>2. a[i] < a[j]
        BY <1>3, <3>1, <4>1 DEF AirOrdered
      <4> QED BY <2>4, <3>1, <4>1, <4>2
    <3>2. CASE j = k + 1
      <4>1. i \in 1..k
        BY <3>2
      <4>2. a[i] <= x /\ a[i] \in Nat
        BY <1>7, <4>1
      <4> QED BY <2>4, <3>2, <4>1, <4>2
    <3> QED BY <3>1, <3>2
  <2>6. AirNumbered(b, k + 1, x + 1, f)
    <3>1. \A i \in 1..k : f < b[i] /\ b[i] <= x + 1
      BY <1>7, <2>4
    <3>2. f < b[k + 1] /\ b[k + 1] <= x + 1
      BY <1>7, <2>4
    <3>3. \A i \in 1..(k + 1) : i \in 1..k \/ i = k + 1
      OBVIOUS
    <3>4. f <= x + 1
      BY <1>7
    <3> QED BY <3>1, <3>2, <3>3, <3>4 DEF AirNumbered
  <2>7. Numbered(s, n, b, k + 1, x + 1, f)'
    <3>1. Lengths(n, k + 1)'
      BY <1>1, <2>3 DEF Lengths
    <3>2. SendingNumbered(s, x + 1)'
      BY <1>2, <1>6 DEF SendingNumbered
    <3> QED BY <1>1, <2>5, <2>6, <3>1, <3>2 DEF Numbered, AirOrdered, AirNumbered
  <2>8. Counted(s, n, x + 1, f, e)'
    <3>1. \A l \in MsgNos, q \in Ids : tx[l][q] \in Nat /\ tx[l][q] <= x
      BY <1>4 DEF Counted, TypeOK
    <3>2. tx[sending.msg.no] \in [Ids -> Nat] /\ tx \in [MsgNos -> [Ids -> Nat]]
      BY <2>2 DEF TypeOK
    <3>3. \A l \in MsgNos, q \in Ids : tx'[l][q] = tx[l][q] \/ tx'[l][q] = tx[l][q] + 1
      BY <2>1, <2>2, <3>2
    <3>4. \A l \in MsgNos, q \in Ids : tx'[l][q] <= x + 1
      BY <3>1, <3>3
    <3> QED BY <1>4, <1>5, <3>4 DEF Counted
  <2>9. AirSuffices(b, k + 1, e)'
    <3>1. \A i \in 1..k : AirOk(air[i].to, a[i], e)'
      <4> SUFFICES ASSUME NEW i \in 1..k PROVE AirOk(air[i].to, a[i], e)'
        OBVIOUS
      <4>1. AirOk(air[i].to, a[i], e) /\ a[i] \in Nat /\ a[i] <= s[0] /\ air[i].to \in Ids
        BY <1>8, <1>9
      <4> DEFINE q == air[i].to
      <4>2. air'[i].to = q
        BY <2>3
      <4> HIDE DEF q
      <4> QED BY <4>1, <4>2, <1>10 DEF AirOk, q
    <3>2. AirOk(p, x + 1, e)'
      BY <1>2, <1>10
    <3>3. \A i \in 1..(k + 1) : i \in 1..k \/ i = k + 1
      OBVIOUS
    <3> SUFFICES ASSUME NEW i \in 1..(k + 1) PROVE AirOk(air[i].to, b[i], e)'
      BY DEF AirSuffices
    <3>4. CASE i \in 1..k
      BY <2>4, <3>1, <3>4
    <3>5. CASE i = k + 1
      BY <2>3, <2>4, <3>2, <3>5
    <3> QED BY <3>3, <3>4, <3>5
  <2>10. Numbering(s, n, b, k + 1, x + 1, f, e)'
    BY <1>1, <2>7, <2>8, <2>9 DEF Numbering, Sufficient
  <2>11. k + 1 \in Nat /\ x + 1 \in Nat
    OBVIOUS
  <2> QED BY <2>4, <2>10, <2>11, Renumbered, Zenon
<1> QED BY <1>11, <1>12 DEF SendTo

\* The report on a frame uses up its number; a failure that asks for a retry is charged to what
\* the number leaves below the ceiling.
LEMMA ReportStep ==
  ASSUME TypeOK, TypeOK', NEW s \in [Nat -> Nat], NEW a \in [Nat -> Nat], NEW n \in Nat, NEW k \in Nat,
         NEW x \in Nat, NEW f \in Nat, NEW e \in Nat, Numbering(s, n, a, k, x, f, e),
         Delivered \/ NotDelivered
  PROVE  BoundInv'
<1>1. /\ n = Len(outbox) /\ OutboxNumbered(s, n) /\ SendingNumbered(s, x)
      /\ AirOrdered(a, k) /\ AirNumbered(a, k, x, f)
  BY DEF Numbering, Numbered, Lengths
<1>2. k = Len(air) /\ Counted(s, n, x, f, e) /\ BelowCeiling(s, n, e)
  BY DEF Numbering, Numbered, Lengths
<1>3. /\ UNCHANGED <<macToID, lastMsg, outbox, sending, asking, pushed, handshakes, scans, tx>>
      /\ air # <<>> /\ air' = Tail(air) /\ cb = Idle
  BY DEF Delivered, NotDelivered, tableVars, askVars, boundVars, histVars
<1>4. UNCHANGED <<LookedUp, Pushes>>
  BY <1>3 DEF LookedUp, Pushes
<1>5. /\ k - 1 \in Nat /\ Len(air') = k - 1 /\ 1 \in 1..k /\ Head(air) = air[1] /\ air[1] \in Frame
      /\ \A i \in 1..(k - 1) : air'[i] = air[i + 1]
  <2>1. air \in Seq(Frame)
    BY DEF TypeOK
  <2> QED BY <1>2, <1>3, <2>1, Taken
<1> DEFINE b == [i \in Nat |-> a[i + 1]]
           g == a[1]
<1>6. b \in [Nat -> Nat] /\ (\A i \in Nat : b[i] = a[i + 1]) /\ g \in Nat /\ g = a[1]
  OBVIOUS
<1> HIDE DEF b, g
<1>7. f < g /\ g <= x /\ \A i \in 1..(k - 1) : g < b[i] /\ b[i] <= x
  <2>1. f < g /\ g <= x
    BY <1>1, <1>5, <1>6 DEF AirNumbered
  <2>2. ASSUME NEW i \in 1..(k - 1)
        PROVE  g < b[i] /\ b[i] <= x
    <3>1. i + 1 \in 1..k /\ 1 \in 1..k /\ 1 < i + 1 /\ b[i] = a[i + 1]
      BY <1>6
    <3>2. a[1] < a[i + 1] /\ a[i + 1] <= x
      BY <1>1, <3>1 DEF AirOrdered, AirNumbered
    <3> QED BY <1>6, <3>1, <3>2
  <2> QED BY <2>1, <2>2
<1>8. Numbered(s, n, b, k - 1, x, g)'
  <2>1. Lengths(n, k - 1)'
    BY <1>1, <1>3, <1>5 DEF Lengths
  <2>2. AirOrdered(b, k - 1)
    <3> SUFFICES ASSUME NEW i \in 1..(k - 1), NEW j \in 1..(k - 1), i < j PROVE b[i] < b[j]
      BY DEF AirOrdered
    <3>1. i + 1 \in 1..k /\ j + 1 \in 1..k /\ i + 1 < j + 1
      OBVIOUS
    <3>2. a[i + 1] < a[j + 1]
      BY <1>1, <3>1 DEF AirOrdered
    <3>3. b[i] = a[i + 1] /\ b[j] = a[j + 1]
      BY <1>6
    <3> QED BY <3>2, <3>3
  <2>3. AirNumbered(b, k - 1, x, g)
    BY <1>7 DEF AirNumbered
  <2>4. OutboxNumbered(s, n)' /\ SendingNumbered(s, x)'
    BY <1>1, <1>3 DEF OutboxNumbered, SendingNumbered
  <2> QED BY <2>1, <2>2, <2>3, <2>4 DEF Numbered, AirOrdered, AirNumbered
<1>9. Counted(s, n, x, g, e)'
  <2>1. /\ losses <= f /\ s[n] <= f + Copies(e) /\ Copies(e) \in Nat
        /\ \A m \in MsgNos, p \in Ids : tx'[m][p] <= x
        /\ e + Cardinality(asking') <= Pushes'
    <3>1. s[n] + 0 <= f + Copies(e)
      BY <1>2, <1>3 DEF Counted
    <3>2. s[n] <= f + Copies(e) /\ Copies(e) \in Nat
      BY <3>1, Bounds
    <3>3. /\ losses <= f /\ \A m \in MsgNos, p \in Ids : tx[m][p] <= x
          /\ e + Cardinality(asking) <= Pushes
      BY <1>2 DEF Counted
    <3>4. UNCHANGED <<tx, asking, Pushes>>
      BY <1>3, <1>4
    <3> QED BY <3>2, <3>3, <3>4
  <2>2. losses \in Nat /\ (losses' = losses \/ losses' = losses + 1)
    BY DEF Delivered, NotDelivered, boundVars, TypeOK
  <2>3. losses' <= g
    BY <1>6, <1>7, <2>1, <2>2
  <2>4. s[n] \in Nat
    OBVIOUS
  <2>5. s[n] + (IF cb' = Idle THEN 0 ELSE 1) <= g + Copies(e)
    <3>1. s[n] + 1 <= g + Copies(e)
      BY <1>6, <1>7, <2>1, <2>4
    <3> QED BY <1>6, <2>1, <2>4, <3>1
  <2> QED BY <2>1, <2>3, <2>5 DEF Counted
<1>10. /\ OutboxSuffices(s, n, e) /\ AirSuffices(a, k, e)
       /\ sending # Idle => SendingOk(s[0], e)
  BY DEF Numbering, Sufficient
<1>11. OutboxSuffices(s, n, e)' /\ (sending # Idle => SendingOk(s[0], e))' /\ BelowCeiling(s, n, e)'
  BY <1>2, <1>3, <1>4, <1>10 DEF OutboxSuffices, OutboxOk, SendingOk, BelowCeiling
<1>12. AirSuffices(b, k - 1, e)'
  <2> SUFFICES ASSUME NEW i \in 1..(k - 1) PROVE AirOk(air[i].to, b[i], e)'
    BY DEF AirSuffices
  <2>0. air'[i] = air[i + 1]
    BY <1>5
  <2>1. i + 1 \in 1..k
    OBVIOUS
  <2>2. b[i] = a[i + 1]
    BY <1>6
  <2>3. AirOk(air[i + 1].to, a[i + 1], e)
    BY <1>10, <2>1 DEF AirSuffices
  <2> QED BY <1>3, <1>4, <2>0, <2>2, <2>3 DEF AirOk
<1>13. CallbackSuffices(g, e)'
  <2>1. CASE cb' = Idle
    BY <2>1 DEF CallbackSuffices
  <2>2. CASE cb' # Idle
    <3> DEFINE p == PeerDeviceID(air[1])
    <3>1. HasRetriesLeft(lastMsg[p]) /\ cb' = [busy |-> TRUE, peer |-> p]
      BY <1>3, <1>5, <2>2 DEF Delivered, NotDelivered
    <3>2. p \in LookedUp /\ p \in Ids /\ (air[1].to \in LookedUp => p = air[1].to)
      BY <1>5, IdTypes DEF PeerDeviceID, LookedUp, Frame
    <3>3. lastMsg[p] \in Msg
      BY <3>2 DEF TypeOK
    <3>4. Need(lastMsg[p]) \in Nat /\ Need(lastMsg[p]) <= MaxNeed
      BY <3>3, Needs
    <3>5. AirOk(air[1].to, g, e)
      BY <1>5, <1>6, <1>10 DEF AirSuffices
    <3>6. Ceiling(e) \in Nat /\ MaxNeed \in Nat
      BY Bounds
    <3> HIDE DEF p
    <3>7. g + Need(lastMsg[p]) <= Ceiling(e)
      <4>1. CASE Fresh(g, e)
        BY <1>6, <3>4, <3>6, <4>1 DEF Fresh
      <4>2. CASE air[1].to \in LookedUp /\ g + Need(lastMsg[air[1].to]) <= Ceiling(e)
        BY <3>2, <4>2
      <4> QED BY <3>5, <4>1, <4>2 DEF AirOk
    <3>8. cb'.peer = p /\ lastMsg' = lastMsg
      BY <1>3, <3>1
    <3> QED BY <1>4, <3>1, <3>2, <3>7, <3>8 DEF CallbackSuffices
  <2> QED BY <2>1, <2>2
<1>14. Numbering(s, n, b, k - 1, x, g, e)'
  BY <1>8, <1>9, <1>11, <1>12, <1>13 DEF Numbering, Sufficient
<1> QED BY <1>5, <1>6, <1>14, Renumbered, Zenon

\* A retry joins the queue behind all others, and one failure less can come of it.
LEMMA RequeueStep ==
  ASSUME TypeOK, TypeOK', NEW s \in [Nat -> Nat], NEW a \in [Nat -> Nat], NEW n \in Nat, NEW k \in Nat,
         NEW x \in Nat, NEW f \in Nat, NEW e \in Nat, Numbering(s, n, a, k, x, f, e),
         Requeue
  PROVE  BoundInv'
<1> DEFINE p == cb.peer
           r == RetryOf(lastMsg[p], p)
           t == [i \in Nat |-> IF i <= n THEN s[i] ELSE s[n] + 1]
<1>1. /\ Lengths(n, k) /\ OutboxNumbered(s, n) /\ SendingNumbered(s, x)
      /\ AirOrdered(a, k) /\ AirNumbered(a, k, x, f)
  BY DEF Numbering, Numbered
<1>2. Counted(s, n, x, f, e) /\ BelowCeiling(s, n, e)
  BY DEF Numbering
<1>3. /\ OutboxSuffices(s, n, e) /\ AirSuffices(a, k, e) /\ CallbackSuffices(f, e)
      /\ sending # Idle => SendingOk(s[0], e)
  BY DEF Numbering, Sufficient
<1>4. /\ UNCHANGED <<macToID, lastMsg, sending, air, asking, losses, pushed, handshakes, scans, tx>>
      /\ cb # Idle /\ cb' = Idle /\ outbox' = Append(outbox, r)
  BY DEF Requeue, tableVars, askVars, boundVars, histVars
<1>5. UNCHANGED <<LookedUp, Pushes>>
  BY <1>4 DEF LookedUp, Pushes
<1>6. /\ p \in Ids /\ p \in LookedUp /\ lastMsg[p] \in Msg /\ HasRetriesLeft(lastMsg[p])
      /\ f + Need(lastMsg[p]) <= Ceiling(e)
  BY <1>3, <1>4, BusyType DEF CallbackSuffices, TypeOK
<1>7. r \in Msg /\ r.to = {p}
  BY <1>6 DEF RetryOf, Msg
<1>8. Need(r) \in Nat /\ Need(r) + MaxCopies = Need(lastMsg[p])
  BY <1>6, Needs
<1>9. Width(r) = 1
  BY <1>7, FS_Singleton DEF Width
<1> HIDE DEF p, r
<1>10. /\ Len(outbox') = n + 1 /\ outbox'[n + 1] = r
       /\ \A i \in 1..n : outbox'[i] = outbox[i]
  <2>1. outbox \in Seq(Msg) /\ n = Len(outbox)
    BY <1>1 DEF Lengths, TypeOK
  <2> QED BY <1>4, <1>7, <2>1, AppendProperties
<1>11. /\ t \in [Nat -> Nat] /\ t[0] = s[0] /\ (\A i \in 0..n : t[i] = s[i]) /\ t[n + 1] = s[n] + 1
       /\ s[n] \in Nat
  OBVIOUS
<1> HIDE DEF t
<1>12. /\ f \in Nat /\ Copies(e) \in Nat /\ MaxCopies \in Nat /\ Ceiling(e) \in Nat
       /\ Copies(e) <= MaxCopies
  BY Bounds, NumberTypes
<1>13. s[n] + 1 <= f + Copies(e)
  BY <1>2, <1>4 DEF Counted
<1>14. s[n] + 1 + Need(r) <= Ceiling(e)
  BY <1>6, <1>8, <1>11, <1>12, <1>13
<1>15. \A i \in 1..(n + 1) : i \in 1..n \/ i = n + 1
  OBVIOUS
<1>16. OutboxNumbered(t, n + 1)'
  <2> SUFFICES ASSUME NEW i \in 1..(n + 1) PROVE t[i - 1] + Width(outbox'[i]) <= t[i]
    BY DEF OutboxNumbered, Width
  <2>1. CASE i \in 1..n
    <3>1. s[i - 1] + Width(outbox[i]) <= s[i]
      BY <1>1, <2>1 DEF OutboxNumbered
    <3>2. outbox'[i] = outbox[i]
      BY <1>10, <2>1
    <3>3. t[i] = s[i] /\ t[i - 1] = s[i - 1]
      BY <1>11, <2>1
    <3> QED BY <3>1, <3>2, <3>3
  <2>2. CASE i = n + 1
    <3>1. t[i] = s[n] + 1 /\ t[i - 1] = s[n]
      BY <1>11, <2>2
    <3>2. Width(outbox'[i]) = 1
      BY <1>9, <1>10, <2>2
    <3> QED BY <1>11, <3>1, <3>2
  <2> QED BY <1>15, <2>1, <2>2
<1>17. Numbered(t, n + 1, a, k, x, f)'
  <2>1. Lengths(n + 1, k)'
    BY <1>1, <1>4, <1>10 DEF Lengths
  <2>2. SendingNumbered(t, x)'
    BY <1>1, <1>4, <1>11 DEF SendingNumbered
  <2> QED BY <1>1, <1>16, <2>1, <2>2 DEF Numbered, AirOrdered, AirNumbered
<1>18. Counted(t, n + 1, x, f, e)'
  <2>1. t[n + 1] + (IF cb' = Idle THEN 0 ELSE 1) <= f + Copies(e)
    BY <1>4, <1>11, <1>13
  <2> QED BY <1>2, <1>4, <1>5, <2>1 DEF Counted
<1>19. BelowCeiling(t, n + 1, e)'
  <2>1. \A i \in 0..(n + 1) : i \in 0..n \/ i = n + 1
    OBVIOUS
  <2>2. s[n] + 1 <= Ceiling(e)
    BY <1>8, <1>11, <1>12, <1>14
  <2> QED BY <1>2, <1>11, <2>1, <2>2 DEF BelowCeiling
<1>20. OutboxSuffices(t, n + 1, e)'
  <2> SUFFICES ASSUME NEW i \in 1..(n + 1) PROVE OutboxOk(outbox[i], t[i], e)'
    BY DEF OutboxSuffices
  <2>1. CASE i \in 1..n
    <3>1. outbox'[i] = outbox[i]
      BY <1>10, <2>1
    <3>2. t[i] = s[i]
      BY <1>11, <2>1
    <3>3. OutboxOk(outbox[i], s[i], e)
      BY <1>3, <2>1 DEF OutboxSuffices
    <3> QED BY <1>5, <3>1, <3>2, <3>3 DEF OutboxOk
  <2>2. CASE i = n + 1
    <3>1. outbox'[i] = r
      BY <1>10, <2>2
    <3>2. t[i] = s[n] + 1
      BY <1>11, <2>2
    <3>3. OutboxOk(r, s[n] + 1, e)
      BY <1>6, <1>7, <1>14 DEF OutboxOk
    <3> QED BY <1>5, <3>1, <3>2, <3>3 DEF OutboxOk
  <2> QED BY <1>15, <2>1, <2>2
<1>21. (sending # Idle => SendingOk(t[0], e))' /\ AirSuffices(a, k, e)'
  BY <1>3, <1>4, <1>5, <1>11 DEF SendingOk, AirSuffices, AirOk
<1>22. CallbackSuffices(f, e)'
  BY <1>4 DEF CallbackSuffices
<1>23. Numbering(t, n + 1, a, k, x, f, e)'
  BY <1>17, <1>18, <1>19, <1>20, <1>21, <1>22 DEF Numbering, Sufficient
<1>24. n + 1 \in Nat
  OBVIOUS
<1> QED BY <1>11, <1>23, <1>24, Renumbered, Zenon

\* The end of the loop of sendMsgESPNow leaves numbers unused, and stuttering leaves all as it is.
LEMMA OtherSteps ==
  ASSUME TypeOK, TypeOK', NEW s \in [Nat -> Nat], NEW a \in [Nat -> Nat], NEW n \in Nat, NEW k \in Nat,
         NEW x \in Nat, NEW f \in Nat, NEW e \in Nat, Numbering(s, n, a, k, x, f, e),
         SendDone \/ UNCHANGED vars
  PROVE  BoundInv'
<1>1. /\ UNCHANGED <<macToID, lastMsg, outbox, air, cb, asking, losses, pushed, handshakes, scans, tx>>
      /\ sending' = sending \/ sending' = Idle
  BY DEF SendDone, vars, tableVars, askVars, boundVars, histVars
<1>2. UNCHANGED <<LookedUp, Pushes>>
  BY <1>1 DEF LookedUp, Pushes
<1>3. Numbered(s, n, a, k, x, f)'
  <2>1. x <= s[0] /\ s[0] \in Nat
    BY NumberTypes
  <2>2. SendingNumbered(s, x)'
    BY <1>1, <2>1 DEF Numbering, Numbered, SendingNumbered
  <2> QED BY <1>1, <2>2 DEF Numbering, Numbered, Lengths, OutboxNumbered, AirOrdered, AirNumbered
<1>4. Counted(s, n, x, f, e)' /\ BelowCeiling(s, n, e)'
  BY <1>1, <1>2 DEF Numbering, Counted, BelowCeiling
<1>5. Sufficient(s, n, a, k, f, e)'
  BY <1>1, <1>2 DEF Numbering, Sufficient, OutboxSuffices, OutboxOk, SendingOk, AirSuffices, AirOk,
                    CallbackSuffices
<1>6. Numbering(s, n, a, k, x, f, e)'
  BY <1>3, <1>4, <1>5 DEF Numbering
<1> QED BY <1>6, Renumbered, Zenon

\* Every step leaves a state that can be numbered.
LEMMA BoundStep ==
  ASSUME BoundInv, TypeOK', [Next]_vars
  PROVE  BoundInv'
<1>1. PICK s \in [Nat -> Nat], a \in [Nat -> Nat], n, k, x, f, e \in Nat :
        Numbering(s, n, a, k, x, f, e)
  BY Zenon DEF BoundInv
<1>2. TypeOK
  BY DEF BoundInv
<1>3. CASE HandleOutboxMsg
  BY <1>1, <1>2, <1>3, HandleOutboxMsgStep
<1>4. ASSUME NEW p \in Ids, SendTo(p)
      PROVE  BoundInv'
  BY <1>1, <1>2, <1>4, SendToStep
<1>5. CASE App \/ \E p \in Ids : SendHandshakeRequest(p)
  BY <1>1, <1>2, <1>5, PushActions
<1>6. CASE Delivered \/ NotDelivered
  BY <1>1, <1>2, <1>6, ReportStep
<1>7. CASE Requeue
  BY <1>1, <1>2, <1>7, RequeueStep
<1>8. CASE SendDone \/ UNCHANGED vars
  BY <1>1, <1>2, <1>8, OtherSteps
<1> QED BY <1>3, <1>4, <1>5, <1>6, <1>7, <1>8 DEF Next, Loop, WiFi

\* Nothing is numbered at first.
LEMMA BoundInit == Init /\ TypeOK => BoundInv
<1> SUFFICES ASSUME Init, TypeOK PROVE BoundInv
  OBVIOUS
<1> DEFINE z == [i \in Nat |-> 0]
<1>1. z \in [Nat -> Nat] /\ \A i \in Nat : z[i] = 0
  OBVIOUS
<1> HIDE DEF z
<1>2. /\ outbox = <<>> /\ air = <<>> /\ sending = Idle /\ cb = Idle /\ asking = {} /\ losses = 0
      /\ pushed = 0 /\ handshakes = 0 /\ scans = 0
      /\ \A m \in MsgNos, p \in Ids : tx[m][p] = 0
  BY DEF Init
<1>3. Cardinality(Ids) + 1 \in Nat /\ Cardinality(asking) = 0
  BY <1>2, IdsFinite, FS_EmptySet
<1>4. Copies(0) = 0 /\ Ceiling(0) = 0
  BY Arithmetic
<1>5. Numbered(z, 0, z, 0, 0, 0)
  <2>1. Lengths(0, 0)
    BY <1>2 DEF Lengths
  <2> QED BY <1>1, <1>2, <2>1 DEF Numbered, OutboxNumbered, AirOrdered, AirNumbered, SendingNumbered
<1>6. Counted(z, 0, 0, 0, 0)
  <2>1. 0 + Cardinality(asking) <= Pushes
    BY <1>2, <1>3 DEF Pushes
  <2> QED BY <1>1, <1>2, <1>4, <2>1 DEF Counted
<1>7. BelowCeiling(z, 0, 0)
  BY <1>1, <1>4 DEF BelowCeiling
<1>8. Sufficient(z, 0, z, 0, 0, 0)
  BY <1>2 DEF Sufficient, OutboxSuffices, AirSuffices, CallbackSuffices
<1>9. Numbering(z, 0, z, 0, 0, 0, 0)
  BY <1>5, <1>6, <1>7, <1>8 DEF Numbering
<1>10. 0 \in Nat
  OBVIOUS
<1> QED BY <1>1, <1>9, <1>10, Zenon DEF BoundInv

\* No more than FailureBound transmissions fail, and no message goes to a peer more often.
LinkBounded == losses <= FailureBound /\ \A m \in MsgNos, p \in Ids : tx[m][p] <= FailureBound

\* However failures, retries, overwritten last messages and late callbacks cross, the retries of
\* onESPNowDataSent run out: what is pushed sets a limit to what can be transmitted and fail.
THEOREM RetriesRunOut == Spec => []LinkBounded
<1>1. BoundInv => LinkBounded
  <2> SUFFICES ASSUME BoundInv PROVE LinkBounded
    OBVIOUS
  <2>1. TypeOK
    BY DEF BoundInv
  <2>2. PICK s \in [Nat -> Nat], a \in [Nat -> Nat], n, k, x, f, e \in Nat :
          Numbering(s, n, a, k, x, f, e)
    BY Zenon DEF BoundInv
  <2>3. /\ x <= s[0] /\ s[0] <= Ceiling(e) /\ f <= x /\ Ceiling(e) <= FailureBound
    BY <2>1, <2>2, NumberTypes
  <2>4. losses <= f /\ \A m \in MsgNos, p \in Ids : tx[m][p] <= x
    BY <2>2 DEF Numbering, Counted
  <2>5. losses \in Nat /\ \A m \in MsgNos, p \in Ids : tx[m][p] \in Nat
    BY <2>1 DEF TypeOK
  <2>6. Ceiling(e) \in Nat /\ FailureBound \in Nat /\ s[0] \in Nat
    BY Bounds DEF FailureBound
  <2> QED BY <2>3, <2>4, <2>5, <2>6 DEF LinkBounded
<1>2. BoundInv /\ TypeOK' /\ [Next]_vars => BoundInv'
  BY BoundStep
<1> QED BY <1>1, <1>2, BoundInit, LinkTypeCorrect, PTL DEF Spec

\* So the driver may fail whenever it likes: a limit on losses above FailureBound is never reached.
THEOREM FailuresRunOut ==
  ASSUME FailureBound < MaxLosses
  PROVE  Spec => []FailuresBounded
<1>1. TypeOK /\ LinkBounded => FailuresBounded
  BY Bounds, Constants DEF LinkBounded, FailuresBounded, TypeOK, FailureBound
<1> QED BY <1>1, RetriesRunOut, LinkTypeCorrect, PTL

=============================================================================
