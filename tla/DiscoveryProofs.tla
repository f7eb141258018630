-------------------------- MODULE DiscoveryProofs --------------------------
(***************************************************************************)
(* Theorems about the handshakes and the exchange of times, for any set of *)
(* devices and scanners and any number of losses, restarts and commands.   *)
(***************************************************************************)
EXTENDS Discovery, TLAPS, SequenceTheorems, FiniteSetTheorems

LEMMA Constants ==
  /\ Devices \subseteq Nat /\ IsFiniteSet(Devices) /\ Scanners \subseteq Devices
  /\ RETRIES \in Nat /\ MaxLosses \in Nat /\ MaxRestarts \in Nat /\ MaxResends \in Nat
  BY DiscoveryAssumption DEF DiscoveryAssumption

\* The elements of a sequence after Append and Tail.
LEMMA AppendElements ==
  ASSUME NEW S, NEW s \in Seq(S), NEW e \in S
  PROVE  /\ Append(s, e) \in Seq(S)
         /\ DOMAIN Append(s, e) = 1 .. Len(s) + 1 /\ DOMAIN s = 1 .. Len(s) /\ Len(s) \in Nat
         /\ \A i \in DOMAIN s : Append(s, e)[i] = s[i]
         /\ Append(s, e)[Len(s) + 1] = e
  BY AppendProperties, LenProperties

LEMMA TailElements ==
  ASSUME NEW S, NEW s \in Seq(S), s # <<>>
  PROVE  /\ Tail(s) \in Seq(S) /\ Head(s) \in S /\ 1 \in DOMAIN s /\ Head(s) = s[1]
         /\ DOMAIN s \subseteq Nat /\ DOMAIN Tail(s) \subseteq Nat
         /\ \A i \in DOMAIN Tail(s) : 1 < i + 1 /\ i + 1 \in DOMAIN s /\ Tail(s)[i] = s[i + 1]
  BY HeadTailProperties, LenProperties

-----------------------------------------------------------------------------
(* Types.                                                                   *)

LEMMA RequestType ==
  ASSUME TypeOK, NEW d \in Devices, NEW p \in Devices
  PROVE  Request(d, p) \in Msg
  BY Constants DEF TypeOK, Request, Msg, Types

LEMMA ReplyType ==
  ASSUME TypeOK, NEW d \in Devices, NEW m \in Msg,
         NEW type \in Types, NEW left \in {0, RETRIES}
  PROVE  /\ Reply(d, m, type, left) \in Msg
         /\ Append(outbox[d], Reply(d, m, type, left)) \in Seq(Msg)
<1>1. Reply(d, m, type, left) \in Msg
  BY Constants DEF TypeOK, Reply, Msg
<1> QED BY <1>1, AppendElements DEF TypeOK

OneLess(m) == [m EXCEPT !.left = @ - 1]

LEMMA SentAgainType ==
  ASSUME NEW d \in Devices, NEW m \in Msg
  PROVE  /\ SentAgain(d, m) \in Seq(Msg)
         /\ SentAgain(d, m) = <<>> \/ SentAgain(d, m) = <<OneLess(m)>>
         /\ SentAgain(d, m) # <<>> => OneLess(m) \in Msg
<1>1. m.left > 0 => OneLess(m) \in Msg
  BY Constants DEF Msg, OneLess
<1>2. SentAgain(d, m) = IF m.left > 0 /\ m.to \in found[d] THEN <<OneLess(m)>> ELSE <<>>
  BY Zenon DEF SentAgain, OneLess
<1> QED BY <1>1, <1>2

\* The requests that a scan leads to, as a sequence.
LEMMA HandleHandshakesType ==
  ASSUME TypeOK, NEW d \in Devices, NEW seen \in SUBSET (Devices \ {d}), NEW resend \in BOOLEAN,
         HandleHandshakes(d, seen, resend)
  PROVE  /\ known' \in [Devices -> SUBSET Devices] /\ addressed' \in [Devices -> SUBSET Devices]
         /\ found' \in [Devices -> SUBSET Devices] /\ asked' \in [Devices -> SUBSET Devices]
         /\ outbox' \in [Devices -> Seq(Msg)]
         /\ \A e \in Devices \ {d} : outbox'[e] = outbox[e]
         /\ \A i \in DOMAIN outbox'[d] : \E p \in Devices : outbox'[d][i] = Request(d, p)
<1> DEFINE peers == known[d] \cup seen
           ask == ToAsk(d, peers, resend)
<1>1. peers \subseteq Devices /\ ask \subseteq Devices
  BY DEF TypeOK, ToAsk
<1>2. Cardinality(ask) \in Nat
  BY <1>1, Constants, FS_Subset, FS_CardinalityType
<1>3. PICK ids \in [1..Cardinality(ask) -> ask] :
        outbox' = [outbox EXCEPT ![d] = [i \in DOMAIN ids |-> Request(d, ids[i])]]
  BY DEF HandleHandshakes
<1>4. [i \in DOMAIN ids |-> Request(d, ids[i])] \in [1..Cardinality(ask) -> Msg]
  BY <1>1, RequestType
<1>5. [i \in DOMAIN ids |-> Request(d, ids[i])] \in Seq(Msg)
  <2> HIDE DEF ask
  <2> QED BY <1>2, <1>4, IsASeq
<1>6. /\ outbox' \in [Devices -> Seq(Msg)]
      /\ \A e \in Devices \ {d} : outbox'[e] = outbox[e]
      /\ outbox'[d] = [i \in DOMAIN ids |-> Request(d, ids[i])]
  BY <1>3, <1>5 DEF TypeOK
<1>7. \A i \in DOMAIN outbox'[d] : ids[i] \in Devices /\ outbox'[d][i] = Request(d, ids[i])
  BY <1>1, <1>6
<1>8. /\ known' \in [Devices -> SUBSET Devices] /\ addressed' \in [Devices -> SUBSET Devices]
      /\ found' \in [Devices -> SUBSET Devices] /\ asked' \in [Devices -> SUBSET Devices]
  BY <1>1 DEF HandleHandshakes, TypeOK
<1> QED BY <1>6, <1>7, <1>8

LEMMA HandleInboxMsgType ==
  ASSUME TypeOK, NEW d \in Devices, HandleInboxMsg(d)
  PROVE  TypeOK'
<1> USE Constants
<1>1. Head(inbox[d]) \in Msg /\ Tail(inbox[d]) \in Seq(Msg)
  BY TailElements DEF HandleInboxMsg, TypeOK
<1> DEFINE m == Head(inbox[d])
<1>2. m \in Msg /\ m.from \in Devices /\ m.boot \in Nat \ {0} /\ m.of \in Nat
  BY <1>1 DEF Msg
<1>3. inbox' \in [Devices -> Seq(Msg)]
  BY <1>1 DEF HandleInboxMsg, TypeOK
<1>4. UNCHANGED <<draining, boots, dropped, losses, restarts, resends>>
  BY DEF HandleInboxMsg, boundVars
<1> HIDE DEF m
<1>5. CASE ReceiveHandshakeRequest(d, m)
  <2>1. outbox' \in [Devices -> Seq(Msg)]
    BY <1>2, <1>5, ReplyType DEF ReceiveHandshakeRequest, Push, TypeOK, Types
  <2> QED BY <1>2, <1>3, <1>4, <1>5, <2>1
          DEF ReceiveHandshakeRequest, MacSaved, TimeAfterRequest, NoAnswer, TypeOK
<1>6. CASE ReceiveHandshakeResponse(d, m)
  <2>1. outbox' \in [Devices -> Seq(Msg)]
    BY <1>2, <1>6, ReplyType DEF ReceiveHandshakeResponse, Push, TypeOK, Types
  <2> QED BY <1>2, <1>3, <1>4, <1>6, <2>1 DEF ReceiveHandshakeResponse, TypeOK
<1>7. CASE ReceiveTimeSyncMsg(d, m)
  <2>1. /\ \/ outbox' = outbox
           \/ Push(d, Reply(d, m, "TIME_SYNC_RESPONSE", RETRIES))
        /\ times' = times \/ times' = [times EXCEPT ![d][m.from] = m.boot]
        /\ UNCHANGED <<known, addressed, found, asked, answer, met>>
    BY <1>7 DEF ReceiveTimeSyncMsg
  <2>2. Append(outbox[d], Reply(d, m, "TIME_SYNC_RESPONSE", RETRIES)) \in Seq(Msg)
    BY <1>2, ReplyType DEF Types
  <2>3. outbox' \in [Devices -> Seq(Msg)]
    BY <2>1, <2>2 DEF Push, TypeOK
  <2>4. times' \in [Devices -> [Devices -> Nat]]
    <3>1. CASE times' = times
      BY <3>1 DEF TypeOK
    <3>2. CASE times' = [times EXCEPT ![d][m.from] = m.boot]
      BY <1>2, <3>2 DEF TypeOK
    <3> QED BY <2>1, <3>1, <3>2
  <2> QED BY <1>3, <1>4, <2>1, <2>3, <2>4 DEF TypeOK
<1> QED BY <1>5, <1>6, <1>7 DEF HandleInboxMsg, m

\* What HandleOutboxMsg does to the two boxes.
LEMMA HandleOutboxMsgBoxes ==
  ASSUME TypeOK, NEW d \in Devices, HandleOutboxMsg(d), NEW m, m = Head(outbox[d])
  PROVE  /\ m \in Msg /\ m = outbox[d][1] /\ 1 \in DOMAIN outbox[d]
         /\ outbox' \in [Devices -> Seq(Msg)] /\ \A e \in Devices \ {d} : outbox'[e] = outbox[e]
         /\ \A i \in DOMAIN outbox'[d] :
              \/ \E j \in DOMAIN outbox[d] : outbox'[d][i] = outbox[d][j]
              \/ outbox'[d][i] = OneLess(m)
         /\ inbox' \in [Devices -> Seq(Msg)]
         /\ \/ inbox' = inbox
            \/ m.to \in addressed[d] /\ inbox' = [inbox EXCEPT ![m.to] = Append(@, m)]
<1>1. outbox[d] \in Seq(Msg) /\ outbox[d] # <<>>
  BY DEF HandleOutboxMsg, TypeOK
<1>2. /\ m \in Msg /\ m = outbox[d][1] /\ 1 \in DOMAIN outbox[d] /\ Tail(outbox[d]) \in Seq(Msg)
      /\ \A i \in DOMAIN Tail(outbox[d]) : i + 1 \in DOMAIN outbox[d] /\ Tail(outbox[d])[i] = outbox[d][i + 1]
  BY <1>1, TailElements
<1>3. m.to \in Devices
  BY <1>2 DEF Msg
<1> DEFINE tail == Tail(outbox[d])
           again == SentAgain(d, m)
<1>4. /\ outbox' = [outbox EXCEPT ![d] = tail] \/ outbox' = [outbox EXCEPT ![d] = tail \o again]
      /\ inbox' = inbox \/ (m.to \in addressed[d] /\ inbox' = [inbox EXCEPT ![m.to] = Append(@, m)])
  <2>1. tail \o <<>> = tail
    BY <1>2
  <2>2. \/ outbox' = [outbox EXCEPT ![d] = tail] \/ outbox' = [outbox EXCEPT ![d] = tail \o again]
        \/ outbox' = [outbox EXCEPT ![d] = tail \o <<>>]
    BY DEF HandleOutboxMsg
  <2>3. inbox' = inbox \/ (m.to \in addressed[d] /\ inbox' = [inbox EXCEPT ![m.to] = Append(@, m)])
    BY DEF HandleOutboxMsg
  <2> QED BY <2>1, <2>2, <2>3, Zenon
<1>5. /\ again \in Seq(Msg)
      /\ again = <<>> \/ again = <<OneLess(m)>>
  BY <1>2, SentAgainType
<1>6. tail \in Seq(Msg) /\ \A i \in DOMAIN tail : \E j \in DOMAIN outbox[d] : tail[i] = outbox[d][j]
  BY <1>2
<1> HIDE DEF again, tail
<1>7. /\ tail \o again \in Seq(Msg)
      /\ \A i \in DOMAIN (tail \o again) :
           \/ i \in DOMAIN tail /\ (tail \o again)[i] = tail[i]
           \/ (tail \o again)[i] = OneLess(m)
  BY <1>5, <1>6
<1>8. PICK new \in {tail, tail \o again} : outbox' = [outbox EXCEPT ![d] = new]
  BY <1>4
<1>9. /\ new \in Seq(Msg)
      /\ \A i \in DOMAIN new :
              \/ \E j \in DOMAIN outbox[d] : new[i] = outbox[d][j]
              \/ new[i] = OneLess(m)
  <2>1. CASE new = tail
    BY <1>6, <2>1
  <2>2. CASE new = tail \o again
    <3> SUFFICES ASSUME NEW i \in DOMAIN (tail \o again)
                 PROVE  \/ \E j \in DOMAIN outbox[d] : (tail \o again)[i] = outbox[d][j]
                        \/ (tail \o again)[i] = OneLess(m)
      BY <1>7, <2>2
    <3> QED BY <1>6, <1>7, Zenon
  <2> QED BY <2>1, <2>2
<1>10. /\ outbox' \in [Devices -> Seq(Msg)] /\ outbox'[d] = new
       /\ \A e \in Devices \ {d} : outbox'[e] = outbox[e]
  BY <1>8, <1>9 DEF TypeOK
<1>11. inbox' \in [Devices -> Seq(Msg)]
  <2>1. Append(inbox[m.to], m) \in Seq(Msg)
    BY <1>2, <1>3, AppendElements DEF TypeOK
  <2> QED BY <1>4, <2>1 DEF TypeOK
<1> QED BY <1>2, <1>4, <1>9, <1>10, <1>11

LEMMA HandleOutboxMsgType ==
  ASSUME TypeOK, NEW d \in Devices, HandleOutboxMsg(d)
  PROVE  TypeOK'
<1>1. outbox' \in [Devices -> Seq(Msg)] /\ inbox' \in [Devices -> Seq(Msg)]
  BY HandleOutboxMsgBoxes
<1>2. losses' \in 0..MaxLosses /\ dropped' \in Nat
  <2>1. \/ UNCHANGED losses
        \/ losses < MaxLosses /\ losses' = losses + 1
    BY DEF HandleOutboxMsg
  <2>2. dropped' = dropped \/ dropped' = dropped + 1
    BY DEF HandleOutboxMsg
  <2> QED BY <2>1, <2>2, Constants DEF TypeOK
<1>3. draining' \in [Devices -> BOOLEAN] /\ UNCHANGED <<tableVars, boots, restarts, resends>>
  BY DEF HandleOutboxMsg, TypeOK
<1> QED BY <1>1, <1>2, <1>3 DEF TypeOK, tableVars

\* Every reachable state has its type.
THEOREM DiscoveryTypeCorrect == Spec => []TypeOK
<1> USE Constants
<1>1. Init => TypeOK
  BY DEF Init, TypeOK, NoAnswer
<1>2. TypeOK /\ [Next]_vars => TypeOK'
  <2> SUFFICES ASSUME TypeOK, [Next]_vars PROVE TypeOK'
    OBVIOUS
  <2>1. ASSUME NEW d \in Devices, HandshakeEvent(d) \/ HandshakeCommand(d)
        PROVE  TypeOK'
    <3>1. PICK seen \in SUBSET (Devices \ {d}), resend \in BOOLEAN : HandleHandshakes(d, seen, resend)
      BY <2>1 DEF HandshakeEvent, HandshakeCommand
    <3>2. UNCHANGED <<answer, times, met, inbox, draining, boots, dropped>>
      BY <3>1 DEF HandleHandshakes
    <3>3. /\ UNCHANGED <<losses, restarts>>
          /\ resends' = resends \/ (resends < MaxResends /\ resends' = resends + 1)
      BY <2>1 DEF HandshakeEvent, HandshakeCommand, boundVars
    <3>4. resends' \in 0..MaxResends
      BY <3>3 DEF TypeOK
    <3>5. /\ known' \in [Devices -> SUBSET Devices] /\ addressed' \in [Devices -> SUBSET Devices]
          /\ found' \in [Devices -> SUBSET Devices] /\ asked' \in [Devices -> SUBSET Devices]
          /\ outbox' \in [Devices -> Seq(Msg)]
      BY <3>1, HandleHandshakesType
    <3> QED BY <3>2, <3>3, <3>4, <3>5 DEF TypeOK
  <2>2. ASSUME NEW d \in Devices, Restart(d)
        PROVE  TypeOK'
    <3>1. inbox' \in [Devices -> Seq(Msg)] /\ outbox' \in [Devices -> Seq(Msg)]
      BY <2>2, EmptySeq DEF Restart, TypeOK
    <3>2. /\ answer' \in [Devices -> [Devices -> [boot : Nat, of : Nat]]]
          /\ times' \in [Devices -> [Devices -> Nat]] /\ met' \in [Devices -> [Devices -> Nat]]
      BY <2>2 DEF Restart, TypeOK, NoAnswer
    <3>3. /\ known' \in [Devices -> SUBSET Devices] /\ addressed' \in [Devices -> SUBSET Devices]
          /\ found' \in [Devices -> SUBSET Devices] /\ asked' \in [Devices -> SUBSET Devices]
          /\ draining' \in [Devices -> BOOLEAN] /\ boots' \in [Devices -> Nat \ {0}]
      <4>1. /\ known' = [known EXCEPT ![d] = {}] /\ addressed' = [addressed EXCEPT ![d] = {}]
            /\ found' = [found EXCEPT ![d] = {}] /\ asked' = [asked EXCEPT ![d] = {}]
            /\ draining' = [draining EXCEPT ![d] = FALSE] /\ boots' = [boots EXCEPT ![d] = @ + 1]
        BY <2>2 DEF Restart
      <4>2. known' \in [Devices -> SUBSET Devices] /\ addressed' \in [Devices -> SUBSET Devices]
        BY <4>1 DEF TypeOK
      <4>3. found' \in [Devices -> SUBSET Devices] /\ asked' \in [Devices -> SUBSET Devices]
        BY <4>1 DEF TypeOK
      <4>4. draining' \in [Devices -> BOOLEAN]
        BY <4>1 DEF TypeOK
      <4>5. boots' \in [Devices -> Nat \ {0}]
        BY <4>1 DEF TypeOK
      <4> QED BY <4>2, <4>3, <4>4, <4>5
    <3>4. UNCHANGED <<dropped, losses, resends>> /\ restarts' \in 0..MaxRestarts
      BY <2>2 DEF Restart, TypeOK
    <3> QED BY <3>1, <3>2, <3>3, <3>4 DEF TypeOK
  <2>3. CASE UNCHANGED vars
    BY <2>3 DEF vars, tableVars, boxVars, boundVars, TypeOK
  <2> QED BY <2>1, <2>2, <2>3, HandleInboxMsgType, HandleOutboxMsgType DEF Next, Update
<1> QED BY <1>1, <1>2, PTL DEF Spec

-----------------------------------------------------------------------------
(* The boots of messages and of table entries.                              *)

\* What a message answers is of the present boot of its receiver only if the receiver still
\* has the MAC address that the question went out with.
AnswerOk(m) ==
  m.of <= boots[m.to] /\ (m.of = boots[m.to] => m.from \in addressed[m.to])

Sent(d, m) == m.from = d /\ m.boot = boots[d] /\ AnswerOk(m)

\* What came from the present boot of a peer was sent with the MAC address of the receiver;
\* what comes after a handshake request is no older than the request.
Got(d, m) ==
  /\ m.to = d
  /\ met[d][m.from] <= m.boot /\ m.boot <= boots[m.from]
  /\ m.boot = boots[m.from] => d \in addressed[m.from]
  /\ AnswerOk(m)

InBootOrder(s) ==
  \A i, j \in DOMAIN s : i < j /\ s[i].from = s[j].from => s[i].boot <= s[j].boot

Addresses == \A d \in Devices : addressed[d] \subseteq known[d]
MetBoots  == \A d, p \in Devices : met[d][p] <= boots[p]
Outboxes  == \A d \in Devices : \A i \in DOMAIN outbox[d] : Sent(d, outbox[d][i])
Inboxes   == \A d \in Devices : InBootOrder(inbox[d]) /\ \A i \in DOMAIN inbox[d] : Got(d, inbox[d][i])

\* The inductive invariant.
DiscoveryInv ==
  /\ TypeOK
  /\ Addresses /\ MetBoots /\ Outboxes /\ Inboxes
  /\ AddresslessOnlyByOldAnswer /\ NoTimeOfEarlierBoot

LEMMA InitInv == Init => DiscoveryInv
<1> SUFFICES ASSUME Init PROVE DiscoveryInv
  OBVIOUS
<1>1. TypeOK
  BY Constants DEF Init, TypeOK, NoAnswer
<1>2. Outboxes /\ Inboxes
  BY DEF Init, Outboxes, Inboxes, InBootOrder
<1>3. Addresses /\ MetBoots /\ AddresslessOnlyByOldAnswer /\ NoTimeOfEarlierBoot
  BY DEF Init, Addresses, MetBoots, AddresslessOnlyByOldAnswer, Addressless, NoTimeOfEarlierBoot
<1> QED BY <1>1, <1>2, <1>3 DEF DiscoveryInv

LEMMA Elements ==
  ASSUME TypeOK, NEW d \in Devices
  PROVE  /\ \A i \in DOMAIN inbox[d] : inbox[d][i] \in Msg
         /\ \A i \in DOMAIN outbox[d] : outbox[d][i] \in Msg
  BY ElementOfSeq, LenProperties DEF TypeOK

LEMMA HandshakesStep ==
  ASSUME DiscoveryInv, TypeOK', NEW d \in Devices, NEW seen \in SUBSET (Devices \ {d}),
         NEW resend \in BOOLEAN, HandleHandshakes(d, seen, resend)
  PROVE  DiscoveryInv'
<1>1. TypeOK /\ UNCHANGED <<answer, times, met, inbox, boots>>
  BY DEF DiscoveryInv, HandleHandshakes
<1>2. /\ known' = [known EXCEPT ![d] = @ \cup seen]
      /\ addressed' = [addressed EXCEPT ![d] = @ \cup (seen \ known[d])]
  BY DEF HandleHandshakes
<1>3. /\ \A e \in Devices : addressed[e] \subseteq addressed'[e]
      /\ \A e \in Devices : Addressless(e)' \subseteq Addressless(e)
      /\ Addresses'
  <2> SUFFICES ASSUME NEW e \in Devices
               PROVE  /\ addressed[e] \subseteq addressed'[e] /\ addressed'[e] \subseteq known'[e]
                      /\ known'[e] \ addressed'[e] \subseteq known[e] \ addressed[e]
    BY DEF Addressless, Addresses
  <2>1. addressed[e] \subseteq known[e]
    BY DEF DiscoveryInv, Addresses
  <2>2. CASE e = d
    <3>1. known'[e] = known[e] \cup seen /\ addressed'[e] = addressed[e] \cup (seen \ known[e])
      BY <1>1, <1>2, <2>2 DEF TypeOK
    <3> QED BY <2>1, <3>1
  <2>3. CASE e # d
    BY <1>1, <1>2, <2>1, <2>3 DEF TypeOK
  <2> QED BY <2>2, <2>3
<1>4. Inboxes'
  <2> SUFFICES ASSUME NEW e \in Devices
               PROVE  InBootOrder(inbox[e])' /\ \A i \in DOMAIN inbox[e] : Got(e, inbox[e][i])'
    BY <1>1 DEF Inboxes
  <2>1. InBootOrder(inbox[e])'
    BY <1>1 DEF DiscoveryInv, Inboxes, InBootOrder
  <2>2. ASSUME NEW i \in DOMAIN inbox[e]
        PROVE  Got(e, inbox[e][i])'
    <3>1. Got(e, inbox[e][i]) /\ inbox[e][i] \in Msg
      BY <1>1, Elements DEF DiscoveryInv, Inboxes
    <3> DEFINE m == inbox[e][i]
    <3>2. Got(e, m)'
      BY <1>1, <1>3, <3>1 DEF Got, AnswerOk, Msg
    <3> QED BY <3>2
  <2> QED BY <2>1, <2>2
<1>5. Outboxes'
  <2> SUFFICES ASSUME NEW e \in Devices, NEW i \in DOMAIN outbox'[e]
               PROVE  Sent(e, outbox[e][i])'
    BY DEF Outboxes
  <2>1. CASE e = d
    <3>1. PICK p \in Devices : outbox'[e][i] = Request(d, p)
      BY <1>1, <2>1, HandleHandshakesType
    <3> QED BY <1>1, <2>1, <3>1 DEF Request, Sent, AnswerOk, TypeOK
  <2>2. CASE e # d
    <3>1. outbox'[e] = outbox[e]
      BY <1>1, <2>2, HandleHandshakesType
    <3>2. Sent(e, outbox[e][i]) /\ outbox[e][i] \in Msg
      BY <1>1, <3>1, Elements DEF DiscoveryInv, Outboxes
    <3> QED BY <1>1, <1>3, <3>1, <3>2 DEF Sent, AnswerOk, Msg
  <2> QED BY <2>1, <2>2
<1>6. MetBoots' /\ NoTimeOfEarlierBoot' /\ AddresslessOnlyByOldAnswer'
  BY <1>1, <1>3 DEF DiscoveryInv, MetBoots, NoTimeOfEarlierBoot, AddresslessOnlyByOldAnswer
<1> QED BY <1>3, <1>4, <1>5, <1>6 DEF DiscoveryInv

LEMMA RestartStep ==
  ASSUME DiscoveryInv, TypeOK', NEW d \in Devices, Restart(d)
  PROVE  DiscoveryInv'
<1>1. /\ TypeOK
      /\ boots' = [boots EXCEPT ![d] = @ + 1] /\ addressed' = [addressed EXCEPT ![d] = {}]
      /\ known' = [known EXCEPT ![d] = {}]
      /\ inbox' = [inbox EXCEPT ![d] = <<>>] /\ outbox' = [outbox EXCEPT ![d] = <<>>]
      /\ answer' = [answer EXCEPT ![d] = [p \in Devices |-> NoAnswer]]
      /\ times' = [times EXCEPT ![d] = [p \in Devices |-> 0]]
      /\ met' = [met EXCEPT ![d] = [p \in Devices |-> 0]]
  BY DEF Restart, DiscoveryInv
<1>2. /\ boots'[d] = boots[d] + 1 /\ boots[d] \in Nat
      /\ \A e \in Devices \ {d} : /\ boots'[e] = boots[e] /\ addressed'[e] = addressed[e]
                                 /\ known'[e] = known[e] /\ inbox'[e] = inbox[e]
                                 /\ outbox'[e] = outbox[e] /\ met'[e] = met[e]
                                 /\ answer'[e] = answer[e] /\ times'[e] = times[e]
      /\ inbox'[d] = <<>> /\ outbox'[d] = <<>> /\ addressed'[d] = {} /\ known'[d] = {}
      /\ \A p \in Devices : met'[d][p] = 0 /\ times'[d][p] = 0
  BY <1>1 DEF TypeOK
<1>5. Inboxes'
  <2> SUFFICES ASSUME NEW e \in Devices
               PROVE  InBootOrder(inbox[e])' /\ \A i \in DOMAIN inbox'[e] : Got(e, inbox[e][i])'
    BY DEF Inboxes
  <2>1. CASE e = d
    BY <1>2, <2>1 DEF InBootOrder
  <2>2. CASE e # d
    <3>1. inbox'[e] = inbox[e] /\ InBootOrder(inbox[e])
      BY <1>2, <2>2 DEF DiscoveryInv, Inboxes
    <3>2. \A i \in DOMAIN inbox[e] : Got(e, inbox[e][i]) /\ inbox[e][i] \in Msg
      BY <1>1, Elements DEF DiscoveryInv, Inboxes
    <3> QED BY <1>2, <2>2, <3>1, <3>2 DEF Got, AnswerOk, InBootOrder, Msg
  <2> QED BY <2>1, <2>2
<1>9. Outboxes'
  <2> SUFFICES ASSUME NEW e \in Devices, NEW i \in DOMAIN outbox'[e]
               PROVE  Sent(e, outbox[e][i])'
    BY DEF Outboxes
  <2>1. e # d /\ outbox'[e] = outbox[e]
    BY <1>2
  <2>2. Sent(e, outbox[e][i]) /\ outbox[e][i] \in Msg
    BY <1>1, <2>1, Elements DEF DiscoveryInv, Outboxes
  <2> QED BY <1>2, <2>1, <2>2 DEF Sent, AnswerOk, Msg
<1>6. MetBoots'
  <2> SUFFICES ASSUME NEW e \in Devices, NEW p \in Devices
               PROVE  met'[e][p] <= boots'[p]
    BY DEF MetBoots
  <2>1. boots[p] \in Nat /\ boots'[p] \in Nat /\ boots[p] <= boots'[p]
    <3>1. CASE p = d
      BY <1>2, <3>1
    <3>2. CASE p # d
      BY <1>1, <1>2, <3>2 DEF TypeOK
    <3> QED BY <3>1, <3>2
  <2>2. CASE e = d
    BY <1>2, <2>1, <2>2
  <2>3. CASE e # d
    <3>1. met'[e][p] = met[e][p] /\ met[e][p] \in Nat /\ met[e][p] <= boots[p]
      BY <1>1, <1>2, <2>3 DEF MetBoots, DiscoveryInv, TypeOK
    <3> QED BY <2>1, <3>1
  <2> QED BY <2>2, <2>3
<1>7. AddresslessOnlyByOldAnswer'
  <2> SUFFICES ASSUME NEW e \in Devices, NEW p \in Addressless(e)'
               PROVE  answer'[e][p].boot > 0 /\ answer'[e][p].of < boots'[e]
    BY DEF AddresslessOnlyByOldAnswer
  <2>1. e # d /\ p \in Addressless(e)
    BY <1>2 DEF Addressless
  <2> QED BY <1>2, <2>1 DEF AddresslessOnlyByOldAnswer, DiscoveryInv
<1>8. NoTimeOfEarlierBoot' /\ Addresses'
  BY <1>2 DEF DiscoveryInv, NoTimeOfEarlierBoot, Addresses
<1> QED BY <1>5, <1>6, <1>7, <1>8, <1>9 DEF DiscoveryInv

\* The inboxes after a message was taken from one of them.
LEMMA TakenInboxes ==
  ASSUME DiscoveryInv, NEW d \in Devices, HandleInboxMsg(d), NEW m, m = Head(inbox[d]),
         \A e \in Devices : addressed[e] \subseteq addressed'[e],
         \A e, p \in Devices :
           met'[e][p] = met[e][p] \/ (e = d /\ p = m.from /\ met'[e][p] = m.boot)
  PROVE  Inboxes'
<1>1. TypeOK /\ boots' = boots /\ inbox[d] \in Seq(Msg) /\ inbox[d] # <<>>
  BY DEF DiscoveryInv, HandleInboxMsg, TypeOK
<1>2. inbox'[d] = Tail(inbox[d]) /\ \A e \in Devices \ {d} : inbox'[e] = inbox[e]
  BY <1>1 DEF HandleInboxMsg, TypeOK
<1>3. /\ 1 \in DOMAIN inbox[d] /\ m = inbox[d][1]
      /\ DOMAIN inbox[d] \subseteq Nat /\ DOMAIN inbox'[d] \subseteq Nat
      /\ \A i \in DOMAIN inbox'[d] : 1 < i + 1 /\ i + 1 \in DOMAIN inbox[d] /\ inbox'[d][i] = inbox[d][i + 1]
  BY <1>1, <1>2, TailElements
<1>4. /\ \A e \in Devices : InBootOrder(inbox[e])
      /\ \A e \in Devices : \A i \in DOMAIN inbox[e] : inbox[e][i] \in Msg /\ Got(e, inbox[e][i])
  BY <1>1, Elements DEF DiscoveryInv, Inboxes
<1> SUFFICES ASSUME NEW e \in Devices
             PROVE  InBootOrder(inbox[e])' /\ \A i \in DOMAIN inbox'[e] : Got(e, inbox[e][i])'
  BY DEF Inboxes
<1>5. CASE e # d
  <2>1. inbox'[e] = inbox[e]
    BY <1>2, <1>5
  <2>2. InBootOrder(inbox[e])'
    BY <1>4, <2>1 DEF InBootOrder
  <2>3. ASSUME NEW i \in DOMAIN inbox'[e]
        PROVE  Got(e, inbox[e][i])'
    <3>1. inbox[e][i] \in Msg /\ Got(e, inbox[e][i])
      BY <1>4, <2>1
    <3>2. met'[e][inbox[e][i].from] = met[e][inbox[e][i].from]
      BY <1>5, <3>1 DEF Msg
    <3> QED BY <1>1, <2>1, <3>1, <3>2 DEF Got, AnswerOk, Msg
  <2> QED BY <2>2, <2>3
<1>6. CASE e = d
  <2>1. InBootOrder(inbox[e])'
    <3> SUFFICES ASSUME NEW i \in DOMAIN inbox'[d], NEW j \in DOMAIN inbox'[d], i < j,
                        inbox'[d][i].from = inbox'[d][j].from
                 PROVE  inbox'[d][i].boot <= inbox'[d][j].boot
      BY <1>6 DEF InBootOrder
    <3>1. i + 1 \in DOMAIN inbox[d] /\ j + 1 \in DOMAIN inbox[d] /\ i + 1 < j + 1
      BY <1>3
    <3> QED BY <1>3, <1>4, <3>1 DEF InBootOrder
  <2>2. ASSUME NEW i \in DOMAIN inbox'[e]
        PROVE  Got(e, inbox[e][i])'
    <3> DEFINE x == inbox[d][i + 1]
    <3>1. /\ i + 1 \in DOMAIN inbox[d] /\ inbox'[d][i] = x /\ x \in Msg /\ Got(d, x)
          /\ x.from = m.from => m.boot <= x.boot
      BY <1>3, <1>4, <1>6, <2>2 DEF InBootOrder
    <3> HIDE DEF x
    <3>2. x.from \in Devices
      BY <3>1 DEF Msg
    <3>3. met'[d][x.from] <= x.boot
      BY <3>1, <3>2 DEF Got
    <3> QED BY <1>1, <1>6, <3>1, <3>3 DEF Got, AnswerOk, Msg
  <2> QED BY <2>1, <2>2
<1> QED BY <1>5, <1>6

\* The outboxes after an answer was pushed to one of them.
LEMMA PushedOutboxes ==
  ASSUME DiscoveryInv, boots' = boots, \A e \in Devices : addressed[e] \subseteq addressed'[e],
         NEW d \in Devices, NEW m \in Msg, Got(d, m), NEW type \in Types, NEW left \in {0, RETRIES},
         outbox' = outbox \/ Push(d, Reply(d, m, type, left))
  PROVE  Outboxes'
<1>1. /\ TypeOK
      /\ \A e \in Devices : \A i \in DOMAIN outbox[e] : outbox[e][i] \in Msg /\ Sent(e, outbox[e][i])
  BY Elements DEF DiscoveryInv, Outboxes
<1> DEFINE reply == Reply(d, m, type, left)
<1>2. reply \in Msg /\ m.from \in Devices
  BY <1>1, ReplyType DEF Msg
<1>3. /\ reply.from = d /\ reply.boot = boots[d] /\ reply.to = m.from
      /\ reply.of <= boots[m.from] /\ (reply.of = boots[m.from] => d \in addressed[m.from])
  BY DEF Reply, Got
<1> HIDE DEF reply
<1> SUFFICES ASSUME NEW e \in Devices, NEW i \in DOMAIN outbox'[e]
             PROVE  Sent(e, outbox[e][i])'
  BY DEF Outboxes
<1>4. CASE i \in DOMAIN outbox[e] /\ outbox'[e][i] = outbox[e][i]
  <2>1. outbox[e][i] \in Msg /\ Sent(e, outbox[e][i])
    BY <1>1, <1>4
  <2> QED BY <1>4, <2>1 DEF Sent, AnswerOk, Msg
<1>5. CASE e = d /\ outbox'[e][i] = reply
  BY <1>2, <1>3, <1>5 DEF Sent, AnswerOk
<1>6. outbox' = outbox \/ outbox' = [outbox EXCEPT ![d] = Append(@, reply)]
  BY DEF Push, reply
<1>7. CASE outbox' # outbox /\ e = d
  <2>1. outbox'[d] = Append(outbox[d], reply) /\ outbox[d] \in Seq(Msg)
    BY <1>1, <1>6, <1>7 DEF TypeOK
  <2>2. \/ i \in DOMAIN outbox[d] /\ outbox'[d][i] = outbox[d][i]
        \/ outbox'[d][i] = reply
    BY <1>2, <1>7, <2>1, AppendElements
  <2> QED BY <1>4, <1>5, <1>7, <2>2
<1>8. CASE outbox' = outbox \/ e # d
  BY <1>1, <1>4, <1>6, <1>8 DEF TypeOK
<1> QED BY <1>7, <1>8

\* An entry of a table is written.
LEMMA TableUpdate ==
  ASSUME NEW S, NEW f \in [Devices -> [Devices -> S]], NEW g,
         NEW d \in Devices, NEW p \in Devices, NEW x, g = [f EXCEPT ![d][p] = x]
  PROVE  /\ g[d][p] = x
         /\ \A e, q \in Devices : ~(e = d /\ q = p) => g[e][q] = f[e][q]
<1>1. g[d] = [f[d] EXCEPT ![p] = x] /\ \A e \in Devices \ {d} : g[e] = f[e]
  OBVIOUS
<1> QED BY <1>1

LEMMA InboxStep ==
  ASSUME DiscoveryInv, TypeOK', NEW d \in Devices, HandleInboxMsg(d)
  PROVE  DiscoveryInv'
<1> DEFINE m == Head(inbox[d])
<1>1. /\ TypeOK /\ boots' = boots /\ inbox[d] # <<>> /\ inbox[d] \in Seq(Msg)
      /\ Addresses /\ MetBoots /\ AddresslessOnlyByOldAnswer /\ NoTimeOfEarlierBoot
  BY DEF DiscoveryInv, HandleInboxMsg, TypeOK
<1>2. m \in Msg /\ Got(d, m)
  BY <1>1, TailElements DEF DiscoveryInv, Inboxes
<1>3. /\ m.from \in Devices /\ m.boot \in Nat \ {0} /\ m.of \in Nat /\ m.to = d
      /\ met[d][m.from] <= m.boot /\ m.boot <= boots[m.from]
      /\ m.of <= boots[d] /\ (m.of = boots[d] => m.from \in addressed[d])
  BY <1>2 DEF Msg, Got, AnswerOk
<1>4. \/ ReceiveHandshakeRequest(d, m)
      \/ ReceiveHandshakeResponse(d, m)
      \/ ReceiveTimeSyncMsg(d, m)
  BY DEF HandleInboxMsg
<1> HIDE DEF m
<1>5. CASE ReceiveHandshakeRequest(d, m)
  <2>1. /\ known' = [known EXCEPT ![d] = @ \cup {m.from}]
        /\ addressed' = [addressed EXCEPT ![d] = addressed[d] \cup {m.from}]
        /\ answer' = [answer EXCEPT ![d][m.from] = NoAnswer]
        /\ times' = [times EXCEPT ![d][m.from] = 0]
        /\ met' = [met EXCEPT ![d][m.from] = m.boot]
        /\ Push(d, Reply(d, m, "HANDSHAKE_RESPONSE", 0))
    BY <1>5 DEF ReceiveHandshakeRequest, MacSaved, TimeAfterRequest
  <2>0. /\ known'[d] = known[d] \cup {m.from} /\ addressed'[d] = addressed[d] \cup {m.from}
        /\ \A e \in Devices \ {d} : known'[e] = known[e] /\ addressed'[e] = addressed[e]
    BY <1>1, <2>1 DEF TypeOK
  <2>2. /\ \A e \in Devices : addressed[e] \subseteq addressed'[e]
        /\ Addresses'
    BY <1>1, <2>0 DEF Addresses
  <2>3. \A e, p \in Devices :
          \/ e = d /\ p = m.from /\ met'[e][p] = m.boot /\ times'[e][p] = 0
          \/ ~(e = d /\ p = m.from) /\ met'[e][p] = met[e][p] /\ times'[e][p] = times[e][p]
    <3>1. met \in [Devices -> [Devices -> Nat]] /\ times \in [Devices -> [Devices -> Nat]]
      BY <1>1 DEF TypeOK
    <3> QED BY <1>3, <2>1, <3>1, TableUpdate
  <2>4. Inboxes'
    BY <2>2, <2>3, TakenInboxes DEF m
  <2>5. Outboxes'
    BY <1>1, <1>2, <2>1, <2>2, PushedOutboxes DEF Types
  <2>6. MetBoots' /\ NoTimeOfEarlierBoot'
    BY <1>1, <1>3, <2>3 DEF MetBoots, NoTimeOfEarlierBoot
  <2>7. AddresslessOnlyByOldAnswer'
    <3> SUFFICES ASSUME NEW e \in Devices, NEW p \in Addressless(e)'
                 PROVE  answer'[e][p].boot > 0 /\ answer'[e][p].of < boots'[e]
      BY DEF AddresslessOnlyByOldAnswer
    <3>1. p \in Addressless(e) /\ ~(e = d /\ p = m.from)
      BY <2>0 DEF Addressless
    <3>2. p \in Devices /\ answer \in [Devices -> [Devices -> [boot : Nat, of : Nat]]]
      BY <1>1, <3>1 DEF Addressless, TypeOK
    <3>3. answer'[e][p] = answer[e][p]
      BY <1>3, <2>1, <3>1, <3>2, TableUpdate
    <3> QED BY <1>1, <3>1, <3>3 DEF AddresslessOnlyByOldAnswer
  <2> QED BY <2>2, <2>4, <2>5, <2>6, <2>7 DEF DiscoveryInv
<1>6. CASE ReceiveHandshakeResponse(d, m)
  <2>1. /\ known' = [known EXCEPT ![d] = @ \cup {m.from}]
        /\ answer' = [answer EXCEPT ![d][m.from] = [boot |-> m.boot, of |-> m.of]]
        /\ Push(d, Reply(d, m, "TIME_SYNC", RETRIES))
        /\ UNCHANGED <<addressed, times, met>>
    BY <1>6 DEF ReceiveHandshakeResponse
  <2>2. Addresses'
    BY <1>1, <2>1 DEF TypeOK, Addresses
  <2>3. Inboxes'
    BY <2>1, TakenInboxes DEF m
  <2>4. Outboxes'
    BY <1>1, <1>2, <2>1, PushedOutboxes DEF Types
  <2>5. MetBoots' /\ NoTimeOfEarlierBoot'
    BY <1>1, <2>1 DEF MetBoots, NoTimeOfEarlierBoot
  <2>6. AddresslessOnlyByOldAnswer'
    <3> SUFFICES ASSUME NEW e \in Devices, NEW p \in Addressless(e)'
                 PROVE  answer'[e][p].boot > 0 /\ answer'[e][p].of < boots'[e]
      BY DEF AddresslessOnlyByOldAnswer
    <3>1. /\ known'[d] = known[d] \cup {m.from}
          /\ \A f \in Devices \ {d} : known'[f] = known[f]
          /\ addressed' = addressed /\ boots[d] \in Nat
          /\ answer \in [Devices -> [Devices -> [boot : Nat, of : Nat]]]
      BY <1>1, <2>1 DEF TypeOK
    <3>2. p \in Devices
      <4>1. known \in [Devices -> SUBSET Devices] /\ p \in known'[e]
        BY <1>1 DEF TypeOK, Addressless
      <4>2. known'[e] = known[e] \/ known'[e] = known[e] \cup {m.from}
        BY <3>1
      <4> QED BY <1>3, <4>1, <4>2
    <3>3. /\ answer'[d][m.from] = [boot |-> m.boot, of |-> m.of]
          /\ ~(e = d /\ p = m.from) => answer'[e][p] = answer[e][p]
      BY <1>3, <2>1, <3>1, <3>2, TableUpdate
    <3>4. CASE e = d /\ p = m.from
      <4>1. m.from \notin addressed[d]
        BY <3>1, <3>4 DEF Addressless
      <4>2. m.of # boots[d]
        BY <1>3, <4>1, Zenon
      <4>3. m.of < boots[d] /\ m.boot > 0
        <5>1. boots[d] \in Nat /\ m.boot \in Nat \ {0} /\ m.of \in Nat /\ m.of <= boots[d]
          BY <1>3, <3>1, Zenon
        <5> HIDE DEF m
        <5> QED BY <4>2, <5>1
      <4> QED BY <1>1, <3>3, <3>4, <4>3
    <3>5. CASE ~(e = d /\ p = m.from)
      <4>1. p \in Addressless(e)
        BY <3>1, <3>5 DEF Addressless
      <4> QED BY <1>1, <3>3, <3>5, <4>1 DEF AddresslessOnlyByOldAnswer
    <3> QED BY <3>4, <3>5
  <2> QED BY <2>2, <2>3, <2>4, <2>5, <2>6 DEF DiscoveryInv
<1>7. CASE ReceiveTimeSyncMsg(d, m)
  <2>1. /\ outbox' = outbox \/ Push(d, Reply(d, m, "TIME_SYNC_RESPONSE", RETRIES))
        /\ times' = times \/ times' = [times EXCEPT ![d][m.from] = m.boot]
        /\ UNCHANGED <<known, addressed, answer, met>>
    BY <1>7 DEF ReceiveTimeSyncMsg
  <2>2. Inboxes'
    BY <2>1, TakenInboxes DEF m
  <2>3. Outboxes'
    BY <1>1, <1>2, <2>1, PushedOutboxes DEF Types
  <2>4. NoTimeOfEarlierBoot'
    <3> SUFFICES ASSUME NEW e \in Devices, NEW p \in Devices, times'[e][p] # 0
                 PROVE  times'[e][p] >= met[e][p]
      BY <2>1 DEF NoTimeOfEarlierBoot
    <3>1. \/ times'[e][p] = times[e][p]
          \/ e = d /\ p = m.from /\ times'[e][p] = m.boot
      <4>1. times \in [Devices -> [Devices -> Nat]]
        BY <1>1 DEF TypeOK
      <4> QED BY <1>3, <2>1, <4>1, TableUpdate
    <3> QED BY <1>1, <1>3, <3>1 DEF NoTimeOfEarlierBoot, TypeOK
  <2>5. Addresses' /\ MetBoots' /\ AddresslessOnlyByOldAnswer'
    BY <1>1, <2>1 DEF Addresses, MetBoots, AddresslessOnlyByOldAnswer, Addressless
  <2> QED BY <2>2, <2>3, <2>4, <2>5 DEF DiscoveryInv
<1> QED BY <1>4, <1>5, <1>6, <1>7

LEMMA OutboxStep ==
  ASSUME DiscoveryInv, TypeOK', NEW d \in Devices, HandleOutboxMsg(d)
  PROVE  DiscoveryInv'
<1>1. TypeOK /\ UNCHANGED <<known, addressed, answer, times, met, boots>>
  BY DEF DiscoveryInv, HandleOutboxMsg, tableVars
<1>0. PICK m : m = Head(outbox[d])
  OBVIOUS
<1>2. /\ m \in Msg /\ m = outbox[d][1] /\ 1 \in DOMAIN outbox[d]
      /\ \A e \in Devices \ {d} : outbox'[e] = outbox[e]
      /\ \A i \in DOMAIN outbox'[d] :
           \/ \E j \in DOMAIN outbox[d] : outbox'[d][i] = outbox[d][j]
           \/ outbox'[d][i] = OneLess(m)
      /\ inbox' = inbox \/ (m.to \in addressed[d] /\ inbox' = [inbox EXCEPT ![m.to] = Append(@, m)])
  BY <1>0, <1>1, HandleOutboxMsgBoxes
<1>3. Sent(d, m) /\ m.to \in Devices
  BY <1>2 DEF DiscoveryInv, Outboxes, Msg
<1>4. /\ OneLess(m).from = m.from /\ OneLess(m).to = m.to /\ OneLess(m).boot = m.boot
      /\ OneLess(m).of = m.of
  BY <1>2 DEF OneLess, Msg
<1>5. Outboxes'
  <2> SUFFICES ASSUME NEW e \in Devices, NEW i \in DOMAIN outbox'[e]
               PROVE  Sent(e, outbox[e][i])'
    BY DEF Outboxes
  <2>1. CASE outbox'[e][i] = OneLess(m) /\ e = d
    BY <1>1, <1>3, <1>4, <2>1 DEF Sent, AnswerOk
  <2>2. CASE \E j \in DOMAIN outbox[e] : outbox'[e][i] = outbox[e][j]
    <3>1. PICK j \in DOMAIN outbox[e] : outbox'[e][i] = outbox[e][j]
      BY <2>2
    <3>2. Sent(e, outbox[e][j])
      BY DEF DiscoveryInv, Outboxes
    <3> QED BY <1>1, <3>1, <3>2 DEF Sent, AnswerOk
  <2> QED BY <1>2, <2>1, <2>2
<1>6. Inboxes'
  <2>1. CASE inbox' = inbox
    BY <1>1, <2>1 DEF DiscoveryInv, Inboxes, Got, AnswerOk, InBootOrder
  <2>2. CASE m.to \in addressed[d] /\ inbox' = [inbox EXCEPT ![m.to] = Append(@, m)]
    <3> SUFFICES ASSUME NEW e \in Devices
                 PROVE  InBootOrder(inbox[e])' /\ \A i \in DOMAIN inbox'[e] : Got(e, inbox[e][i])'
      BY DEF Inboxes
    <3>1. /\ InBootOrder(inbox[e]) /\ inbox[e] \in Seq(Msg)
          /\ \A i \in DOMAIN inbox[e] : inbox[e][i] \in Msg /\ Got(e, inbox[e][i])
      BY <1>1, Elements DEF DiscoveryInv, Inboxes, TypeOK
    <3>2. CASE e # m.to
      <4>1. inbox'[e] = inbox[e]
        BY <1>1, <2>2, <3>2 DEF TypeOK
      <4> QED BY <1>1, <3>1, <4>1 DEF Got, AnswerOk, InBootOrder
    <3>3. CASE e = m.to
      <4>1. inbox'[e] = Append(inbox[e], m)
        BY <1>1, <2>2, <3>3 DEF TypeOK
      <4>2. /\ DOMAIN inbox'[e] = 1 .. Len(inbox[e]) + 1 /\ DOMAIN inbox[e] = 1 .. Len(inbox[e])
            /\ Len(inbox[e]) \in Nat
            /\ \A i \in DOMAIN inbox[e] : inbox'[e][i] = inbox[e][i]
            /\ inbox'[e][Len(inbox[e]) + 1] = m
        BY <1>2, <3>1, <4>1, AppendElements
      <4>3. /\ m.from = d /\ m.boot = boots[d] /\ AnswerOk(m) /\ boots[d] \in Nat
            /\ met[e][d] <= m.boot
        BY <1>1, <1>3 DEF Sent, MetBoots, DiscoveryInv, TypeOK
      <4>4. Got(e, m)
        BY <2>2, <3>3, <4>3 DEF Got
      <4>5. \A i \in DOMAIN inbox'[e] : Got(e, inbox[e][i])'
        <5> SUFFICES ASSUME NEW i \in DOMAIN inbox'[e]
                     PROVE  Got(e, inbox[e][i])'
          OBVIOUS
        <5>1. CASE i \in DOMAIN inbox[e]
          BY <1>1, <3>1, <4>2, <5>1 DEF Got, AnswerOk
        <5>2. CASE i = Len(inbox[e]) + 1
          BY <1>1, <4>2, <4>4, <5>2 DEF Got, AnswerOk
        <5> QED BY <4>2, <5>1, <5>2
      <4>6. InBootOrder(inbox[e])'
        <5> SUFFICES ASSUME NEW i \in DOMAIN inbox'[e], NEW j \in DOMAIN inbox'[e], i < j,
                            inbox'[e][i].from = inbox'[e][j].from
                     PROVE  inbox'[e][i].boot <= inbox'[e][j].boot
          BY DEF InBootOrder
        <5>1. i \in DOMAIN inbox[e]
          BY <4>2
        <5>2. CASE j \in DOMAIN inbox[e]
          BY <3>1, <4>2, <5>1, <5>2 DEF InBootOrder
        <5>3. CASE j = Len(inbox[e]) + 1
          <6>1. Got(e, inbox[e][i]) /\ inbox'[e][i] = inbox[e][i] /\ inbox'[e][j] = m
            BY <3>1, <4>2, <5>1, <5>3
          <6> QED BY <4>3, <6>1 DEF Got
        <5> QED BY <4>2, <5>2, <5>3
      <4> QED BY <4>5, <4>6
    <3> QED BY <3>2, <3>3
  <2> QED BY <1>2, <2>1, <2>2
<1>7. Addresses' /\ MetBoots' /\ AddresslessOnlyByOldAnswer' /\ NoTimeOfEarlierBoot'
  BY <1>1 DEF DiscoveryInv, Addresses, MetBoots, AddresslessOnlyByOldAnswer, Addressless, NoTimeOfEarlierBoot
<1> QED BY <1>5, <1>6, <1>7 DEF DiscoveryInv

\* The strengthened invariant holds in every reachable state.
THEOREM DiscoveryInvariant == Spec => []DiscoveryInv
<1>1. DiscoveryInv /\ TypeOK' /\ [Next]_vars => DiscoveryInv'
  <2> SUFFICES ASSUME DiscoveryInv, TypeOK', [Next]_vars PROVE DiscoveryInv'
    OBVIOUS
  <2>1. ASSUME NEW d \in Devices, HandshakeEvent(d) \/ HandshakeCommand(d)
        PROVE  DiscoveryInv'
    <3>1. PICK seen \in SUBSET (Devices \ {d}), resend \in BOOLEAN : HandleHandshakes(d, seen, resend)
      BY <2>1 DEF HandshakeEvent, HandshakeCommand
    <3> QED BY <3>1, HandshakesStep
  <2>2. CASE UNCHANGED vars
    BY <2>2 DEF vars, tableVars, boxVars, boundVars, DiscoveryInv, TypeOK, Addresses, MetBoots, Outboxes,
                Inboxes, Sent, Got, AnswerOk, InBootOrder, AddresslessOnlyByOldAnswer, Addressless,
                NoTimeOfEarlierBoot
  <2> QED BY <2>1, <2>2, RestartStep, InboxStep, OutboxStep DEF Next, Update
<1> QED BY InitInv, <1>1, DiscoveryTypeCorrect, PTL DEF Spec

-----------------------------------------------------------------------------
\* A device rejects a time only if it has restarted since the message that the time answers.
THEOREM TimesAreRejectedOnlyAfterRestart == Spec => []RejectsOnlyAfterRestart
<1>1. DiscoveryInv => RejectsOnlyAfterRestart
  BY DEF DiscoveryInv, Inboxes, Got, AnswerOk, Addresses, RejectsOnlyAfterRestart, Rejects
<1> QED BY <1>1, DiscoveryInvariant, PTL

\* A peer is known without its MAC address only by the answer to a request of an earlier boot.
THEOREM AddressesAreLostOnlyByOldAnswers == Spec => []AddresslessOnlyByOldAnswer
  BY DiscoveryInvariant, PTL DEF DiscoveryInv

\* No time of a peer's earlier boot outlives the handshake of a later one.
THEOREM TimesAreOfTheLastBootMet == Spec => []NoTimeOfEarlierBoot
  BY DiscoveryInvariant, PTL DEF DiscoveryInv

-----------------------------------------------------------------------------
(* Rest.                                                                    *)

\* A message is in some box.
IsIn(m, box) == \E i \in DOMAIN box : box[i] = m
Held(m) == \E e \in Devices : IsIn(m, outbox[e]) \/ IsIn(m, inbox[e])

\* What ends with d being told the time of p's present boot: a time that p has sent, any handshake
\* message between the two, and a time that p will answer.
Leads(d, p, m) ==
  \/ m.from = p /\ m.to = d /\ (m.type \in {"TIME_SYNC", "TIME_SYNC_RESPONSE"} => m.boot = boots[p])
  \/ m.from = d /\ m.to = p /\ m.type # "TIME_SYNC_RESPONSE"
Promised(d, p) == \E m \in Msg : Held(m) /\ Leads(d, p, m)

\* Both have asked the other one for a handshake since their last restart.
BothAsked(d, p) == d # p /\ p \in asked[d] /\ d \in asked[p]
InTouch(d, p)   == p \notin Addressless(d) /\ d \notin Addressless(p)
Excused(d, p)   == dropped > 0 \/ ~InTouch(d, p)
Learns(d, p)    == times[d][p] = boots[p] \/ Excused(d, p) \/ Promised(d, p)

AskedKnown   == \A d \in Devices : asked[d] \subseteq known[d]
TimesMet     == \A d, p \in Devices : times[d][p] <= boots[p]
TimesInOrder == \A d \in Devices : \A i \in DOMAIN inbox[d] : times[d][inbox[d][i].from] <= inbox[d][i].boot

LearnInv ==
  /\ DiscoveryInv /\ AskedKnown /\ TimesMet /\ TimesInOrder
  /\ \A d, p \in Devices : BothAsked(d, p) => Learns(d, p)

\* When two devices that look for each other have nothing left to send or to handle, each of them has
\* a time of the other one's present boot, but for the reasons of TimesSettle.
Empty(d) == inbox[d] = <<>> /\ outbox[d] = <<>>
TimesAtRest ==
  \A d, p \in Devices :
    BothAsked(d, p) /\ Empty(d) /\ Empty(p) => times[d][p] = boots[p] \/ Excused(d, p)

\* Types of what is held, and whose box it is in.
LEMMA HeldTypes ==
  ASSUME DiscoveryInv
  PROVE  /\ TypeOK
         /\ \A e \in Devices : \A m : IsIn(m, outbox[e]) => m \in Msg /\ m.from = e
         /\ \A e \in Devices : \A m : IsIn(m, inbox[e]) => m \in Msg /\ m.to = e
         /\ \A m \in Msg : m.from \in Devices /\ m.to \in Devices /\ m.boot \in Nat \ {0} /\ m.type \in Types
         /\ \A d \in Devices : boots[d] \in Nat /\ \A p \in Devices : times[d][p] \in Nat
<1>1. TypeOK
  BY DEF DiscoveryInv
<1>2. \A e \in Devices : \A m : IsIn(m, outbox[e]) => m \in Msg /\ m.from = e
  BY <1>1, Elements DEF DiscoveryInv, Outboxes, Sent, IsIn
<1>3. \A e \in Devices : \A m : IsIn(m, inbox[e]) => m \in Msg /\ m.to = e
  BY <1>1, Elements DEF DiscoveryInv, Inboxes, Got, IsIn
<1>4. \A m \in Msg : m.from \in Devices /\ m.to \in Devices /\ m.boot \in Nat \ {0} /\ m.type \in Types
  BY DEF Msg
<1>5. \A d \in Devices : boots[d] \in Nat /\ \A p \in Devices : times[d][p] \in Nat
  BY <1>1 DEF TypeOK
<1> QED BY <1>1, <1>2, <1>3, <1>4, <1>5

\* A promise is kept while its message is.
LEMMA PromiseStays ==
  ASSUME NEW d \in Devices, NEW p \in Devices, Promised(d, p), boots'[p] = boots[p],
         \A m \in Msg : Held(m) /\ Leads(d, p, m) => Held(m)'
  PROVE  Promised(d, p)'
<1>1. PICK m \in Msg : Held(m) /\ Leads(d, p, m)
  BY DEF Promised
<1>2. Leads(d, p, m)'
  BY <1>1 DEF Leads
<1> QED BY <1>1, <1>2 DEF Promised

\* Every peer that is to be asked is: there are as many requests as such peers.
LEMMA AllAreAsked ==
  ASSUME TypeOK, NEW d \in Devices, NEW seen \in SUBSET (Devices \ {d}), NEW resend \in BOOLEAN,
         HandleHandshakes(d, seen, resend), NEW p \in ToAsk(d, known[d] \cup seen, resend)
  PROVE  IsIn(Request(d, p), outbox'[d])
<1> DEFINE ask == ToAsk(d, known[d] \cup seen, resend)
<1>1. ask \subseteq Devices /\ IsFiniteSet(ask) /\ Cardinality(ask) \in Nat
  <2>1. ask \subseteq Devices
    BY DEF TypeOK, ToAsk
  <2> QED BY <2>1, Constants, FS_Subset, FS_CardinalityType
<1>2. PICK ids \in [1..Cardinality(ask) -> ask] :
        /\ InOrder(ids)
        /\ outbox' = [outbox EXCEPT ![d] = [i \in DOMAIN ids |-> Request(d, ids[i])]]
  BY DEF HandleHandshakes
<1> HIDE DEF ask
<1>3. ids \in Injection(1..Cardinality(ask), ask)
  <2>1. \A i, j \in 1..Cardinality(ask) : i < j => ids[i] < ids[j]
    BY <1>2 DEF InOrder
  <2>2. \A i \in 1..Cardinality(ask) : ids[i] \in Nat
    BY <1>1, <1>2, Constants
  <2>3. \A i, j \in 1..Cardinality(ask) : ids[i] = ids[j] => i = j
    BY <1>1, <2>1, <2>2
  <2> QED BY <1>2, <2>3 DEF Injection, IsInjective
<1>4. ids \in Surjection(1..Cardinality(ask), ask)
  <2>1. Cardinality(1..Cardinality(ask)) = Cardinality(ask)
    BY <1>1, FS_Interval
  <2> QED BY <1>1, <1>3, <2>1, FS_Injection
<1>5. PICK i \in DOMAIN ids : ids[i] = p
  BY <1>4 DEF Surjection, ask
<1>6. outbox'[d] = [j \in DOMAIN ids |-> Request(d, ids[j])]
  BY <1>2 DEF TypeOK
<1> QED BY <1>5, <1>6 DEF IsIn

\* A scan: who is asked now gets the request, and who was known has no address now if it had none.
LEMMA HandshakesLearn ==
  ASSUME LearnInv, NEW d \in Devices, NEW seen \in SUBSET (Devices \ {d}),
         NEW resend \in BOOLEAN, HandleHandshakes(d, seen, resend)
  PROVE  /\ AskedKnown' /\ TimesMet' /\ TimesInOrder'
         /\ \A e, p \in Devices : BothAsked(e, p)' => Learns(e, p)'
<1> DEFINE peers == known[d] \cup seen
           ask == ToAsk(d, peers, resend)
<1>1. /\ TypeOK /\ outbox[d] = <<>> /\ UNCHANGED <<times, boots, dropped, inbox>>
      /\ AskedKnown /\ TimesMet /\ TimesInOrder
      /\ known' = [known EXCEPT ![d] = peers]
      /\ addressed' = [addressed EXCEPT ![d] = @ \cup (seen \ known[d])]
      /\ asked' = [asked EXCEPT ![d] = @ \cup ask]
  BY DEF LearnInv, DiscoveryInv, HandleHandshakes
<1>2. /\ known'[d] = peers /\ asked'[d] = asked[d] \cup ask /\ ask \subseteq peers
      /\ addressed'[d] = addressed[d] \cup (seen \ known[d])
      /\ \A e \in Devices \ {d} : known'[e] = known[e] /\ asked'[e] = asked[e] /\ addressed'[e] = addressed[e]
  BY <1>1 DEF TypeOK, ToAsk
<1> HIDE DEF ask
<1>3. AskedKnown' /\ TimesMet' /\ TimesInOrder'
  <2>1. AskedKnown'
    BY <1>1, <1>2 DEF AskedKnown
  <2> QED BY <1>1, <2>1 DEF TimesMet, TimesInOrder
<1>4. ASSUME NEW m \in Msg, Held(m)
      PROVE  Held(m)'
  <2>1. \A e \in Devices \ {d} : outbox'[e] = outbox[e]
    <3>1. TypeOK
      BY <1>1
    <3> QED BY <3>1, HandleHandshakesType, Zenon
  <2>2. ~IsIn(m, outbox[d])
    BY <1>1 DEF IsIn
  <2> QED BY <1>1, <1>4, <2>1, <2>2 DEF Held, IsIn
<1>5. ASSUME NEW e \in Devices, NEW p \in Devices, BothAsked(e, p)'
      PROVE  Learns(e, p)'
  <2>1. CASE BothAsked(e, p)
    <3>1. Learns(e, p)
      BY <2>1 DEF LearnInv
    <3>2. \A f \in Devices : \A q \in Addressless(f) : q \in Addressless(f)'
      BY <1>2 DEF Addressless
    <3>3. CASE Excused(e, p)
      BY <1>1, <3>2, <3>3 DEF Learns, Excused, InTouch
    <3>4. CASE Promised(e, p)
      <4>1. Promised(e, p)'
        BY <1>1, <1>4, <3>4, PromiseStays
      <4> QED BY <4>1 DEF Learns
    <3> QED BY <1>1, <3>1, <3>3, <3>4 DEF Learns
  <2>2. CASE ~BothAsked(e, p)
    <3>1. PICK q \in ask : (d = e /\ q = p) \/ (d = p /\ q = e)
      BY <1>2, <1>5, <2>2 DEF BothAsked
    <3>2. PICK m : m = Request(d, q)
      OBVIOUS
    <3>3. q \in Devices /\ IsIn(m, outbox'[d])
      <4>1. TypeOK /\ known[d] \subseteq Devices /\ q \in known[d] \cup seen
        BY <1>1, <1>2, <3>1 DEF TypeOK
      <4>2. q \in ToAsk(d, known[d] \cup seen, resend)
        BY <3>1 DEF ask
      <4>3. IsIn(Request(d, q), outbox'[d])
        BY <4>1, <4>2, AllAreAsked, Zenon
      <4> QED BY <3>2, <4>1, <4>3
    <3>4. m \in Msg
      BY <1>1, <3>2, <3>3, RequestType
    <3>5. Promised(e, p)'
      <4>1. Leads(e, p, m)' /\ Held(m)'
        BY <1>1, <3>1, <3>2, <3>3 DEF Leads, Held, Request
      <4> QED BY <3>4, <4>1 DEF Promised
    <3> QED BY <3>5 DEF Learns
  <2> QED BY <2>1, <2>2
<1> QED BY <1>3, <1>5

\* What taking the first message of an inbox does to the messages that are held.
LEMMA TakenHeld ==
  ASSUME DiscoveryInv, NEW d \in Devices, HandleInboxMsg(d), NEW m, m = Head(inbox[d]),
         NEW r \in Msg, outbox' = outbox \/ Push(d, r)
  PROVE  /\ \A x \in Msg : Held(x) /\ x # m => Held(x)'
         /\ Push(d, r) => Held(r)'
<1>1. TypeOK /\ inbox[d] \in Seq(Msg) /\ inbox[d] # <<>> /\ outbox[d] \in Seq(Msg)
  BY DEF DiscoveryInv, HandleInboxMsg, TypeOK
<1>2. inbox'[d] = Tail(inbox[d]) /\ \A e \in Devices \ {d} : inbox'[e] = inbox[e]
  BY <1>1 DEF HandleInboxMsg, TypeOK
<1>3. \A x : x # m /\ IsIn(x, inbox[d]) => IsIn(x, inbox'[d])
  <2> SUFFICES ASSUME NEW i \in DOMAIN inbox[d], inbox[d][i] # m
               PROVE  IsIn(inbox[d][i], inbox'[d])
    BY DEF IsIn
  <2>1. /\ inbox'[d] \in Seq(Msg) /\ Len(inbox'[d]) = Len(inbox[d]) - 1 /\ m = inbox[d][1]
        /\ \A j \in 1 .. Len(inbox'[d]) : inbox'[d][j] = inbox[d][j + 1]
    BY <1>1, <1>2, HeadTailProperties
  <2>2. DOMAIN inbox[d] = 1 .. Len(inbox[d]) /\ DOMAIN inbox'[d] = 1 .. Len(inbox'[d]) /\ Len(inbox[d]) \in Nat
    BY <1>1, <2>1, LenProperties
  <2>3. i \in Nat /\ i # 1
    BY <2>1, <2>2
  <2>4. i - 1 \in 1 .. Len(inbox'[d]) /\ (i - 1) + 1 = i
    BY <2>1, <2>2, <2>3
  <2> QED BY <2>1, <2>2, <2>4 DEF IsIn
<1>4. /\ \A e \in Devices : \A x : IsIn(x, outbox[e]) => IsIn(x, outbox'[e])
      /\ Push(d, r) => IsIn(r, outbox'[d])
  <2>1. CASE outbox' = outbox /\ ~Push(d, r)
    BY <2>1
  <2>2. CASE Push(d, r)
    <3>1. outbox'[d] = Append(outbox[d], r) /\ \A e \in Devices \ {d} : outbox'[e] = outbox[e]
      BY <1>1, <2>2 DEF Push, TypeOK
    <3>2. /\ DOMAIN outbox'[d] = 1 .. Len(outbox[d]) + 1 /\ DOMAIN outbox[d] = 1 .. Len(outbox[d])
          /\ Len(outbox[d]) \in Nat
          /\ \A i \in DOMAIN outbox[d] : outbox'[d][i] = outbox[d][i]
          /\ outbox'[d][Len(outbox[d]) + 1] = r
      BY <1>1, <3>1, AppendElements
    <3>3. \A x : IsIn(x, outbox[d]) => IsIn(x, outbox'[d])
      BY <3>2 DEF IsIn
    <3>4. IsIn(r, outbox'[d])
      BY <3>2 DEF IsIn
    <3> QED BY <3>1, <3>3, <3>4
  <2> QED BY <2>1, <2>2
<1>5. ASSUME NEW x \in Msg, Held(x), x # m
      PROVE  Held(x)'
  BY <1>2, <1>3, <1>4, <1>5 DEF Held
<1>6. Push(d, r) => Held(r)'
  BY <1>4 DEF Held
<1> QED BY <1>5, <1>6

\* Times in the inbox keep their order.
LEMMA TakenTimes ==
  ASSUME LearnInv, NEW d \in Devices, HandleInboxMsg(d), NEW m, m = Head(inbox[d]),
         \A e, p \in Devices :
           \/ times'[e][p] = times[e][p]
           \/ e = d /\ p = m.from /\ times'[e][p] \in {0, m.boot}
  PROVE  TimesMet' /\ TimesInOrder'
<1>1. /\ DiscoveryInv /\ TypeOK /\ boots' = boots /\ inbox[d] \in Seq(Msg) /\ inbox[d] # <<>>
      /\ TimesMet /\ TimesInOrder
  BY DEF LearnInv, DiscoveryInv, HandleInboxMsg, TypeOK
<1>2. inbox'[d] = Tail(inbox[d]) /\ \A e \in Devices \ {d} : inbox'[e] = inbox[e]
  BY <1>1 DEF HandleInboxMsg, TypeOK
<1>3. /\ 1 \in DOMAIN inbox[d] /\ m = inbox[d][1] /\ m \in Msg
      /\ \A i \in DOMAIN inbox'[d] : 1 < i + 1 /\ i + 1 \in DOMAIN inbox[d] /\ inbox'[d][i] = inbox[d][i + 1]
  BY <1>1, <1>2, TailElements
<1>4. /\ \A e \in Devices : InBootOrder(inbox[e])
      /\ \A e \in Devices : \A i \in DOMAIN inbox[e] : inbox[e][i] \in Msg /\ Got(e, inbox[e][i])
  BY <1>1, Elements DEF DiscoveryInv, Inboxes
<1>5. m.boot <= boots[m.from] /\ m.boot \in Nat /\ m.from \in Devices
  BY <1>3, <1>4 DEF Got, Msg
<1>6. TimesMet'
  <2> SUFFICES ASSUME NEW e \in Devices, NEW p \in Devices
               PROVE  times'[e][p] <= boots'[p]
    BY DEF TimesMet
  <2>1. boots[p] \in Nat /\ times[e][p] <= boots[p]
    BY <1>1 DEF TimesMet, TypeOK
  <2>2. times'[e][p] = times[e][p] \/ (p = m.from /\ times'[e][p] \in {0, m.boot})
    OBVIOUS
  <2> QED BY <1>1, <1>5, <2>1, <2>2
<1>7. TimesInOrder'
  <2> SUFFICES ASSUME NEW e \in Devices, NEW i \in DOMAIN inbox'[e]
               PROVE  times'[e][inbox'[e][i].from] <= inbox'[e][i].boot
    BY DEF TimesInOrder
  <2>1. CASE e # d
    <3>1. inbox'[e] = inbox[e] /\ inbox[e][i] \in Msg
      BY <1>2, <1>4, <2>1
    <3>2. inbox[e][i].from \in Devices
      BY <3>1 DEF Msg
    <3> QED BY <1>1, <2>1, <3>1, <3>2 DEF TimesInOrder
  <2>2. CASE e = d
    <3>1. PICK x \in Msg : x = inbox[d][i + 1] /\ x = inbox'[e][i] /\ i + 1 \in DOMAIN inbox[d] /\ 1 < i + 1
      BY <1>3, <1>4, <2>2
    <3>2. x.from \in Devices /\ x.boot \in Nat
      BY <3>1 DEF Msg
    <3>3. times[d][x.from] <= x.boot
      BY <1>1, <3>1 DEF TimesInOrder
    <3>4. x.from = m.from => m.boot <= x.boot
      <4>1. \A k, j \in DOMAIN inbox[d] :
              k < j /\ inbox[d][k].from = inbox[d][j].from => inbox[d][k].boot <= inbox[d][j].boot
        BY <1>4 DEF InBootOrder
      <4> QED BY <1>3, <3>1, <4>1
    <3>5. times'[d][x.from] = times[d][x.from] \/ (x.from = m.from /\ times'[d][x.from] \in {0, m.boot})
      BY <3>2
    <3> QED BY <2>2, <3>1, <3>2, <3>3, <3>4, <3>5
  <2> QED BY <2>1, <2>2
<1> QED BY <1>6, <1>7

\* A message is handled: of the two devices concerned, each has the time now, or is promised it by
\* the answer, or by what it was promised by before.
LEMMA InboxLearns ==
  ASSUME LearnInv, NEW d \in Devices, HandleInboxMsg(d)
  PROVE  /\ AskedKnown' /\ TimesMet' /\ TimesInOrder'
         /\ \A e, p \in Devices : BothAsked(e, p)' => Learns(e, p)'
<1>1. PICK m : m = Head(inbox[d])
  OBVIOUS
<1>2. PICK q : q = m.from
  OBVIOUS
<1>3. /\ DiscoveryInv /\ TypeOK /\ AskedKnown /\ TimesInOrder
      /\ UNCHANGED <<asked, boots, dropped>> /\ inbox[d] \in Seq(Msg) /\ inbox[d] # <<>>
  BY DEF LearnInv, DiscoveryInv, HandleInboxMsg, ReceiveHandshakeRequest, ReceiveHandshakeResponse,
         ReceiveTimeSyncMsg, TypeOK
<1>4. /\ m \in Msg /\ Got(d, m) /\ 1 \in DOMAIN inbox[d] /\ m = inbox[d][1]
  BY <1>1, <1>3, TailElements DEF DiscoveryInv, Inboxes
<1>5. q \in Devices /\ m.to = d /\ m.boot \in Nat /\ m.boot <= boots[q] /\ times[d][q] <= m.boot
  BY <1>2, <1>3, <1>4 DEF Got, Msg, TimesInOrder
<1>6. boots[q] \in Nat /\ times[d][q] \in Nat
  BY <1>3, <1>5 DEF TypeOK
<1>7. PICK type \in Types, left \in {0, RETRIES}, r \in Msg :
        /\ r = Reply(d, m, type, left) /\ (outbox' = outbox \/ Push(d, r))
        /\ \/ ReceiveHandshakeRequest(d, m) /\ Push(d, r) /\ type # "TIME_SYNC_RESPONSE"
           \/ ReceiveHandshakeResponse(d, m) /\ Push(d, r) /\ type # "TIME_SYNC_RESPONSE"
           \/ ReceiveTimeSyncMsg(d, m) /\ (~Rejects(d, m) /\ m.type = "TIME_SYNC" => Push(d, r))
  <2>1. \/ ReceiveHandshakeRequest(d, m) \/ ReceiveHandshakeResponse(d, m) \/ ReceiveTimeSyncMsg(d, m)
    BY <1>1 DEF HandleInboxMsg
  <2>2. CASE ReceiveHandshakeRequest(d, m)
    <3>1. /\ Push(d, Reply(d, m, "HANDSHAKE_RESPONSE", 0)) /\ "HANDSHAKE_RESPONSE" \in Types
          /\ Reply(d, m, "HANDSHAKE_RESPONSE", 0) \in Msg
      BY <1>3, <1>4, <2>2, ReplyType DEF ReceiveHandshakeRequest, Types
    <3> QED BY <2>2, <3>1
  <2>3. CASE ReceiveHandshakeResponse(d, m)
    <3>1. /\ Push(d, Reply(d, m, "TIME_SYNC", RETRIES)) /\ "TIME_SYNC" \in Types
          /\ Reply(d, m, "TIME_SYNC", RETRIES) \in Msg
      BY <1>3, <1>4, <2>3, ReplyType DEF ReceiveHandshakeResponse, Types
    <3> QED BY <2>3, <3>1
  <2>4. CASE ReceiveTimeSyncMsg(d, m)
    <3>1. /\ outbox' = outbox \/ Push(d, Reply(d, m, "TIME_SYNC_RESPONSE", RETRIES))
          /\ ~Rejects(d, m) /\ m.type = "TIME_SYNC" => Push(d, Reply(d, m, "TIME_SYNC_RESPONSE", RETRIES))
          /\ "TIME_SYNC_RESPONSE" \in Types /\ Reply(d, m, "TIME_SYNC_RESPONSE", RETRIES) \in Msg
      BY <1>3, <1>4, <2>4, ReplyType DEF ReceiveTimeSyncMsg, IsAnswered, Types
    <3> QED BY <2>4, <3>1
  <2> QED BY <2>1, <2>2, <2>3, <2>4
<1>8. /\ \A x \in Msg : Held(x) /\ x # m => Held(x)'
      /\ Push(d, r) => Held(r)'
  BY <1>1, <1>3, <1>7, TakenHeld
<1>9. /\ Leads(q, d, r)'
      /\ type # "TIME_SYNC_RESPONSE" => Leads(d, q, r)'
  <2>1. r.from = d /\ r.to = q /\ r.boot = boots[d] /\ r.type = type
    BY <1>2, <1>7 DEF Reply
  <2> QED BY <1>3, <2>1 DEF Leads
<1>10. /\ \A e, p \in Devices : ~(e = d /\ p = q) => times'[e][p] = times[e][p]
       /\ times'[d][q] \in {times[d][q], 0, m.boot}
       /\ ReceiveTimeSyncMsg(d, m) /\ ~Rejects(d, m) => times'[d][q] = m.boot
  <2>1. /\ times' = times \/ times' = [times EXCEPT ![d][q] = 0] \/ times' = [times EXCEPT ![d][q] = m.boot]
        /\ ReceiveTimeSyncMsg(d, m) /\ ~Rejects(d, m) => times' = [times EXCEPT ![d][q] = m.boot]
    BY <1>2, <1>7 DEF ReceiveHandshakeRequest, TimeAfterRequest, ReceiveHandshakeResponse, ReceiveTimeSyncMsg
  <2>2. ASSUME NEW x, times' = [times EXCEPT ![d][q] = x]
        PROVE  /\ times'[d][q] = x
               /\ \A e, p \in Devices : ~(e = d /\ p = q) => times'[e][p] = times[e][p]
    BY <1>3, <1>5, <2>2, TableUpdate DEF TypeOK
  <2>3. ReceiveTimeSyncMsg(d, m) /\ ~Rejects(d, m) => times'[d][q] = m.boot
    BY <2>1, <2>2
  <2>4. CASE times' = times
    BY <2>3, <2>4
  <2>5. CASE \E x \in {0, m.boot} : times' = [times EXCEPT ![d][q] = x]
    BY <2>2, <2>3, <2>5
  <2> QED BY <2>1, <2>4, <2>5
<1>11. /\ \A e \in Devices : known[e] \subseteq known'[e]
       /\ \A e, p \in Devices : p \in known'[e] => p \in known[e] \/ (e = d /\ p = q)
       /\ \A e, p \in Devices : ~(e = d /\ p = q) => (p \in addressed'[e] <=> p \in addressed[e])
  <2>1. /\ known' \in {known, [known EXCEPT ![d] = @ \cup {q}]}
        /\ addressed' \in {addressed, [addressed EXCEPT ![d] = @ \cup {q}]}
    BY <1>2, <1>7 DEF ReceiveHandshakeRequest, MacSaved, ReceiveHandshakeResponse, ReceiveTimeSyncMsg
  <2>2. known \in [Devices -> SUBSET Devices] /\ addressed \in [Devices -> SUBSET Devices]
    BY <1>3 DEF TypeOK
  <2>3. \A e \in Devices : known'[e] \in {known[e], IF e = d THEN known[e] \cup {q} ELSE known[e]}
    BY <2>1, <2>2
  <2>4. \A e \in Devices :
          addressed'[e] \in {addressed[e], IF e = d THEN addressed[e] \cup {q} ELSE addressed[e]}
    BY <2>1, <2>2
  <2> QED BY <2>3, <2>4
<1>12. AskedKnown' /\ TimesMet' /\ TimesInOrder'
  <2>1. AskedKnown'
    BY <1>3, <1>11 DEF AskedKnown
  <2>2. TimesMet' /\ TimesInOrder'
    BY <1>1, <1>2, <1>10, TakenTimes
  <2> QED BY <2>1, <2>2
<1>13. ASSUME NEW e \in Devices, NEW p \in Devices, BothAsked(e, p)'
       PROVE  Learns(e, p)'
  <2>1. e # p /\ BothAsked(e, p) /\ Learns(e, p) /\ p \in known[e] /\ e \in known[p]
    BY <1>3, <1>13 DEF BothAsked, LearnInv, AskedKnown
  \* Promises of other messages.
  <2>2. ASSUME Promised(e, p), ~Leads(e, p, m)
        PROVE  Learns(e, p)'
    <3>1. \A x \in Msg : Held(x) /\ Leads(e, p, x) => Held(x)'
      BY <1>8, <2>2
    <3>2. Promised(e, p)'
      BY <1>3, <2>2, <3>1, PromiseStays
    <3> QED BY <3>2 DEF Learns
  \* The promise of the answer.
  <2>3. ASSUME Push(d, r), Leads(e, p, r)'
        PROVE  Learns(e, p)'
    <3>1. Promised(e, p)'
      BY <1>7, <1>8, <2>3 DEF Promised
    <3> QED BY <3>1 DEF Learns
  <2>4. dropped > 0 => Learns(e, p)'
    BY <1>3 DEF Learns, Excused
  <2>5. CASE ~(e = d /\ p = q) /\ ~(e = q /\ p = d)
    <3>1. times'[e][p] = times[e][p] /\ (~InTouch(e, p) => ~InTouch(e, p)')
      BY <1>10, <1>11, <2>1, <2>5 DEF InTouch, Addressless
    <3>2. ~Leads(e, p, m)
      BY <1>2, <1>5, <2>5 DEF Leads
    <3> QED BY <1>3, <2>1, <2>2, <3>1, <3>2 DEF Learns, Excused
  <2>6. CASE e = q /\ p = d
    <3>1. CASE ReceiveTimeSyncMsg(d, m)
      <4>1. ~Rejects(d, m)
        BY <1>2, <2>1, <2>6 DEF Rejects
      <4>2. m.type \in {"TIME_SYNC", "TIME_SYNC_RESPONSE"} /\ UNCHANGED <<known, addressed>>
        BY <3>1 DEF ReceiveTimeSyncMsg
      <4>3. CASE m.type = "TIME_SYNC"
        BY <1>7, <1>9, <2>3, <2>6, <3>1, <4>1, <4>3 DEF ReceiveHandshakeRequest, ReceiveHandshakeResponse
      <4>4. CASE m.type = "TIME_SYNC_RESPONSE"
        <5>1. ~Leads(e, p, m)
          BY <1>2, <1>5, <2>1, <2>6, <4>4 DEF Leads
        <5>2. times'[e][p] = times[e][p] /\ (~InTouch(e, p) => ~InTouch(e, p)')
          BY <1>10, <2>1, <2>6, <4>2 DEF InTouch, Addressless
        <5> QED BY <1>3, <2>1, <2>2, <5>1, <5>2 DEF Learns, Excused
      <4> QED BY <4>2, <4>3, <4>4
    <3>2. CASE ~ReceiveTimeSyncMsg(d, m)
      BY <1>7, <1>9, <2>3, <2>6, <3>2
    <3> QED BY <3>1, <3>2
  <2>7. CASE e = d /\ p = q
    <3>1. CASE ReceiveTimeSyncMsg(d, m)
      <4>1. ~Rejects(d, m)
        BY <1>2, <2>1, <2>7 DEF Rejects
      <4>2. m.type \in {"TIME_SYNC", "TIME_SYNC_RESPONSE"} /\ UNCHANGED <<known, addressed>>
        BY <3>1 DEF ReceiveTimeSyncMsg
      <4>3. times'[e][p] = m.boot
        BY <1>10, <2>7, <3>1, <4>1
      <4>4. CASE m.boot = boots[p]
        BY <1>3, <4>3, <4>4 DEF Learns
      <4>5. CASE m.boot # boots[p]
        <5>1. ~Leads(e, p, m)
          BY <1>2, <1>5, <2>1, <2>7, <4>2, <4>5 DEF Leads
        <5>2. times[e][p] # boots[p]
          <6>1. m.boot # boots[q]
            BY <2>7, <4>5
          <6>2. times[d][q] # boots[q]
            BY <1>5, <1>6, <6>1
          <6> QED BY <2>7, <6>2
        <5>3. ~InTouch(e, p) => ~InTouch(e, p)'
          BY <4>2 DEF InTouch, Addressless
        <5> QED BY <1>3, <2>1, <2>2, <5>1, <5>2, <5>3 DEF Learns, Excused
      <4> QED BY <4>4, <4>5
    <3>2. CASE ~ReceiveTimeSyncMsg(d, m)
      BY <1>7, <1>9, <2>3, <2>7, <3>2
    <3> QED BY <3>1, <3>2
  <2> QED BY <2>5, <2>6, <2>7
<1> QED BY <1>12, <1>13

\* What a transmission does to the messages that are held.
LEMMA SentHeld ==
  ASSUME DiscoveryInv, NEW d \in Devices, HandleOutboxMsg(d), NEW m, m = Head(outbox[d])
  PROVE  /\ m \in Msg /\ m.from = d
         /\ \A x \in Msg : Held(x) /\ x # m => Held(x)'
         /\ \/ Held(m)'
            \/ OneLess(m) \in Msg /\ Held(OneLess(m))'
            \/ dropped' > 0
            \/ m.to \notin addressed[d]
<1>1. TypeOK /\ outbox[d] \in Seq(Msg) /\ outbox[d] # <<>> /\ dropped \in Nat
  BY DEF DiscoveryInv, HandleOutboxMsg, TypeOK
<1>2. m \in Msg /\ m.from = d /\ Tail(outbox[d]) \in Seq(Msg) /\ m.to \in Devices
  <2>1. m \in Msg /\ 1 \in DOMAIN outbox[d] /\ m = outbox[d][1] /\ Tail(outbox[d]) \in Seq(Msg)
    BY <1>1, TailElements
  <2>2. Sent(d, m)
    BY <2>1 DEF DiscoveryInv, Outboxes
  <2> QED BY <2>1, <2>2 DEF Sent, Msg
<1>3. /\ SentAgain(d, m) \in Seq(Msg)
      /\ SentAgain(d, m) = <<>> \/ (SentAgain(d, m) = <<OneLess(m)>> /\ OneLess(m) \in Msg)
  <2>1. <<OneLess(m)>> # <<>>
    OBVIOUS
  <2> QED BY <1>2, <2>1, SentAgainType
<1>4. PICK again \in Seq(Msg) :
        /\ outbox' = [outbox EXCEPT ![d] = Tail(@) \o again]
        /\ \/ again = <<>> /\ inbox' = [inbox EXCEPT ![m.to] = Append(@, m)]
           \/ again = <<>> /\ inbox' = inbox /\ (dropped' > 0 \/ m.to \notin addressed[d])
           \/ again = <<OneLess(m)>> /\ inbox' = inbox /\ OneLess(m) \in Msg
  <2>1. Tail(outbox[d]) \o <<>> = Tail(outbox[d])
    BY <1>2
  <2>2. [outbox EXCEPT ![d] = Tail(@)] = [outbox EXCEPT ![d] = Tail(@) \o <<>>]
    BY <1>1, <2>1 DEF TypeOK
  <2>3. \/ /\ inbox' = [inbox EXCEPT ![m.to] = Append(@, m)]
           /\ outbox' = [outbox EXCEPT ![d] = Tail(@)]
        \/ \E again \in {SentAgain(d, m), <<>>} :
             /\ inbox' = inbox /\ outbox' = [outbox EXCEPT ![d] = Tail(@) \o again]
             /\ dropped' = IF again = <<>> THEN dropped + 1 ELSE dropped
        \/ /\ m.to \notin addressed[d]
           /\ inbox' = inbox /\ outbox' = [outbox EXCEPT ![d] = Tail(@)]
    BY DEF HandleOutboxMsg
  <2>4. <<>> \in Seq(Msg) /\ dropped + 1 > 0
    BY <1>1
  <2>5. CASE inbox' = [inbox EXCEPT ![m.to] = Append(@, m)] /\ outbox' = [outbox EXCEPT ![d] = Tail(@)]
    BY <2>2, <2>4, <2>5
  <2>6. CASE \E again \in {SentAgain(d, m), <<>>} :
               /\ inbox' = inbox /\ outbox' = [outbox EXCEPT ![d] = Tail(@) \o again]
               /\ dropped' = IF again = <<>> THEN dropped + 1 ELSE dropped
    <3>1. PICK again \in {SentAgain(d, m), <<>>} :
            /\ inbox' = inbox /\ outbox' = [outbox EXCEPT ![d] = Tail(@) \o again]
            /\ dropped' = IF again = <<>> THEN dropped + 1 ELSE dropped
      BY <2>6
    <3>2. CASE again = <<>>
      BY <2>4, <3>1, <3>2
    <3>3. CASE again = <<OneLess(m)>> /\ OneLess(m) \in Msg
      BY <1>3, <3>1, <3>3
    <3> QED BY <1>3, <3>1, <3>2, <3>3
  <2>7. CASE m.to \notin addressed[d] /\ inbox' = inbox /\ outbox' = [outbox EXCEPT ![d] = Tail(@)]
    BY <2>2, <2>4, <2>7
  <2> QED BY <2>3, <2>5, <2>6, <2>7, Zenon
<1>5. outbox'[d] = Tail(outbox[d]) \o again /\ \A e \in Devices \ {d} : outbox'[e] = outbox[e]
  BY <1>1, <1>4 DEF TypeOK
<1> DEFINE t == Tail(outbox[d])
<1>6. /\ Len(t) = Len(outbox[d]) - 1 /\ m = outbox[d][1] /\ Len(outbox[d]) \in Nat
      /\ \A j \in 1 .. Len(t) : t[j] = outbox[d][j + 1]
      /\ DOMAIN outbox[d] = 1 .. Len(outbox[d]) /\ DOMAIN t = 1 .. Len(t)
  BY <1>1, <1>2, HeadTailProperties, LenProperties
<1>7. \A x : x # m /\ IsIn(x, outbox[d]) => IsIn(x, t)
  <2> SUFFICES ASSUME NEW i \in DOMAIN outbox[d], outbox[d][i] # m
               PROVE  IsIn(outbox[d][i], t)
    BY DEF IsIn
  <2>1. i \in Nat /\ i # 1
    BY <1>6
  <2>2. i - 1 \in 1 .. Len(t) /\ (i - 1) + 1 = i
    BY <1>6, <2>1
  <2> QED BY <1>6, <2>2 DEF IsIn
<1> HIDE DEF t
<1>8. /\ \A x : IsIn(x, t) => IsIn(x, outbox'[d])
      /\ again = <<OneLess(m)>> => IsIn(OneLess(m), outbox'[d])
  <2>1. /\ DOMAIN outbox'[d] = 1 .. Len(t) + Len(again) /\ Len(t) \in Nat /\ Len(again) \in Nat
        /\ \A i \in 1 .. Len(t) : outbox'[d][i] = t[i]
        /\ \A i \in 1 .. Len(again) : outbox'[d][Len(t) + i] = again[i]
    <3>1. t \in Seq(Msg) /\ outbox'[d] = t \o again
      BY <1>2, <1>5 DEF t
    <3>2. outbox'[d] \in Seq(Msg) /\ Len(outbox'[d]) = Len(t) + Len(again)
      BY <3>1, ConcatProperties
    <3> QED BY <3>1, <3>2, ConcatProperties, LenProperties
  <2>2. again = <<OneLess(m)>> => Len(again) = 1 /\ again[1] = OneLess(m)
    OBVIOUS
  <2>3. ASSUME NEW i \in DOMAIN t
        PROVE  IsIn(t[i], outbox'[d])
    <3>1. i \in DOMAIN outbox'[d] /\ outbox'[d][i] = t[i]
      BY <1>6, <2>1
    <3> QED BY <3>1 DEF IsIn
  <2>4. ASSUME again = <<OneLess(m)>>
        PROVE  IsIn(OneLess(m), outbox'[d])
    <3>1. Len(t) + 1 \in DOMAIN outbox'[d] /\ outbox'[d][Len(t) + 1] = OneLess(m)
      BY <2>1, <2>2, <2>4
    <3> QED BY <3>1 DEF IsIn
  <2>5. \A x : IsIn(x, t) => IsIn(x, outbox'[d])
    BY <2>3 DEF IsIn
  <2> QED BY <2>4, <2>5
<1>9. /\ \A e \in Devices : \A x : IsIn(x, inbox[e]) => IsIn(x, inbox'[e])
      /\ inbox' = [inbox EXCEPT ![m.to] = Append(@, m)] => IsIn(m, inbox'[m.to])
  <2>1. CASE inbox' = inbox /\ inbox' # [inbox EXCEPT ![m.to] = Append(@, m)]
    BY <2>1
  <2>0. inbox' = inbox \/ inbox' = [inbox EXCEPT ![m.to] = Append(@, m)]
    BY <1>4
  <2>2. CASE inbox' = [inbox EXCEPT ![m.to] = Append(@, m)]
    <3>1. /\ inbox[m.to] \in Seq(Msg) /\ inbox'[m.to] = Append(inbox[m.to], m)
          /\ \A e \in Devices \ {m.to} : inbox'[e] = inbox[e]
      BY <1>1, <1>2, <2>2 DEF TypeOK
    <3>2. /\ DOMAIN inbox'[m.to] = 1 .. Len(inbox[m.to]) + 1 /\ DOMAIN inbox[m.to] = 1 .. Len(inbox[m.to])
          /\ Len(inbox[m.to]) \in Nat
          /\ \A i \in DOMAIN inbox[m.to] : inbox'[m.to][i] = inbox[m.to][i]
          /\ inbox'[m.to][Len(inbox[m.to]) + 1] = m
      <4>1. PICK s \in Seq(Msg) : s = inbox[m.to]
        BY <3>1
      <4>2. m \in Msg /\ inbox'[m.to] = Append(s, m)
        BY <1>2, <3>1, <4>1
      <4>3. /\ DOMAIN Append(s, m) = 1 .. Len(s) + 1 /\ DOMAIN s = 1 .. Len(s) /\ Len(s) \in Nat
            /\ \A i \in DOMAIN s : Append(s, m)[i] = s[i]
            /\ Append(s, m)[Len(s) + 1] = m
        BY <4>2, AppendElements
      <4> QED BY <4>1, <4>2, <4>3, Zenon
    <3>3. \A i \in DOMAIN inbox[m.to] : i \in DOMAIN inbox'[m.to]
      BY <3>2
    <3>4. \A x : IsIn(x, inbox[m.to]) => IsIn(x, inbox'[m.to])
      BY <3>2, <3>3 DEF IsIn
    <3>5. IsIn(m, inbox'[m.to])
      <4>1. Len(inbox[m.to]) + 1 \in DOMAIN inbox'[m.to]
        BY <3>2
      <4> QED BY <3>2, <4>1 DEF IsIn
    <3> QED BY <3>1, <3>4, <3>5
  <2> QED BY <2>0, <2>1, <2>2
<1>10. ASSUME NEW x \in Msg, Held(x), x # m
       PROVE  Held(x)'
  BY <1>5, <1>7, <1>8, <1>9, <1>10 DEF Held
<1>11. \/ Held(m)'
       \/ OneLess(m) \in Msg /\ Held(OneLess(m))'
       \/ dropped' > 0
       \/ m.to \notin addressed[d]
  <2>1. inbox' = [inbox EXCEPT ![m.to] = Append(@, m)] => Held(m)'
    BY <1>2, <1>9 DEF Held
  <2>2. again = <<OneLess(m)>> => Held(OneLess(m))'
    BY <1>8 DEF Held
  <2> QED BY <1>4, <2>1, <2>2
<1> QED BY <1>2, <1>10, <1>11

\* A transmission: the message is there, is sent again, or is given up.
LEMMA OutboxLearns ==
  ASSUME LearnInv, NEW d \in Devices, HandleOutboxMsg(d)
  PROVE  /\ AskedKnown' /\ TimesMet' /\ TimesInOrder'
         /\ \A e, p \in Devices : BothAsked(e, p)' => Learns(e, p)'
<1>1. PICK m : m = Head(outbox[d])
  OBVIOUS
<1>2. /\ DiscoveryInv /\ TypeOK /\ AskedKnown /\ TimesMet /\ TimesInOrder
      /\ UNCHANGED <<known, addressed, asked, times, boots>>
  BY DEF LearnInv, DiscoveryInv, HandleOutboxMsg, tableVars
<1>3. /\ m \in Msg /\ m.from = d
      /\ \A x \in Msg : Held(x) /\ x # m => Held(x)'
      /\ Held(m)' \/ (OneLess(m) \in Msg /\ Held(OneLess(m))') \/ dropped' > 0 \/ m.to \notin addressed[d]
  BY <1>1, <1>2, SentHeld
<1>4. dropped > 0 => dropped' > 0
  <2>1. dropped \in Nat /\ dropped' \in {dropped, dropped + 1}
    BY <1>2 DEF HandleOutboxMsg, TypeOK
  <2> QED BY <2>1
<1>5. TimesInOrder'
  <2> SUFFICES ASSUME NEW e \in Devices, NEW i \in DOMAIN inbox'[e]
               PROVE  times[e][inbox'[e][i].from] <= inbox'[e][i].boot
    BY <1>2 DEF TimesInOrder
  <2>1. CASE i \in DOMAIN inbox[e] /\ inbox'[e][i] = inbox[e][i]
    BY <1>2, <2>1 DEF TimesInOrder
  <2>2. CASE inbox'[e][i] = m
    <3>1. m.boot = boots[d]
      <4>1. m = outbox[d][1] /\ 1 \in DOMAIN outbox[d]
        BY <1>1, <1>2, HandleOutboxMsgBoxes
      <4> QED BY <1>2, <4>1 DEF DiscoveryInv, Outboxes, Sent
    <3> QED BY <1>2, <1>3, <2>2, <3>1 DEF TimesMet
  <2>3. \/ inbox' = inbox
        \/ m.to \in Devices /\ inbox' = [inbox EXCEPT ![m.to] = Append(@, m)]
    BY <1>1, <1>2, <1>3, HandleOutboxMsgBoxes DEF Msg
  <2>4. CASE inbox'[e] = inbox[e]
    BY <2>1, <2>4
  <2>5. CASE inbox'[e] = Append(inbox[e], m)
    <3>1. inbox[e] \in Seq(Msg)
      BY <1>2 DEF TypeOK
    <3>2. inbox'[e][i] = m \/ (i \in DOMAIN inbox[e] /\ inbox'[e][i] = inbox[e][i])
      BY <1>3, <2>5, <3>1, AppendElements
    <3> QED BY <2>1, <2>2, <3>2
  <2> QED BY <1>2, <2>3, <2>4, <2>5 DEF TypeOK
<1>6. AskedKnown' /\ TimesMet'
  BY <1>2 DEF AskedKnown, TimesMet
<1>7. ASSUME NEW e \in Devices, NEW p \in Devices, BothAsked(e, p)'
      PROVE  Learns(e, p)'
  <2>1. e # p /\ BothAsked(e, p) /\ Learns(e, p) /\ p \in known[e] /\ e \in known[p]
    BY <1>2, <1>7 DEF BothAsked, LearnInv, AskedKnown
  <2>2. Excused(e, p) => Excused(e, p)'
    BY <1>2, <1>4 DEF Excused, InTouch, Addressless
  <2>3. CASE Promised(e, p)
    <3>1. PICK x \in Msg : Held(x) /\ Leads(e, p, x)
      BY <2>3 DEF Promised
    <3>2. Leads(e, p, x)'
      BY <1>2, <3>1 DEF Leads
    <3>3. CASE Held(x)'
      BY <3>2, <3>3 DEF Learns, Promised
    <3>4. CASE x = m /\ OneLess(m) \in Msg /\ Held(OneLess(m))'
      <4>1. PICK y \in Msg : y = OneLess(m)
        BY <3>4
      <4>2. y.from = m.from /\ y.to = m.to /\ y.type = m.type /\ y.boot = m.boot
        BY <1>3, <4>1 DEF OneLess, Msg
      <4>3. Leads(e, p, y)' /\ Held(y)'
        BY <3>2, <3>4, <4>1, <4>2 DEF Leads, OneLess
      <4> QED BY <4>3 DEF Learns, Promised
    <3>5. CASE dropped' > 0
      BY <3>5 DEF Learns, Excused
    <3>6. CASE x = m /\ m.to \notin addressed[d]
      <4>1. (m.from = p /\ m.to = e) \/ (m.from = e /\ m.to = p)
        BY <3>1, <3>6 DEF Leads
      <4>2. ~InTouch(e, p)
        BY <1>3, <2>1, <3>6, <4>1 DEF InTouch, Addressless
      <4> QED BY <2>2, <4>2 DEF Learns, Excused
    <3> QED BY <1>3, <3>1, <3>3, <3>4, <3>5, <3>6
  <2> QED BY <1>2, <2>1, <2>2, <2>3 DEF Learns
<1> QED BY <1>5, <1>6, <1>7

\* A restart concerns the pairs that the device belongs to, and none of these has asked now.
LEMMA RestartLearns ==
  ASSUME LearnInv, NEW d \in Devices, Restart(d)
  PROVE  /\ AskedKnown' /\ TimesMet' /\ TimesInOrder'
         /\ \A e, p \in Devices : BothAsked(e, p)' => Learns(e, p)'
<1>1. /\ DiscoveryInv /\ TypeOK /\ AskedKnown /\ TimesMet /\ TimesInOrder /\ dropped' = dropped
      /\ boots' = [boots EXCEPT ![d] = @ + 1] /\ asked' = [asked EXCEPT ![d] = {}]
      /\ known' = [known EXCEPT ![d] = {}] /\ addressed' = [addressed EXCEPT ![d] = {}]
      /\ inbox' = [inbox EXCEPT ![d] = <<>>] /\ outbox' = [outbox EXCEPT ![d] = <<>>]
      /\ times' = [times EXCEPT ![d] = [p \in Devices |-> 0]]
  BY DEF Restart, LearnInv, DiscoveryInv
<1>2. /\ \A e \in Devices \ {d} : /\ boots'[e] = boots[e] /\ addressed'[e] = addressed[e]
                                 /\ known'[e] = known[e] /\ inbox'[e] = inbox[e]
                                 /\ outbox'[e] = outbox[e] /\ asked'[e] = asked[e]
                                 /\ times'[e] = times[e]
      /\ inbox'[d] = <<>> /\ asked'[d] = {} /\ \A p \in Devices : times'[d][p] = 0
      /\ \A e \in Devices : boots[e] \in Nat /\ boots'[e] \in Nat /\ boots[e] <= boots'[e]
  <2>1. /\ \A e \in Devices : boots[e] \in Nat
        /\ boots'[d] = boots[d] + 1 /\ \A e \in Devices \ {d} : boots'[e] = boots[e]
    BY <1>1 DEF TypeOK
  <2>2. \A e \in Devices : boots[e] \in Nat /\ boots'[e] \in Nat /\ boots[e] <= boots'[e]
    <3> SUFFICES ASSUME NEW e \in Devices
                 PROVE  boots[e] \in Nat /\ boots'[e] \in Nat /\ boots[e] <= boots'[e]
      OBVIOUS
    <3>1. CASE e = d
      BY <2>1, <3>1
    <3>2. CASE e # d
      BY <2>1, <3>2
    <3> QED BY <3>1, <3>2
  <2>3. \A e \in Devices \ {d} : /\ addressed'[e] = addressed[e] /\ known'[e] = known[e]
                                /\ inbox'[e] = inbox[e] /\ outbox'[e] = outbox[e]
                                /\ asked'[e] = asked[e] /\ times'[e] = times[e]
    BY <1>1 DEF TypeOK
  <2>4. inbox'[d] = <<>> /\ asked'[d] = {} /\ \A p \in Devices : times'[d][p] = 0
    BY <1>1 DEF TypeOK
  <2> QED BY <2>1, <2>2, <2>3, <2>4
<1>3. AskedKnown'
  BY <1>1, <1>2 DEF AskedKnown
<1>4. TimesMet'
  <2> SUFFICES ASSUME NEW e \in Devices, NEW p \in Devices
               PROVE  times'[e][p] <= boots'[p]
    BY DEF TimesMet
  <2>0. TypeOK /\ TimesMet
    BY <1>1
  <2>1. /\ boots[p] \in Nat /\ boots'[p] \in Nat /\ boots[p] <= boots'[p]
        /\ times[e][p] \in Nat /\ times[e][p] <= boots[p]
    BY <1>2, <2>0 DEF TimesMet, TypeOK
  <2>2. times'[e][p] = times[e][p] \/ times'[e][p] = 0
    BY <1>2
  <2> QED BY <2>1, <2>2
<1>5. TimesInOrder'
  BY <1>1, <1>2 DEF TimesInOrder
<1>6. ASSUME NEW e \in Devices, NEW p \in Devices, BothAsked(e, p)'
      PROVE  Learns(e, p)'
  <2>1. e # d /\ p # d
    BY <1>2, <1>6 DEF BothAsked
  <2>2. BothAsked(e, p) /\ Learns(e, p)
    BY <1>2, <1>6, <2>1 DEF BothAsked, LearnInv
  <2>3. CASE Promised(e, p)
    <3>1. ASSUME NEW x \in Msg, Held(x), Leads(e, p, x)
          PROVE  Held(x)'
      <4>1. x.from # d /\ x.to # d
        BY <2>1, <3>1 DEF Leads
      <4>2. PICK f \in Devices : IsIn(x, outbox[f]) \/ IsIn(x, inbox[f])
        BY <3>1 DEF Held
      <4>3. f # d
        BY <1>1, <4>1, <4>2, HeldTypes
      <4> QED BY <1>2, <4>2, <4>3 DEF Held
    <3>2. boots'[p] = boots[p]
      BY <1>2, <2>1
    <3> QED BY <2>3, <3>1, <3>2, PromiseStays DEF Learns
  <2> QED BY <1>1, <1>2, <2>1, <2>2, <2>3 DEF Learns, Excused, InTouch, Addressless
<1> QED BY <1>3, <1>4, <1>5, <1>6

\* Two devices that both asked the other one learn its time, if they are left to it.
THEOREM TimesAreKnownAtRest == Spec => []TimesAtRest
<1>1. Init => LearnInv
  <2> SUFFICES ASSUME Init PROVE LearnInv
    OBVIOUS
  <2>1. /\ \A e \in Devices : asked[e] = {} /\ inbox[e] = <<>> /\ boots[e] = 1
        /\ \A e, p \in Devices : times[e][p] = 0
    BY DEF Init
  <2>2. AskedKnown /\ TimesMet /\ TimesInOrder /\ \A e, p \in Devices : ~BothAsked(e, p)
    BY <2>1 DEF AskedKnown, TimesMet, TimesInOrder, BothAsked
  <2> QED BY <2>2, InitInv DEF LearnInv
<1>2. LearnInv /\ DiscoveryInv' /\ [Next]_vars => LearnInv'
  <2> SUFFICES ASSUME LearnInv, DiscoveryInv', [Next]_vars
               PROVE  /\ AskedKnown' /\ TimesMet' /\ TimesInOrder'
                      /\ \A e, p \in Devices : BothAsked(e, p)' => Learns(e, p)'
    BY DEF LearnInv
  <2>1. ASSUME NEW d \in Devices, HandshakeEvent(d) \/ HandshakeCommand(d)
        PROVE  /\ AskedKnown' /\ TimesMet' /\ TimesInOrder'
               /\ \A e, p \in Devices : BothAsked(e, p)' => Learns(e, p)'
    <3>1. PICK seen \in SUBSET (Devices \ {d}), resend \in BOOLEAN : HandleHandshakes(d, seen, resend)
      BY <2>1 DEF HandshakeEvent, HandshakeCommand
    <3> QED BY <3>1, HandshakesLearn
  <2>2. CASE UNCHANGED vars
    BY <2>2 DEF vars, tableVars, boxVars, boundVars, LearnInv, AskedKnown, TimesMet, TimesInOrder, BothAsked,
                Learns, Excused, InTouch, Addressless, Promised, Held, Leads
  <2> QED BY <2>1, <2>2, InboxLearns, OutboxLearns, RestartLearns DEF Next, Update
<1>3. LearnInv => TimesAtRest
  <2> SUFFICES ASSUME LearnInv, NEW d \in Devices, NEW p \in Devices,
                      BothAsked(d, p), Empty(d), Empty(p), Promised(d, p)
               PROVE  FALSE
    BY DEF LearnInv, TimesAtRest, Learns
  <2>1. PICK m \in Msg : Held(m) /\ Leads(d, p, m)
    BY DEF Promised
  <2>2. PICK e \in Devices : IsIn(m, outbox[e]) \/ IsIn(m, inbox[e])
    BY <2>1 DEF Held
  <2>3. e = m.from \/ e = m.to
    BY <2>2, HeldTypes DEF LearnInv
  <2>4. e = d \/ e = p
    BY <2>1, <2>3 DEF Leads
  <2> QED BY <2>2, <2>4 DEF Empty, IsIn
<1> QED BY <1>1, <1>2, <1>3, DiscoveryInvariant, PTL DEF Spec

=============================================================================
