----------------------------- MODULE EspNowLink -----------------------------
(***************************************************************************)
(* The ESP-NOW sender of one device: Base::sendMsgESPNow on the loop       *)
(* thread, Base::onESPNowDataSent on the WiFi task, and the peer table     *)
(* they share with the handlers that fill it.                              *)
(*                                                                         *)
(* The driver accepts a frame or refuses it at once.  What it accepts it   *)
(* transmits later, and then calls back with the result, in the order of   *)
(* the sends.  On a failure the callback sends "the last message" of the   *)
(* peer again, whichever that is by then.                                  *)
(***************************************************************************)
EXTENDS Naturals, Sequences, FiniteSets

CONSTANTS
  Peers,            \* the ids of the other devices, naturals in the order of the ids
  DEFAULT_RETRIES,  \* maxRetries of the messages that ask for retries
  RecipientSets,    \* the recipients that a message may be given; {} means everyone
  MaxPaired,        \* how many peers the driver has room for
  Settle,           \* delay(DELAY_SEND) is long enough for the callback of every send
  MaxMsgs, MaxLosses, MaxRefusals, MaxScans, MaxHandshakes   \* bounds

ASSUME LinkAssumption ==
  /\ Peers \subseteq Nat \ {0} /\ IsFiniteSet(Peers)
  /\ RecipientSets \subseteq SUBSET Peers
  /\ Settle \in BOOLEAN
  /\ {DEFAULT_RETRIES, MaxPaired, MaxMsgs, MaxLosses, MaxRefusals, MaxScans, MaxHandshakes} \subseteq Nat

VARIABLES
  peers,       \* the keys of peerInfoMap
  macToID,     \* the ids that macToIDMap leads to
  paired,      \* the peers that the driver knows (esp_now_add_peer)
  asked,       \* the peers with handshakeRequest set
  asking,      \* the peers that sendAllHandshakes has not come to
  lastMsg,     \* peerInfoMap[id].lastMsg
  outbox,
  sending,     \* sendMsgESPNow's msg and the recipients it has not come to, or Idle
  air,         \* the frames that the driver accepted and has not reported on
  cb,          \* the retry that onESPNowDataSent is about to queue, its peer's mutex held
  pushed, losses, scans, handshakes,
  order,       \* history: message number -> the recipients and retries it was pushed with
  tx,          \* history: message number -> peer -> its transmissions
  refused      \* history: the messages and peers of the sends that the driver refused, though
               \* it knows the peer

tableVars == <<peers, macToID, paired>>
askVars   == <<asked, asking>>
boundVars == <<pushed, losses, scans, handshakes>>
histVars  == <<order, tx, refused>>
vars == <<tableVars, askVars, lastMsg, outbox, sending, air, cb, boundVars, histVars>>

\* macToIDMap[mac] is the empty string for a MAC that it does not have, and
\* peerInfoMap[""] is then one more entry.  The empty string sorts before every id.
Phantom == 0
Ids     == Peers \cup {Phantom}

\* 0 is AF1Msg(), what lastMsg holds before anything was sent, and the handshake messages,
\* which ask for no retries and whose history is not kept.
MsgNos  == 0..MaxMsgs

Msg   == [no : MsgNos, to : SUBSET Ids, sendCnt : Nat, maxRetries : {0, DEFAULT_RETRIES}]
Blank == [no |-> 0, to |-> {}, sendCnt |-> 0, maxRetries |-> 0]
Frame == [no : MsgNos, to : Ids]
Idle  == [busy |-> FALSE]

TypeOK ==
  /\ peers \subseteq Ids /\ macToID \subseteq Peers /\ paired \subseteq Ids
  /\ asked \subseteq Ids /\ asking \subseteq Ids
  /\ lastMsg \in [Ids -> Msg]
  /\ outbox \in Seq(Msg)
  /\ sending \in {Idle} \cup [busy : {TRUE}, msg : Msg, rest : SUBSET Ids]
  /\ air \in Seq(Frame)
  /\ cb \in {Idle} \cup [busy : {TRUE}, peer : Ids]
  /\ pushed \in 0..MaxMsgs /\ losses \in 0..MaxLosses
  /\ scans \in 0..MaxScans /\ handshakes \in 0..MaxHandshakes
  /\ order \in [MsgNos -> [to : SUBSET Peers, maxRetries : {0, DEFAULT_RETRIES}]]
  /\ tx \in [MsgNos -> [Ids -> Nat]] /\ refused \subseteq MsgNos \X Ids

Init ==
  /\ peers = {} /\ macToID = {} /\ paired = {}
  /\ asked = {} /\ asking = {}
  /\ lastMsg = [p \in Ids |-> Blank]
  /\ outbox = <<>> /\ sending = Idle /\ air = <<>> /\ cb = Idle
  /\ pushed = 0 /\ losses = 0 /\ scans = 0 /\ handshakes = 0
  /\ order = [n \in MsgNos |-> [to |-> {}, maxRetries |-> 0]]
  /\ tx = [n \in MsgNos |-> [p \in Ids |-> 0]] /\ refused = {}

-----------------------------------------------------------------------------
(* The loop thread.  sendMsgESPNow and handleHandshakes are taken one turn  *)
(* of their loops at a time; the rest happens between the calls of them.    *)

Ready == sending = Idle /\ asking = {}

\* connectToPeers adds the peers that the driver does not know, in the order of the map,
\* until the driver is full.  Whether it takes the MAC of the phantom, all zeros, is open.
ConnectToPeers(ps) ==
  \E declined \in SUBSET {Phantom} :
    LET missing == ps \ (paired \cup declined)
        before(p) == {q \in missing : q < p}
    IN  paired' = paired \cup
          {p \in missing : Cardinality(paired) + Cardinality(before(p)) < MaxPaired}

HandshakeMutant(p) == [no |-> 0, to |-> {p}, sendCnt |-> 0, maxRetries |-> DEFAULT_RETRIES]
Handshake(p) == [no |-> 0, to |-> {p}, sendCnt |-> 0, maxRetries |-> 0]

\* sendAllHandshakes goes through the peers up to the first one that it has asked already,
\* which it passes only if it is to ask again.
ToAsk(ps, resend) == {p \in ps : \A q \in ps : q <= p => resend \/ q \notin asked}

\* handleHandshakes up to sendAllHandshakes: scanForPeersESPNow saves the peers that the scan
\* saw and that are new.  "hs" on the serial port asks again.
HandleHandshakes ==
  /\ Ready
  /\ scans < MaxScans /\ scans' = scans + 1
  /\ \E seen \in SUBSET Peers, resend \in BOOLEAN :
       LET new == seen \ peers
       IN  /\ peers' = peers \cup new
           /\ macToID' = macToID \cup new
           /\ lastMsg' = [p \in Ids |-> IF p \in new THEN Blank ELSE lastMsg[p]]
           /\ ConnectToPeers(peers \cup new)
           /\ asking' = ToAsk(peers \cup new, resend)
  /\ UNCHANGED <<asked, outbox, sending, air, cb, pushed, losses, handshakes, histVars>>

SendHandshakeRequest(p) ==
  /\ p \in asking /\ \A q \in asking : p <= q
  /\ asking' = asking \ {p}
  /\ asked' = asked \cup {p}
  /\ outbox' = Append(outbox, Handshake(p))
  /\ UNCHANGED <<tableVars, lastMsg, sending, air, cb, boundVars, histVars>>

\* receiveHandshakeRequest writes the sender's entry over, without its mutex and whether or
\* not a message is on its way to it; macToIDMap it leaves as it is.  The response follows.
ReceiveHandshakeRequest ==
  /\ Ready
  /\ handshakes < MaxHandshakes /\ handshakes' = handshakes + 1
  /\ \E p \in Peers :
       /\ peers' = peers \cup {p}
       /\ lastMsg' = [lastMsg EXCEPT ![p] = Blank]
       /\ ConnectToPeers(peers \cup {p})
       /\ outbox' = Append(outbox, Handshake(p))
  /\ UNCHANGED <<macToID, askVars, sending, air, cb, pushed, losses, scans, histVars>>

\* pushOutbox of a new message.
PushOutbox ==
  /\ Ready
  /\ pushed < MaxMsgs /\ pushed' = pushed + 1
  /\ \E to \in RecipientSets, max \in {0, DEFAULT_RETRIES} :
       /\ outbox' = Append(outbox, [no |-> pushed', to |-> to, sendCnt |-> 0, maxRetries |-> max])
       /\ order' = [order EXCEPT ![pushed'] = [to |-> to, maxRetries |-> max]]
  /\ UNCHANGED <<tableVars, askVars, lastMsg, sending, air, cb, losses, scans, handshakes, tx, refused>>

\* If the set of recipients is empty then the message goes to everyone.
RecipientIDsMutant(m) == peers
RecipientIDs(m) == IF m.to # {} THEN m.to ELSE peers

\* handleOutboxMsg takes the first message and calls sendMsgESPNow with it.
HandleOutboxMsg ==
  /\ Ready /\ outbox # <<>>
  /\ outbox' = Tail(outbox)
  /\ sending' = [busy |-> TRUE, msg |-> Head(outbox), rest |-> RecipientIDs(Head(outbox))]
  /\ UNCHANGED <<tableVars, askVars, lastMsg, air, cb, boundVars, histVars>>

\* The recipient that the loop of sendMsgESPNow has come to.
Current(p) == p \in sending.rest /\ \A q \in sending.rest : p <= q

\* Every turn ends with delay(DELAY_SEND).
SettledMutant == TRUE
Settled == Settle => air = <<>> /\ cb = Idle

\* esp_now_send takes the frame, and the message that is now the peer's last one is counted.
Accept(m, p) ==
  /\ p \in paired
  /\ lastMsg' = [lastMsg EXCEPT ![p] = [m EXCEPT !.sendCnt = @ + 1]]
  /\ air' = Append(air, [no |-> m.no, to |-> p])
  /\ tx' = [tx EXCEPT ![m.no][p] = @ + 1]
  /\ UNCHANGED refused

\* Or it returns an error: it does not know the peer, has no memory left, or fails otherwise.
\* The message is the peer's last one all the same, but is not counted, and no callback follows.
Refuse(m, p) ==
  /\ lastMsg' = [lastMsg EXCEPT ![p] = m]
  /\ IF p \in paired
     THEN /\ Cardinality(refused) < MaxRefusals
          /\ refused' = refused \cup {<<m.no, p>>}
     ELSE UNCHANGED refused
  /\ UNCHANGED <<air, tx>>

\* One turn of that loop: the peer's mutex is taken and released within it.
SendTo(p) ==
  /\ sending # Idle /\ Current(p) /\ p \in peers
  /\ cb # [busy |-> TRUE, peer |-> p]
  /\ Settled
  /\ sending' = [sending EXCEPT !.rest = @ \ {p}]
  /\ Accept(sending.msg, p) \/ Refuse(sending.msg, p)
  /\ UNCHANGED <<tableVars, askVars, outbox, cb, boundVars, order>>

\* The loop ends after the last recipient, or at the first one that is not in the table.
LoopEndsMutant == sending.rest = {}
LoopEnds == sending.rest = {} \/ \E p \in Ids \ peers : Current(p)

SendDone ==
  /\ sending # Idle /\ Settled
  /\ LoopEnds
  /\ sending' = Idle
  /\ UNCHANGED <<tableVars, askVars, lastMsg, outbox, air, cb, boundVars, histVars>>

-----------------------------------------------------------------------------
(* The WiFi task: one callback at a time.                                   *)

\* The peer of a callback is looked up by the MAC address of the frame.
PeerDeviceID(f) == IF f.to \in macToID THEN f.to ELSE Phantom

HasOneRetryLessMutant(m) == m.sendCnt < m.maxRetries
HasRetriesLeft(m) == m.sendCnt < m.maxRetries + 1   \* getSendCnt() - 1 < getMaxRetries(), in int

Delivered ==
  /\ cb = Idle /\ air # <<>>
  /\ air' = Tail(air)
  /\ UNCHANGED <<tableVars, askVars, lastMsg, outbox, sending, cb, boundVars, histVars>>

\* The peer is looked up, its mutex is taken and the retries are counted.
NotDelivered ==
  /\ cb = Idle /\ air # <<>>
  /\ losses < MaxLosses /\ losses' = losses + 1
  /\ air' = Tail(air)
  /\ LET p == PeerDeviceID(Head(air))
     IN  /\ peers' = peers \cup {p}
         /\ cb' = IF HasRetriesLeft(lastMsg[p]) THEN [busy |-> TRUE, peer |-> p] ELSE Idle
  /\ UNCHANGED <<macToID, paired, askVars, lastMsg, outbox, sending, pushed, scans, handshakes, histVars>>

\* A copy of the peer's last message is counted as sent, addressed to the peer and queued;
\* the mutex is released.
RetryLimitMutant(m, p) == [m EXCEPT !.maxRetries = @ + 1, !.to = {p}]
RetryOf(m, p) ==
  [no |-> m.no, to |-> {p}, sendCnt |-> m.sendCnt + 1, maxRetries |-> m.maxRetries]

Requeue ==
  /\ cb # Idle
  /\ outbox' = Append(outbox, RetryOf(lastMsg[cb.peer], cb.peer))
  /\ cb' = Idle
  /\ UNCHANGED <<tableVars, askVars, lastMsg, sending, air, boundVars, histVars>>

-----------------------------------------------------------------------------
Loop == HandleOutboxMsg \/ SendDone \/ \E p \in Ids : SendTo(p) \/ SendHandshakeRequest(p)
WiFi == Delivered \/ NotDelivered \/ Requeue
App  == HandleHandshakes \/ ReceiveHandshakeRequest \/ PushOutbox

Next == Loop \/ WiFi \/ App

Spec == Init /\ [][Next]_vars

\* The loop thread keeps calling update(), and the driver reports on every frame.
FairSpec == Spec /\ WF_vars(Loop) /\ WF_vars(WiFi)

-----------------------------------------------------------------------------
(* Properties.                                                              *)

\* "Only resending to 1 device!" (base.cpp:649): no peer is sent a message that was pushed for
\* others, however failures, retries and last messages of different peers cross.
NoMisdelivery ==
  \A i \in DOMAIN air :
    LET f == air[i]
    IN  f.no # 0 /\ order[f.no].to # {} => f.to \in order[f.no].to

\* A message is transmitted to a peer at most maxRetries + 1 times: "Max retries reached; not
\* sending" (base.cpp:656).
TransmissionsBounded ==
  \A n \in MsgNos \ {0}, p \in Ids : tx[n][p] <= order[n].maxRetries + 1

\* Failures do not feed on themselves, though every failure may queue a copy and every copy
\* may fail: the number of transmissions that can fail is bounded below MaxLosses.
FailuresBounded == losses < MaxLosses

\* The outbox and the driver run empty once nothing new is pushed, whatever is lost.
Quiesces == <>[](outbox = <<>> /\ sending = Idle /\ air = <<>> /\ cb = Idle)

\* What is retried is what failed, as long as each callback comes before the next send.
RetriesTheFailedMessage ==
  [][cb = Idle /\ cb' # Idle /\ Head(air).to \in macToID
       => lastMsg[cb'.peer].no = Head(air).no]_vars

\* "Check if there are more retries remaining and retry if so" (base.cpp:641): the device gives
\* up on a message only after the first transmission and maxRetries more have failed.
GivesUp == losses' # losses /\ cb' = Idle
RetriesRemainingAreUsed ==
  [][GivesUp => LET f == Head(air) IN f.no # 0 => tx[f.no][f.to] > order[f.no].maxRetries]_vars

=============================================================================
