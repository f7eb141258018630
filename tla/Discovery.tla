----------------------------- MODULE Discovery -----------------------------
(***************************************************************************)
(* How devices in range of each other get to know each other: the scan for *)
(* access points, the handshake, and the exchange of times that follows    *)
(* it, on all devices at once, with lost frames and devices that restart.  *)
(*                                                                         *)
(* A frame that gets through is in the receiver's inbox; the result of a   *)
(* transmission is known before the next one (EspNowLink's Settle).  The   *)
(* loop thread of a device empties its inbox, then its outbox, then runs   *)
(* its events.  millis() starts again with every boot, so what a device    *)
(* knows of another one's boot before the last means nothing: messages     *)
(* carry, as history, the boots that they belong to.                       *)
(***************************************************************************)
EXTENDS Naturals, Sequences, FiniteSets

CONSTANTS
  Devices,      \* their ids, naturals in the order of the ids
  Scanners,     \* those in states with doScanForPeersESPNow()
  RETRIES,      \* how often a message with DEFAULT_RETRIES is really sent again (EspNowLink)
  MaxLosses, MaxRestarts, MaxResends   \* bounds: lost or refused frames, restarts, "hs" commands

ASSUME DiscoveryAssumption ==
  /\ Devices \subseteq Nat /\ IsFiniteSet(Devices) /\ Scanners \subseteq Devices
  /\ {RETRIES, MaxLosses, MaxRestarts, MaxResends} \subseteq Nat

VARIABLES
  known,      \* device -> the keys of its peerInfoMap
  addressed,  \* device -> those with the peer's MAC address, which the driver knows then
  found,      \* device -> those that macToIDMap leads to
  asked,      \* device -> those with handshakeRequest set
  answer,     \* device -> peer -> NoAnswer, or the boots of the handshakeResponse
  times,      \* device -> peer -> the peer's boot that otherTimeSync was taken in, 0 for zeros
  inbox, outbox,
  draining,   \* device -> it is in outbox.handleMessages
  boots,      \* history: device -> how often it has booted
  met,        \* history: device -> peer -> the boot of the last handshake request from the peer
  dropped,    \* history: how many frames were lost or refused and not sent again
  losses, restarts, resends

tableVars == <<known, addressed, found, asked, answer, times, met>>
boxVars   == <<inbox, outbox, draining>>
boundVars == <<losses, restarts, resends>>
vars == <<tableVars, boxVars, boots, dropped, boundVars>>

Types    == {"HANDSHAKE_REQUEST", "HANDSHAKE_RESPONSE", "TIME_SYNC", "TIME_SYNC_RESPONSE"}
NoAnswer == [boot |-> 0, of |-> 0]

\* boot is the boot of the sender, and of that of the receiver which the message answers, 0
\* for a request; left is how often the message is sent again if it fails.
Msg == [type : Types, from : Devices, to : Devices, boot : Nat \ {0}, of : Nat, left : 0..RETRIES]

TypeOK ==
  /\ known \in [Devices -> SUBSET Devices]
  /\ addressed \in [Devices -> SUBSET Devices]
  /\ found \in [Devices -> SUBSET Devices]
  /\ asked \in [Devices -> SUBSET Devices]
  /\ answer \in [Devices -> [Devices -> [boot : Nat, of : Nat]]]
  /\ times \in [Devices -> [Devices -> Nat]]
  /\ inbox \in [Devices -> Seq(Msg)] /\ outbox \in [Devices -> Seq(Msg)]
  /\ draining \in [Devices -> BOOLEAN]
  /\ boots \in [Devices -> Nat \ {0}] /\ met \in [Devices -> [Devices -> Nat]]
  /\ dropped \in Nat
  /\ losses \in 0..MaxLosses /\ restarts \in 0..MaxRestarts /\ resends \in 0..MaxResends

Init ==
  /\ known = [d \in Devices |-> {}] /\ addressed = [d \in Devices |-> {}]
  /\ found = [d \in Devices |-> {}] /\ asked = [d \in Devices |-> {}]
  /\ answer = [d \in Devices |-> [p \in Devices |-> NoAnswer]]
  /\ times = [d \in Devices |-> [p \in Devices |-> 0]]
  /\ met = [d \in Devices |-> [p \in Devices |-> 0]]
  /\ inbox = [d \in Devices |-> <<>>] /\ outbox = [d \in Devices |-> <<>>]
  /\ draining = [d \in Devices |-> FALSE]
  /\ boots = [d \in Devices |-> 1]
  /\ dropped = 0 /\ losses = 0 /\ restarts = 0 /\ resends = 0

-----------------------------------------------------------------------------
(* The handshake event and the "hs" command.                                *)

Request(d, p) == [type |-> "HANDSHAKE_REQUEST", from |-> d, to |-> p,
                  boot |-> boots[d], of |-> 0, left |-> 0]

\* sendAllHandshakes goes through the peers up to the first one that it has asked already,
\* which it passes only if it is to ask again.
ToAsk(d, ps, resend) ==
  {p \in ps : \A q \in ps : q <= p => resend \/ q \notin asked[d]}

InOrder(s) == \A i, j \in DOMAIN s : i < j => s[i] < s[j]

\* The scan saves the peers that are not in the table, whether or not it has a MAC address
\* for those that are; the driver is given the new ones; the requests follow.
HandleHandshakes(d, seen, resend) ==
  LET peers == known[d] \cup seen
      new   == seen \ known[d]
      ask   == ToAsk(d, peers, resend)
  IN  /\ outbox[d] = <<>>
      /\ known' = [known EXCEPT ![d] = peers]
      /\ addressed' = [addressed EXCEPT ![d] = @ \cup new]
      /\ found' = [found EXCEPT ![d] = @ \cup new]
      /\ asked' = [asked EXCEPT ![d] = @ \cup ask]
      /\ \E ids \in [1..Cardinality(ask) -> ask] :
           /\ InOrder(ids)
           /\ outbox' = [outbox EXCEPT ![d] = [i \in DOMAIN ids |-> Request(d, ids[i])]]
      /\ UNCHANGED <<answer, times, met, inbox, draining, boots, dropped>>

\* A scan may miss devices.
HandshakeEvent(d) ==
  /\ d \in Scanners
  /\ \E seen \in SUBSET (Devices \ {d}) : HandleHandshakes(d, seen, FALSE)
  /\ UNCHANGED boundVars

HandshakeCommand(d) ==
  /\ resends < MaxResends /\ resends' = resends + 1
  /\ \E seen \in SUBSET (Devices \ {d}) : HandleHandshakes(d, seen, TRUE)
  /\ UNCHANGED <<losses, restarts>>

-----------------------------------------------------------------------------
(* handleInboxMsg.                                                          *)

Reply(d, m, type, left) ==
  [type |-> type, from |-> d, to |-> m.from, boot |-> boots[d], of |-> m.boot, left |-> left]
Push(d, m) == outbox' = [outbox EXCEPT ![d] = Append(@, m)]

\* receiveHandshakeRequest writes the sender's entry over, its MAC address and times included,
\* and pairs it; macToIDMap and handshakeRequest it leaves as they are.
MacSavedMutant(d, m) == addressed[d]
MacSaved(d, m) == addressed[d] \cup {m.from}
TimeAfterRequestMutant(d, m) == times[d][m.from]
TimeAfterRequest(d, m) == 0

ReceiveHandshakeRequest(d, m) ==
  /\ m.type = "HANDSHAKE_REQUEST"
  /\ known' = [known EXCEPT ![d] = @ \cup {m.from}]
  /\ addressed' = [addressed EXCEPT ![d] = MacSaved(d, m)]
  /\ answer' = [answer EXCEPT ![d][m.from] = NoAnswer]
  /\ times' = [times EXCEPT ![d][m.from] = TimeAfterRequest(d, m)]
  /\ met' = [met EXCEPT ![d][m.from] = m.boot]
  /\ Push(d, Reply(d, m, "HANDSHAKE_RESPONSE", 0))
  /\ UNCHANGED <<found, asked>>

\* receiveHandshakeResponse makes an entry if there is none, with no MAC address.
ReceiveHandshakeResponse(d, m) ==
  /\ m.type = "HANDSHAKE_RESPONSE"
  /\ known' = [known EXCEPT ![d] = @ \cup {m.from}]
  /\ answer' = [answer EXCEPT ![d][m.from] = [boot |-> m.boot, of |-> m.of]]
  /\ Push(d, Reply(d, m, "TIME_SYNC", RETRIES))
  /\ UNCHANGED <<addressed, found, asked, times, met>>

\* "Time sync message rejected; need to handshake first"
RejectsMutant(d, m) ==
  m.type \in {"TIME_SYNC", "TIME_SYNC_RESPONSE"} /\ answer[d][m.from] = NoAnswer
Rejects(d, m) ==
  m.type \in {"TIME_SYNC", "TIME_SYNC_RESPONSE"} /\ m.from \notin known[d]

IsAnsweredMutant(m) == m.type = "TIME_SYNC_RESPONSE"
IsAnswered(m) == m.type = "TIME_SYNC"

ReceiveTimeSyncMsg(d, m) ==
  /\ m.type \in {"TIME_SYNC", "TIME_SYNC_RESPONSE"}
  /\ IF Rejects(d, m)
     THEN UNCHANGED <<times, outbox>>
     ELSE /\ times' = [times EXCEPT ![d][m.from] = m.boot]
          /\ IF IsAnswered(m)
             THEN Push(d, Reply(d, m, "TIME_SYNC_RESPONSE", RETRIES))
             ELSE UNCHANGED outbox
  /\ UNCHANGED <<known, addressed, found, asked, answer, met>>

HandleInboxMsg(d) ==
  /\ inbox[d] # <<>> /\ ~draining[d]
  /\ inbox' = [inbox EXCEPT ![d] = Tail(@)]
  /\ LET m == Head(inbox[d])
     IN  \/ ReceiveHandshakeRequest(d, m)
         \/ ReceiveHandshakeResponse(d, m)
         \/ ReceiveTimeSyncMsg(d, m)
  /\ UNCHANGED <<draining, boots, dropped, boundVars>>

-----------------------------------------------------------------------------
(* handleOutboxMsg, to the result of the transmission.                      *)

\* onESPNowDataSent finds the peer by its MAC address, and sends a copy again after what else
\* is in the outbox.
SentAgainMutant(d, m) ==
  IF m.to \in found[d] THEN <<[m EXCEPT !.left = @ - 1]>> ELSE <<>>
SentAgain(d, m) ==
  IF m.left > 0 /\ m.to \in found[d] THEN <<[m EXCEPT !.left = @ - 1]>> ELSE <<>>

\* A transmission succeeds or fails, or the driver refuses it, which no callback reports and
\* nothing sends again.  Nothing gets to a peer whose MAC address is all zeros.
HandleOutboxMsg(d) ==
  /\ outbox[d] # <<>> /\ (draining[d] \/ inbox[d] = <<>>)
  /\ LET m == Head(outbox[d])
     IN  \/ /\ m.to \in addressed[d]
            /\ inbox' = [inbox EXCEPT ![m.to] = Append(@, m)]
            /\ outbox' = [outbox EXCEPT ![d] = Tail(@)]
            /\ UNCHANGED <<losses, dropped>>
         \/ /\ m.to \in addressed[d]
            /\ losses < MaxLosses /\ losses' = losses + 1
            /\ \E again \in {SentAgain(d, m), <<>>} :
                 /\ outbox' = [outbox EXCEPT ![d] = Tail(@) \o again]
                 /\ dropped' = IF again = <<>> THEN dropped + 1 ELSE dropped
            /\ UNCHANGED inbox
         \/ /\ m.to \notin addressed[d]
            /\ outbox' = [outbox EXCEPT ![d] = Tail(@)]
            /\ UNCHANGED <<inbox, losses, dropped>>
  /\ draining' = [draining EXCEPT ![d] = outbox'[d] # <<>>]
  /\ UNCHANGED <<tableVars, boots, restarts, resends>>

-----------------------------------------------------------------------------
\* The device starts again with everything empty; what others have for it is still on its way.
Restart(d) ==
  /\ restarts < MaxRestarts /\ restarts' = restarts + 1
  /\ boots' = [boots EXCEPT ![d] = @ + 1]
  /\ known' = [known EXCEPT ![d] = {}] /\ addressed' = [addressed EXCEPT ![d] = {}]
  /\ found' = [found EXCEPT ![d] = {}] /\ asked' = [asked EXCEPT ![d] = {}]
  /\ answer' = [answer EXCEPT ![d] = [p \in Devices |-> NoAnswer]]
  /\ times' = [times EXCEPT ![d] = [p \in Devices |-> 0]]
  /\ met' = [met EXCEPT ![d] = [p \in Devices |-> 0]]
  /\ inbox' = [inbox EXCEPT ![d] = <<>>] /\ outbox' = [outbox EXCEPT ![d] = <<>>]
  /\ draining' = [draining EXCEPT ![d] = FALSE]
  /\ UNCHANGED <<dropped, losses, resends>>

Update(d) == HandleInboxMsg(d) \/ HandleOutboxMsg(d) \/ HandshakeEvent(d) \/ HandshakeCommand(d)
Next == \E d \in Devices : Update(d) \/ Restart(d)

Spec == Init /\ [][Next]_vars

\* The loop thread keeps running, the event comes every MS_HANDSHAKE_LOOP, and a scan that
\* sees every device in range comes again and again.
FullScan(d) == HandleHandshakes(d, Devices \ {d}, FALSE) /\ UNCHANGED boundVars
Fairness ==
  /\ \A d \in Devices : WF_vars(HandleInboxMsg(d)) /\ WF_vars(HandleOutboxMsg(d))
  /\ \A d \in Scanners : WF_vars(FullScan(d))
FairSpec == Spec /\ Fairness

-----------------------------------------------------------------------------
(* Properties.                                                              *)

\* "need to handshake first" (base.cpp:1018): a device rejects a time only if it has restarted
\* since the message that the time answers.
RejectsOnlyAfterRestart ==
  \A d \in Devices : \A i \in DOMAIN inbox[d] :
    inbox[d][i].of = boots[d] => ~Rejects(d, inbox[d][i])

\* A peer is known without its MAC address only because it answered a request that the device
\* made before its last restart (base.cpp:977).
Addressless(d) == known[d] \ addressed[d]
AddresslessOnlyByOldAnswer ==
  \A d \in Devices : \A p \in Addressless(d) :
    answer[d][p].boot > 0 /\ answer[d][p].of < boots[d]

\* Once a device has handled the handshake of a peer's new boot, it does not keep or take in a
\* time of an earlier one, whatever was queued before (base.cpp:960).
NoTimeOfEarlierBoot ==
  \A d, p \in Devices : times[d][p] # 0 => times[d][p] >= met[d][p]

\* "Time Sync Devices/Tasks" (README.md:11): in the end each of two devices that look for each
\* other has a time of the other one's present boot, unless a frame is lost for good or one of
\* them knows the other without MAC address.
TimesSettle ==
  \A d, p \in Scanners :
    d # p => <>[](\/ times[d][p] = boots[p]
                  \/ dropped > 0 \/ p \in Addressless(d) \/ d \in Addressless(p))

=============================================================================
