--------------------------- MODULE TimeSyncProofs ---------------------------
(***************************************************************************)
(* Proofs about TimeSync, for any devices, clocks and bounds: its types,   *)
(* how old the times are that a device has of its peers, and that devices  *)
(* start when they should, although every clock wraps.                     *)
(*                                                                         *)
(* The arithmetic of the clocks is done once, in the lemmas about Plus and *)
(* Minus.  What is inductive is said in real time: every clock reading in  *)
(* a message, a peer's entry or an event is the one at the real time that  *)
(* the history has for it.                                                 *)
(***************************************************************************)
EXTENDS TimeSync, TLAPS

-----------------------------------------------------------------------------
(* Clock arithmetic.                                                        *)

LEMMA Constants ==
  /\ Master \in Devices
  /\ MS_TIME_SYNC_SCHEDULE_START \in Nat /\ MS_TIME_SYNC_START \in Nat /\ RETRIES \in Nat
  /\ MaxWait \in Nat /\ MaxTransit \in Nat /\ MaxTime \in Nat /\ MaxHandshakes \in Nat
  /\ MaxLosses \in Nat /\ MaxChanges \in Nat
  /\ WORD \in Nat /\ 2 * MaxTime + MS_TIME_SYNC_START < WORD
  BY TimeAssumption

\* A clock reading and a time to go stay within the range of the clock.
LEMMA ClockTypes ==
  ASSUME NEW a \in Word, NEW b \in Word
  PROVE  Plus(a, b) \in Word /\ Minus(a, b) \in Word
  BY Constants DEF Plus, Minus, Word

\* The difference of two readings of one clock is the time between them, if it is shorter than
\* a round of the clock.
LEMMA Between ==
  ASSUME NEW o \in Word, NEW s \in Nat, NEW t \in Nat, s <= t, t < WORD
  PROVE  Minus(Plus(o, t), Plus(o, s)) = t - s
  BY Constants DEF Plus, Minus, Word

\* So a reading that is as old at one clock as at another one is converted to the reading of the
\* one clock at that time.
LEMMA Converted ==
  ASSUME NEW o \in Word, NEW p \in Word, NEW of \in Nat, NEW at \in Nat, NEW t \in Nat,
         t < WORD, of <= at, at < WORD, t + (at - of) < WORD
  PROVE  Plus(Plus(o, at), Minus(Plus(p, t), Plus(p, of))) = Plus(o, t + (at - of))
<1>1. CASE of <= t
  <2>1. Minus(Plus(p, t), Plus(p, of)) = t - of
    BY <1>1, Between
  <2>2. Plus(Plus(o, at), t - of) = Plus(o, at + (t - of))
    BY <1>1, Constants DEF Plus, Word
  <2> QED BY <1>1, <2>1, <2>2
<1>2. CASE t < of
  <2>1. Minus(Plus(p, t), Plus(p, of)) = WORD - (of - t)
    BY <1>2, Constants DEF Plus, Minus, Word
  <2>2. Plus(Plus(o, at), WORD - (of - t)) = Plus(o, at - (of - t))
    BY <1>2, Constants DEF Plus, Word
  <2> QED BY <1>2, <2>1, <2>2
<1> QED BY <1>1, <1>2

\* The start time of an event counts from when the device entered its state, whether the start
\* is still to come or has passed since then.
LEMMA StartCounts ==
  ASSUME NEW o \in Word, NEW due \in Nat, due < WORD, NEW t \in Nat, t < WORD,
         NEW e \in Nat, e <= t, e <= due
  PROVE  Plus(Minus(Plus(o, due), Plus(o, t)), t - e) = due - e
<1>1. CASE t <= due
  <2>1. Minus(Plus(o, due), Plus(o, t)) = due - t
    BY <1>1, Between
  <2> QED BY <1>1, <2>1, Constants DEF Plus
<1>2. CASE due < t
  <2>1. Minus(Plus(o, due), Plus(o, t)) = WORD - (t - due)
    BY <1>2, Constants DEF Plus, Minus, Word
  <2> QED BY <1>2, <2>1, Constants DEF Plus
<1> QED BY <1>1, <1>2

-----------------------------------------------------------------------------
(* Types.                                                                   *)

LEMMA MillisType ==
  ASSUME TypeOK, NEW d \in Devices
  PROVE  Millis(d) \in Word
<1>1. offset[d] \in Word /\ now \in Word
  BY Constants DEF TypeOK, Word
<1> QED BY <1>1, ClockTypes DEF Millis

LEMMA QueuedType ==
  ASSUME TypeOK, NEW type \in Types, NEW d \in Devices, NEW p \in Devices,
         NEW time \in Word, NEW of \in Nat, NEW left \in 0..RETRIES
  PROVE  Queued(type, d, p, time, of, left) \in Msg
  BY DEF TypeOK, Queued, Msg

LEMMA HandshakeType ==
  ASSUME TypeOK, NEW type \in Types, NEW d \in Devices, NEW p \in Devices
  PROVE  Handshake(type, d, p) \in Msg /\ TimeSync(type, d, p) \in Msg
<1>1. 0 \in Word /\ 0 \in 0..RETRIES /\ RETRIES \in 0..RETRIES /\ now \in Nat
  BY Constants DEF TypeOK, Word
<1> QED BY <1>1, MillisType, QueuedType DEF Handshake, TimeSync

LEMMA ZerosType == Zeros \in Peer
  BY Constants DEF Zeros, Peer, Types, Word

LEMMA ConvertTimeType ==
  ASSUME TypeOK, NEW d \in Devices, NEW p \in Devices, NEW t \in Word
  PROVE  ConvertTime(d, p, t) \in Word
<1>1. CASE peer[d][p] = NoPeer
  BY <1>1, Constants DEF ConvertTime, Word
<1>2. CASE peer[d][p] # NoPeer
  <2>1. peer[d][p] \in Peer
    BY <1>2 DEF TypeOK
  <2>2. peer[d][p].this \in Word /\ peer[d][p].other \in Word
    BY <2>1 DEF Peer
  <2> QED BY <1>2, <2>2, ClockTypes DEF ConvertTime
<1> QED BY <1>1, <1>2

LEMMA ScheduleType ==
  ASSUME TypeOK, NEW d \in Devices, NEW t \in Word, NEW synced \in BOOLEAN, NEW due \in Nat,
         ScheduleSyncStart(d, t, synced, due)
  PROVE  event' \in [Devices -> Event \cup {NoEvent}]
<1>1. GetElapsedMs(d) \in Word
  BY Constants DEF TypeOK, GetElapsedMs, Word
<1>2. StartMs(d, t) \in Word
  BY <1>1, MillisType, ClockTypes DEF StartMs
<1>3. now \in Nat
  BY Constants DEF TypeOK
<1>4. [set |-> TRUE, startMs |-> StartMs(d, t), synced |-> synced, due |-> due,
       handled |-> now, fired |-> FALSE, firedAt |-> 0] \in Event
  BY <1>2, <1>3 DEF Event
<1> QED BY <1>4 DEF TypeOK, ScheduleSyncStart

\* An entry of the table of peers is written.
LEMMA PeerUpdate ==
  ASSUME TypeOK, NEW d \in Devices, NEW p \in Devices, NEW x,
         peer' = [peer EXCEPT ![d][p] = x]
  PROVE  /\ x \in Peer => peer' \in [Devices -> [Devices -> Peer \cup {NoPeer}]]
         /\ peer'[d][p] = x
         /\ \A e, q \in Devices : ~(e = d /\ q = p) => peer'[e][q] = peer[e][q]
<1>1. peer \in [Devices -> [Devices -> Peer \cup {NoPeer}]]
  BY DEF TypeOK
<1>2. peer'[d] = [peer[d] EXCEPT ![p] = x] /\ \A e \in Devices \ {d} : peer'[e] = peer[e]
  BY <1>1
<1> QED BY <1>1, <1>2

LEMMA HandleOutboxType ==
  ASSUME TypeOK, NEW m \in messages, HandleOutboxMsg(m)
  PROVE  messages' \subseteq Msg
<1>1. m \in Msg /\ now \in Nat
  BY Constants DEF TypeOK
<1>2. Stamped(m) \in Msg
  <2>1. m.from \in Devices
    BY <1>1 DEF Msg
  <2>2. Millis(m.from) \in Word
    BY <2>1, MillisType
  <2> QED BY <1>1, <2>2 DEF Stamped, Msg
<1>3. [Stamped(m) EXCEPT !.sent = TRUE, !.since = now] \in Msg
  BY <1>1, <1>2 DEF Msg
<1> QED BY <1>3 DEF TypeOK, HandleOutboxMsg

LEMMA LostType ==
  ASSUME TypeOK, NEW m \in messages, Lost(m)
  PROVE  messages' \subseteq Msg
<1>1. m \in Msg /\ now \in Nat
  BY Constants DEF TypeOK
<1>2. m.left > 0 => [m EXCEPT !.sent = FALSE, !.since = now, !.left = @ - 1] \in Msg
  <2>1. m.left > 0 => m.left - 1 \in 0..RETRIES
    BY <1>1, Constants DEF Msg
  <2> QED BY <1>1, <2>1 DEF Msg
<1> QED BY <1>2 DEF TypeOK, Lost

LEMMA SendSyncStartType ==
  ASSUME TypeOK, SendSyncStartTime
  PROVE  messages' \subseteq Msg /\ event' \in [Devices -> Event \cup {NoEvent}]
<1> DEFINE t == Plus(Millis(Master), MS_TIME_SYNC_START)
<1>1. t \in Word /\ now + MS_TIME_SYNC_START \in Nat
  <2>1. MS_TIME_SYNC_START \in Word /\ now \in Nat /\ MS_TIME_SYNC_START \in Nat
    BY Constants DEF Word, TypeOK
  <2>2. Millis(Master) \in Word
    BY MillisType, Constants
  <2>3. t \in Word
    BY <2>1, <2>2, ClockTypes
  <2> QED BY <2>1, <2>3
<1>2. \A p \in Devices :
        Queued("TIME_SYNC_START", Master, p, t, now + MS_TIME_SYNC_START, 0) \in Msg
  BY <1>1, QueuedType, Constants DEF Types
<1>3. /\ messages' = messages \cup {Queued("TIME_SYNC_START", Master, p, t, now + MS_TIME_SYNC_START, 0) :
                                     p \in {p \in Devices : peer[Master][p] # NoPeer}}
      /\ ScheduleSyncStart(Master, t, TRUE, now + MS_TIME_SYNC_START)
  BY DEF SendSyncStartTime
<1> HIDE DEF t
<1> QED BY <1>1, <1>2, <1>3, ScheduleType, Constants DEF TypeOK

\* The times in a device's table are of its past.
PeersPast ==
  \A d, p \in Devices : peer[d][p] # NoPeer /\ peer[d][p].synced =>
    peer[d][p].of <= peer[d][p].at

LEMMA HandleInboxType ==
  ASSUME TypeOK, PeersPast, NEW m \in messages, HandleInboxMsg(m)
  PROVE  /\ messages' \subseteq Msg /\ event' \in [Devices -> Event \cup {NoEvent}]
         /\ peer' \in [Devices -> [Devices -> Peer \cup {NoPeer}]]
<1>1. m \in Msg /\ now \in Nat /\ messages \subseteq Msg
  BY Constants DEF TypeOK
<1>2. m.to \in Devices /\ m.from \in Devices /\ m.time \in Word /\ m.of \in Nat
  BY <1>1 DEF Msg
<1>3. Millis(m.to) \in Word
  BY <1>2, MillisType
<1>4. \A type \in Types : /\ Handshake(type, m.to, m.from) \in Msg
                          /\ TimeSync(type, m.to, m.from) \in Msg
  BY <1>2, HandshakeType
<1>5. CASE ReceiveHandshakeRequest(m.to, m)
  <2>1. messages' \subseteq Msg /\ event' = event
    BY <1>1, <1>4, <1>5 DEF ReceiveHandshakeRequest, Types
  <2>2. peer' = [peer EXCEPT ![m.to][m.from] = Zeros]
    BY <1>5 DEF ReceiveHandshakeRequest
  <2> QED BY <1>2, <2>1, <2>2, PeerUpdate, ZerosType DEF TypeOK
<1>6. CASE ReceiveHandshakeResponse(m.to, m)
  <2>1. messages' \subseteq Msg /\ event' = event
    BY <1>1, <1>4, <1>6 DEF ReceiveHandshakeResponse, Types
  <2>2. PICK x : x = IF peer[m.to][m.from] = NoPeer THEN Zeros ELSE peer[m.to][m.from]
    OBVIOUS
  <2>3. x \in Peer
    BY <1>2, <2>2, ZerosType DEF TypeOK
  <2>4. peer' = [peer EXCEPT ![m.to][m.from] = x]
    BY <1>6, <2>2 DEF ReceiveHandshakeResponse
  <2> QED BY <1>2, <2>1, <2>3, <2>4, PeerUpdate DEF TypeOK
<1>7. CASE ReceiveTimeSyncMsg(m.to, m)
  <2>1. messages' \subseteq Msg /\ event' = event
    BY <1>1, <1>4, <1>7 DEF ReceiveTimeSyncMsg, Types
  <2>2. CASE peer' = peer
    BY <2>1, <2>2 DEF TypeOK
  <2>3. CASE peer' # peer
    <3>1. PICK x : x = [known |-> TRUE, other |-> m.time, this |-> Millis(m.to), synced |-> TRUE,
                        of |-> m.of, at |-> now, type |-> m.type]
      OBVIOUS
    <3>2. x \in Peer
      BY <1>1, <1>2, <1>3, <3>1 DEF Peer, Msg
    <3>3. peer' = [peer EXCEPT ![m.to][m.from] = x]
      BY <1>7, <2>3, <3>1 DEF ReceiveTimeSyncMsg
    <3> QED BY <1>2, <2>1, <3>2, <3>3, PeerUpdate DEF TypeOK
  <2> QED BY <2>2, <2>3
<1>8. CASE ReceiveTimeSyncStart(m.to, m)
  <2> DEFINE p == peer[m.to][m.from]
             synced == p # NoPeer /\ p.synced
             due == IF synced THEN m.of + (p.at - p.of) ELSE 0
  <2>1. peer' = peer /\ messages' = messages \ {m}
        /\ ScheduleSyncStart(m.to, ConvertTime(m.to, m.from, m.time), synced, due)
    BY <1>8 DEF ReceiveTimeSyncStart
  <2>2. ConvertTime(m.to, m.from, m.time) \in Word
    BY <1>2, ConvertTimeType
  <2>3. synced \in BOOLEAN /\ due \in Nat
    <3>1. p \in Peer \cup {NoPeer}
      BY <1>2 DEF TypeOK
    <3>2. p # NoPeer => p.of \in Nat /\ p.at \in Nat /\ p.synced \in BOOLEAN
      BY <3>1 DEF Peer
    <3>3. synced => p.of <= p.at
      BY <1>2 DEF PeersPast
    <3> HIDE DEF p
    <3> QED BY <1>2, <3>2, <3>3
  <2> HIDE DEF synced, due
  <2>4. event' \in [Devices -> Event \cup {NoEvent}]
    BY <1>2, <2>1, <2>2, <2>3, ScheduleType
  <2> QED BY <1>1, <2>1, <2>4 DEF TypeOK
<1> QED BY <1>5, <1>6, <1>7, <1>8 DEF HandleInboxMsg

-----------------------------------------------------------------------------
(* The invariant.                                                           *)

\* How old a time may be that has left sendings left, when it is queued again.
Age(left) == (RETRIES - left) * (MaxWait + MaxTransit)

\* A time in a message is what the sender's clock showed, or will show, at the real time that
\* the message has in its history.
ClockOk(m) ==
  m.type \in {"TIME_SYNC", "TIME_SYNC_RESPONSE", "TIME_SYNC_START"} =>
    /\ m.time = Plus(offset[m.from], m.of)
    /\ m.of <= IF m.type = "TIME_SYNC_START" THEN MaxTime + MS_TIME_SYNC_START ELSE m.since

\* A message is not overdue, and a TIME_SYNC is as old as its sending.
AgeOk(m) ==
  /\ m.since <= now /\ now <= m.since + (IF m.sent THEN MaxTransit ELSE MaxWait)
  /\ m.type = "TIME_SYNC" /\ m.sent => m.of = m.since
  /\ m.type = "TIME_SYNC_RESPONSE" =>
       m.since <= m.of + Age(m.left) + (IF m.sent THEN MaxWait ELSE 0)

MessagesOk == \A m \in messages : ClockOk(m) /\ AgeOk(m)

\* The two times of a peer are what the two clocks showed at the real times in its history.
PeerOk(e, o, p) ==
  e # NoPeer /\ e.synced =>
    /\ e.other = Plus(p, e.of) /\ e.this = Plus(o, e.at)
    /\ e.of <= e.at /\ e.at <= now
    /\ e.at <= e.of + (IF e.type = "TIME_SYNC" THEN MaxTransit ELSE OldestResponse)
PeersOk == \A d, p \in Devices : PeerOk(peer[d][p], offset[d], offset[p])

\* An event is due when the history says, counted from when the state was entered.
EventOk(e, in) ==
  e.set =>
    /\ in <= e.handled /\ e.handled <= now
    /\ e.synced /\ in <= e.due =>
         /\ e.startMs = e.due - in
         /\ IF e.fired THEN e.firedAt = StartOf(e) ELSE now <= StartOf(e)
EventsOk == \A d \in Devices : EventOk(event[d], entered[d])

TimeSyncInv == TypeOK /\ MessagesOk /\ PeersOk /\ EventsOk

LEMMA AgeFacts ==
  ASSUME NEW left \in 0..RETRIES
  PROVE  /\ Age(left) \in Nat /\ Age(RETRIES) = 0 /\ OldestResponse \in Nat
         /\ Age(left) + MaxWait + MaxTransit <= OldestResponse
         /\ left > 0 => Age(left - 1) = Age(left) + MaxWait + MaxTransit
<1> DEFINE round == MaxWait + MaxTransit
<1>1. round \in Nat /\ RETRIES \in Nat /\ RETRIES - left \in Nat /\ RETRIES - left <= RETRIES
  BY Constants
<1>2. PICK k \in Nat : k = RETRIES - left
  BY <1>1
<1>3. /\ Age(left) = k * round /\ OldestResponse = (RETRIES + 1) * round
      /\ left > 0 => Age(left - 1) = (k + 1) * round
  <2>1. left > 0 => RETRIES - (left - 1) = k + 1
    BY <1>1, <1>2
  <2> QED BY <1>2, <2>1 DEF Age, OldestResponse
<1> HIDE DEF round
<1>4. k * round \in Nat /\ (k + 1) * round = k * round + round
  BY <1>1
<1>5. (k + 1) * round <= (RETRIES + 1) * round
  <2>1. PICK j \in Nat : RETRIES + 1 = k + 1 + j
    <3>1. RETRIES - k \in Nat /\ RETRIES + 1 = k + 1 + (RETRIES - k)
      BY <1>1, <1>2
    <3> QED BY <3>1
  <2>2. (k + 1 + j) * round = (k + 1) * round + j * round /\ j * round \in Nat
    BY <1>1, <2>1
  <2> QED BY <1>1, <1>4, <2>1, <2>2
<1>6. Age(RETRIES) = 0
  BY Constants DEF Age
<1>7. OldestResponse \in Nat
  BY <1>1, <1>3
<1> QED BY <1>1, <1>3, <1>4, <1>5, <1>6, <1>7, Constants DEF round

-----------------------------------------------------------------------------
(* What the steps do to the parts of the invariant.                         *)

\* The messages that are not new are as they were, unless time passes.
LEMMA OtherMessages ==
  ASSUME TypeOK, MessagesOk, now' = now, offset' = offset,
         \A m \in messages' : m \in messages \/ (m \in Msg /\ ClockOk(m)' /\ AgeOk(m)')
  PROVE  MessagesOk'
<1> SUFFICES ASSUME NEW m \in messages'
             PROVE  ClockOk(m)' /\ AgeOk(m)'
  BY DEF MessagesOk
<1>1. CASE m \in messages
  BY <1>1 DEF MessagesOk, ClockOk, AgeOk
<1> QED BY <1>1

\* A handshake message or a time, as it is pushed.
LEMMA PushedOk ==
  ASSUME TypeOK, now' = now, offset' = offset, NEW d \in Devices, NEW p \in Devices, NEW m,
         \/ \E type \in {"HANDSHAKE_REQUEST", "HANDSHAKE_RESPONSE"} : m = Handshake(type, d, p)
         \/ \E type \in {"TIME_SYNC", "TIME_SYNC_RESPONSE"} : m = TimeSync(type, d, p)
  PROVE  m \in Msg /\ ClockOk(m)' /\ AgeOk(m)'
<1>1. now \in Nat /\ Age(RETRIES) = 0
  <2>1. RETRIES \in 0..RETRIES /\ now \in Nat
    BY Constants DEF TypeOK
  <2> QED BY <2>1, AgeFacts
<1>2. m \in Msg
  BY HandshakeType DEF Types
<1>3. CASE \E type \in {"HANDSHAKE_REQUEST", "HANDSHAKE_RESPONSE"} : m = Handshake(type, d, p)
  BY <1>1, <1>2, <1>3, Constants DEF ClockOk, AgeOk, Handshake, Queued
<1>4. CASE \E type \in {"TIME_SYNC", "TIME_SYNC_RESPONSE"} : m = TimeSync(type, d, p)
  <2>1. /\ m.type \in {"TIME_SYNC", "TIME_SYNC_RESPONSE"} /\ m.from = d
        /\ m.time = Plus(offset[d], now) /\ m.of = now /\ m.since = now
        /\ m.left = RETRIES /\ m.sent = FALSE
    BY <1>4 DEF TimeSync, Queued, Millis
  <2> QED BY <1>1, <1>2, <2>1, Constants DEF ClockOk, AgeOk
<1> QED BY <1>2, <1>3, <1>4

\* The entries of the table that are not written are as they were.
LEMMA OtherPeers ==
  ASSUME TypeOK, PeersOk, now' = now, offset' = offset, NEW d \in Devices, NEW p \in Devices,
         NEW x, peer' = [peer EXCEPT ![d][p] = x], PeerOk(x, offset[d], offset[p])
  PROVE  PeersOk'
<1> SUFFICES ASSUME NEW e \in Devices, NEW q \in Devices
             PROVE  PeerOk(peer[e][q], offset[e], offset[q])'
  BY DEF PeersOk
<1>1. \/ e = d /\ q = p /\ peer'[e][q] = x
      \/ peer'[e][q] = peer[e][q]
  BY PeerUpdate
<1>2. CASE e = d /\ q = p /\ peer'[e][q] = x
  BY <1>2 DEF PeerOk
<1>3. CASE peer'[e][q] = peer[e][q]
  BY <1>3 DEF PeersOk, PeerOk
<1> QED BY <1>1, <1>2, <1>3

LEMMA ZerosOk ==
  ASSUME NEW o, NEW p
  PROVE  PeerOk(Zeros, o, p)
  BY DEF PeerOk, Zeros

LEMMA EventsKept ==
  ASSUME EventsOk, now' = now, event' = event, entered' = entered
  PROVE  EventsOk'
  BY DEF EventsOk, EventOk

\* A start is scheduled for a clock reading that the device's clock shows when it is due.
LEMMA Scheduled ==
  ASSUME TypeOK, EventsOk, now' = now, entered' = entered,
         NEW d \in Devices, NEW t \in Word, NEW synced \in BOOLEAN, NEW due \in Nat,
         ScheduleSyncStart(d, t, synced, due),
         synced => due < WORD /\ t = Plus(offset[d], due)
  PROVE  EventsOk'
<1>1. /\ event \in [Devices -> Event \cup {NoEvent}] /\ offset[d] \in Word
      /\ now \in Nat /\ now < WORD /\ entered[d] \in Nat /\ entered[d] <= now
  BY Constants DEF TypeOK
<1> SUFFICES ASSUME NEW e \in Devices
             PROVE  EventOk(event[e], entered[e])'
  BY DEF EventsOk
<1>2. CASE e # d
  <2>1. event'[e] = event[e]
    BY <1>1, <1>2 DEF ScheduleSyncStart
  <2> QED BY <2>1 DEF EventsOk, EventOk
<1>3. CASE e = d
  <2>1. event'[e] = [set |-> TRUE, startMs |-> StartMs(d, t), synced |-> synced, due |-> due,
                     handled |-> now, fired |-> FALSE, firedAt |-> 0]
    BY <1>1, <1>3 DEF ScheduleSyncStart
  <2>2. ASSUME synced, entered[d] <= due
        PROVE  StartMs(d, t) = due - entered[d]
    BY <1>1, <2>2, StartCounts DEF StartMs, Millis, GetElapsedMs
  <2> QED BY <1>1, <1>3, <2>1, <2>2 DEF EventOk, StartOf
<1> QED BY <1>2, <1>3

-----------------------------------------------------------------------------
(* The steps.                                                               *)

LEMMA RequestStep ==
  ASSUME TimeSyncInv, TypeOK', NEW d \in Devices, NEW p \in Devices, SendHandshakeRequest(d, p)
  PROVE  TimeSyncInv'
<1>1. /\ TypeOK /\ MessagesOk /\ PeersOk /\ EventsOk
      /\ now' = now /\ offset' = offset /\ event' = event /\ entered' = entered
      /\ messages' = messages \cup {Handshake("HANDSHAKE_REQUEST", d, p)}
      /\ peer' = [peer EXCEPT ![d][p] = IF @ = NoPeer THEN Zeros ELSE @]
  BY DEF TimeSyncInv, SendHandshakeRequest
<1>2. MessagesOk'
  <2>1. \A m \in messages' : m \in messages \/ m = Handshake("HANDSHAKE_REQUEST", d, p)
    BY <1>1
  <2>2. \A m : m = Handshake("HANDSHAKE_REQUEST", d, p) => m \in Msg /\ ClockOk(m)' /\ AgeOk(m)'
    BY <1>1, PushedOk
  <2> QED BY <1>1, <2>1, <2>2, OtherMessages
<1>3. PeersOk'
  <2>1. PICK x : x = IF peer[d][p] = NoPeer THEN Zeros ELSE peer[d][p]
    OBVIOUS
  <2>2. PeerOk(x, offset[d], offset[p])
    BY <1>1, <2>1, ZerosOk DEF PeersOk
  <2>3. peer' = [peer EXCEPT ![d][p] = x]
    BY <1>1, <2>1
  <2> QED BY <1>1, <2>2, <2>3, OtherPeers
<1>4. EventsOk'
  BY <1>1, EventsKept
<1> QED BY <1>2, <1>3, <1>4 DEF TimeSyncInv

LEMMA OutboxStep ==
  ASSUME TimeSyncInv, TypeOK', NEW m \in messages, HandleOutboxMsg(m)
  PROVE  TimeSyncInv'
<1>1. /\ TypeOK /\ MessagesOk /\ PeersOk /\ EventsOk
      /\ now' = now /\ offset' = offset /\ event' = event /\ entered' = entered /\ peer' = peer
      /\ ~m.sent /\ m \in Msg /\ ClockOk(m) /\ AgeOk(m) /\ now \in Nat
  BY Constants DEF TimeSyncInv, HandleOutboxMsg, TypeOK, MessagesOk
<1>2. PICK n : n = [Stamped(m) EXCEPT !.sent = TRUE, !.since = now]
  OBVIOUS
<1>3. /\ n.type = m.type /\ n.from = m.from /\ n.left = m.left /\ n.sent = TRUE /\ n.since = now
      /\ \/ n.type = "TIME_SYNC" /\ n.time = Millis(m.from) /\ n.of = now
         \/ n.type # "TIME_SYNC" /\ n.time = m.time /\ n.of = m.of
  BY <1>1, <1>2 DEF Stamped, Msg
<1>4. /\ m.since \in Nat /\ m.of \in Nat /\ m.left \in 0..RETRIES
      /\ m.since <= now /\ now <= m.since + MaxWait
  BY <1>1 DEF Msg, AgeOk
<1>5. ClockOk(n)'
  BY <1>1, <1>3, <1>4 DEF ClockOk, Millis
<1>6. AgeOk(n)'
  <2>1. Age(m.left) \in Nat
    BY <1>4, AgeFacts
  <2>2. n.type = "TIME_SYNC_RESPONSE" => now <= n.of + Age(m.left) + MaxWait
    <3>1. n.type = "TIME_SYNC_RESPONSE" => n.of = m.of /\ m.since <= m.of + Age(m.left)
      BY <1>1, <1>3, <1>4, <2>1 DEF AgeOk
    <3> QED BY <1>1, <1>4, <2>1, <3>1, Constants
  <2> QED BY <1>1, <1>3, <2>1, <2>2, Constants DEF AgeOk
<1>7. n \in messages' /\ messages' = (messages \ {m}) \cup {n}
  BY <1>2 DEF HandleOutboxMsg
<1>8. MessagesOk'
  <2>1. n \in Msg
    BY <1>7 DEF TypeOK
  <2> QED BY <1>1, <1>5, <1>6, <1>7, <2>1, OtherMessages
<1>9. PeersOk' /\ EventsOk'
  BY <1>1, EventsKept DEF PeersOk, PeerOk
<1> QED BY <1>8, <1>9 DEF TimeSyncInv

LEMMA LostStep ==
  ASSUME TimeSyncInv, TypeOK', NEW m \in messages, Lost(m)
  PROVE  TimeSyncInv'
<1>1. /\ TypeOK /\ MessagesOk /\ PeersOk /\ EventsOk
      /\ now' = now /\ offset' = offset /\ event' = event /\ entered' = entered /\ peer' = peer
      /\ m.sent /\ m \in Msg /\ ClockOk(m) /\ AgeOk(m) /\ now \in Nat
  BY Constants DEF TimeSyncInv, Lost, TypeOK, MessagesOk
<1>2. PICK n : n = [m EXCEPT !.sent = FALSE, !.since = now, !.left = @ - 1]
  OBVIOUS
<1>3. /\ n.type = m.type /\ n.from = m.from /\ n.left = m.left - 1 /\ n.sent = FALSE
      /\ n.since = now /\ n.time = m.time /\ n.of = m.of
  BY <1>1, <1>2 DEF Msg
<1>4. /\ m.since \in Nat /\ m.of \in Nat /\ m.left \in 0..RETRIES
      /\ m.since <= now /\ now <= m.since + MaxTransit
  BY <1>1 DEF Msg, AgeOk
<1>5. messages' = (messages \ {m}) \cup (IF m.left > 0 THEN {n} ELSE {})
  BY <1>2 DEF Lost
<1>6. ClockOk(n)'
  BY <1>1, <1>3, <1>4 DEF ClockOk
<1>7. ASSUME m.left > 0
      PROVE  AgeOk(n)'
  <2>1. Age(m.left) \in Nat /\ Age(n.left) = Age(m.left) + MaxWait + MaxTransit
    BY <1>3, <1>4, <1>7, AgeFacts
  <2>2. n.type = "TIME_SYNC_RESPONSE" => now <= n.of + Age(n.left)
    <3>1. n.type = "TIME_SYNC_RESPONSE" => m.since <= m.of + Age(m.left) + MaxWait
      BY <1>1, <1>3, <1>4, <2>1 DEF AgeOk
    <3> QED BY <1>1, <1>3, <1>4, <2>1, <3>1, Constants
  <2> QED BY <1>1, <1>3, <1>4, <2>1, <2>2, Constants DEF AgeOk
<1>8. MessagesOk'
  <2>1. CASE m.left > 0
    <3>1. n \in Msg
      BY <1>5, <2>1 DEF TypeOK
    <3> QED BY <1>1, <1>5, <1>6, <1>7, <2>1, <3>1, OtherMessages
  <2>2. CASE ~(m.left > 0)
    BY <1>1, <1>5, <2>2, OtherMessages
  <2> QED BY <2>1, <2>2
<1>9. PeersOk' /\ EventsOk'
  BY <1>1, EventsKept DEF PeersOk, PeerOk
<1> QED BY <1>8, <1>9 DEF TimeSyncInv

LEMMA RefusedStep ==
  ASSUME TimeSyncInv, TypeOK', NEW m \in messages, Refused(m)
  PROVE  TimeSyncInv'
<1>1. /\ TypeOK /\ MessagesOk /\ PeersOk /\ EventsOk
      /\ now' = now /\ offset' = offset /\ event' = event /\ entered' = entered /\ peer' = peer
      /\ messages' \subseteq messages
  BY DEF TimeSyncInv, Refused
<1>2. MessagesOk'
  BY <1>1, OtherMessages DEF MessagesOk
<1>3. PeersOk' /\ EventsOk'
  BY <1>1, EventsKept DEF PeersOk, PeerOk
<1> QED BY <1>2, <1>3 DEF TimeSyncInv

LEMMA StartStep ==
  ASSUME TimeSyncInv, TypeOK', SendSyncStartTime
  PROVE  TimeSyncInv'
<1> DEFINE due == now + MS_TIME_SYNC_START
           t == Plus(Millis(Master), MS_TIME_SYNC_START)
           start(p) == Queued("TIME_SYNC_START", Master, p, t, due, 0)
<1>1. /\ TypeOK /\ MessagesOk /\ PeersOk /\ EventsOk
      /\ now' = now /\ offset' = offset /\ entered' = entered /\ peer' = peer
      /\ offset[Master] \in Word /\ now \in 0..MaxTime
  BY Constants DEF TimeSyncInv, SendSyncStartTime, TypeOK
<1>2. /\ messages' = messages \cup {start(p) : p \in {p \in Devices : peer[Master][p] # NoPeer}}
      /\ ScheduleSyncStart(Master, t, TRUE, due)
  BY DEF SendSyncStartTime
<1>3. t = Plus(offset[Master], due) /\ t \in Word
  BY <1>1, Constants DEF Millis, Plus, Word
<1>4. ASSUME NEW p \in Devices, NEW m, m = start(p)
      PROVE  m \in Msg /\ ClockOk(m)' /\ AgeOk(m)'
  <2>1. due \in Nat /\ 0 \in 0..RETRIES
    BY <1>1, Constants
  <2>2. m \in Msg
    BY <1>1, <1>3, <1>4, <2>1, QueuedType, Constants DEF Types
  <2>3. /\ m.type = "TIME_SYNC_START" /\ m.from = Master /\ m.time = t
        /\ m.of = due /\ m.since = now /\ m.sent = FALSE
    BY <1>4 DEF Queued
  <2> QED BY <1>1, <1>3, <2>2, <2>3, Constants DEF ClockOk, AgeOk
<1>5. MessagesOk'
  <2> HIDE DEF start
  <2>1. \A m \in messages' : m \in messages \/ \E p \in Devices : m = start(p)
    BY <1>2
  <2> QED BY <1>1, <1>4, <2>1, OtherMessages
<1>6. EventsOk'
  <2>1. due \in Nat /\ due < WORD
    BY <1>1, Constants
  <2> HIDE DEF due, t
  <2> QED BY <1>1, <1>2, <1>3, <2>1, Scheduled, Constants
<1>7. PeersOk'
  BY <1>1 DEF PeersOk, PeerOk
<1> QED BY <1>5, <1>6, <1>7 DEF TimeSyncInv

LEMMA FireStep ==
  ASSUME TimeSyncInv, TypeOK', NEW d \in Devices, Fire(d)
  PROVE  TimeSyncInv'
<1>1. /\ TypeOK /\ MessagesOk /\ PeersOk /\ EventsOk /\ IsTime(d)
      /\ now' = now /\ offset' = offset /\ entered' = entered /\ peer' = peer
      /\ messages' = messages
      /\ event' = [event EXCEPT ![d].fired = TRUE, ![d].firedAt = now]
  BY DEF TimeSyncInv, Fire
<1>2. event \in [Devices -> Event \cup {NoEvent}] /\ now \in Nat /\ entered[d] \in Nat
  BY <1>1, Constants DEF TypeOK
<1>3. event[d] \in Event
  BY <1>1, <1>2 DEF IsTime, NoEvent
<1>4. /\ \A e \in Devices \ {d} : event'[e] = event[e]
      /\ event'[d] = [event[d] EXCEPT !.fired = TRUE, !.firedAt = now]
  BY <1>1, <1>2
<1>5. EventOk(event[d], entered[d])'
  <2>1. PICK e \in Event : e = event[d]
    BY <1>3
  <2>2. /\ EventOk(e, entered[d]) /\ e.set /\ ~e.fired /\ now - entered[d] >= e.startMs
        /\ e.due \in Nat /\ e.handled \in Nat
    BY <1>1, <2>1 DEF EventsOk, IsTime, GetElapsedMs, Event
  <2>3. /\ event'[d].set = e.set /\ event'[d].handled = e.handled /\ event'[d].synced = e.synced
        /\ event'[d].due = e.due /\ event'[d].startMs = e.startMs
        /\ event'[d].fired = TRUE /\ event'[d].firedAt = now
    BY <1>4, <2>1 DEF Event
  <2>4. e.synced /\ entered[d] <= e.due => e.startMs = e.due - entered[d] /\ now = StartOf(e)
    BY <1>2, <2>2 DEF EventOk, StartOf
  <2> QED BY <1>1, <2>2, <2>3, <2>4 DEF EventOk, StartOf
<1>6. EventsOk'
  BY <1>1, <1>4, <1>5 DEF EventsOk, EventOk
<1>7. MessagesOk' /\ PeersOk'
  BY <1>1, OtherMessages DEF PeersOk, PeerOk
<1> QED BY <1>6, <1>7 DEF TimeSyncInv

LEMMA EnterStep ==
  ASSUME TimeSyncInv, TypeOK', NEW d \in Devices, EnterState(d)
  PROVE  TimeSyncInv'
<1>1. /\ TypeOK /\ MessagesOk /\ PeersOk /\ EventsOk
      /\ now' = now /\ offset' = offset /\ peer' = peer /\ messages' = messages
      /\ entered' = [entered EXCEPT ![d] = now] /\ event' = [event EXCEPT ![d] = NoEvent]
  BY DEF TimeSyncInv, EnterState
<1>2. /\ \A e \in Devices \ {d} : event'[e] = event[e] /\ entered'[e] = entered[e]
      /\ event'[d].set = FALSE
  BY <1>1 DEF TypeOK, NoEvent
<1>3. EventsOk'
  BY <1>1, <1>2 DEF EventsOk, EventOk
<1>4. MessagesOk' /\ PeersOk'
  BY <1>1, OtherMessages DEF PeersOk, PeerOk
<1> QED BY <1>3, <1>4 DEF TimeSyncInv

LEMMA TickStep ==
  ASSUME TimeSyncInv, TypeOK', Tick
  PROVE  TimeSyncInv'
<1>1. /\ TypeOK /\ MessagesOk /\ PeersOk /\ EventsOk /\ now' = now + 1
      /\ offset' = offset /\ peer' = peer /\ messages' = messages
      /\ entered' = entered /\ event' = event /\ now \in Nat
  BY Constants DEF TimeSyncInv, Tick, TypeOK
<1>2. MessagesOk'
  <2> SUFFICES ASSUME NEW m \in messages
               PROVE  ClockOk(m)' /\ AgeOk(m)'
    BY <1>1 DEF MessagesOk
  <2>1. /\ ClockOk(m) /\ AgeOk(m) /\ m.since \in Nat
        /\ now < m.since + (IF m.sent THEN MaxTransit ELSE MaxWait)
    BY <1>1 DEF MessagesOk, Tick, TypeOK, Msg
  <2> QED BY <1>1, <2>1, Constants DEF ClockOk, AgeOk
<1>3. PeersOk'
  <2> SUFFICES ASSUME NEW d \in Devices, NEW p \in Devices,
                      peer[d][p] # NoPeer, peer[d][p].synced
               PROVE  PeerOk(peer[d][p], offset[d], offset[p])'
    BY <1>1 DEF PeersOk, PeerOk
  <2>1. peer[d][p] \in Peer
    BY <1>1 DEF TypeOK
  <2>2. PeerOk(peer[d][p], offset[d], offset[p]) /\ peer[d][p].at \in Nat
    BY <1>1, <2>1 DEF PeersOk, Peer
  <2> QED BY <1>1, <2>2 DEF PeerOk
<1>4. EventsOk'
  <2> SUFFICES ASSUME NEW d \in Devices, event[d].set
               PROVE  EventOk(event[d], entered[d])'
    BY <1>1 DEF EventsOk, EventOk
  <2>1. /\ event[d] \in Event /\ entered[d] \in Nat /\ EventOk(event[d], entered[d]) /\ ~IsTime(d)
    BY <1>1, Constants DEF TypeOK, NoEvent, EventsOk, Tick
  <2>2. PICK e \in Event : e = event[d]
    BY <2>1
  <2>3. /\ e.handled \in Nat /\ e.due \in Nat /\ EventOk(e, entered[d])
        /\ e.fired \/ ~(now - entered[d] >= e.startMs)
    BY <2>1, <2>2 DEF Event, IsTime, GetElapsedMs
  <2>4. e.handled <= now' /\ entered[d] <= e.handled
    BY <1>1, <2>2, <2>3 DEF EventOk
  <2>5. ASSUME e.synced, entered[d] <= e.due
        PROVE  /\ e.startMs = e.due - entered[d]
               /\ IF e.fired THEN e.firedAt = StartOf(e) ELSE now' <= StartOf(e)
    BY <1>1, <2>1, <2>2, <2>3, <2>5 DEF EventOk, StartOf
  <2> QED BY <1>1, <2>2, <2>4, <2>5 DEF EventOk, StartOf
<1> QED BY <1>2, <1>3, <1>4 DEF TimeSyncInv

\* A device takes in the time of a peer.
LEMMA TimeTakenIn ==
  ASSUME TimeSyncInv, NEW d \in Devices, NEW m \in messages, m.sent,
         m.type \in {"TIME_SYNC", "TIME_SYNC_RESPONSE"}
  PROVE  PeerOk([known |-> TRUE, other |-> m.time, this |-> Millis(d), synced |-> TRUE,
                 of |-> m.of, at |-> now, type |-> m.type], offset[d], offset[m.from])
<1>1. /\ m \in Msg /\ ClockOk(m) /\ AgeOk(m) /\ now \in Nat
  BY Constants DEF TimeSyncInv, TypeOK, MessagesOk
<1>2. m.of \in Nat /\ m.since \in Nat /\ m.left \in 0..RETRIES
  BY <1>1 DEF Msg
<1>3. /\ m.time = Plus(offset[m.from], m.of) /\ m.of <= m.since
      /\ m.since <= now /\ now <= m.since + MaxTransit
  BY <1>1 DEF ClockOk, AgeOk
<1>4. CASE m.type = "TIME_SYNC"
  <2>1. m.of = m.since
    BY <1>1, <1>4 DEF AgeOk
  <2> QED BY <1>1, <1>2, <1>3, <1>4, <2>1, Constants DEF PeerOk, Millis
<1>5. CASE m.type = "TIME_SYNC_RESPONSE"
  <2>1. Age(m.left) \in Nat /\ OldestResponse \in Nat /\ Age(m.left) + MaxWait + MaxTransit <= OldestResponse
    BY <1>2, AgeFacts
  <2>2. m.since <= m.of + Age(m.left) + MaxWait
    BY <1>1, <1>5 DEF AgeOk
  <2>3. now <= m.of + OldestResponse
    BY <1>1, <1>2, <1>3, <2>1, <2>2, Constants
  <2> QED BY <1>1, <1>2, <1>3, <1>5, <2>3 DEF PeerOk, Millis
<1> QED BY <1>4, <1>5

LEMMA InboxStep ==
  ASSUME TimeSyncInv, TypeOK', NEW m \in messages, HandleInboxMsg(m)
  PROVE  TimeSyncInv'
<1>1. /\ TypeOK /\ MessagesOk /\ PeersOk /\ EventsOk
      /\ now' = now /\ offset' = offset /\ entered' = entered
      /\ m \in Msg /\ m.sent /\ now \in 0..MaxTime
  BY DEF TimeSyncInv, HandleInboxMsg, TypeOK
<1>2. m.to \in Devices /\ m.from \in Devices /\ m.time \in Word /\ m.of \in Nat
  BY <1>1 DEF Msg
<1>3. ASSUME \A n \in messages' :
               \/ n \in messages
               \/ \E type \in {"HANDSHAKE_REQUEST", "HANDSHAKE_RESPONSE"} :
                    n = Handshake(type, m.to, m.from)
               \/ \E type \in {"TIME_SYNC", "TIME_SYNC_RESPONSE"} : n = TimeSync(type, m.to, m.from)
      PROVE  MessagesOk'
  BY <1>1, <1>2, <1>3, PushedOk, OtherMessages
<1>4. CASE ReceiveHandshakeRequest(m.to, m)
  <2>1. /\ event' = event /\ peer' = [peer EXCEPT ![m.to][m.from] = Zeros]
        /\ messages' = (messages \ {m}) \cup {Handshake("HANDSHAKE_RESPONSE", m.to, m.from)}
    BY <1>4 DEF ReceiveHandshakeRequest
  <2>2. MessagesOk'
    BY <1>3, <2>1
  <2>3. PeersOk'
    BY <1>1, <1>2, <2>1, ZerosOk, OtherPeers
  <2> QED BY <1>1, <2>1, <2>2, <2>3, EventsKept DEF TimeSyncInv
<1>5. CASE ReceiveHandshakeResponse(m.to, m)
  <2>1. /\ event' = event
        /\ messages' = (messages \ {m}) \cup {TimeSync("TIME_SYNC", m.to, m.from)}
    BY <1>5 DEF ReceiveHandshakeResponse
  <2>2. MessagesOk'
    BY <1>3, <2>1
  <2>3. PICK x : x = IF peer[m.to][m.from] = NoPeer THEN Zeros ELSE peer[m.to][m.from]
    OBVIOUS
  <2>4. peer' = [peer EXCEPT ![m.to][m.from] = x]
    BY <1>5, <2>3 DEF ReceiveHandshakeResponse
  <2>5. PeerOk(x, offset[m.to], offset[m.from])
    BY <1>1, <1>2, <2>3, ZerosOk DEF PeersOk
  <2>6. PeersOk'
    BY <1>1, <1>2, <2>4, <2>5, OtherPeers
  <2> QED BY <1>1, <2>1, <2>2, <2>6, EventsKept DEF TimeSyncInv
<1>6. CASE ReceiveTimeSyncMsg(m.to, m)
  <2>1. /\ event' = event /\ m.type \in {"TIME_SYNC", "TIME_SYNC_RESPONSE"}
        /\ \/ messages' = messages \ {m}
           \/ messages' = (messages \ {m}) \cup {TimeSync("TIME_SYNC_RESPONSE", m.to, m.from)}
    BY <1>6 DEF ReceiveTimeSyncMsg
  <2>2. MessagesOk'
    BY <1>3, <2>1
  <2>3. PeersOk'
    <3>1. CASE peer' = peer
      BY <1>1, <3>1 DEF PeersOk, PeerOk
    <3>2. CASE peer' # peer
      <4>1. PICK x : x = [known |-> TRUE, other |-> m.time, this |-> Millis(m.to), synced |-> TRUE,
                          of |-> m.of, at |-> now, type |-> m.type]
        OBVIOUS
      <4>2. peer' = [peer EXCEPT ![m.to][m.from] = x]
        BY <1>6, <3>2, <4>1 DEF ReceiveTimeSyncMsg
      <4>3. PeerOk(x, offset[m.to], offset[m.from])
        BY <1>1, <1>2, <2>1, <4>1, TimeTakenIn
      <4> QED BY <1>1, <1>2, <4>2, <4>3, OtherPeers
    <3> QED BY <3>1, <3>2
  <2> QED BY <1>1, <2>1, <2>2, <2>3, EventsKept DEF TimeSyncInv
<1>7. CASE ReceiveTimeSyncStart(m.to, m)
  <2> DEFINE p == peer[m.to][m.from]
             synced == p # NoPeer /\ p.synced
             due == IF synced THEN m.of + (p.at - p.of) ELSE 0
             t == ConvertTime(m.to, m.from, m.time)
  <2>1. /\ peer' = peer /\ messages' = messages \ {m} /\ m.type = "TIME_SYNC_START"
        /\ ScheduleSyncStart(m.to, t, synced, due)
    BY <1>7 DEF ReceiveTimeSyncStart
  <2>2. t \in Word
    BY <1>1, <1>2, ConvertTimeType
  <2>3. /\ offset[m.to] \in Word /\ offset[m.from] \in Word
        /\ m.time = Plus(offset[m.from], m.of) /\ m.of <= MaxTime + MS_TIME_SYNC_START
    BY <1>1, <1>2, <2>1 DEF TypeOK, MessagesOk, ClockOk
  <2>4. p # NoPeer => p.of \in Nat /\ p.at \in Nat /\ p.synced \in BOOLEAN
    <3>1. p \in Peer \cup {NoPeer}
      BY <1>1, <1>2 DEF TypeOK
    <3> QED BY <3>1 DEF Peer
  <2>5. ASSUME synced
        PROVE  due \in Nat /\ due < WORD /\ t = Plus(offset[m.to], due)
    <3>1. /\ p.other = Plus(offset[m.from], p.of) /\ p.this = Plus(offset[m.to], p.at)
          /\ p.of <= p.at /\ p.at <= now
      BY <1>1, <1>2, <2>5 DEF PeersOk, PeerOk
    <3>2. t = Plus(p.this, Minus(m.time, p.other)) /\ due = m.of + (p.at - p.of)
      BY <2>5 DEF ConvertTime
    <3> HIDE DEF p, t, due
    <3>3. due \in Nat /\ due < WORD /\ p.at < WORD /\ m.of < WORD
      BY <1>1, <1>2, <2>3, <2>4, <2>5, <3>1, <3>2, Constants
    <3> QED BY <1>2, <2>3, <2>4, <2>5, <3>1, <3>2, <3>3, Converted
  <2>6. synced \in BOOLEAN /\ due \in Nat
    BY <2>4, <2>5
  <2> HIDE DEF synced, due, t
  <2>7. EventsOk'
    BY <1>1, <1>2, <2>1, <2>2, <2>5, <2>6, Scheduled
  <2>8. MessagesOk' /\ PeersOk'
    BY <1>1, <2>1, OtherMessages DEF PeersOk, PeerOk
  <2> QED BY <2>7, <2>8 DEF TimeSyncInv
<1> QED BY <1>4, <1>5, <1>6, <1>7 DEF HandleInboxMsg

LEMMA InitInv == Init => TimeSyncInv
<1> SUFFICES ASSUME Init PROVE TimeSyncInv
  OBVIOUS
<1>1. TypeOK
  <2>1. offset \in [Devices -> Word]
    BY TimeAssumption DEF Init, Word
  <2>2. entered \in [Devices -> 0..MaxTime] /\ now \in 0..MaxTime /\ \A d \in Devices : entered[d] <= now
    BY Constants DEF Init
  <2>3. /\ peer \in [Devices -> [Devices -> Peer \cup {NoPeer}]]
        /\ event \in [Devices -> Event \cup {NoEvent}]
    BY DEF Init
  <2>4. handshakes \in 0..MaxHandshakes /\ losses \in 0..MaxLosses /\ changes \in 0..MaxChanges
    BY Constants DEF Init
  <2> QED BY <2>1, <2>2, <2>3, <2>4 DEF Init, TypeOK
<1>2. MessagesOk
  BY DEF Init, MessagesOk
<1>3. PeersOk /\ EventsOk
  BY DEF Init, PeersOk, PeerOk, EventsOk, EventOk, NoEvent
<1> QED BY <1>1, <1>2, <1>3 DEF TimeSyncInv

\* Types depend on the rest of the invariant, because the start that a device reckons with
\* would be before time 0 if its times were of the future.
LEMMA NextType ==
  ASSUME TimeSyncInv, Next
  PROVE  TypeOK'
<1>1. TypeOK /\ PeersPast
  BY DEF TimeSyncInv, PeersOk, PeerOk, PeersPast
<1>2. ASSUME NEW d \in Devices, NEW p \in Devices, SendHandshakeRequest(d, p)
      PROVE  TypeOK'
  <2>1. Handshake("HANDSHAKE_REQUEST", d, p) \in Msg
    BY <1>1, HandshakeType DEF Types
  <2>2. messages' \subseteq Msg
    BY <1>1, <1>2, <2>1 DEF SendHandshakeRequest, TypeOK
  <2>3. PICK x : x = IF peer[d][p] = NoPeer THEN Zeros ELSE peer[d][p]
    OBVIOUS
  <2>4. x \in Peer
    BY <1>1, <2>3, ZerosType DEF TypeOK
  <2>5. peer' = [peer EXCEPT ![d][p] = x]
    BY <1>2, <2>3 DEF SendHandshakeRequest
  <2>6. peer' \in [Devices -> [Devices -> Peer \cup {NoPeer}]]
    BY <1>1, <2>4, <2>5, PeerUpdate
  <2>7. handshakes' \in 0..MaxHandshakes
    BY <1>1, <1>2, Constants DEF SendHandshakeRequest, TypeOK
  <2> QED BY <1>1, <1>2, <2>2, <2>6, <2>7 DEF SendHandshakeRequest, TypeOK
<1>3. ASSUME NEW m \in messages, HandleOutboxMsg(m)
      PROVE  TypeOK'
  <2>1. messages' \subseteq Msg
    BY <1>1, <1>3, HandleOutboxType
  <2> QED BY <1>1, <1>3, <2>1 DEF HandleOutboxMsg, boundVars, TypeOK
<1>4. ASSUME NEW m \in messages, Lost(m)
      PROVE  TypeOK'
  <2>1. messages' \subseteq Msg
    BY <1>1, <1>4, LostType
  <2>2. losses' \in 0..MaxLosses
    BY <1>1, <1>4, Constants DEF Lost, TypeOK
  <2> QED BY <1>1, <1>4, <2>1, <2>2 DEF Lost, TypeOK
<1>5. ASSUME NEW m \in messages, Refused(m)
      PROVE  TypeOK'
  <2>1. messages' \subseteq Msg /\ losses' \in 0..MaxLosses
    BY <1>1, <1>5, Constants DEF Refused, TypeOK
  <2> QED BY <1>1, <1>5, <2>1 DEF Refused, TypeOK
<1>6. ASSUME NEW m \in messages, HandleInboxMsg(m)
      PROVE  TypeOK'
  <2>1. /\ messages' \subseteq Msg /\ event' \in [Devices -> Event \cup {NoEvent}]
        /\ peer' \in [Devices -> [Devices -> Peer \cup {NoPeer}]]
    BY <1>1, <1>6, HandleInboxType
  <2> QED BY <1>1, <1>6, <2>1 DEF HandleInboxMsg, boundVars, TypeOK
<1>7. ASSUME NEW d \in Devices, Fire(d)
      PROVE  TypeOK'
  <2>1. event[d] \in Event /\ now \in Nat
    BY <1>1, <1>7, Constants DEF Fire, IsTime, NoEvent, TypeOK
  <2>2. [event[d] EXCEPT !.fired = TRUE, !.firedAt = now] \in Event
    BY <2>1 DEF Event
  <2>3. event' \in [Devices -> Event \cup {NoEvent}]
    BY <1>1, <1>7, <2>2 DEF Fire, TypeOK
  <2> QED BY <1>1, <1>7, <2>3 DEF Fire, boundVars, TypeOK
<1>8. ASSUME NEW d \in Devices, EnterState(d)
      PROVE  TypeOK'
  <2>1. changes' \in 0..MaxChanges /\ syncing' \in [Devices -> BOOLEAN]
    BY <1>1, <1>8, Constants DEF EnterState, TypeOK
  <2>2. event' \in [Devices -> Event \cup {NoEvent}] /\ announced' \in BOOLEAN
    BY <1>1, <1>8 DEF EnterState, TypeOK
  <2>3. /\ entered' \in [Devices -> 0..MaxTime] /\ now' = now
        /\ \A e \in Devices : entered'[e] <= now'
    BY <1>1, <1>8, Constants DEF EnterState, TypeOK
  <2> QED BY <1>1, <1>8, <2>1, <2>2, <2>3 DEF EnterState, TypeOK
<1>9. CASE SendSyncStartTime
  <2>1. messages' \subseteq Msg /\ event' \in [Devices -> Event \cup {NoEvent}]
    BY <1>1, <1>9, SendSyncStartType
  <2> QED BY <1>1, <1>9, <2>1 DEF SendSyncStartTime, boundVars, TypeOK
<1>10. CASE Tick
  <2>1. now' \in 0..MaxTime /\ \A d \in Devices : entered[d] <= now'
    BY <1>1, <1>10, Constants DEF Tick, TypeOK
  <2> QED BY <1>1, <1>10, <2>1 DEF Tick, boundVars, TypeOK
<1> QED BY <1>2, <1>3, <1>4, <1>5, <1>6, <1>7, <1>8, <1>9, <1>10 DEF Next

\* The invariant is kept by every step.
LEMMA NextInv ==
  ASSUME TimeSyncInv, [Next]_vars
  PROVE  TimeSyncInv'
<1>1. CASE Next
  <2>1. TypeOK'
    BY <1>1, NextType
  <2> QED BY <1>1, <2>1, RequestStep, OutboxStep, LostStep, RefusedStep, InboxStep, FireStep, EnterStep,
             StartStep, TickStep DEF Next
<1>2. CASE UNCHANGED vars
  BY <1>2 DEF vars, boundVars, TimeSyncInv, TypeOK, MessagesOk, ClockOk, AgeOk, PeersOk, PeerOk,
              EventsOk, EventOk
<1> QED BY <1>1, <1>2

\* The strengthened invariant holds in every reachable state.
THEOREM TimeSyncInvariant == Spec => []TimeSyncInv
BY InitInv, NextInv, PTL DEF Spec

\* Every reachable state has its type.
THEOREM TimeSyncTypeCorrect == Spec => []TypeOK
<1>1. TimeSyncInv => TypeOK
  BY DEF TimeSyncInv
<1> QED BY <1>1, TimeSyncInvariant, PTL

\* How old the time is that a device has of a peer (base.cpp:335): one transit after a
\* TIME_SYNC, and after a TIME_SYNC_RESPONSE all the waits and transits of its sendings.
THEOREM LagsAreBounded == Spec => []LagBounded
<1>1. TimeSyncInv => LagBounded
  <2> SUFFICES ASSUME TimeSyncInv, NEW d \in Devices, NEW p \in Devices,
                      peer[d][p] # NoPeer, peer[d][p].synced
               PROVE  peer[d][p].at - peer[d][p].of <=
                        IF peer[d][p].type = "TIME_SYNC" THEN MaxTransit ELSE OldestResponse
    BY DEF LagBounded
  <2>1. peer[d][p] \in Peer
    BY DEF TimeSyncInv, TypeOK
  <2>2. /\ peer[d][p].at \in Nat /\ peer[d][p].of \in Nat
        /\ peer[d][p].at <= peer[d][p].of +
             (IF peer[d][p].type = "TIME_SYNC" THEN MaxTransit ELSE OldestResponse)
    BY <2>1 DEF TimeSyncInv, PeersOk, PeerOk, Peer
  <2>3. OldestResponse \in Nat /\ MaxTransit \in Nat
    <3>1. RETRIES \in 0..RETRIES
      BY Constants
    <3> QED BY <3>1, AgeFacts, Constants
  <2> QED BY <2>2, <2>3
<1> QED BY <1>1, TimeSyncInvariant, PTL

\* A device whose times are synced starts when the master does, later only by the age of the
\* time that it has, for every clock and wherever the clocks wrap (base.cpp:1140, 1384).
THEOREM DevicesStartOnTime == Spec => []StartsOnTime
<1>1. TimeSyncInv => StartsOnTime
  <2> SUFFICES ASSUME TimeSyncInv, NEW d \in Devices, event[d].set, event[d].synced,
                      event[d].due >= entered[d]
               PROVE  IF event[d].fired THEN event[d].firedAt = StartOf(event[d])
                      ELSE now <= StartOf(event[d])
    BY DEF StartsOnTime
  <2>1. event[d] \in Event /\ entered[d] \in Nat
    BY Constants DEF TimeSyncInv, TypeOK, NoEvent
  <2>2. event[d].due \in Nat
    BY <2>1 DEF Event
  <2> QED BY <2>1, <2>2 DEF TimeSyncInv, EventsOk, EventOk
<1> QED BY <1>1, TimeSyncInvariant, PTL

\* The two together: when the master's start is taken in, the device reckons with a time that is never
\* before the master's start and after it by no more than an answer can be old.
DueAfterMaster ==
  [][\A m \in messages :
       HandleInboxMsg(m) /\ m.type = "TIME_SYNC_START" /\ event'[m.to].synced =>
         m.of <= event'[m.to].due /\ event'[m.to].due <= m.of + OldestResponse]_vars

\* Devices never start before the master by what they reckon, and all within one such age of each
\* other, whatever their clocks show (base.cpp:335, 1140, 1384).
THEOREM StartsAreCloseToMaster == Spec => DueAfterMaster
<1> DEFINE Close(m) == m.of <= event'[m.to].due /\ event'[m.to].due <= m.of + OldestResponse
           Taken(m) == HandleInboxMsg(m) /\ m.type = "TIME_SYNC_START" /\ event'[m.to].synced
<1>1. ASSUME TimeSyncInv, NEW m \in messages, Taken(m)
      PROVE  Close(m)
  <2>1. /\ m \in Msg /\ m.to \in Devices /\ m.from \in Devices /\ m.of \in Nat
        /\ event \in [Devices -> Event \cup {NoEvent}] /\ ReceiveTimeSyncStart(m.to, m)
    BY <1>1 DEF TimeSyncInv, TypeOK, Msg, HandleInboxMsg, ReceiveHandshakeRequest,
                ReceiveHandshakeResponse, ReceiveTimeSyncMsg
  <2>2. PICK p : p = peer[m.to][m.from]
    OBVIOUS
  <2>3. /\ event'[m.to].synced = (p # NoPeer /\ p.synced)
        /\ event'[m.to].due = IF p # NoPeer /\ p.synced THEN m.of + (p.at - p.of) ELSE 0
    BY <2>1, <2>2 DEF ReceiveTimeSyncStart, ScheduleSyncStart
  <2>4. p # NoPeer /\ p.synced /\ event'[m.to].due = m.of + (p.at - p.of)
    BY <1>1, <2>3
  <2>5. p \in Peer
    BY <1>1, <2>1, <2>2, <2>4 DEF TimeSyncInv, TypeOK
  <2>6. /\ p.at \in Nat /\ p.of \in Nat /\ p.of <= p.at
        /\ p.at <= p.of + (IF p.type = "TIME_SYNC" THEN MaxTransit ELSE OldestResponse)
    BY <1>1, <2>1, <2>2, <2>4, <2>5 DEF TimeSyncInv, PeersOk, PeerOk, Peer
  <2>7. OldestResponse \in Nat /\ MaxTransit <= OldestResponse
    <3>1. 0 \in 0..RETRIES /\ RETRIES \in 0..RETRIES
      BY Constants
    <3>2. Age(0) \in Nat /\ Age(0) + MaxWait + MaxTransit <= OldestResponse /\ OldestResponse \in Nat
      BY <3>1, AgeFacts
    <3> QED BY <3>2, Constants
  <2> QED BY <2>1, <2>4, <2>6, <2>7, Constants
<1>2. TimeSyncInv => [\A m \in messages : Taken(m) => Close(m)]_vars
  BY <1>1
<1> QED BY <1>2, TimeSyncInvariant, PTL DEF DueAfterMaster

=============================================================================
