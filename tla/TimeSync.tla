------------------------------ MODULE TimeSync ------------------------------
(***************************************************************************)
(* How devices agree on a time to start at: the exchange of times that     *)
(* follows a handshake, the conversion of a time of the master's clock to  *)
(* that of the receiver, and the event that is scheduled with the result.  *)
(*                                                                         *)
(* millis() is an unsigned long that each device counts from its own boot, *)
(* so every sum and difference wraps at WORD.  All clocks run at the same  *)
(* rate.  A message is pushed, sent and handled, each within a bounded     *)
(* time of the step before, and in any order; update() passes over the     *)
(* events at every unit of time.                                           *)
(***************************************************************************)
EXTENDS Naturals, FiniteSets

CONSTANTS
  Devices, Master,
  WORD,                          \* the number of values of an unsigned long
  MS_TIME_SYNC_SCHEDULE_START,   \* the master announces a start so long after entering a state
  MS_TIME_SYNC_START,            \* and the start is so long after that
  RETRIES,                       \* how often a message with DEFAULT_RETRIES is really sent again
  MaxWait, MaxTransit,           \* the longest time from push to send, and from send to handling
  Offsets,                       \* bound: device -> what its clock may show at time 0
  MaxTime, MaxHandshakes, MaxLosses, MaxChanges   \* bounds

ASSUME TimeAssumption ==
  /\ Master \in Devices
  /\ {MS_TIME_SYNC_SCHEDULE_START, MS_TIME_SYNC_START, RETRIES, MaxWait, MaxTransit,
      MaxTime, MaxHandshakes, MaxLosses, MaxChanges} \subseteq Nat
  /\ WORD \in Nat /\ 2 * MaxTime + MS_TIME_SYNC_START < WORD
  /\ Offsets \subseteq [Devices -> 0 .. WORD - 1]

VARIABLES
  now,         \* the time, which no device knows
  offset,      \* device -> its clock at time 0
  entered,     \* device -> when it entered its state
  syncing,     \* device -> doSync() of the state
  announced,   \* the master's event has been called back since it entered its state
  peer,        \* device -> device -> otherTimeSync and thisTimeSync, or NoPeer
  messages,    \* what is queued or in the air
  event,       \* device -> its event EVENTKEY_SCHEDULE_SYNC_START, or NoEvent
  handshakes, losses, changes

boundVars == <<handshakes, losses, changes>>
vars == <<now, offset, entered, syncing, announced, peer, messages, event, boundVars>>

Word == 0 .. WORD - 1
PlusMutant(a, b) == a + b
Plus(a, b) == IF a + b < WORD THEN a + b ELSE a + b - WORD
Minus(a, b) == IF a >= b THEN a - b ELSE a + WORD - b

Millis(d)       == Plus(offset[d], now)
GetElapsedMs(d) == now - entered[d]

Types == {"HANDSHAKE_REQUEST", "HANDSHAKE_RESPONSE", "TIME_SYNC", "TIME_SYNC_RESPONSE",
          "TIME_SYNC_START"}

\* time is timeSyncTime or timeSyncStart, and of, as a history, the real time that it stands
\* for; since is the time of the last step of the message; left is how often it is sent again.
Msg == [type : Types, from : Devices, to : Devices, time : Word, of : Nat,
        sent : BOOLEAN, since : Nat, left : 0..RETRIES]

\* synced, and as histories the real times of the two clock readings and the type of the
\* message: a handshake makes an entry, or clears the one there is, and the times come later.
Peer   == [known : {TRUE}, other : Word, this : Word, synced : BOOLEAN,
           of : Nat, at : Nat, type : Types]
NoPeer == [known |-> FALSE]
Zeros  == [known |-> TRUE, other |-> 0, this |-> 0, synced |-> FALSE, of |-> 0, at |-> 0,
           type |-> "HANDSHAKE_REQUEST"]

\* startMs is the event's start time.  The rest is history: it was scheduled with synced times,
\* the real time of the start by the device's reckoning, when it was scheduled and called back.
Event   == [set : {TRUE}, startMs : Word, synced : BOOLEAN, due : Nat, handled : Nat,
            fired : BOOLEAN, firedAt : Nat]
NoEvent == [set |-> FALSE]

TypeOK ==
  /\ now \in 0..MaxTime /\ offset \in [Devices -> Word]
  /\ entered \in [Devices -> 0..MaxTime] /\ \A d \in Devices : entered[d] <= now
  /\ syncing \in [Devices -> BOOLEAN] /\ announced \in BOOLEAN
  /\ peer \in [Devices -> [Devices -> Peer \cup {NoPeer}]]
  /\ messages \subseteq Msg
  /\ event \in [Devices -> Event \cup {NoEvent}]
  /\ handshakes \in 0..MaxHandshakes /\ losses \in 0..MaxLosses /\ changes \in 0..MaxChanges

Init ==
  /\ now = 0 /\ offset \in Offsets
  /\ entered = [d \in Devices |-> 0] /\ syncing = [d \in Devices |-> FALSE] /\ announced = FALSE
  /\ peer = [d \in Devices |-> [p \in Devices |-> NoPeer]]
  /\ messages = {} /\ event = [d \in Devices |-> NoEvent]
  /\ handshakes = 0 /\ losses = 0 /\ changes = 0

-----------------------------------------------------------------------------
(* Messages.                                                                *)

Queued(type, d, p, time, of, left) ==
  [type |-> type, from |-> d, to |-> p, time |-> time, of |-> of,
   sent |-> FALSE, since |-> now, left |-> left]

\* A handshake message, and a time sync message: it is stamped when it is pushed.
Handshake(type, d, p) == Queued(type, d, p, 0, 0, 0)
TimeSync(type, d, p)  == Queued(type, d, p, Millis(d), now, RETRIES)

\* A device that scans finds a peer and pushes a request to it.
SendHandshakeRequest(d, p) ==
  /\ d # p /\ ~syncing[d]
  /\ handshakes < MaxHandshakes /\ handshakes' = handshakes + 1
  /\ peer' = [peer EXCEPT ![d][p] = IF @ = NoPeer THEN Zeros ELSE @]
  /\ messages' = messages \cup {Handshake("HANDSHAKE_REQUEST", d, p)}
  /\ UNCHANGED <<now, offset, entered, syncing, announced, event, losses, changes>>

\* handleOutboxMsg stamps TIME_SYNC again, TIME_SYNC_RESPONSE it leaves as it was pushed.
StampedMutant(m) == m
Stamped(m) ==
  IF m.type = "TIME_SYNC" THEN [m EXCEPT !.time = Millis(m.from), !.of = now] ELSE m

HandleOutboxMsg(m) ==
  /\ ~m.sent
  /\ messages' = (messages \ {m}) \cup {[Stamped(m) EXCEPT !.sent = TRUE, !.since = now]}
  /\ UNCHANGED <<now, offset, entered, syncing, announced, peer, event, boundVars>>

\* A lost message is queued again, with the time that it was sent with, while there are retries.
Lost(m) ==
  /\ m.sent
  /\ losses < MaxLosses /\ losses' = losses + 1
  /\ messages' = (messages \ {m}) \cup
       (IF m.left > 0 THEN {[m EXCEPT !.sent = FALSE, !.since = now, !.left = @ - 1]} ELSE {})
  /\ UNCHANGED <<now, offset, entered, syncing, announced, peer, event, handshakes, changes>>

\* A message that the driver refuses: no callback reports it, and nothing sends it again.
Refused(m) ==
  /\ ~m.sent
  /\ losses < MaxLosses /\ losses' = losses + 1
  /\ messages' = messages \ {m}
  /\ UNCHANGED <<now, offset, entered, syncing, announced, peer, event, handshakes, changes>>

-----------------------------------------------------------------------------
(* The start.                                                               *)

ConvertTimeMutant(d, p, t) ==
  IF peer[d][p] = NoPeer THEN 0
  ELSE IF t >= peer[d][p].other THEN Plus(peer[d][p].this, t - peer[d][p].other) ELSE t
ConvertTime(d, p, t) ==
  IF peer[d][p] = NoPeer THEN 0 ELSE Plus(peer[d][p].this, Minus(t, peer[d][p].other))

\* scheduleSyncStart: the time to go is added to the time that the state has been current.
StartMs(d, syncStartTime) == Plus(Minus(syncStartTime, Millis(d)), GetElapsedMs(d))

ScheduleSyncStart(d, syncStartTime, synced, due) ==
  event' = [event EXCEPT ![d] =
    [set |-> TRUE, startMs |-> StartMs(d, syncStartTime), synced |-> synced, due |-> due,
     handled |-> now, fired |-> FALSE, firedAt |-> 0]]

\* The master's event, once in every state with doSync().
SendSyncStartTime ==
  /\ syncing[Master] /\ ~announced
  /\ GetElapsedMs(Master) >= MS_TIME_SYNC_SCHEDULE_START
  /\ LET syncStartTime == Plus(Millis(Master), MS_TIME_SYNC_START)
         start == now + MS_TIME_SYNC_START
     IN  /\ messages' = messages \cup
              {Queued("TIME_SYNC_START", Master, p, syncStartTime, start, 0) :
                 p \in {p \in Devices : peer[Master][p] # NoPeer}}
         /\ ScheduleSyncStart(Master, syncStartTime, TRUE, start)
  /\ announced' = TRUE
  /\ UNCHANGED <<now, offset, entered, syncing, peer, boundVars>>

IsTime(d) == event[d].set /\ ~event[d].fired /\ GetElapsedMs(d) >= event[d].startMs
Fire(d) ==
  /\ IsTime(d)
  /\ event' = [event EXCEPT ![d].fired = TRUE, ![d].firedAt = now]
  /\ UNCHANGED <<now, offset, entered, syncing, announced, peer, messages, boundVars>>

\* A change of state deletes the event, which is temporary, and starts the clock of the state.
EnterState(d) ==
  /\ changes < MaxChanges /\ changes' = changes + 1
  /\ syncing' \in [Devices -> BOOLEAN] /\ \A p \in Devices \ {d} : syncing'[p] = syncing[p]
  /\ entered' = [entered EXCEPT ![d] = now]
  /\ event' = [event EXCEPT ![d] = NoEvent]
  /\ announced' = (announced /\ d # Master)
  /\ UNCHANGED <<now, offset, peer, messages, handshakes, losses>>

-----------------------------------------------------------------------------
(* handleInboxMsg.                                                          *)

\* A request makes a new entry of its sender's, or clears the one there is.
ReceiveHandshakeRequest(d, m) ==
  /\ m.type = "HANDSHAKE_REQUEST"
  /\ peer' = [peer EXCEPT ![d][m.from] = Zeros]
  /\ messages' = (messages \ {m}) \cup {Handshake("HANDSHAKE_RESPONSE", d, m.from)}
  /\ UNCHANGED event

ReceiveHandshakeResponse(d, m) ==
  /\ m.type = "HANDSHAKE_RESPONSE"
  /\ peer' = [peer EXCEPT ![d][m.from] = IF @ = NoPeer THEN Zeros ELSE @]
  /\ messages' = (messages \ {m}) \cup {TimeSync("TIME_SYNC", d, m.from)}
  /\ UNCHANGED event

ReceiveTimeSyncMsg(d, m) ==
  /\ m.type \in {"TIME_SYNC", "TIME_SYNC_RESPONSE"}
  /\ IF peer[d][m.from] = NoPeer
     THEN UNCHANGED peer /\ messages' = messages \ {m}
     ELSE /\ peer' = [peer EXCEPT ![d][m.from] =
                        [known |-> TRUE, other |-> m.time, this |-> Millis(d), synced |-> TRUE,
                         of |-> m.of, at |-> now, type |-> m.type]]
          /\ messages' = (messages \ {m}) \cup
               (IF m.type = "TIME_SYNC" THEN {TimeSync("TIME_SYNC_RESPONSE", d, m.from)} ELSE {})
  /\ UNCHANGED event

ReceiveTimeSyncStart(d, m) ==
  /\ m.type = "TIME_SYNC_START"
  /\ LET p == peer[d][m.from]
         synced == p # NoPeer /\ p.synced
     IN  ScheduleSyncStart(d, ConvertTime(d, m.from, m.time), synced,
                           IF synced THEN m.of + (p.at - p.of) ELSE 0)
  /\ messages' = messages \ {m}
  /\ UNCHANGED peer

HandleInboxMsg(m) ==
  /\ m.sent
  /\ \/ ReceiveHandshakeRequest(m.to, m)
     \/ ReceiveHandshakeResponse(m.to, m)
     \/ ReceiveTimeSyncMsg(m.to, m)
     \/ ReceiveTimeSyncStart(m.to, m)
  /\ UNCHANGED <<now, offset, entered, syncing, announced, boundVars>>

-----------------------------------------------------------------------------
\* Time passes when nothing is overdue.
Tick ==
  /\ now < MaxTime /\ now' = now + 1
  /\ \A m \in messages : now < m.since + (IF m.sent THEN MaxTransit ELSE MaxWait)
  /\ \A d \in Devices : ~IsTime(d)
  /\ UNCHANGED <<offset, entered, syncing, announced, peer, messages, event, boundVars>>

Next ==
  \/ \E d, p \in Devices : SendHandshakeRequest(d, p)
  \/ \E m \in messages : HandleOutboxMsg(m) \/ Lost(m) \/ Refused(m) \/ HandleInboxMsg(m)
  \/ \E d \in Devices : Fire(d) \/ EnterState(d)
  \/ SendSyncStartTime \/ Tick

Spec == Init /\ [][Next]_vars

-----------------------------------------------------------------------------
(* Properties.                                                              *)

\* The time of a peer that a device has is as old as the message was when it came, and that is
\* one transit for a TIME_SYNC; a TIME_SYNC_RESPONSE keeps its time while it is queued and
\* sent again (base.cpp:335).
OldestResponse == (RETRIES + 1) * (MaxWait + MaxTransit)
LagBounded ==
  \A d, p \in Devices : peer[d][p] # NoPeer /\ peer[d][p].synced =>
    peer[d][p].at - peer[d][p].of <= IF peer[d][p].type = "TIME_SYNC" THEN MaxTransit ELSE OldestResponse

\* A device whose times are synced starts after the master by the age of the time that it has,
\* however the clocks wrap; and at once if the message came later than that.  A device that
\* entered its state only after the start never does (base.cpp:1140).
StartOf(e) == IF e.due >= e.handled THEN e.due ELSE e.handled
StartsOnTime ==
  \A d \in Devices :
    LET e == event[d]
    IN  e.set /\ e.synced /\ e.due >= entered[d]
          => IF e.fired THEN e.firedAt = StartOf(e) ELSE now <= StartOf(e)

=============================================================================
