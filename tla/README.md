# AF1 in TLA+

AF1 is an Arduino framework for ESP32 devices: a state manager with an inbox, an outbox and
scheduled events, whose devices find each other over ESP-NOW, retry what is not delivered,
keep their clocks together and talk to a WebSocket server. This directory holds TLA+ models of
that code, the TLC configurations that check them and TLAPS proofs. Paths below are relative
to the repository; `base.cpp` is `src/stateEnt/virtual/base/base.cpp` and so on.

To check a run: `tlc -config <name>.cfg <module>.tla`. To check the proofs: `tlapm <module>.tla`.
`PROJECT.json` lists the runs, and for every definition the source lines it models.

## 1. The system

Two threads share one device. The **loop thread** runs the sketch's `loop()`, which calls
`Base::update()` for ever. The **WiFi task** of the ESP32 runs the ESP-NOW callbacks
`onESPNowDataRecv` and `onESPNowDataSent` whenever it likes. Nearly all state is static in
`base.cpp`; only the two boxes and `lastMsg` of a peer have a mutex.

| Component | State | Operations | Talks to |
|---|---|---|---|
| State manager | `curState`, `prevState`, `requestedState`, `initialState`, `stateEntMap`, `stateEnt`, `isMaster`, `detached` | `begin`, `update`, `setRequestedState`, `preStateChange`, `handleStateChange`, `handleInboxMsg`, `handleUserInput`, `addStateEnt` ... | everything: it drains the boxes, runs events, calls the current entity |
| Entities of the library | Purg: `purgMs`, `next` | `loop`, `setup` of Init, OTA, Restart, Purg, SyncTest | request states |
| Inbox, outbox (`Box`, `TSQueue`) | `q`, `m`, `c`, `msgHandler` | `enqueue`, `dequeue`, `handleMessages` | pushed by both threads, drained by the loop thread |
| ESP-NOW sender | `peerInfoMap`, `macToIDMap`, `lastMsg` and `mutex` of a peer | `sendMsgESPNow`, `onESPNowDataSent` | the driver; retries go back into the outbox |
| Discovery, handshakes | `handshakeRequest`, `handshakeResponse`, the driver's peers | `scanForPeersESPNow`, `connectToPeers`, `sendAllHandshakes`, `receiveHandshake...` | every 30 s by a global event |
| Event scheduler | `eventMap` of an entity, `globalEventMap`, `cbCnt`, `mode` | `cbIfTimeAndActive`, `setIntervalTime`, `resetEvents`, `activateEvents`, `deactivateEvents` | the clocks: state, device, NTP |
| Time sync | `otherTimeSync`, `thisTimeSync`, `syncStartTime` | `sendTimeSyncMsg`, `receiveTimeSyncMsg`, `convertTime`, `scheduleSyncStart` | a temporary event in the current entity |
| WebSocket client | `webSocketClient`, `curWSClientInfo`, `defaultWSClientInfo` | `connectToWS`, `sendMsgWS`, `handleWebSocketEvent` | pushes into the inbox from `update()` |
| MQTT | `unackedPackets`, `nextPacketId` | parts of `handleInboxMsg`, `handleOutboxMsg` | outbox |
| Messages (`AF1Msg`) | recipients, `sendCnt`, `maxRetries`, JSON, raw | copies, getters | |
| WiFi, HTTP, OTA upload | the driver's | one blocking call each | |

What is hard, and what makes each component correct:

- **State manager.** Requests come from messages, serial input, callbacks and entities, in any
  phase of `update()`, also between `preStateChange` and `handleStateChange`. What a master
  announces must be what it does; a request must be served; the device must come out of
  STATE_INIT and purgatory, boot into its initial state, keep events and handlers with the
  current entity, and not run into an id that has no entity.
- **Boxes.** Producers, the draining loop thread and handlers that push into the box they are
  called from. The box must be an atomic FIFO queue, lose no wake-up and not lock itself out.
- **ESP-NOW sender.** A callback concerns an earlier send than the last one; a send fails at once, and no
  callback comes at all. Retries must reach
  only peers the message is meant for, must end, and must carry a message through losses.
- **Discovery, handshakes.** Lost requests, restarted peers, a full driver: two devices in range
  of each other should end up paired, in both directions.
- **Events.** Late passes, state changes that reset counts, intervals that change, clocks that
  jump and wrap: callbacks must keep to their limit, not burst and not stop.
- **Time sync.** Devices must start together, wherever their clocks stand and wrap, though times
  are converted with numbers that were queued, lost and sent again on their way.
- **WebSocket, MQTT.** The server of the state is the one that the client is on; acknowledgements
  go to everyone, so they must find their own packet, end, and leave no packet behind.
- **Fleet.** Every device must end in the state of its master, and not go back to an earlier
  announcement because a retry of it was queued behind a later one.

`PROJECT.json` lists these hazards one by one, each with its line, and the properties on it.

## 2. The plan, and what is left of it

Done, in this order: StateManager; MailboxFifo and Box; EspNowLink; EventScheduler; Discovery (two
and three devices that scan, ask and answer, with losses and restarts); TimeSync; WebSocket and
Mqtt, which extends it; Fleet, which composes EspNowLink with a master and its followers, with
Following as what it promises; and the proofs of all of them.

Left, in the order of what it would add:

1. Implicit state changes in Fleet: a device that is pulled into the state of whoever sent it any message.
2. The part of NoBurst that the wrap exempts now, and a proof of it.
3. The width of ids on the wire, and messages of another sketch with their ids.
4. Callbacks that change the event map they are called from.

Which module extends which: Mqtt extends WebSocket, Fleet extends EspNowLink, an MC module extends the
specification that it has values for, a Proofs module the one that it proves about; Box
instantiates MailboxFifo and Fleet instantiates Following, which they implement. Two facts are carried from one module to others
by hand. Discovery, Mqtt and TimeSync take the result of a transmission as known before the next one and
count the retries that are really made (`RETRIES`), which EspNowLink derives from the callbacks, with a send that
the driver refuses as a loss that is not sent again; and Fleet takes the handshakes as done, which Discovery
is about.

## 3. The modules

### StateManager

One device. `pc` is the phase of `update()`: `inbox`, `outbox`, `serial`, `events`, `ws`, `loop`,
`check`, then, if a change is due, `pre` (preStateChange), `change` (handleStateChange up to the
call of setup) and `setup` (until the new handlers are installed). `aborted` and `restarting` stand
for an uncaught `std::out_of_range` or a call through NULL, and for `ESP.restart()`; from both the
device boots again with the state of `begin()`. `target` is the local copy of `requestedState` that
`update()` makes, so that a request set in `preStateChange` cannot redirect the change under way.

Every phase is an action, with one more for each message handled. The WiFi task's actions
(`OnESPNowDataRecv`, `OnESPNowDataSent`) may come between any two. `AppCall` is the application: at
the points where the code of a sketch runs (`AppRuns`) it makes one call of the public API, or
none. `LateCalls` says whether a `preStateChange` of the application goes on after it called
`Base::preStateChange`: then the events it adds stay active in the state it leaves, and the
request and flags it changes no longer count for the announcement.

`stateEntMap` has a third value besides present and absent, a key with NULL, because `operator[]` in
`getCurStateEnt`, which the clocks of the events call, and in `setPurgNext` inserts one.

Data that is left out: messages other than state changes are ASK (answered through the outbox) or
TELL; an entity's events are one permanent and one temporary; `purgMs` is the flag `purgOver`;
the purgatory entity is the one of `begin()`.

### EspNowLink

The sender of one device. One turn of the loop in `sendMsgESPNow` is one step, because the peer's
mutex is taken and released within it and the WiFi task can come between the turns.
`onESPNowDataSent` is two steps for a failure that is retried (decide; queue), with the mutex held
between them: `SendTo` of that peer waits, the other actions do not. `esp_now_send` takes a frame (`Accept`) or
returns an error (`Refuse`): always for a peer that the driver does not know, and at any time for one that it
does, up to `MaxRefusals`. Either way the message is the peer's `lastMsg` from then on, but what is refused is not
counted, is not reported on and is not sent again. The driver (`air`) reports on what it took in the order of
the sends, any time after the send; `Settle` makes it report within the `delay` that
follows every send (pre.h:58 "WARNING! Some delay is necessary").

`handleHandshakes` is one step for the scan and the pairing, then one for each request that
`sendAllHandshakes` pushes, since the WiFi task may push between two of them. The empty id that
`operator[]` makes is `Phantom`, 0, which sorts before all ids. Messages have numbers, so that the
histories `order`, `tx` and `refused` can say what was pushed, transmitted and refused (to a peer that the
driver knows); handshake messages and the blank `AF1Msg()` have number 0, no `order`, and no property is about them. Requests, like responses, have
no retries.

### Fleet

EspNowLink is the sender of the master, and every step of Fleet is a step of it or leaves it alone.
`phase` is what matters of the master's `update()`: it empties the inbox (handshakes of devices that
have restarted), then the outbox, until nothing is left, and changes its state last. That order is
what keeps two announcements from being in flight together. `ChangeState` is preStateChange with
handleStateChange: the announcement is pushed to everyone, with retries.

A frame that arrives is in the follower's `inbox`. A frame that the driver reports as not delivered may
have arrived all the same, when it is the acknowledgement that was lost; then the retry is a duplicate.
A follower takes its messages one by one, notices that its inbox is empty (`drained`), and changes
its state. `Restart` puts it into STATE_INIT with an empty inbox. What it handles there it takes in like any other
message, but `Init::loop` asks for the initial state in every pass, after the messages (init.cpp:90), so that
by the check the request is always that one (`RequestAtCheck`) and what it has heard is lost. `handled` is the
last announcement that it ever took, `unaware` who restarted and has taken none since its boot was done, `restarted`
who restarted at all; these are histories.

Following is the promise of a fleet, without messages: the master's `path` through the states, the `place` on
it that a follower heard of last, the states that it wants and has entered. A follower may pass over states
and hear of one again, but never goes back on the path, wants no state that is not on it, and is in the initial state
only after it has started again. FollowsMaster maps `path` to the states announced so far with the present one
last, `place` to what comes after `handled`, `wanted` and `entered` to `requested` and `cur`, where STATE_INIT
counts as the initial state that it ends in (`AfterBoot`).

### MailboxFifo and Box

MailboxFifo is the promise: `Put`, `Take` and `Finish` are atomic. Box is the code: a step for every
point where another thread can come in, the mutex, the condition variable with spurious wake-ups,
and the recursion of `handleMessages`. A waiter returns from `dequeue` with `val`; the loop thread
calls the handler with the mutex free, and the handler may push. The refinement maps `queue` to
`q`, and `holds` to the local message of a taker except between `front()` and `pop()`.

### EventScheduler

One `AF1Event` with all it depends on: the pass of `update()`, three clocks, the state that it was
added in. All arithmetic is modulo `WORD`, as that of `unsigned long`. `Tick` is the clock;
`late` is the time since the last pass and at most `MaxLate`. `fired` and `base` are histories: the
callbacks since `cbCnt` was last set from outside, and the value it was set to. `ChangeState` is what
a change does to the event, wherever it was added: deactivate, reset, activate, delete if temporary.
MCEventScheduler has the events that TLC tries.

### Discovery

All devices at once, each with the part of its `peerInfoMap` that handshakes write: `known` are its
keys, `addressed` those with a MAC address (which the driver has then), `found` those that `macToIDMap`
leads to, `asked` those with `handshakeRequest`, `answer` the stored response, `times` whether and from
which boot there is an `otherTimeSync`. They drift apart: `receiveHandshakeRequest` writes `known` and
`addressed` but not `found`, `receiveHandshakeResponse` `known` only, a scan all three but for new
peers only.

A frame that gets through is in the inbox of the receiver, one that is lost is queued again while
`left` allows and the peer is in `found`, and counts as `dropped` otherwise, or if the driver refused it. The loop thread takes its inbox, then
drains its outbox (`draining`), then runs the handshake event. A restart empties everything of the
device, while what others have queued for it stays. `boots`, the `boot` and `of` of messages, and
`met` are histories: `millis()` starts again at each boot, so a time of an earlier boot is wrong.

### TimeSync

`now` is real time, `offset` what each clock showed at 0, and all sums and differences wrap at `WORD`.
A message is pushed, sent within `MaxWait` and handled within `MaxTransit`, and there is no order among
messages; a lost one is queued again with the time that it was sent with, one that the driver refuses is gone. `handleOutboxMsg` stamps
TIME_SYNC again at each sending, TIME_SYNC_RESPONSE keeps the time of its push. `convertTime` and
`scheduleSyncStart` are taken literally, wrap-around included. Histories: `of` is the real time that a
number stands for, `at` the time it came in, `due` the real time of the start by the device's reckoning.
`Fire` is the pass of `update()` that calls the event back; `Tick` waits for it, so passes are exact.

### WebSocket and Mqtt

WebSocket has, for every device, the servers that its entities and the default have, the one that
`begin()` of the client was last called with (`target`), and whether it is `connected`. `curWSClientInfo`
is a constant, because nothing assigns it after `begin()`. `EnterState` is the part of `setup` that
connects; `entered` is a history that says when `target` may be held against the servers.

Mqtt extends it with the boxes, `unackedPackets` and `nextPacketId` of every device and what the broker has still
to handle. `AnswerType` and `StoredAfter` are the branches of `handleInboxMsg`, `Number` is what
`handleOutboxMsg` does to a message with a quality of service at every pass, retries included, and `Send`
is the multicast with the send to the broker after it, where any part of the losses (`failed`) is reported and queued again
and the rest was refused. `ClientTurn` comes after the outbox was emptied; what the application pushed in
the meantime may be in it. The broker is external and answers as a device
does. `packet` and `numbered` are histories: which packet a message publishes or acknowledges, where
the code has the id only.

## 4. The runs

| Run | Checks | Instance | Distinct states |
|---|---|---|---|
| master | TypeOK, AnnouncementsTruthful, EntityCoherent, NoAbort, ChangesAnnounced, BootPath | a master, one application state, one id that it is only asked for by its own API; one frame, two API calls, one retry at any point | 1.6 million |
| progress | RequestServed, BootCompletes, PurgatoryEnds | a slave with implicit state changes whose initial state is purgatory; foreign ids in messages, states removed at run time, LateCalls; one frame, one API call | 116 000 |
| unknown_request | RequestedIsRecognized, violated | one message | |
| link_late | TypeOK, NoMisdelivery, FailuresBounded, Quiesces | two peers, two messages to one of them, a scan and a handshake, one refused send, one more loss allowed than can happen, late callbacks | 1.3 million |
| link_few_retries | RetriesRemainingAreUsed, violated | one peer, one message | |
| fleet | FleetTypeOK, TransmissionsBounded, RetriesTheFailedMessage, FollowsMaster, RestsInStep, Converges | a master and two followers, two changes of state, two losses, a refused send, a restart of one follower | 782 000 |
| box | TypeOK, NoLostWakeup, FifoSpec, DrainEnds, EveryMessageTaken | a producer and a handler that push two messages each, two waiters, the loop thread | 4 800 |
| event | TypeOK, LimitKept, NoBurst, KeepsFiring | eleven events: recurring, limited with a start, one-time, on each clock and of each type; clocks of 8 values that wrap for ever; two state changes or API calls | 687 000 |
| discovery | TypeOK, RejectsOnlyAfterRestart, AddresslessOnlyByOldAnswer, NoTimeOfEarlierBoot, TimesSettle | two devices that scan, two losses or refused sends, a restart, an "hs" command | 565 000 |
| discovery_three | TimesSettle, violated | three devices, two of them scan, no faults | |
| timesync | TypeOK, LagBounded, StartsOnTime | a master and a device, one clock or the other wraps during the run; a handshake, a lost or refused frame, two state changes | 3.7 million |
| mqtt | TypeOK, OwnServerIsUsed, AcksFindTheirPacket, LeaksBounded | two devices, one with a broker; one publication of quality 2 or two of quality 1; two changes of state or server, a drop, a lost or refused frame; two packet ids | 1.1 million |

**Bounds.** `MaxRx`, `MaxCalls`, `MaxResends` of StateManager count the frames, API calls and retries that come in while
the device runs. One frame and two calls, at every phase, are what is needed to ask for a state while
another change is under way and to undo it; the phases themselves repeat without bound, over any
number of changes and reboots. In EspNowLink, `MaxMsgs`, `MaxScans` and `MaxHandshakes` bound what is
pushed; two messages are what is needed for a last message to differ from the one that failed.
`MaxLosses` bounds failures except in link_late, where FailuresBounded shows that it is never
reached: 15 transmissions may fail there, and 16 are allowed. (The bound that is proved for all instances is coarser,
462 for this one.) `MaxRefusals` is how many sends the driver refuses; one is enough to put another message in the place of
the one that failed, and for a device to miss an announcement. Fleet asks for one retry, so that a message is sent
again once, and allows two losses, so that both the covered case and the one that is given up occur; `Restarting` are
the followers that restart, one of the two, so that the other shows what a restart must not change.
In Box, two messages from each of two senders let every order of a producer, a handler
and three takers occur; the proofs are for any number. In EventScheduler `WORD` is small, so that every
clock wraps often, and the intervals leave every kind of remainder; three callbacks in the history
exceed the limits of the events. In Discovery two losses and a restart let a frame be lost and its retry too, and old
messages meet the new boot; restarts of both devices are left to the proofs. In TimeSync, `MaxTime` is
long enough for a handshake, an exchange with a loss, an announcement and its start, in states entered
at any moment in between. In Mqtt two packet ids wrap after two publications and
a loss makes a third number; the code has five.

**Fairness.** StateManager: weak fairness of `update()` as a whole, since a sketch calls it for ever; of
the reboot; and of time. Nothing is assumed of the branch that a phase takes, of the application or
of the network. EspNowLink: of the loop thread and of the WiFi task, since the driver calls back for
every frame that it accepted; losses are not fair in any way. Fleet: of the master's loop, its driver and each
follower's loop; no state has to change, nothing has to get through. Box: each thread goes on inside the
box, and strong fairness for the mutex, which the mutexes of FreeRTOS provide by their queue of
waiting tasks; nobody has to push or to dequeue. EventScheduler: passes and time. Discovery: weak fairness of the two
handlers of each device, and of a scan that sees every device in range, as the event is repeated
every MS_HANDSHAKE_LOOP; a single scan may miss any device. Mqtt: of each device's boxes, and of the broker
while there is something for it to handle. TimeSync has safety properties only.

**What the properties say beyond their names, and what they exempt.**

- BootPath says that `Init::loop` wins against every other request, because it runs last before the check.
- TransmissionsBounded, RetriesTheFailedMessage and FollowsMaster need callbacks in time: when one
  comes after the next send to the peer, the decision about its retry is made by the later message,
  and an earlier one may be sent more often.
- Converges exempts three things, and no more: devices that have handled no announcement since their last
  boot was done, because a state is announced when it changes and never again, and because what a device hears while it
  boots is overwritten (init.cpp:90); devices for which the driver refused the last announcement, which nothing
  sends again (base.cpp:880); and runs with more losses than resends, which are half as many as
  DEFAULT_RETRIES says, because each retry is counted twice. Without either of the first two TLC finds a device that
  rests in another state than the master. RestsInStep is the safety half of it, with the same
  exemptions: a fleet that has nothing left to do is in step. What is left to fairness is that it comes to rest.
- LimitKept exempts limits that the clock cannot count to (interval times limit beyond its range) and one-time
  events without start or with a limit above 1.
- NoBurst exempts the last callbacks before a wrap: the next callback time then wraps into the
  past, and the event is called back at every pass until the clock itself wraps. For `setIntervalTime` it
  covers events on the state's clock only, the clock that it computes the count from.
- KeepsFiring holds only with its condition `OutlivesWrap`: if the range of the clock leaves a remainder
  modulo the interval that is shorter than the time between passes, the last callback before the wrap
  may be missed, and `getNextCbTime` then lies a whole round ahead. NeverFarAhead of EventSchedulerProofs is the safety half of it. Without an answer of the NTP server,
  START_EPOCH_SEC counts milliseconds divided by 1000, which wrap long before its own range.
- DrainEnds and EveryMessageTaken are about finitely many messages: an inbox that never runs empty keeps
  `update()` from going on, and each message adds a frame to the stack of `handleMessages`.
- NoLostWakeup is the promise of the class TSQueue: nobody in the repository calls `dequeue`.
- TimesSettle allows for frames that are lost for good, the refused ones among them, and for an entry without MAC address, which
  AddresslessOnlyByOldAnswer explains: an answer came in after the restart of who had asked. Nothing can
  be sent to such a peer until it asks for a handshake itself. TimesAtRest of DiscoveryProofs is the safety half of it.
- RejectsOnlyAfterRestart, NoTimeOfEarlierBoot: boots that a message belongs to stand for the clocks that
  started again with them.
- LagBounded is the reason why StartsOnTime is about "the device's reckoning": it starts after the master by
  the age of the time that it has, at most one transit after a TIME_SYNC, but after a TIME_SYNC_RESPONSE all
  the waiting and the retries of it.
- StartsOnTime exempts devices that entered their state after the start. What the code does then: the event's start time
  is the time since entry minus the lateness, which is below 0, so it wraps, and the event is due in 49 days; if the
  two are equal it is 0, and an event without start and interval is called back at every pass.
- OwnServerIsUsed exempts a server that is also the default one, and states without a server of their own: for these
  any connection that there is will do ("Already connected to websocket").
- AcksFindTheirPacket exempts packets of different devices, which the code cannot tell apart, and packets that are
  a round of ids apart. LeaksBounded: one packet left per lost frame, and no fewer, since PUBREC puts
  back what was erased and a retry is stored under another id.

`CHECK_DEADLOCK FALSE` stands where the bounds make the system stop: in all runs but those of
StateManager and Box.

## 5. Where code and comments disagree

1. `handleInboxMsg` (base.cpp:220, 311) sets an unknown state; `setRequestedState` "is not recognized, not
   setting" (1181-1183). The change then throws in `stateEntMap.at(s)`. Run unknown_request.
2. `sendCnt` is incremented when a retry is queued and when it is sent (648, 878): two retries instead of
   three (641). Run link_few_retries.
3. `sendAllHandshakes` ends at the first peer that it has asked before instead of passing over it (983): two
   devices that both found a third one first never ask each other, though nothing is lost
   (README.md:8 "ESP-Now P2P (2-Way; Auto-Connect)"). Run discovery_three.

More that the models have and no run is about, all of them listed as hazards: a peer known by its handshake only has
no entry in `macToIDMap` (634), so its failures are retried to the empty id (645, 649); a one-time event
without start never reaches its limit, and one with start and interval comes late by the start
(event.cpp:118); an acknowledgement erases the packet of another device with the same id (285);
the comparison with `curWSClientInfo`, which is always empty (1096).

## 6. The proofs

All theorems hold for every value of the constants that the modules' named assumptions admit; each
theorem's own hypotheses are given here. In every module the proof has three parts: `Init` gives the
invariant, every action keeps it (one lemma or step per action), and the invariant gives the property.

**StateManagerProofs.** `TypeCorrect` is by induction over the phases. `AnnouncementsAreTruthful` needs the
strengthening `AnnounceInv`: besides the property, that the target has an entity when the change is made, and that the
announcement is there exactly if the device is master and not detached. `OutboxEmpty` is what
closes the circle, since no change begins before the outbox was empty. It assumes that no entity calls the API after
`Base::preStateChange` or that none removes states: otherwise the change is abandoned after it was
announced (`handleStateChange` returns false, base.cpp:1251). `EveryChangeIsAnnounced` is an action property
from the same invariant, for entities without late calls. `InitialStateComesFirst` uses `BootInv`: in
STATE_INIT, from the check on, the request is the initial state if that has an entity; it has no
hypotheses. `NoCrash` uses `KnownInv`: the map is the one of the boot, and the current, requested and target states
have entities in it;
it assumes that no received id is foreign, which unknown_request shows to be needed, and that nothing
is removed, since the current state may be removed and is then looked up by every global event. `EntitiesAreCoherent` uses `CoherentInv`, which says what is
still active between `preStateChange` and the change: nothing; without late calls.

**EspNowLinkProofs.** `LinkTypeCorrect`, and `NoMessageGoesAstray` by `LinkInv`: the last message of every peer is
one that may go to that peer, and so may all that is in the outbox, in `sendMsgESPNow` and in the
driver. The property itself, about the driver's frames, is not inductive, since a retry is made from
`lastMsg`. It needs no bound on delays: a late callback may retry the wrong message, but never to the
wrong peer.

`RetriesRunOut` and `FailuresRunOut` are about late callbacks too, and say that they cannot make retries go on for
ever. That is not obvious: the decision about a retry is made by a message that may have been sent only once, so
no message's own count bounds the failures. The argument numbers the copies in the order in which they enter
the outbox. As the outbox, `sendMsgESPNow`, the driver and the callback pass copies on in order, the ring of them goes round
in that order, and a retry, which re-enters at its end, gets a number that is at most the number of copies
above that of the failure it is for; `lastMsg` still has retries left for that distance (`Numbering`, `Sufficient`). So
failures, of which there are at most as many as numbers, stay below a `Ceiling` that only a push from outside raises,
and the pushes are bounded: `FailureBound`. `RetriesRunOut` says so with no hypotheses, `FailuresRunOut` that the
bound on losses is never reached if it is above `FailureBound`.

**FleetProofs.** `FleetTypeCorrect` rests on EspNowLink's lemma for a step, because every step of the fleet is one of
the link. The others assume `Settle`. `FleetInv` says why announcements do not overtake each other: whatever is
queued, sent, in the air or about to be retried has the number 0 or that of the last announcement (`Present`), since
the state changes only with an empty outbox and an idle driver; there is one frame in the air at most, and
it is the last message of its peer; and every inbox goes on, in order, from what was handled. From it
follows `TheFailedMessageIsRetried`. `RetriesAreLimited` needs `CopyInv` on top: for
each follower there is at most one copy of the announcement that is still to go to it, in the outbox, in
`sendMsgESPNow`, in the air or in the callback, its `sendCnt` is not below the number of transmissions, and
unless it is in the air one more transmission is left. Two copies would each count only their own part.

`TheFleetFollows` is the refinement of Following: `ChangeState` is `Lead`, a message taken is `Hear` at a place that
is not before the last one, because the inbox goes on from what was handled (`HearStep`), and all else of the master and the driver
leaves the abstract state alone. It needs `Informed` besides FleetInv: what a device wants is the state of the announcement that
it handled last, that only a device that boots wants or has STATE_INIT, and only an unaware one (`BootOk`), and the states
of earlier announcements stay what they were.

`DevicesRestInStep` needs `RestInv`, that every device gets what it is `Due`: it has handled the last announcement,
has it in its inbox, or a copy of it is `Underway` which may still be lost more often (`Lasts`: its `sendCnt` is at
most twice the losses so far, since each failure counts twice) — or more frames are lost than there are resends, or
the driver refused to send it to this device (`Refused`). When
nothing is underway any more and the inboxes are empty, only the first is left. A copy is not given up while it
lasts, because a device, once paired, stays so (`AllPaired`), and the announcement is to all of them (`Addressed`). So of
Converges only one half is left to TLC, that the fleet comes to rest.

**BoxProofs.** `BoxInv` has type correctness, that the thread at `locked`, `notify` or `pop` is the holder of the
mutex, that a thread at `pop` has read the front of the queue, and that `val` is set in the handler and
at return only. From it: `BoxIsFifo`, that every step is a `Put`, `Take` or `Finish` of MailboxFifo or a
stutter, and `NoWakeupIsLost`, by counting the threads that are awake.

**EventSchedulerProofs.** `EventInv` adds `CountOk` to the types: for an event with a limit that its clock can count to, `cbCnt` is at
least `base + fired` once it was called back, so that reaching the limit stops it. It rests on two lemmas about
division, that the count at a time is above any count whose next callback time has come, and that
the callback after it is in the future. They are what makes `LimitsAreKept` and `PassesDoNotBurst` true for every
`WORD`, lateness and event.

`CallbacksSurviveTheWrap` says that the next callback of a recurring event is never more than an interval
ahead (`NeverFarAhead`), so that waiting for it is never waiting for a round of the clock. It is for
events whose count is always taken from the clock that they follow: that of the state, and that of the device if `setIntervalTime`
cannot change them. At a wrap the time falls to 0, and the inequality holds only if the next callback was
moved to the next round before: `RoundDone` says that it was, from the last multiple of the interval on, as soon as
there was a pass. The passes come often enough for that by the condition of KeepsFiring. `CountInRange` and `ActiveHere`
complete `WrapInv`: the product of interval and count does not wrap itself, and an active event is one that
the pass visits. What is left to fairness is that passes and time go on; events on START_EPOCH_SEC stay with TLC.

**DiscoveryProofs.** `DiscoveryInv` says what messages may be where: the messages in an outbox are of the sender's present
boot; those from one sender in one inbox are in the order of its boots, and none is of a boot later than its present one;
`of` is never above the receiver's boots; what has an address is known. The three properties are
not inductive without it: a time of an earlier boot is harmless only because it was queued before the handshake
of the later one (`Inboxes`), and an answer can only be to a request of this boot if the
peer was in the table by then.

`TimesAreKnownAtRest` needs `LearnInv`: of two devices that asked each other, each has a time of the present
boot of the other, or is promised one by a message that is held in a box of either: that time itself, any
handshake message between the two, which makes its receiver send more, or a TIME_SYNC that will be answered
with one. Nothing breaks the chain but the two excuses. A message that is taken is not rejected, because both
know each other (`AskedKnown`); and a later boot's time is never overwritten by one of an earlier boot,
because those from one sender come in the order of its boots (`TimesInOrder`). When the boxes are empty, only the first
is left. So of TimesSettle one half is left to TLC, that both ask and that the boxes run empty, which is where
three devices fail.

**TimeSyncProofs.** `TimeSyncInv` has, for every message, how old it can be at the most, by its retries that are left and whether it was sent
(`MessagesOk`), and that its number is what the sender's clock showed, modulo `WORD`, at the time `of`; the same for the entries
of peers (`PeersOk`) and the events (`EventsOk`). `LagsAreBounded` is an instance of it. `DevicesStartOnTime` needs
modular arithmetic: the conversion adds and subtracts clocks, and the offsets cancel whatever wrapped in
between, because all differences that matter are below `WORD` (`TimeAssumption`: a run and a start are short
against 49 days). `StartsAreCloseToMaster` joins the two: when the announcement is taken in, the start that the device reckons with
is never before the master's and after it by at most the age that an answer can have (`DueAfterMaster`).

**MqttProofs.** `MqttInv`: every packet that is stored, and every packet that a message in a box carries or
acknowledges, goes with its id, that is, the number of the packet and the id agree modulo `MAX_PACKET_ID`
(`PacketsOk`, `BoxesOk`), and `nextPacketId` follows from how many packets were numbered (`CountsOk`).
So an acknowledgement that hits another packet of the same device is a whole round of ids
away: `AcksAreForTheirPacket`. `StatesUseTheirServer` is inductive together with the types.

**Only model-checked**: everything under fairness (RequestServed, BootCompletes, PurgatoryEnds, Quiesces,
Converges, DrainEnds, EveryMessageTaken, KeepsFiring, TimesSettle, LeaksBounded), since TLAPS reasons neither about
ENABLED nor about liveness of this kind; of Converges, TimesSettle and, in part, KeepsFiring the safety half is proved. Every invariant and every action property of the runs is proved. What a recursive
definition computes for all inputs would be out of reach of these provers; the modules have none.

## 7. What is not modelled

- Data races. `peerInfoMap`, `macToIDMap` and `curState` are used by both threads without a lock, `inbox.size()`
  reads without one, and a callback that removes its own event invalidates the iterator of the pass.
  The models take each such access as one step; the code has undefined behaviour there, with
  outcomes that no state of a model stands for. They are listed as hazards.
- The width of ids (`getState` returns `uint8_t`), raw messages, JSON, the keys of `macToIDMap` that two MACs share.
- Code that nothing in the library calls: `sendAllTimeSyncMessages`, most setters of `AF1Event`, `setPurgNext` for
  an id other than STATE_PURG.
- The addresses in `connectToWifi`, `broadcastAP`, HTTP, the OTA upload, LEDs and logging: I/O without state of its own. Of WiFi the
  models have whether it is there.
- The example sketch: `AppCall`, `Publish` and `ChangeState` stand for what a sketch does.
