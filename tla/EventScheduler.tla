--------------------------- MODULE EventScheduler ---------------------------
(***************************************************************************)
(* One AF1Event: the pass that update() makes over the event maps, the     *)
(* clocks an event may follow, and what a change of state, addEvent,       *)
(* removeEvent and setIntervalTime do to it.                               *)
(*                                                                         *)
(* Times are unsigned long, so they wrap at WORD.  A unit of time is what  *)
(* the device's clock counts; a pass of update() comes at least once every *)
(* MaxLate units.                                                          *)
(***************************************************************************)
EXTENDS Naturals

CONSTANTS
  Configs,     \* the events that may be added: interval, max, start, clock and type
  Intervals,   \* the arguments of setIntervalTime
  WORD,        \* the number of values of an unsigned long
  SEC,         \* milliseconds in a second
  Epochs,      \* what the first answer of the NTP server may be
  MaxLate,     \* bound: the longest time between two passes
  MaxCalls,    \* bound: changes of state and calls of the API
  MaxFired     \* bound: the callbacks that the history tells apart

Clocks == {"START_STATE_MS", "START_DEVICE_MS", "START_EPOCH_SEC"}
Types  == {"EVENT_TYPE_PERM", "EVENT_TYPE_TEMP", "EVENT_TYPE_GLOBAL"}
Word   == 0 .. WORD - 1

ASSUME EventAssumption ==
  /\ {WORD, SEC, MaxLate} \subseteq Nat \ {0} /\ {MaxCalls, MaxFired} \subseteq Nat
  /\ Epochs \subseteq Word /\ Intervals \subseteq Word
  /\ Configs \subseteq [interval : Word, max : Word, start : Word, clock : Clocks, type : Types]

VARIABLES
  ev,         \* the event with its cbCnt and active, or Gone
  here,       \* the current state is the one that the event was added in
  stateMs,    \* getElapsedMs() of the current entity
  deviceMs,   \* millis()
  timeSet,    \* timeClient.isTimeSet()
  epochSec,   \* timeClient.getEpochTime(), if it is set
  late,       \* the time since the last pass
  calls,
  fired,      \* history: callbacks since cbCnt was last set from outside (at most MaxFired)
  base,       \* history: what it was set to then
  justFired   \* history: the last pass called the callback

clockVars == <<stateMs, deviceMs, timeSet, epochSec, late>>
histVars  == <<fired, base, justFired>>
vars == <<ev, here, clockVars, calls, histVars>>

Gone  == [active |-> FALSE]
Event == [interval : Word, max : Word, start : Word, clock : Clocks, type : Types,
          cbCnt : Word, active : BOOLEAN]
Fresh(c) == [interval |-> c.interval, max |-> c.max, start |-> c.start, clock |-> c.clock,
             type |-> c.type, cbCnt |-> 0, active |-> TRUE]
Global(e) == e.type = "EVENT_TYPE_GLOBAL"

TypeOK ==
  /\ ev \in Event \cup {Gone}
  /\ here \in BOOLEAN /\ timeSet \in BOOLEAN /\ justFired \in BOOLEAN
  /\ stateMs \in Word /\ deviceMs \in Word /\ epochSec \in Word /\ late \in 0..MaxLate
  /\ calls \in 0..MaxCalls /\ fired \in 0..MaxFired /\ base \in Word

Init ==
  /\ \E c \in Configs : ev = Fresh(c)
  /\ here = TRUE /\ timeSet = FALSE
  /\ stateMs = 0 /\ deviceMs = 0 /\ epochSec = 0 /\ late = 0 /\ calls = 0
  /\ fired = 0 /\ base = 0 /\ justFired = FALSE

\* AF1Event::getCurTime.
GetCurTime(e) ==
  CASE e.clock = "START_STATE_MS"  -> stateMs
    [] e.clock = "START_DEVICE_MS" -> deviceMs
    [] e.clock = "START_EPOCH_SEC" ->
         IF timeSet THEN epochSec ELSE stateMs \div SEC

GetLastCbTime(e) == (e.interval * e.cbCnt + e.start) % WORD
GetNextCbTimeMutant(e) == IF e.interval > 0 THEN GetLastCbTime(e) + e.interval ELSE e.start
GetNextCbTime(e) == IF e.interval > 0 THEN (GetLastCbTime(e) + e.interval) % WORD ELSE e.start

IsTimeMutant(e, t) == t >= GetNextCbTime(e) /\ (e.max = 0 \/ e.cbCnt <= e.max)
IsTime(e, t) == t >= GetNextCbTime(e) /\ (e.max = 0 \/ e.cbCnt < e.max)

\* The count of callbacks after one at time t: that of the time, not one more.
CountAtMutant(e, t) == e.cbCnt + 1
CountAt(e, t) ==
  IF e.interval > 0 THEN t \div e.interval ELSE IF e.start > 0 THEN t \div e.start ELSE 0

\* The event is the one of the maps that update() has come to.
Visited == ev # Gone /\ (here \/ Global(ev))

Fire ==
  /\ Visited /\ ev.active /\ IsTime(ev, GetCurTime(ev))
  /\ ev' = [ev EXCEPT !.cbCnt = CountAt(ev, GetCurTime(ev))]
  /\ fired' = IF fired < MaxFired THEN fired + 1 ELSE fired
  /\ justFired' = TRUE
  /\ UNCHANGED base

Pass ==
  /\ late' = 0
  /\ \/ Fire
     \/ /\ ~(Visited /\ ev.active /\ IsTime(ev, GetCurTime(ev)))
        /\ justFired' = FALSE
        /\ UNCHANGED <<ev, fired, base>>
  /\ UNCHANGED <<here, stateMs, deviceMs, timeSet, epochSec, calls>>

Tick ==
  /\ late < MaxLate /\ late' = late + 1
  /\ deviceMs' = (deviceMs + 1) % WORD
  /\ stateMs' = (stateMs + 1) % WORD
  /\ epochSec' = IF timeSet /\ deviceMs' % SEC = 0 THEN (epochSec + 1) % WORD ELSE epochSec
  /\ justFired' = FALSE
  /\ UNCHANGED <<ev, here, timeSet, calls, fired, base>>

\* The first answer of the NTP server, which connectToWifi asks when a state is entered; it is
\* let come at any time.  From then on NTPClient counts seconds.
TimeIsSet ==
  /\ ~timeSet /\ timeSet' = TRUE
  /\ epochSec' \in Epochs
  /\ UNCHANGED <<ev, here, stateMs, deviceMs, late, calls, histVars>>

-----------------------------------------------------------------------------
(* What sets cbCnt from outside.                                            *)

\* cbCnt is n from now on, and the history starts again from there.
Recount(n) == fired' = 0 /\ base' = n

Call == calls < MaxCalls /\ calls' = calls + 1

\* A change of state: deactivateEvents of the entity that is left, resetEvents and
\* activateEvents of the one that is entered, and its clock starts.
Deactivated(e) ==
  IF Global(e) \/ ~here THEN e
  ELSE IF e.type = "EVENT_TYPE_TEMP" THEN Gone
  ELSE [e EXCEPT !.active = FALSE]

ChangeState ==
  /\ Call
  /\ here' \in BOOLEAN /\ ~(here /\ here')
  /\ stateMs' = 0
  /\ IF ev = Gone \/ Deactivated(ev) = Gone
     THEN ev' = Gone /\ Recount(0)
     ELSE LET e == Deactivated(ev)
          IN  IF Global(e)
              THEN IF e.clock = "START_STATE_MS"
                   THEN ev' = [e EXCEPT !.cbCnt = 0] /\ Recount(0)
                   ELSE ev' = e /\ UNCHANGED <<fired, base>>
              ELSE IF here'
              THEN ev' = [e EXCEPT !.cbCnt = 0, !.active = TRUE] /\ Recount(0)
              ELSE ev' = e /\ UNCHANGED <<fired, base>>
  /\ UNCHANGED <<deviceMs, timeSet, epochSec, late, justFired>>

AddEvent ==
  /\ Call
  /\ \E c \in Configs :
       /\ here \/ Global(c)
       /\ ev' = Fresh(c)
  /\ Recount(0)
  /\ UNCHANGED <<here, clockVars, justFired>>

RemoveEvent ==
  /\ Call
  /\ Visited
  /\ ev' = Gone
  /\ Recount(0)
  /\ UNCHANGED <<here, clockVars, justFired>>

\* Base::setIntervalTime finds the events of the entity only, and takes the time that the
\* entity has been current, whatever the event's clock is.
SetIntervalTime ==
  /\ Call
  /\ ev # Gone /\ ~Global(ev) /\ here
  /\ \E t \in Intervals :
       LET cnt == IF t > 0 THEN stateMs \div t ELSE 0
       IN  /\ ev' = [ev EXCEPT !.interval = t, !.cbCnt = cnt]
           /\ Recount(cnt)
  /\ UNCHANGED <<here, clockVars, justFired>>

Next == Pass \/ Tick \/ TimeIsSet \/ ChangeState \/ AddEvent \/ RemoveEvent \/ SetIntervalTime

Spec == Init /\ [][Next]_vars

\* update() is called for ever, and time passes.
FairSpec == Spec /\ WF_vars(Pass) /\ WF_vars(Tick)

-----------------------------------------------------------------------------
(* Properties.                                                              *)

\* An event with a limit is called back no more often than that from any one time its count is
\* set (addEvent, entry of the state, setIntervalTime) to the next, however late the passes
\* are and wherever the clock jumps when the NTP time comes in; unless the clock cannot count
\* to the limit.
Limited(e) ==
  \/ e.interval > 0 /\ e.max > 0 /\ e.interval * e.max + e.start < WORD
  \/ e.interval = 0 /\ e.start > 0 /\ e.max = 1
LimitKept == (ev # Gone /\ Limited(ev)) => (base + fired <= ev.max \/ fired = 0)

\* A late pass makes one callback and does not catch up with more: after a pass the next
\* callback is in the future, unless the limit is reached.  Nor is the next callback due when
\* setIntervalTime returns, for an event that follows the clock of its state.  Only a next
\* callback beyond the range of the clock is due at once, and at every pass until the clock
\* wraps (event.cpp:108).
PastTheWrap(e) == e.interval * (e.cbCnt + 1) + e.start >= WORD
InFuture(e, t) == GetNextCbTime(e) > t \/ (e.max > 0 /\ e.cbCnt >= e.max) \/ PastTheWrap(e)
NoBurst ==
  [][/\ \/ Pass /\ Visited /\ ev.active
        \/ SetIntervalTime /\ ev.clock = "START_STATE_MS"
     /\ ev'.interval > 0
     => InFuture(ev', GetCurTime(ev'))]_vars

\* A recurring event never stops for good, even when its clock wraps, provided that a pass is
\* sure to come in the last interval that begins before the wrap; if none does, the callback
\* that is missed is due one whole round of the clock later.  Without an answer of the NTP
\* server the seconds of START_EPOCH_SEC wrap before WORD, and such an event may well stop.
LastInterval(e) == IF WORD % e.interval = 0 THEN e.interval ELSE WORD % e.interval
OutlivesWrap(e) ==
  LastInterval(e) >= MaxLate /\ (e.clock = "START_EPOCH_SEC" => timeSet)
Recurring(e) == e.interval > 0 /\ e.max = 0 /\ e.start = 0
Lives == ev # Gone /\ ev.active /\ Recurring(ev) /\ OutlivesWrap(ev)
KeepsFiring == Lives ~> (justFired \/ ~Lives)

=============================================================================
