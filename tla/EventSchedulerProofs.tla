------------------------ MODULE EventSchedulerProofs ------------------------
(***************************************************************************)
(* Proofs about EventScheduler, for any events, clocks and intervals: its  *)
(* types, that limits are kept, that late passes do not burst, and that a  *)
(* recurring event survives the wraps of its clock.                        *)
(*                                                                         *)
(* All of it rests on what the division of the time by the interval gives: *)
(* the count after a callback is at least one more than before, and the    *)
(* next callback is later than the present.                                *)
(***************************************************************************)
EXTENDS EventScheduler, TLAPS

-----------------------------------------------------------------------------
(* Arithmetic.                                                              *)

LEMMA Constants ==
  /\ WORD \in Nat \ {0} /\ SEC \in Nat \ {0} /\ MaxLate \in Nat \ {0}
  /\ MaxCalls \in Nat /\ MaxFired \in Nat
  /\ Epochs \subseteq Word /\ Intervals \subseteq Word
  /\ Configs \subseteq [interval : Word, max : Word, start : Word, clock : Clocks, type : Types]
  BY EventAssumption

LEMMA Division ==
  ASSUME NEW t \in Nat, NEW i \in Nat \ {0}
  PROVE  /\ t \div i \in Nat /\ t \div i <= t
         /\ i * (t \div i) <= t /\ t < i * (t \div i) + i
<1>1. t \div i \in Nat /\ i * (t \div i) <= t /\ t < i * (t \div i) + i
  OBVIOUS
<1>2. t \div i <= i * (t \div i)
  <2>1. PICK q \in Nat : q = t \div i
    BY <1>1
  <2>2. q <= i * q
    <3>1. PICK j \in Nat : i = j + 1
      <4>1. i - 1 \in Nat /\ i = (i - 1) + 1
        OBVIOUS
      <4> QED BY <4>1
    <3>2. (j + 1) * q = j * q + q /\ j * q \in Nat
      OBVIOUS
    <3> QED BY <3>1, <3>2
  <2> QED BY <2>1, <2>2
<1> QED BY <1>1, <1>2

\* The order of multiples.
LEMMA Multiples ==
  ASSUME NEW i \in Nat, NEW a \in Nat, NEW b \in Nat, a <= b
  PROVE  i * a <= i * b /\ i * a \in Nat
<1>1. PICK c \in Nat : b = a + c
  <2>1. b - a \in Nat /\ b = a + (b - a)
    OBVIOUS
  <2> QED BY <2>1
<1>2. i * (a + c) = i * a + i * c /\ i * c \in Nat /\ i * a \in Nat
  OBVIOUS
<1> QED BY <1>1, <1>2

\* A time that is due after c callbacks counts as one more at least.
LEMMA CountGrows ==
  ASSUME NEW t \in Nat, NEW i \in Nat \ {0}, NEW c \in Nat, i * c + i <= t
  PROVE  c + 1 <= t \div i
<1>1. PICK q \in Nat : q = t \div i /\ t < i * q + i
  BY Division
<1>2. SUFFICES ASSUME q <= c PROVE FALSE
  BY <1>1
<1>3. i * q <= i * c /\ i * q \in Nat /\ i * c \in Nat
  BY <1>2, Multiples
<1> QED BY <1>1, <1>3

LEMMA Modulus ==
  ASSUME NEW x \in Nat
  PROVE  x % WORD \in Word /\ (x < WORD => x % WORD = x)
  BY Constants DEF Word

LEMMA WordType == Word \subseteq Nat /\ 0 \in Word
  BY Constants DEF Word

\* The next callback, if the clock counts that far.
LEMMA NextTime ==
  ASSUME NEW e \in Event, e.interval > 0,
         e.interval * (e.cbCnt + 1) + e.start < WORD
  PROVE  GetNextCbTime(e) = e.interval * e.cbCnt + e.interval + e.start
<1>1. e.interval \in Nat /\ e.cbCnt \in Nat /\ e.start \in Nat
  BY WordType DEF Event
<1>2. /\ e.interval * e.cbCnt \in Nat
      /\ e.interval * (e.cbCnt + 1) = e.interval * e.cbCnt + e.interval
  BY <1>1
<1>3. PICK x \in Nat : x = e.interval * e.cbCnt + e.start
  BY <1>1, <1>2
<1>4. x + e.interval \in Nat /\ x + e.interval < WORD /\ x < WORD
  BY <1>1, <1>2, <1>3, Constants
<1>5. GetLastCbTime(e) = x
  BY <1>3, <1>4, Modulus DEF GetLastCbTime
<1>6. (x + e.interval) % WORD = x + e.interval
  BY <1>4, Modulus
<1> QED BY <1>1, <1>2, <1>3, <1>5, <1>6 DEF GetNextCbTime

-----------------------------------------------------------------------------
(* Types.                                                                   *)

LEMMA CurTimeType ==
  ASSUME TypeOK, NEW e \in Event
  PROVE  GetCurTime(e) \in Word
<1>1. e.clock \in Clocks
  BY DEF Event
<1>2. stateMs \in Word /\ deviceMs \in Word /\ epochSec \in Word
  BY DEF TypeOK
<1>3. stateMs \div SEC \in Word
  <2>1. stateMs \in Nat /\ stateMs < WORD
    BY <1>2, Constants DEF Word
  <2>2. stateMs \div SEC \in Nat /\ stateMs \div SEC <= stateMs
    BY <2>1, Division, Constants
  <2> QED BY <2>1, <2>2, Constants DEF Word
<1> QED BY <1>1, <1>2, <1>3 DEF GetCurTime, Clocks

LEMMA CountType ==
  ASSUME NEW e \in Event, NEW t \in Word
  PROVE  CountAt(e, t) \in Word
<1>1. e.interval \in Nat /\ e.start \in Nat /\ t \in Nat /\ t < WORD
  BY Constants DEF Event, Word
<1>2. ASSUME NEW i \in Nat \ {0}
      PROVE  t \div i \in Word
  <2>1. t \div i \in Nat /\ t \div i <= t
    BY <1>1, Division
  <2> QED BY <1>1, <2>1, Constants DEF Word
<1> QED BY <1>1, <1>2, WordType DEF CountAt

LEMMA FreshType ==
  ASSUME NEW c \in Configs
  PROVE  Fresh(c) \in Event /\ Fresh(c).cbCnt = 0 /\ Fresh(c) # Gone
<1>1. c \in [interval : Word, max : Word, start : Word, clock : Clocks, type : Types]
  BY Constants
<1> QED BY <1>1, WordType DEF Fresh, Event, Gone

\* An event of its type is not Gone.
LEMMA EventIsNotGone ==
  ASSUME NEW e \in Event
  PROVE  e # Gone
  BY DEF Event, Gone

-----------------------------------------------------------------------------
(* The invariant: the count is no less than the callbacks there have been.  *)

CountOk ==
  ev # Gone /\ Limited(ev) =>
    base + fired <= ev.cbCnt /\ (base + fired <= ev.max \/ fired = 0)
EventInv == TypeOK /\ CountOk

\* What a callback makes of an event, its count and its history.
LEMMA FireStep ==
  ASSUME EventInv, Fire
  PROVE  /\ ev \in Event /\ ev' \in Event /\ ev' = [ev EXCEPT !.cbCnt = CountAt(ev, GetCurTime(ev))]
         /\ GetCurTime(ev) \in Word /\ fired' \in 0..MaxFired /\ CountOk'
<1> DEFINE t == GetCurTime(ev)
<1>1. /\ ev \in Event /\ IsTime(ev, t) /\ base' = base /\ base \in Nat /\ fired \in 0..MaxFired
      /\ ev' = [ev EXCEPT !.cbCnt = CountAt(ev, t)]
      /\ fired' = IF fired < MaxFired THEN fired + 1 ELSE fired
  BY WordType DEF EventInv, TypeOK, Fire, Visited
<1>2. t \in Word
  BY <1>1, CurTimeType DEF EventInv
<1> HIDE DEF t
<1>3. CountAt(ev, t) \in Word
  BY <1>1, <1>2, CountType
<1>4. ev' \in Event /\ fired' \in 0..MaxFired /\ fired' <= fired + 1
  BY <1>1, <1>3, Constants DEF Event
<1>5. /\ ev'.cbCnt = CountAt(ev, t) /\ ev'.interval = ev.interval /\ ev'.max = ev.max
      /\ ev'.start = ev.start
  BY <1>1 DEF Event
<1>6. /\ ev.interval \in Nat /\ ev.max \in Nat /\ ev.start \in Nat /\ ev.cbCnt \in Nat
      /\ t \in Nat /\ t < WORD /\ CountAt(ev, t) \in Nat
  BY <1>1, <1>2, <1>3, Constants DEF Event, Word
<1>7. ASSUME Limited(ev)
      PROVE  base + fired' <= CountAt(ev, t) /\ base + fired' <= ev.max
  <2>1. t >= GetNextCbTime(ev) /\ ev.cbCnt < ev.max
    BY <1>1, <1>6, <1>7 DEF IsTime, Limited
  <2>2. ev.cbCnt + 1 <= CountAt(ev, t)
    <3>1. CASE ev.interval > 0
      <4>1. ev.interval * (ev.cbCnt + 1) <= ev.interval * ev.max
        BY <1>6, <2>1, Multiples
      <4>2. /\ ev.interval * (ev.cbCnt + 1) \in Nat /\ ev.interval * ev.cbCnt \in Nat
            /\ ev.interval * ev.max \in Nat
            /\ ev.interval * ev.max + ev.start < WORD
        BY <1>6, <1>7, <3>1 DEF Limited
      <4>3. GetNextCbTime(ev) = ev.interval * ev.cbCnt + ev.interval + ev.start
        BY <1>1, <1>6, <3>1, <4>1, <4>2, NextTime, Constants
      <4>4. ev.interval * ev.cbCnt + ev.interval <= t
        BY <1>6, <2>1, <4>2, <4>3
      <4>5. ev.cbCnt + 1 <= t \div ev.interval
        BY <1>6, <3>1, <4>4, CountGrows
      <4> QED BY <3>1, <4>5 DEF CountAt
    <3>2. CASE ~(ev.interval > 0)
      <4>1. ev.interval = 0 /\ ev.start > 0 /\ ev.max = 1 /\ ev.cbCnt = 0
        BY <1>6, <1>7, <2>1, <3>2 DEF Limited
      <4>2. ev.start * ev.cbCnt + ev.start <= t
        BY <1>6, <2>1, <4>1 DEF GetNextCbTime
      <4>3. ev.cbCnt + 1 <= t \div ev.start
        BY <1>6, <4>1, <4>2, CountGrows
      <4> QED BY <4>1, <4>3 DEF CountAt
    <3> QED BY <3>1, <3>2
  <2>3. base + fired <= ev.cbCnt
    BY <1>7, <1>1, EventIsNotGone DEF EventInv, CountOk
  <2> QED BY <1>1, <1>4, <1>6, <2>1, <2>2, <2>3
<1>8. CountOk'
  BY <1>1, <1>5, <1>7 DEF CountOk, Limited
<1> QED BY <1>1, <1>2, <1>4, <1>8 DEF t

\* The event is as it was, or counts from 0 again.
LEMMA Reset ==
  ASSUME EventInv, NEW e \in Event, \/ ev' = e /\ e.cbCnt = 0
                                    \/ ev' = Gone,
         Recount(0)
  PROVE  CountOk' /\ ev' \in Event \cup {Gone} /\ fired' \in 0..MaxFired /\ base' \in Word
<1>1. fired' = 0 /\ base' = 0 /\ fired' \in 0..MaxFired /\ base' \in Word
  BY Constants, WordType DEF Recount
<1> QED BY <1>1 DEF CountOk

LEMMA Kept ==
  ASSUME EventInv, UNCHANGED <<fired, base>>,
         \/ ev' = ev
         \/ ev # Gone /\ ev' = [ev EXCEPT !.active = FALSE]
  PROVE  CountOk' /\ ev' \in Event \cup {Gone} /\ fired' \in 0..MaxFired /\ base' \in Word
<1>1. /\ ev \in Event \cup {Gone} /\ fired \in 0..MaxFired /\ base \in Word /\ CountOk
  BY DEF EventInv, TypeOK
<1>2. CASE ev' = ev
  BY <1>1, <1>2 DEF CountOk
<1>3. CASE ev # Gone /\ ev' = [ev EXCEPT !.active = FALSE]
  <2>1. ev' \in Event
    BY <1>1, <1>3 DEF Event
  <2>2. /\ ev'.cbCnt = ev.cbCnt /\ ev'.max = ev.max /\ ev'.interval = ev.interval
        /\ ev'.start = ev.start
    BY <1>1, <1>3 DEF Event
  <2> QED BY <1>1, <1>3, <2>1, <2>2 DEF CountOk, Limited
<1> QED BY <1>2, <1>3

LEMMA PassStep ==
  ASSUME EventInv, Pass
  PROVE  EventInv'
<1>1. /\ TypeOK /\ UNCHANGED <<here, stateMs, deviceMs, timeSet, epochSec, calls>> /\ late' = 0
  BY DEF EventInv, Pass
<1>2. CASE Fire
  <2>1. ev' \in Event /\ fired' \in 0..MaxFired /\ CountOk' /\ justFired' = TRUE /\ base' = base
    BY <1>2, FireStep DEF Fire
  <2> QED BY <1>1, <2>1, Constants DEF EventInv, TypeOK
<1>3. CASE UNCHANGED <<ev, fired, base>> /\ justFired' = FALSE
  <2>1. CountOk'
    BY <1>3, Kept
  <2>2. late' \in 0..MaxLate
    BY <1>1, Constants
  <2>3. TypeOK'
    BY <1>1, <1>3, <2>2 DEF TypeOK
  <2> QED BY <2>1, <2>3 DEF EventInv
<1> QED BY <1>2, <1>3 DEF Pass

LEMMA TickStep ==
  ASSUME EventInv, Tick
  PROVE  EventInv'
<1>1. TypeOK /\ UNCHANGED <<ev, here, timeSet, calls, fired, base>> /\ justFired' = FALSE
  BY DEF EventInv, Tick
<1>2. late' \in 0..MaxLate
  BY <1>1, Constants DEF Tick, TypeOK
<1>3. deviceMs' \in Word /\ stateMs' \in Word /\ epochSec' \in Word
  <2>1. \A x \in Word : (x + 1) % WORD \in Word
    BY WordType, Modulus
  <2> QED BY <1>1, <2>1 DEF Tick, TypeOK
<1>4. CountOk'
  BY <1>1, Kept
<1> QED BY <1>1, <1>2, <1>3, <1>4 DEF EventInv, TypeOK

LEMMA ChangeStep ==
  ASSUME EventInv, ChangeState
  PROVE  EventInv'
<1>1. /\ TypeOK /\ here' \in BOOLEAN /\ stateMs' \in Word /\ calls' \in 0..MaxCalls
      /\ UNCHANGED <<deviceMs, timeSet, epochSec, late, justFired>>
  BY Constants, WordType DEF EventInv, ChangeState, Call, TypeOK
<1> DEFINE e == Deactivated(ev)
<1>2. ASSUME ev # Gone, e # Gone
      PROVE  /\ ev \in Event /\ e \in Event
             /\ e = ev \/ e = [ev EXCEPT !.active = FALSE]
  BY <1>1, <1>2 DEF Deactivated, TypeOK, Event
<1>3. \/ ev' = Gone /\ Recount(0)
      \/ /\ ev # Gone /\ e # Gone
         /\ \/ ev' = e /\ UNCHANGED <<fired, base>>
            \/ ev' = [e EXCEPT !.cbCnt = 0] /\ Recount(0)
            \/ ev' = [e EXCEPT !.cbCnt = 0, !.active = TRUE] /\ Recount(0)
  BY DEF ChangeState
<1> HIDE DEF e
<1>4. CountOk' /\ ev' \in Event \cup {Gone} /\ fired' \in 0..MaxFired /\ base' \in Word
  <2>1. CASE ev' = Gone /\ Recount(0)
    BY <2>1, Constants, WordType DEF CountOk, Recount
  <2>2. CASE ev # Gone /\ e # Gone /\ ev' = e /\ UNCHANGED <<fired, base>>
    BY <1>2, <2>2, Kept
  <2>3. CASE ev # Gone /\ e # Gone /\ ev' = [e EXCEPT !.cbCnt = 0] /\ Recount(0)
    <3>1. ev' \in Event /\ ev'.cbCnt = 0
      BY <1>2, <2>3, WordType DEF Event
    <3> QED BY <2>3, <3>1, Reset
  <2>4. CASE ev # Gone /\ e # Gone /\ ev' = [e EXCEPT !.cbCnt = 0, !.active = TRUE] /\ Recount(0)
    <3>1. ev' \in Event /\ ev'.cbCnt = 0
      BY <1>2, <2>4, WordType DEF Event
    <3> QED BY <2>4, <3>1, Reset
  <2> QED BY <1>3, <2>1, <2>2, <2>3, <2>4
<1> QED BY <1>1, <1>4 DEF EventInv, TypeOK

LEMMA SetIntervalStep ==
  ASSUME EventInv, SetIntervalTime
  PROVE  EventInv'
<1>1. /\ TypeOK /\ calls' \in 0..MaxCalls /\ UNCHANGED <<here, clockVars, justFired>>
      /\ ev \in Event /\ stateMs \in Nat /\ stateMs < WORD
  BY Constants DEF EventInv, SetIntervalTime, Call, TypeOK, Word
<1> DEFINE CountOf(t) == IF t > 0 THEN stateMs \div t ELSE 0
<1>0. PICK t \in Intervals :
        ev' = [ev EXCEPT !.interval = t, !.cbCnt = CountOf(t)] /\ Recount(CountOf(t))
  BY DEF SetIntervalTime
<1>2. PICK cnt :
        /\ cnt = (IF t > 0 THEN stateMs \div t ELSE 0)
        /\ ev' = [ev EXCEPT !.interval = t, !.cbCnt = cnt] /\ Recount(cnt)
  BY <1>0
<1>3. t \in Word /\ t \in Nat
  BY Constants, WordType
<1>4. cnt \in Word
  <2>1. CASE t > 0
    <3>1. stateMs \div t \in Nat /\ stateMs \div t <= stateMs
      BY <1>1, <1>3, <2>1, Division
    <3> QED BY <1>1, <1>2, <2>1, <3>1, Constants DEF Word
  <2>2. CASE ~(t > 0)
    BY <1>2, <2>2, WordType
  <2> QED BY <2>1, <2>2
<1>5. ev' \in Event /\ ev'.cbCnt = cnt /\ fired' = 0 /\ base' = cnt
  BY <1>1, <1>2, <1>3, <1>4 DEF Event, Recount
<1>6. CountOk' /\ fired' \in 0..MaxFired
  BY <1>4, <1>5, WordType, Constants DEF CountOk
<1> QED BY <1>1, <1>4, <1>5, <1>6 DEF EventInv, TypeOK, clockVars

LEMMA InitInv == Init => EventInv
<1> SUFFICES ASSUME Init PROVE EventInv
  OBVIOUS
<1>1. PICK c \in Configs : ev = Fresh(c)
  BY DEF Init
<1>2. ev \in Event /\ ev.cbCnt = 0
  BY <1>1, FreshType
<1>3. /\ 0 \in 0..MaxLate /\ 0 \in 0..MaxCalls /\ 0 \in 0..MaxFired
  BY Constants
<1>4. TypeOK
  BY <1>2, <1>3, WordType DEF Init, TypeOK
<1>5. CountOk
  BY <1>2 DEF Init, CountOk
<1> QED BY <1>4, <1>5 DEF EventInv

LEMMA NextInv ==
  ASSUME EventInv, [Next]_vars
  PROVE  EventInv'
<1>1. CASE TimeIsSet
  <2>1. /\ TypeOK /\ UNCHANGED <<ev, here, stateMs, deviceMs, late, calls, histVars>>
        /\ epochSec' \in Word /\ timeSet' \in BOOLEAN
    BY <1>1, Constants DEF EventInv, TimeIsSet
  <2>2. CountOk'
    BY <2>1, Kept DEF histVars
  <2> QED BY <2>1, <2>2 DEF EventInv, TypeOK, histVars
<1>2. CASE AddEvent \/ RemoveEvent
  <2>1. /\ TypeOK /\ calls' \in 0..MaxCalls /\ UNCHANGED <<here, clockVars, justFired>> /\ Recount(0)
    BY <1>2, Constants DEF EventInv, AddEvent, RemoveEvent, Call, TypeOK
  <2>2. ev' = Gone \/ \E c \in Configs : ev' = Fresh(c)
    BY <1>2 DEF AddEvent, RemoveEvent
  <2>3. ev' = Gone \/ (ev' \in Event /\ ev'.cbCnt = 0)
    BY <2>2, FreshType
  <2>4. CountOk' /\ ev' \in Event \cup {Gone} /\ fired' \in 0..MaxFired /\ base' \in Word
    BY <2>1, <2>3, Constants, WordType DEF CountOk, Recount
  <2> QED BY <2>1, <2>4 DEF EventInv, TypeOK, clockVars
<1>3. CASE UNCHANGED vars
  BY <1>3 DEF vars, clockVars, histVars, EventInv, TypeOK, CountOk
<1> QED BY <1>1, <1>2, <1>3, PassStep, TickStep, ChangeStep, SetIntervalStep DEF Next

-----------------------------------------------------------------------------
(* The theorems.                                                            *)

\* The strengthened invariant holds in every reachable state.
THEOREM EventInvariant == Spec => []EventInv
BY InitInv, NextInv, PTL DEF Spec

\* Every reachable state has its type.
THEOREM EventTypeCorrect == Spec => []TypeOK
<1>1. EventInv => TypeOK
  BY DEF EventInv
<1> QED BY <1>1, EventInvariant, PTL

\* Limits are kept (event.cpp:110), for every event whose clock can count to its limit.
THEOREM LimitsAreKept == Spec => []LimitKept
<1>1. EventInv => LimitKept
  BY DEF EventInv, CountOk, LimitKept
<1> QED BY <1>1, EventInvariant, PTL

\* With the count of the present time the next callback is later than that, if the clock counts
\* that far.
LEMMA NextIsLater ==
  ASSUME NEW e \in Event, NEW t \in Word, e.interval > 0, e.cbCnt = t \div e.interval,
         ~PastTheWrap(e)
  PROVE  GetNextCbTime(e) > t
<1>1. e.interval \in Nat \ {0} /\ e.start \in Nat /\ e.cbCnt \in Nat /\ t \in Nat
  <2>1. e.interval \in Word /\ e.start \in Word /\ e.cbCnt \in Word
    BY DEF Event
  <2>2. e.interval \in Nat /\ e.start \in Nat /\ e.cbCnt \in Nat /\ t \in Nat
    BY <2>1, WordType, Zenon
  <2>3. e.interval # 0
    <3> DEFINE n == e.interval
    <3>1. n \in Nat /\ n > 0
      BY <2>2
    <3> HIDE DEF n
    <3>2. n # 0
      BY <3>1
    <3> QED BY <3>2 DEF n
  <2> QED BY <2>2, <2>3, Zenon
<1>2. e.interval * (e.cbCnt + 1) + e.start < WORD
  <2>1. e.interval * (e.cbCnt + 1) \in Nat
    BY <1>1
  <2> QED BY <1>1, <2>1, Constants DEF PastTheWrap
<1>3. GetNextCbTime(e) = e.interval * e.cbCnt + e.interval + e.start
  BY <1>2, NextTime
<1>4. t < e.interval * e.cbCnt + e.interval
  BY <1>1, Division
<1>5. e.interval * e.cbCnt \in Nat
  BY <1>1
<1> QED BY <1>1, <1>3, <1>4, <1>5

\* A late pass makes one callback, and a new interval makes none (event.cpp:118).
THEOREM PassesDoNotBurst == Spec => NoBurst
<1> DEFINE Step ==
      /\ \/ Pass /\ Visited /\ ev.active
         \/ SetIntervalTime /\ ev.clock = "START_STATE_MS"
      /\ ev'.interval > 0
<1>1. EventInv /\ Step => InFuture(ev', GetCurTime(ev'))
  <2> SUFFICES ASSUME EventInv, Step, ~PastTheWrap(ev')
               PROVE  InFuture(ev', GetCurTime(ev'))
    BY DEF InFuture
  <2>1. CASE Pass /\ Visited /\ ev.active /\ Fire
    <3>1. /\ ev \in Event /\ ev' \in Event /\ ev'.cbCnt = CountAt(ev, GetCurTime(ev))
          /\ ev'.interval = ev.interval /\ ev'.clock = ev.clock /\ GetCurTime(ev) \in Word
      BY <2>1, FireStep DEF Event
    <3>2. GetCurTime(ev') = GetCurTime(ev)
      BY <3>1 DEF GetCurTime
    <3>3. ev'.cbCnt = GetCurTime(ev) \div ev'.interval
      BY <3>1 DEF CountAt
    <3> QED BY <3>1, <3>2, <3>3, NextIsLater DEF InFuture
  <2>2. CASE Pass /\ Visited /\ ev.active /\ ~Fire
    <3>1. ev' = ev /\ ev \in Event /\ ~IsTime(ev, GetCurTime(ev))
      BY <2>2 DEF Pass, Visited, EventInv, TypeOK
    <3>2. GetCurTime(ev) \in Nat /\ ev.max \in Nat /\ ev.cbCnt \in Nat
      BY <3>1, CurTimeType, WordType DEF EventInv, Event
    <3>3. GetNextCbTime(ev) \in Nat
      <4>1. ev.interval > 0 /\ ~PastTheWrap(ev)
        BY <3>1
      <4>2. ev.interval \in Nat /\ ev.start \in Nat
        BY <3>1, WordType DEF Event
      <4>3. ev.interval * (ev.cbCnt + 1) \in Nat /\ ev.interval * ev.cbCnt \in Nat
        BY <3>2, <4>2
      <4>4. GetNextCbTime(ev) = ev.interval * ev.cbCnt + ev.interval + ev.start
        BY <3>1, <4>1, <4>2, <4>3, NextTime, Constants DEF PastTheWrap
      <4> QED BY <4>2, <4>3, <4>4
    <3>4. InFuture(ev, GetCurTime(ev))
      BY <3>1, <3>2, <3>3 DEF IsTime, InFuture
    <3> QED BY <3>1, <3>4
  <2>3. CASE SetIntervalTime /\ ev.clock = "START_STATE_MS"
    <3>1. ev \in Event /\ ev' \in Event \cup {Gone}
      BY <2>3, SetIntervalStep DEF SetIntervalTime, EventInv, TypeOK
    <3>2. PICK t \in Intervals :
            ev' = [ev EXCEPT !.interval = t, !.cbCnt = IF t > 0 THEN stateMs \div t ELSE 0]
      BY <2>3 DEF SetIntervalTime
    <3>3. /\ ev'.interval = t /\ ev'.cbCnt = stateMs \div t /\ ev'.clock = "START_STATE_MS"
          /\ ev' \in Event
      BY <2>3, <3>1, <3>2 DEF Event, Gone
    <3>4. GetCurTime(ev') = stateMs /\ stateMs \in Word
      BY <3>3 DEF GetCurTime, Clocks, EventInv, TypeOK
    <3> QED BY <3>3, <3>4, NextIsLater DEF InFuture
  <2> QED BY <2>1, <2>2, <2>3
<1>2. EventInv => [Step => InFuture(ev', GetCurTime(ev'))]_vars
  BY <1>1
<1> QED BY <1>2, EventInvariant, PTL DEF NoBurst

-----------------------------------------------------------------------------
(* Wraps.                                                                   *)

\* Events that are called back for ever, on a clock that their count is always taken from (setIntervalTime
\* takes it from the clock of the state) and with a pass in the last interval before the wrap.
OwnClock(e) ==
  \/ e.clock = "START_STATE_MS"
  \/ e.clock = "START_DEVICE_MS" /\ (Global(e) \/ Intervals = {})
Steady ==
  /\ ev # Gone /\ ev.active
  /\ Recurring(ev) /\ OwnClock(ev) /\ LastInterval(ev) >= MaxLate

\* The next callback of such an event is never more than an interval ahead, and so never a round of
\* the clock.
NeverFarAhead == Steady => GetNextCbTime(ev) <= GetCurTime(ev) + ev.interval

\* What makes it survive the wrap: a pass in the last interval has led on to the next round.
LastMultiple(e) == WORD - LastInterval(e)
RoundDone ==
  Steady /\ GetCurTime(ev) >= LastMultiple(ev) + late => GetNextCbTime(ev) <= ev.interval
ActiveHere   == ev # Gone /\ ev.active => here \/ Global(ev)
CountInRange == ev # Gone /\ ev.interval > 0 => ev.interval * ev.cbCnt < WORD

WrapInv == EventInv /\ ActiveHere /\ CountInRange /\ NeverFarAhead /\ RoundDone

\* Division with its remainder.
LEMMA Remainder ==
  ASSUME NEW w \in Nat, NEW i \in Nat \ {0}
  PROVE  \E q, r \in Nat : w = i * q + r /\ r < i /\ r = w % i
<1>1. w \div i \in Nat /\ w % i \in Nat /\ w % i < i
  OBVIOUS
<1>2. w = i * (w \div i) + (w % i)
  OBVIOUS
<1> QED BY <1>1, <1>2, Zenon

\* The last multiple of the interval that the clock shows before it wraps.
LEMMA LastMultipleOf ==
  ASSUME NEW e \in Event, e.interval > 0
  PROVE  /\ LastInterval(e) \in Nat \ {0} /\ LastMultiple(e) \in Nat \ {0}
         /\ LastMultiple(e) + LastInterval(e) = WORD /\ LastInterval(e) <= e.interval
         /\ \E k \in Nat : LastMultiple(e) = e.interval * k
<1>1. PICK i \in Nat : i = e.interval
  BY WordType DEF Event
<1>2. i > 0 /\ i < WORD /\ WORD \in Nat
  BY <1>1, Constants DEF Event, Word
<1>3. PICK q \in Nat, r \in Nat : WORD = i * q + r /\ r < i /\ r = WORD % i
  <2>1. i \in Nat \ {0}
    BY <1>2
  <2> QED BY <1>2, <2>1, Remainder, Zenon
<1>4. q > 0
  <2>1. q = 0 => i * q = 0
    BY <1>2
  <2> QED BY <1>2, <1>3, <2>1
<1>5. PICK p \in Nat : q = p + 1 /\ i * q = i * p + i /\ i * p \in Nat
  <2>1. q - 1 \in Nat /\ q = (q - 1) + 1
    BY <1>4
  <2>2. PICK p \in Nat : q = p + 1
    BY <2>1
  <2>3. i * (p + 1) = i * p + i /\ i * p \in Nat
    OBVIOUS
  <2> QED BY <2>2, <2>3
<1>6. LastInterval(e) = IF r = 0 THEN i ELSE r
  BY <1>1, <1>3 DEF LastInterval
<1>7. CASE r = 0
  <2>1. LastInterval(e) = i /\ LastMultiple(e) = i * p
    BY <1>2, <1>3, <1>5, <1>6, <1>7 DEF LastMultiple
  <2>2. i * p # 0
    BY <1>2, <1>3, <1>5, <1>7
  <2>3. WORD = i * p + i
    BY <1>2, <1>3, <1>5, <1>7
  <2>4. i \in Nat \ {0} /\ i * p \in Nat \ {0} /\ i <= i
    BY <1>2, <1>5, <2>2
  <2> QED BY <1>1, <2>1, <2>3, <2>4
<1>8. CASE r # 0
  <2>1. LastInterval(e) = r /\ LastMultiple(e) = i * q
    BY <1>2, <1>3, <1>5, <1>6, <1>8 DEF LastMultiple
  <2>2. i * q # 0 /\ i * q \in Nat
    BY <1>2, <1>5
  <2>3. r \in Nat \ {0} /\ i * q \in Nat \ {0} /\ r <= i
    BY <1>2, <1>3, <1>8, <2>2
  <2> QED BY <1>1, <1>3, <2>1, <2>3
<1> QED BY <1>7, <1>8

\* The next callback of a recurring event: in this round of the clock, or early in the next.
LEMMA NextOf ==
  ASSUME NEW e \in Event, Recurring(e), NEW m \in Nat, m = e.interval * e.cbCnt, m < WORD
  PROVE  GetNextCbTime(e) = IF m + e.interval < WORD THEN m + e.interval ELSE m + e.interval - WORD
<1>1. PICK i \in Nat : i = e.interval /\ i > 0 /\ i < WORD /\ e.start = 0
  BY Constants DEF Event, Word, Recurring
<1>2. GetLastCbTime(e) = m
  BY <1>1, Modulus DEF GetLastCbTime
<1>3. GetNextCbTime(e) = (m + i) % WORD
  BY <1>1, <1>2 DEF GetNextCbTime
<1>4. CASE m + i < WORD
  BY <1>1, <1>3, <1>4, Modulus
<1>5. CASE ~(m + i < WORD)
  <2>1. PICK x \in Nat : m + i = x + WORD /\ x < WORD
    <3>1. m + i - WORD \in Nat /\ m + i - WORD < WORD /\ m + i = (m + i - WORD) + WORD
      BY <1>1, <1>5, Constants
    <3> QED BY <3>1
  <2>2. (x + WORD) % WORD = x
    BY <2>1, Constants
  <2> QED BY <1>1, <1>3, <1>5, <2>1, <2>2, Constants
<1> QED BY <1>1, <1>4, <1>5

LEMMA NextType ==
  ASSUME NEW e \in Event
  PROVE  GetNextCbTime(e) \in Nat
<1>1. PICK i \in Nat, c \in Nat, s \in Nat : i = e.interval /\ c = e.cbCnt /\ s = e.start
  BY WordType DEF Event
<1>2. \A x \in Nat : x % WORD \in Nat
  BY Modulus, WordType
<1>3. i * c + s \in Nat
  OBVIOUS
<1>4. \A x \in Nat : x + i \in Nat
  OBVIOUS
<1> QED BY <1>1, <1>2, <1>3, <1>4 DEF GetNextCbTime, GetLastCbTime

\* From the last multiple on, a callback that is still to come is one of the next round.
LEMMA LastRound ==
  ASSUME NEW e \in Event, Recurring(e), e.interval * e.cbCnt < WORD, NEW t \in Word,
         LastMultiple(e) <= t, t < GetNextCbTime(e)
  PROVE  GetNextCbTime(e) <= e.interval
<1>1. PICK i \in Nat, c \in Nat : i = e.interval /\ c = e.cbCnt
  BY WordType DEF Event
<1>2. i > 0 /\ i < WORD /\ t \in Nat /\ t < WORD /\ i * c \in Nat
  BY <1>1, Constants DEF Event, Word, Recurring
<1>3. PICK m \in Nat : m = i * c /\ m < WORD
  BY <1>1, <1>2
<1>4. GetNextCbTime(e) = IF m + i < WORD THEN m + i ELSE m + i - WORD
  BY <1>1, <1>3, NextOf
<1>5. ASSUME m + i < WORD
      PROVE  FALSE
  <2>1. PICK k \in Nat : LastMultiple(e) = i * k
    BY <1>1, <1>2, LastMultipleOf
  <2>2. i * k < i * c + i /\ WORD <= i * k + i /\ i * k \in Nat
    BY <1>1, <1>2, <1>3, <1>4, <1>5, <2>1, LastMultipleOf, Constants
  <2>3. k <= c
    <3>1. CASE c + 1 <= k
      <4>1. i * (c + 1) <= i * k /\ i * (c + 1) = i * c + i
        BY <3>1, Multiples
      <4> QED BY <1>2, <2>2, <4>1
    <3> QED BY <3>1
  <2>4. i * k <= i * c
    BY <2>3, Multiples
  <2> QED BY <1>2, <1>3, <1>5, <2>2, <2>4, Constants
<1> QED BY <1>1, <1>2, <1>3, <1>4, <1>5, Constants

\* After a callback at time t, and after the count was set to that of time t.
LEMMA AfterCallback ==
  ASSUME NEW e \in Event, e.interval > 0, NEW t \in Word, e.cbCnt = t \div e.interval
  PROVE  /\ e.interval * e.cbCnt < WORD
         /\ Recurring(e) => /\ GetNextCbTime(e) <= t + e.interval
                            /\ LastMultiple(e) <= t => GetNextCbTime(e) <= e.interval
<1>1. PICK i \in Nat, c \in Nat : i = e.interval /\ c = e.cbCnt
  BY WordType DEF Event
<1>2. i > 0 /\ i < WORD /\ t \in Nat /\ t < WORD
  BY <1>1, Constants DEF Event, Word
<1>3. PICK m \in Nat : m = i * c /\ m <= t /\ t < m + i
  <2>1. i \in Nat \ {0} /\ c = t \div i
    BY <1>1, <1>2
  <2>2. i * c <= t /\ t < i * c + i
    BY <1>2, <2>1, Division
  <2>3. i * c \in Nat
    OBVIOUS
  <2> QED BY <2>2, <2>3
<1>4. m < WORD
  BY <1>2, <1>3, Constants
<1>5. ASSUME Recurring(e)
      PROVE  /\ GetNextCbTime(e) <= t + i
             /\ LastMultiple(e) <= t => GetNextCbTime(e) <= i
  <2>1. GetNextCbTime(e) = IF m + i < WORD THEN m + i ELSE m + i - WORD
    BY <1>1, <1>3, <1>4, <1>5, NextOf
  <2>2. GetNextCbTime(e) <= t + i /\ (m + i < WORD => t < GetNextCbTime(e))
        /\ (~(m + i < WORD) => GetNextCbTime(e) <= i)
    BY <1>2, <1>3, <1>4, <2>1, Constants
  <2>3. LastMultiple(e) <= t /\ t < GetNextCbTime(e) => GetNextCbTime(e) <= i
    BY <1>1, <1>3, <1>4, <1>5, LastRound
  <2> QED BY <2>2, <2>3
<1> QED BY <1>1, <1>3, <1>4, <1>5

\* An event that has just been set to 0 is due after an interval.
LEMMA AfterReset ==
  ASSUME NEW e \in Event, e.cbCnt = 0
  PROVE  e.interval * e.cbCnt < WORD /\ (Recurring(e) => GetNextCbTime(e) = e.interval)
<1>1. PICK i \in Nat : i = e.interval /\ i < WORD /\ i * 0 = 0
  BY Constants DEF Event, Word
<1>2. Recurring(e) => GetNextCbTime(e) = i
  BY <1>1, NextOf, Constants
<1> QED BY <1>1, <1>2, Constants

\* The time of such an event.
LEMMA OwnTime ==
  ASSUME TypeOK, NEW e \in Event, OwnClock(e)
  PROVE  /\ GetCurTime(e) = IF e.clock = "START_STATE_MS" THEN stateMs ELSE deviceMs
         /\ GetCurTime(e) \in Word
BY CurTimeType DEF OwnClock, GetCurTime

\* What is to be shown of an event that was set anew.
LEMMA SetAnew ==
  ASSUME EventInv', NEW e \in Event, ev' = e, ActiveHere', NEW t \in Word, t = GetCurTime(e)',
         e.interval > 0 => e.interval * e.cbCnt < WORD,
         Recurring(e) /\ OwnClock(e) =>
           /\ GetNextCbTime(e) <= t + e.interval
           /\ LastMultiple(e) <= t => GetNextCbTime(e) <= e.interval
  PROVE  WrapInv'
<1>1. Steady' => Recurring(e) /\ OwnClock(e)
  BY DEF Steady
<1>2. (GetCurTime(ev))' = t
  BY DEF GetCurTime
<1>3. NeverFarAhead' /\ CountInRange'
  BY <1>1, <1>2 DEF NeverFarAhead, CountInRange
<1>4. RoundDone'
  <2>1. SUFFICES ASSUME Steady', t >= LastMultiple(e) + late'
                 PROVE  LastMultiple(e) <= t
    BY <1>1, <1>2 DEF RoundDone
  <2>2. late' \in Nat /\ t \in Nat
    BY WordType, Constants DEF EventInv, TypeOK
  <2>3. LastMultiple(e) \in Nat
    BY <1>1, <2>1, LastMultipleOf DEF Recurring
  <2> QED BY <2>1, <2>2, <2>3
<1> QED BY <1>3, <1>4 DEF WrapInv

\* An event that is not called back for ever now.
LEMMA NotSteady ==
  ASSUME EventInv', ActiveHere', CountInRange', ~Steady'
  PROVE  WrapInv'
BY DEF WrapInv, NeverFarAhead, RoundDone

LEMMA PassWraps ==
  ASSUME WrapInv, Pass
  PROVE  WrapInv'
<1>1. /\ EventInv' /\ EventInv /\ UNCHANGED <<here, stateMs, deviceMs, timeSet, epochSec>> /\ late' = 0
  BY PassStep DEF WrapInv, Pass
<1>2. CASE Fire
  <2>1. PICK e \in Event : ev' = e /\ e = [ev EXCEPT !.cbCnt = CountAt(ev, GetCurTime(ev))]
    BY <1>1, <1>2, FireStep
  <2>2. PICK t \in Word : t = GetCurTime(ev)
    BY <1>1, <1>2, FireStep
  <2>3. /\ ev \in Event /\ e.clock = ev.clock /\ e.interval = ev.interval /\ e.type = ev.type
        /\ e.cbCnt = CountAt(ev, t) /\ Visited
    BY <1>1, <1>2, <2>1, <2>2, FireStep DEF Event, Fire
  <2>4. GetCurTime(e)' = t
    BY <1>1, <2>2, <2>3 DEF GetCurTime
  <2>5. ActiveHere'
    BY <1>1, <2>1, <2>3 DEF ActiveHere, Visited, Global
  <2>6. ASSUME e.interval > 0
        PROVE  /\ e.interval * e.cbCnt < WORD
               /\ Recurring(e) => /\ GetNextCbTime(e) <= t + e.interval
                                  /\ LastMultiple(e) <= t => GetNextCbTime(e) <= e.interval
    <3>1. e.cbCnt = t \div e.interval
      BY <2>3, <2>6 DEF CountAt
    <3> QED BY <2>6, <3>1, AfterCallback
  <2>7. Recurring(e) => e.interval > 0
    BY DEF Recurring
  <2>8. EventInv' /\ t = GetCurTime(e)'
    BY <1>1, <2>4
  <2> QED BY <2>1, <2>5, <2>6, <2>7, <2>8, SetAnew
<1>3. CASE ~(Visited /\ ev.active /\ IsTime(ev, GetCurTime(ev))) /\ UNCHANGED ev
  <2>1. ActiveHere' /\ CountInRange' /\ NeverFarAhead' /\ (Steady' => Steady)
    BY <1>1, <1>3 DEF WrapInv, ActiveHere, CountInRange, NeverFarAhead, Steady, GetCurTime
  <2>2. ASSUME Steady, GetCurTime(ev) >= LastMultiple(ev)
        PROVE  GetNextCbTime(ev) <= ev.interval
    <3>1. ev \in Event /\ Visited /\ ev.active /\ Recurring(ev) /\ ev.interval > 0
      BY <1>1, <2>2 DEF WrapInv, EventInv, TypeOK, ActiveHere, Steady, Visited, Recurring
    <3>2. ev.interval * ev.cbCnt < WORD
      BY <3>1, EventIsNotGone DEF WrapInv, CountInRange
    <3>3. PICK t \in Word : t = GetCurTime(ev)
      BY <1>1, <3>1, CurTimeType DEF EventInv
    <3>4. ~IsTime(ev, t)
      BY <1>3, <3>1, <3>3
    <3>5. t < GetNextCbTime(ev)
      <4>1. PICK n \in Nat : n = GetNextCbTime(ev)
        BY <3>1, NextType
      <4>2. ~(t >= n)
        BY <3>1, <3>4, <4>1 DEF IsTime, Recurring
      <4> QED BY <4>1, <4>2, WordType
    <3>6. LastMultiple(ev) <= t
      BY <2>2, <3>3
    <3> QED BY <3>1, <3>2, <3>5, <3>6, LastRound
  <2>3. RoundDone'
    <3>1. SUFFICES ASSUME Steady', (GetCurTime(ev))' >= LastMultiple(ev') + late'
                   PROVE  GetNextCbTime(ev') <= ev'.interval
      BY DEF RoundDone
    <3>2. (GetCurTime(ev))' = GetCurTime(ev) /\ ev' = ev /\ Steady
      BY <1>1, <1>3, <2>1, <3>1 DEF GetCurTime
    <3>3. LastMultiple(ev) \in Nat
      <4>1. ev \in Event /\ ev.interval > 0
        BY <1>1, <3>2 DEF EventInv, TypeOK, Steady, Recurring
      <4> QED BY <4>1, LastMultipleOf
    <3>4. GetCurTime(ev) >= LastMultiple(ev)
      BY <1>1, <3>1, <3>2, <3>3
    <3> QED BY <2>2, <3>2, <3>4
  <2> QED BY <1>1, <2>1, <2>3 DEF WrapInv
<1> QED BY <1>2, <1>3 DEF Pass

LEMMA TickWraps ==
  ASSUME WrapInv, Tick
  PROVE  WrapInv'
<1>1. /\ EventInv' /\ EventInv /\ ev' = ev /\ here' = here /\ late' = late + 1 /\ late < MaxLate
      /\ deviceMs' = (deviceMs + 1) % WORD /\ stateMs' = (stateMs + 1) % WORD
  BY TickStep DEF WrapInv, Tick
<1>2. late \in Nat
  BY <1>1, Constants DEF EventInv, TypeOK
<1>3. ActiveHere' /\ CountInRange'
  BY <1>1 DEF WrapInv, ActiveHere, CountInRange
<1>4. SUFFICES ASSUME Steady'
               PROVE  WrapInv'
  BY <1>1, <1>3, NotSteady
<1>5. PICK e \in Event : e = ev
  BY <1>1, <1>4 DEF EventInv, TypeOK, Steady
<1>6. Steady /\ Recurring(e) /\ OwnClock(e) /\ e.interval > 0 /\ MaxLate <= LastInterval(e)
  BY <1>1, <1>4, <1>5, LastMultipleOf, Constants DEF Steady, Recurring
<1>7. PICK t \in Word : t = GetCurTime(e)
  BY <1>1, <1>6, OwnTime DEF EventInv
<1>8. GetCurTime(e)' = (t + 1) % WORD
  BY <1>1, <1>6, <1>7, OwnTime DEF OwnClock, GetCurTime
<1>9. PICK i \in Nat, l \in Nat, b \in Nat :
        i = e.interval /\ l = LastInterval(e) /\ b = LastMultiple(e)
  <2>1. e.interval \in Nat
    BY WordType DEF Event
  <2>2. LastInterval(e) \in Nat /\ LastMultiple(e) \in Nat
    BY <1>6, LastMultipleOf
  <2> QED BY <2>1, <2>2
<1>10. PICK n \in Nat : n = GetNextCbTime(e)
  <2>1. GetNextCbTime(e) \in Nat
    BY <1>6, NextType
  <2> QED BY <2>1
<1>11. n <= t + i /\ (t >= b + late => n <= i) /\ b + l = WORD /\ b > 0 /\ t \in Nat /\ t < WORD
  <2>1. n <= t + i /\ (t >= b + late => n <= i)
    BY <1>5, <1>6, <1>7, <1>9, <1>10 DEF WrapInv, NeverFarAhead, RoundDone
  <2>2. b + l = WORD /\ b > 0
    BY <1>6, <1>9, LastMultipleOf
  <2> QED BY <2>1, <2>2, Constants DEF Word
<1>12. PICK u \in Nat : u = (GetCurTime(ev))' /\ u = IF t + 1 < WORD THEN t + 1 ELSE 0
  <2>1. t + 1 < WORD => (t + 1) % WORD = t + 1
    BY <1>11, Modulus
  <2>2. ~(t + 1 < WORD) => (t + 1) % WORD = 0
    <3>1. ~(t + 1 < WORD) => t + 1 = WORD
      BY <1>11, Constants
    <3>2. WORD % WORD = 0
      BY Constants
    <3> QED BY <3>1, <3>2
  <2>3. (GetCurTime(ev))' = GetCurTime(e)'
    BY <1>1, <1>5 DEF GetCurTime
  <2> QED BY <1>8, <1>11, <2>1, <2>2, <2>3
<1>13. n <= u + i /\ (u >= b + late + 1 => n <= i)
  <2>1. CASE t + 1 < WORD
    BY <1>2, <1>11, <1>12, <2>1
  <2>2. CASE ~(t + 1 < WORD)
    <3>1. t >= b + late
      BY <1>2, <1>1, <1>6, <1>9, <1>11, <2>2, Constants
    <3> QED BY <1>2, <1>11, <1>12, <2>2, <3>1
  <2> QED BY <2>1, <2>2
<1>14. NeverFarAhead' /\ RoundDone'
  BY <1>2, <1>1, <1>5, <1>9, <1>12, <1>13, <1>10 DEF NeverFarAhead, RoundDone
<1> QED BY <1>1, <1>3, <1>14 DEF WrapInv

\* The count of an event that was just set to 0.
LEMMA ResetWraps ==
  ASSUME EventInv', NEW e \in Event, ev' = e, e.cbCnt = 0, ActiveHere'
  PROVE  WrapInv'
<1>1. TypeOK'
  BY DEF EventInv
<1>2. ASSUME Recurring(e), OwnClock(e)
      PROVE  \E t \in Word : t = GetCurTime(e)'
  BY <1>1, <1>2 DEF TypeOK, OwnClock, GetCurTime
<1>3. CASE Recurring(e) /\ OwnClock(e)
  <2>1. PICK t \in Word : t = GetCurTime(e)'
    BY <1>2, <1>3
  <2>2. PICK i \in Nat : i = e.interval
    BY WordType DEF Event
  <2>3. e.interval * e.cbCnt < WORD /\ GetNextCbTime(e) = i
    BY <1>3, <2>2, AfterReset
  <2>4. i <= t + i /\ i <= i
    BY WordType
  <2> QED BY <2>1, <2>2, <2>3, <2>4, SetAnew
<1>4. CASE ~(Recurring(e) /\ OwnClock(e))
  <2>1. ~Steady'
    BY <1>4 DEF Steady
  <2>2. CountInRange'
    BY AfterReset DEF CountInRange
  <2> QED BY <2>1, <2>2, NotSteady
<1> QED BY <1>3, <1>4

LEMMA ChangeWraps ==
  ASSUME WrapInv, ChangeState
  PROVE  WrapInv'
<1>1. /\ EventInv /\ EventInv' /\ ActiveHere /\ CountInRange /\ here' \in BOOLEAN
      /\ UNCHANGED <<deviceMs, timeSet, epochSec, late>>
  BY ChangeStep DEF WrapInv, ChangeState
<1> DEFINE e == Deactivated(ev)
<1>2. CASE ev' = Gone
  BY <1>1, <1>2, NotSteady DEF ActiveHere, CountInRange, Steady
<1>3. CASE /\ ev # Gone /\ e # Gone /\ Global(e) /\ e.clock = "START_STATE_MS"
           /\ ev' = [e EXCEPT !.cbCnt = 0]
  <2>1. e = ev /\ ev \in Event
    BY <1>1, <1>3 DEF Deactivated, EventInv, TypeOK, Global, Event
  <2>2. PICK f \in Event : f = [ev EXCEPT !.cbCnt = 0]
    BY <2>1, WordType DEF Event
  <2>3. ev' = f /\ f.cbCnt = 0 /\ f.type = ev.type
    BY <1>3, <2>1, <2>2 DEF Event
  <2>4. ActiveHere'
    BY <1>3, <2>1, <2>3 DEF ActiveHere, Global
  <2> QED BY <1>1, <2>3, <2>4, ResetWraps
<1>4. CASE ev # Gone /\ e # Gone /\ Global(e) /\ e.clock # "START_STATE_MS" /\ ev' = e
  <2>1. e = ev /\ ev \in Event
    BY <1>1, <1>4 DEF Deactivated, EventInv, TypeOK, Global, Event
  <2>2. ActiveHere' /\ CountInRange'
    BY <1>1, <1>4, <2>1 DEF ActiveHere, CountInRange
  <2>3. Steady' => Steady /\ (GetCurTime(ev))' = GetCurTime(ev)
    BY <1>1, <1>4, <2>1 DEF Steady, OwnClock, GetCurTime
  <2>4. NeverFarAhead' /\ RoundDone'
    BY <1>1, <1>4, <2>1, <2>3 DEF WrapInv, NeverFarAhead, RoundDone
  <2> QED BY <1>1, <2>2, <2>4 DEF WrapInv
<1>5. CASE /\ ev # Gone /\ e # Gone /\ ~Global(e) /\ here'
           /\ ev' = [e EXCEPT !.cbCnt = 0, !.active = TRUE]
  <2>1. e \in Event
    BY <1>1, <1>5 DEF Deactivated, EventInv, TypeOK, Global, Event
  <2> HIDE DEF e
  <2>2. PICK f \in Event : f = [e EXCEPT !.cbCnt = 0, !.active = TRUE]
    BY <2>1, WordType DEF Event
  <2>3. ev' = f /\ f.cbCnt = 0
    BY <1>5, <2>1, <2>2 DEF Event
  <2>4. ActiveHere'
    BY <1>5 DEF ActiveHere
  <2> QED BY <1>1, <2>3, <2>4, ResetWraps
<1>6. CASE ev # Gone /\ e # Gone /\ ~Global(e) /\ ~here' /\ ev' = e
  <2>1. /\ ev \in Event /\ e \in Event /\ ~e.active
        /\ e.interval = ev.interval /\ e.cbCnt = ev.cbCnt
    <3>1. ev \in Event
      BY <1>1, <1>6 DEF EventInv, TypeOK
    <3>2. CASE ~here
      <4>1. e = ev /\ ~ev.active
        BY <1>1, <1>6, <3>2 DEF Deactivated, ActiveHere
      <4> QED BY <3>1, <4>1
    <3>3. CASE here
      <4>1. e = [ev EXCEPT !.active = FALSE]
        BY <1>6, <3>1, <3>3 DEF Deactivated, Global, Event
      <4> QED BY <3>1, <4>1 DEF Event
    <3> QED BY <1>1, <3>2, <3>3
  <2> HIDE DEF e
  <2>2. ActiveHere' /\ CountInRange' /\ ~Steady'
    BY <1>1, <1>6, <2>1 DEF ActiveHere, CountInRange, Steady
  <2> QED BY <1>1, <2>2, NotSteady
<1> QED BY <1>2, <1>3, <1>4, <1>5, <1>6 DEF ChangeState

LEMMA SetIntervalWraps ==
  ASSUME WrapInv, SetIntervalTime
  PROVE  WrapInv'
<1>0. EventInv /\ ActiveHere /\ TypeOK /\ EventInv'
  BY SetIntervalStep DEF WrapInv, EventInv
<1>1. /\ EventInv' /\ ActiveHere /\ UNCHANGED <<here, clockVars>>
      /\ ev \in Event /\ stateMs \in Word /\ ~Global(ev)
  <2>1. UNCHANGED <<here, clockVars>> /\ ev # Gone /\ ~Global(ev)
    BY DEF SetIntervalTime
  <2> QED BY <1>0, <2>1 DEF TypeOK
<1> DEFINE CountOf(t) == IF t > 0 THEN stateMs \div t ELSE 0
<1>2. PICK i \in Intervals :
        ev' = [ev EXCEPT !.interval = i, !.cbCnt = CountOf(i)] /\ Recount(CountOf(i))
  BY Zenon DEF SetIntervalTime
<1>3. PICK e \in Event : ev' = e
  BY <1>1, <1>2 DEF EventInv, TypeOK, Event, Gone
<1>4. /\ e.interval = i /\ e.cbCnt = (IF i > 0 THEN stateMs \div i ELSE 0)
      /\ e.type = ev.type /\ e.active = ev.active /\ ~Global(e)
  BY <1>1, <1>2, <1>3 DEF Event, Global
<1>5. ActiveHere'
  BY <1>1, <1>3, <1>4, EventIsNotGone DEF ActiveHere
<1>6. ASSUME e.interval > 0
      PROVE  /\ e.interval * e.cbCnt < WORD
             /\ Recurring(e) => /\ GetNextCbTime(e) <= stateMs + e.interval
                                /\ LastMultiple(e) <= stateMs => GetNextCbTime(e) <= e.interval
  <2>1. e.cbCnt = stateMs \div e.interval
    BY <1>4, <1>6
  <2> QED BY <1>1, <1>6, <2>1, AfterCallback
<1>7. Recurring(e) => e.interval > 0
  BY DEF Recurring
<1>8. CASE OwnClock(e)
  <2>1. GetCurTime(e)' = stateMs
    BY <1>1, <1>4, <1>8 DEF OwnClock, GetCurTime, clockVars
  <2>2. PICK t \in Word : t = stateMs
    BY <1>1
  <2> QED BY <1>1, <1>3, <1>5, <1>6, <1>7, <2>1, <2>2, SetAnew
<1>9. CASE ~OwnClock(e)
  <2>1. ~Steady' /\ CountInRange'
    BY <1>3, <1>6, <1>9 DEF Steady, CountInRange
  <2> QED BY <1>1, <1>5, <2>1, NotSteady
<1> QED BY <1>8, <1>9

LEMMA WrapInit == Init => WrapInv
<1> SUFFICES ASSUME Init PROVE WrapInv
  OBVIOUS
<1>1. PICK c \in Configs : ev = Fresh(c)
  BY DEF Init
<1>2. ev \in Event /\ ev.cbCnt = 0 /\ here /\ EventInv
  BY <1>1, FreshType, InitInv DEF Init
<1>3. PICK i \in Nat, t \in Nat : i = ev.interval /\ t = GetCurTime(ev)
  BY <1>2, WordType, CurTimeType DEF Event, EventInv
<1>4. ev.interval * ev.cbCnt < WORD /\ (Recurring(ev) => GetNextCbTime(ev) = i)
  BY <1>2, <1>3, AfterReset
<1>5. i <= t + i /\ i <= i
  OBVIOUS
<1>6. NeverFarAhead /\ RoundDone /\ CountInRange
  BY <1>3, <1>4, <1>5 DEF NeverFarAhead, RoundDone, CountInRange, Steady
<1> QED BY <1>2, <1>6 DEF WrapInv, ActiveHere

LEMMA WrapNext ==
  ASSUME WrapInv, [Next]_vars
  PROVE  WrapInv'
<1>1. EventInv'
  BY NextInv DEF WrapInv
<1>2. CASE TimeIsSet
  <2>1. UNCHANGED <<ev, here, stateMs, deviceMs, late>>
    BY <1>2 DEF TimeIsSet
  <2>2. (Steady' => Steady /\ (GetCurTime(ev))' = GetCurTime(ev)) /\ ActiveHere' /\ CountInRange'
    BY <2>1 DEF WrapInv, Steady, OwnClock, GetCurTime, ActiveHere, CountInRange
  <2>3. NeverFarAhead' /\ RoundDone'
    BY <2>1, <2>2 DEF WrapInv, NeverFarAhead, RoundDone
  <2> QED BY <1>1, <2>2, <2>3 DEF WrapInv
<1>3. CASE AddEvent
  <2>1. PICK c \in Configs : ev' = Fresh(c) /\ (here \/ Global(c)) /\ here' = here
    BY <1>3 DEF AddEvent
  <2>2. PICK e \in Event : ev' = e /\ e.cbCnt = 0
    BY <2>1, FreshType
  <2>3. ActiveHere'
    BY <2>1 DEF ActiveHere, Fresh, Global
  <2> QED BY <1>1, <2>2, <2>3, ResetWraps
<1>4. CASE RemoveEvent
  <2>1. ev' = Gone
    BY <1>4 DEF RemoveEvent
  <2> QED BY <1>1, <2>1, NotSteady DEF ActiveHere, CountInRange, Steady
<1>5. CASE UNCHANGED vars
  <2>1. UNCHANGED <<ev, here, stateMs, deviceMs, timeSet, epochSec, late>>
    BY <1>5 DEF vars, clockVars
  <2> QED BY <1>1, <2>1 DEF WrapInv, NeverFarAhead, RoundDone, Steady, OwnClock, GetCurTime,
                            ActiveHere, CountInRange
<1> QED BY <1>2, <1>3, <1>4, <1>5, PassWraps, TickWraps, ChangeWraps, SetIntervalWraps DEF Next

\* A recurring event outlives every wrap of its clock (event.cpp:108): whatever the width of the clock
\* and however late the passes are up to MaxLate, its next callback is at most an interval ahead.
THEOREM CallbacksSurviveTheWrap == Spec => []NeverFarAhead
<1>1. WrapInv => NeverFarAhead
  BY DEF WrapInv
<1> QED BY <1>1, WrapInit, WrapNext, PTL DEF Spec

=============================================================================
