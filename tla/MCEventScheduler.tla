-------------------------- MODULE MCEventScheduler --------------------------
(***************************************************************************)
(* The events that TLC schedules.                                          *)
(***************************************************************************)
EXTENDS EventScheduler

AnEvent(interval, max, start, clock, type) ==
  [interval |-> interval, max |-> max, start |-> start, clock |-> clock, type |-> type]

\* Recurring, limited and delayed events on every clock and of every type, and recurring
\* events whose interval leaves a remainder of the range of the clock.
MCConfigs ==
  {AnEvent(2, 0, 0, c, "EVENT_TYPE_PERM") : c \in Clocks}
    \cup {AnEvent(2, 2, 1, c, "EVENT_TYPE_GLOBAL") : c \in Clocks}
    \cup {AnEvent(0, 1, 2, c, "EVENT_TYPE_TEMP") : c \in Clocks}
    \cup {AnEvent(i, 0, 0, "START_DEVICE_MS", "EVENT_TYPE_GLOBAL") : i \in {3, 5}}

=============================================================================
