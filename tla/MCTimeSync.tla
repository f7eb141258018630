----------------------------- MODULE MCTimeSync -----------------------------
(***************************************************************************)
(* The clocks that TLC starts the devices with.                            *)
(***************************************************************************)
EXTENDS TimeSync

\* The master's clock wraps at time 2, or the other devices' at time 3.
MCClocks ==
  {[d \in Devices |-> IF d = Master THEN WORD - 2 ELSE 5],
   [d \in Devices |-> IF d = Master THEN 1 ELSE WORD - 3]}

=============================================================================
