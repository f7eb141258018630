------------------------------- MODULE MCMqtt -------------------------------
(***************************************************************************)
(* The states and servers of a small sketch.                               *)
(***************************************************************************)
EXTENDS Mqtt

\* One state has a server of its own, one uses the default, and one does not connect.
MCStates     == {"own", "default", "offline"}
MCInitialState == "default"
MCConnecting == {"own", "default"}
MCServers    == {"s1", "s2"}
MCNoServer   == "none"
MCOwnServer  == [s \in MCStates |-> IF s = "own" THEN "s1" ELSE "none"]
MCDefault    == "s2"

\* One publication of the higher quality of service, or two of the lower.
MCPlans == {<<2>>, <<1, 1>>}

=============================================================================
