------------------------------ MODULE MCFleet ------------------------------
(***************************************************************************)
(* The states of a small sketch, which a master goes through one by one.   *)
(***************************************************************************)
EXTENDS Fleet

MCStates  == {"idle", "ready", "play"}
MCInitial == "idle"
MCChanges == {<<"idle", "ready">>, <<"ready", "play">>}

=============================================================================
