------------------------------ MODULE Following ------------------------------
(***************************************************************************)
(* What a fleet promises its application: the other devices follow their   *)
(* master on its path through the states.  Each of them may pass over      *)
(* states and hear of one twice, but it wants no state that the master     *)
(* was not in, and never goes back on the path; only a device that starts  *)
(* again is in the initial state, until it hears of the next one.          *)
(***************************************************************************)
EXTENDS Naturals, Sequences

CONSTANTS Followers, States, InitialState, Changes

VARIABLES
  path,      \* the states of the master, the present one last
  place,     \* follower -> the place on the path that it heard of last
  wanted,
  entered

Init ==
  /\ path = <<InitialState>>
  /\ place = [f \in Followers |-> 1]
  /\ wanted = [f \in Followers |-> InitialState]
  /\ entered = [f \in Followers |-> InitialState]

Lead(s) ==
  /\ <<path[Len(path)], s>> \in Changes
  /\ path' = Append(path, s)
  /\ UNCHANGED <<place, wanted, entered>>

Hear(f) ==
  /\ \E i \in place[f] .. Len(path) :
       /\ place' = [place EXCEPT ![f] = i]
       /\ wanted' = [wanted EXCEPT ![f] = path[i]]
  /\ UNCHANGED <<path, entered>>

Enter(f) ==
  /\ entered' = [entered EXCEPT ![f] = wanted[f]]
  /\ UNCHANGED <<path, place, wanted>>

StartAgain(f) ==
  /\ wanted' = [wanted EXCEPT ![f] = InitialState]
  /\ entered' = [entered EXCEPT ![f] = InitialState]
  /\ UNCHANGED <<path, place>>

Next ==
  \/ \E s \in States : Lead(s)
  \/ \E f \in Followers : Hear(f) \/ Enter(f) \/ StartAgain(f)

Spec == Init /\ [][Next]_<<path, place, wanted, entered>>

=============================================================================
