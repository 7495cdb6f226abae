----------------------------- MODULE Lifecycle ------------------------------
(***************************************************************************)
(* The life cycle graph of a controller session (lifecycle/session.cpp):   *)
(* ControllerSession::transition moves along can_transition only.  The     *)
(* daemon does not call it; Daemon is shown to follow it all the same.     *)
(***************************************************************************)
VARIABLE state

LifecycleState ==
  {"disconnected", "discovering", "adopting", "verifying", "negotiating",
   "managed", "rebuilding"}

Successors ==
  [disconnected |-> {"discovering", "rebuilding"},
   discovering  |-> {"adopting", "disconnected"},
   adopting     |-> {"verifying", "disconnected"},
   verifying    |-> {"negotiating", "disconnected"},
   negotiating  |-> {"managed", "disconnected"},
   managed      |-> {"rebuilding", "disconnected"},
   rebuilding   |-> {"verifying", "discovering", "disconnected"}]

can_transition(from, to) == to \in Successors[from]

Init == state = "disconnected"

transition(target) ==
  /\ can_transition(state, target)
  /\ state' = target

Next == \E target \in LifecycleState : transition(target)

Spec == Init /\ [][Next]_state
=============================================================================
