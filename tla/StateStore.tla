----------------------------- MODULE StateStore -----------------------------
(***************************************************************************)
(* What the managed-state repository promises to the daemon: one register  *)
(* that is replaced as a whole, erased as a whole, and that a restart of   *)
(* the machine may take back to an earlier whole value when the last       *)
(* change had not reached the flash yet.  SessionStateRepository           *)
(* (include/openomada/persistence/session_state_repository.hpp) is the     *)
(* interface; StateRepository is shown to implement this module.           *)
(***************************************************************************)
CONSTANTS
  Values,   \* managed states that save() accepts
  Initial   \* what the register may hold before the agent ever ran

VARIABLES
  val,      \* the value load() sees
  stable    \* the values a power loss may leave in the register

Init ==
  /\ val \in Initial
  /\ stable = {val}

(* save(): the new value is visible at once, durable perhaps only later.   *)
Replace(s) ==
  /\ val' = s
  /\ stable' = stable \cup {s}

(* clear(): the register is empty at once, durably so perhaps only later.  *)
Erase(absent) ==
  /\ val' = absent
  /\ stable' = stable \cup {absent}

(* The pending changes reach the flash.                                    *)
Settle ==
  /\ stable' = {val}
  /\ UNCHANGED val

(* A power loss keeps one of the values that could have been on the flash. *)
Recover ==
  \E c \in stable :
    /\ val' = c
    /\ stable' = {c}

CONSTANT NoFile  \* the empty register

Next ==
  \/ \E s \in Values : Replace(s)
  \/ Erase(NoFile)
  \/ Settle
  \/ Recover

Spec == Init /\ [][Next]_<<val, stable>>
=============================================================================
