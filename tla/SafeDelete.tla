----------------------------- MODULE SafeDelete -----------------------------
(***************************************************************************)
(* What TrashRadar promises about the user's files (docs/architecture.md,  *)
(* decision D4 and section 8): deletion has two phases. The application    *)
(* only ever moves a file aside, brings it back, or erases one it had      *)
(* moved aside; a file that is still in its place goes away only by the    *)
(* user's own hand.                                                        *)
(***************************************************************************)
CONSTANT File

VARIABLE state   (* what has become of each file *)

State == {"unborn", "live", "held", "deleted", "purged"}

Become(f, from, to) == state[f] = from /\ state' = [state EXCEPT ![f] = to]

(* the user's own work *)
Create(f) == Become(f, "unborn", "live")
Delete(f) == Become(f, "live", "deleted")
Overwrite(old, new) ==
  /\ state[old] = "live"
  /\ state[new] = "unborn"
  /\ state' = [state EXCEPT ![old] = "deleted", ![new] = "live"]

(* the application's *)
Reap(f)    == Become(f, "live", "held")
Restore(f) == Become(f, "held", "live")
Purge(f)   == Become(f, "held", "purged")

Init == state \in [File -> {"unborn", "live"}]

Next ==
  \/ \E f \in File : Create(f) \/ Delete(f) \/ Reap(f) \/ Restore(f) \/ Purge(f)
  \/ \E old, new \in File : Overwrite(old, new)

Spec == Init /\ [][Next]_state
=============================================================================
