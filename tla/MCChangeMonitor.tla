-------------------------- MODULE MCChangeMonitor --------------------------
(* Instances of ChangeMonitor for TLC.                                     *)
EXTENDS ChangeMonitor

CONSTANTS f1, f2

(* one file in the root, beside the folder of the quarantine or another    *)
SmallVolumes ==
  {[disk    |-> [f \in File |-> IF f = f1 THEN [dir |-> Root, name |-> "a", ver |-> 1] ELSE None],
    folders |-> [d \in Folder |-> n]] : n \in {"sub", Service}}
=============================================================================
