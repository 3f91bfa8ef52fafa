---------------------------- MODULE MCDuplicates ----------------------------
(* Instances of Duplicates for TLC.                                        *)
EXTENDS Duplicates, TLC

CONSTANTS p1, p2, p3, x, y, z

(* x and y differ only between head and tail; z has the size of x but
   another head                                                            *)
Sizes   == (x :> 1) @@ (y :> 1) @@ (z :> 1)
EdgesOf == (x :> "xy") @@ (y :> "xy") @@ (z :> "z")
Volumes == (p1 :> "C") @@ (p2 :> "C") @@ (p3 :> "D")

(* two scans, the second with what the first left in the cache; an edit;
   a file left out, a failing read or a cancellation                       *)
TwoScans == [k \in Kind |-> IF k = "scan" THEN 2 ELSE 1]
Rescan   == [k \in Kind |-> CASE k = "scan" -> 2 [] k = "edit" -> 1 [] OTHER -> 0]
=============================================================================
