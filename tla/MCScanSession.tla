--------------------------- MODULE MCScanSession ---------------------------
(* Instances of ScanSession for TLC.                                       *)
EXTENDS ScanSession, TLC

CONSTANTS s1, s2, p1, p2, f1, u1, u2

(* two copies of one file                                                  *)
Copies  == (p1 :> "a") @@ (p2 :> "a")

(* a nearly empty folder of a project, which both kinds of detectors find  *)
SameFolder == [u \in Unit |-> f1]
OwnFinder  == [u \in Unit |-> IF u = u1 THEN 1 ELSE 2]

(* "low" thresholds claim p1 twice, "high" ones nothing; "bad" names a
   threshold that no detector has                                          *)
Claims ==
  [s \in {"low", "high", "bad"} |->
     (p1 :> IF s = "low" THEN <<"large", "old">> ELSE <<>>) @@ (p2 :> <<>>) @@ (f1 :> <<>>)]

(* Calls of scan.start are told apart by nothing but their order, so that the
   second one to begin may as well be s2.                                  *)
InOrder == pc'[s2] # "new" => pc[s1] # "new"
=============================================================================
