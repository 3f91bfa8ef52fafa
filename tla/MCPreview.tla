----------------------------- MODULE MCPreview -----------------------------
(***************************************************************************)
(* Instances of Preview for TLC.                                           *)
(***************************************************************************)
EXTENDS Preview, TLC

CONSTANTS w1, w2

(* the workers are interchangeable                                         *)
Threads == Permutations({w1, w2})
=============================================================================
