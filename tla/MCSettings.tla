----------------------------- MODULE MCSettings -----------------------------
(* Instances of Settings for TLC.                                          *)
EXTENDS Settings, TLC

Builtin == [plan |-> "month", threshold |-> "high", alien |-> FALSE]

(* one that cannot be read, one of the former version with a hand-written
   threshold; a missing one reads as the first and comes about by RemoveFile *)
Profiles ==
  {[form |-> "foreign", value |-> Builtin],
   [form |-> "old", value |-> [Builtin EXCEPT !.threshold = "low", !.alien = TRUE]]}

=============================================================================
