---------------------------- MODULE MCQuarantine ----------------------------
(* Instances of Quarantine for TLC.                                        *)
EXTENDS Quarantine, TLC

CONSTANTS p1, p2, f1, f2, f3, i1, w1, w2

TwoFiles == (p1 :> f1) @@ (p2 :> f2)

OneApp  == [w \in Worker |-> i1]

NoEvents == [k \in Kind |-> 0]

(* one command at a time, one application: every kind of disturbance       *)
OneCommand  == [NoEvents EXCEPT !["scan"] = 1, !["reap"] = 2, !["crash"] = 1, !["edit"] = 1, !["fault"] = 1]
(* Two commands at a time: two reaps with restores and purges, or one and
   restores, purges and sweeps that race for its batch around a restart,
   while the volume comes and goes.                                        *)
TwoCommands == [NoEvents EXCEPT !["scan"] = 1, !["reap"] = 2, !["ttl"] = 1, !["crash"] = 1, !["unplug"] = 1]

Undisturbed == \A k \in {"ttl", "crash", "unplug"} : spent[k] = 0

OneReapIfDisturbed == spent["reap"] <= 1 \/ Undisturbed

(* a second scan after a restart                                           *)
Restart     == [NoEvents EXCEPT !["scan"] = 2, !["reap"] = 2, !["crash"] = 1]

(* a second reap of the same session                                       *)
TwoReaps    == [NoEvents EXCEPT !["scan"] = 1, !["reap"] = 2]

(* the two files are interchangeable, each together with its path          *)
Swap == {(p1 :> p2) @@ (p2 :> p1) @@ (f1 :> f2) @@ (f2 :> f1)}
=============================================================================
