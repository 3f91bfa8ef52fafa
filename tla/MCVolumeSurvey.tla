--------------------------- MODULE MCVolumeSurvey ---------------------------
(* Instances of VolumeSurvey for TLC: small disks that hold one of each     *)
(* thing a scan treats apart.                                               *)
EXTENDS VolumeSurvey

Kinds == [n \in {"a.zip", "s.exe", "v.mkv"} |->
            CASE n = "a.zip" -> "archive" [] n = "s.exe" -> "installer" [] OTHER -> "video"]

Temporary == {<<"C", "Temp">>}

Caches == [root \in {<<"C", "cache">>} |-> "safe"]

Entry(name, parent, kind, state, size, changed) ==
  [name |-> name, parent |-> parent, kind |-> kind, state |-> state, size |-> size,
   used |-> 0, changed |-> changed]

F(name, parent, size, changed) == Entry(name, parent, "file", "ok", size, changed)

D(name, parent) == Entry(name, parent, "folder", "ok", 0, 0)

Strict ==
  [enabled |-> Range(Farm), large |-> 5, old |-> 80, video |-> 2, forgotten |-> 40, archive |-> 1,
   sparse |-> 1, deep |-> 2, dev |-> TRUE]

(* fewer detectors, and another idea of what is large                      *)
Lax == [Strict EXCEPT !.enabled = {"large_files", "app_caches"}, !.large = 8]

Asking(letters, excluded, elevated, disk) ==
  [asked |-> letters, barred |-> {"E"}, excluded |-> excluded, ntfs |-> {"C"},
   elevated |-> elevated, settings |-> Strict, later |-> {Lax, Strict}, disk |-> disk]

(* walked: a project, and folders that are excluded, sealed, elsewhere     *)
Tree ==
  <<D("proj", 0), F("package.json", 1, 1, 30), D("node_modules", 1), D("m", 3), F("x", 4, 6, 99),
    D("Windows", 0), F("w", 6, 9, 99),
    Entry("link", 0, "junction", "ok", 0, 0),
    Entry("cloud", 0, "cloud", "ok", 0, 0), F("far", 9, 3, 99),
    Entry("sealed", 0, "folder", "sealed", 0, 0), F("s", 11, 3, 99),
    D("Temp", 0), F("desktop.ini", 13, 1, 99), F("y", 4, 1, 99), F("dist", 4, 2, 99), F("package.json", 4, 1, 99)>>

(* by its table: a project worked on, a folder named after an artifact, a
   file named like one, and records that lead nowhere or in a circle       *)
Records ==
  <<D("proj", 0), F("package.json", 1, 1, 99), D("dist", 1), F("a.zip", 3, 2, 10),
    Entry("lost", 1, "folder", "corrupt", 0, 0), F("y", 5, 7, 99),
    Entry("$Bitmap", 0, "metafile", "ok", 5, 99), F("dist", 10, 2, 99),
    F("package.json", 10, 1, 10), D("old", 0), D("mine", 0), F("z", 11, 8, 99),
    Entry("gone", 0, "file", "free", 6, 99), D("bare", 0), F("b", 14, 1, 1),
    D("loop", 17), D("pool", 16), F("l", 17, 6, 99), D("cache", 0), F("k", 19, 1, 99)>>

(* walked: no more than a few                                              *)
Second == <<D("Downloads", 0), F("s.exe", 1, 4, 99), D("p", 0), D("q", 3), F("v.mkv", 4, 3, 20)>>

SmallWorlds ==
  {Asking(<<"C">>, {}, FALSE, [C |-> Tree]),
   Asking(<<"C">>, {<<"C", "mine">>}, TRUE, [C |-> Records]),
   Asking(<<"C", "D", "C", "E">>, {<<"C", "mine">>}, TRUE, [C |-> Records, D |-> Second]),
   Asking(<<"C", "D">>, {<<"D">>}, FALSE, [C |-> Second, D |-> Second]),
   Asking(<<"E">>, {}, FALSE, [C |-> <<>>])}
=============================================================================
