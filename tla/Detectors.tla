----------------------------- MODULE Detectors -----------------------------
(***************************************************************************)
(* The farm of predicate detectors (app/src/detectors) and the             *)
(* orchestrator that runs it over records (orchestrator.rs): what each     *)
(* says of one record, which answer becomes its category, and what a       *)
(* recalculation takes back. Sizes and dates keep their order only, a date *)
(* of 0 is one the file system did not give.                               *)
(***************************************************************************)
EXTENDS Paths

CONSTANTS
  Kind,        (* what the extensions of names say, unless "other"         *)
  Today,
  Downloads,   (* names of folders for downloads                           *)
  TempRoots,   (* known-locations.json: places for temporary files         *)
  CacheRoots   (* known-locations.json: caches, with their safety          *)

ASSUME TodayOK == Today \in Nat

(* mvp_predicate_registry, then the two that know locations: this order
   decides which of several answers is the category                        *)
Farm == <<"large_files", "old_files", "forgotten_videos", "archives", "installers",
          "temp_files", "app_caches">>

(* FileKind::from_path                                                     *)
KindOf(path) == IF Name(path) \in DOMAIN Kind THEN Kind[Name(path)] ELSE "other"

(* the last access, or else the last change                                *)
Date(r) == IF r.used # 0 THEN r.used ELSE r.changed

Age(ts) == IF ts >= Today THEN 0 ELSE Today - ts

OlderThan(r, days) == Date(r) # 0 /\ Age(Date(r)) >= days

IsDownloads(path) == \E k \in DOMAIN path : path[k] \in Downloads

(* the most specific cache a path lies in                                  *)
CacheOf(path) ==
  LET roots == {root \in DOMAIN CacheRoots : Under(path, root)} IN
  CHOOSE root \in roots : \A other \in roots : Len(other) <= Len(root)

IsFile(r) == r.unit = "file"

LargeFiles(s, r) == IsFile(r) /\ r.size >= s.large

OldFiles(s, r) == IsFile(r) /\ OlderThan(r, s.old)

ForgottenVideos(s, r) ==
  /\ IsFile(r) /\ KindOf(r.path) = "video"
  /\ r.size >= s.video /\ OlderThan(r, s.forgotten)

Archives(s, r) == IsFile(r) /\ KindOf(r.path) = "archive" /\ r.size >= s.archive

(* images of disks anywhere, other installers where they were downloaded   *)
Installers(r) ==
  IsFile(r) /\ (KindOf(r.path) = "image" \/ (KindOf(r.path) = "installer" /\ IsDownloads(r.path)))

TempFiles(r) == IsFile(r) /\ Excluded(r.path, TempRoots)

(* a file in a cache, or the folder of the cache itself                    *)
AppCaches(r) == Excluded(r.path, DOMAIN CacheRoots) /\ (IsFile(r) \/ r.path = CacheOf(r.path))

Finds(s, r) ==
  [large_files |-> LargeFiles(s, r), old_files |-> OldFiles(s, r),
   forgotten_videos |-> ForgottenVideos(s, r), archives |-> Archives(s, r),
   installers |-> Installers(r), temp_files |-> TempFiles(r), app_caches |-> AppCaches(r)]

Safety(detector, r) ==
  CASE detector = "temp_files" -> "safe"
    [] detector = "app_caches" -> CacheRoots[CacheOf(r.path)]
    [] OTHER                   -> "review"

(* evaluate_record: the answers of the detectors that are switched on (the
   one member of a set, so that TLC works it out once)                     *)
Hits(s, r) ==
  CHOOSE hits \in {Only(Farm, {d \in s.enabled : finds[d]}) : finds \in {Finds(s, r)}} : TRUE

Primary(r, detector) == [r EXCEPT !.cat = detector, !.safety = Safety(detector, r)]

Cleared(r) == [r EXCEPT !.cat = "none", !.safety = "review"]

(* faulty variant: what the user keeps is judged again                     *)
JudgedKept(s, r, clear) ==
  LET hits == Hits(s, r) IN
  IF hits # <<>> THEN Primary(r, Head(hits))
  ELSE IF clear /\ r.cat # "duplicates" THEN Cleared(r) ELSE r

(* What the user keeps is left alone. Without an answer a recalculation
   clears the category, except that of a duplicate, which is no detector's.*)
Judged(s, r, clear) ==
  LET hits == Hits(s, r) IN
  IF r.decision = "keep" THEN r
  ELSE IF hits # <<>> THEN Primary(r, Head(hits))
  ELSE IF clear /\ r.cat \notin {"none", "duplicates"} THEN Cleared(r)
  ELSE r

(* categorize_batch: the records it would change                           *)
Categorised(s, batch) ==
  LET judged == [k \in DOMAIN batch |-> Judged(s, batch[k], FALSE)]
  IN Only(judged, Range(judged) \ Range(batch))
=============================================================================
