---------------------------- MODULE VolumeSurvey ----------------------------
(***************************************************************************)
(* One scan from the disks to the numbers on the screen (scan_runtime.rs): *)
(* VolumeScan hands over batches, these are numbered, indexed, categorised *)
(* and added to the live totals; then whole folders are offered, group by  *)
(* group; later the user may change the settings. A batch is taken in one  *)
(* step: what the user does inside one, a second session and the cascade   *)
(* of duplicates are ScanSession's, and duplicates are switched off here.  *)
(***************************************************************************)
EXTENDS VolumeScan, FolderUnits, MemoryIndex

(* settings count files and folders                                        *)
ASSUME SettingsOK == \A w \in World : {w.settings.sparse, w.settings.deep} \subseteq Nat

VARIABLES
  farm,      (* the settings the records were last judged by               *)
  index,     (* InMemoryIndex                                              *)
  live,      (* LiveTotals: per candidate its categories, size, decision   *)
  next,      (* next_global_id                                             *)
  phase,     (* scanning, publishing, done, judged again                   *)
  groups     (* groups of folders not yet published                        *)

survey == <<farm, index, live, next, phase, groups>>
vars == <<scanVars, survey>>

-----------------------------------------------------------------------------
(* LiveTotals::upsert_contribution for each record with categories (cats); no
   two have one id                                                         *)
Ingest(totals, recs, cats) ==
  LET filed == {r \in Range(recs) : cats[r] # {}} IN
  [id \in DOMAIN totals \cup {r.id : r \in filed} |->
     IF \A r \in filed : r.id # id THEN totals[id]
     ELSE LET r == CHOOSE x \in filed : x.id = id IN
          [cats |-> cats[r] \cup IF id \in DOMAIN totals THEN totals[id].cats ELSE {},
           size |-> r.size, decision |-> r.decision]]

(* ingest_hits: all the answers, not only the first                        *)
IngestHits(totals, recs) ==
  Ingest(totals, recs, [r \in Range(recs) |-> Range(Hits(farm, r))])

IngestPrimary(totals, recs) ==
  Ingest(totals, recs, [r \in Range(recs) |-> {r.cat} \ {"none"}])

Numbered(recs) == [k \in DOMAIN recs |-> [recs[k] EXCEPT !.id = <<"file", next + k - 1>>]]

(* on_batch                                                                *)
OnBatch ==
  /\ Called
  /\ Return
  /\ next' = next + Len(hand)
  /\ \E recs \in {Numbered(hand)} :
       /\ \E judged \in {Categorised(farm, recs)} :
            index' \in {UpsertBatch(InsertBatch(index, recs), judged)}
       /\ live' \in {IngestHits(live, recs)}
  /\ UNCHANGED <<farm, phase, groups>>

Over == at \in {"ended", "failed"} /\ ~Called

(* session_cancelled: of a failed session only the token tells             *)
Cancelled == IF at = "ended" THEN cut ELSE stopped

(* The folders are looked for in what the session has left, failed or not,
   unless it was stopped.                                                  *)
Analyse ==
  /\ phase = "scanning" /\ Over
  /\ IF Cancelled \/ stopped
     THEN phase' = "done" /\ UNCHANGED groups
     ELSE phase' = "publishing" /\ groups' \in {FolderGroups(dirs, GetAll(index), farm)}
  /\ UNCHANGED <<scanVars, farm, index, live, next>>

(* flush: the order of the units in a group is of no consequence           *)
Publish ==
  /\ phase = "publishing"
  /\ \/ /\ groups # <<>>
        /\ \E units \in {SetToSeq(Head(groups))} :
             /\ live' \in {IngestPrimary(live, units)}
             /\ index' \in {UpsertBatch(index, units)}
        /\ groups' = Tail(groups)
        /\ UNCHANGED phase
     \/ /\ groups = <<>>
        /\ phase' = "done"
        /\ UNCHANGED <<live, index, groups>>
  /\ UNCHANGED <<scanVars, farm, next>>

Kept(r) ==
  [x \in Range(GetAll(index)) |-> IF x.id = r.id THEN [x EXCEPT !.decision = "keep"] ELSE x]

(* faulty variant: the totals are not told                                 *)
DecideQuietly(r) ==
  /\ index' = ForEach(index, Kept(r))
  /\ UNCHANGED live

(* apply_decision_hot, LiveTotals::set_decision                            *)
Decide(r) ==
  /\ index' = ForEach(index, Kept(r))
  /\ live' = [id \in DOMAIN live |->
                IF id = r.id THEN [live[id] EXCEPT !.decision = "keep"] ELSE live[id]]

(* The user keeps a candidate, one (bound).                                *)
Keep ==
  /\ ~Called
  /\ \A k \in DOMAIN index.recs : index.recs[k].decision # "keep"
  /\ \E r \in Range(GetAll(index)) : r.cat # "none" /\ Decide(r)
  /\ UNCHANGED <<scanVars, farm, next, phase, groups>>

(* apply_settings, once the session is over (bound: once)                  *)
ApplySettings ==
  /\ phase = "done"
  /\ phase' = "judged again"
  /\ \E s \in world.later :
       /\ farm' = s
       /\ index' = ForEach(index, [r \in Range(GetAll(index)) |-> Judged(s, r, TRUE)])
       /\ live' = IngestPrimary(<<>>, GetAll(index'))
  /\ UNCHANGED <<scanVars, next, groups>>

-----------------------------------------------------------------------------
Init ==
  /\ ScanInit
  /\ farm = world.settings
  /\ index = EmptyIndex /\ live = <<>> /\ next = 0
  /\ phase = IF at = "refused" THEN "done" ELSE "scanning"
  /\ groups = <<>>

Scanner == (SessionStep \/ \E w \in Worker : WorkerStep(w)) /\ UNCHANGED survey

User == (Stop /\ UNCHANGED survey) \/ Keep \/ ApplySettings

Next == Scanner \/ OnBatch \/ Analyse \/ Publish \/ User

Spec == Init /\ [][Next]_vars

(* The session's thread and those of a walk run on; nobody stops a scan,
   decides or changes settings because he must, and no read has to fail.   *)
Fairness ==
  /\ WF_vars(SessionStep /\ UNCHANGED survey)
  /\ WF_vars(OnBatch \/ Analyse \/ Publish)
  /\ \A w \in Worker : WF_vars(WorkerStep(w) /\ UNCHANGED survey)

FairSpec == Spec /\ Fairness

-----------------------------------------------------------------------------
Files == {r \in Range(GetAll(index)) : IsFile(r)}

Units == Range(GetAll(index)) \ Files

(* Whatever the threads of a walk, the reads of a table, a stop or an error
   do, the index has nothing but what is on the disks and is not excluded,
   nothing twice, and every candidate has an id of its own; after a session
   that ran to its end it lacks nothing but what lies deeper than a path is
   followed (a unit of folders may stand in the place of a file of the same
   path). walk.rs:270-418, pipeline.rs:63-140, scan_runtime.rs:1174-1192.  *)
ScanDelivers ==
  /\ \A k, l \in DOMAIN index.recs : k # l =>
       index.recs[k].id # index.recs[l].id /\ PathAt(index, index.recs[k]) # PathAt(index, index.recs[l])
  /\ {[path |-> r.path, size |-> r.size, changed |-> r.changed] : r \in Files} \subseteq All
  /\ Over /\ at = "ended" /\ ~cut =>
       {f.path : f \in {g \in All : Len(g.path) <= MaxDepth + 2}}
         \subseteq {r.path : r \in Range(GetAll(index))}

(* A folder is offered as empty only if no file to be found lies anywhere
   below it, as far as a path is followed; a folder of a project as safe to
   delete only if nobody has worked on the project lately. After a failed
   session, whose folders are known while its files are not, this does not
   hold: the pass runs all the same (scan_runtime.rs:1247-1252). And units
   of one kind never lie in one another. empty_folders.rs:107,
   node_modules.rs:231, build_artifacts.rs:310, unity.rs:290.              *)
UnitsTrue ==
  /\ at # "failed" /\ phase # "judged again" =>
       \E found \in {{f \in All : Len(f.path) <= MaxDepth + 2}} : \A u \in Units :
         /\ u.cat = "empty_folders" =>
              \A f \in found : Under(f.path, u.path) => Name(f.path) \in Ignorable
         /\ u.safety = "safe" =>
              \A f \in found : /\ Under(f.path, Folder(u.path)) /\ f.changed # 0
                               /\ ~ThroughArtifact(f.path, Folder(u.path))
                               => Age(f.changed) >= InactiveDays
  /\ \A u, w \in Units : u # w /\ u.id[1] = w.id[1] => ~Under(w.path, u.path)

(* A unit frees no more than the files below it take, and all that those of
   them take which no other unit has replaced, the user does not keep and
   Windows does not put there. empty_folders.rs:143, node_modules.rs:231,
   build_artifacts.rs:310, unity.rs:290.                                   *)
UnitsFree ==
  phase # "judged again" =>
  \E found \in {All} : \A u \in Units :
    LET below == {r \in Files : Under(r.path, u.path) /\ r.path # u.path}
        kept  == {r \in below : r.decision = "keep" \/ Name(r.path) \in Ignorable}
        there == {f \in found : Under(f.path, u.path)}
    IN {f \in found : f.path = u.path} = {} =>
         /\ u.size <= MapThenSumSet(LAMBDA f : f.size, there)
         /\ u.size >= MapThenSumSet(LAMBDA r : r.size, below \ kept)

(* What a record is to be filed under: the first answer of the detectors
   under the settings last applied, and for a folder what it was offered as
   until the settings change.                                              *)
Due(r) ==
  IF IsFile(r) \/ phase = "judged again"
  THEN IF Hits(farm, r) = <<>> THEN "none" ELSE Head(Hits(farm, r))
  ELSE IF r.id[1] \in DOMAIN CategoryOf THEN CategoryOf[r.id[1]] ELSE "dev_artifacts"

(* Every step leaves the records the user does not keep filed as is due,
   and those he keeps as they were: batches that are categorised and put
   back by path, units put in place of records, a change of settings.
   orchestrator.rs:112-151 and 230-285, index-memory lib.rs:674-745.       *)
CategoriesFollow ==
  [][/\ \A r \in Range(GetAll(index))' : r.decision # "keep" => r.cat = Due(r)'
     /\ \A k \in DOMAIN GetAll(index) :
          LET old == GetAll(index)[k] new == GetAll(index)'[k] IN
          old.decision = "keep" /\ new.id = old.id => new = old]_vars

(* The numbers on the screen are those of the index: the same candidates,
   with the same sizes, none of them kept. (Where one unit replaces another,
   or a file, of the same path, the totals keep both.) The code compares the
   two after a scan and logs a difference. aggregator.rs:78-140,
   scan_runtime.rs:1288-1316.                                              *)
TotalsTrue ==
  LET shown   == {id \in DOMAIN live : live[id].decision # "keep"}
      offered == {r \in Range(GetAll(index)) : r.cat # "none" /\ r.decision # "keep"}
      ids     == {r.id : r \in Range(GetAll(index))}
      covered == {u.path : u \in Units}
      displaced == {id \in DOMAIN live \ ids :
                      IF id[1] = "file" THEN covered \cap {f.path : f \in All} # {}
                      ELSE id[2] \in covered}
  IN /\ \A r \in offered : r.id \in shown /\ live[r.id].size = r.size
     /\ shown \subseteq {r.id : r \in offered} \cup displaced

(* A scan ends, stopped, failed or done: no thread of a walk waits for ever
   for another. walk.rs:270-300.                                           *)
SurveyEnds == <>(phase = "done")
=============================================================================
