--------------------------- MODULE ChangeMonitor ---------------------------
(***************************************************************************)
(* The change monitor (app/src/change_monitor.rs): a thread that follows   *)
(* the USN journal of an NTFS volume and keeps the hot index and the       *)
(* persistent rows equal to what is on the disk. A tick reads a delta from *)
(* the saved cursor (infra/scan-usn), plans mutations from it              *)
(* (app/src/usn_apply.rs), applies them to the index, removes rows, and    *)
(* saves the new cursor; a journal that no longer holds the cursor makes   *)
(* it ask for a full scan (app/src/usn_fallback.rs). Between any two steps *)
(* the user may change the volume.                                         *)
(***************************************************************************)
EXTENDS Integers, Sequences, SequencesExt, FiniteSets, FiniteSetsExt

CONSTANTS
  File,        (* MFT record numbers of files                              *)
  Folder,      (* and of folders in the root                               *)
  Root,        (* the record of the root                                   *)
  FileName,
  FolderName,
  Service,     (* the folder name that keeps the quarantine                *)
  None,
  Volumes,     (* what disk and folders may hold at the start              *)
  Chunk,       (* how many records one FSCTL_READ_USN_JOURNAL returns      *)
  MaxVersion,  (* bound: contents a file goes through                      *)
  MaxRecords,  (* bound: the journal stops growing at this length          *)
  MaxFaults    (* bound: failing calls, losses of journal records and      *)
               (* restarts, together                                       *)

Ref      == File \cup Folder \cup {Root}
FilePath == {<<n>> : n \in FileName} \cup (FolderName \X FileName)
Path     == {<<>>} \cup {<<n>> : n \in FolderName} \cup FilePath
Version  == 1 .. MaxVersion

(* a record that was made although the file could not be probed            *)
Empty == 0

Content == Version \cup {None, Empty}
Entry   == [dir : Folder \cup {Root}, name : FileName, ver : Version]
Cursors == [jid : 1 .. MaxFaults + 1, next : 0 .. MaxRecords + 2]

ASSUME MonitorConstantsOK ==
  /\ Root \notin File \cup Folder /\ File \cap Folder = {}
  /\ FileName \cap FolderName = {} /\ Service \in FolderName
  /\ Chunk \in Nat \ {0} /\ MaxVersion \in Nat \ {0}
  /\ {MaxRecords, MaxFaults} \subseteq Nat

(* None is none of the values it may stand for                             *)
ASSUME NoneOK ==
  None \notin File \cup Folder \cup FileName \cup FolderName \cup Path \cup Version \cup {Empty}
            \cup Entry \cup Cursors \cup [Path -> Content]

(* No two folders have one name, no two files in one folder, and every file
   is in a folder.                                                         *)
ASSUME VolumesOK ==
  \A v \in Volumes :
    LET exists(f)  == v.disk[f] # None
        there(d)   == d = Root \/ v.folders[d] # None
        same(f, g) == v.disk[f].dir = v.disk[g].dir /\ v.disk[f].name = v.disk[g].name
    IN
    /\ v.disk \in [File -> {None} \cup Entry]
    /\ v.folders \in [Folder -> FolderName \cup {None}]
    /\ \A d, e \in Folder : v.folders[d] # None /\ v.folders[d] = v.folders[e] => d = e
    /\ \A f \in File : exists(f) => there(v.disk[f].dir)
    /\ \A f, g \in File : exists(f) /\ exists(g) /\ same(f, g) => f = g

VARIABLES
  disk,     (* external: per file its folder, name and content, or None    *)
  folders,  (* external: the name of each folder, or None                  *)
  open,     (* external: reasons NTFS has gathered for a file held open    *)
  unread,   (* external: the records of the journal behind the saved       *)
            (* cursor, as nobody reads those before it again               *)
  next,     (* external: the next usn, that is the length of the journal   *)
  low,      (* external: how many of them have been discarded              *)
  jid,      (* external: which journal this is                             *)
  cursor,   (* volume_usn_state: journal and position, or None             *)
  rows,     (* file_records: the persistent index, by path                 *)
  index,    (* the hot index, by path                                      *)
  cache,    (* FrnPathCache: record number to path                         *)
  mon,      (* the monitor's thread: where it is and what it holds         *)
  scan,     (* a full scan: the snapshot it took of the disk, or None      *)
  faults,   (* how many of them so far                                     *)
  ghost,    (* history: paths a delta inserted before it removed them      *)
  doubtful  (* history: paths some change of which was not understood      *)

volume  == <<disk, folders, open, unread, next, low, jid>>
store   == <<cursor, rows>>
history == <<ghost, doubtful>>
vars    == <<volume, store, index, cache, mon, scan, faults, history>>

-----------------------------------------------------------------------------
(* Paths and what is on the disk.                                          *)

(* is_under_service_directory                                              *)
Quarantined(p) == p # <<>> /\ p[1] = Service

(* join_child onto a parent that may be unknown                            *)
Child(parent, name) == IF parent = None THEN None ELSE Append(parent, name)

FolderPath(d) ==
  CASE d = Root -> <<>>
    [] d # Root /\ folders[d] = None -> None
    [] OTHER -> <<folders[d]>>
PathOf(f)     == Append(FolderPath(disk[f].dir), disk[f].name)
At(p)         == {f \in File : disk[f] # None /\ PathOf(f) = p}

(* the probe: the content found at a path, or None                         *)
Probe(p) == IF At(p) = {} THEN None ELSE disk[CHOOSE f \in At(p) : TRUE].ver

(* what the index should say of a path                                     *)
Found(p) == IF Quarantined(p) THEN None ELSE Probe(p)

-----------------------------------------------------------------------------
(* The user and the journal (external). Reasons gather until the file is   *)
(* closed; a rename leaves a record with the old name and one with the new *)
(* one.                                                                    *)

Record(ref, why, parent, name, at) ==
  [ref |-> ref, why |-> why, parent |-> parent, name |-> name, at |-> at]

(* NTFS appends to the journal                                             *)
Write(recs) ==
  /\ next < MaxRecords
  /\ next' = next + Len(recs)
  /\ unread' = IF cursor = None THEN <<>> ELSE unread \o recs

(* one operation on a file; what is not a creation closes it               *)
Log(recs, f) ==
  /\ Write(recs)
  /\ open' = [open EXCEPT ![f] = IF "close" \in Last(recs).why THEN {} ELSE Last(recs).why]

Fault == faults < MaxFaults /\ faults' = faults + 1

Crossed(paths) == IF scan = None THEN {} ELSE paths

UserFile ==
  UNCHANGED <<folders, low, jid, store, index, cache, mon, scan, faults, ghost>>

(* the file stays open until the next operation on it closes it            *)
CreateFile(f, d, n) ==
  /\ disk[f] = None /\ FolderPath(d) # None
  /\ LET p == Append(FolderPath(d), n) IN
     /\ At(p) = {}
     /\ disk' = [disk EXCEPT ![f] = [dir |-> d, name |-> n, ver |-> 1]]
     /\ Log(<<Record(f, {"create"}, d, n, p)>>, f)
     /\ doubtful' = doubtful \cup Crossed({p})
  /\ UserFile

WriteFile(f) ==
  /\ disk[f] # None /\ disk[f].ver < MaxVersion
  /\ disk' = [disk EXCEPT ![f].ver = @ + 1]
  /\ Log(<<Record(f, open[f] \cup {"write", "close"}, disk[f].dir, disk[f].name, PathOf(f))>>, f)
  /\ doubtful' = doubtful \cup Crossed({PathOf(f)})
  /\ UserFile

DeleteFile(f) ==
  /\ disk[f] # None
  /\ disk' = [disk EXCEPT ![f] = None]
  /\ Log(<<Record(f, open[f] \cup {"delete", "close"}, disk[f].dir, disk[f].name, PathOf(f))>>, f)
  /\ doubtful' = doubtful \cup Crossed({PathOf(f)})
  /\ UserFile

MoveFile(f, d, n) ==
  /\ disk[f] # None /\ FolderPath(d) # None
  /\ LET to == Append(FolderPath(d), n) IN
     /\ At(to) = {}
     /\ disk' = [disk EXCEPT ![f].dir = d, ![f].name = n]
     /\ Log(<<Record(f, open[f] \cup {"old"}, disk[f].dir, disk[f].name, PathOf(f)),
              Record(f, open[f] \cup {"new", "close"}, d, n, to)>>, f)
     /\ doubtful' = doubtful \cup Crossed({PathOf(f), to})
  /\ UserFile

UserFolder ==
  UNCHANGED <<disk, open, low, jid, store, index, cache, mon, scan, faults, ghost>>

CreateFolder(d, n) ==
  /\ folders[d] = None /\ \A e \in Folder : folders[e] # n
  /\ folders' = [folders EXCEPT ![d] = n]
  /\ Write(<<Record(d, {"create", "close"}, Root, n, <<n>>)>>)
  /\ UserFolder /\ UNCHANGED doubtful

(* the files below get another path without a record of their own          *)
RenameFolder(d, n) ==
  /\ folders[d] # None /\ \A e \in Folder : folders[e] # n
  /\ folders[d] # Service /\ n # Service
  /\ folders' = [folders EXCEPT ![d] = n]
  /\ Write(<<Record(d, {"old"}, Root, folders[d], <<folders[d]>>),
              Record(d, {"new", "close"}, Root, n, <<n>>)>>)
  /\ doubtful' = doubtful \cup {p \in FilePath : p[1] \in {folders[d], n}}
  /\ UserFolder

RemoveFolder(d) ==
  /\ folders[d] # None /\ \A f \in File : disk[f] # None => disk[f].dir # d
  /\ folders' = [folders EXCEPT ![d] = None]
  /\ Write(<<Record(d, {"delete", "close"}, Root, folders[d], <<folders[d]>>)>>)
  /\ UserFolder /\ UNCHANGED doubtful

(* old records are discarded                                               *)
Discard ==
  /\ low < next
  /\ low' = next
  /\ Fault
  /\ UNCHANGED <<disk, folders, open, unread, next, jid, store, index, cache, mon, scan, history>>

(* the journal is deleted and created anew                                 *)
Recreate ==
  /\ jid' = jid + 1 /\ next' = 0 /\ low' = 0 /\ unread' = <<>>
  /\ Fault
  /\ UNCHANGED <<disk, folders, open, store, index, cache, mon, scan, history>>

-----------------------------------------------------------------------------
(* Planning a delta.                                                       *)

(* classify_usn_reason: the first of these that is among the reasons       *)
Priority == <<"delete", "old", "new", "create", "write">>

Class(why) ==
  LET hits == {k \in DOMAIN Priority : Priority[k] \in why} IN
  IF hits = {} THEN "ignore" ELSE Priority[Min(hits)]

(* seed_volume_root: a new cache knows the root only                       *)
Seeded == [r \in Ref |-> IF r = Root THEN <<>> ELSE None]

(* FrnPathCache::resolve_change_path                                       *)
Resolve(known, c) ==
  IF known[c.ref] # None /\ Class(c.why) # "new" THEN known[c.ref]
  ELSE Child(known[c.parent], c.name)

(* the new name under the folder of the old one, if its folder is unknown  *)
Renamed(s, c) ==
  CASE s.known[c.parent] # None -> Child(s.known[c.parent], c.name)
    [] s.known[c.parent] = None /\ s.old[c.ref] # None -> Append(Front(s.old[c.ref]), c.name)
    [] OTHER -> None

(* s: the plan so far. known: the cache; old: rename records that wait for *)
(* their second half; out, in: paths to remove and to insert; last: those  *)
(* of them removed last (history); odd: paths not understood (history)     *)
Removed(s, p)  == [s EXCEPT !.out = @ \cup {p}, !.last = @ \cup {p}]
Inserted(s, p) == [s EXCEPT !.in = @ \cup {p}, !.last = @ \ {p}]
Learn(s, c, p) == [s EXCEPT !.known[c.ref] = p]

Skip(s, c)     == [s EXCEPT !.odd = @ \cup {c.at}]
Check(s, c, p) == IF p = c.at THEN s ELSE [s EXCEPT !.odd = @ \cup {c.at, p}]

PlanFolder(s, c) ==
  CASE Class(c.why) = "delete" -> Learn(s, c, None)
    [] Class(c.why) = "old" -> [s EXCEPT !.old[c.ref] = Resolve(s.known, c)]
    [] Class(c.why) \in {"new", "create"} ->
         IF Renamed(s, c) = None THEN s
         ELSE LET t == Learn(s, c, Renamed(s, c)) IN
              IF s.known[c.parent] # None THEN t ELSE [t EXCEPT !.old[c.ref] = None]
    [] OTHER -> s

(* mutant: the waiting half is dropped, its path stays                     *)
CompleteForgetting(s, c) == [s EXCEPT !.old[c.ref] = None]

(* the pair of a rename is complete: the old path goes                     *)
Complete(s, c) ==
  IF s.old[c.ref] = None THEN s
  ELSE [Removed(s, s.old[c.ref]) EXCEPT !.old[c.ref] = None]

(* mutant: what arrives in the quarantine is recorded                      *)
ArriveAnywhere(s, c, p) == Inserted(s, p)

Arrive(s, c, p) == IF Quarantined(p) THEN s ELSE Inserted(s, p)

PlanFile(s, c) ==
  LET class == Class(c.why)
      p     == IF class = "new" THEN Renamed(s, c) ELSE Resolve(s.known, c)
      t     == Check(s, c, p)
  IN CASE class = "ignore" -> s
       [] class # "ignore" /\ p = None -> Skip(s, c)
       [] class = "delete" /\ p # None -> Removed(Learn(t, c, None), p)
       [] class = "old" /\ p # None -> [Learn(t, c, None) EXCEPT !.old[c.ref] = p]
       [] class = "new" /\ p # None -> Arrive(Complete(Learn(t, c, p), c), c, p)
       [] class \in {"create", "write"} /\ p # None -> Arrive(Learn(t, c, p), c, p)

PlanOne(s, c) == IF c.ref \in Folder THEN PlanFolder(s, c) ELSE PlanFile(s, c)

Unplanned(known) ==
  [known |-> known, old |-> [r \in Ref |-> None], out |-> {}, in |-> {}, last |-> {}, odd |-> {}]

Planned(known, delta) ==
  LET after[n \in 0 .. Len(delta)] ==
        IF n = 0 THEN Unplanned(known)
        ELSE CHOOSE s \in {PlanOne(b, delta[n]) : b \in {after[n - 1]}} : TRUE
  IN after[Len(delta)]

(* plan_usn_mutations: a rename without its second half is a removal       *)
Plan(known, delta) ==
  LET s    == Planned(known, delta)
      left == {s.old[r] : r \in Ref} \ {None}
  IN [s EXCEPT !.out = @ \cup left, !.last = @ \cup left]

-----------------------------------------------------------------------------
(* The monitor.                                                            *)

Idle == [pc |-> "idle"]

Cursor(j, n) == [jid |-> j, next |-> n]

(* UsnJournalInfo::is_cursor_valid                                         *)
Valid(c) == c.jid = jid /\ c.next >= low

(* a failing call ends the tick with an Error event                        *)
Fail == Fault /\ mon' = Idle

(* mutant: the stale cursor is kept                                        *)
FallBackKeeping ==
  /\ cache' = Seeded /\ mon' = Idle
  /\ UNCHANGED <<volume, store, index, scan, faults, history>>

(* process_usn_sync of a JournalStale outcome                              *)
FallBack ==
  \/ /\ cursor' = None /\ cache' = Seeded /\ mon' = Idle
     /\ unread' = <<>>
     /\ UNCHANGED <<disk, folders, open, next, low, jid, rows, index, scan, faults, history>>
  \/ Fail /\ UNCHANGED <<volume, store, index, cache, scan, history>>

(* A tick looks at the cursor and at the journal. A tick that finds        *)
(* nothing new leaves everything as it is.                                 *)
Query ==
  /\ mon.pc = "idle" /\ cursor # None
  /\ Valid(cursor) /\ cursor.next < next
  /\ mon' = [pc |-> "read", end |-> next, at |-> cursor.next]
  /\ UNCHANGED <<volume, store, index, cache, scan, faults, history>>

QueryStale ==
  /\ mon.pc = "idle" /\ cursor # None
  /\ ~Valid(cursor)
  /\ FallBack

ReadChunk ==
  /\ mon.pc = "read" /\ mon.at < mon.end
  /\ cursor.jid = jid /\ mon.at >= low
  /\ mon' = [mon EXCEPT !.at = Min({@ + Chunk, next})]
  /\ UNCHANGED <<volume, store, index, cache, scan, faults, history>>

(* ERROR_JOURNAL_ENTRY_DELETED                                             *)
ReadDiscarded ==
  /\ mon.pc = "read" /\ mon.at < mon.end
  /\ cursor.jid = jid /\ mon.at < low
  /\ FallBack

(* Any other failing read returns no bytes and only ends the loop: what    *)
(* has been read so far is the delta. An unreadable buffer, and a second   *)
(* query that fails, end the tick.                                         *)
ReadFails ==
  /\ mon.pc = "read"
  /\ \/ /\ mon.at < mon.end
        /\ mon' = [mon EXCEPT !.end = mon.at]
        /\ IF cursor.jid = jid THEN Fault ELSE UNCHANGED faults
     \/ Fail
  /\ UNCHANGED <<volume, store, index, cache, scan, history>>

(* the journal is queried again, and the delta is planned                  *)
EndRead ==
  /\ mon.pc = "read" /\ mon.at >= mon.end
  /\ cursor.jid = jid
  /\ \E plan \in {Plan(cache, SubSeq(unread, 1, mon.at - cursor.next))} :
     /\ cache' = plan.known
     /\ mon' = [pc |-> "apply", to |-> Cursor(jid, mon.at), out |-> plan.out,
                in |-> [p \in plan.in |-> IF Probe(p) = None THEN Empty ELSE Probe(p)]]
     /\ ghost' = (ghost \ (plan.in \cup plan.out)) \cup (plan.in \cap plan.last)
     /\ doubtful' = doubtful \cup plan.odd
  /\ UNCHANGED <<volume, store, index, scan, faults>>

EndReadStale ==
  /\ mon.pc = "read" /\ mon.at >= mon.end
  /\ cursor.jid # jid
  /\ FallBack

(* apply_mutations_to_hot_index: all removals, then all insertions         *)
ApplyHot ==
  /\ mon.pc = "apply"
  /\ index' = [p \in Path |->
       CASE p \in DOMAIN mon.in -> mon.in[p]
         [] p \in mon.out \ DOMAIN mon.in -> None
         [] OTHER -> index[p]]
  /\ mon' = [mon EXCEPT !.pc = "prune"]
  /\ UNCHANGED <<volume, store, cache, scan, faults, history>>

(* mutant: a removal that fails does not end the tick                      *)
PruneAnyway ==
  /\ mon.pc = "prune"
  /\ mon' = [mon EXCEPT !.pc = "commit"]
  /\ \/ /\ rows' = [p \in Path |-> IF p \in mon.out THEN None ELSE rows[p]]
        /\ UNCHANGED faults
     \/ Fault /\ UNCHANGED rows
  /\ UNCHANGED <<volume, cursor, index, cache, scan, history>>

(* delete_file_records_by_path, one call per path; the first that fails    *)
(* ends the tick before the cursor is saved                                *)
Prune ==
  /\ mon.pc = "prune"
  /\ \/ /\ rows' = [p \in Path |-> IF p \in mon.out THEN None ELSE rows[p]]
        /\ mon' = [mon EXCEPT !.pc = "commit"]
        /\ UNCHANGED faults
     \/ /\ Fail
        /\ \E done \in SUBSET mon.out :
             /\ done # mon.out
             /\ rows' = [p \in Path |-> IF p \in done THEN None ELSE rows[p]]
  /\ UNCHANGED <<volume, cursor, index, cache, scan, history>>

Commit ==
  /\ mon.pc = "commit"
  /\ \/ /\ cursor' = mon.to /\ mon' = Idle /\ UNCHANGED faults
        /\ unread' = IF mon.to.jid = jid THEN SubSeq(unread, mon.to.next - cursor.next + 1, Len(unread)) ELSE <<>>
     \/ Fail /\ UNCHANGED <<cursor, unread>>
  /\ UNCHANGED <<disk, folders, open, next, low, jid>>
  /\ UNCHANGED <<rows, index, cache, scan, history>>

Monitor ==
  \/ Query \/ QueryStale \/ ReadChunk \/ ReadDiscarded \/ ReadFails
  \/ EndRead \/ EndReadStale \/ ApplyHot \/ Prune \/ Commit

-----------------------------------------------------------------------------
(* A full scan, which a volume without a cursor gets: it walks the disk,   *)
(* fills index and rows, and only then saves the end of the journal        *)
(* (capture_cursor_after_full_scan). What crosses it may be missed.        *)

ScanDisk ==
  /\ cursor = None /\ scan = None
  /\ scan' = [p \in Path |-> Found(p)]
  /\ doubtful' = {}
  /\ UNCHANGED <<volume, store, index, cache, mon, faults, ghost>>

Capture ==
  /\ scan # None
  /\ index' = scan /\ rows' = scan
  /\ cursor' = Cursor(jid, next)
  /\ scan' = None
  /\ ghost' = {}
  /\ UNCHANGED <<volume, cache, mon, faults, doubtful>>

(* The application is started again: the index is what the rows have.      *)
Restart ==
  /\ Fault
  /\ index' = rows /\ cache' = Seeded /\ mon' = Idle /\ scan' = None
  /\ doubtful' = doubtful \cup {p \in Path : index[p] # rows[p]}
  /\ UNCHANGED <<volume, store, ghost>>

-----------------------------------------------------------------------------

(* a volume that has just been scanned                                     *)
Init ==
  /\ \E v \in Volumes : disk = v.disk /\ folders = v.folders
  /\ open = [f \in File |-> {}]
  /\ unread = <<>> /\ next = 0 /\ low = 0 /\ jid = 1
  /\ cursor = Cursor(jid, 0)
  /\ rows = [p \in Path |-> Found(p)] /\ index = rows
  /\ cache = Seeded /\ mon = Idle /\ scan = None
  /\ faults = 0
  /\ ghost = {} /\ doubtful = {}

User ==
  \/ \E f \in File, d \in Folder \cup {Root}, n \in FileName :
       CreateFile(f, d, n) \/ MoveFile(f, d, n)
  \/ \E f \in File : WriteFile(f) \/ DeleteFile(f)
  \/ \E d \in Folder, n \in FolderName : CreateFolder(d, n) \/ RenameFolder(d, n)
  \/ \E d \in Folder : RemoveFolder(d)
  \/ Discard \/ Recreate

Next == User \/ Monitor \/ ScanDisk \/ Capture \/ Restart

Spec == Init /\ [][Next]_vars

(* The monitor's thread ticks until it is stopped (every second), and a    *)
(* requested scan is made.                                                 *)
FairSpec == Spec /\ WF_vars(Monitor) /\ WF_vars(ScanDisk) /\ WF_vars(Capture)

-----------------------------------------------------------------------------
(* Properties.                                                             *)

(* Types.                                                                  *)
TypeOK ==
  /\ disk \in [File -> {None} \cup Entry]
  /\ folders \in [Folder -> FolderName \cup {None}]
  /\ jid \in 1 .. MaxFaults + 1 /\ low \in 0 .. next
  /\ cursor \in Cursors \cup {None}
  /\ rows \in [Path -> Content] /\ index \in [Path -> Content]
  /\ cache \in [Ref -> Path \cup {None}]
  /\ mon.pc \in {"idle", "read", "apply", "prune", "commit"}
  /\ ghost \cup doubtful \subseteq Path

(* The monitor has nothing left to do.                                     *)
Quiet ==
  /\ mon.pc = "idle" /\ scan = None
  /\ cursor # None /\ cursor.jid = jid /\ cursor.next = next

(* When the monitor has caught up, the index names exactly the files on    *)
(* the disk outside the quarantine, with their current content             *)
(* (change_monitor.rs:1-5). Excepted are paths that a folder of unknown    *)
(* or changed name, a scan or a restart made doubtful, and, among files    *)
(* that are gone, those a delta removed first and inserted afterwards      *)
(* (usn_apply.rs:391-405).                                                 *)
IndexFollowsDisk ==
  Quiet => \A p \in FilePath \ doubtful :
             index[p] = Found(p) \/ (p \in ghost /\ Found(p) = None)

(* Nothing in the quarantine becomes a candidate (quarantine.rs:17-19 of   *)
(* the domain), whatever is moved in and out of its folder.                *)
QuarantineUnseen == \A p \in Path : Quarantined(p) => index[p] = None /\ rows[p] = None

(* The persistent rows never keep what the index has dropped: the next     *)
(* start would bring it back.                                              *)
RowsFollowIndex ==
  Quiet => \A p \in FilePath \ (doubtful \cup ghost) : rows[p] # None => index[p] # None

(* Every change is reached by the cursor, also behind failing calls, or    *)
(* the journal is lost and the cursor is dropped for a full scan.          *)
CatchesUp ==
  \A n \in 1 .. MaxRecords :
    (next >= n) ~> (next < n \/ (cursor # None /\ cursor.jid = jid /\ cursor.next >= n))
=============================================================================
