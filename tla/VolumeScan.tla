----------------------------- MODULE VolumeScan -----------------------------
(***************************************************************************)
(* How a session finds files (app/src/scan_control.rs, scan_runtime.rs):   *)
(* the volumes one after the other, each either by a parallel walk of its  *)
(* folders (infra/scan-walk) or, for an elevated user of NTFS, by two      *)
(* passes over the master file table (infra/scan-mft). Batches of records  *)
(* are handed to a callback, and the scanner waits until it returns. The   *)
(* user may stop the scan at any time. The disks do not change meanwhile.  *)
(***************************************************************************)
EXTENDS Paths

CONSTANTS
  World,          (* what may be asked for, and what is on the disks       *)
  Worker,         (* the threads of a walk                                 *)
  SystemFolders,  (* excluded on every volume                              *)
  Service,        (* the quarantine's folder, likewise                     *)
  Batch,          (* how many records are handed over at once              *)
  Chunk,          (* how many records of the table one read returns        *)
  MaxDepth,       (* how far up a path is followed                         *)
  MaxFaults       (* bound: how many reads fail                            *)

ASSUME BoundsOK ==
  /\ IsFiniteSet(Worker) /\ Worker # {}
  /\ Batch \in Nat \ {0} /\ Chunk \in Nat \ {0}
  /\ MaxDepth \in Nat /\ MaxFaults \in Nat

(* What is asked for is on a disk, or barred. NTFS gives no two files of a
   folder one name, as far as their records are intact.                    *)
ASSUME WorldOK ==
  \A w \in World :
    /\ w.asked \in Seq(Range(w.asked)) /\ Range(w.asked) \ w.barred \subseteq DOMAIN w.disk
    /\ \A path \in w.excluded : path \in Seq(Range(path))
    /\ w.elevated \in BOOLEAN
    /\ \A v \in DOMAIN w.disk :
         LET table  == w.disk[v]
             intact == {k \in DOMAIN table : table[k].state \in {"ok", "sealed"}}
         IN
         /\ table \in Seq(Range(table))
         /\ \A k \in DOMAIN table :
              /\ {table[k].parent, table[k].size, table[k].used, table[k].changed} \subseteq Nat
              /\ table[k].kind \in {"file", "folder", "junction", "cloud", "metafile"}
              /\ table[k].state \in {"ok", "sealed", "free", "corrupt"}
         /\ \A k, l \in intact :
              table[k].parent = table[l].parent /\ table[k].name = table[l].name => k = l

VARIABLES
  world,      (* the request and the disks                                 *)
  stopped,    (* the CancellationToken of the session                      *)
  faults,     (* bounded by MaxFaults                                      *)
  volumes,    (* the letters of the volumes to scan                        *)
  at,         (* where the session's thread is                             *)
  volume,     (* the position of the volume at work                        *)
  cut,        (* ScanSessionSummary.cancelled                              *)
  queue,      (* SharedState.queue: folders anybody may open               *)
  inflight,   (* SharedState.inflight: folders being read                  *)
  entries,    (* SharedState.entries: what the walk has found              *)
  worker,     (* per thread: what it does, its own folders, its find       *)
  cursor,     (* the entry or table record looked at                       *)
  own,        (* the scanner's next number                                 *)
  batch,      (* records found and not yet handed over                     *)
  hand,       (* records the callback is called with                       *)
  dirs        (* dir_sink: the folders found on all volumes                *)

walk == <<queue, inflight, entries, worker>>
find == <<cursor, own, batch, hand, dirs>>
scanVars == <<world, stopped, faults, volumes, at, volume, cut, walk, find>>

-----------------------------------------------------------------------------
(* What is asked for: resolve_volumes, choose_scan_strategy,
   exclusions_for_volume.                                                  *)

Joining(vols, v) == IF v \in Range(vols) \cup world.barred THEN vols ELSE Append(vols, v)

Resolved ==
  LET vols[n \in 0 .. Len(world.asked)] ==
        IF n = 0 THEN <<>> ELSE Joining(vols[n - 1], world.asked[n])
  IN vols[Len(world.asked)]

Letter == volumes[volume]

ByTable(v) == world.elevated /\ v \in world.ntfs

Exclusions(v) == {<<v, f>> : f \in SystemFolders \cup {Service}} \cup world.excluded

(* The table of a volume: files and folders under their numbers, 0 the
   root. A folder may be a junction or one whose files are in the cloud; a
   metafile is a file for the table only.                                  *)
Table(v) == world.disk[v]

Directories == {"folder", "junction", "cloud"}

Readable(v) == {k \in DOMAIN Table(v) : Table(v)[k].state \notin {"free", "corrupt"}}

Children(v, ref) ==
  Only([k \in DOMAIN Table(v) |-> k],
       {k \in Readable(v) : Table(v)[k].parent = ref /\ Table(v)[k].kind # "metafile"})

(* a name joined to a path there is                                        *)
Below(above, name) ==
  CHOOSE path \in {IF p = NoPath THEN p ELSE Append(p, name) : p \in {above}} : TRUE

(* PathResolver, WalkPathResolver: from folder to folder up to the root, a
   path unless the way breaks off or goes round in circles                 *)
Resolve(v, folders, ref) ==
  LET above == {0, ref} \cup {folders[f].parent : f \in DOMAIN folders}
      up[n \in 0 .. MaxDepth] ==
        [r \in above |->
           IF r = 0 THEN <<v>>
           ELSE IF n = 0 \/ r \notin DOMAIN folders THEN NoPath
           ELSE Below(up[n - 1][folders[r].parent], folders[r].name)]
  IN up[MaxDepth][ref]

FullPath(v, folders, e) == Below(Resolve(v, folders, e.parent), e.name)

(* to_file_record; the number is the scanner's own                         *)
FileRecord(path, e, n) ==
  [id |-> <<"file", n>>, path |-> path, size |-> e.size, used |-> e.used, changed |-> e.changed,
   unit |-> "file", cat |-> "none", safety |-> "review", decision |-> "undecided"]

NotExcluded(v, recs) == Only(recs, {r \in Range(recs) : ~Excluded(r.path, Exclusions(v))})

(* collect_dir                                                             *)
Collected(v, paths) == {p \in paths : ~Excluded(p, Exclusions(v))}

Nowhere == [path |-> NoPath, ref |-> 0, node |-> 0]

(* a thread of a walk with nothing to do, and the entry of the root        *)
Idle == [at |-> "idle", local |-> <<>>, item |-> Nowhere, new |-> <<>>]

Root == [ref |-> 0, parent |-> 0, name |-> "", dir |-> TRUE, size |-> 0, used |-> 0, changed |-> 0]

(* a folder that may be listed but not read                                *)
Sealed(v, node) == node # 0 /\ Table(v)[node].state = "sealed"

-----------------------------------------------------------------------------
(* The session's thread: run_scan_session.                                 *)

Called == hand # <<>>

Fails ==
  /\ faults < MaxFaults
  /\ faults' = faults + 1
  /\ at' = "failed"
  /\ UNCHANGED <<world, stopped, volumes, volume, cut, walk, find>>

Goto(place) == at' = place

(* A volume is begun unless the user has stopped the scan; the volume may
   turn out to be gone. A walk does not even open a root that is excluded. *)
NextVolume ==
  /\ at = "next"
  /\ \/ /\ stopped \/ volume > Len(volumes)
        /\ Goto("ended")
        /\ cut' = (volume <= Len(volumes))
        /\ UNCHANGED <<walk, own, cursor>>
     \/ /\ ~stopped /\ volume <= Len(volumes)
        /\ cursor' = 0 /\ own' = 0
        /\ UNCHANGED cut
        /\ \/ /\ ByTable(Letter)
              /\ Goto("pass 1")
              /\ UNCHANGED walk
           \/ /\ ~ByTable(Letter)
              /\ inflight' = 0
              /\ worker' = [w \in Worker |-> Idle]
              /\ IF Excluded(<<Letter>>, Exclusions(Letter))
                 THEN Goto("sift") /\ queue' = <<>> /\ entries' = <<>>
                 ELSE /\ Goto("walk")
                      /\ queue' = <<[path |-> <<Letter>>, ref |-> 0, node |-> 0]>>
                      /\ entries' = <<Root>>
  /\ UNCHANGED <<world, stopped, faults, volumes, volume, batch, hand, dirs>>

VolumeFails ==
  /\ at = "next" /\ ~stopped /\ volume <= Len(volumes)
  /\ ByTable(Letter) \/ ~Excluded(<<Letter>>, Exclusions(Letter))
  /\ Fails

(* The volume is done: on to the next one, or none if the scan is stopped. *)
EndVolume ==
  /\ at = "close" /\ ~Called
  /\ cut' = (cut \/ stopped)
  /\ IF cut' THEN Goto("ended") /\ UNCHANGED volume ELSE Goto("next") /\ volume' = volume + 1
  /\ UNCHANGED <<world, stopped, faults, volumes, walk, find>>

Stop ==
  /\ ~stopped
  /\ stopped' = TRUE
  /\ UNCHANGED <<world, faults, volumes, at, volume, cut, walk, find>>

-----------------------------------------------------------------------------
(* The threads of a walk. What one does not take itself it shares.         *)

Walks(w, step) == at = "walk" /\ worker[w].at = step

(* worker_loop: the folder pushed last by the thread itself, or else the
   one that has waited longest                                             *)
Take(w) ==
  /\ Walks(w, "idle")
  /\ \/ /\ worker[w].local # <<>>
        /\ worker' = [worker EXCEPT ![w].at = "taken", ![w].item = Last(worker[w].local), ![w].local = Front(@)]
        /\ UNCHANGED queue
     \/ /\ worker[w].local = <<>> /\ queue # <<>>
        /\ worker' = [worker EXCEPT ![w].at = "taken", ![w].item = Head(queue)]
        /\ queue' = Tail(queue)
  /\ UNCHANGED <<world, stopped, faults, volumes, at, volume, cut, inflight, entries, find>>

(* What read_dir of a folder shows: nothing excluded, and nothing at all if
   it cannot be read. A junction is no folder for the file system API.     *)
Listed(v, item) ==
  IF Excluded(item.path, Exclusions(v)) \/ Sealed(v, item.node) THEN <<>>
  ELSE Only(Children(v, item.node),
            {k \in Readable(v) : ~Excluded(Append(item.path, Table(v)[k].name), Exclusions(v))})

EntryOf(item, f, ref) ==
  [ref |-> ref, parent |-> item.ref, name |-> f.name, dir |-> f.kind \in {"folder", "cloud"},
   size |-> f.size, used |-> f.used, changed |-> f.changed]

(* process_directory up to where it shares; a folder of files in the cloud
   is listed but not entered. (next_id numbers entries one by one, whichever
   thread they are of: here those of one folder follow each other.)        *)
Open(w) ==
  LET item   == worker[w].item
      f(k)   == Table(Letter)[k]
      ref(n) == Len(entries) + n - 1
  IN
  /\ Walks(w, "taken")
  /\ inflight' = inflight + 1
  /\ \E listed \in {Listed(Letter, item)} :
       /\ entries' = entries \o [n \in DOMAIN listed |-> EntryOf(item, f(listed[n]), ref(n))]
       /\ \E found \in {[n \in DOMAIN listed |->
                           [path |-> Append(item.path, f(listed[n]).name), ref |-> ref(n),
                            node |-> listed[n]]]} :
            worker' = [worker EXCEPT ![w].at = "read",
              ![w].new = Only(found, {new \in Range(found) : f(new.node).kind = "folder"})]
  /\ UNCHANGED <<world, stopped, faults, volumes, at, volume, cut, queue, find>>

(* faulty variant: the one in the middle goes to nobody                    *)
HalfLosing(new) == [mine |-> SubSeq(new, 1, Len(new) \div 2), theirs |-> SubSeq(new, Len(new) \div 2 + 2, Len(new))]

(* the first half, rounded down, is the thread's own                       *)
Half(new) == [mine |-> SubSeq(new, 1, Len(new) \div 2), theirs |-> SubSeq(new, Len(new) \div 2 + 1, Len(new))]

Share(w) ==
  LET half == Half(worker[w].new) IN
  /\ Walks(w, "read")
  /\ worker' = [worker EXCEPT ![w].at = "shared", ![w].new = <<>>, ![w].local = @ \o Reverse(half.mine)]
  /\ queue' = queue \o half.theirs
  /\ UNCHANGED <<world, stopped, faults, volumes, at, volume, cut, inflight, entries, find>>

(* faulty variant: the folder stays counted as being read                  *)
LeaveCounted(w) ==
  /\ Walks(w, "shared")
  /\ worker' = [worker EXCEPT ![w].at = "idle", ![w].item = Nowhere]
  /\ UNCHANGED <<world, stopped, faults, volumes, at, volume, cut, queue, inflight, entries, find>>

Leave(w) ==
  /\ Walks(w, "shared")
  /\ inflight' = inflight - 1
  /\ worker' = [worker EXCEPT ![w].at = "idle", ![w].item = Nowhere]
  /\ UNCHANGED <<world, stopped, faults, volumes, at, volume, cut, queue, entries, find>>

(* No folder is left and none is being read, as far as this thread can see:
   one that another has just taken counts as neither.                      *)
GoHome(w) ==
  /\ Walks(w, "idle")
  /\ worker[w].local = <<>> /\ queue = <<>> /\ inflight = 0
  /\ worker' = [worker EXCEPT ![w].at = "gone"]
  /\ UNCHANGED <<world, stopped, faults, volumes, at, volume, cut, queue, inflight, entries, find>>

Joined ==
  /\ at = "walk"
  /\ \A w \in Worker : worker[w].at = "gone"
  /\ Goto("sift")
  /\ UNCHANGED <<world, stopped, faults, volumes, volume, cut, walk, find>>

-----------------------------------------------------------------------------
(* What the walk has found, entry by entry: scan_walk_cancellable.         *)

Call(recs) == hand' = recs /\ batch' = <<>>

(* full batches are handed over, others kept                               *)
Collect(recs) ==
  IF Len(recs) >= Batch THEN Call(recs) ELSE batch' = recs /\ UNCHANGED hand

FolderEntries ==
  LET folders == {e \in Range(entries) : e.dir} IN
  [r \in {e.ref : e \in folders} |-> CHOOSE e \in folders : e.ref = r]

Sift ==
  /\ at = "sift" /\ ~Called
  /\ ~stopped /\ cursor < Len(entries)
  /\ cursor' = cursor + 1
  /\ LET e == entries[cursor + 1] IN
     \E path \in {IF e.ref = 0 THEN <<Letter>> ELSE FullPath(Letter, FolderEntries, e)} :
       \/ /\ e.dir
          /\ dirs' = dirs \cup Collected(Letter, {path} \ {NoPath})
          /\ UNCHANGED <<own, batch, hand>>
       \/ /\ ~e.dir
          /\ IF path = NoPath THEN UNCHANGED <<own, batch, hand>>
             ELSE own' = own + 1 /\ Collect(Append(batch, FileRecord(path, e, own)))
          /\ UNCHANGED dirs
  /\ UNCHANGED <<world, stopped, faults, volumes, at, volume, cut, walk>>

(* Whether it is stopped or has come to the end, what is left goes out.    *)
EndSift ==
  /\ at = "sift" /\ ~Called
  /\ stopped \/ cursor = Len(entries)
  /\ Goto("close")
  /\ Call(batch)
  /\ UNCHANGED <<world, stopped, faults, volumes, volume, cut, walk, cursor, own, dirs>>

-----------------------------------------------------------------------------
(* Two passes over the file table: scan_volume_to_index_cancel_progress.
   Either is stopped between two reads only.                               *)

Total == Len(Table(Letter))

Between == cursor % Chunk = 0 /\ cursor < Total

FolderRecords(v) == [k \in {n \in Readable(v) : Table(v)[n].kind \in Directories} |-> Table(v)[k]]

TableFolders(v) ==
  LET known == FolderRecords(v) IN
  ({<<v>>} \cup {FullPath(v, known, known[k]) : k \in DOMAIN known}) \ {NoPath}

(* The folders, which are known when the pass has come to its end.         *)
PassOne ==
  /\ at = "pass 1"
  /\ \/ /\ Between /\ stopped
        /\ Goto("close")
        /\ UNCHANGED <<cursor, dirs>>
     \/ /\ Between /\ ~stopped
        /\ cursor' = Min({cursor + Chunk, Total})
        /\ UNCHANGED <<at, dirs>>
     \/ /\ cursor = Total
        /\ Goto("pass 2")
        /\ cursor' = 0
        /\ dirs' \in {dirs \cup Collected(Letter, TableFolders(Letter))}
  /\ UNCHANGED <<world, stopped, faults, volumes, volume, cut, walk, own, batch, hand>>

(* Batcher::push, for one record of the table; a batch loses what is
   excluded, and is not handed over if that is all of it                   *)
Push ==
  LET e == Table(Letter)[cursor + 1] IN
  /\ at = "pass 2" /\ ~Called
  /\ cursor < Total /\ ~(Between /\ stopped)
  /\ cursor' = cursor + 1
  /\ \E path \in {FullPath(Letter, FolderRecords(Letter), e)} :
       IF \/ cursor + 1 \notin Readable(Letter) \/ e.kind \in Directories
          \/ path = NoPath \/ Excluded(path, {<<Letter, Service>>})
       THEN UNCHANGED <<own, batch, hand>>
       ELSE LET full == Append(batch, FileRecord(path, e, own)) IN
            /\ own' = own + 1
            /\ IF Len(full) < Batch THEN batch' = full /\ UNCHANGED hand
               ELSE Call(NotExcluded(Letter, full))
  /\ UNCHANGED <<world, stopped, faults, volumes, at, volume, cut, walk, dirs>>

(* Batcher::finish, stopped or not.                                        *)
Finish ==
  /\ at = "pass 2" /\ ~Called
  /\ cursor = Total \/ (Between /\ stopped)
  /\ Goto("close")
  /\ Call(NotExcluded(Letter, batch))
  /\ UNCHANGED <<world, stopped, faults, volumes, volume, cut, walk, cursor, own, dirs>>

(* The error ends the session, not only the volume; the records not handed
   over are lost.                                                          *)
ReadFails == at \in {"pass 1", "pass 2"} /\ ~Called /\ Between /\ ~stopped /\ Fails

(* the callback returns                                                    *)
Return == hand' = <<>> /\ UNCHANGED <<world, stopped, faults, volumes, at, volume, cut, walk, cursor, own, batch, dirs>>

-----------------------------------------------------------------------------
WorkerStep(w) == Take(w) \/ Open(w) \/ Share(w) \/ Leave(w) \/ GoHome(w)

SessionStep ==
  \/ NextVolume \/ VolumeFails \/ EndVolume \/ Joined
  \/ Sift \/ EndSift \/ PassOne \/ Push \/ Finish \/ ReadFails

ScanInit ==
  /\ world \in World
  /\ stopped = FALSE /\ faults = 0
  /\ volume = 1 /\ cut = FALSE
  /\ volumes = Resolved
  /\ at = IF volumes = <<>> THEN "refused" ELSE "next"
  /\ queue = <<>> /\ inflight = 0 /\ entries = <<>>
  /\ worker = [w \in Worker |-> Idle]
  /\ cursor = 0 /\ own = 0 /\ batch = <<>> /\ hand = <<>> /\ dirs = {}

-----------------------------------------------------------------------------
(* What a scan has to find: files and folders on a way from the root that  *)
(* can be followed. A walk enters plain folders that open, a table is      *)
(* followed through every folder it has an intact record of.               *)

(* Per record the folders from the root down to it and itself, nothing if
   there is no such way. None is longer than the table.                    *)
Lineage(v) ==
  LET far == Len(Table(v))
      up[n \in 0 .. far] ==
        [k \in DOMAIN Table(v) |->
           LET ref == Table(v)[k].parent IN
           IF ref = 0 THEN <<k>>
           ELSE IF n = 0 \/ ref \notin DOMAIN Table(v) THEN <<>>
           ELSE Below(up[n - 1][ref], k)]
  IN up[far]

Passable(v, f) ==
  IF ByTable(v) THEN f.kind \in Directories /\ f.state \notin {"free", "corrupt"}
  ELSE f.kind = "folder" /\ f.state = "ok"

Visible(v, f) ==
  /\ f.state \notin {"free", "corrupt"}
  /\ f.kind \notin IF ByTable(v) THEN Directories ELSE {"folder", "cloud", "metafile"}

(* of a volume: what is to be found, as paths with their sizes and dates   *)
Findable(v) ==
  LET way == Lineage(v)
      file == {k \in DOMAIN way : /\ way[k] # <<>> /\ Visible(v, Table(v)[k])
                                  /\ \A a \in Range(Front(way[k])) : Passable(v, Table(v)[a])}
  IN {f \in {[path |-> <<v>> \o [n \in DOMAIN way[k] |-> Table(v)[way[k][n]].name],
              size |-> Table(v)[k].size, changed |-> Table(v)[k].changed] : k \in file} :
        ~Excluded(f.path, Exclusions(v))}

All == UNION {Findable(v) : v \in Range(volumes)}
=============================================================================
