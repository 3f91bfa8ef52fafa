----------------------------- MODULE Quarantine -----------------------------
(***************************************************************************)
(* The quarantine of TrashRadar: two-phase deletion of files on one volume *)
(* (core/app/src/quarantine.rs), through the file-system gateway           *)
(* (core/infra/quarantine-fs) and the SQLite journal                       *)
(* (core/infra/index-sqlite), driven by the shell's IPC commands           *)
(* (core/shell/src/scan_runtime.rs, core/shell/src/ipc.rs) and reconciled  *)
(* when the application starts (core/shell/src/main.rs).                   *)
(*                                                                         *)
(* Every journal transaction and every file-system call is one step, so a  *)
(* crash, another command or the user may come between any two of them.    *)
(***************************************************************************)
EXTENDS Integers

CONSTANTS
  Instance,     (* running copies of the application                        *)
  Worker,       (* threads that execute IPC commands (spawn_blocking)       *)
  Home,         (* the instance each worker belongs to                      *)
  MaxId,        (* candidate ids, and so entry ids, are 0 .. MaxId - 1      *)
  Path,         (* original paths of the files the user may reap            *)
  NoPath,
  File,         (* contents; two contents differ in size or mtime           *)
  NoFile,
  Original,     (* the content at each path at the beginning                *)
  MaxAttempts,  (* RESTORE_SUFFIX_MAX_ATTEMPTS                              *)
  Limit         (* how often each kind of bounded event may happen          *)

Id    == 0 .. MaxId - 1
Spot  == Path \X (0 .. MaxAttempts - 1)
Kind  == {"scan", "reap", "crash", "edit", "fault", "unplug", "ttl"}

ASSUME ConstantsOK ==
  /\ MaxId \in Nat \ {0}
  /\ MaxAttempts \in Nat \ {0}
  /\ Home \in [Worker -> Instance]
  /\ NoPath \notin Path
  /\ NoFile \notin File
  /\ Original \in [Path -> File]
  /\ \A p, q \in Path : Original[p] = Original[q] => p = q
  /\ Limit \in [Kind -> Nat]

VARIABLES
  tree,      (* the user's directories: what lies at each spot; <<p, 0>> is
                the path p, <<p, n>> the n-th name restore_destination
                derives from it                                             *)
  vault,     (* <volume>\.trashradar\quarantine: what lies under each
                surrogate name, which is the entry id                       *)
  mounted,   (* the volume is reachable                                     *)
  manifest,  (* quarantine_manifest: one row per entry id                   *)
  audit,     (* destructive_audit: the set of events ever logged            *)
  phase,     (* per instance: down, reconciling ("flight", then "held"), up *)
  rec,       (* per instance: progress of QuarantineRecovery.reconcile      *)
  index,     (* per instance: the first record with each candidate id       *)
  cmd,       (* per worker: the command it executes                         *)
  spent,     (* how often each bounded event has happened                   *)
  fate,      (* history: what became of each content                        *)
  cargo,     (* history: the content last moved under each surrogate name   *)
  acked      (* history: the batch whose reap was the first to report each
                entry as reaped; 0 if none has                              *)

disk    == <<tree, vault, mounted>>
journal == <<manifest, audit>>
app     == <<phase, rec, index>>
ghost   == <<fate, cargo, acked>>
vars    == <<disk, journal, app, cmd, spent, ghost>>

-----------------------------------------------------------------------------
(* Journal rows. An id without a row is "absent".                          *)

Status == {"absent", "in_flight", "quarantined", "restored", "purged"}
Row    == [status : Status, path : Path \cup {NoPath}, batch : Nat, due : BOOLEAN]
NoRow  == [status |-> "absent", path |-> NoPath, batch |-> 0, due |-> FALSE]

In(status) == {id \in Id : manifest[id].status = status}

Event == [id : Id, op : {"reap", "restore", "purge_ttl", "purge_manual"},
          actor : {"user", "sweeper", "recovery"}]

(* faulty variant: a conflicting row is never refreshed                    *)
InsertOrIgnore(id, path, batch) ==
  manifest' = IF manifest[id].status = "absent"
              THEN [manifest EXCEPT ![id] =
                      [status |-> "in_flight", path |-> path, batch |-> batch, due |-> FALSE]]
              ELSE manifest

(* INSERT .. ON CONFLICT DO UPDATE .. WHERE status = 'in_flight': a row in
   any later status is left as it is and no error is reported.             *)
InsertEntry(id, path, batch) ==
  manifest' = IF manifest[id].status \in {"absent", "in_flight"}
              THEN [manifest EXCEPT ![id] =
                      [status |-> "in_flight", path |-> path, batch |-> batch, due |-> FALSE]]
              ELSE manifest

(* faulty variant: the columns op and actor are bound in the wrong order   *)
ConfirmSwapped(id, status, op, actor) ==
  /\ manifest' = IF manifest[id].status = "absent"
                 THEN manifest
                 ELSE [manifest EXCEPT ![id].status = status]
  /\ audit' = audit \cup {[id |-> id, op |-> actor, actor |-> op]}

(* UPDATE .. WHERE entry_id = id and the audit INSERT, in one transaction;
   updating a row that is not there changes nothing and is no error.       *)
ConfirmWithAudit(id, status, op, actor) ==
  /\ manifest' = IF manifest[id].status = "absent"
                 THEN manifest
                 ELSE [manifest EXCEPT ![id].status = status]
  /\ audit' = audit \cup {[id |-> id, op |-> op, actor |-> actor]}

RemoveEntry(id) ==
  /\ manifest' = [manifest EXCEPT ![id] = NoRow]
  /\ audit' = audit

-----------------------------------------------------------------------------
(* Commands. A worker runs one command at a time over the ids in "todo".   *)

Pc == {"idle",
       "pick", "insert", "verify", "rename", "confirm",   \* reap_execute
       "lookup", "return", "settle",                      \* restore, undo
       "erase", "record"}                                 \* purge, sweep

Command == [pc : Pc, ask : SUBSET Id, todo : SUBSET Id, id : Id,
            path : Path \cup {NoPath}, file : File \cup {NoFile},
            attempt : 0 .. MaxAttempts - 1, batch : Nat,
            done : SUBSET Id, actor : {"user", "sweeper"}]

(* a command between two of its items *)
Job(pc, ask, todo, batch, done, actor) ==
  [pc |-> pc, ask |-> ask, todo |-> todo, id |-> 0, path |-> NoPath, file |-> NoFile,
   attempt |-> 0, batch |-> batch, done |-> done, actor |-> actor]

Idle == Job("idle", {}, {}, 0, {}, "user")

Begin(w, pc, ids, batch, actor) ==
  /\ phase[Home[w]] = "up"
  /\ cmd[w] = Idle
  /\ cmd' = [cmd EXCEPT ![w] = Job(pc, ids, ids, batch, {}, actor)]

At(w, pc) == cmd[w].pc = pc

Goto(w, pc) == cmd' = [cmd EXCEPT ![w].pc = pc]

(* The item is finished or given up; the command goes on with the others.  *)
NextItem(w, pc, done) ==
  cmd' = [cmd EXCEPT ![w] = Job(pc, cmd[w].ask, cmd[w].todo \ {cmd[w].id}, cmd[w].batch,
                                cmd[w].done \cup done, cmd[w].actor)]

(* The command returns, with an error or because nothing is left to do.    *)
Return(w) == cmd' = [cmd EXCEPT ![w] = Idle]

Spend(kind) ==
  /\ spent[kind] < Limit[kind]
  /\ spent' = [spent EXCEPT ![kind] = @ + 1]

-----------------------------------------------------------------------------
(* Reap: StartReap .. EndReap is one reap_execute; in it each candidate    *)
(* goes through reap_one, and a failed candidate is skipped.               *)

Candidate   == [path : Path \cup {NoPath}, file : File \cup {NoFile}]
NoCandidate == [path |-> NoPath, file |-> NoFile]
EmptyIndex  == [id \in Id |-> NoCandidate]

(* get_by_candidate_ids: any id of the live index will do, that of a
   candidate reaped and restored earlier in the session included           *)
Indexed(i) == {id \in Id : index[i][id] # NoCandidate}

StartReap(w) ==
  /\ \E ids \in (SUBSET Indexed(Home[w])) \ {{}} : Begin(w, "pick", ids, spent["reap"] + 1, "user")
  /\ Spend("reap")
  /\ UNCHANGED <<disk, journal, app, ghost>>

(* faulty variant: any file at the path will do                            *)
SomeFile(path, file) == mounted /\ tree[<<path, 0>>] # NoFile

(* The file at the path is the one whose size and mtime were recorded.     *)
SameFile(path, file) == mounted /\ tree[<<path, 0>>] = file

(* read_file_identity and the "file changed since the scan" check          *)
ReadIdentity(w) ==
  /\ At(w, "pick")
  /\ \E id \in cmd[w].todo :
       LET c == index[Home[w]][id] IN
       /\ SameFile(c.path, c.file)
       /\ cmd' = [cmd EXCEPT ![w] = [cmd[w] EXCEPT !.pc = "insert", !.id = id,
                                              !.path = c.path, !.file = c.file]]
  /\ UNCHANGED <<disk, journal, app, spent, ghost>>

(* unreadable, changed, or no quarantine directory: the item is skipped    *)
SkipItem(w) ==
  /\ At(w, "pick")
  /\ \E id \in cmd[w].todo : cmd' = [cmd EXCEPT ![w].todo = @ \ {id}]
  /\ UNCHANGED <<disk, journal, app, spent, ghost>>

JournalReap(w) ==
  /\ At(w, "insert")
  /\ \/ /\ InsertEntry(cmd[w].id, cmd[w].path, cmd[w].batch)
        /\ Goto(w, "verify")
        /\ UNCHANGED spent
     \/ /\ Spend("fault")
        /\ NextItem(w, "pick", {})
        /\ UNCHANGED manifest
  /\ UNCHANGED <<disk, audit, app, ghost>>

(* validate_file_identity: the last comparison before the rename. A failed
   item leaves its row in_flight.                                          *)
VerifyIdentity(w) ==
  /\ At(w, "verify")
  /\ IF SameFile(cmd[w].path, cmd[w].file)
     THEN Goto(w, "rename")
     ELSE NextItem(w, "pick", {})
  /\ UNCHANGED <<disk, journal, app, spent, ghost>>

(* faulty variant: the destination is cleared before the source is opened  *)
ClearAndMove(w) ==
  LET from == <<cmd[w].path, 0>> IN
  /\ At(w, "rename")
  /\ mounted
  /\ vault' = [vault EXCEPT ![cmd[w].id] = tree[from]]
  /\ cargo' = [cargo EXCEPT ![cmd[w].id] = tree[from]]
  /\ tree' = [tree EXCEPT ![from] = NoFile]
  /\ Goto(w, "confirm")
  /\ UNCHANGED <<mounted, journal, app, spent, fate, acked>>

(* fs::rename replaces whatever lies at the destination.                   *)
MoveIntoQuarantine(w) ==
  LET from == <<cmd[w].path, 0>> IN
  /\ At(w, "rename")
  /\ mounted
  /\ tree[from] # NoFile
  /\ vault' = [vault EXCEPT ![cmd[w].id] = tree[from]]
  /\ cargo' = [cargo EXCEPT ![cmd[w].id] = tree[from]]
  /\ tree' = [tree EXCEPT ![from] = NoFile]
  /\ Goto(w, "confirm")
  /\ UNCHANGED <<mounted, journal, app, spent, fate, acked>>

(* the source is gone, the volume is gone, or the rename is refused        *)
MoveFails(w) ==
  /\ At(w, "rename")
  /\ \/ /\ ~mounted \/ tree[<<cmd[w].path, 0>>] = NoFile
        /\ UNCHANGED spent
     \/ Spend("fault")
  /\ NextItem(w, "pick", {})
  /\ UNCHANGED <<disk, journal, app, ghost>>

ConfirmReap(w) ==
  /\ At(w, "confirm")
  /\ \/ /\ ConfirmWithAudit(cmd[w].id, "quarantined", "reap", "user")
        /\ NextItem(w, "pick", {cmd[w].id})
        /\ acked' = [acked EXCEPT ![cmd[w].id] = IF @ = 0 THEN cmd[w].batch ELSE @]
        /\ UNCHANGED spent
     \/ /\ Spend("fault")
        /\ NextItem(w, "pick", {})
        /\ UNCHANGED <<journal, acked>>
  /\ UNCHANGED <<disk, app, fate, cargo>>

(* If anything was reaped, every requested candidate gets Decision::Keep and
   the UI hides it, the skipped ones included; both are the UI's business:
   the records stay in the index and reap_execute asks for no decision.    *)
EndReap(w) ==
  /\ At(w, "pick")
  /\ cmd[w].todo = {}
  /\ Return(w)
  /\ UNCHANGED <<disk, journal, app, spent, ghost>>

-----------------------------------------------------------------------------
(* Restore and undo: restore_one for each id, the first error ends both.   *)

StartRestore(w) ==
  /\ \E ids \in (SUBSET (Id \ In("absent"))) \ {{}} : Begin(w, "lookup", ids, 0, "user")
  /\ UNCHANGED <<disk, journal, app, spent, ghost>>

(* undo_batch: the quarantined entries of one batch                        *)
StartUndo(w) ==
  /\ \E b \in 1 .. spent["reap"] :
       LET ids == {id \in In("quarantined") : manifest[id].batch = b} IN
       /\ ids # {}
       /\ Begin(w, "lookup", ids, 0, "user")
  /\ UNCHANGED <<disk, journal, app, spent, ghost>>

(* faulty variant: any row will do                                         *)
RestorableIfListed(id) == manifest[id].status # "absent"

Restorable(id) == manifest[id].status = "quarantined"

(* get_entry and its status check                                          *)
LookupEntry(w) ==
  /\ At(w, "lookup")
  /\ \E id \in cmd[w].todo :
       IF Restorable(id)
       THEN cmd' = [cmd EXCEPT ![w] = [cmd[w] EXCEPT !.pc = "return", !.id = id,
                                                !.path = manifest[id].path]]
       ELSE Return(w)
  /\ UNCHANGED <<disk, journal, app, spent, ghost>>

Destination(w) == <<cmd[w].path, cmd[w].attempt>>

(* faulty variant: the move replaces what is there                         *)
FreeUnchecked(spot) == TRUE

Free(spot) == tree[spot] = NoFile

MoreSuffixes(w) == cmd[w].attempt + 1 < MaxAttempts

(* faulty variant: the surrogate stays behind                              *)
CopyFromQuarantine(w) ==
  LET id == cmd[w].id IN
  /\ At(w, "return")
  /\ mounted
  /\ vault[id] # NoFile
  /\ Free(Destination(w))
  /\ tree' = [tree EXCEPT ![Destination(w)] = vault[id]]
  /\ Goto(w, "settle")
  /\ UNCHANGED <<vault, mounted, journal, app, spent, ghost>>

(* move_file_no_replace into a free name                                   *)
RestoreFromQuarantine(w) ==
  LET id == cmd[w].id IN
  /\ At(w, "return")
  /\ mounted
  /\ vault[id] # NoFile
  /\ Free(Destination(w))
  /\ tree' = [tree EXCEPT ![Destination(w)] = vault[id]]
  /\ vault' = [vault EXCEPT ![id] = NoFile]
  /\ Goto(w, "settle")
  /\ UNCHANGED <<mounted, journal, app, spent, ghost>>

(* faulty variant: the same name is tried again                            *)
SameSuffix(attempt) == attempt

NextSuffix(attempt) == attempt + 1

(* DestinationOccupied: try the next suffix, give up after the last        *)
TrySuffix(w) ==
  /\ At(w, "return")
  /\ mounted
  /\ vault[cmd[w].id] # NoFile
  /\ ~Free(Destination(w))
  /\ IF MoreSuffixes(w)
     THEN cmd' = [cmd EXCEPT ![w].attempt = NextSuffix(@)]
     ELSE Return(w)
  /\ UNCHANGED <<disk, journal, app, spent, ghost>>

RestoreFails(w) ==
  /\ At(w, "return")
  /\ \/ /\ ~mounted \/ vault[cmd[w].id] = NoFile
        /\ UNCHANGED spent
     \/ Spend("fault")
  /\ Return(w)
  /\ UNCHANGED <<disk, journal, app, ghost>>

ConfirmRestore(w) ==
  /\ At(w, "settle")
  /\ \/ /\ ConfirmWithAudit(cmd[w].id, "restored", "restore", "user")
        /\ NextItem(w, "lookup", {})
        /\ UNCHANGED spent
     \/ /\ Spend("fault")
        /\ Return(w)
        /\ UNCHANGED journal
  /\ UNCHANGED <<disk, app, ghost>>

EndRestore(w) ==
  /\ At(w, "lookup")
  /\ cmd[w].todo = {}
  /\ Return(w)
  /\ UNCHANGED <<disk, journal, app, spent, ghost>>

-----------------------------------------------------------------------------
(* Purge: by hand (ManualPurger) or by TTL (QuarantineSweeper). Both take  *)
(* the targets from a snapshot and stop at the first error.                *)

(* Entries: all must be quarantined; All: every quarantined entry          *)
StartPurge(w) ==
  /\ \E ids \in (SUBSET In("quarantined")) \ {{}} : Begin(w, "erase", ids, 0, "user")
  /\ UNCHANGED <<disk, journal, app, spent, ghost>>

StartSweep(w) ==
  /\ LET ids == {id \in In("quarantined") : manifest[id].due} IN
     /\ ids # {}
     /\ Begin(w, "erase", ids, 0, "sweeper")
  /\ UNCHANGED <<disk, journal, app, spent, ghost>>

(* the user's targets are sorted by id, the sweeper's by age               *)
NextTarget(w, id) ==
  /\ id \in cmd[w].todo
  /\ cmd[w].actor = "user" => \A other \in cmd[w].todo : id <= other

(* faulty variant: erasing a missing surrogate counts as done              *)
ErasableOrGone(id) == mounted

(* symlink_metadata and remove_file: a missing surrogate is an error       *)
Erasable(id) == mounted /\ vault[id] # NoFile

PurgeFromQuarantine(w) ==
  /\ At(w, "erase")
  /\ \E id \in Id :
       /\ NextTarget(w, id)
       /\ Erasable(id)
       /\ fate' = [fate EXCEPT ![vault[id]] = "purged"]
       /\ vault' = [vault EXCEPT ![id] = NoFile]
       /\ cmd' = [cmd EXCEPT ![w] = [cmd[w] EXCEPT !.pc = "record", !.id = id]]
  /\ UNCHANGED <<tree, mounted, journal, app, spent, cargo, acked>>

PurgeFails(w) ==
  /\ At(w, "erase")
  /\ cmd[w].todo # {}
  /\ \/ /\ \E id \in Id : NextTarget(w, id) /\ ~Erasable(id)
        /\ UNCHANGED spent
     \/ Spend("fault")
  /\ Return(w)
  /\ UNCHANGED <<disk, journal, app, ghost>>

ConfirmPurge(w) ==
  /\ At(w, "record")
  /\ \/ /\ ConfirmWithAudit(cmd[w].id, "purged",
                            IF cmd[w].actor = "user" THEN "purge_manual" ELSE "purge_ttl",
                            cmd[w].actor)
        /\ NextItem(w, "erase", {})
        /\ UNCHANGED spent
     \/ /\ Spend("fault")
        /\ Return(w)
        /\ UNCHANGED journal
  /\ UNCHANGED <<disk, app, ghost>>

EndPurge(w) ==
  /\ At(w, "erase")
  /\ cmd[w].todo = {}
  /\ Return(w)
  /\ UNCHANGED <<disk, journal, app, spent, ghost>>

-----------------------------------------------------------------------------
(* Start of the application: reconcile the journal with the disk before    *)
(* any command; an error ends the pass and only reaches the log.           *)

Recovery   == [rows : [Id -> Row], flight : SUBSET Id, held : SUBSET Id,
               probe : {"none", "source", "vault", "both", "missing", "present"}]
NoRecovery == [rows |-> [id \in Id |-> NoRow], flight |-> {}, held |-> {}, probe |-> "none"]

Launch(i) ==
  /\ phase[i] = "down"
  /\ phase' = [phase EXCEPT ![i] = "flight"]
  /\ rec' = [rec EXCEPT ![i] = [rows |-> manifest, flight |-> In("in_flight"),
                                held |-> In("quarantined"), probe |-> "none"]]
  /\ UNCHANGED <<disk, journal, index, cmd, spent, ghost>>

FirstOf(ids, id) == id \in ids /\ \A other \in ids : id <= other

(* recovery_location: where the entry's file is                            *)
ProbeInFlight(i) ==
  /\ phase[i] = "flight"
  /\ rec[i].probe = "none"
  /\ \E id \in Id :
       /\ FirstOf(rec[i].flight, id)
       /\ LET source == mounted /\ tree[<<rec[i].rows[id].path, 0>>] # NoFile
              moved  == mounted /\ vault[id] # NoFile
          IN rec' = [rec EXCEPT ![i].probe =
                       IF source /\ moved THEN "both"
                       ELSE IF source THEN "source"
                       ELSE IF moved THEN "vault" ELSE "missing"]
  /\ UNCHANGED <<disk, journal, phase, index, cmd, spent, ghost>>

(* faulty variant: the row of a move that never happened stays             *)
KeepEntry(id) == UNCHANGED journal

(* faulty variant: whatever was interrupted is forgotten                   *)
ForgetEntry(id) == RemoveEntry(id)

RollBack(id)      == RemoveEntry(id)
CompleteReap(id)  == ConfirmWithAudit(id, "quarantined", "reap", "recovery")
CompletePurge(id) == ConfirmWithAudit(id, "purged", "purge_manual", "recovery")

(* roll back what was not moved, complete what was                         *)
ResolveInFlight(i) ==
  /\ phase[i] = "flight"
  /\ rec[i].probe \in {"source", "vault"}
  /\ \E id \in Id :
       /\ FirstOf(rec[i].flight, id)
       /\ IF rec[i].probe = "source"
          THEN RollBack(id)
          ELSE CompleteReap(id)
       /\ rec' = [rec EXCEPT ![i].flight = @ \ {id}, ![i].probe = "none"]
  /\ UNCHANGED <<disk, phase, index, cmd, spent, ghost>>

(* faulty variant: an unreachable directory is taken for an empty one      *)
VanishedOrOffline(id) == ~mounted \/ vault[id] = NoFile

(* surrogate_state: a missing file counts only if the directory is there   *)
Vanished(id) == mounted /\ vault[id] = NoFile

ProbeHeld(i) ==
  /\ phase[i] = "held"
  /\ rec[i].probe = "none"
  /\ \E id \in Id :
       /\ FirstOf(rec[i].held, id)
       /\ rec' = [rec EXCEPT ![i].probe = IF Vanished(id) THEN "missing" ELSE "present"]
  /\ UNCHANGED <<disk, journal, phase, index, cmd, spent, ghost>>

(* complete a purge that was interrupted before it was recorded            *)
ResolveHeld(i) ==
  /\ phase[i] = "held"
  /\ rec[i].probe # "none"
  /\ \E id \in Id :
       /\ FirstOf(rec[i].held, id)
       /\ IF rec[i].probe = "missing"
          THEN CompletePurge(id)
          ELSE UNCHANGED journal
       /\ rec' = [rec EXCEPT ![i].held = @ \ {id}, ![i].probe = "none"]
  /\ UNCHANGED <<disk, phase, index, cmd, spent, ghost>>

RecoveryStep(i) ==
  /\ rec[i].probe = "none"
  /\ \/ /\ phase[i] = "flight"
        /\ rec[i].flight = {}
        /\ phase' = [phase EXCEPT ![i] = "held"]
        /\ UNCHANGED rec
     \/ /\ phase[i] = "held"
        /\ rec[i].held = {}
        /\ phase' = [phase EXCEPT ![i] = "up"]
        /\ rec' = [rec EXCEPT ![i] = NoRecovery]
  /\ UNCHANGED <<disk, journal, index, cmd, spent, ghost>>

(* two copies, no copy, or a journal error: reconcile returns Err and the
   application starts all the same                                         *)
RecoveryFails(i) ==
  /\ phase[i] \in {"flight", "held"}
  /\ \/ /\ phase[i] = "flight"
        /\ rec[i].probe \in {"both", "missing"}
        /\ UNCHANGED spent
     \/ Spend("fault")
  /\ phase' = [phase EXCEPT ![i] = "up"]
  /\ rec' = [rec EXCEPT ![i] = NoRecovery]
  /\ UNCHANGED <<disk, journal, index, cmd, ghost>>

-----------------------------------------------------------------------------
(* Scans, crashes and the world outside.                                   *)

(* A scan numbers its records from 0 and appends them to the index; a look-
   up by id finds the first record that carries it. (A request that mixes
   ids of a first and a longer second scan may find two records of one id
   and none of another; here every id is looked up by itself.)             *)
Numbered(listed) == {id \in Id : listed[id] # NoPath}

Appended(i, listed) ==
  [id \in Id |-> IF id \in Numbered(listed) /\ index[i][id] = NoCandidate
                 THEN [path |-> listed[id], file |-> tree[<<listed[id], 0>>]]
                 ELSE index[i][id]]

Scan(i) ==
  /\ phase[i] = "up"
  /\ mounted
  /\ Spend("scan")
  /\ \E listed \in [Id -> Path \cup {NoPath}] :
       /\ \A a, b \in Numbered(listed) : listed[a] = listed[b] => a = b
       /\ \A id \in Numbered(listed) : tree[<<listed[id], 0>>] # NoFile
       /\ index' = [index EXCEPT ![i] = Appended(i, listed)]
  /\ UNCHANGED <<disk, journal, phase, rec, cmd, ghost>>

(* the process dies, or the user closes it, between any two steps          *)
Crash(i) ==
  /\ phase[i] # "down"
  /\ Spend("crash")
  /\ phase' = [phase EXCEPT ![i] = "down"]
  /\ rec' = [rec EXCEPT ![i] = NoRecovery]
  /\ index' = [index EXCEPT ![i] = EmptyIndex]
  /\ cmd' = [w \in Worker |-> IF Home[w] = i THEN Idle ELSE cmd[w]]
  /\ UNCHANGED <<disk, journal, ghost>>

UserDeletes(spot) ==
  /\ mounted
  /\ tree[spot] # NoFile
  /\ Spend("edit")
  /\ fate' = [fate EXCEPT ![tree[spot]] = "deleted"]
  /\ tree' = [tree EXCEPT ![spot] = NoFile]
  /\ UNCHANGED <<vault, mounted, journal, app, cmd, cargo, acked>>

(* a new file, or a new version of the one that is there                   *)
UserWrites(spot, file) ==
  /\ mounted
  /\ fate[file] = "unborn"
  /\ Spend("edit")
  /\ fate' = [f \in File |-> IF f = file THEN "alive"
                             ELSE IF f = tree[spot] THEN "deleted" ELSE fate[f]]
  /\ tree' = [tree EXCEPT ![spot] = file]
  /\ UNCHANGED <<vault, mounted, journal, app, cmd, cargo, acked>>

Unplug ==
  /\ mounted
  /\ Spend("unplug")
  /\ mounted' = FALSE
  /\ UNCHANGED <<tree, vault, journal, app, cmd, ghost>>

Plug ==
  /\ ~mounted
  /\ mounted' = TRUE
  /\ UNCHANGED <<tree, vault, journal, app, cmd, spent, ghost>>

TtlPasses(id) ==
  /\ manifest[id].status = "quarantined"
  /\ ~manifest[id].due
  /\ Spend("ttl")
  /\ manifest' = [manifest EXCEPT ![id].due = TRUE]
  /\ UNCHANGED <<disk, audit, app, cmd, ghost>>

-----------------------------------------------------------------------------
Init ==
  /\ tree = [s \in Spot |-> IF s[2] = 0 THEN Original[s[1]] ELSE NoFile]
  /\ vault = [id \in Id |-> NoFile]
  /\ mounted = TRUE
  /\ manifest = [id \in Id |-> NoRow]
  /\ audit = {}
  /\ phase = [i \in Instance |-> "down"]
  /\ rec = [i \in Instance |-> NoRecovery]
  /\ index = [i \in Instance |-> EmptyIndex]
  /\ cmd = [w \in Worker |-> Idle]
  /\ spent = [k \in Kind |-> 0]
  /\ fate = [f \in File |-> IF \E p \in Path : Original[p] = f THEN "alive" ELSE "unborn"]
  /\ cargo = [id \in Id |-> NoFile]
  /\ acked = [id \in Id |-> 0]

Reap(w) ==
  \/ StartReap(w) \/ ReadIdentity(w) \/ SkipItem(w) \/ JournalReap(w) \/ VerifyIdentity(w)
  \/ MoveIntoQuarantine(w) \/ MoveFails(w) \/ ConfirmReap(w) \/ EndReap(w)

Restore(w) ==
  \/ StartRestore(w) \/ StartUndo(w) \/ LookupEntry(w) \/ RestoreFromQuarantine(w)
  \/ TrySuffix(w) \/ RestoreFails(w) \/ ConfirmRestore(w) \/ EndRestore(w)

Purge(w) ==
  \/ StartPurge(w) \/ StartSweep(w) \/ PurgeFromQuarantine(w) \/ PurgeFails(w)
  \/ ConfirmPurge(w) \/ EndPurge(w)

Reconcile(i) ==
  \/ ProbeInFlight(i) \/ ResolveInFlight(i) \/ ProbeHeld(i) \/ ResolveHeld(i)
  \/ RecoveryStep(i) \/ RecoveryFails(i)

World ==
  \/ \E spot \in Spot : UserDeletes(spot)
  \/ \E spot \in Spot, file \in File : UserWrites(spot, file)
  \/ Unplug \/ Plug
  \/ \E id \in Id : TtlPasses(id)

Next ==
  \/ \E w \in Worker : Reap(w) \/ Restore(w) \/ Purge(w)
  \/ \E i \in Instance : Launch(i) \/ Reconcile(i) \/ Scan(i) \/ Crash(i)
  \/ World

Spec == Init /\ [][Next]_vars

(* A command that was started runs to its end and so does a reconciliation;
   a user who lost the application starts it again. Nothing is assumed of
   scans, of the user's commands or of the sweeper, which nobody starts.   *)
CommandStep(w) == (Reap(w) \/ Restore(w) \/ Purge(w)) /\ cmd[w] # Idle

Fairness ==
  /\ \A w \in Worker : WF_vars(CommandStep(w))
  /\ \A i \in Instance : WF_vars(Reconcile(i)) /\ WF_vars(Launch(i))

FairSpec == Spec /\ Fairness

-----------------------------------------------------------------------------
DiskOK ==
  /\ tree \in [Spot -> File \cup {NoFile}]
  /\ vault \in [Id -> File \cup {NoFile}]
  /\ mounted \in BOOLEAN

JournalOK == manifest \in [Id -> Row] /\ audit \subseteq Event

AppOK ==
  /\ phase \in [Instance -> {"down", "flight", "held", "up"}]
  /\ rec \in [Instance -> Recovery]
  /\ index \in [Instance -> [Id -> Candidate]]

GhostOK ==
  /\ fate \in [File -> {"unborn", "alive", "deleted", "purged"}]
  /\ cargo \in [Id -> File \cup {NoFile}]
  /\ acked \in [Id -> Nat]

(* Every variable keeps its type: ids stay in the range the index hands out,
   a restore never tries more names than RESTORE_SUFFIX_MAX_ATTEMPTS.      *)
TypeOK ==
  /\ DiskOK /\ JournalOK /\ AppOK /\ GhostOK
  /\ cmd \in [Worker -> Command]
  /\ spent \in [Kind -> Nat]

InTree(f)  == \E s \in Spot : tree[s] = f
InVault(f) == \E id \in Id : vault[id] = f

(* No rename into the quarantine directory lands on another file: the
   surrogate name of the file about to be moved is not taken.              *)
VacantSurrogate == \A w \in Worker : At(w, "rename") => vault[cmd[w].id] = NoFile

(* D4: a file leaves the disk only because the user removed it himself or
   because a purge erased it. Nothing else, no overwriting move, no crash
   between two steps, makes a content disappear.                           *)
NothingLost == \A f \in File : fate[f] = "alive" => InTree(f) \/ InVault(f)

(* No content is in two places: neither a restore nor an interrupted move
   leaves a second copy behind (reap_batch: no file is lost or duplicated). *)
NothingDuplicated ==
  /\ \A s, t \in Spot : tree[s] # NoFile /\ tree[s] = tree[t] => s = t
  /\ \A a, b \in Id : vault[a] # NoFile /\ vault[a] = vault[b] => a = b
  /\ \A s \in Spot, id \in Id : tree[s] # NoFile => tree[s] # vault[id]

(* Two reaps of one candidate at once, with a restore between, may leave its
   file in the directory under a row that says restored, or set that row back
   to quarantined; a crash between the move of a restore and its record is
   taken for an interrupted purge. The properties below name these two as
   their exceptions.                                                       *)
ReapedOnce == spent["reap"] <= 1

NeverCrashed == spent["crash"] = 0

(* Whatever lies in the quarantine directory has a row that promises it, so
   the user can find it and recovery can finish with it ("no orphan files"
   of the crash matrix).                                                   *)
NoOrphans ==
  ReapedOnce => \A id \in Id : vault[id] # NoFile => manifest[id].status \in {"in_flight", "quarantined"}

(* A content erased by a purge is either logged as purged, or the row it was
   erased under is still quarantined without a surrogate, which is what makes
   the next start log it.                                                  *)
DestructionIsAccounted ==
  ReapedOnce => \A f \in File : fate[f] = "purged" =>
    \E id \in Id :
      /\ cargo[id] = f
      /\ \/ manifest[id].status = "quarantined" /\ vault[id] = NoFile
         \/ \E e \in audit : e.id = id /\ e.op \in {"purge_manual", "purge_ttl"}

(* What reap_execute reports as reaped is what an undo will find, with the
   path the file came from, under the batch that was first reported for it:
   its own, unless an earlier reap of the candidate was reported and taken
   back in the same session. (The undo of the later batch does not find it
   then, though T-081 has it restore all of a batch.) An entry whose earlier
   reap came to nothing gets the batch of the one that succeeded.          *)
ReapIsOnRecord ==
  \A w \in Worker : \A id \in cmd[w].done :
    /\ manifest[id].batch = acked[id]
    /\ manifest[id].path = index[Home[w]][id].path

(* A row says purged only of a file that is no longer on the disk.         *)
PurgedMeansDestroyed ==
  NeverCrashed => \A id \in Id :
    manifest[id].status = "purged" => ~InTree(cargo[id]) /\ ~InVault(cargo[id])

(* Nothing got in the way of a command or of a reconciliation: no journal or
   file-system call failed, the user left the files alone, and the volume stayed
   where it is. Crashes, and commands at the same time, are no exception.   *)
Smooth == \A kind \in {"fault", "edit", "unplug"} : spent[kind] = 0

(* While the application runs and no command does, a row is quarantined
   exactly when its surrogate lies in the quarantine directory, and an
   abandoned row never hides one; a restart makes it so again.             *)
Settled ==
  /\ ReapedOnce
  /\ Smooth
  /\ \A w \in Worker : cmd[w] = Idle
  /\ \A i \in Instance : phase[i] = "up"
  => \A id \in Id : manifest[id].status = "quarantined" <=> vault[id] # NoFile

(* The life of an entry: reaped, then restored or purged, once and for all;
   only an entry whose move never happened is forgotten.                   *)
Legal == {<<"absent", "in_flight">>, <<"in_flight", "absent">>, <<"in_flight", "quarantined">>,
          <<"quarantined", "restored">>, <<"quarantined", "purged">>}

StatusOrder ==
  [][\A id \in Id : LET was == manifest[id].status
                        is  == manifest'[id].status
                    IN ReapedOnce /\ was # is => <<was, is>> \in Legal]_vars

(* When a reconciliation ends without an error, no reap is left in flight,
   and no row promises a file that is not there (the crash matrix after a
   restart). An unreachable volume proves nothing about its files.         *)
RestartIsClean ==
  [][\A i \in Instance :
       phase[i] = "held" /\ phase'[i] = "up" /\ rec[i].held = {} =>
         \A id \in Id :
           /\ manifest'[id].status # "in_flight"
           /\ manifest'[id].status = "quarantined" /\ spent["unplug"] = 0 => vault'[id] # NoFile]_vars

(* Every command comes to its end.                                         *)
CommandsReturn == \A w \in Worker : cmd[w] # Idle ~> cmd[w] = Idle

(* A reap that a crash interrupted does not stay in flight, unless the user
   or a fault left recovery two copies of its file, or none.               *)
InterruptedReapResolves ==
  \A id \in Id : \A i \in Instance :
    phase[i] = "down" /\ manifest[id].status = "in_flight"
      ~> manifest[id].status # "in_flight" \/ spent["edit"] + spent["fault"] > 0

(* Two-phase deletion as the user understands it.                          *)
Abstract == INSTANCE SafeDelete WITH
  state <- [f \in File |-> IF InVault(f) THEN "held" ELSE IF InTree(f) THEN "live" ELSE fate[f]]

(* Every step of the quarantine is one step of a safe deletion, or none.   *)
DeletesSafely == Abstract!Spec
=============================================================================
