# TLA+ models of TrashRadar (file-reaper)

TrashRadar finds files its user may want to be rid of, shows them by category
with previews, and deletes them in two phases: a file is first moved into a
quarantine directory on its own volume, under a journal, and erased later. The
core is Rust (`src/core`), the shell is a Tauri application (`src/core/shell`),
the user interface is TypeScript (`src/ui`).

This directory holds TLA+ models of the parts whose correctness depends on the
order of events: threads, crashes, stale copies, caches. TLC checks them on
small instances and TLAPS proves the main invariants for all of them.

| module | what it is |
|---|---|
| `SafeDelete` | what two-phase deletion promises about each file (abstract) |
| `Quarantine` | reap, restore, undo, purge, sweep, recovery at start, over disk and journal; implements `SafeDelete` |
| `QuarantineProofs` | its proofs: losses and copies, refinement; one instance, overlapping commands, recovery; what purged files came to, the record of what was reaped, coming to rest |
| `Duplicates` | the duplicate cascade: stages, hash cache, threads, I/O gate, cancellation |
| `DuplicatesProofs` | its proofs: identity, completeness, reads |
| `ScanSession` | scan sessions, live totals, decisions, changes of settings over one index |
| `ScanSessionProofs` | its proofs: sessions, types, decisions, the duplicate that stays, the live totals |
| `PreviewScheduler` | the queue, the workers and the table of running preview jobs |
| `Preview` | the preview pipeline over it: commands, jobs, disk cache, events, hooks of the UI |
| `PreviewProofs` | proofs about both |
| `Paths` | paths as sequences of names, and how the code compares them |
| `Detectors` | the detectors and the orchestrator that judges a record by them |
| `FolderUnits` | units of whole folders: empty, `node_modules`, build output, Unity |
| `MemoryIndex` | the in-memory index: interned parents, inserting, upserting by path or id |
| `VolumeScan` | one scan of the volumes: worker threads over a tree, or two passes over an MFT |
| `VolumeScanProofs` | its proofs: ways to the root, paths, the walk's threads, what a session delivers |
| `VolumeSurvey` | the scan composed with index, detectors, folder units and totals |
| `VolumeSurveyProofs` | its proofs: the index, categories, totals, folder units |
| `ChangeMonitor` | the USN journal of a volume, the monitor's tick, index, rows and cursor |
| `ChangeMonitorProofs` | its proofs: plans, the user's operations, index and rows |
| `Settings` | a change of settings: screen, command, file, settings in use, background recalculation, a scan beside it |
| `SettingsProofs` | its proofs |
| `MCQuarantine`, `MCDuplicates`, `MCScanSession`, `MCPreview`, `MCVolumeSurvey`, `MCChangeMonitor`, `MCSettings` | instances for TLC; one `.cfg` per run |

Run one with `tlc -config MCPreview_hooks.cfg MCPreview`, prove one with
`tlapm PreviewProofs.tla`. `PROJECT.json` lists runs, theorems, hazards and, for
every definition, the source lines it stands for.

## 1. The system

### Quarantine (`core/app/src/quarantine.rs`)

*State.* The journal (`quarantine_manifest`: entry id, original path, batch,
status, expiry) and the audit log in SQLite; the quarantine directory
`<volume>\.trashradar\quarantine` with one surrogate name per entry; the user's
directories; per application, the index from which candidate ids are resolved.

*Operations.* `reap_execute` (for each id, which may be any of the index: identity from the
index, journal row `in_flight`, verify size and time, rename, confirm), restore by entry and undo by
batch (with suffixed names if the place is taken), manual purge, the sweep of
expired entries, and the reconciliation at every start, which resolves
`in_flight` rows by where the file is and logs purges that a crash interrupted.

*Interactions.* Commands run on blocking threads of the shell with no lock
between journal and file system; the gateway is `infra/quarantine-fs`; ids come
from the scan session (`Quarantine` models as much of a scan as hands out ids).

*Hard.* A crash between any two of these steps; overlapping commands; the user
editing, removing or creating files meanwhile; an unplugged volume; failing calls.

*Correct means.* No file disappears unless the user or a purge removed it, none is
in two places, everything in the directory has a row, every destruction is
logged, what a reap acknowledges is on record with its path, a restart leaves no
half-done reap.

### Duplicate cascade (`core/app/src/duplicates`, `infra/hash`)

*State.* A snapshot of the index, hash results of stages 2 and 3, the hash cache
(one entry per path, valid for a size and a time), per-volume permits, the
threads of stage 3, the figure shown for the category.

*Operations.* Grouping by size, then by head and tail, then by content; a cache
lookup before each read and a merging store after it; `acquire` and release of a
volume's permits; cancellation.

*Interactions.* Called by a scan session; its groups become `Duplicates`
candidates. The cache outlives the cascade.

*Hard.* Files change between scan, stage 2, stage 3 and the next cascade;
cancellation while threads wait at the gate; errors while permits are held.

*Correct means.* Files of a confirmed group are identical, all duplicates are
found, reads are bounded, nothing is hashed twice, every cascade ends.

### Scan session (`core/shell/src/scan_runtime.rs`, `app/src/scan_control.rs`, `aggregator.rs`, `decisions.rs`)

*State.* `ScanController` (flag and token), the in-memory index, the live totals,
the groups of the last cascade, the current settings; per session thread its
copies of records.

*Operations.* `scan.start` with its thread (batches, categorisation, cascade,
folder units, end), `scan.stop`, keep and mark, `settings.set` with a
recalculation thread of its own.

*Interactions.* Everything shares the one index and the totals, each under its own
lock, held for one call at a time.

*Hard.* Records are read, changed in a copy and written back whole; index and
totals are updated separately; a session may be cancelled or fail at any place.

*Correct means.* One session at a time and it can be stopped; it always frees the
controller; decisions stand; one copy of each duplicate is never offered; totals
and index agree in the end.

### Previews (`core/app/src/preview.rs`, `shell/src/preview_runtime.rs`, `ui/src/store/preview.ts`)

*State.* The scheduler's queue, table of running jobs and flags under one mutex
with one condition variable; the preview files and their entries in SQLite; the
slot of each `preview.large` command; listeners and the thumbnail cache in the UI.

*Operations.* `preview.thumbnail`, `preview.large`, `preview.prefetch`; the jobs
they submit (draw, encode, save, deliver); hooks that mount, listen, ask and
unmount; the drop of the scheduler.

*Hard.* A picture may be ready before, while or after its command answers; files
change while they are drawn; two jobs of one key run at once; wake-ups; faults.

*Correct means.* Every hook that waits is served, no task waits beside a sleeping
worker, the table names running jobs, the cache never takes an old picture for a
current one, and shutdown ends.

### Scanners, detectors and index (`infra/scan-walk`, `infra/scan-mft`, `app/src/detectors`, `infra/index-memory`)

*State.* Of a walk: a shared queue, a stack per thread, a counter of folders that
are held anywhere; of an MFT reading: the tables of the first pass. The batch
under way; the index's records and interned parents; per detector what it has
gathered.

*Operations.* Per volume the choice between walk and table, the exclusions, the
scan, its batches; per batch numbering, insertion, categorisation, totals; after
the session the units of whole folders, one group per detector; keeping a
candidate; new settings.

*Interactions.* The scanner calls the session back with each batch; the session
writes index and totals; the folder pass reads the whole index and the folders
the scanners saw.

*Hard.* Threads that share folders and have to agree that nothing is left;
unreadable folders, corrupt, orphaned and cyclic records; a stop or an error
half-way; the same path as file and as unit; categories set by several passes.

*Correct means.* Every reachable file is delivered once; a folder offered as empty
is empty, one offered as safe is not worked on; a unit's size is what its files
take; category, index and totals agree; a scan ends.

### Change monitor (`change_monitor.rs`, `usn_apply.rs`, `usn_fallback.rs`, `infra/scan-usn`)

*State.* The saved cursor, the persistent rows, the hot index, a cache from
record numbers to paths, and the delta being worked on.

*Operations.* A tick: query, read in chunks, plan, apply, prune rows, keep the
cursor; the fallback to a full scan; a scan, whose end captures a new cursor.

*Interactions.* With NTFS only. Nothing in the shell starts the monitor
(`events.rs:94`); the rescan benchmark is the one program that wires it to a scan.

*Hard.* Two records for one rename, in one delta or in two; folders of unknown
path; failures between any two steps; a journal that loses its oldest records or
is recreated while it is read.

*Correct means.* A monitor that has caught up shows the disk; the quarantine never
enters the index; what the index has dropped does not come back from the rows;
lost records lead to a rescan.

### Settings (`shell/src/ipc.rs`, `infra/settings-json`, `domain/src/settings.rs`, `SettingsScreen.tsx`)

*State.* `settings.json`, which holds what differs from the defaults;
`SettingsRuntime.current`; the scan's own copy (`ScanRuntime.settings`); what the
screen shows; the categories, marks and totals that were made under some settings.

*Operations.* `settings.set` with all of the settings, `category.set_threshold` with one
field: validate, save through a temporary file, exchange, hand over, emit
`settings.changed`, start the recalculation, answer. Loading and migrating at start.

*Interactions.* The screen shows a change before it sends it and takes it back if
the answer is an error; a scan reads its copy once, at the start of its thread.

*Hard.* Copies of one thing, written in separate steps by commands that may
overlap; failing saves; crashes between the steps; events that come later than
answers; recalculations that end in any order and beside a scan.

*Correct means.* When all is quiet the copies agree with what was acknowledged
last, through crashes and errors, and the numbers follow them.

### Not modelled, and why

- **Worker pool** (`workers.rs`): queue, cancellation, shutdown. Used by the
  `spawn_*` variants that only tests and benches call.
- **Disk forecast**: a formula over a history of samples, without state or order.
- **Of the index**: search, windowed queries, `GetByIds` and the compaction of
  strings, which only read or keep what is read unchanged; the "also in" marks.
- **Of the scans**: parsing of raw NTFS records (what a record may turn out to be is
  modelled), progress figures, the prompt for elevation, how the location registry
  is loaded (its paths are constants).
- **Of the settings**: the number of the quarantine's schedule, which nothing reads, and
  the commands about the size of the caches.
- **Tauri plumbing, logging, presentation**: serialisation and layout.
- **Scrub strips, ffmpeg, decoders**: `generate_from_chain` is one step that
  yields a picture or fails.

## 2. Plan

In order of importance; 1 to 7 are done.

1. `SafeDelete`, `Quarantine`, proofs: the promise that no file is lost.
2. `Duplicates`, proofs: what "identical" is worth when files change.
3. `ScanSession`, proofs: who may write what the user sees. `Duplicates` refines
   its action `Hash`, and `Quarantine!Scan` abstracts it.
4. `PreviewScheduler`, `Preview` (composition by `EXTENDS`), proofs.
5. `ChangeMonitor`, proofs: index, rows and journal of one volume against its disk.
6. `Paths`, `Detectors`, `FolderUnits`, `MemoryIndex`, `VolumeScan`, composed in
   `VolumeSurvey`, proofs: what a scan delivers, from the disks to the totals. It is to
   `ScanSession` what one thread is to many: the batch that is one step here is
   interleaved there, the constant table of hits there is computed here.
7. `Settings`, proofs: the copies of the settings, and what is computed from them.
   Where `ScanSession` has decisions and duplicates under one change, this has two
   changes, the file and the screen.
8. `WorkerPool`: every submitted job runs or is reported dropped; shutdown ends.
9. A composition of `ScanSession` and `ChangeMonitor` over one index with removal,
   for the day the shell starts the monitor.
10. Proofs still to be written: the refinement of `ScanSession!Hash` by
   `Duplicates`.

## 3. How the models correspond to the code

### Quarantine

`tree` is the user's directories: spot `<<p, 0>>` is path `p`, `<<p, n>>` the n-th
name `restore_destination` derives. `vault` is the quarantine directory by entry
id. Each journal transaction and each file-system call is an action, in the order
of the code, and between two of them anything may come. A worker's `cmd` is the
local state of one command (`pc`, the ids left, the identity it has read).
`StartReap` takes any ids of the index (`Indexed`), as `reap_execute` does, those of
candidates reaped and restored earlier in the session included. `acked` is a history:
under which batch a reap first reported each entry.
`InsertEntry` is the upsert that touches only `in_flight` rows;
`ConfirmWithAudit` updates whatever row there is. `Crash` stops an instance: its
commands are gone, disk and journal stay. `Launch` and `Reconcile` are the
reconciliation at start. Content is identified with its size and modification
time, so a modification in place is a deletion and a new content: this is what
`FileIdentity::validate_unchanged` can see. Abstractions: one volume; files and no
folder units (their partially failing removal is not modelled); restored files
under suffixed names are not scanned again; the two existence tests of
`recovery_location` are one step; SQLite's `synchronous=NORMAL` is taken to be
durable for a death of the process, not for a loss of power.

### Duplicates

A hash stands for what it is computed from: `Edge[c]` for head and tail,
`c` for the whole. Reading a file is one step, with the outcomes it can have if
the file has grown, shrunk or gone since it was recorded. A scan and the
beginning of a cascade are one action. The code breaks ties of priority by order
of arrival; the model lets any go first. `cache` merges as `put_entry` does.
Stage 3 is its parallel form, `halted` its `cancelled_flag`. `stale`, `failed` and
`hashed` are history variables for the properties.

### ScanSession

Steps are the sections in which one lock of the index or the totals is held, or in
which a thread works on a copy of its own (`run[c].held`, `apply[k].held`). The
cascade is the steps `Snapshot`, `Hash`, `Promote`, `Recount`, `Store`, of which
`Hash` chooses any outcome `Duplicates` can have without edits. A decision is two
steps, `Decide` on the index and `Total` on the totals. Merged: clearing the
totals and reading the settings; two reads of the index by one thread with
nothing between them that matters. Folder units come in rounds, one for each detector
in its turn (`finder`, of which the code has four): `CountUnits` puts what it has found
into the totals, `InsertUnits` into the index. A unit is what one detector finds in
one folder, so it has an id of its own, while the index goes by the folder (`Lies`) and
keeps the later unit. Left out: `also_in` markers, progress events, what each volume's scanner
does (a failing volume is one that delivers fewer files).

`raced` holds the ids decided while some thread held a copy of the record to write
back; `muddled` says that two threads have written the totals at once, or a
decision fell between a thread's reading and its counting. Both name the
exceptions of a property, so that the rest can be checked.

### Preview

A version stands for size and modification time; each edit gives a new one (a file
brought back to exactly its former size and time is excluded, the code cannot tell
either). `content[pic]` is the version a preview file shows, `entry[pic]` the one
its row is valid for, and `shape[pic]` whether the file is whole, being written or torn.
`PreviewScheduler` has one action per critical section of
its mutex: `SubmitJob` with `notify_one`, `Take`, `Sleep`, `Finish` with
`notify_all`, `Drop`; `Wake` is a spurious wake-up. Scores with ageing are reduced
to what time can do: a task may overtake what is behind it or of lower priority,
never an older one of its own priority or a higher one (`Eligible`). A job is
`Draw` (the chain of sources and the encoder), `OpenPicture`, `WritePicture` and
`PutEntry` (`save_preview`: the file is emptied where it lies, is filled, and gets its
entry), `Show`, `Finish`, with `GiveUp` where the token is
looked at and a failure at each place; one between emptying and filling tears the file, and
so may two jobs that write it at once (`Rivals`). A pane's command has a slot, filled until
`Seal`. The UI's hooks follow `useThumbnail` and `useLargePreview`, including who
stops listening when. Priority P3, `cancel` and `delete_previews` have no caller in
the shell and are left out, as are scrub strips and metrics. The look-up (row,
existence, reading) is one step. Left out too: commands whose look-up or answer fails, a
reading of the large file that fails when it is delivered (`preview_runtime.rs:583`), and
a worker that drops the last reference itself. `Exit` is the
drop of the last reference, with the windows gone and no command about to use the
scheduler. `broken`, `missed`, `crossed` are histories that name the exceptions of
`EveryHookServed` and `TrueUnlessCrossed`.

### VolumeScan and VolumeSurvey

A disk is a sequence of entries with a parent each, which is an MFT and, read from
the root, a tree. `walk` has the shared queue, each thread's stack and `inflight`;
`Take`, `Open`, `Share`, `Leave`, `GoHome` are the sections of `worker_loop`
between two of its synchronisations, so that a thread may find the queue empty
while others still hold folders. A table is read in `PassOne`, then in chunks with
`Between` (the look at the token), `Push` fills the batch, `Finish` flushes the last one;
`Resolve` follows parents up to `MaxDepth` and `Below` stops at what is broken.
`Call` hands a batch over and `OnBatch` is what the session does with it,
in one step: the interleavings inside it are `ScanSession`'s. The index is the
sequence of packed records over a table of interned parents; `UpsertBatch` writes
over the record of the same id or path as the code does, loops included.
`Detectors!Hits` is the list of answers in the order of the farm; `Judged` and
`Categorised` are the two traversals of the orchestrator. `FolderGroups` computes
the four groups of units. Abstractions: names stand for all their spellings;
dates are days; what the file name says is given by the constant `Kind`; a failing
volume fails at its opening or at a read; one keep and one change of settings, to others
or to the same, after which `phase` is "judged again": folder units have lost their
category then, as in the code. The cache of the table's path resolver is left out: it
may find a path deeper than `MaxDepth` when a folder on it has been asked for before.
What a scan must find (`Findable`) is defined beside the scan, from the disk alone.

### ChangeMonitor

`unread` are the journal's records behind the cursor; each user action appends the
records NTFS would (`open` gathers reasons until the file is closed). `Query`,
`ReadChunk`, `EndRead` are the calls of `read_delta`, each of which may fail or
find the journal lost; `Plan` is `plan_usn_mutations`, whose loop over the delta is the
recursive function in `Planned`, with the path cache it leaves behind; `ApplyHot`, `Prune` and `Commit` are
`process_usn_sync`. `FallBack` clears cursor and cache, after which `ScanDisk` and
`Capture` are the caller's rescan: the disk is looked at in one step and the cursor
captured in a later one. Abstractions: one volume, folders one level deep, file
contents are version numbers, a record of the index is the content it was made
from. `ghost` and `doubtful` are histories that name the exceptions of
`IndexFollowsDisk`.

### Settings

Settings are three fields: `plan` stands for those no detector reads, `threshold`
for those one does, `alien` for a threshold its detector does not have, which only
a file edited by hand contains. A file is absent, of this version, of the one
before (migrated by the start that reads it), foreign (a later version or not JSON) or
torn, which no step of the code makes. `cmd[c]` is one call of either command with its
stage; `Wanted` is where the two differ: a row's field is put into the settings the
core has, the screen sends its own. `Tell` is the event, the start of the task and the
return, of which nobody can see the order. `job[c]` is `apply_settings`, a step per
lock it takes. A record is the threshold by which its category (`judged`), mark
(`marked`) and part in the totals (`counted`) were made, which tells what they were
made from and not what they are. The history `acked` is what the user
was last told, `astray` why parts may disagree: `"commands"` that overlapped (before the
last one's event had arrived), `"work"` of theirs or a scan that did, or a failed
migration (`"load"`); a change that is alone from its beginning to the end of its
recalculation removes them. Abstractions: a scan starts over an empty index only and
its batch is one step; temporary files are nobody's afterwards.

## 4. The runs

| run | instance | properties |
|---|---|---|
| `single` | 1 application, 1 command at a time, 2 files on 2 paths and 1 content the user may write, 2 ids, 2 reaps, 1 crash, 1 edit, 1 fault, 2 names per restore, fair | `VacantSurrogate` `NothingLost` `NothingDuplicated` `ReapIsOnRecord` `RestartIsClean` `DeletesSafely` `CommandsReturn` `InterruptedReapResolves` |
| `race` | 2 commands at a time: 2 reaps, or 1 reap with 1 expiry, 1 crash and the volume unplugged and back | `PurgedMeansDestroyed` `Settled` `NoOrphans` `DestructionIsAccounted` `StatusOrder` |
| `restart_loses` | 2 scans, 2 reaps, 1 crash | `NothingLost` is violated |
| `dup_cascade` | 3 files on 2 volumes, 3 contents of which 2 differ only in the middle, 2 threads, 1 read per volume, 2 cascades, 1 edit, 1 upset (omission, failing read or cancellation), fair | `ReadsBounded` `IdenticalUnlessRehashed` `AllDuplicatesFound` `NoRehash` `CascadeEnds` |
| `stale_hash` | the same with 2 scans and 1 edit only | `ConfirmedMeansIdentical` is violated |
| `session` | 2 sessions, 1 change of settings, 2 copies of a file, 1 folder that 2 detectors may find, 3 acts of the user, fair | `OneSession` `DecisionsStand` `OneCopyStays` `TotalsAgree` `SessionEnds` |
| `lost_keep` | 1 session, 2 acts | `KeepStands` is violated |
| `pictures` | 1 file with 2 versions, 1 tile, 1 pane, 2 workers, 2 commands, 1 fault | `WorkConserving` `TableIsCurrent` `TrueUnlessCrossed` |
| `hooks` | the same as `pictures` with 1 version, fair | `EveryHookServed` `ShutdownEnds` |
| `survey` | 5 worlds of 1 or 2 volumes, walked by 3 threads or read from the table, 1 fault, 1 keep, 1 change of settings, a stop at any time, fair | `ScanDelivers` `UnitsTrue` `UnitsFree` `TotalsTrue` `CategoriesFollow` `SurveyEnds` |
| `monitor` | 2 files, 1 folder with 3 names (the quarantine's among them), 2 contents, a journal of 2 records and the pair that crosses the bound, 1 fault, fair | `IndexFollowsDisk` `QuarantineUnseen` `RowsFollowIndex` `CatchesUp` |
| `settings` | 2 changes, of 2 fields with 3 and 2 values of which 1 is refused; 1 record, a scan, 1 crash, 1 failing call; 2 kinds of file at the start | `SettingsAgree` `WorkFollows` |

Types are proved of `Quarantine`, `Duplicates`, `ScanSession`, `Preview`, `ChangeMonitor`
and `Settings`; the `TypeOK` of
the other modules says what the variables are and is no property of a run.

`CHECK_DEADLOCK FALSE` everywhere: all of these systems may come to rest, with the
bounded events used up and the user doing nothing.

### Bounds

*Quarantine.* `Limit` bounds each kind of event per behaviour. Two ids and two paths
are what it takes for two entries to meet; two reaps for a retry and for an id met
again; one crash per behaviour falls between any two steps. The 100 names of a restore are
2, so that running out of them happens. *Duplicates.* Two files make a group, the
third is the one that must not join it; the limit of 2 reads is 1, so that a thread
waits with two threads. Two cascades: the second meets the cache of the first.
*ScanSession.* Three acts allow start, decide, change; start, stop, start; or decide
twice. Properties over candidates are stated for the first session (`FirstScan`),
because ids repeat from the second on (section 7). Two detectors of the code's four are what
two units of one folder need. The settings at the start have the duplicates section
switched on, the others do not. Calls of `scan.start` differ in nothing but their order,
so `InOrder` lets the second be `s2`: any behaviour is one of these with its sessions
renamed, which no property notices, and fairness speaks of sessions that have begun.
*Settings.* Two changes are what overlaps, and
what a change alone mends; one record tells every disagreement of its three numbers,
as those of all records are written at once. *Preview.* Two workers are what the
shell starts. Two commands are what two jobs of one key, or of one picture, need;
two versions are one edit. `hooks` keeps one version: what a hook is shown, not of
which version, is its question. With two panes and no tile both properties hold
as well; that instance is not a run of its own. *VolumeSurvey.* Batches of 2 and
chunks of 5 stand for 2000 and 1000 (and what fills a buffer), so that both end
within an entry, at one, and partly filled; chains of 4 for 1025 (`paths.rs:73`,
`walk.rs:544`), which a cycle of two exceeds. Three threads are what it takes for one to leave while two share.
The worlds are a walked tree with excluded, sealed, cloud and junction folders; a
table with corrupt, free, orphaned and cyclic records and metafiles, an excluded
path, a file named like an artifact, an old and an active project and a
cache; two volumes of which one is asked for twice beside one that is barred; one
that is excluded whole; and one where all are refused. *ChangeMonitor.* Two files:
a path may be left by one and taken by the other within a delta; one rename
is a delta of two records; chunks of 2 leave a delta that ends within a rename
(`MaxRecords` is checked before an operation writes, so a rename may be the second).

### Fairness

*Quarantine*: a command that runs goes on, so does a reconciliation, and the
application is started again; nothing obliges the user to do anything, and the
sweeper is started by nobody. *Duplicates*: threads go on, reads return, and the
gate polls its permits and the token every 50 ms (`volume_limit.rs`), so weak
fairness of each thread is enough. *ScanSession*: a session's thread goes on.
*Preview*: workers, commands and delivery of events go on, because decoders end (a
panic is caught) and Tauri delivers emitted events to a live window. Workers are
weakly fair, not `Wake`: nothing relies on spurious wake-ups. *VolumeSurvey*: the
session's thread, its callback and each thread of a walk go on; no user acts and no
read fails because it must. *ChangeMonitor*: the thread ticks until it is stopped
(`change_monitor.rs:184-238`), and a rescan that was asked for is made, which is the
caller's part (`FullRescanRequired`).

## 5. What is proved

All proofs are for any values of the constants that satisfy the named assumptions
(`ConstantsOK`, `SchedulerConstantsOK`, `PreviewConstantsOK`, `SettingAssumption`,
`MonitorConstantsOK`, `NoneOK`, `VolumesOK`, `BoundsOK`, `WorldOK`): mostly that "none" values are not members
and that sets of threads are finite.

**Quarantine.** `TypeCorrect`: types, by the stronger `Typed` (a command in the
middle of an item holds an id and, where it has one, a path of the index).
`NothingLostIfVacant` and `NothingDuplicatedIfVacant`: if no rename into the
quarantine ever finds its name taken, nothing is lost or duplicated, with any
number of instances, overlapping commands, crashes and faults. The invariant is
`OnePlace`: a living content is in exactly one place, a dead one in none. Each part
is needed for the others: that a move leaves one copy relies on there having been
one, and that an erasure is a legal end relies on dead contents lying nowhere. `VacantWithOneCommand`: with one worker
and at most one scan in the life of the journal the condition always holds, by
`OneScan`: nothing is reaped before the scan, and what lies under a surrogate name
is the file the index has under that id, unless the user changed that file between
the comparison and the rename; hence `NothingLostWithOneCommand`. `RefinesIfVacant` and
`RefinesWithOneCommand`: under the same conditions every step maps to a step of
`SafeDelete` or a stutter.

The second part of `QuarantineProofs` assumes one instance (`OneInstance`: the reconciliation of a second
one does break these, section 7), and lets its commands overlap. `Life` holds as long as one `reap_execute`
has been started in the life of the journal (`ReapedOnce`): what a command
still has to reap is untouched; a row in flight whose rename is due has an empty
surrogate; one worker at most is between taking a surrogate out and its record,
and until then the row says quarantined; an entry without a promise
has no surrogate; a reconciliation has journal and directory to itself. Every step of a
worker is `Lawful`: it changes one entry, in one of three ways, and `OthersOrderly`
says once for all steps that this leaves what the other workers know true. Hence
`EntriesInOrder`, `NoOrphanEver`, and, as a rename then always finds its name free,
`NothingLostWithOneReap`, `NothingDuplicatedWithOneReap` and `RefinesWithOneReap`, with any number of
workers, scans, crashes, faults and edits. Two reaps are what `restart_loses` needs to lose a
file, so the bound is sharp. `CleanAfterRestart` needs no bound: `Cleaning` says
that what is in flight is on the list of the reconciliation, and that a row
promises a file that is there or is on the other list.

The last part is about what becomes of files. `Fate` says where every content came to: what lies
under a surrogate name is what was last moved there (`Carried`), a file is in one
place (`OnePlace`), an erased content belongs to an entry whose purge is logged or whose
row still promises a file that is gone, which the next start logs (`Accounted`), and
as long as nothing crashed a purged row's file is nowhere (`Destroyed`). It gives
`DestructionAccounted` and `PurgedIsDestroyed`; the latter needs to know of `Life` that a
worker which took a surrogate out is the only one, or its late record could fall on
another's. `ReapsOnRecord` holds under two conditions on the
behaviour: the journal has seen one scan (`ScannedOnce`) and reaps do not overlap
(`ReapsApart`), with any number of them, of one candidate too. It says that each entry a
reap reports has the candidate's path and the batch first reported for it. `Undoable` says
why: the row of a candidate awaits its reap, being absent or in flight, until one is
reported, and from then on has that batch and that path (`Entered`), because the upsert
leaves it alone whatever is reaped again; what a reap has listed as done no longer awaits
one (`Remembering`); and the recovery forgets only rows in flight, which no reported reap
has. That the batch is always the reap's own is not true (section 7, second reap). `SettlesDown` speaks of
histories without failing calls, edits and unplugging (`Smooth`) and one reap; `Calm`
follows each entry through the commands that may have it half done: a row in
flight, a surrogate on its way or a list of a recovery accounts for every
disagreement of row and directory (`Placed`, `Attended`), no command works on stale
information (`Aware`, `Findable`), so that at rest there is none.

**Duplicates.** `TypeCorrect`. `ConfirmedIdentical`: `IdenticalUnlessRehashed` for any
number of cascades; the invariant `Identity` says that a cached hash of the
content is that of the file unless the file is `stale`, that a result of stage 3 is so too
as long as the file is as recorded, and that groups are made of such results. `LimitKept`: permits in use
are exactly the threads that read, and never more than the limit (`Permits`). `FindsAll`
is about what is not lost: `Search` follows two files of one content through the stages.
Until they are confirmed both are in what the stage has still to do or in its
results, with the hash of that content, unless one was changed, failed or was
cancelled; that a stage drops neither needs `Identity`, since a cached hash is trusted.
`HashedOnce` (an action property) comes from the same invariant: the threads' list holds
only files whose cache entry does not answer.

**ScanSession.** `SessionsExclusive`, by `Held`: the flag is up
exactly while some session holds it, there is one such session, and between taking
its token and dropping it the token is its own. `TypeCorrect` by `Typed`, which adds to
the types what each stage holds. The other three are about the first scan
(`FirstScan`, see Bounds), any number of files, detectors, decisions and changes.
`Recorded` adds `Rows` (records differ in path and id, ids in the index are below
the next one, units in it are of detectors whose turn has been), `Traced` (what a thread
holds comes from records that are still there, or of which another detector's unit has
taken the place) and
`Wanted` (a copy about to be written back says of an item what the index says, and
that is what the user said, or the item is `raced`); `DecisionsHold` is its last part, and is
not inductive without the copies. Then there is `Grouped` (groups are disjoint, hold
records of the same content, and who is or is about to be
marked a duplicate is a member of one other than its kept copy) for `CopyStays`. `Tallied` adds, unless `muddled`, `Lone`
(one thread works on the totals, one decision at most is on its way, and
no thread holds what has been decided since) and `Counted` (the totals agree with the index
except for what the thread at work is about to count, stage by stage) for
`TotalsFollow`. A unit that has been replaced (`Passed`) leaves a share in the totals that
nothing corrects; that detectors have turns, in which a folder is found once, is why the
share of the one that stands is right, and why no other is left behind.

**Preview.** `Inv` is the conjunction of types, `Called` (each task is of a command
that was made and knows a version), `Kept` (what a delivering job has saved is
there, and a file that is being written has a job that writes it), `SchedulerInv` (no lost wake-up, a current table, an empty queue after the
drop), `Ages` (no picture or entry is younger than the file, and a job's picture not
older than its date) and `Saves` (unless jobs crossed, a picture is at least as
new as its entry, a job between file and entry has its own picture on the disk, and
jobs that save the same picture at once have drawn the same version). `TrueUnlessCrossed`
excepts torn files, as it must (section 7). Its theorems are `TypeCorrect`,
`NoLostWakeup`, `TableCurrent` and `CacheTrue`. `WorkConserving` alone is not
inductive: one has to know that `Take` removes a looking worker together with a
task, and that a drop empties the queue.

**Settings.** `TypeCorrect`, and `Agreement`: `SettingsAgree` for any number of commands,
crashes and failing saves. The property speaks of quiet states only and says
nothing of how one gets there, so `AgreeInv` follows the one command that can have
no rival (`Trusted`: nothing is astray, or it was alone when it began) through its
stages. `Lonely`: beside it nobody runs. `Progress`: file and settings in use are its own
from the stages on that write them, and no event is on its way before its own. `WayBack`:
until it saves, those acknowledged last stand, and an error finds the way back. `JobAlone`
is what lets a change made alone clear `astray`: while its job has been alone,
its command has reached the answer or all agree on its settings. While the
application is down, the file holds what was acknowledged or what a
command wanted that died (`WhileDown`). `WorkInStep` is `WorkFollows` by `WorkInv`: a
recalculation that has been alone since its change was saved carries the settings in use,
and has written category, mark and totals as far as its stage says; a scan that has met
no change reads its batch by them too; whatever else happened is `astray`.

**ChangeMonitor.** `TypeCorrect`, `IndexFollows`, `NeverSeen` and `RowsFollow`, for any
files, folders, names and volumes and a journal of any length, from the invariant `IInv`
(`MonitorInvariant`). `IndexFollowsDisk` speaks of a monitor that has caught up; what it
owes that to while it has not is `Kept`. As long as the journal still has what lies
behind the cursor (`Synced`), a path that no unread record is about is right
already, and one that no record behind the delta at hand is about will be right
once what has been planned is applied (`Then`, `RowThen`). Nothing is said of a path with records
to come, so a delta that is applied twice does no harm. Two things carry this.
`Journalled`: of each path that is not doubtful, the last unread record says whether a file is there
now. Each operation of the user keeps it, because each is a step
`Logs(recs)` (records appended, at most those paths changed on the disk that they name),
for which `LogsKeep` proves all of the invariant at once; what is left for each operation is to show
that it is such a step. And `PlanIs`: in any plan the last record about a path decides what comes
of it (`Fate`), and the cached paths lie in the folders they were learned from. It is proved record by
record, for which `Written` says that the two halves of a file's rename are neighbours; a
delta that was cut between them still leaves the old path among its removals. `Unseen` follows the quarantine through
delta, rows and rescan, and `Control` relates cursor, unread records, the delta being read
and the rescan being made.

**VolumeScan and VolumeSurvey.** `ScanDeliversAlways`, `CategoriesFollowAlways`,
`TotalsTrueAlways` and `UnitsTrueAlways`, for any disks (cycles, orphans, corrupt records, links and all), any
exclusions, settings and detectors switched on, and any number of walking threads.

`Delivery` is the invariant of the session. With `got` the facts it has delivered, `got`, the batch
handed over and the batch being filled tell exactly what the records it is done with
tell (`Exact`), and no path is told twice (`EachOnce`). What is delivered at the end of a
volume is thereby known, but not yet that it is all there is: a table is read from end to
end, but a walk is over when its threads have gone home. `WalkInv` answers for the walk. Every
entry stands for a record of its own (`Tree`); a folder with an entry waits, in the queue or
with a thread, or everything shown in it has an entry (`Covered`); who waits, waits once
(`Once`); and when all threads are gone nothing waits (`Threads`). So entries cover what can be
reached from the root, which takes an induction along the way to each record. The ways are
`Lineage`'s; that they never come back to a record (`ChainApart`) follows from the
number of rounds they are found in. `TableResolves` and `EntriesResolve` say that the
resolvers give a folder exactly the path the disk gives it, as far as `MaxDepth` goes; this is why
`ScanDelivers` demands no file with a longer path.

`Surveyed` adds the index: its strings lie in its tables (`Sound`), a path and a name are there
once, and every fact delivered is there as a file or under a record of its path (`Covers`).
`SurveyInv` says that there are a volume, a numbering of entries and a `got` for which this
holds, so that none of them had to be added to the model. By `EachOnce` the paths of a batch are
new to the index, so that what `UpsertBatch` replaces after the detectors is always the batch's
own record. `CategoriesFollow` needs more (`FilingInv`): a
unit's name is its detector and its path, and a detector's units are published once (`Unpublished`), as
otherwise a unit could come undecided in the place of one that is kept. The totals
(`TotalsInv`) match the records one by one (`Matches`), and an entry without a record is of one
that a unit has replaced (`Accounted`); to go on with, no entry has a number yet to be given
(`Numbers`), or a new file could meet an old entry.

`UnitsTrue` needs `UnitsInv`, which relates the list of folders to the disks. That list is
closed upwards (`Closed`); what it names are folders of a disk and never files (`Stands`); and once a volume is
read, the folder of everything reported from it is in the list (`Mapped`; while the entries of a walk
are being turned into records and folders, as far as that has got: `Sifted`). So a folder is charged (`Held`) with all
that lies below it and is told from one that holds nothing. What units promise when the groups are formed
(`Honest`) holds of what is reported for as long as they wait and after they are in the index, because nothing
more is reported by then; that units of one kind lie apart (`Spread`) is an argument of its own
for each kind, the outermost folders for instance, and passes from the groups to the index.
`Promises` says both for the units that wait and those published, and that the detectors are those
of the scan until there are new settings. A session that failed has a list that need not be `Mapped`,
the reason why `UnitsTrue` excepts it.

*Assumptions.* Each is a fact of the code: a cascade has at least one thread
(`stage3.rs:92`), names are unique within a folder and a file lies in a folder that exists
(NTFS; `VolumesOK`, and `WorldOK` for records that are intact), no detector is called "none" or "duplicates" (the categories of
`orchestrator.rs:32-40` are an enumeration), "none" values are members of nothing, days, and the counts
in the settings, are natural numbers (`TodayOK`, `InactiveOK`, `SettingsOK`).

*Induction over data.* What a function computes over a sequence is defined as a recursive
function on the number of elements (`Upsert`, for instance), which the prover unfolds at
one argument. A lemma about all arguments takes the least number that fails, which
the well-foundedness of `Nat` gives without an induction theorem. `Induct` of
`ChangeMonitorProofs` and `VolumeScanProofs` pack that up for a set of numbers, which is a value and
no operator: a plan is proved about by the set of the lengths up to which the loop has done what it
should. Where the model needs a filter or a fold in what is proved about, it is such a function too
(`Only`, `InsertBatch`), since `SelectSeq` and `FoldLeft` take operators.

**Only model-checked.** All liveness (`CommandsReturn`, `InterruptedReapResolves`,
`CascadeEnds`, `SessionEnds`, `EveryHookServed`, `ShutdownEnds`, `SurveyEnds`, `CatchesUp`): the prover has no
fairness. Of the safety properties only `UnitsFree`: it compares sizes, which are sums over sets
(`MapThenSumSet` takes an operator), of a batch, of a folder and of the disk.

## 6. Where code and promise part: the three violated runs

- `restart_loses`: candidate ids start from 0 in every session and name the
  surrogate, and the rename replaces its destination. Reap, restart, scan, reap can
  overwrite a quarantined file. The abstract promise is `NothingLost`.
- `stale_hash`: an entry of the hash cache keeps its content hash when stage 2 renews
  it for a newer version of the file; files that differ are confirmed as identical.
- `lost_keep`: the cascade writes back records of its snapshot and with them the
  decisions of that time.

## 7. Other observations

Seen while modelling; the models have the behaviour, and no run is about it.

*Quarantine and previews*

- **Blocked recovery.** `reconcile_in_flight` returns an error at the first entry
  whose file has two copies or none (`quarantine.rs:378`); entries behind it stay as
  they are, at this start and each later one, against `quarantine.rs:82-84`.
- **Shared ids.** A second scan in one session of the application numbers from 0
  again over an index that still has the first (`scan_runtime.rs:1180`; the comment at
  1174-1179 calls the id globally unique). Also, a rescan appends a second record
  of each path, and a file may become a duplicate of itself.
- **Reap, undo and reap again.** The row of a candidate that was restored says so, and the
  upsert is a no-op over it (`index-sqlite/src/lib.rs:66`): the file is moved and the row
  set to quarantined under the batch of the first reap. The undo of the second batch, which
  `reap_execute` has acknowledged, does not find the file, against `docs/tasks.md:229`
  (T-081). The UI offers a restored candidate again (`ReapConfirmOverlay.tsx:266-268`). The
  file is not lost: the quarantine lists it, and `ReapIsOnRecord` says under which batch.
- **A second reap revives a row**: `confirm_with_audit` updates whatever row has the id,
  restored and purged ones included. Until then the moved file lies under a restored row,
  which no recovery looks at: a crash between the two, or a failing record, leaves an
  orphan. `NoOrphans`, `StatusOrder` and others name this exception (`ReapedOnce`).
- **No sweeper**: nothing calls `spawn_quarantine_sweep`, although
  `docs/architecture.md:233` and `:338` describe the sweep. `StartSweep` models the
  sweep nonetheless.
- **Two applications**: nothing keeps a second copy from starting (`main.rs`), and its
  reconciliation takes the first one's commands for interrupted ones.
- **Overlapping reaps** of one candidate can leave its file in the quarantine under
  a restored row.
- **Second cascade**: it may choose another copy to keep, so that over two sessions
  all copies may have been offered.
- **Refused settings** in a scan thread leave the controller busy until the restart
  (`scan_runtime.rs:1142`; `SessionEnds` names this exception). Any change empties the folder categories.
- **Draft over sharp.** When the `large_sharp` event overtakes the answer that carries
  the draft, the pane goes back to the draft (`preview.ts:354`), although the
  comment at `preview.ts:338` calls the sharp picture final.
- **Crossed writers.** A prefetch and a thumbnail job of one file, around an edit, can
  leave an entry valid for the new version over a picture of the old one. This is
  the exception of `TrueUnlessCrossed`.
- **A torn picture.** `save_preview` empties the cached file before it writes it
  (`preview.rs:356`). If that fails over a picture saved before, or two jobs write at
  once, the earlier entry calls the torn file valid until the source changes, where
  `docs/architecture.md:279` promises a cold start for damage to any cache. The
  exception of `TrueUnlessCrossed`.
- **A replaced job**: if two panes ask for one file and the second request replaces
  the first one's waiting job, the picture may go into the second one's answer only
  (`missed`).
- **An overwritten entry** of the running table hides a job that still runs from
  `is_queued_or_running`, from `cancel` and from the drop, which then waits for it.
- **Quarantine thumbnails** are keyed by a surrogate path without a time, and ids
  repeat; the UI does not listen for the event that brings a fresh one.
- **Requests out of sight** are to be cancelled (`docs/tasks.md:197`); the shell never
  cancels any.
- **Crashed restore.** A crash after the move of a restore and before its record is
  taken for an interrupted purge at the next start: a living file is logged as
  purged. `PurgedMeansDestroyed` names this exception (`NeverCrashed`).
- **Two reaps and a restore** of one candidate violate `NoOrphans`,
  `DestructionIsAccounted`, `Settled` and `StatusOrder`, which name it (`ReapedOnce`).
- **A cold reset** of the database erases the quarantine's rows and the audit
  (`index-sqlite/src/lib.rs:424-431`) while the files stay.

*Scans and folder units*

- **Empty folders that are not.** Subtrees that are excluded, unreadable or in the
  cloud deliver no files; the folders above them may be offered as empty.
  `UnitsTrue` counts findable files only.
- **A failed second pass over the table** ends the session with an error and the
  folder pass runs all the same, with all the folders of the first pass and few of the
  files: full folders are offered as empty. `UnitsTrue` excepts failed sessions; without
  the exception the run finds it at once.
- **A file called like an artifact** (`build`, `dist`, `target`, `obj`,
  `node_modules`) beside a marker file becomes a folder unit and takes the place
  of the file's record.
- **Units within units.** Units of different detectors nest and a file's bytes count
  in both; a sparse folder in a deep one counts twice, against
  `empty_folders.rs:48-50`. A unit may cover files the user has decided to keep.
- **An artifact in an artifact.** A file called `dist` inside `node_modules`, beside a
  `package.json`, is counted in the unit of `node_modules` and then replaced by a build unit: the
  first frees more than the files the index has left. `UnitsFree` measures it by the disk.
- **Too deep.** A file below more than 1025 folders is passed over in silence
  (`paths.rs:73`, `walk.rs:544`); the comment there expects a cycle. The exception of `ScanDelivers`.
- **Two units of one path.** A folder that two detectors find, say as nearly empty and as
  a build artifact, has two ids in the totals and one record (`scan_runtime.rs:355`,
  `:358`), so the totals exceed the index, against T-055 (`docs/tasks.md:171`); the end of the
  scan logs the difference (`scan_runtime.rs:1296-1316`). The exception of `TotalsAgree`. A
  keep on the unit that is replaced is lost with it.
- **New settings clear the category of every folder unit**; only the next scan offers them
  again.
- **The table** delivers metafiles as files and one name of each hard link; names in
  extension records are lost; a record may be reused between the passes.
- **The walk** delivers junctions as files; its comment (`walk.rs:3-6`) that all
  folders go through the shared queue holds of half of them; a stop is looked at
  between batches, not during the walk. A thread that leaves early does no harm.

*Change monitor*

- **Removals first.** A file created and removed within one delta stays in the index
  (`usn_apply.rs:391-405`), until a rescan.
- **A rename into a folder of unknown path** is taken for one within the old folder;
  after a start or a fallback the cache knows the root only.
- **A replayed delta** (a row could not be pruned) is planned with the cache it left
  behind and may prune another path.
- **Changes during a rescan** fall before the captured cursor and are missed.
- **New files are never persisted** although the cursor moves past them; a restart
  has lost them.
- **A failing read** ends a delta quietly; the rest comes with the next one.
- **A write resets a decision**: the record is replaced by a new one, whose id may be
  one that a removed file had.

*Settings*

- **Crossed recalculations.** The recalculation of an older change may end after that
  of a newer one and overwrites the scan's copy of the settings
  (`scan_runtime.rs:106`) that the newer command had handed over "at once"
  (`ipc.rs:203`): the next scan uses the older ones. The exception of `WorkFollows`.
- **Crossed commands.** The screen sends all settings, from what it shows; a command of a
  row takes the core's. Two that overlap may undo each other's field, and the error of
  one puts back on the screen what was there before the other. The exception of
  `SettingsAgree`.
- **The event is early.** `settings.changed` is sent before the recalculation
  begins (`ipc.rs:206`, `:218`), and the grid of a category fetches its rows on that
  event (`categoryWindow.ts:84-87`), so it may show the candidates of before; the comment of
  `category_set_threshold` says that the event rebuilds the grid.
- **An unreadable file** (a later version, not JSON) is ignored at the start and
  overwritten by the next change. When an old file cannot be rewritten, its settings are
  not used although they have been read.
- **A change during a scan** does not reach the scan's detectors: records that come
  after the recalculation are judged by the old thresholds.
- **Temporary files** that a crash leaves behind are never removed.
