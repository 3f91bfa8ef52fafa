------------------------------ MODULE Settings ------------------------------
(***************************************************************************)
(* A change of settings, from the control on the screen to the numbers     *)
(* (ipc.rs, settings-json, scan_runtime.rs, SettingsScreen.tsx): the       *)
(* screen shows the change at once, the core validates it, saves the file  *)
(* through a temporary one, exchanges the settings in use, hands a copy to *)
(* the scan, tells the screen and answers; then a job in the background    *)
(* judges the index anew. Commands, jobs and a scan overlap, a save may    *)
(* fail and the application may die at any point. Decisions and duplicates *)
(* are ScanSession's.                                                      *)
(***************************************************************************)
EXTENDS Naturals, Sequences, FiniteSets

CONSTANTS
  Plan,         (* values of a field that no detector reads: days, paths   *)
  Invalid,      (* those of them that validate_settings refuses            *)
  Threshold,    (* values of a detector's threshold or switch              *)
  Default,      (* AppSettings::default()                                  *)
  Found,        (* what may be found at the first start                    *)
  Record,       (* the files a scan finds                                  *)
  Unseen,       (* of a record the index does not have                     *)
  MaxChanges,   (* bounds: commands the user sends, and the disturbances   *)
  MaxCrashes,
  MaxFaults

Change == 1 .. MaxChanges

(* alien: a threshold that its detector does not have, written by hand     *)
Setting == [plan : Plan, threshold : Threshold, alien : BOOLEAN]

(* The file: none, of this version, of the one before, of a later one or
   not JSON, or one cut short.                                             *)
File == [form : {"absent", "ours", "old", "foreign", "torn"}, value : Setting]

ASSUME SettingAssumption ==
  /\ Default \in Setting
  /\ Invalid \subseteq Plan
  /\ Found \subseteq File
  /\ Unseen \notin Threshold
  /\ MaxChanges \in Nat

VARIABLES
  up,           (* whether the application runs                            *)
  file,         (* settings.json                                           *)
  current,      (* SettingsRuntime.current                                 *)
  snapshot,     (* ScanRuntime.settings                                    *)
  judged,       (* threshold by which each record's category was set       *)
  marked,       (* the same of its mark in also_in                         *)
  counted,      (* the same of its part in the live totals                 *)
  cmd,          (* settings_set and category_set_threshold                 *)
  job,          (* apply_settings in the background                        *)
  scan,         (* the thread of the scan                                  *)
  screen,       (* AppState.settings of the user interface                 *)
  events,       (* settings.changed, sent and not yet seen                 *)
  acked,        (* history: the settings last acknowledged                 *)
  astray,       (* history: why parts may disagree                         *)
  crashes, faults

core == <<current, snapshot>>
work == <<judged, marked, counted>>
history == <<acked, astray>>
bounds == <<crashes, faults>>
vars == <<up, file, core, work, cmd, job, scan, screen, events, history, bounds>>

Absent == [form |-> "absent", value |-> Default]

Valid(s) == s.plan \notin Invalid

(* configured_registry fails                                               *)
Refused(s) == s.alien

NoCommand == [stage |-> "new", via |-> "screen", wants |-> Default, before |-> Default, alone |-> FALSE]

NoJob == [stage |-> "idle", by |-> Default, read |-> [r \in Record |-> Unseen], alone |-> FALSE]

NoScan == [stage |-> "idle", farm |-> Default.threshold, left |-> {}]

Command ==
  [stage : {"new", "begun", "save", "replace", "exchange", "hand over", "tell", "ok", "error",
            "done", "lost"},
   via : {"screen", "row"}, wants : Setting, before : Setting, alone : BOOLEAN]

Job == [stage : {"idle", "judge", "keep", "mark", "read", "count"},
        by : Setting, read : [Record -> Threshold \cup {Unseen}], alone : BOOLEAN]

(* stuck: its thread is gone, the controller was never freed               *)
Scan == [stage : {"idle", "clear", "prepare", "batches", "stuck"}, farm : Threshold, left : SUBSET Record]

-----------------------------------------------------------------------------
(* Who is at work.                                                         *)

Running(c) == cmd[c].stage \notin {"new", "done", "lost"}

Talking == (\E c \in Change : Running(c)) \/ events # <<>>

AtWork == (\E c \in Change : job[c].stage # "idle") \/ scan.stage \notin {"idle", "stuck"}

(* A command or a scan begins. What may come to disagree by it: commands
   among themselves, or the work they cause.                               *)
Crossing(command) ==
  (IF command /\ Talking THEN {"commands"} ELSE {})
    \cup (IF AtWork \/ Talking THEN {"work"} ELSE {})

(* Nobody who has begun is alone any longer.                               *)
Joined(x) == [c \in Change |-> [x[c] EXCEPT !.alone = FALSE]]

Goto(c, stage) == cmd' = [cmd EXCEPT ![c].stage = stage]

-----------------------------------------------------------------------------
(* The user interface.                                                     *)

Begin(c, via, wants) ==
  /\ up /\ cmd[c].stage = "new" /\ \A b \in 1 .. c - 1 : cmd[b].stage # "new"
  /\ LET fresh == [stage |-> "begun", via |-> via, wants |-> wants, before |-> screen,
                   alone |-> Crossing(TRUE) = {}]
     IN cmd' = [IF Crossing(TRUE) = {} THEN cmd ELSE Joined(cmd) EXCEPT ![c] = fresh]
  /\ job' = IF Crossing(TRUE) = {} THEN job ELSE Joined(job)
  /\ astray' = astray \cup Crossing(TRUE)

(* saveSettings: the screen shows the change before it is made             *)
SaveSettings(c) ==
  \E s \in Setting :
    /\ s.alien = screen.alien
    /\ s # screen /\ (s.plan = screen.plan \/ s.threshold = screen.threshold)
    /\ Begin(c, "screen", s)
    /\ screen' = s
    /\ UNCHANGED <<up, file, core, work, scan, events, acked, bounds>>

(* setCategoryThreshold, from the row of a detector                        *)
SetThreshold(c) ==
  \E v \in Threshold :
    /\ v # screen.threshold
    /\ Begin(c, "row", [screen EXCEPT !.threshold = v])
    /\ UNCHANGED <<up, file, core, work, scan, screen, events, acked, bounds>>

(* settings.changed                                                        *)
Deliver ==
  /\ up /\ events # <<>>
  /\ screen' = Head(events)
  /\ events' = Tail(events)
  /\ UNCHANGED <<up, file, core, work, cmd, job, scan, history, bounds>>

(* The command has come back. After an error the switch goes back to where
   it was; the field of a row has not moved.                               *)
Answered(c) ==
  /\ \/ /\ cmd[c].stage = "ok"
        /\ acked' = cmd[c].wants
        /\ UNCHANGED screen
     \/ /\ cmd[c].stage = "error"
        /\ screen' = IF cmd[c].via = "screen" THEN cmd[c].before ELSE screen
        /\ UNCHANGED acked
  /\ cmd' = [cmd EXCEPT ![c] = [NoCommand EXCEPT !.stage = "done"]]
  /\ UNCHANGED <<up, file, core, work, job, scan, events, astray, bounds>>

-----------------------------------------------------------------------------
(* apply_and_persist_settings. The command of a row is made from the
   settings the core has; the one of the screen brings all of them.        *)
Wanted(c) ==
  IF cmd[c].via = "row" THEN [current EXCEPT !.threshold = cmd[c].wants.threshold]
                        ELSE cmd[c].wants

(* validate_settings, before anything is touched                           *)
Validate(c) ==
  /\ cmd[c].stage = "begun"
  /\ cmd' = [cmd EXCEPT ![c].wants = Wanted(c),
                        ![c].stage = IF Valid(Wanted(c)) THEN "save" ELSE "error"]
  /\ UNCHANGED <<up, file, core, work, job, scan, screen, events, history, bounds>>

(* JsonSettingsSource::save: settings without a difference from the
   defaults are no file                                                    *)
RemoveFile(c) ==
  /\ cmd[c].stage = "save" /\ cmd[c].wants = Default
  /\ file' = Absent
  /\ Goto(c, "exchange")
  /\ UNCHANGED <<up, core, work, job, scan, screen, events, history, bounds>>

(* faulty variant: no temporary file                                       *)
WriteInPlace(c) ==
  /\ cmd[c].stage = "save" /\ cmd[c].wants # Default
  /\ file' = [form |-> "torn", value |-> cmd[c].wants]
  /\ Goto(c, "replace")
  /\ UNCHANGED <<up, core, work, job, scan, screen, events, history, bounds>>

(* write_overrides: File::create, write_all and sync_all of a temporary file
   whose name no other command shares, and that nobody reads after a crash *)
WriteTemp(c) ==
  /\ cmd[c].stage = "save" /\ cmd[c].wants # Default
  /\ Goto(c, "replace")
  /\ UNCHANGED <<up, file, core, work, job, scan, screen, events, history, bounds>>

(* rename                                                                  *)
ReplaceFile(c) ==
  /\ cmd[c].stage = "replace"
  /\ file' = [form |-> "ours", value |-> cmd[c].wants]
  /\ Goto(c, "exchange")
  /\ UNCHANGED <<up, core, work, job, scan, screen, events, history, bounds>>

(* Any of these may fail; the temporary file is removed.                   *)
SaveFails(c) ==
  /\ cmd[c].stage \in {"save", "replace"} /\ faults < MaxFaults
  /\ faults' = faults + 1
  /\ Goto(c, "error")
  /\ UNCHANGED <<up, file, core, work, job, scan, screen, events, history, crashes>>

(* *state.current.write()                                                  *)
Exchange(c) ==
  /\ cmd[c].stage = "exchange"
  /\ current' = cmd[c].wants
  /\ Goto(c, "hand over")
  /\ UNCHANGED <<up, file, snapshot, work, job, scan, screen, events, history, bounds>>

(* replace_settings_snapshot                                               *)
HandOver(c) ==
  /\ cmd[c].stage = "hand over"
  /\ snapshot' = cmd[c].wants
  /\ Goto(c, "tell")
  /\ UNCHANGED <<up, file, current, work, job, scan, screen, events, history, bounds>>

(* events::emit, spawn, return                                             *)
Tell(c) ==
  /\ cmd[c].stage = "tell"
  /\ events' = Append(events, cmd[c].wants)
  /\ job' = [job EXCEPT ![c] = [NoJob EXCEPT !.stage = "judge", !.by = cmd[c].wants,
                                               !.alone = cmd[c].alone]]
  /\ Goto(c, "ok")
  /\ UNCHANGED <<up, file, core, work, scan, screen, history, bounds>>

CommandStep(c) ==
  \/ Validate(c)
  \/ RemoveFile(c) \/ WriteTemp(c) \/ ReplaceFile(c) \/ SaveFails(c)
  \/ Exchange(c) \/ HandOver(c) \/ Tell(c)
  \/ Answered(c)

-----------------------------------------------------------------------------
(* apply_settings, in the background. A record that the index does not
   have is passed over.                                                    *)
By(s, records) == [r \in Record |-> IF records[r] = Unseen THEN Unseen ELSE s.threshold]

JobGoto(c, stage) == job' = [job EXCEPT ![c].stage = stage]

(* A change that was alone from beginning to end has put all in order.     *)
JobEnds(c) ==
  /\ job' = [job EXCEPT ![c] = NoJob]
  /\ astray' = IF job[c].alone THEN {} ELSE astray

(* configured_registry, recalculate_index: under the lock of the index     *)
Recalculate(c) ==
  /\ job[c].stage = "judge"
  /\ IF Refused(job[c].by)
     THEN JobEnds(c) /\ UNCHANGED judged
     ELSE /\ judged' = By(job[c].by, judged)
          /\ JobGoto(c, "keep")
          /\ UNCHANGED astray
  /\ UNCHANGED <<up, file, core, marked, counted, cmd, scan, screen, events, acked, bounds>>

(* the settings the job was given, once more                               *)
KeepSettings(c) ==
  /\ job[c].stage = "keep"
  /\ snapshot' = job[c].by
  /\ JobGoto(c, "mark")
  /\ UNCHANGED <<up, file, current, work, cmd, scan, screen, events, history, bounds>>

(* faulty variant: also_in is not cleared first                            *)
MarkUncleared(c) ==
  /\ job[c].stage = "mark"
  /\ marked' = [r \in Record |-> IF marked[r] = Unseen THEN By(job[c].by, judged)[r] ELSE marked[r]]
  /\ JobGoto(c, "read")
  /\ UNCHANGED <<up, file, core, judged, counted, cmd, scan, screen, events, history, bounds>>

(* also_in, under its lock                                                 *)
Mark(c) ==
  /\ job[c].stage = "mark"
  /\ marked' = By(job[c].by, judged)
  /\ JobGoto(c, "read")
  /\ UNCHANGED <<up, file, core, judged, counted, cmd, scan, screen, events, history, bounds>>

(* index.get_all(); the lock of the totals is taken after it               *)
ReadIndex(c) ==
  /\ job[c].stage = "read"
  /\ job' = [job EXCEPT ![c].stage = "count", ![c].read = judged]
  /\ UNCHANGED <<up, file, core, work, cmd, scan, screen, events, history, bounds>>

Count(c) ==
  /\ job[c].stage = "count"
  /\ counted' = job[c].read
  /\ JobEnds(c)
  /\ UNCHANGED <<up, file, core, judged, marked, cmd, scan, screen, events, acked, bounds>>

JobStep(c) == Recalculate(c) \/ KeepSettings(c) \/ Mark(c) \/ ReadIndex(c) \/ Count(c)

-----------------------------------------------------------------------------
(* A scan, as far as settings matter to it.                                *)

(* scan_start (bound: while the index is empty)                            *)
StartScan ==
  /\ up /\ scan.stage = "idle" /\ \A r \in Record : judged[r] = Unseen
  /\ scan' = [scan EXCEPT !.stage = "clear", !.left = Record]
  /\ astray' = astray \cup Crossing(FALSE)
  /\ cmd' = Joined(cmd) /\ job' = Joined(job)
  /\ UNCHANGED <<up, file, core, work, screen, events, acked, bounds>>

ClearCounts ==
  /\ scan.stage = "clear"
  /\ scan' = [scan EXCEPT !.stage = "prepare"]
  /\ marked' = [r \in Record |-> Unseen] /\ counted' = [r \in Record |-> Unseen]
  /\ UNCHANGED <<up, file, core, judged, cmd, job, screen, events, history, bounds>>

(* The detectors are set up once. If they refuse a threshold the thread ends
   and leaves the controller busy.                                         *)
TakeSettings ==
  /\ scan.stage = "prepare"
  /\ scan' = IF Refused(snapshot)
             THEN [scan EXCEPT !.stage = "stuck"]
             ELSE [scan EXCEPT !.stage = "batches", !.farm = snapshot.threshold]
  /\ UNCHANGED <<up, file, core, work, cmd, job, screen, events, history, bounds>>

(* A batch: index, mark and totals in one step. ScanSession takes it apart;
   here a job between them is what astray remembers.                       *)
OnBatch(r) ==
  /\ scan.stage = "batches" /\ r \in scan.left
  /\ judged' = [judged EXCEPT ![r] = scan.farm]
  /\ marked' = [marked EXCEPT ![r] = scan.farm]
  /\ counted' = [counted EXCEPT ![r] = scan.farm]
  /\ scan' = [scan EXCEPT !.left = @ \ {r}]
  /\ UNCHANGED <<up, file, core, cmd, job, screen, events, history, bounds>>

(* Finished, or stopped before that.                                       *)
EndScan ==
  /\ scan.stage = "batches"
  /\ scan' = [scan EXCEPT !.stage = "idle"]
  /\ UNCHANGED <<up, file, core, work, cmd, job, screen, events, history, bounds>>

ScanStep == ClearCounts \/ TakeSettings \/ (\E r \in Record : OnBatch(r)) \/ EndScan

-----------------------------------------------------------------------------
(* The application dies; what it had in memory is gone.                    *)
Crash ==
  /\ up /\ crashes < MaxCrashes
  /\ crashes' = crashes + 1
  /\ up' = FALSE
  /\ cmd' = [c \in Change |->
               IF Running(c) THEN [NoCommand EXCEPT !.stage = "lost", !.wants = cmd[c].wants] ELSE cmd[c]]
  /\ current' = Default /\ snapshot' = Default /\ screen' = Default
  /\ judged' = [r \in Record |-> Unseen] /\ marked' = judged' /\ counted' = judged'
  /\ job' = [c \in Change |-> NoJob]
  /\ scan' = NoScan
  /\ events' = <<>>
  /\ UNCHANGED <<file, history, faults>>

(* JsonSettingsSource::load: a file of the former version is rewritten     *)
Readable == file.form \in {"ours", "old"}

Loaded == IF Readable THEN file.value ELSE Default

Migrated == IF file.form = "old" THEN [file EXCEPT !.form = "ours"] ELSE file

(* SettingsRuntime::new, ScanRuntime::with_settings, hydrate               *)
StartWith(s) ==
  /\ ~up /\ up' = TRUE
  /\ current' = s /\ snapshot' = s /\ screen' = s
  /\ acked' = IF \E c \in Change : cmd[c].stage = "lost" /\ cmd[c].wants = s THEN s ELSE acked
  /\ cmd' = [c \in Change |->
               IF cmd[c].stage = "lost" THEN [NoCommand EXCEPT !.stage = "done"] ELSE cmd[c]]
  /\ UNCHANGED <<work, job, scan, events, crashes>>

Start ==
  /\ StartWith(Loaded)
  /\ file' = Migrated
  /\ astray' = astray \ {"work"}
  /\ UNCHANGED faults

(* The old file cannot be rewritten: the defaults are used, it stays.      *)
StartUnmigrated ==
  /\ file.form = "old" /\ faults < MaxFaults
  /\ faults' = faults + 1
  /\ StartWith(Default)
  /\ astray' = (astray \ {"work"}) \cup {"load"}
  /\ UNCHANGED file

-----------------------------------------------------------------------------
(* The specification.                                                      *)

User == StartScan \/ \E c \in Change : SaveSettings(c) \/ SetThreshold(c)

Next ==
  \/ User
  \/ Deliver
  \/ \E c \in Change : CommandStep(c) \/ JobStep(c)
  \/ ScanStep
  \/ Crash
  \/ Start \/ StartUnmigrated

Init ==
  /\ up = FALSE
  /\ file \in Found
  /\ current = Default /\ snapshot = Default /\ screen = Default
  /\ judged = [r \in Record |-> Unseen] /\ marked = judged /\ counted = judged
  /\ job = [c \in Change |-> NoJob]
  /\ scan = NoScan
  /\ events = <<>>
  /\ cmd = [c \in Change |-> NoCommand]
  /\ acked = Loaded
  /\ astray = {}
  /\ crashes = 0 /\ faults = 0

Spec == Init /\ [][Next]_vars

-----------------------------------------------------------------------------
(* Properties.                                                             *)

TypeOK ==
  /\ up \in BOOLEAN
  /\ file \in File
  /\ current \in Setting /\ snapshot \in Setting /\ screen \in Setting /\ acked \in Setting
  /\ judged \in [Record -> Threshold \cup {Unseen}]
  /\ marked \in [Record -> Threshold \cup {Unseen}]
  /\ counted \in [Record -> Threshold \cup {Unseen}]
  /\ cmd \in [Change -> Command]
  /\ job \in [Change -> Job]
  /\ scan \in Scan
  /\ events \in Seq(Setting)
  /\ astray \subseteq {"commands", "work", "load"}
  /\ crashes \in Nat /\ faults \in Nat

(* T-092: when no command is under way and every event has arrived, the
   file, the settings in use and the screen are the ones last acknowledged
   (after a crash: or the ones whose acknowledgement it prevented), though
   saves fail, switches go back and the application dies between two steps;
   unless two commands overlapped, or an old file could not be rewritten,
   and no change was made alone since.                                     *)
SettingsAgree ==
  up /\ ~Talking /\ astray \cap {"commands", "load"} = {} =>
    /\ Loaded = acked
    /\ current = acked
    /\ screen = acked

(* T-093: when the background is quiet too, the next scan will use the
   settings the user sees, and each record's category, mark and part in the
   totals come from them; unless a command, its recalculation or a scan
   overlapped with another, and no change was made alone since.            *)
WorkFollows ==
  up /\ ~Talking /\ ~AtWork /\ astray = {} =>
    /\ snapshot = current
    /\ ~Refused(current) =>
         /\ judged = By(current, judged)
         /\ marked = judged
         /\ counted = judged
=============================================================================
