--------------------------- MODULE SettingsProofs ---------------------------
(***************************************************************************)
(* What holds of changes of settings for any number of commands, crashes   *)
(* and failed saves, any settings and any files: types; that file,         *)
(* settings in use and screen agree; that the next scan and the numbers    *)
(* come from the settings in use. The first argument follows the one       *)
(* command that is under way through its stages, the second whoever is at  *)
(* work without a rival, command, job or scan; that others overlapped is   *)
(* what astray remembers, until a change was made alone from beginning to  *)
(* end.                                                                    *)
(***************************************************************************)
EXTENDS Settings, TLAPS

-----------------------------------------------------------------------------
(* Types.                                                                  *)

LEMMA Blanks ==
  /\ NoCommand \in Command /\ NoJob \in Job /\ NoScan \in Scan /\ Absent \in File
  /\ \A s \in Setting : s.threshold \in Threshold
  BY SettingAssumption DEF NoCommand, Command, NoJob, Job, NoScan, Scan, Absent, File, Setting

LEMMA TypeInit == ASSUME Init PROVE TypeOK
<1>1. file \in File /\ acked \in Setting
  BY SettingAssumption DEF Init, Loaded, Readable, File
<1>2. judged \in [Record -> Threshold \cup {Unseen}] /\ marked = judged /\ counted = judged
  BY DEF Init
<1>3. cmd \in [Change -> Command] /\ job \in [Change -> Job] /\ scan \in Scan
  BY Blanks DEF Init
<1>4. events \in Seq(Setting) /\ crashes \in Nat /\ faults \in Nat /\ astray = {} /\ up = FALSE
  BY DEF Init
<1>5. current \in Setting /\ snapshot \in Setting /\ screen \in Setting
  BY SettingAssumption DEF Init
<1> QED BY <1>1, <1>2, <1>3, <1>4, <1>5 DEF TypeOK

LEMMA LoadedType == ASSUME TypeOK PROVE Loaded \in Setting /\ Migrated \in File
  BY SettingAssumption DEF TypeOK, Loaded, Readable, Migrated, File

(* A command moves to another stage.                                       *)
LEMMA GotoType ==
  ASSUME TypeOK, NEW c \in Change, NEW stage, Goto(c, stage),
         stage \in {"begun", "save", "replace", "exchange", "hand over", "tell", "ok", "error", "done", "lost"}
  PROVE  cmd' \in [Change -> Command]
<1>1. [cmd[c] EXCEPT !.stage = stage] \in Command
  <2>1. PICK x \in Command : x = cmd[c]
    BY DEF TypeOK
  <2>2. [x EXCEPT !.stage = stage] \in Command
    BY DEF Command
  <2> QED BY <2>1, <2>2
<1>2. cmd' = [cmd EXCEPT ![c] = [cmd[c] EXCEPT !.stage = stage]]
  BY DEF Goto, TypeOK
<1> QED BY <1>1, <1>2 DEF TypeOK

LEMMA JobGotoType ==
  ASSUME TypeOK, NEW c \in Change, NEW stage, JobGoto(c, stage), stage \in {"keep", "mark", "read", "count"}
  PROVE  job' \in [Change -> Job]
<1>1. [job[c] EXCEPT !.stage = stage] \in Job
  <2>1. PICK x \in Job : x = job[c]
    BY DEF TypeOK
  <2>2. [x EXCEPT !.stage = stage] \in Job
    BY DEF Job
  <2> QED BY <2>1, <2>2
<1>2. job' = [job EXCEPT ![c] = [job[c] EXCEPT !.stage = stage]]
  BY DEF JobGoto, TypeOK
<1> QED BY <1>1, <1>2 DEF TypeOK

LEMMA JobEndsType ==
  ASSUME TypeOK, NEW c \in Change, JobEnds(c)
  PROVE  job' \in [Change -> Job] /\ astray' \subseteq {"commands", "work", "load"}
  BY Blanks DEF TypeOK, JobEnds

LEMMA ByType ==
  ASSUME NEW s \in Setting, NEW records \in [Record -> Threshold \cup {Unseen}]
  PROVE  By(s, records) \in [Record -> Threshold \cup {Unseen}]
  BY Blanks DEF By

LEMMA JoinedTypes ==
  ASSUME TypeOK PROVE Joined(cmd) \in [Change -> Command] /\ Joined(job) \in [Change -> Job]
<1>1. ASSUME NEW c \in Change PROVE [cmd[c] EXCEPT !.alone = FALSE] \in Command
  BY DEF TypeOK, Command
<1>2. ASSUME NEW c \in Change PROVE [job[c] EXCEPT !.alone = FALSE] \in Job
  BY DEF TypeOK, Job
<1> QED BY <1>1, <1>2 DEF Joined

LEMMA BeginType ==
  ASSUME TypeOK, NEW c \in Change, NEW via \in {"screen", "row"}, NEW s \in Setting, Begin(c, via, s)
  PROVE  /\ cmd' \in [Change -> Command] /\ job' \in [Change -> Job]
         /\ astray' \subseteq {"commands", "work", "load"}
<1>1. Joined(cmd) \in [Change -> Command] /\ Joined(job) \in [Change -> Job]
  BY JoinedTypes
<1>2. (Crossing(TRUE) = {}) \in BOOLEAN /\ Crossing(TRUE) \subseteq {"commands", "work"}
  BY DEF Crossing
<1>3. cmd' \in [Change -> Command]
  <2> DEFINE fresh == [stage |-> "begun", via |-> via, wants |-> s, before |-> screen,
                       alone |-> Crossing(TRUE) = {}]
  <2>1. fresh \in Command
    BY <1>2 DEF TypeOK, Command
  <2>2. cmd' = [IF Crossing(TRUE) = {} THEN cmd ELSE Joined(cmd) EXCEPT ![c] = fresh]
    BY DEF Begin
  <2> HIDE DEF fresh
  <2> QED BY <2>1, <2>2, <1>1 DEF TypeOK
<1> QED BY <1>1, <1>2, <1>3 DEF Begin, TypeOK

(* The steps of the user and of a command keep the types.                  *)
LEMMA CommandTypes ==
  ASSUME TypeOK, NEW c \in Change, SaveSettings(c) \/ SetThreshold(c) \/ CommandStep(c)
  PROVE  TypeOK'
<1> USE DEF core, work, history, bounds
<1>1. CASE SaveSettings(c)
  BY <1>1, BeginType DEF SaveSettings, TypeOK
<1>2. CASE SetThreshold(c)
  <2>1. PICK v \in Threshold : Begin(c, "row", [screen EXCEPT !.threshold = v])
    BY <1>2 DEF SetThreshold
  <2>2. [screen EXCEPT !.threshold = v] \in Setting
    BY DEF TypeOK, Setting
  <2> QED BY <1>2, <2>1, <2>2, BeginType DEF SetThreshold, TypeOK
<1>3. CASE Validate(c)
  <2>1. Wanted(c) \in Setting
    BY DEF Wanted, TypeOK, Command, Setting
  <2>2. cmd' \in [Change -> Command]
    <3>1. [cmd[c] EXCEPT !.wants = Wanted(c), !.stage = IF Valid(Wanted(c)) THEN "save" ELSE "error"]
             \in Command
      BY <2>1 DEF TypeOK, Command
    <3>2. cmd' = [cmd EXCEPT ![c] = [cmd[c] EXCEPT !.wants = Wanted(c),
                                       !.stage = IF Valid(Wanted(c)) THEN "save" ELSE "error"]]
      BY <1>3 DEF Validate, TypeOK
    <3> QED BY <3>1, <3>2 DEF TypeOK
  <2> QED BY <1>3, <2>2 DEF Validate, TypeOK
<1>4. CASE RemoveFile(c)
  BY <1>4, Blanks, GotoType DEF RemoveFile, TypeOK
<1>5. CASE WriteTemp(c)
  BY <1>5, GotoType DEF WriteTemp, TypeOK
<1>6. CASE ReplaceFile(c)
  <2>1. file' \in File
    BY <1>6 DEF ReplaceFile, TypeOK, Command, File
  <2> QED BY <1>6, <2>1, GotoType DEF ReplaceFile, TypeOK
<1>7. CASE SaveFails(c)
  <2>1. faults' \in Nat
    BY <1>7 DEF SaveFails, TypeOK
  <2>2. cmd' \in [Change -> Command]
    BY <1>7, GotoType DEF SaveFails
  <2> QED BY <1>7, <2>1, <2>2 DEF SaveFails, TypeOK
<1>8. CASE Exchange(c)
  <2>1. current' \in Setting
    BY <1>8 DEF Exchange, TypeOK, Command
  <2> QED BY <1>8, <2>1, GotoType DEF Exchange, TypeOK
<1>9. CASE HandOver(c)
  <2>1. snapshot' \in Setting
    BY <1>9 DEF HandOver, TypeOK, Command
  <2> QED BY <1>9, <2>1, GotoType DEF HandOver, TypeOK
<1>10. CASE Tell(c)
  <2>1. cmd[c] \in Command
    BY DEF TypeOK
  <2>2. events' \in Seq(Setting)
    <3>1. cmd[c].wants \in Setting
      BY <2>1 DEF Command
    <3> QED BY <1>10, <3>1 DEF Tell, TypeOK
  <2>3. [NoJob EXCEPT !.stage = "judge", !.by = cmd[c].wants, !.alone = cmd[c].alone] \in Job
    BY <2>1, Blanks DEF NoJob, Job, Command
  <2>4. job' \in [Change -> Job]
    BY <1>10, <2>3 DEF Tell, TypeOK
  <2> QED BY <1>10, <2>2, <2>4, GotoType DEF Tell, TypeOK
<1>11. CASE Answered(c)
  <2>1. [NoCommand EXCEPT !.stage = "done"] \in Command
    BY Blanks DEF NoCommand, Command
  <2>2. cmd' \in [Change -> Command]
    BY <1>11, <2>1 DEF Answered, TypeOK
  <2>3. cmd[c] \in Command
    BY DEF TypeOK
  <2>4. screen' \in Setting /\ acked' \in Setting
    BY <1>11, <2>3 DEF Answered, TypeOK, Command
  <2> QED BY <1>11, <2>2, <2>4 DEF Answered, TypeOK
<1> QED BY <1>1, <1>2, <1>3, <1>4, <1>5, <1>6, <1>7, <1>8, <1>9, <1>10, <1>11 DEF CommandStep

(* The steps of a job in the background do.                                *)
LEMMA JobTypes == ASSUME TypeOK, NEW c \in Change, JobStep(c) PROVE TypeOK'
<1> USE DEF core, work, history, bounds
<1>0. job[c] \in Job /\ job[c].by \in Setting
  BY DEF TypeOK, Job
<1>1. CASE Recalculate(c)
  BY <1>0, <1>1, ByType, JobGotoType, JobEndsType DEF Recalculate, TypeOK
<1>2. CASE KeepSettings(c)
  BY <1>0, <1>2, JobGotoType DEF KeepSettings, TypeOK
<1>3. CASE Mark(c)
  BY <1>0, <1>3, ByType, JobGotoType DEF Mark, TypeOK
<1>4. CASE ReadIndex(c)
  <2>1. job' \in [Change -> Job]
    <3>1. [job[c] EXCEPT !.stage = "count", !.read = judged] \in Job
      BY <1>0 DEF TypeOK, Job
    <3>2. job' = [job EXCEPT ![c] = [job[c] EXCEPT !.stage = "count", !.read = judged]]
      BY <1>4 DEF ReadIndex, TypeOK
    <3> QED BY <3>1, <3>2 DEF TypeOK
  <2> QED BY <1>4, <2>1 DEF ReadIndex, TypeOK
<1>5. CASE Count(c)
  BY <1>0, <1>5, JobEndsType DEF Count, TypeOK, Job
<1> QED BY <1>1, <1>2, <1>3, <1>4, <1>5 DEF JobStep

(* So do scan, events, crashes and starts.                                 *)
LEMMA OtherTypes ==
  ASSUME TypeOK, StartScan \/ Deliver \/ ScanStep \/ Crash \/ Start \/ StartUnmigrated
  PROVE  TypeOK'
<1> USE DEF core, work, history, bounds
<1>1. CASE StartScan
  <2>1. Joined(cmd) \in [Change -> Command] /\ Joined(job) \in [Change -> Job]
    BY JoinedTypes
  <2>2. astray' \subseteq {"commands", "work", "load"}
    BY <1>1 DEF StartScan, Crossing, TypeOK
  <2>3. scan' \in Scan
    BY <1>1 DEF StartScan, TypeOK, Scan
  <2> QED BY <1>1, <2>1, <2>2, <2>3 DEF StartScan, TypeOK
<1>2. CASE Deliver
  BY <1>2 DEF Deliver, TypeOK
<1>3. CASE ScanStep
  <2>1. snapshot.threshold \in Threshold
    BY Blanks DEF TypeOK
  <2>2. CASE ClearCounts
    BY <2>2 DEF ClearCounts, TypeOK, Scan
  <2>3. CASE TakeSettings
    BY <2>1, <2>3 DEF TakeSettings, TypeOK, Scan
  <2>4. ASSUME NEW r \in Record, OnBatch(r) PROVE TypeOK'
    BY <2>4 DEF OnBatch, TypeOK, Scan
  <2>5. CASE EndScan
    BY <2>5 DEF EndScan, TypeOK, Scan
  <2> QED BY <1>3, <2>2, <2>3, <2>4, <2>5 DEF ScanStep
<1>4. CASE Crash
  <2>1. cmd' \in [Change -> Command]
    BY <1>4, Blanks DEF Crash, TypeOK, NoCommand, Command
  <2>2. judged' \in [Record -> Threshold \cup {Unseen}] /\ marked' = judged' /\ counted' = judged'
    BY <1>4 DEF Crash
  <2>3. job' \in [Change -> Job] /\ scan' \in Scan
    BY <1>4, Blanks DEF Crash
  <2>4. current' \in Setting /\ snapshot' \in Setting /\ screen' \in Setting
    BY <1>4, SettingAssumption DEF Crash
  <2>0. up' = FALSE /\ events' = <<>> /\ crashes' = crashes + 1
    BY <1>4, Zenon DEF Crash
  <2>5. events' \in Seq(Setting)
    BY <2>0
  <2>6. crashes' \in Nat
    <3>1. crashes \in Nat
      BY DEF TypeOK
    <3> QED BY <2>0, <3>1
  <2> QED BY <1>4, <2>0, <2>1, <2>2, <2>3, <2>4, <2>5, <2>6 DEF Crash, TypeOK
<1>5. ASSUME NEW s \in Setting, StartWith(s)
      PROVE  /\ up' \in BOOLEAN /\ current' \in Setting /\ snapshot' \in Setting /\ screen' \in Setting
             /\ acked' \in Setting /\ cmd' \in [Change -> Command]
  BY <1>5, Blanks DEF StartWith, TypeOK, NoCommand, Command
<1>6. CASE Start
  <2>1. Loaded \in Setting /\ Migrated \in File
    BY LoadedType
  <2> QED BY <1>5, <1>6, <2>1 DEF Start, StartWith, TypeOK
<1>7. CASE StartUnmigrated
  BY <1>5, <1>7, SettingAssumption DEF StartUnmigrated, StartWith, TypeOK
<1> QED BY <1>1, <1>2, <1>3, <1>4, <1>6, <1>7

(* For any number of commands and any settings every variable keeps its
   type.                                                                   *)
THEOREM TypeCorrect == Spec => []TypeOK
<1>1. TypeOK /\ [Next]_vars => TypeOK'
  <2> SUFFICES ASSUME TypeOK, [Next]_vars PROVE TypeOK'
    OBVIOUS
  <2>1. CASE Next
    BY <2>1, CommandTypes, JobTypes, OtherTypes DEF Next, User
  <2>2. CASE UNCHANGED vars
    BY <2>2 DEF vars, core, work, history, bounds, TypeOK
  <2> QED BY <2>1, <2>2
<1> QED BY TypeInit, <1>1, PTL DEF Spec

-----------------------------------------------------------------------------
(* The inductive invariant behind SettingsAgree.                           *)

(* Neither overlapping commands nor a failed start are remembered.         *)
InOrder == astray \cap {"commands", "load"} = {}

(* The event of settings s is on its way, or has arrived.                  *)
Told(s) == events = <<s>> \/ (events = <<>> /\ screen = s)

(* A command that can have no rival.                                       *)
Trusted(c) == Running(c) /\ (InOrder \/ cmd[c].alone)

Lonely == \A c, d \in Change : Trusted(c) /\ Running(d) => c = d

(* How far such a command has come.                                        *)
Progress(c) ==
  /\ cmd[c].stage \in {"exchange", "hand over", "tell", "ok"} => Loaded = cmd[c].wants
  /\ cmd[c].stage \in {"hand over", "tell", "ok"} => current = cmd[c].wants
  /\ IF cmd[c].stage = "ok" THEN Told(cmd[c].wants) ELSE events = <<>>

(* Until it saves, the settings acknowledged last stand, and an error finds
   the way back to them.                                                   *)
WayBack(c) ==
  cmd[c].stage \in {"begun", "save", "replace", "error"} =>
    /\ Loaded = acked /\ current = acked
    /\ IF cmd[c].via = "screen" THEN cmd[c].before = acked ELSE screen = acked

Silent == \A c \in Change : ~Running(c)

Settled(s) == Loaded = s /\ current = s /\ acked = s /\ Told(s)

(* A job that was alone from the beginning finds its own settings.         *)
JobAlone(c) ==
  IF Running(c) THEN cmd[c].stage = "ok" /\ cmd[c].alone /\ cmd[c].wants = job[c].by
  ELSE Silent /\ Settled(job[c].by)

WhileUp ==
  /\ Lonely
  /\ \A c \in Change :
       /\ cmd[c].stage # "lost"
       /\ Trusted(c) => Progress(c)
       /\ Running(c) /\ InOrder => WayBack(c)
       /\ job[c].stage # "idle" /\ job[c].alone => JobAlone(c)
  /\ Silent /\ InOrder => Settled(acked)

(* After a crash the file holds the settings acknowledged last, or those of
   a command that died.                                                    *)
WhileDown ==
  /\ Silent /\ events = <<>>
  /\ \A c \in Change : job[c].stage = "idle"
  /\ InOrder => Loaded = acked \/ \E c \in Change : cmd[c].stage = "lost" /\ cmd[c].wants = Loaded

AgreeInv == TypeOK /\ (IF up THEN WhileUp ELSE WhileDown)

-----------------------------------------------------------------------------
(* Steps of commands.                                                      *)

(* Beside a trusted command nobody else is at it; beside one that is not,
   nothing is trusted.                                                     *)
LEMMA NoRival ==
  ASSUME WhileUp, NEW c \in Change, Running(c)
  PROVE  /\ \A d \in Change : Trusted(d) => d = c
         /\ \A d \in Change : job[d].stage # "idle" /\ job[d].alone => d = c /\ Trusted(c) /\ cmd[c].stage = "ok"
         /\ InOrder => \A d \in Change : Running(d) => d = c
         /\ Trusted(c) => \A d \in Change : Running(d) => d = c
  BY DEF WhileUp, Lonely, Trusted, JobAlone, Silent

(* A step of one command before its end, that keeps what is said of it.    *)
LEMMA Advance ==
  ASSUME WhileUp, NEW c \in Change, Running(c), cmd[c].stage # "ok",
         Running(c)', cmd'[c].stage # "lost", cmd'[c].alone = cmd[c].alone, astray' = astray,
         \A d \in Change \ {c} : cmd'[d] = cmd[d] /\ job'[d] = job[d],
         \/ job'[c] = job[c]
         \/ /\ cmd'[c].stage = "ok"
            /\ job'[c].by = cmd'[c].wants /\ job'[c].alone = cmd[c].alone,
         Trusted(c) => Progress(c)',
         InOrder => WayBack(c)'
  PROVE  WhileUp'
<1>1. InOrder' <=> InOrder
  BY DEF InOrder
<1>2. \A d \in Change : (Running(d)' <=> Running(d)) /\ (Trusted(d)' <=> Trusted(d))
  BY <1>1 DEF Trusted, Running
<1>3. Lonely' /\ ~Silent'
  BY <1>2 DEF WhileUp, Lonely, Silent
<1>4. ASSUME NEW d \in Change
      PROVE  /\ cmd'[d].stage # "lost"
             /\ Trusted(d)' => Progress(d)'
             /\ Running(d)' /\ InOrder' => WayBack(d)'
  BY <1>1, <1>2, NoRival DEF WhileUp
<1>5. ASSUME NEW d \in Change, job'[d].stage # "idle", job'[d].alone
      PROVE  JobAlone(d)'
  <2>1. d = c
    BY <1>5, NoRival
  <2>2. job'[c] # job[c]
    BY <1>5, <2>1, NoRival
  <2> QED BY <1>5, <2>1, <2>2 DEF JobAlone
<1> QED BY <1>3, <1>4, <1>5 DEF WhileUp

(* The file that is left by a save.                                        *)
LEMMA FileSaved ==
  ASSUME NEW s, file' = [form |-> "ours", value |-> s] \/ (s = Default /\ file' = Absent)
  PROVE  Loaded' = s
  BY DEF Loaded, Readable, Absent

LEMMA CommandKeeps ==
  ASSUME TypeOK, up, WhileUp, NEW c \in Change, CommandStep(c), cmd[c].stage \notin {"ok", "error"}
  PROVE  up' /\ WhileUp'
<1> USE DEF core, work, history, bounds
<1>0. /\ cmd \in [Change -> Command] /\ job \in [Change -> Job] /\ cmd[c].stage # "lost"
      /\ Trusted(c) => Progress(c)
      /\ Running(c) /\ InOrder => WayBack(c)
  BY DEF TypeOK, WhileUp
<1>1. CASE Validate(c)
  <2>1. /\ Running(c) /\ Running(c)' /\ cmd'[c].stage \in {"save", "error"} /\ cmd'[c].alone = cmd[c].alone
        /\ cmd'[c].via = cmd[c].via /\ cmd'[c].before = cmd[c].before
        /\ \A d \in Change \ {c} : cmd'[d] = cmd[d]
    BY <1>0, <1>1 DEF Validate, Running, Command
  <2>2. Trusted(c) => Progress(c)'
    BY <1>0, <1>1, <2>1 DEF Validate, Progress
  <2>3. InOrder => WayBack(c)'
    BY <1>0, <1>1, <2>1 DEF Validate, WayBack, Loaded, Readable
  <2> QED BY <1>1, <2>1, <2>2, <2>3, Advance DEF Validate
<1>2. ASSUME NEW stage \in {"replace", "exchange", "hand over", "tell", "ok", "error"}, Goto(c, stage),
             Running(c)
      PROVE  /\ Running(c)' /\ cmd'[c] = [cmd[c] EXCEPT !.stage = stage]
             /\ cmd'[c].stage = stage /\ cmd'[c].alone = cmd[c].alone /\ cmd'[c].wants = cmd[c].wants
             /\ cmd'[c].via = cmd[c].via /\ cmd'[c].before = cmd[c].before
             /\ \A d \in Change \ {c} : cmd'[d] = cmd[d]
  BY <1>0, <1>2 DEF Goto, Running, Command
<1>3. CASE RemoveFile(c) \/ ReplaceFile(c)
  <2>1. Running(c) /\ Goto(c, "exchange") /\ Loaded' = cmd[c].wants
    BY <1>3, FileSaved DEF RemoveFile, ReplaceFile, Running
  <2>2. Trusted(c) => Progress(c)'
    BY <1>0, <1>2, <1>3, <2>1 DEF RemoveFile, ReplaceFile, Progress
  <2>3. InOrder => WayBack(c)'
    BY <1>2, <2>1 DEF WayBack
  <2> QED BY <1>2, <1>3, <2>1, <2>2, <2>3, Advance DEF RemoveFile, ReplaceFile
<1>4. CASE WriteTemp(c)
  <2>1. Running(c) /\ Goto(c, "replace")
    BY <1>4 DEF WriteTemp, Running
  <2>2. Trusted(c) => Progress(c)'
    BY <1>0, <1>2, <1>4, <2>1 DEF WriteTemp, Progress
  <2>3. InOrder => WayBack(c)'
    BY <1>0, <1>2, <1>4, <2>1 DEF WriteTemp, WayBack, Loaded, Readable
  <2> QED BY <1>2, <1>4, <2>1, <2>2, <2>3, Advance DEF WriteTemp
<1>5. CASE SaveFails(c)
  <2>1. Running(c) /\ Goto(c, "error")
    BY <1>5 DEF SaveFails, Running
  <2>2. Trusted(c) => Progress(c)'
    BY <1>0, <1>2, <1>5, <2>1 DEF SaveFails, Progress
  <2>3. InOrder => WayBack(c)'
    BY <1>0, <1>2, <1>5, <2>1 DEF SaveFails, WayBack, Loaded, Readable
  <2> QED BY <1>2, <1>5, <2>1, <2>2, <2>3, Advance DEF SaveFails
<1>6. CASE Exchange(c)
  <2>1. Running(c) /\ Goto(c, "hand over")
    BY <1>6 DEF Exchange, Running
  <2>2. Trusted(c) => Progress(c)'
    BY <1>0, <1>2, <1>6, <2>1 DEF Exchange, Progress, Loaded, Readable
  <2>3. InOrder => WayBack(c)'
    BY <1>2, <2>1 DEF WayBack
  <2> QED BY <1>2, <1>6, <2>1, <2>2, <2>3, Advance DEF Exchange
<1>7. CASE HandOver(c)
  <2>1. Running(c) /\ Goto(c, "tell")
    BY <1>7 DEF HandOver, Running
  <2>2. Trusted(c) => Progress(c)'
    BY <1>0, <1>2, <1>7, <2>1 DEF HandOver, Progress, Loaded, Readable
  <2>3. InOrder => WayBack(c)'
    BY <1>2, <2>1 DEF WayBack
  <2> QED BY <1>2, <1>7, <2>1, <2>2, <2>3, Advance DEF HandOver
<1>8. CASE Tell(c)
  <2>1. Running(c) /\ Goto(c, "ok") /\ events' = Append(events, cmd[c].wants)
    BY <1>8 DEF Tell, Running
  <2>2. /\ \A d \in Change \ {c} : job'[d] = job[d]
        /\ job'[c].by = cmd[c].wants /\ job'[c].alone = cmd[c].alone
    BY <1>0, <1>8 DEF Tell, NoJob, Job
  <2>3. Trusted(c) => events' = <<cmd[c].wants>>
    BY <1>0, <1>8, <2>1 DEF Tell, Progress
  <2>4. Trusted(c) => Progress(c)'
    BY <1>0, <1>2, <1>8, <2>1, <2>3 DEF Tell, Progress, Told, Loaded, Readable
  <2>5. InOrder => WayBack(c)'
    BY <1>2, <2>1 DEF WayBack
  <2> QED BY <1>2, <1>8, <2>1, <2>2, <2>4, <2>5, Advance DEF Tell
<1> QED BY <1>1, <1>3, <1>4, <1>5, <1>6, <1>7, <1>8 DEF CommandStep, Answered

(* The answer.                                                             *)
LEMMA AnswerKeeps ==
  ASSUME TypeOK, up, WhileUp, NEW c \in Change, Answered(c)
  PROVE  up' /\ WhileUp'
<1> USE DEF core, work, history, bounds
<1>0. cmd \in [Change -> Command]
  BY DEF TypeOK
<1>1. /\ Running(c) /\ cmd[c].stage \in {"ok", "error"}
      /\ cmd'[c].stage = "done" /\ ~Running(c)'
      /\ \A d \in Change \ {c} : cmd'[d] = cmd[d]
      /\ UNCHANGED <<file, current, events, astray, job, up>>
  BY <1>0 DEF Answered, Running, NoCommand
<1>2. (InOrder' <=> InOrder) /\ Loaded' = Loaded
  BY <1>1 DEF InOrder, Loaded, Readable
<1>3. \A d \in Change : Running(d)' => d # c /\ Running(d) /\ (Trusted(d)' => Trusted(d))
  BY <1>1, <1>2 DEF Running, Trusted
<1>4. \A d \in Change : ~Trusted(d)'
  BY <1>1, <1>3, NoRival DEF Trusted
<1>5. \A d \in Change : ~(Running(d)' /\ InOrder')
  BY <1>4 DEF Trusted
<1>6. ASSUME Trusted(c), cmd[c].stage = "ok", NEW s, s = cmd[c].wants PROVE Silent' /\ Settled(s)'
  <2>1. Progress(c) /\ Silent'
    BY <1>1, <1>3, <1>6, NoRival DEF WhileUp, Silent
  <2>2. acked' = s /\ screen' = screen
    BY <1>6 DEF Answered
  <2>3. Loaded = s /\ current = s /\ Told(s)
    BY <2>1, <1>6 DEF Progress
  <2> QED BY <1>1, <1>2, <2>1, <2>2, <2>3 DEF Settled, Told
<1>7. ASSUME NEW d \in Change, job'[d].stage # "idle", job'[d].alone PROVE JobAlone(d)'
  <2>1. d = c /\ Trusted(c) /\ cmd[c].stage = "ok" /\ job[c].stage # "idle" /\ job[c].alone
    BY <1>1, <1>7, NoRival
  <2>2. cmd[c].wants = job[c].by
    BY <1>1, <2>1 DEF WhileUp, JobAlone
  <2> QED BY <1>1, <1>6, <2>1, <2>2 DEF JobAlone
<1>8. ASSUME InOrder PROVE Settled(acked)'
  <2>1. Trusted(c) /\ Progress(c) /\ WayBack(c)
    BY <1>1, <1>8 DEF WhileUp, Trusted
  <2>2. CASE cmd[c].stage = "ok"
    BY <1>6, <2>1, <2>2 DEF Settled, Answered
  <2>3. CASE cmd[c].stage = "error"
    <3>1. Loaded = acked /\ current = acked /\ events = <<>>
      BY <2>1, <2>3 DEF Progress, WayBack
    <3>2. acked' = acked /\ screen' = acked
      BY <2>1, <2>3 DEF Answered, WayBack
    <3> QED BY <1>1, <1>2, <3>1, <3>2 DEF Settled, Told
  <2> QED BY <1>1, <2>2, <2>3
<1>9. \A d \in Change : cmd'[d].stage # "lost"
  BY <1>1 DEF WhileUp
<1> QED BY <1>1, <1>2, <1>4, <1>5, <1>7, <1>8, <1>9 DEF WhileUp, Lonely

-----------------------------------------------------------------------------
(* Beginnings.                                                             *)

(* What is left of commands and jobs when somebody joins them.             *)
LEMMA JoinedFacts ==
  ASSUME TypeOK, NEW d \in Change
  PROVE  /\ Joined(cmd)[d].stage = cmd[d].stage /\ Joined(cmd)[d].wants = cmd[d].wants
         /\ Joined(cmd)[d].via = cmd[d].via /\ Joined(cmd)[d].before = cmd[d].before
         /\ ~Joined(cmd)[d].alone
         /\ Joined(job)[d].stage = job[d].stage /\ ~Joined(job)[d].alone
<1>1. cmd[d] \in Command /\ job[d] \in Job
  BY DEF TypeOK
<1>2. Joined(cmd)[d] = [cmd[d] EXCEPT !.alone = FALSE] /\ Joined(job)[d] = [job[d] EXCEPT !.alone = FALSE]
  BY DEF Joined
<1>3. /\ Joined(cmd)[d].stage = cmd[d].stage /\ Joined(cmd)[d].wants = cmd[d].wants
      /\ Joined(cmd)[d].via = cmd[d].via /\ Joined(cmd)[d].before = cmd[d].before
      /\ ~Joined(cmd)[d].alone
  BY <1>1, <1>2 DEF Command
<1>4. Joined(job)[d].stage = job[d].stage /\ ~Joined(job)[d].alone
  BY <1>1, <1>2 DEF Job
<1> QED BY <1>3, <1>4

LEMMA BeginKeeps ==
  ASSUME TypeOK, up, WhileUp, NEW c \in Change, NEW via \in {"screen", "row"}, NEW wants \in Setting,
         Begin(c, via, wants),
         UNCHANGED <<up, file, core, events, acked>>,
         via = "row" => UNCHANGED screen
  PROVE  up' /\ WhileUp'
<1> USE DEF core, work, history, bounds
<1> DEFINE fresh == [stage |-> "begun", via |-> via, wants |-> wants, before |-> screen,
                     alone |-> Crossing(TRUE) = {}]
<1>0. cmd \in [Change -> Command] /\ job \in [Change -> Job] /\ Joined(cmd) \in [Change -> Command]
  BY JoinedTypes DEF TypeOK
<1>1. /\ cmd' = [IF Crossing(TRUE) = {} THEN cmd ELSE Joined(cmd) EXCEPT ![c] = fresh]
      /\ job' = (IF Crossing(TRUE) = {} THEN job ELSE Joined(job))
      /\ astray' = astray \cup Crossing(TRUE)
  BY DEF Begin
<1>2. /\ cmd'[c] = fresh
      /\ \A d \in Change \ {c} : cmd'[d].stage = cmd[d].stage
      /\ \A d \in Change \ {c} : Crossing(TRUE) # {} => ~cmd'[d].alone
  BY <1>0, <1>1, JoinedFacts
<1>3. /\ cmd'[c].stage = "begun" /\ cmd'[c].via = via /\ cmd'[c].before = screen
      /\ Crossing(TRUE) # {} => ~cmd'[c].alone
      /\ Running(c)'
  <2>1. cmd'[c].stage = "begun" /\ cmd'[c].via = via /\ cmd'[c].before = screen
    BY <1>2
  <2>2. Crossing(TRUE) # {} => ~fresh.alone
    OBVIOUS
  <2> QED BY <1>2, <2>1, <2>2, Zenon DEF Running
<1>4. /\ \A d \in Change : cmd'[d].stage # "lost"
      /\ \A d \in Change \ {c} : Running(d)' => Running(d)
      /\ ~Silent'
  BY <1>2, <1>3 DEF WhileUp, Silent, Running
<1>5. ASSUME NEW d \in Change, job'[d].stage # "idle", job'[d].alone PROVE FALSE
  <2>1. CASE Crossing(TRUE) = {}
    BY <1>1, <1>5, <2>1 DEF Crossing, AtWork
  <2>2. CASE Crossing(TRUE) # {}
    BY <1>1, <1>5, <2>2, JoinedFacts
  <2> QED BY <2>1, <2>2
<1>6. CASE Talking
  <2>1. "commands" \in Crossing(TRUE) /\ ~InOrder'
    BY <1>1, <1>6 DEF Crossing, InOrder
  <2>2. \A d \in Change : ~Trusted(d)'
    BY <1>2, <1>3, <2>1 DEF Trusted
  <2> QED BY <1>4, <1>5, <2>1, <2>2 DEF WhileUp, Lonely
<1>7. CASE ~Talking
  <2>1. Silent /\ events = <<>> /\ Crossing(TRUE) \subseteq {"work"}
    BY <1>7 DEF Talking, Silent, Crossing
  <2>2. InOrder' <=> InOrder
    BY <1>1, <2>1 DEF InOrder
  <2>3. \A d \in Change : Running(d)' => d = c
    BY <1>4, <2>1 DEF Silent
  <2>4. Lonely'
    BY <2>3 DEF Lonely, Trusted
  <2>5. Progress(c)'
    BY <1>3, <2>1 DEF Progress
  <2>6. InOrder => WayBack(c)'
    <3>1. HAVE InOrder
    <3>2. Loaded = acked /\ current = acked /\ screen = acked
      BY <2>1, <3>1 DEF WhileUp, Settled, Told
    <3> QED BY <1>3, <3>2 DEF WayBack, Loaded, Readable
  <2> QED BY <1>4, <1>5, <2>2, <2>3, <2>4, <2>5, <2>6 DEF WhileUp, Trusted
<1> QED BY <1>6, <1>7

LEMMA UserKeeps ==
  ASSUME TypeOK, up, WhileUp, NEW c \in Change, SaveSettings(c) \/ SetThreshold(c)
  PROVE  up' /\ WhileUp'
<1>1. CASE SaveSettings(c)
  <2>1. PICK s \in Setting : Begin(c, "screen", s)
    BY <1>1 DEF SaveSettings
  <2> QED BY <1>1, <2>1, BeginKeeps DEF SaveSettings
<1>2. CASE SetThreshold(c)
  <2>1. PICK v \in Threshold : Begin(c, "row", [screen EXCEPT !.threshold = v])
    BY <1>2 DEF SetThreshold
  <2>2. [screen EXCEPT !.threshold = v] \in Setting
    BY DEF TypeOK, Setting
  <2> QED BY <1>2, <2>1, <2>2, BeginKeeps DEF SetThreshold
<1> QED BY <1>1, <1>2

LEMMA StartScanKeeps ==
  ASSUME TypeOK, up, WhileUp, StartScan PROVE up' /\ WhileUp'
<1> USE DEF core, work, history, bounds
<1>1. /\ cmd' = Joined(cmd) /\ job' = Joined(job) /\ astray' = astray \cup Crossing(FALSE)
      /\ UNCHANGED <<up, file, current, events, screen, acked>>
  BY DEF StartScan
<1>2. InOrder' <=> InOrder
  BY <1>1 DEF InOrder, Crossing
<1>3. /\ Loaded' = Loaded /\ (Silent' <=> Silent)
      /\ \A d \in Change : Running(d)' <=> Running(d)
  BY <1>1, JoinedFacts DEF Loaded, Readable, Silent, Running
<1>4. \A d \in Change : Trusted(d)' => Trusted(d)
  BY <1>1, <1>2, <1>3, JoinedFacts DEF Trusted
<1>5. Lonely'
  BY <1>3, <1>4 DEF WhileUp, Lonely
<1>6. ASSUME NEW d \in Change
      PROVE  /\ cmd'[d].stage # "lost"
             /\ Progress(d) => Progress(d)'
             /\ WayBack(d) => WayBack(d)'
             /\ ~job'[d].alone
  BY <1>1, <1>3, JoinedFacts DEF WhileUp, Progress, WayBack, Told
<1>7. Silent' /\ InOrder' => Settled(acked)'
  BY <1>1, <1>2, <1>3 DEF WhileUp, Settled, Told
<1> QED BY <1>1, <1>2, <1>3, <1>4, <1>5, <1>6, <1>7 DEF WhileUp

-----------------------------------------------------------------------------
(* Events, jobs and the scan.                                              *)

LEMMA DeliverKeeps ==
  ASSUME TypeOK, up, WhileUp, Deliver PROVE up' /\ WhileUp'
<1> USE DEF core, work, history, bounds
<1>1. /\ events # <<>> /\ screen' = Head(events) /\ events' = Tail(events)
      /\ UNCHANGED <<up, file, current, cmd, job, acked, astray>>
  BY DEF Deliver
<1>2. /\ (InOrder' <=> InOrder) /\ Loaded' = Loaded /\ (Silent' <=> Silent)
      /\ \A d \in Change : (Running(d)' <=> Running(d)) /\ (Trusted(d)' <=> Trusted(d))
  BY <1>1 DEF InOrder, Loaded, Readable, Silent, Running, Trusted
<1>3. ASSUME NEW s, Told(s) PROVE Told(s)'
  BY <1>1, <1>3 DEF Told
<1>4. ASSUME NEW s, Settled(s) PROVE Loaded' = s /\ current' = s /\ acked' = s /\ Told(s)'
  BY <1>1, <1>2, <1>3, <1>4 DEF Settled
<1>5. ASSUME NEW d \in Change, Trusted(d) PROVE cmd[d].stage = "ok" /\ Progress(d)'
  <2>1. Progress(d) /\ cmd[d].stage = "ok"
    BY <1>1, <1>5 DEF WhileUp, Progress
  <2> QED BY <1>1, <1>2, <1>3, <2>1 DEF Progress
<1>6. ASSUME NEW d \in Change, Running(d), InOrder PROVE WayBack(d)'
  BY <1>1, <1>5, <1>6 DEF WayBack, Trusted
<1>7. ASSUME NEW d \in Change, job[d].stage # "idle", job[d].alone PROVE JobAlone(d)'
  <2>1. JobAlone(d)
    BY <1>7 DEF WhileUp
  <2> QED BY <1>1, <1>2, <1>4, <2>1 DEF JobAlone, Settled
<1>8. Silent' /\ InOrder' => Settled(acked)'
  BY <1>1, <1>2, <1>4 DEF WhileUp, Settled
<1> QED BY <1>1, <1>2, <1>5, <1>6, <1>7, <1>8 DEF WhileUp, Lonely

(* A step that moves nothing but jobs along.                               *)
LEMMA MoveKeeps ==
  ASSUME WhileUp, UNCHANGED <<file, current, cmd, screen, events, acked, astray>>,
         \A d \in Change : job'[d].stage # "idle" /\ job'[d].alone =>
                              job[d].stage # "idle" /\ job[d].alone /\ job'[d].by = job[d].by
  PROVE  WhileUp'
<1>1. /\ (InOrder' <=> InOrder) /\ Loaded' = Loaded /\ (Silent' <=> Silent)
      /\ \A d \in Change : (Running(d)' <=> Running(d)) /\ (Trusted(d)' <=> Trusted(d))
  BY DEF InOrder, Loaded, Readable, Silent, Running, Trusted
<1>2. ASSUME NEW d \in Change
      PROVE  (Progress(d)' <=> Progress(d)) /\ (WayBack(d)' <=> WayBack(d))
  BY <1>1 DEF Progress, WayBack, Told
<1>3. ASSUME NEW d \in Change, job'[d].stage # "idle", job'[d].alone PROVE JobAlone(d)'
  <2>1. JobAlone(d) /\ job'[d].by = job[d].by
    BY <1>3 DEF WhileUp
  <2> QED BY <1>1, <2>1 DEF JobAlone, Settled, Told
<1>4. Silent' /\ InOrder' => Settled(acked)'
  BY <1>1 DEF WhileUp, Settled, Told
<1> QED BY <1>1, <1>2, <1>3, <1>4 DEF WhileUp, Lonely

(* The end of a job that was alone puts all in order.                      *)
LEMMA JobEndKeeps ==
  ASSUME TypeOK, WhileUp, NEW c \in Change, job[c].stage # "idle", JobEnds(c),
         UNCHANGED <<file, current, cmd, screen, events, acked>>
  PROVE  WhileUp'
<1>0. /\ job'[c].stage = "idle" /\ \A d \in Change \ {c} : job'[d] = job[d]
      /\ astray' = IF job[c].alone THEN {} ELSE astray
  BY DEF JobEnds, TypeOK, NoJob
<1>1. CASE ~job[c].alone
  BY <1>0, <1>1, MoveKeeps
<1>2. CASE job[c].alone
  <2>1. JobAlone(c) /\ InOrder'
    BY <1>0, <1>2 DEF WhileUp, InOrder
  <2>2. /\ Loaded' = Loaded /\ (Silent' <=> Silent)
        /\ \A d \in Change : (Running(d)' <=> Running(d)) /\ (Trusted(d)' <=> Running(d))
    BY <2>1 DEF Loaded, Readable, Silent, Running, Trusted
  <2>3. CASE Running(c)
    <3>1. cmd[c].stage = "ok" /\ Trusted(c) /\ Progress(c)
      BY <2>1, <2>3 DEF JobAlone, Trusted, WhileUp
    <3>2. \A d \in Change : Running(d) => d = c
      BY <2>3, <3>1, NoRival
    <3>3. Progress(c)' /\ WayBack(c)'
      BY <2>2, <3>1 DEF Progress, WayBack, Told
    <3>4. \A d \in Change : ~(job'[d].stage # "idle" /\ job'[d].alone)
      BY <1>0, <2>3, NoRival
    <3> QED BY <2>2, <2>3, <3>2, <3>3, <3>4 DEF WhileUp, Lonely, Silent
  <2>4. CASE ~Running(c)
    <3>1. Silent /\ Settled(job[c].by)
      BY <2>1, <2>4 DEF JobAlone
    <3>2. Settled(acked) /\ Settled(acked)'
      BY <2>2, <3>1 DEF Settled, Told
    <3>3. \A d \in Change : ~Running(d) /\ ~Running(d)'
      BY <2>2, <3>1 DEF Silent
    <3>4. ASSUME NEW d \in Change, job'[d].stage # "idle", job'[d].alone PROVE JobAlone(d)'
      <4>1. JobAlone(d) /\ job'[d] = job[d]
        BY <1>0, <3>4 DEF WhileUp
      <4>2. Settled(job[d].by)
        BY <3>3, <4>1 DEF JobAlone
      <4> QED BY <2>2, <3>1, <3>3, <4>1, <4>2 DEF JobAlone, Settled, Told
    <3> QED BY <2>2, <3>2, <3>3, <3>4 DEF WhileUp, Lonely
  <2> QED BY <2>3, <2>4
<1> QED BY <1>1, <1>2

LEMMA JobKeeps ==
  ASSUME TypeOK, up, WhileUp, NEW c \in Change, JobStep(c)
  PROVE  up' /\ WhileUp'
<1> USE DEF core, work, history, bounds
<1>0. /\ job[c].stage # "idle"
      /\ UNCHANGED <<up, file, current, cmd, screen, events, acked>>
  BY DEF JobStep, Recalculate, KeepSettings, Mark, ReadIndex, Count
<1>1. CASE JobEnds(c)
  BY <1>0, <1>1, JobEndKeeps
<1>2. CASE ~JobEnds(c)
  <2>1. UNCHANGED astray
    BY <1>2 DEF JobStep, Recalculate, KeepSettings, Mark, ReadIndex, Count
  <2>2. \/ \E stage : JobGoto(c, stage)
        \/ job' = [job EXCEPT ![c].stage = "count", ![c].read = judged]
    BY <1>2 DEF JobStep, Recalculate, KeepSettings, Mark, ReadIndex, Count
  <2>3. \A d \in Change : job'[d].by = job[d].by /\ job'[d].alone = job[d].alone
                           /\ (d # c => job'[d] = job[d])
    BY <2>2 DEF JobGoto, TypeOK, Job
  <2> QED BY <1>0, <2>1, <2>3, MoveKeeps
<1> QED BY <1>1, <1>2

-----------------------------------------------------------------------------
(* Crashes and starts.                                                     *)

LEMMA CrashKeeps ==
  ASSUME TypeOK, up, WhileUp, Crash PROVE ~up' /\ WhileDown'
<1> USE DEF core, work, history, bounds
<1>1. /\ ~up' /\ events' = <<>> /\ file' = file /\ acked' = acked /\ astray' = astray
      /\ job' = [c \in Change |-> NoJob]
  BY Zenon DEF Crash
<1>2. cmd' = [c \in Change |->
                IF Running(c) THEN [NoCommand EXCEPT !.stage = "lost", !.wants = cmd[c].wants] ELSE cmd[c]]
  BY Zenon DEF Crash
<1>3. /\ Loaded' = Loaded /\ (InOrder' <=> InOrder)
      /\ \A c \in Change : job'[c].stage = "idle"
  BY <1>1 DEF Loaded, Readable, InOrder, NoJob
<1>4. \A c \in Change : Running(c) => cmd'[c].stage = "lost" /\ cmd'[c].wants = cmd[c].wants
  BY <1>2 DEF NoCommand
<1>5. Silent'
  <2>1. ASSUME NEW c \in Change PROVE ~Running(c)'
    <3>1. CASE Running(c)
      BY <1>4, <3>1 DEF Running
    <3>2. CASE ~Running(c)
      BY <1>2, <3>2 DEF Running
    <3> QED BY <3>1, <3>2
  <2> QED BY <2>1 DEF Silent
<1>6. ASSUME InOrder
      PROVE  Loaded = acked \/ \E c \in Change : cmd'[c].stage = "lost" /\ cmd'[c].wants = Loaded
  <2>1. CASE Silent
    BY <1>6, <2>1 DEF WhileUp, Settled
  <2>2. CASE ~Silent
    <3>1. PICK c \in Change : Running(c)
      BY <2>2 DEF Silent
    <3>2. Progress(c) /\ WayBack(c)
      BY <1>6, <3>1 DEF WhileUp, Trusted
    <3>3. cmd[c].stage \in {"begun", "save", "replace", "error", "exchange", "hand over", "tell", "ok"}
      BY <3>1 DEF TypeOK, Command, Running
    <3> QED BY <1>4, <3>1, <3>2, <3>3 DEF Progress, WayBack
  <2> QED BY <2>1, <2>2
<1> QED BY <1>1, <1>3, <1>5, <1>6 DEF WhileDown

(* After a start nothing runs and nothing is on its way.                   *)
LEMMA StartWithKeeps ==
  ASSUME WhileDown, NEW s, StartWith(s), InOrder' => Settled(acked)'
  PROVE  up' /\ WhileUp'
<1>1. up' /\ job' = job
  BY DEF StartWith
<1>2. \A c \in Change : ~Running(c)' /\ cmd'[c].stage # "lost"
  BY DEF StartWith, WhileDown, Silent, Running, NoCommand
<1> QED BY <1>1, <1>2 DEF WhileUp, WhileDown, Lonely, Trusted

LEMMA StartKeeps ==
  ASSUME TypeOK, WhileDown, Start \/ StartUnmigrated PROVE up' /\ WhileUp'
<1>1. CASE Start
  <2>1. Loaded' = Loaded
    BY <1>1 DEF Start, Loaded, Readable, Migrated, TypeOK, File
  <2>2. ASSUME InOrder' PROVE Settled(acked)'
    <3>1. InOrder
      BY <1>1, <2>2 DEF Start, InOrder
    <3>2. acked' = Loaded
      BY <1>1, <3>1 DEF Start, StartWith, WhileDown
    <3> QED BY <1>1, <2>1, <3>2 DEF Start, StartWith, WhileDown, Settled, Told
  <2> QED BY <1>1, <2>2, StartWithKeeps DEF Start
<1>2. CASE StartUnmigrated
  <2>1. ~InOrder'
    BY <1>2 DEF StartUnmigrated, InOrder
  <2> QED BY <1>2, <2>1, StartWithKeeps DEF StartUnmigrated
<1> QED BY <1>1, <1>2

-----------------------------------------------------------------------------
(* The invariant.                                                          *)

LEMMA AgreeInit == ASSUME Init PROVE AgreeInv
<1>1. /\ up = FALSE /\ events = <<>> /\ acked = Loaded
      /\ cmd = [c \in Change |-> NoCommand] /\ job = [c \in Change |-> NoJob]
  BY Zenon DEF Init
<1> QED BY <1>1, TypeInit DEF AgreeInv, WhileDown, Silent, Running, NoCommand, NoJob

LEMMA UpKeeps == ASSUME TypeOK, up, WhileUp, Next PROVE IF up' THEN WhileUp' ELSE WhileDown'
<1> USE DEF core, work, history, bounds
<1>1. ASSUME NEW c \in Change, CommandStep(c) PROVE up' /\ WhileUp'
  <2>1. CASE cmd[c].stage \notin {"ok", "error"}
    BY <1>1, <2>1, CommandKeeps
  <2>2. CASE cmd[c].stage \in {"ok", "error"}
    <3>1. Answered(c)
      BY <1>1, <2>2 DEF CommandStep, Validate, RemoveFile, WriteTemp, ReplaceFile, SaveFails, Exchange,
                        HandOver, Tell
    <3> QED BY <3>1, AnswerKeeps
  <2> QED BY <2>1, <2>2
<1>2. CASE ScanStep
  <2>1. UNCHANGED <<up, file, current, cmd, job, screen, events, acked, astray>>
    BY <1>2 DEF ScanStep, ClearCounts, TakeSettings, OnBatch, EndScan
  <2> QED BY <2>1, MoveKeeps
<1>3. ~Start /\ ~StartUnmigrated
  BY DEF Start, StartUnmigrated, StartWith
<1> QED BY <1>1, <1>2, <1>3, UserKeeps, StartScanKeeps, DeliverKeeps, JobKeeps, CrashKeeps DEF Next, User

LEMMA DownKeeps == ASSUME TypeOK, ~up, WhileDown, Next PROVE IF up' THEN WhileUp' ELSE WhileDown'
<1> USE DEF core, work, history, bounds
<1>1. ~User /\ ~Deliver /\ ~Crash
  BY DEF User, StartScan, SaveSettings, SetThreshold, Begin, Deliver, Crash
<1>2. ASSUME NEW c \in Change PROVE ~CommandStep(c) /\ ~JobStep(c)
  <2>1. ~Running(c) /\ job[c].stage = "idle"
    BY DEF WhileDown, Silent
  <2>2. ~JobStep(c)
    BY <2>1 DEF JobStep, Recalculate, KeepSettings, Mark, ReadIndex, Count
  <2>3. ~CommandStep(c)
    BY <2>1 DEF Running, CommandStep, Validate, RemoveFile, WriteTemp, ReplaceFile, SaveFails, Exchange,
                HandOver, Tell, Answered
  <2> QED BY <2>2, <2>3
<1>3. CASE ScanStep
  <2>1. UNCHANGED <<up, file, cmd, job, events, acked, astray>>
    BY <1>3 DEF ScanStep, ClearCounts, TakeSettings, OnBatch, EndScan
  <2> QED BY <2>1 DEF WhileDown, Silent, Running, InOrder, Loaded, Readable
<1> QED BY <1>1, <1>2, <1>3, StartKeeps DEF Next

(* T-092, for any number of commands, crashes and failed saves, any
   settings and any file found at the start: when all is quiet, the file,
   the settings in use and the screen are those acknowledged last.         *)
THEOREM Agreement == Spec => []SettingsAgree
<1>1. Init => AgreeInv
  BY AgreeInit
<1>2. AgreeInv /\ TypeOK' /\ [Next]_vars => AgreeInv'
  <2> SUFFICES ASSUME AgreeInv, TypeOK', [Next]_vars PROVE AgreeInv'
    OBVIOUS
  <2>1. CASE Next
    BY <2>1, UpKeeps, DownKeeps DEF AgreeInv
  <2>2. CASE UNCHANGED vars
    <3>1. UNCHANGED <<up, file, current, cmd, job, screen, events, acked, astray>>
      BY <2>2 DEF vars, core, history
    <3>2. CASE up
      BY <3>1, <3>2, MoveKeeps DEF AgreeInv
    <3>3. CASE ~up
      BY <3>1, <3>3 DEF AgreeInv, WhileDown, Silent, Running, InOrder, Loaded, Readable
    <3> QED BY <3>2, <3>3
  <2> QED BY <2>1, <2>2
<1>3. AgreeInv => SettingsAgree
  BY DEF AgreeInv, SettingsAgree, WhileUp, Talking, Silent, InOrder, Settled, Told
<1> QED BY <1>1, <1>2, <1>3, TypeCorrect, PTL DEF Spec

-----------------------------------------------------------------------------
(* The inductive invariant behind WorkFollows. It follows whoever is at    *)
(* work without a rival: the command, then its job, or a scan.             *)

(* Whoever is at work and has no rival: a command, or its job.             *)
Owner(c) ==
  \/ Running(c) /\ (astray = {} \/ cmd[c].alone)
  \/ job[c].stage # "idle" /\ (astray = {} \/ job[c].alone)

Scanning == scan.stage \notin {"idle", "stuck"}

OnlyOf(c) == ~Scanning /\ \A d \in Change \ {c} : ~Running(d) /\ job[d].stage = "idle"

(* A command that owns the work has handed over what it has put in use.    *)
CommandWork(c) ==
  /\ cmd[c].stage \in {"hand over", "tell"} => current = cmd[c].wants
  /\ cmd[c].stage = "tell" => snapshot = cmd[c].wants

(* How far a job has come that owns the work.                              *)
JobWork(c) ==
  job[c].stage # "idle" =>
    /\ Running(c) => cmd[c].stage = "ok"
    /\ current = job[c].by /\ snapshot = job[c].by
    /\ job[c].stage # "judge" => ~Refused(job[c].by) /\ judged = By(job[c].by, judged)
    /\ job[c].stage \in {"read", "count"} => marked = judged
    /\ job[c].stage = "count" => job[c].read = judged

(* The numbers are those of settings s.                                    *)
Follows(s) == ~Refused(s) => judged = By(s, judged) /\ marked = judged /\ counted = judged

Empty == [r \in Record |-> Unseen]

(* How far a scan has come that has no rival.                              *)
ScanWork ==
  /\ Scanning => snapshot = current
  /\ scan.stage \in {"clear", "prepare"} => judged = Empty
  /\ scan.stage = "prepare" => marked = Empty /\ counted = Empty
  /\ scan.stage = "batches" => scan.farm = current.threshold /\ ~Refused(current) /\ Follows(current)

(* Neither scan nor job is at work, nor has a command changed the settings
   and not yet started its job.                                            *)
AtRest ==
  /\ ~Scanning
  /\ \A c \in Change : job[c].stage = "idle" /\ cmd[c].stage \notin {"hand over", "tell"}

WorkUp ==
  /\ \A c \in Change : Owner(c) => OnlyOf(c) /\ CommandWork(c) /\ JobWork(c)
  /\ astray = {} => ScanWork
  /\ astray = {} /\ AtRest => snapshot = current /\ Follows(current)

WorkDown ==
  /\ judged = Empty /\ marked = Empty /\ counted = Empty
  /\ ~Scanning
  /\ \A c \in Change : ~Running(c) /\ job[c].stage = "idle"

WorkInv == IF up THEN WorkUp ELSE WorkDown

-----------------------------------------------------------------------------
(* Whoever is at work.                                                     *)

(* Beside one who is at work nobody else owns it.                          *)
LEMMA NoOtherOwner ==
  ASSUME WorkUp, NEW c \in Change, Running(c) \/ job[c].stage # "idle"
  PROVE  /\ \A d \in Change : Owner(d) => d = c
         /\ ~Owner(c) => astray # {}
  BY DEF WorkUp, OnlyOf, Owner

(* An owner before its change, or after its job, finds all in order.       *)
LEMMA OwnerRests ==
  ASSUME WorkUp, NEW c \in Change, Owner(c), astray = {}, job[c].stage = "idle",
         cmd[c].stage \notin {"hand over", "tell"}
  PROVE  snapshot = current /\ Follows(current)
<1>1. OnlyOf(c)
  BY DEF WorkUp
<1>2. ASSUME NEW d \in Change PROVE job[d].stage = "idle" /\ cmd[d].stage \notin {"hand over", "tell"}
  BY <1>1 DEF OnlyOf, Running
<1>3. AtRest
  BY <1>1, <1>2 DEF AtRest, OnlyOf
<1> QED BY <1>3 DEF WorkUp

(* A step of one command or of its job: what an owner has to show for it.  *)
LEMMA WorkStep ==
  ASSUME WorkUp, NEW c \in Change, Running(c) \/ job[c].stage # "idle",
         UNCHANGED scan, astray' = astray \/ Owner(c),
         \A d \in Change \ {c} : cmd'[d] = cmd[d] /\ job'[d] = job[d],
         Running(c)' => Running(c) /\ cmd'[c].alone = cmd[c].alone,
         job'[c].stage # "idle" =>
           \/ job[c].stage # "idle" /\ job'[c].alone = job[c].alone
           \/ Running(c) /\ job'[c].alone = cmd[c].alone,
         Owner(c) => CommandWork(c)' /\ JobWork(c)',
         Owner(c) /\ astray' = {} /\ job'[c].stage = "idle" /\ cmd'[c].stage \notin {"hand over", "tell"} =>
           snapshot' = current' /\ Follows(current)'
  PROVE  WorkUp'
<1>1. CASE ~Owner(c)
  <2>1. astray' = astray /\ astray # {}
    BY <1>1, NoOtherOwner
  <2>2. ASSUME NEW d \in Change PROVE ~Owner(d)'
    <3>1. ~Owner(d)
      BY <1>1, NoOtherOwner
    <3>2. CASE d = c
      BY <1>1, <2>1, <3>2 DEF Owner
    <3>3. CASE d # c
      BY <2>1, <3>1, <3>3 DEF Owner, Running
    <3> QED BY <3>2, <3>3
  <2> QED BY <2>1, <2>2 DEF WorkUp
<1>2. CASE Owner(c)
  <2>1. OnlyOf(c)
    BY <1>2 DEF WorkUp
  <2>2. OnlyOf(c)' /\ ~Scanning'
    BY <2>1 DEF OnlyOf, Running, Scanning
  <2>3. \A d \in Change \ {c} : ~Owner(d)'
    BY <2>2 DEF OnlyOf, Owner
  <2>4. ScanWork'
    BY <2>2 DEF ScanWork, Scanning
  <2>5. AtRest' => job'[c].stage = "idle" /\ cmd'[c].stage \notin {"hand over", "tell"}
    BY DEF AtRest
  <2> QED BY <1>2, <2>2, <2>3, <2>4, <2>5 DEF WorkUp
<1> QED BY <1>1, <1>2

(* What is judged by settings twice is what is judged by them once.        *)
LEMMA ByTwice ==
  ASSUME NEW s \in Setting, NEW records \in [Record -> Threshold \cup {Unseen}]
  PROVE  By(s, By(s, records)) = By(s, records)
  BY SettingAssumption, Blanks DEF By

(* The numbers follow where nothing they are made of changes.              *)
LEMMA FollowsStays ==
  ASSUME NEW s, Follows(s), UNCHANGED work
  PROVE  Follows(s)'
  BY DEF Follows, Refused, By, work

-----------------------------------------------------------------------------
(* Steps of commands.                                                      *)

(* A command that owns the work leaves the numbers alone until it has
   changed the settings; from then on its job answers for them.            *)
LEMMA CommandWorks ==
  ASSUME TypeOK, WorkUp, NEW c \in Change, CommandStep(c)
  PROVE  WorkUp'
<1>0. cmd \in [Change -> Command] /\ job \in [Change -> Job] /\ cmd[c] \in Command
  BY DEF TypeOK
<1>1. /\ Running(c) /\ UNCHANGED <<scan, work, astray>>
      /\ \A d \in Change \ {c} : cmd'[d] = cmd[d] /\ job'[d] = job[d]
  BY <1>0 DEF CommandStep, Validate, RemoveFile, WriteTemp, ReplaceFile, SaveFails, Exchange, HandOver, Tell,
              Answered, Goto, Running, history
<1>2. Owner(c) => CommandWork(c) /\ JobWork(c)
  BY DEF WorkUp
<1>3. Owner(c) /\ cmd[c].stage # "ok" => job[c].stage = "idle"
  BY <1>1, <1>2 DEF JobWork
<1>4. ASSUME Owner(c), astray = {}, job[c].stage = "idle", cmd[c].stage \notin {"hand over", "tell"},
             UNCHANGED core
      PROVE  snapshot' = current' /\ Follows(current)'
  <2>1. snapshot = current /\ Follows(current) /\ current' = current /\ snapshot' = snapshot
    BY <1>4, OwnerRests DEF core
  <2>2. Follows(current)'
    BY <1>1, <2>1 DEF Follows, Refused, By, work
  <2> QED BY <2>1, <2>2
<1>5. ASSUME NEW stage \in {"save", "replace", "exchange", "hand over", "tell", "ok", "error"}, Goto(c, stage)
      PROVE  cmd'[c].stage = stage /\ cmd'[c].alone = cmd[c].alone /\ cmd'[c].wants = cmd[c].wants
  BY <1>0, <1>5 DEF Goto, Command
<1>6. CASE Validate(c)
  <2>1. /\ cmd[c].stage = "begun" /\ cmd'[c].stage \in {"save", "error"} /\ cmd'[c].alone = cmd[c].alone
        /\ UNCHANGED <<core, job>>
    BY <1>0, <1>6 DEF Validate, Command
  <2>2. Owner(c) => CommandWork(c)' /\ JobWork(c)'
    BY <1>3, <2>1 DEF CommandWork, JobWork
  <2> QED BY <1>1, <1>4, <2>1, <2>2, WorkStep
<1>7. CASE RemoveFile(c) \/ WriteTemp(c) \/ ReplaceFile(c) \/ SaveFails(c)
  <2>1. /\ cmd[c].stage \in {"save", "replace"} /\ cmd'[c].stage \in {"replace", "exchange", "error"}
        /\ cmd'[c].alone = cmd[c].alone
        /\ UNCHANGED <<core, job>>
    BY <1>5, <1>7 DEF RemoveFile, WriteTemp, ReplaceFile, SaveFails
  <2>2. Owner(c) => CommandWork(c)' /\ JobWork(c)'
    BY <1>3, <2>1 DEF CommandWork, JobWork
  <2> QED BY <1>1, <1>4, <2>1, <2>2, WorkStep
<1>8. CASE Exchange(c)
  <2>1. /\ cmd[c].stage = "exchange" /\ cmd'[c].stage = "hand over" /\ cmd'[c].alone = cmd[c].alone
        /\ current' = cmd'[c].wants /\ UNCHANGED job
    BY <1>5, <1>8 DEF Exchange
  <2>2. Owner(c) => CommandWork(c)' /\ JobWork(c)'
    BY <1>3, <2>1 DEF CommandWork, JobWork
  <2> QED BY <1>1, <2>1, <2>2, WorkStep
<1>9. CASE HandOver(c)
  <2>1. /\ cmd[c].stage = "hand over" /\ cmd'[c].stage = "tell" /\ cmd'[c].alone = cmd[c].alone
        /\ snapshot' = cmd'[c].wants /\ cmd'[c].wants = cmd[c].wants /\ current' = current /\ UNCHANGED job
    BY <1>5, <1>9 DEF HandOver
  <2>2. Owner(c) => CommandWork(c)' /\ JobWork(c)'
    BY <1>2, <1>3, <2>1 DEF CommandWork, JobWork
  <2> QED BY <1>1, <2>1, <2>2, WorkStep
<1>10. CASE Tell(c)
  <2>1. /\ cmd[c].stage = "tell" /\ cmd'[c].stage = "ok" /\ cmd'[c].alone = cmd[c].alone
        /\ UNCHANGED core
    BY <1>5, <1>10 DEF Tell
  <2>2. job'[c].stage = "judge" /\ job'[c].by = cmd[c].wants /\ job'[c].alone = cmd[c].alone
    BY <1>0, <1>10 DEF Tell, NoJob, Job
  <2>3. Owner(c) => CommandWork(c)' /\ JobWork(c)'
    BY <1>2, <2>1, <2>2 DEF CommandWork, JobWork, core
  <2> QED BY <1>1, <2>1, <2>2, <2>3, WorkStep
<1>11. CASE Answered(c)
  <2>1. /\ cmd[c].stage \in {"ok", "error"} /\ cmd'[c].stage = "done" /\ ~Running(c)'
        /\ UNCHANGED <<core, job>>
    BY <1>0, <1>11 DEF Answered, NoCommand, Running
  <2>2. Owner(c) => CommandWork(c)' /\ JobWork(c)'
    <3>1. By(job[c].by, judged)' = By(job[c].by, judged) /\ Refused(job[c].by)' = Refused(job[c].by)
      BY <1>1, <2>1 DEF By, Refused, work
    <3> QED BY <1>1, <1>2, <2>1, <3>1 DEF CommandWork, JobWork, core, work
  <2> QED BY <1>1, <1>4, <2>1, <2>2, WorkStep
<1> QED BY <1>6, <1>7, <1>8, <1>9, <1>10, <1>11 DEF CommandStep

-----------------------------------------------------------------------------
(* Steps of jobs.                                                          *)

(* A job that owns the work brings the numbers in order step by step.      *)
LEMMA JobWorks ==
  ASSUME TypeOK, WorkUp, NEW c \in Change, JobStep(c)
  PROVE  WorkUp'
<1> USE DEF core, work
<1>0. /\ cmd \in [Change -> Command] /\ job \in [Change -> Job] /\ job[c] \in Job /\ job[c].by \in Setting
      /\ judged \in [Record -> Threshold \cup {Unseen}]
  BY DEF TypeOK, Job
<1>1. /\ job[c].stage # "idle" /\ UNCHANGED <<scan, cmd, current>>
      /\ \A d \in Change \ {c} : job'[d] = job[d]
  BY <1>0 DEF JobStep, Recalculate, KeepSettings, Mark, ReadIndex, Count, JobEnds, JobGoto
<1>2. Owner(c) => /\ CommandWork(c) /\ JobWork(c)
                  /\ Running(c) => cmd[c].stage = "ok"
  BY <1>1 DEF WorkUp, JobWork
<1>3. Owner(c) => cmd[c].stage \notin {"hand over", "tell"} /\ CommandWork(c)'
  BY <1>1, <1>2 DEF CommandWork, Running
<1>4. ASSUME NEW stage \in {"keep", "mark", "read", "count"}, JobGoto(c, stage)
      PROVE  /\ job'[c].stage = stage /\ job'[c].by = job[c].by /\ job'[c].alone = job[c].alone
             /\ job'[c].read = job[c].read
  BY <1>0, <1>4 DEF JobGoto, Job
<1>5. ASSUME JobEnds(c), Owner(c) => snapshot' = current /\ Follows(current)'
      PROVE  WorkUp'
  <2>1. job'[c].stage = "idle" /\ (astray' = astray \/ (job[c].alone /\ astray' = {}))
    BY <1>0, <1>5 DEF JobEnds, NoJob
  <2>2. astray' = astray \/ Owner(c)
    BY <1>1, <2>1 DEF Owner
  <2>3. Owner(c) => JobWork(c)'
    BY <2>1 DEF JobWork
  <2> QED BY <1>1, <1>3, <1>5, <2>1, <2>2, <2>3, WorkStep DEF Running
<1>6. ASSUME UNCHANGED astray, job'[c].stage # "idle", job'[c].alone = job[c].alone, Owner(c) => JobWork(c)'
      PROVE  WorkUp'
  BY <1>1, <1>3, <1>6, WorkStep DEF Running
<1>7. CASE Recalculate(c)
  <2>1. CASE Refused(job[c].by)
    <3>1. JobEnds(c) /\ UNCHANGED snapshot
      BY <1>7, <2>1 DEF Recalculate
    <3>2. Owner(c) => snapshot' = current /\ Follows(current)'
      BY <1>1, <1>2, <2>1, <3>1 DEF JobWork, Follows, Refused
    <3> QED BY <1>5, <3>1, <3>2
  <2>2. CASE ~Refused(job[c].by)
    <3>1. judged' = By(job[c].by, judged) /\ JobGoto(c, "keep") /\ UNCHANGED <<snapshot, astray>>
      BY <1>7, <2>2 DEF Recalculate
    <3>2. judged' = By(job[c].by, judged')
      BY <1>0, <3>1, ByTwice
    <3>3. Owner(c) => JobWork(c)'
      BY <1>1, <1>2, <1>4, <2>2, <3>1, <3>2 DEF JobWork, Running, Refused, By
    <3> QED BY <1>4, <1>6, <3>1, <3>3
  <2> QED BY <2>1, <2>2
<1>8. CASE KeepSettings(c)
  <2>1. job[c].stage = "keep" /\ snapshot' = job[c].by /\ JobGoto(c, "mark") /\ UNCHANGED <<work, astray>>
    BY <1>8 DEF KeepSettings, history
  <2>2. Owner(c) => JobWork(c)'
    BY <1>1, <1>2, <1>4, <2>1 DEF JobWork, Running, Refused, By
  <2> QED BY <1>4, <1>6, <2>1, <2>2
<1>9. CASE Mark(c)
  <2>1. /\ job[c].stage = "mark" /\ marked' = By(job[c].by, judged) /\ JobGoto(c, "read")
        /\ UNCHANGED <<judged, snapshot, astray>>
    BY <1>9 DEF Mark, history
  <2>2. Owner(c) => JobWork(c)'
    BY <1>1, <1>2, <1>4, <2>1 DEF JobWork, Running, Refused, By
  <2> QED BY <1>4, <1>6, <2>1, <2>2
<1>10. CASE ReadIndex(c)
  <2>1. /\ job[c].stage = "read" /\ job'[c].stage = "count" /\ job'[c].read = judged /\ job'[c].by = job[c].by
        /\ job'[c].alone = job[c].alone /\ UNCHANGED <<work, snapshot, astray>>
    BY <1>0, <1>10 DEF ReadIndex, Job, history
  <2>2. Owner(c) => JobWork(c)'
    BY <1>1, <1>2, <2>1 DEF JobWork, Running, Refused, By
  <2> QED BY <1>6, <2>1, <2>2
<1>11. CASE Count(c)
  <2>1. job[c].stage = "count" /\ counted' = job[c].read /\ JobEnds(c) /\ UNCHANGED <<judged, marked, snapshot>>
    BY <1>11 DEF Count
  <2>2. Owner(c) => snapshot' = current /\ Follows(current)'
    BY <1>1, <1>2, <2>1 DEF JobWork, Follows, Refused, By
  <2> QED BY <1>5, <2>1, <2>2
<1> QED BY <1>7, <1>8, <1>9, <1>10, <1>11 DEF JobStep

-----------------------------------------------------------------------------
(* Beginnings.                                                             *)

(* Whoever begins when others are at work, and those others, own nothing.  *)
LEMMA Crossed ==
  ASSUME astray' # {}, \A c \in Change : Running(c)' => ~cmd'[c].alone,
         \A c \in Change : job'[c].stage # "idle" => ~job'[c].alone
  PROVE  WorkUp'
  BY DEF WorkUp, Owner

(* Whoever begins when nobody is at work finds all in order.               *)
LEMMA Uncrossed ==
  ASSUME WorkUp, ~Talking, ~AtWork, astray = {}
  PROVE  snapshot = current /\ Follows(current)
<1>1. AtRest
  BY DEF AtRest, Talking, AtWork, Running, Scanning
<1> QED BY <1>1 DEF WorkUp

(* A command begins: alone with all in order, or nobody owns the work.     *)
LEMMA BeginWorks ==
  ASSUME TypeOK, WorkUp, NEW c \in Change, NEW via, NEW wants, Begin(c, via, wants),
         UNCHANGED <<core, work, scan>>
  PROVE  WorkUp'
<1> DEFINE fresh == [stage |-> "begun", via |-> via, wants |-> wants, before |-> screen,
                     alone |-> Crossing(TRUE) = {}]
<1>0. cmd \in [Change -> Command] /\ job \in [Change -> Job] /\ Joined(cmd) \in [Change -> Command]
  BY JoinedTypes DEF TypeOK
<1>1. /\ cmd' = [IF Crossing(TRUE) = {} THEN cmd ELSE Joined(cmd) EXCEPT ![c] = fresh]
      /\ job' = (IF Crossing(TRUE) = {} THEN job ELSE Joined(job))
      /\ astray' = astray \cup Crossing(TRUE)
  BY DEF Begin
<1>2. CASE Crossing(TRUE) # {}
  <2>1. astray' # {}
    BY <1>1, <1>2
  <2>2. \A d \in Change : job'[d].stage # "idle" => ~job'[d].alone
    BY <1>1, <1>2, JoinedFacts
  <2>3. ~fresh.alone
    BY <1>2
  <2>4. ASSUME NEW d \in Change PROVE ~cmd'[d].alone
    <3>1. CASE d = c
      <4>1. cmd'[c] = fresh
        BY <1>0, <1>1
      <4> QED BY <2>3, <3>1, <4>1
    <3>2. CASE d # c
      <4>1. cmd'[d] = Joined(cmd)[d]
        BY <1>0, <1>1, <1>2, <3>2
      <4> QED BY <4>1, JoinedFacts
    <3> QED BY <3>1, <3>2
  <2> QED BY <2>1, <2>2, <2>4, Crossed
<1>3. CASE Crossing(TRUE) = {}
  <2>1. ~Talking /\ ~AtWork
    BY <1>3 DEF Crossing
  <2>2. astray' = astray /\ job' = job /\ UNCHANGED <<core, work, scan>>
    BY <1>1, <1>3
  <2>3. /\ cmd'[c].stage = "begun"
        /\ \A d \in Change \ {c} : cmd'[d] = cmd[d]
    BY <1>0, <1>1, <1>3
  <2>4. \A d \in Change : job'[d].stage = "idle" /\ ~Scanning /\ ~Running(d)
    BY <2>1, <2>2 DEF AtWork, Talking, Scanning
  <2>5. \A d \in Change \ {c} : ~Running(d)'
    BY <2>3, <2>4 DEF Running
  <2>6. OnlyOf(c)'
    BY <2>2, <2>4, <2>5 DEF OnlyOf, Scanning
  <2>7. \A d \in Change : Owner(d)' => d = c
    BY <2>4, <2>5 DEF Owner
  <2>8. CommandWork(c)' /\ JobWork(c)'
    BY <2>3, <2>4 DEF CommandWork, JobWork
  <2>9. ScanWork'
    BY <2>2, <2>4 DEF ScanWork, Scanning
  <2>10. astray' = {} => snapshot' = current' /\ Follows(current)'
    BY <2>1, <2>2, Uncrossed DEF Follows, Refused, By, core, work
  <2> QED BY <2>6, <2>7, <2>8, <2>9, <2>10 DEF WorkUp
<1> QED BY <1>2, <1>3

(* The same from the screen and from a row.                                *)
LEMMA UserWorks ==
  ASSUME TypeOK, WorkUp, NEW c \in Change, SaveSettings(c) \/ SetThreshold(c)
  PROVE  WorkUp'
<1>1. CASE SaveSettings(c)
  BY <1>1, BeginWorks DEF SaveSettings
<1>2. CASE SetThreshold(c)
  BY <1>2, BeginWorks DEF SetThreshold
<1> QED BY <1>1, <1>2

(* So does a scan.                                                         *)
LEMMA StartScanWorks ==
  ASSUME TypeOK, WorkUp, StartScan
  PROVE  WorkUp'
<1>1. /\ cmd' = Joined(cmd) /\ job' = Joined(job) /\ astray' = astray \cup Crossing(FALSE)
      /\ scan'.stage = "clear" /\ scan.stage = "idle" /\ judged = Empty /\ UNCHANGED <<core, work>>
  BY DEF StartScan, TypeOK, Scan, Empty
<1>2. ASSUME NEW d \in Change
      PROVE  cmd'[d].stage = cmd[d].stage /\ ~cmd'[d].alone /\ job'[d].stage = job[d].stage /\ ~job'[d].alone
  BY <1>1, JoinedFacts
<1>3. CASE Crossing(FALSE) # {}
  BY <1>1, <1>2, <1>3, Crossed
<1>4. CASE Crossing(FALSE) = {}
  <2>1. ~Talking /\ ~AtWork /\ astray' = astray
    BY <1>1, <1>4 DEF Crossing
  <2>2. \A d \in Change : ~Owner(d)'
    BY <1>2, <2>1 DEF Owner, AtWork, Talking, Running
  <2>3. astray' = {} => ScanWork'
    BY <1>1, <2>1, Uncrossed DEF ScanWork, Empty, core, work
  <2>4. ~AtRest'
    BY <1>1 DEF AtRest, Scanning
  <2> QED BY <2>2, <2>3, <2>4 DEF WorkUp
<1> QED BY <1>3, <1>4

-----------------------------------------------------------------------------
(* The scan.                                                               *)

(* A scan without a rival fills the emptied index by the settings in use.  *)
LEMMA ScanWorks ==
  ASSUME TypeOK, WorkUp, ScanStep
  PROVE  WorkUp'
<1> USE DEF core, work, history
<1>1. Scanning /\ UNCHANGED <<cmd, job, current, snapshot, astray>>
  BY DEF ScanStep, ClearCounts, TakeSettings, OnBatch, EndScan, Scanning
<1>2. \A c \in Change : ~Owner(c) /\ ~Owner(c)'
  BY <1>1 DEF WorkUp, OnlyOf, Owner, Running
<1>3. SUFFICES ASSUME astray = {}
               PROVE  ScanWork' /\ (AtRest' => snapshot' = current' /\ Follows(current)')
  BY <1>1, <1>2 DEF WorkUp
<1>4. ScanWork /\ snapshot = current
  BY <1>1, <1>3 DEF WorkUp, ScanWork
<1>5. CASE ClearCounts
  <2>1. scan'.stage = "prepare" /\ judged = Empty /\ judged' = Empty /\ marked' = Empty /\ counted' = Empty
    BY <1>4, <1>5 DEF ClearCounts, ScanWork, TypeOK, Scan, Empty
  <2>2. ~AtRest'
    BY <2>1 DEF AtRest, Scanning
  <2> QED BY <1>1, <1>4, <2>1, <2>2 DEF ScanWork, Empty
<1>6. CASE TakeSettings
  <2>1. UNCHANGED work /\ judged = Empty /\ marked = Empty /\ counted = Empty
    BY <1>4, <1>6 DEF TakeSettings, ScanWork
  <2>2. Follows(current) /\ Follows(current)'
    BY <1>1, <2>1 DEF Follows, By, Empty, Refused
  <2>3. CASE Refused(snapshot)
    <3>1. scan'.stage = "stuck"
      BY <1>6, <2>3 DEF TakeSettings, TypeOK, Scan
    <3> QED BY <1>1, <1>4, <2>2, <3>1 DEF ScanWork, Scanning
  <2>4. CASE ~Refused(snapshot)
    <3>1. scan'.stage = "batches" /\ scan'.farm = current.threshold
      BY <1>4, <1>6, <2>4 DEF TakeSettings, TypeOK, Scan
    <3> QED BY <1>1, <1>4, <2>2, <2>4, <3>1 DEF ScanWork, Refused
  <2> QED BY <2>3, <2>4
<1>7. ASSUME NEW r \in Record, OnBatch(r)
      PROVE  ScanWork' /\ (AtRest' => snapshot' = current' /\ Follows(current)')
  <2>1. /\ scan.stage = "batches" /\ scan'.stage = "batches" /\ scan'.farm = scan.farm
        /\ judged' = [judged EXCEPT ![r] = scan.farm]
        /\ marked' = [marked EXCEPT ![r] = scan.farm]
        /\ counted' = [counted EXCEPT ![r] = scan.farm]
    BY <1>7 DEF OnBatch, TypeOK, Scan
  <2>2. scan.farm = current.threshold /\ ~Refused(current) /\ Follows(current)
    BY <1>4, <2>1 DEF ScanWork
  <2>3. judged' = By(current, judged')
    BY <2>1, <2>2, SettingAssumption DEF Follows, By, TypeOK, Scan
  <2>4. Follows(current)'
    BY <1>1, <2>1, <2>2, <2>3 DEF Follows, By, Refused
  <2> QED BY <1>1, <1>4, <2>1, <2>2, <2>4 DEF ScanWork, Refused
<1>8. CASE EndScan
  <2>1. scan.stage = "batches" /\ scan'.stage = "idle" /\ UNCHANGED work
    BY <1>8 DEF EndScan, TypeOK, Scan
  <2>2. Follows(current)'
    BY <1>1, <1>4, <2>1 DEF ScanWork, Follows, Refused, By
  <2> QED BY <1>1, <1>4, <2>1, <2>2 DEF ScanWork, Scanning
<1> QED BY <1>5, <1>6, <1>7, <1>8 DEF ScanStep

-----------------------------------------------------------------------------
(* Crashes, starts, and the invariant.                                     *)

(* At first nothing is judged.                                             *)
LEMMA WorkInit == ASSUME Init PROVE WorkInv
<1>1. /\ up = FALSE /\ judged = Empty /\ marked = judged /\ counted = judged
      /\ cmd = [c \in Change |-> NoCommand] /\ job = [c \in Change |-> NoJob] /\ scan = NoScan
  BY Zenon DEF Init, Empty
<1> QED BY <1>1 DEF WorkInv, WorkDown, Running, NoCommand, NoJob, NoScan, Scanning

(* A crash leaves nothing that could disagree,                             *)
LEMMA CrashWorks == ASSUME Crash PROVE ~up' /\ WorkDown'
<1>1. /\ ~up' /\ judged' = Empty /\ marked' = judged' /\ counted' = judged'
      /\ job' = [c \in Change |-> NoJob] /\ scan' = NoScan
  BY Zenon DEF Crash, Empty
<1>2. cmd' = [c \in Change |->
                IF Running(c) THEN [NoCommand EXCEPT !.stage = "lost", !.wants = cmd[c].wants] ELSE cmd[c]]
  BY Zenon DEF Crash
<1>3. ASSUME NEW c \in Change PROVE ~Running(c)'
  <2>1. CASE Running(c)
    BY <1>2, <2>1 DEF Running, NoCommand
  <2>2. CASE ~Running(c)
    BY <1>2, <2>2 DEF Running
  <2> QED BY <2>1, <2>2
<1> QED BY <1>1, <1>3 DEF WorkDown, NoJob, NoScan, Scanning, Empty

(* and a start hands one copy of the settings to both.                     *)
LEMMA StartWorks == ASSUME WorkDown, Start \/ StartUnmigrated PROVE up' /\ WorkUp'
<1>1. PICK s : StartWith(s)
  BY DEF Start, StartUnmigrated
<1>2. /\ up' /\ current' = s /\ snapshot' = s /\ UNCHANGED <<work, job, scan>>
      /\ \A c \in Change : ~Running(c)'
  BY <1>1 DEF StartWith, WorkDown, Running, NoCommand
<1>3. \A c \in Change : ~Owner(c)'
  BY <1>2 DEF Owner, WorkDown
<1>4. ScanWork' /\ Follows(s)'
  BY <1>2 DEF ScanWork, Scanning, WorkDown, Follows, By, Empty, work
<1> QED BY <1>2, <1>3, <1>4 DEF WorkUp, Follows, Refused, By

(* Events touch none of it.                                                *)
LEMMA DeliverWorks ==
  ASSUME WorkUp, UNCHANGED <<core, work, cmd, job, scan, astray>>
  PROVE  WorkUp'
<1>1. ASSUME NEW s PROVE Follows(s)' <=> Follows(s)
  BY DEF Follows, Refused, By, work
<1>2. Follows(current)' <=> Follows(current)
  BY <1>1 DEF Follows, Refused, By, work, core
<1>3. ScanWork' <=> ScanWork
  BY <1>2 DEF ScanWork, Scanning, Refused, Empty, core, work
<1>4. ASSUME NEW c \in Change
      PROVE  /\ Owner(c)' <=> Owner(c)
             /\ OnlyOf(c)' <=> OnlyOf(c)
             /\ CommandWork(c)' <=> CommandWork(c)
             /\ JobWork(c)' <=> JobWork(c)
  <2>1. OnlyOf(c)' <=> OnlyOf(c)
    BY DEF OnlyOf, Scanning, Running
  <2>2. JobWork(c)' <=> JobWork(c)
    BY DEF JobWork, Running, Refused, By, core, work
  <2> QED BY <2>1, <2>2 DEF Owner, CommandWork, Running, core
<1>5. AtRest' <=> AtRest
  BY DEF AtRest, Scanning
<1> QED BY <1>2, <1>3, <1>4, <1>5 DEF WorkUp, core

(* Every step keeps the invariant.                                         *)
LEMMA WorkKeeps == ASSUME TypeOK, WorkInv, [Next]_vars PROVE WorkInv'
<1> USE DEF core, work, history
<1>1. CASE UNCHANGED vars
  <2>1. UNCHANGED <<up, core, work, cmd, job, scan, astray>>
    BY <1>1 DEF vars
  <2>2. CASE up
    BY <2>1, <2>2, DeliverWorks DEF WorkInv
  <2>3. CASE ~up
    BY <2>1, <2>3 DEF WorkInv, WorkDown, Scanning, Running, Empty
  <2> QED BY <2>2, <2>3
<1>2. CASE Next /\ up
  <2>1. WorkUp
    BY <1>2 DEF WorkInv
  <2>2. ASSUME NEW c \in Change, CommandStep(c) PROVE up' /\ WorkUp'
    <3>1. up' = up
      BY <2>2 DEF CommandStep, Validate, RemoveFile, WriteTemp, ReplaceFile, SaveFails, Exchange, HandOver,
                  Tell, Answered
    <3> QED BY <1>2, <2>1, <2>2, <3>1, CommandWorks
  <2>3. ASSUME NEW c \in Change, JobStep(c) PROVE up' /\ WorkUp'
    <3>1. up' = up
      BY <2>3 DEF JobStep, Recalculate, KeepSettings, Mark, ReadIndex, Count
    <3> QED BY <1>2, <2>1, <2>3, <3>1, JobWorks
  <2>4. CASE User
    <3>1. up' = up
      BY <2>4 DEF User, StartScan, SaveSettings, SetThreshold
    <3> QED BY <1>2, <2>1, <2>4, <3>1, UserWorks, StartScanWorks DEF User, WorkInv
  <2>5. CASE Deliver
    <3>1. UNCHANGED <<up, core, work, cmd, job, scan, astray>>
      BY <2>5 DEF Deliver
    <3> QED BY <1>2, <2>1, <3>1, DeliverWorks DEF WorkInv
  <2>6. CASE ScanStep
    <3>1. up' = up
      BY <2>6 DEF ScanStep, ClearCounts, TakeSettings, OnBatch, EndScan
    <3> QED BY <1>2, <2>1, <2>6, <3>1, ScanWorks DEF WorkInv
  <2>7. CASE Crash
    BY <2>7, CrashWorks DEF WorkInv
  <2>8. ~Start /\ ~StartUnmigrated
    BY <1>2 DEF Start, StartUnmigrated, StartWith
  <2> QED BY <1>2, <2>2, <2>3, <2>4, <2>5, <2>6, <2>7, <2>8 DEF Next, WorkInv
<1>3. CASE Next /\ ~up
  <2>1. WorkDown /\ ~User /\ ~Deliver /\ ~Crash
    BY <1>3 DEF WorkInv, User, StartScan, SaveSettings, SetThreshold, Begin, Deliver, Crash
  <2>2. ~ScanStep
    BY <2>1 DEF ScanStep, ClearCounts, TakeSettings, OnBatch, EndScan, WorkDown, Scanning
  <2>3. ASSUME NEW c \in Change PROVE ~CommandStep(c) /\ ~JobStep(c)
    <3>1. ~Running(c) /\ job[c].stage = "idle"
      BY <2>1 DEF WorkDown
    <3>2. ~JobStep(c)
      BY <3>1 DEF JobStep, Recalculate, KeepSettings, Mark, ReadIndex, Count
    <3>3. ~CommandStep(c)
      BY <3>1 DEF Running, CommandStep, Validate, RemoveFile, WriteTemp, ReplaceFile, SaveFails, Exchange,
                  HandOver, Tell, Answered
    <3> QED BY <3>2, <3>3
  <2> QED BY <1>3, <2>1, <2>2, <2>3, StartWorks DEF Next, WorkInv
<1> QED BY <1>1, <1>2, <1>3

(* T-093, for any number of commands, crashes and failed saves, any
   settings and records: when the background is quiet the next scan uses
   the settings in use, and category, mark and totals of every record come
   from them, unless work overlapped and no change was made alone since.   *)
THEOREM WorkInStep == Spec => []WorkFollows
<1>1. Init => WorkInv
  BY WorkInit
<1>2. TypeOK /\ WorkInv /\ [Next]_vars => WorkInv'
  BY WorkKeeps
<1>3. WorkInv => WorkFollows
  <2> SUFFICES ASSUME WorkInv, up, ~Talking, ~AtWork, astray = {}
               PROVE  snapshot = current /\ Follows(current)
    BY DEF WorkFollows, Follows
  <2> QED BY Uncrossed DEF WorkInv
<1> QED BY <1>1, <1>2, <1>3, TypeCorrect, PTL DEF Spec
=============================================================================
