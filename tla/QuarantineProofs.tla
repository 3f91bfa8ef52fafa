-------------------------- MODULE QuarantineProofs --------------------------
(***************************************************************************)
(* What holds of the quarantine for any number of instances, workers, ids, *)
(* paths and contents:                                                     *)
(*   - the types (TypeCorrect), from the invariant Typed;                  *)
(*   - nothing is lost or duplicated, and each step is a step of a safe    *)
(*     deletion, as long as every rename into the quarantine directory     *)
(*     finds its surrogate name free (the ...IfVacant theorems), from the  *)
(*     invariant OnePlace;                                                 *)
(*   - that it always does find it free when commands do not overlap and   *)
(*     ids are handed out once (VacantWithOneCommand), from OneScan.       *)
(* And of one instance of the application, with any number of commands at  *)
(* once, scans, crashes, faults and edits of the user:                     *)
(*   - when a reconciliation ends, journal and directory agree             *)
(*     (CleanAfterRestart), from the invariant Cleaning;                   *)
(*   - as long as one reap_execute in the life of the journal has been     *)
(*     started (ReapedOnce), from the invariant Life: entries go through   *)
(*     their statuses in order (EntriesInOrder), no file lies in the       *)
(*     directory without a row (NoOrphanEver), and every rename finds its  *)
(*     name free, so that nothing is lost or duplicated                    *)
(*     (NothingLostWithOneReap, NothingDuplicatedWithOneReap).             *)
(***************************************************************************)
EXTENDS Quarantine, TLAPS

(* the steps of a reap, and those at which it has chosen its file          *)
Reaping == {"pick", "insert", "verify", "rename", "confirm"}
Moving  == {"insert", "verify", "rename", "confirm"}

(* a candidate that some scan has seen                                     *)
Real(c) == c.path \in Path /\ c.file \in File

(* A command relies only on records that are in its instance's index.      *)
Sound(c, known) ==
  /\ c.pc \in Reaping => \A id \in c.todo : Real(known[id])
  /\ c.pc \in Moving =>
       /\ Real([path |-> c.path, file |-> c.file])
       /\ known[c.id] = [path |-> c.path, file |-> c.file]
  /\ c.pc = "return" => c.path \in Path

CommandsSound == \A w \in Worker : Sound(cmd[w], index[Home[w]])

(* Every row says where its file came from.                                *)
RowsSound == \A id \in Id : manifest[id].status # "absent" => manifest[id].path \in Path

(* What the index has under an id is the path and file of a record.        *)
IndexSound ==
  \A i \in Instance, id \in Id : index[i][id] = NoCandidate \/ Real(index[i][id])

Typed == TypeOK /\ CommandsSound /\ RowsSound /\ IndexSound

-----------------------------------------------------------------------------
(* A command between two items is a command. *)
LEMMA JobIsCommand ==
  ASSUME NEW pc \in Pc, NEW ask \in SUBSET Id, NEW todo \in SUBSET Id, NEW batch \in Nat,
         NEW done \in SUBSET Id, NEW actor \in {"user", "sweeper"}
  PROVE  Job(pc, ask, todo, batch, done, actor) \in Command
  BY ConstantsOK DEF Job, Command, Id

(* A command between two items asks nothing of the index but what a reap still has to do. *)
LEMMA JobIsSound ==
  ASSUME NEW pc, NEW ask, NEW todo, NEW batch, NEW done, NEW actor, NEW known,
         pc \notin Moving, pc # "return",
         pc = "pick" => \A id \in todo : Real(known[id])
  PROVE  Sound(Job(pc, ask, todo, batch, done, actor), known)
  BY DEF Job, Sound, Reaping, Moving

(* An idle worker holds a command record. *)
LEMMA IdleIsCommand == Idle \in Command
  BY JobIsCommand DEF Idle, Pc, Id

(* An idle worker relies on no index. *)
LEMMA IdleIsSound == ASSUME NEW known PROVE Sound(Idle, known)
  BY JobIsSound DEF Idle, Moving

(* The first state: the disk as the user left it, an empty journal, no instance running. *)
THEOREM TypedInit == Init => Typed
<1> SUFFICES ASSUME Init PROVE Typed
  OBVIOUS
<1>1. DiskOK
  BY ConstantsOK DEF Init, DiskOK, Spot, Id
<1>2. JournalOK /\ RowsSound
  BY DEF Init, JournalOK, RowsSound, Row, NoRow, Status
<1>3. AppOK /\ IndexSound
  BY DEF Init, AppOK, IndexSound, Recovery, NoRecovery, EmptyIndex, NoCandidate, Candidate,
     Row, NoRow, Status
<1>4. GhostOK
  BY DEF Init, GhostOK
<1>5. cmd \in [Worker -> Command] /\ CommandsSound
  BY IdleIsCommand, IdleIsSound DEF Init, CommandsSound
<1>6. spent \in [Kind -> Nat]
  BY DEF Init
<1> QED BY <1>1, <1>2, <1>3, <1>4, <1>5, <1>6 DEF Typed, TypeOK

-----------------------------------------------------------------------------
(* Replacing one sound command by another keeps all commands sound. *)
LEMMA CommandTyped ==
  ASSUME Typed, NEW w \in Worker, NEW c \in Command, Sound(c, index[Home[w]]),
         cmd' = [cmd EXCEPT ![w] = c], index' = index
  PROVE  cmd' \in [Worker -> Command] /\ CommandsSound'
  BY DEF Typed, TypeOK, CommandsSound

(* What the invariant says of one worker. *)
LEMMA CommandOf ==
  ASSUME Typed, NEW w \in Worker
  PROVE  cmd[w] \in Command /\ Sound(cmd[w], index[Home[w]])
  BY DEF Typed, TypeOK, CommandsSound

(* Moving on to the next step of the same item keeps the command sound. *)
LEMMA GotoTyped ==
  ASSUME Typed, NEW w \in Worker, NEW pc \in Pc, Goto(w, pc), index' = index,
         pc \in Reaping => At(w, "pick") \/ cmd[w].pc \in Moving,
         pc \in Moving => cmd[w].pc \in Moving,
         pc # "return"
  PROVE  cmd' \in [Worker -> Command] /\ CommandsSound'
<1> DEFINE c == [cmd[w] EXCEPT !.pc = pc]
<1>1. cmd[w] \in Command /\ Sound(cmd[w], index[Home[w]])
  BY CommandOf
<1>2. c \in Command
  BY <1>1 DEF Command
<1>3. Sound(c, index[Home[w]])
  BY <1>1 DEF Command, Sound, Reaping, Moving, At
<1>4. cmd' = [cmd EXCEPT ![w] = c]
  BY DEF Goto
<1> HIDE DEF c
<1> QED BY <1>2, <1>3, <1>4, CommandTyped

(* Giving up or finishing an item keeps the command sound. *)
LEMMA NextItemTyped ==
  ASSUME Typed, NEW w \in Worker, NEW pc \in Pc, NEW done \in SUBSET Id,
         NextItem(w, pc, done), index' = index,
         pc \in {"pick", "lookup", "erase"},
         pc = "pick" => cmd[w].pc \in Reaping
  PROVE  cmd' \in [Worker -> Command] /\ CommandsSound'
<1> DEFINE c == Job(pc, cmd[w].ask, cmd[w].todo \ {cmd[w].id}, cmd[w].batch,
                    cmd[w].done \cup done, cmd[w].actor)
<1>1. cmd[w] \in Command /\ Sound(cmd[w], index[Home[w]])
  BY CommandOf
<1>2. c \in Command
  <2>1. /\ cmd[w].ask \in SUBSET Id
        /\ cmd[w].todo \ {cmd[w].id} \in SUBSET Id
        /\ cmd[w].batch \in Nat
        /\ cmd[w].done \cup done \in SUBSET Id
        /\ cmd[w].actor \in {"user", "sweeper"}
    BY <1>1 DEF Command
  <2> QED BY <2>1, JobIsCommand
<1>3. Sound(c, index[Home[w]])
  <2>1. pc = "pick" => \A id \in cmd[w].todo \ {cmd[w].id} : Real(index[Home[w]][id])
    BY <1>1 DEF Sound
  <2> QED BY <2>1, JobIsSound DEF Moving
<1>4. cmd' = [cmd EXCEPT ![w] = c]
  BY DEF NextItem
<1> HIDE DEF c
<1> QED BY <1>2, <1>3, <1>4, CommandTyped

(* Returning from a command keeps all commands sound. *)
LEMMA ReturnTyped ==
  ASSUME Typed, NEW w \in Worker, Return(w), index' = index
  PROVE  cmd' \in [Worker -> Command] /\ CommandsSound'
  BY IdleIsCommand, IdleIsSound, CommandTyped DEF Return

(* Starting a command on known candidates keeps all commands sound. *)
LEMMA BeginTyped ==
  ASSUME Typed, NEW w \in Worker, NEW pc \in {"pick", "lookup", "erase"},
         NEW ids \in SUBSET Id, NEW batch \in Nat, NEW actor \in {"user", "sweeper"},
         Begin(w, pc, ids, batch, actor), index' = index,
         pc = "pick" => \A id \in ids : Real(index[Home[w]][id])
  PROVE  cmd' \in [Worker -> Command] /\ CommandsSound'
<1> DEFINE c == Job(pc, ids, ids, batch, {}, actor)
<1>1. c \in Command
  BY JobIsCommand DEF Pc
<1>2. Sound(c, index[Home[w]])
  BY JobIsSound DEF Moving
<1>3. cmd' = [cmd EXCEPT ![w] = c]
  BY DEF Begin
<1> HIDE DEF c
<1> QED BY <1>1, <1>2, <1>3, CommandTyped

(* The bounds count up. *)
LEMMA SpendTyped ==
  ASSUME Typed, NEW kind \in Kind, Spend(kind) \/ UNCHANGED spent
  PROVE  spent' \in [Kind -> Nat]
  BY DEF Typed, TypeOK, Spend

(* A confirmation with its audit event keeps the journal typed and every row with its path. *)
LEMMA ConfirmTyped ==
  ASSUME Typed, NEW id \in Id, NEW status \in Status, status # "absent",
         NEW op \in {"reap", "restore", "purge_ttl", "purge_manual"},
         NEW actor \in {"user", "sweeper", "recovery"}, 
         ConfirmWithAudit(id, status, op, actor)
  PROVE  JournalOK' /\ RowsSound'
<1>1. audit' \subseteq Event
  BY DEF Typed, TypeOK, JournalOK, ConfirmWithAudit, Event
<1>2. manifest' \in [Id -> Row] /\ RowsSound'
  BY DEF Typed, TypeOK, JournalOK, ConfirmWithAudit, RowsSound, Row
<1> QED BY <1>1, <1>2 DEF JournalOK

(* What a step leaves alone stays typed. *)
LEMMA UnchangedTyped ==
  ASSUME Typed
  PROVE  /\ UNCHANGED disk => DiskOK'
         /\ UNCHANGED journal => JournalOK' /\ RowsSound'
         /\ UNCHANGED app => AppOK' /\ IndexSound' /\ index' = index
         /\ UNCHANGED ghost => GhostOK'
  BY DEF Typed, TypeOK, disk, journal, app, ghost, DiskOK, JournalOK, AppOK, GhostOK,
     RowsSound, IndexSound

-----------------------------------------------------------------------------
(* No step of reap_execute breaks the typing invariant. *)
LEMMA TypedReap ==
  ASSUME Typed, NEW w \in Worker, Reap(w)
  PROVE  Typed'
<1> DEFINE CmdGoal == cmd' \in [Worker -> Command] /\ CommandsSound'
           SpentGoal == spent' \in [Kind -> Nat]
<1>c. cmd[w] \in Command /\ Sound(cmd[w], index[Home[w]])
  BY CommandOf
<1>s. UNCHANGED spent => SpentGoal
  BY DEF Typed, TypeOK
<1>1. CASE StartReap(w)
  <2>1. PICK ids \in SUBSET Indexed(Home[w]) : Begin(w, "pick", ids, spent["reap"] + 1, "user")
    BY <1>1 DEF StartReap
  <2>2. Home[w] \in Instance
    BY ConstantsOK
  <2>3. /\ ids \in SUBSET Id
        /\ \A id \in ids : Real(index[Home[w]][id])
        /\ spent["reap"] + 1 \in Nat
    BY <2>2 DEF Typed, TypeOK, AppOK, IndexSound, Indexed, Kind
  <2>a. index' = index
    BY <1>1 DEF StartReap, app
  <2>4. CmdGoal
    BY <2>1, <2>3, <2>a, BeginTyped
  <2>5. SpentGoal
    BY <1>1, SpendTyped DEF StartReap, Kind
  <2> QED BY <1>1, <2>4, <2>5, UnchangedTyped DEF StartReap, Typed, TypeOK
<1>2. CASE ReadIdentity(w)
  <2>1. PICK id \in cmd[w].todo :
          cmd' = [cmd EXCEPT ![w] = [cmd[w] EXCEPT !.pc = "insert", !.id = id,
                    !.path = index[Home[w]][id].path, !.file = index[Home[w]][id].file]]
    BY <1>2 DEF ReadIdentity
  <2> DEFINE c == [cmd[w] EXCEPT !.pc = "insert", !.id = id,
                    !.path = index[Home[w]][id].path, !.file = index[Home[w]][id].file]
  <2>2. id \in Id /\ Real(index[Home[w]][id]) /\ index[Home[w]][id] \in Candidate
    <3>1. id \in Id
      BY <1>c DEF Command
    <3>2. Real(index[Home[w]][id])
      BY <1>c, <1>2 DEF ReadIdentity, At, Sound, Reaping
    <3>3. index[Home[w]][id] \in Candidate
      BY <3>1, ConstantsOK DEF Typed, TypeOK, AppOK
    <3> QED BY <3>1, <3>2, <3>3
  <2>3. c \in Command
    BY <1>c, <2>2 DEF Command, Pc, Candidate
  <2>4. Sound(c, index[Home[w]])
    <3>1. /\ c.todo = cmd[w].todo /\ c.id = id /\ c.pc = "insert"
          /\ c.path = index[Home[w]][id].path /\ c.file = index[Home[w]][id].file
      BY <1>c DEF Command
    <3>2. index[Home[w]][id] = [path |-> c.path, file |-> c.file]
      BY <2>2, <3>1 DEF Candidate
    <3> QED BY <1>2, <1>c, <2>2, <3>1, <3>2 DEF ReadIdentity, At, Sound, Reaping
  <2> HIDE DEF c
  <2>5. CmdGoal
    BY <1>2, <2>1, <2>3, <2>4, CommandTyped, UnchangedTyped DEF ReadIdentity, c
  <2> QED BY <1>2, <1>s, <2>5, UnchangedTyped DEF ReadIdentity, Typed, TypeOK
<1>3. CASE SkipItem(w)
  <2>1. PICK id \in cmd[w].todo : cmd' = [cmd EXCEPT ![w].todo = @ \ {id}]
    BY <1>3 DEF SkipItem
  <2> DEFINE c == [cmd[w] EXCEPT !.todo = cmd[w].todo \ {id}]
  <2>2. c \in Command
    BY <1>c DEF Command
  <2>3. Sound(c, index[Home[w]])
    BY <1>3, <1>c DEF SkipItem, At, Sound, Reaping, Moving, Command
  <2>4. cmd' = [cmd EXCEPT ![w] = c]
    BY <2>1
  <2> HIDE DEF c
  <2>5. CmdGoal
    BY <1>3, <2>2, <2>3, <2>4, CommandTyped, UnchangedTyped DEF SkipItem
  <2> QED BY <1>3, <1>s, <2>5, UnchangedTyped DEF SkipItem, Typed, TypeOK
<1>4. CASE JournalReap(w)
  <2>1. CASE InsertEntry(cmd[w].id, cmd[w].path, cmd[w].batch) /\ Goto(w, "verify") /\ UNCHANGED spent
    <3>1. CmdGoal
      BY <1>4, <2>1, GotoTyped, UnchangedTyped DEF JournalReap, At, Moving, Pc
    <3>2. cmd[w].path \in Path /\ cmd[w].id \in Id /\ cmd[w].batch \in Nat
      BY <1>c, <1>4 DEF JournalReap, At, Sound, Moving, Command, Real
    <3>3. manifest' \in [Id -> Row] /\ RowsSound'
      BY <2>1, <3>2 DEF InsertEntry, RowsSound, Typed, TypeOK, JournalOK, Row, Status
    <3> QED BY <1>4, <1>s, <2>1, <3>1, <3>3, UnchangedTyped DEF JournalReap, Typed, TypeOK, JournalOK
  <2>2. CASE Spend("fault") /\ NextItem(w, "pick", {}) /\ UNCHANGED manifest
    <3>1. CmdGoal
      BY <1>4, <2>2, NextItemTyped, UnchangedTyped DEF JournalReap, At, Reaping, Pc
    <3>2. SpentGoal
      BY <2>2, SpendTyped DEF Kind
    <3>3. UNCHANGED journal
      BY <1>4, <2>2 DEF JournalReap, journal
    <3> QED BY <1>4, <3>1, <3>2, <3>3, UnchangedTyped DEF JournalReap, Typed, TypeOK
  <2> QED BY <1>4, <2>1, <2>2 DEF JournalReap
<1>5. CASE VerifyIdentity(w)
  <2>1. CASE Goto(w, "rename")
    <3>1. CmdGoal
      BY <1>5, <2>1, GotoTyped, UnchangedTyped DEF VerifyIdentity, At, Moving, Pc
    <3> QED BY <1>5, <1>s, <3>1, UnchangedTyped DEF VerifyIdentity, Typed, TypeOK
  <2>2. CASE NextItem(w, "pick", {})
    <3>1. CmdGoal
      BY <1>5, <2>2, NextItemTyped, UnchangedTyped DEF VerifyIdentity, At, Reaping, Pc
    <3> QED BY <1>5, <1>s, <3>1, UnchangedTyped DEF VerifyIdentity, Typed, TypeOK
  <2> QED BY <1>5, <2>1, <2>2 DEF VerifyIdentity
<1>6. CASE MoveIntoQuarantine(w)
  <2>1. CmdGoal
    BY <1>6, GotoTyped, UnchangedTyped DEF MoveIntoQuarantine, At, Moving, Reaping, Pc
  <2>2. <<cmd[w].path, 0>> \in Spot /\ cmd[w].id \in Id
    BY <1>c, <1>6, ConstantsOK DEF MoveIntoQuarantine, At, Sound, Moving, Command, Real, Spot
  <2>3. DiskOK' /\ GhostOK'
    BY <1>6, <2>2 DEF MoveIntoQuarantine, Typed, TypeOK, DiskOK, GhostOK
  <2> QED BY <1>6, <1>s, <2>1, <2>3, UnchangedTyped DEF MoveIntoQuarantine, Typed, TypeOK
<1>7. CASE MoveFails(w)
  <2>1. CmdGoal
    BY <1>7, NextItemTyped, UnchangedTyped DEF MoveFails, At, Reaping, Pc
  <2>2. SpentGoal
    BY <1>7, <1>s, SpendTyped DEF MoveFails, Kind
  <2> QED BY <1>7, <2>1, <2>2, UnchangedTyped DEF MoveFails, Typed, TypeOK
<1>8. CASE ConfirmReap(w)
  <2>1. cmd[w].id \in Id
    BY <1>c DEF Command
  <2>2. CmdGoal
    BY <1>8, <2>1, NextItemTyped, UnchangedTyped DEF ConfirmReap, At, Reaping, Pc
  <2>3. SpentGoal
    BY <1>8, <1>s, SpendTyped DEF ConfirmReap, Kind
  <2>4. JournalOK' /\ RowsSound'
    BY <1>8, <2>1, ConfirmTyped, UnchangedTyped DEF ConfirmReap, Status
  <2>5. GhostOK'
    <3>1. cmd[w].batch \in Nat
      BY <1>c DEF Command
    <3>2. acked \in [Id -> Nat] /\ UNCHANGED <<fate, cargo>>
      BY <1>8 DEF ConfirmReap, Typed, TypeOK, GhostOK
    <3>3. acked' = acked \/ \E n \in Nat : acked' = [acked EXCEPT ![cmd[w].id] = n]
      BY <1>8, <2>1, <3>1, <3>2 DEF ConfirmReap
    <3>4. acked' \in [Id -> Nat]
      BY <2>1, <3>2, <3>3
    <3> QED BY <3>2, <3>4 DEF Typed, TypeOK, GhostOK
  <2> QED BY <1>8, <2>2, <2>3, <2>4, <2>5, UnchangedTyped DEF ConfirmReap, Typed, TypeOK
<1>9. CASE EndReap(w)
  <2>1. CmdGoal
    BY <1>9, ReturnTyped DEF EndReap, app
  <2> QED BY <1>9, <1>s, <2>1, UnchangedTyped DEF EndReap, Typed, TypeOK
<1> QED
  BY <1>1, <1>2, <1>3, <1>4, <1>5, <1>6, <1>7, <1>8, <1>9 DEF Reap

(* No step of a restore or an undo breaks the typing invariant: a row that is
   quarantined has the path the file goes back to. *)
LEMMA TypedRestore ==
  ASSUME Typed, NEW w \in Worker, Restore(w)
  PROVE  Typed'
<1> DEFINE CmdGoal == cmd' \in [Worker -> Command] /\ CommandsSound'
           SpentGoal == spent' \in [Kind -> Nat]
<1>c. cmd[w] \in Command /\ Sound(cmd[w], index[Home[w]])
  BY CommandOf
<1>s. UNCHANGED spent => SpentGoal
  BY DEF Typed, TypeOK
<1>i. UNCHANGED app => UNCHANGED index
  BY DEF app
<1>1. CASE StartRestore(w)
  <2>1. PICK ids \in SUBSET Id : Begin(w, "lookup", ids, 0, "user")
    BY <1>1 DEF StartRestore
  <2>2. CmdGoal
    BY <1>1, <1>i, <2>1, BeginTyped DEF StartRestore
  <2> QED BY <1>1, <1>s, <2>2, UnchangedTyped DEF StartRestore, Typed, TypeOK
<1>2. CASE StartUndo(w)
  <2>1. PICK ids \in SUBSET Id : Begin(w, "lookup", ids, 0, "user")
    BY <1>2 DEF StartUndo, In
  <2>2. CmdGoal
    BY <1>2, <1>i, <2>1, BeginTyped DEF StartUndo
  <2> QED BY <1>2, <1>s, <2>2, UnchangedTyped DEF StartUndo, Typed, TypeOK
<1>3. CASE LookupEntry(w)
  <2>1. CASE Return(w)
    <3>1. CmdGoal
      BY <1>3, <1>i, <2>1, ReturnTyped DEF LookupEntry
    <3> QED BY <1>3, <1>s, <3>1, UnchangedTyped DEF LookupEntry, Typed, TypeOK
  <2>2. ASSUME NEW id \in cmd[w].todo, Restorable(id),
               cmd' = [cmd EXCEPT ![w] = [cmd[w] EXCEPT !.pc = "return", !.id = id,
                                                        !.path = manifest[id].path]]
        PROVE  Typed'
    <3> DEFINE c == [cmd[w] EXCEPT !.pc = "return", !.id = id, !.path = manifest[id].path]
    <3>1. id \in Id
      BY <1>c DEF Command
    <3>2. manifest[id].path \in Path
      BY <2>2, <3>1 DEF Restorable, Typed, RowsSound
    <3>3. c \in Command
      BY <1>c, <3>1, <3>2 DEF Command, Pc
    <3>4. Sound(c, index[Home[w]])
      BY <1>c, <3>2 DEF Sound, Command, Reaping, Moving
    <3>5. cmd' = [cmd EXCEPT ![w] = c]
      BY <2>2
    <3> HIDE DEF c
    <3>6. CmdGoal
      BY <1>3, <1>i, <3>3, <3>4, <3>5, CommandTyped DEF LookupEntry
    <3> QED BY <1>3, <1>s, <3>6, UnchangedTyped DEF LookupEntry, Typed, TypeOK
  <2> QED BY <1>3, <2>1, <2>2 DEF LookupEntry
<1>4. CASE RestoreFromQuarantine(w)
  <2>1. CmdGoal
    BY <1>4, <1>i, GotoTyped DEF RestoreFromQuarantine, At, Moving, Reaping, Pc
  <2>2. cmd[w].id \in Id
    BY <1>c DEF Command
  <2>3. DiskOK'
    BY <1>4, <2>2 DEF RestoreFromQuarantine, Typed, TypeOK, DiskOK
  <2> QED BY <1>4, <1>s, <2>1, <2>3, UnchangedTyped DEF RestoreFromQuarantine, Typed, TypeOK
<1>5. CASE TrySuffix(w)
  <2>1. CASE Return(w)
    <3>1. CmdGoal
      BY <1>5, <1>i, <2>1, ReturnTyped DEF TrySuffix
    <3> QED BY <1>5, <1>s, <3>1, UnchangedTyped DEF TrySuffix, Typed, TypeOK
  <2>2. ASSUME MoreSuffixes(w), cmd' = [cmd EXCEPT ![w].attempt = NextSuffix(@)]
        PROVE  Typed'
    <3> DEFINE c == [cmd[w] EXCEPT !.attempt = cmd[w].attempt + 1]
    <3>1. c \in Command
      <4>1. cmd[w].attempt + 1 \in 0 .. MaxAttempts - 1
        BY <1>c, <2>2, ConstantsOK DEF MoreSuffixes, Command
      <4> QED BY <1>c, <4>1 DEF Command
    <3>2. Sound(c, index[Home[w]])
      BY <1>c DEF Sound, Command, Reaping, Moving
    <3>3. cmd' = [cmd EXCEPT ![w] = c]
      BY <2>2 DEF NextSuffix
    <3> HIDE DEF c
    <3>4. CmdGoal
      BY <1>5, <1>i, <3>1, <3>2, <3>3, CommandTyped DEF TrySuffix
    <3> QED BY <1>5, <1>s, <3>4, UnchangedTyped DEF TrySuffix, Typed, TypeOK
  <2> QED BY <1>5, <2>1, <2>2 DEF TrySuffix
<1>6. CASE RestoreFails(w)
  <2>1. CmdGoal
    BY <1>6, <1>i, ReturnTyped DEF RestoreFails
  <2>2. SpentGoal
    BY <1>6, <1>s, SpendTyped DEF RestoreFails, Kind
  <2> QED BY <1>6, <2>1, <2>2, UnchangedTyped DEF RestoreFails, Typed, TypeOK
<1>7. CASE ConfirmRestore(w)
  <2>1. cmd[w].id \in Id
    BY <1>c DEF Command
  <2>2. CmdGoal
    BY <1>7, <1>i, NextItemTyped, ReturnTyped DEF ConfirmRestore, Pc
  <2>3. SpentGoal
    BY <1>7, <1>s, SpendTyped DEF ConfirmRestore, Kind
  <2>4. JournalOK' /\ RowsSound'
    BY <1>7, <2>1, ConfirmTyped, UnchangedTyped DEF ConfirmRestore, Status
  <2> QED BY <1>7, <2>2, <2>3, <2>4, UnchangedTyped DEF ConfirmRestore, Typed, TypeOK
<1>8. CASE EndRestore(w)
  <2>1. CmdGoal
    BY <1>8, <1>i, ReturnTyped DEF EndRestore
  <2> QED BY <1>8, <1>s, <2>1, UnchangedTyped DEF EndRestore, Typed, TypeOK
<1> QED
  BY <1>1, <1>2, <1>3, <1>4, <1>5, <1>6, <1>7, <1>8 DEF Restore

(* No step of a purge or a sweep breaks the typing invariant. *)
LEMMA TypedPurge ==
  ASSUME Typed, NEW w \in Worker, Purge(w)
  PROVE  Typed'
<1> DEFINE CmdGoal == cmd' \in [Worker -> Command] /\ CommandsSound'
           SpentGoal == spent' \in [Kind -> Nat]
<1>c. cmd[w] \in Command /\ Sound(cmd[w], index[Home[w]])
  BY CommandOf
<1>s. UNCHANGED spent => SpentGoal
  BY DEF Typed, TypeOK
<1>i. UNCHANGED app => UNCHANGED index
  BY DEF app
<1>1. CASE StartPurge(w)
  <2>1. PICK ids \in SUBSET Id : Begin(w, "erase", ids, 0, "user")
    BY <1>1 DEF StartPurge, In
  <2>2. CmdGoal
    BY <1>1, <1>i, <2>1, BeginTyped DEF StartPurge
  <2> QED BY <1>1, <1>s, <2>2, UnchangedTyped DEF StartPurge, Typed, TypeOK
<1>2. CASE StartSweep(w)
  <2>1. PICK ids \in SUBSET Id : Begin(w, "erase", ids, 0, "sweeper")
    BY <1>2 DEF StartSweep, In
  <2>2. CmdGoal
    BY <1>2, <1>i, <2>1, BeginTyped DEF StartSweep
  <2> QED BY <1>2, <1>s, <2>2, UnchangedTyped DEF StartSweep, Typed, TypeOK
<1>3. CASE PurgeFromQuarantine(w)
  <2>1. PICK id \in Id : /\ vault' = [vault EXCEPT ![id] = NoFile]
                         /\ fate' = [fate EXCEPT ![vault[id]] = "purged"]
                         /\ cmd' = [cmd EXCEPT ![w] = [cmd[w] EXCEPT !.pc = "record", !.id = id]]
    BY <1>3 DEF PurgeFromQuarantine
  <2> DEFINE c == [cmd[w] EXCEPT !.pc = "record", !.id = id]
  <2>2. c \in Command
    BY <1>c DEF Command, Pc
  <2>3. Sound(c, index[Home[w]])
    BY <1>c DEF Sound, Command, Reaping, Moving
  <2>4. cmd' = [cmd EXCEPT ![w] = c]
    BY <2>1
  <2> HIDE DEF c
  <2>5. CmdGoal
    BY <1>3, <1>i, <2>2, <2>3, <2>4, CommandTyped DEF PurgeFromQuarantine
  <2>6. DiskOK' /\ GhostOK'
    BY <1>3, <2>1 DEF PurgeFromQuarantine, Typed, TypeOK, DiskOK, GhostOK
  <2> QED BY <1>3, <1>s, <2>5, <2>6, UnchangedTyped DEF PurgeFromQuarantine, Typed, TypeOK
<1>4. CASE PurgeFails(w)
  <2>1. CmdGoal
    BY <1>4, <1>i, ReturnTyped DEF PurgeFails
  <2>2. SpentGoal
    BY <1>4, <1>s, SpendTyped DEF PurgeFails, Kind
  <2> QED BY <1>4, <2>1, <2>2, UnchangedTyped DEF PurgeFails, Typed, TypeOK
<1>5. CASE ConfirmPurge(w)
  <2>1. cmd[w].id \in Id /\ cmd[w].actor \in {"user", "sweeper", "recovery"}
    BY <1>c DEF Command
  <2>2. CmdGoal
    BY <1>5, <1>i, NextItemTyped, ReturnTyped DEF ConfirmPurge, Pc
  <2>3. SpentGoal
    BY <1>5, <1>s, SpendTyped DEF ConfirmPurge, Kind
  <2>4. JournalOK' /\ RowsSound'
    BY <1>5, <2>1, ConfirmTyped, UnchangedTyped DEF ConfirmPurge, Status
  <2> QED BY <1>5, <2>2, <2>3, <2>4, UnchangedTyped DEF ConfirmPurge, Typed, TypeOK
<1>6. CASE EndPurge(w)
  <2>1. CmdGoal
    BY <1>6, <1>i, ReturnTyped DEF EndPurge
  <2> QED BY <1>6, <1>s, <2>1, UnchangedTyped DEF EndPurge, Typed, TypeOK
<1> QED
  BY <1>1, <1>2, <1>3, <1>4, <1>5, <1>6 DEF Purge

-----------------------------------------------------------------------------
(* A step of an instance that does not touch its index.                    *)
LEMMA SameIndexTyped ==
  ASSUME Typed, UNCHANGED <<index, cmd>>
  PROVE  CommandsSound' /\ IndexSound' /\ cmd' \in [Worker -> Command]
  BY DEF Typed, TypeOK, CommandsSound, IndexSound

(* An instance that does not reconcile holds a recovery record. *)
LEMMA NoRecoveryIsRecovery == NoRecovery \in Recovery
  BY DEF NoRecovery, Recovery, Row, NoRow, Status

(* Removing the row of a move that never happened keeps the journal typed. *)
LEMMA RollBackTyped ==
  ASSUME Typed, NEW id \in Id, RollBack(id)
  PROVE  JournalOK' /\ RowsSound'
<1>1. NoRow \in Row
  BY DEF NoRow, Row, Status
<1> QED BY <1>1 DEF RollBack, RemoveEntry, Typed, TypeOK, JournalOK, RowsSound, NoRow

(* No step of the reconciliation breaks the typing invariant. *)
LEMMA TypedReconcile ==
  ASSUME Typed, NEW i \in Instance, Launch(i) \/ Reconcile(i)
  PROVE  Typed'
<1>r. rec[i] \in Recovery /\ rec \in [Instance -> Recovery]
  BY DEF Typed, TypeOK, AppOK
<1>s. UNCHANGED spent => spent' \in [Kind -> Nat]
  BY DEF Typed, TypeOK
<1>1. CASE Launch(i)
  <2> DEFINE r == [rows |-> manifest, flight |-> In("in_flight"),
                   held |-> In("quarantined"), probe |-> "none"]
  <2>1. r \in Recovery
    BY DEF Recovery, In, Typed, TypeOK, JournalOK
  <2>2. AppOK'
    BY <1>1, <2>1 DEF Launch, Typed, TypeOK, AppOK
  <2> QED BY <1>1, <1>s, <2>2, SameIndexTyped, UnchangedTyped DEF Launch, Typed, TypeOK
<1>2. CASE ProbeInFlight(i)
  <2>1. PICK probe \in {"source", "vault", "both", "missing"} : rec' = [rec EXCEPT ![i].probe = probe]
    BY <1>2 DEF ProbeInFlight
  <2>2. [rec[i] EXCEPT !.probe = probe] \in Recovery
    BY <1>r DEF Recovery
  <2>3. AppOK'
    BY <1>2, <2>1, <2>2 DEF ProbeInFlight, Typed, TypeOK, AppOK
  <2> QED BY <1>2, <1>s, <2>3, SameIndexTyped, UnchangedTyped DEF ProbeInFlight, Typed, TypeOK
<1>3. CASE ResolveInFlight(i)
  <2>1. PICK id \in Id : /\ RollBack(id) \/ CompleteReap(id)
                         /\ rec' = [rec EXCEPT ![i].flight = @ \ {id}, ![i].probe = "none"]
    BY <1>3 DEF ResolveInFlight
  <2>2. [rec[i] EXCEPT !.flight = rec[i].flight \ {id}, !.probe = "none"] \in Recovery
    BY <1>r DEF Recovery
  <2>3. rec' = [rec EXCEPT ![i] = [rec[i] EXCEPT !.flight = rec[i].flight \ {id}, !.probe = "none"]]
    BY <1>r, <2>1 DEF Recovery
  <2>4. AppOK'
    BY <1>3, <2>2, <2>3 DEF ResolveInFlight, Typed, TypeOK, AppOK
  <2>5. JournalOK' /\ RowsSound'
    BY <2>1, RollBackTyped, ConfirmTyped DEF CompleteReap, Status
  <2> QED BY <1>3, <1>s, <2>4, <2>5, SameIndexTyped, UnchangedTyped DEF ResolveInFlight, Typed, TypeOK
<1>4. CASE ProbeHeld(i)
  <2>1. PICK probe \in {"missing", "present"} : rec' = [rec EXCEPT ![i].probe = probe]
    BY <1>4 DEF ProbeHeld
  <2>2. [rec[i] EXCEPT !.probe = probe] \in Recovery
    BY <1>r DEF Recovery
  <2>3. AppOK'
    BY <1>4, <2>1, <2>2 DEF ProbeHeld, Typed, TypeOK, AppOK
  <2> QED BY <1>4, <1>s, <2>3, SameIndexTyped, UnchangedTyped DEF ProbeHeld, Typed, TypeOK
<1>5. CASE ResolveHeld(i)
  <2>1. PICK id \in Id : /\ CompletePurge(id) \/ UNCHANGED journal
                         /\ rec' = [rec EXCEPT ![i].held = @ \ {id}, ![i].probe = "none"]
    BY <1>5 DEF ResolveHeld
  <2>2. [rec[i] EXCEPT !.held = rec[i].held \ {id}, !.probe = "none"] \in Recovery
    BY <1>r DEF Recovery
  <2>3. rec' = [rec EXCEPT ![i] = [rec[i] EXCEPT !.held = rec[i].held \ {id}, !.probe = "none"]]
    BY <1>r, <2>1 DEF Recovery
  <2>4. AppOK'
    BY <1>5, <2>2, <2>3 DEF ResolveHeld, Typed, TypeOK, AppOK
  <2>5. JournalOK' /\ RowsSound'
    BY <2>1, ConfirmTyped, UnchangedTyped DEF CompletePurge, Status
  <2> QED BY <1>5, <1>s, <2>4, <2>5, SameIndexTyped, UnchangedTyped DEF ResolveHeld, Typed, TypeOK
<1>6. CASE RecoveryStep(i)
  <2>1. AppOK'
    BY <1>6, NoRecoveryIsRecovery DEF RecoveryStep, Typed, TypeOK, AppOK
  <2> QED BY <1>6, <1>s, <2>1, SameIndexTyped, UnchangedTyped DEF RecoveryStep, Typed, TypeOK
<1>7. CASE RecoveryFails(i)
  <2>1. AppOK'
    BY <1>7, NoRecoveryIsRecovery DEF RecoveryFails, Typed, TypeOK, AppOK
  <2>2. spent' \in [Kind -> Nat]
    BY <1>7, SpendTyped DEF RecoveryFails, Kind
  <2> QED BY <1>7, <2>1, <2>2, SameIndexTyped, UnchangedTyped DEF RecoveryFails, Typed, TypeOK
<1> QED
  BY <1>1, <1>2, <1>3, <1>4, <1>5, <1>6, <1>7 DEF Reconcile

(* A scan only adds records that exist, and never replaces one that a command relies on. *)
LEMMA TypedScan ==
  ASSUME Typed, NEW i \in Instance, Scan(i)
  PROVE  Typed'
<1>1. PICK listed \in [Id -> Path \cup {NoPath}] :
        /\ \A id \in Numbered(listed) : tree[<<listed[id], 0>>] # NoFile
        /\ index' = [index EXCEPT ![i] = Appended(i, listed)]
  BY DEF Scan
<1>2. \A id \in Numbered(listed) :
        Real([path |-> listed[id], file |-> tree[<<listed[id], 0>>]])
  <2> SUFFICES ASSUME NEW id \in Numbered(listed)
               PROVE  listed[id] \in Path /\ tree[<<listed[id], 0>>] \in File
    BY DEF Real
  <2>1. <<listed[id], 0>> \in Spot
    BY ConstantsOK DEF Spot, Numbered
  <2> QED BY <1>1, <2>1 DEF Typed, TypeOK, DiskOK, Spot
<1>3. \A id \in Id :
        /\ index'[i][id] \in Candidate
        /\ index'[i][id] = NoCandidate \/ Real(index'[i][id])
        /\ index[i][id] # NoCandidate => index'[i][id] = index[i][id]
  <2> SUFFICES ASSUME NEW id \in Id
               PROVE  /\ index'[i][id] \in Candidate
                      /\ index'[i][id] = NoCandidate \/ Real(index'[i][id])
                      /\ index[i][id] # NoCandidate => index'[i][id] = index[i][id]
    OBVIOUS
  <2> DEFINE new == [path |-> listed[id], file |-> tree[<<listed[id], 0>>]]
  <2>1. index[i][id] \in Candidate /\ (index[i][id] = NoCandidate \/ Real(index[i][id]))
    BY DEF Typed, TypeOK, AppOK, IndexSound
  <2>3. index'[i][id] = IF id \in Numbered(listed) /\ index[i][id] = NoCandidate
                        THEN new ELSE index[i][id]
    BY <1>1 DEF Appended, Typed, TypeOK, AppOK
  <2>4. id \in Numbered(listed) => Real(new) /\ new \in Candidate
    BY <1>2 DEF Real, Candidate
  <2> HIDE DEF new
  <2> QED BY <2>1, <2>3, <2>4
<1>4. \A j \in Instance : j # i => index'[j] = index[j]
  BY <1>1 DEF Typed, TypeOK, AppOK
<1>5. IndexSound'
  BY <1>3, <1>4 DEF IndexSound, Typed
<1>6. AppOK'
  <2>1. index'[i] \in [Id -> Candidate]
    BY <1>1, <1>3 DEF Appended, Typed, TypeOK, AppOK
  <2> QED BY <1>1, <1>4, <2>1 DEF Scan, Typed, TypeOK, AppOK
<1>7. CommandsSound'
  <2> SUFFICES ASSUME NEW w \in Worker PROVE Sound(cmd[w], index'[Home[w]])
    BY DEF CommandsSound, Scan
  <2>1. cmd[w] \in Command /\ Sound(cmd[w], index[Home[w]]) /\ Home[w] \in Instance
    BY CommandOf, ConstantsOK
  <2>2. CASE Home[w] # i
    BY <1>4, <2>1, <2>2
  <2>3. CASE Home[w] = i
    <3>1. \A id \in Id : Real(index[i][id]) => index'[i][id] = index[i][id]
      BY <1>3, ConstantsOK DEF Real, NoCandidate
    <3>2. cmd[w].pc \in Moving => Real(index[i][cmd[w].id])
      BY <2>1, <2>3 DEF Sound
    <3>3. cmd[w].todo \subseteq Id /\ cmd[w].id \in Id
      BY <2>1 DEF Command
    <3> QED BY <2>1, <2>3, <3>1, <3>2, <3>3 DEF Sound
  <2> QED BY <2>2, <2>3
<1>8. spent' \in [Kind -> Nat]
  BY SpendTyped DEF Scan, Kind
<1> QED BY <1>5, <1>6, <1>7, <1>8, UnchangedTyped DEF Scan, Typed, TypeOK

(* A crash leaves nothing of the session behind. *)
LEMMA TypedCrash ==
  ASSUME Typed, NEW i \in Instance, Crash(i)
  PROVE  Typed'
<1>1. EmptyIndex \in [Id -> Candidate] /\ \A id \in Id : EmptyIndex[id] = NoCandidate
  BY DEF EmptyIndex, NoCandidate, Candidate
<1>2. AppOK'
  BY <1>1, NoRecoveryIsRecovery DEF Crash, Typed, TypeOK, AppOK
<1>3. IndexSound'
  BY <1>1 DEF Crash, Typed, TypeOK, AppOK, IndexSound
<1>4. cmd' \in [Worker -> Command]
  BY IdleIsCommand DEF Crash, Typed, TypeOK
<1>5. CommandsSound'
  <2> SUFFICES ASSUME NEW w \in Worker PROVE Sound(cmd'[w], index'[Home[w]])
    BY DEF CommandsSound
  <2>1. CASE Home[w] = i
    BY <2>1, IdleIsSound DEF Crash
  <2>2. CASE Home[w] # i
    BY <2>2, ConstantsOK, CommandOf DEF Crash, Typed, TypeOK, AppOK
  <2> QED BY <2>1, <2>2
<1>6. spent' \in [Kind -> Nat]
  BY SpendTyped DEF Crash, Kind
<1> QED BY <1>2, <1>3, <1>4, <1>5, <1>6, UnchangedTyped DEF Crash, Typed, TypeOK

(* The user, the volume and the clock keep the typing invariant. *)
LEMMA TypedWorld ==
  ASSUME Typed, World
  PROVE  Typed'
<1>1. UNCHANGED <<app, cmd>>
  BY DEF World, UserDeletes, UserWrites, Unplug, Plug, TtlPasses
<1>2. AppOK' /\ IndexSound' /\ CommandsSound' /\ cmd' \in [Worker -> Command]
  BY <1>1, SameIndexTyped, UnchangedTyped DEF app
<1>3. spent' \in [Kind -> Nat]
  BY SpendTyped DEF World, UserDeletes, UserWrites, Unplug, Plug, TtlPasses, Kind
<1>4. DiskOK' /\ GhostOK'
  <2>0. DiskOK /\ GhostOK
    BY DEF Typed, TypeOK
  <2>1. CASE \E spot \in Spot : UserDeletes(spot)
    BY <2>0, <2>1 DEF UserDeletes, DiskOK, GhostOK
  <2>2. CASE \E spot \in Spot, file \in File : UserWrites(spot, file)
    BY <2>0, <2>2 DEF UserWrites, DiskOK, GhostOK
  <2>3. CASE Unplug \/ Plug
    BY <2>0, <2>3 DEF Unplug, Plug, DiskOK, GhostOK, ghost
  <2>4. CASE \E id \in Id : TtlPasses(id)
    BY <2>0, <2>4 DEF TtlPasses, DiskOK, GhostOK, disk, ghost
  <2> QED BY <2>1, <2>2, <2>3, <2>4 DEF World
<1>5. JournalOK' /\ RowsSound'
  <2>1. CASE \E id \in Id : TtlPasses(id)
    <3>1. PICK id \in Id : manifest' = [manifest EXCEPT ![id].due = TRUE] /\ audit' = audit
      BY <2>1 DEF TtlPasses
    <3>2. manifest \in [Id -> Row] /\ audit \subseteq Event /\ RowsSound
      BY DEF Typed, TypeOK, JournalOK
    <3>3. manifest' = [manifest EXCEPT ![id] = [manifest[id] EXCEPT !.due = TRUE]]
      BY <3>1, <3>2
    <3>4. [manifest[id] EXCEPT !.due = TRUE] \in Row
      BY <3>2 DEF Row
    <3>5. manifest' \in [Id -> Row]
      BY <3>2, <3>3, <3>4
    <3>6. \A i \in Id : manifest'[i].status = manifest[i].status /\ manifest'[i].path = manifest[i].path
      BY <3>2, <3>3 DEF Row
    <3> QED BY <3>1, <3>2, <3>5, <3>6 DEF JournalOK, RowsSound
  <2>2. CASE UNCHANGED journal
    BY <2>2, UnchangedTyped
  <2> QED BY <2>1, <2>2 DEF World, UserDeletes, UserWrites, Unplug, Plug
<1> QED BY <1>2, <1>3, <1>4, <1>5 DEF Typed, TypeOK

-----------------------------------------------------------------------------
(* Every step keeps the typing invariant. *)
THEOREM TypedStep == Typed /\ [Next]_vars => Typed'
<1>1. Typed /\ Next => Typed'
  BY TypedReap, TypedRestore, TypedPurge, TypedReconcile, TypedScan, TypedCrash, TypedWorld DEF Next
<1>2. Typed /\ UNCHANGED vars => Typed'
  BY SameIndexTyped, UnchangedTyped DEF vars, app, Typed, TypeOK
<1> QED BY <1>1, <1>2

(* The typing invariant holds in every reachable state. *)
THEOREM SpecTyped == Spec => []Typed
  BY TypedInit, TypedStep, PTL DEF Spec

(* Every variable keeps its type, whatever the numbers of instances, workers,
   ids, paths, contents and restore attempts. *)
THEOREM TypeCorrect == Spec => []TypeOK
<1>1. Typed => TypeOK
  BY DEF Typed
<1> QED BY SpecTyped, <1>1, PTL

-----------------------------------------------------------------------------
(* Nothing that was removed or erased is still on the disk.                *)
OnlyLivingLie ==
  /\ \A s \in Spot : tree[s] # NoFile => fate[tree[s]] = "alive"
  /\ \A id \in Id : vault[id] # NoFile => fate[vault[id]] = "alive"

(* Every living content lies in exactly one place, and no other anywhere.  *)
OnePlace == NothingLost /\ NothingDuplicated /\ OnlyLivingLie

(* Only three steps of the application move or erase anything on the disk: the
   rename into the quarantine directory, the rename out of it, and the erasure. *)
LEMMA Footprint ==
  ASSUME [Next]_vars
  PROVE  \/ UNCHANGED <<tree, vault, fate>>
         \/ \E w \in Worker : MoveIntoQuarantine(w) \/ RestoreFromQuarantine(w) \/ PurgeFromQuarantine(w)
         \/ \E spot \in Spot : UserDeletes(spot)
         \/ \E spot \in Spot, file \in File : UserWrites(spot, file)
<1> USE DEF disk, ghost
<1>1. ASSUME NEW w \in Worker, Reap(w)
      PROVE  MoveIntoQuarantine(w) \/ UNCHANGED <<tree, vault, fate>>
  BY <1>1 DEF Reap, StartReap, ReadIdentity, SkipItem, JournalReap, VerifyIdentity, MoveFails,
     ConfirmReap, EndReap
<1>2. ASSUME NEW w \in Worker, Restore(w)
      PROVE  RestoreFromQuarantine(w) \/ UNCHANGED <<tree, vault, fate>>
  BY <1>2 DEF Restore, StartRestore, StartUndo, LookupEntry, TrySuffix, RestoreFails,
     ConfirmRestore, EndRestore
<1>3. ASSUME NEW w \in Worker, Purge(w)
      PROVE  PurgeFromQuarantine(w) \/ UNCHANGED <<tree, vault, fate>>
  BY <1>3 DEF Purge, StartPurge, StartSweep, PurgeFails, ConfirmPurge, EndPurge
<1>4. ASSUME NEW i \in Instance, Launch(i) \/ Reconcile(i) \/ Scan(i) \/ Crash(i)
      PROVE  UNCHANGED <<tree, vault, fate>>
  BY <1>4 DEF Launch, Reconcile, ProbeInFlight, ResolveInFlight, ProbeHeld, ResolveHeld,
     RecoveryStep, RecoveryFails, Scan, Crash
<1>5. CASE World
  BY <1>5 DEF World, Unplug, Plug, TtlPasses
<1>6. CASE UNCHANGED vars
  BY <1>6 DEF vars
<1> QED BY <1>1, <1>2, <1>3, <1>4, <1>5, <1>6 DEF Next

(* At the beginning every content lies at its own path. *)
LEMMA OnePlaceInit == Init => OnePlace
<1> SUFFICES ASSUME Init PROVE OnePlace
  OBVIOUS
<1>1. \A s \in Spot : tree[s] # NoFile => s[2] = 0 /\ s[1] \in Path /\ tree[s] = Original[s[1]]
  BY DEF Init, Spot
<1>2. \A id \in Id : vault[id] = NoFile
  BY DEF Init
<1>3. NothingLost
  <2> SUFFICES ASSUME NEW f \in File, fate[f] = "alive" PROVE InTree(f)
    BY DEF NothingLost
  <2>1. PICK p \in Path : Original[p] = f
    BY DEF Init
  <2>2. <<p, 0>> \in Spot
    BY ConstantsOK DEF Spot
  <2>3. tree[<<p, 0>>] = f
    BY <2>1, <2>2 DEF Init
  <2> QED BY <2>2, <2>3 DEF InTree
<1>4. NothingDuplicated
  <2>1. \A s, t \in Spot : s[1] = t[1] /\ s[2] = t[2] => s = t
    BY DEF Spot
  <2> QED BY <1>1, <1>2, <2>1, ConstantsOK DEF NothingDuplicated
<1>5. OnlyLivingLie
  BY <1>1, <1>2, ConstantsOK DEF OnlyLivingLie, Init
<1> QED BY <1>3, <1>4, <1>5 DEF OnePlace

(* Moving a file under a free surrogate name keeps every content in one place. *)
LEMMA OnePlaceMove ==
  ASSUME Typed, OnePlace, VacantSurrogate, NEW w \in Worker, MoveIntoQuarantine(w)
  PROVE  OnePlace'
<1> DEFINE from == <<cmd[w].path, 0>>
           id   == cmd[w].id
<1>c. cmd[w] \in Command /\ Sound(cmd[w], index[Home[w]])
  BY CommandOf
<1>1. from \in Spot /\ id \in Id
  BY <1>c, ConstantsOK DEF MoveIntoQuarantine, At, Sound, Moving, Command, Real, Spot
<1>2. vault[id] = NoFile /\ tree[from] # NoFile
  BY DEF VacantSurrogate, MoveIntoQuarantine, At
<1>3. /\ vault' = [vault EXCEPT ![id] = tree[from]]
      /\ tree' = [tree EXCEPT ![from] = NoFile]
      /\ fate' = fate
  BY DEF MoveIntoQuarantine
<1>4. tree \in [Spot -> File \cup {NoFile}] /\ vault \in [Id -> File \cup {NoFile}]
  BY DEF Typed, TypeOK, DiskOK
<1> HIDE DEF from, id
<1>5. NothingLost'
  BY <1>1, <1>2, <1>3, <1>4 DEF OnePlace, NothingLost, InTree, InVault
<1>6. NothingDuplicated'
  BY <1>1, <1>2, <1>3, <1>4 DEF OnePlace, NothingDuplicated
<1>7. OnlyLivingLie'
  BY <1>1, <1>2, <1>3, <1>4 DEF OnePlace, OnlyLivingLie
<1> QED BY <1>5, <1>6, <1>7 DEF OnePlace

(* A restore into a free name keeps every content in one place. *)
LEMMA OnePlaceRestore ==
  ASSUME Typed, OnePlace, NEW w \in Worker, RestoreFromQuarantine(w)
  PROVE  OnePlace'
<1> DEFINE to == Destination(w)
           id == cmd[w].id
<1>1. to \in Spot /\ id \in Id
  BY CommandOf DEF RestoreFromQuarantine, At, Sound, Command, Spot, Destination
<1>2. vault[id] # NoFile /\ tree[to] = NoFile
  BY DEF RestoreFromQuarantine, Free
<1>3. /\ tree' = [tree EXCEPT ![to] = vault[id]]
      /\ vault' = [vault EXCEPT ![id] = NoFile]
      /\ fate' = fate
  BY DEF RestoreFromQuarantine, ghost
<1>4. tree \in [Spot -> File \cup {NoFile}] /\ vault \in [Id -> File \cup {NoFile}]
  BY DEF Typed, TypeOK, DiskOK
<1> HIDE DEF to, id
<1>5. NothingLost'
  BY <1>1, <1>2, <1>3, <1>4 DEF OnePlace, NothingLost, InTree, InVault
<1>6. NothingDuplicated'
  BY <1>1, <1>2, <1>3, <1>4 DEF OnePlace, NothingDuplicated
<1>7. OnlyLivingLie'
  BY <1>1, <1>2, <1>3, <1>4 DEF OnePlace, OnlyLivingLie
<1> QED BY <1>5, <1>6, <1>7 DEF OnePlace

(* A purge ends exactly one content. *)
LEMMA OnePlacePurge ==
  ASSUME Typed, OnePlace, NEW w \in Worker, PurgeFromQuarantine(w)
  PROVE  OnePlace'
<1>1. PICK id \in Id : /\ vault[id] # NoFile
                       /\ fate' = [fate EXCEPT ![vault[id]] = "purged"]
                       /\ vault' = [vault EXCEPT ![id] = NoFile]
  BY DEF PurgeFromQuarantine, Erasable
<1>2. tree' = tree
  BY DEF PurgeFromQuarantine
<1>3. /\ tree \in [Spot -> File \cup {NoFile}] /\ vault \in [Id -> File \cup {NoFile}]
      /\ fate \in [File -> {"unborn", "alive", "deleted", "purged"}]
  BY DEF Typed, TypeOK, DiskOK, GhostOK
<1>4. NothingLost'
  BY <1>1, <1>2, <1>3 DEF OnePlace, NothingLost, InTree, InVault
<1>5. NothingDuplicated'
  BY <1>1, <1>2, <1>3 DEF OnePlace, NothingDuplicated
<1>6. OnlyLivingLie'
  BY <1>1, <1>2, <1>3 DEF OnePlace, OnlyLivingLie, NothingDuplicated
<1> QED BY <1>4, <1>5, <1>6 DEF OnePlace

(* What the user does to a file concerns that file alone. *)
LEMMA OnePlaceUser ==
  ASSUME Typed, OnePlace,
         \/ \E spot \in Spot : UserDeletes(spot)
         \/ \E spot \in Spot, file \in File : UserWrites(spot, file)
  PROVE  OnePlace'
<1>t. /\ tree \in [Spot -> File \cup {NoFile}] /\ vault \in [Id -> File \cup {NoFile}]
      /\ fate \in [File -> {"unborn", "alive", "deleted", "purged"}]
  BY DEF Typed, TypeOK, DiskOK, GhostOK
<1>1. ASSUME NEW spot \in Spot, UserDeletes(spot)
      PROVE  OnePlace'
  <2>1. /\ tree[spot] # NoFile
        /\ fate' = [fate EXCEPT ![tree[spot]] = "deleted"]
        /\ tree' = [tree EXCEPT ![spot] = NoFile]
        /\ vault' = vault
    BY <1>1 DEF UserDeletes
  <2>2. NothingLost'
    BY <1>t, <2>1 DEF OnePlace, NothingLost, InTree, InVault
  <2>3. NothingDuplicated'
    BY <1>t, <2>1 DEF OnePlace, NothingDuplicated
  <2>4. OnlyLivingLie'
    BY <1>t, <2>1 DEF OnePlace, OnlyLivingLie, NothingDuplicated
  <2> QED BY <2>2, <2>3, <2>4 DEF OnePlace
<1>2. ASSUME NEW at \in Spot, NEW file \in File, UserWrites(at, file)
      PROVE  OnePlace'
  <2>1. /\ fate[file] = "unborn"
        /\ fate' = [f \in File |-> IF f = file THEN "alive"
                                   ELSE IF f = tree[at] THEN "deleted" ELSE fate[f]]
        /\ tree' = [tree EXCEPT ![at] = file]
        /\ vault' = vault
    BY <1>2 DEF UserWrites
  <2>2. at \in Spot
    OBVIOUS
  <2>3. \A s \in Spot : tree[s] # file
    BY <1>t, <2>1, ConstantsOK DEF OnePlace, OnlyLivingLie
  <2>4. \A id \in Id : vault[id] # file
    BY <1>t, <2>1, ConstantsOK DEF OnePlace, OnlyLivingLie
  <2>5. NothingLost'
    BY <1>t, <2>1, <2>2 DEF OnePlace, NothingLost, InTree, InVault
  <2>6. NothingDuplicated'
    BY <1>t, <2>1, <2>2, <2>3, <2>4 DEF OnePlace, NothingDuplicated
  <2>7. OnlyLivingLie'
    BY <1>t, <2>1, <2>2, <2>3, <2>4, ConstantsOK DEF OnePlace, OnlyLivingLie, NothingDuplicated
  <2> QED BY <2>5, <2>6, <2>7 DEF OnePlace
<1> QED BY <1>1, <1>2

(* As long as no rename lands on another file, every step keeps every content in one place. *)
THEOREM OnePlaceStep == Typed /\ OnePlace /\ VacantSurrogate /\ [Next]_vars => OnePlace'
<1> SUFFICES ASSUME Typed, OnePlace, VacantSurrogate, [Next]_vars PROVE OnePlace'
  OBVIOUS
<1>1. CASE UNCHANGED <<tree, vault, fate>>
  BY <1>1 DEF OnePlace, NothingLost, InTree, InVault, NothingDuplicated, OnlyLivingLie
<1> QED BY <1>1, Footprint, OnePlaceMove, OnePlaceRestore, OnePlacePurge, OnePlaceUser

(* The overwriting rename is the only way the quarantine loses a file: if no
   rename into the quarantine directory finds its name taken, then no content
   disappears unless the user or a purge removed it, with any number of
   instances, concurrent commands, scans, crashes and failures. *)
THEOREM NothingLostIfVacant == Spec /\ []VacantSurrogate => []NothingLost
<1>1. Spec => []Typed
  BY SpecTyped
<1>2. Init => OnePlace
  BY OnePlaceInit
<1>3. Typed /\ OnePlace /\ VacantSurrogate /\ [Next]_vars => OnePlace'
  BY OnePlaceStep
<1>4. OnePlace => NothingLost
  BY DEF OnePlace
<1> QED BY <1>1, <1>2, <1>3, <1>4, PTL DEF Spec

(* Under the same condition no restore and no interrupted move leaves a second
   copy of a file behind. *)
THEOREM NothingDuplicatedIfVacant == Spec /\ []VacantSurrogate => []NothingDuplicated
<1>1. OnePlace => NothingDuplicated
  BY DEF OnePlace
<1> QED BY <1>1, SpecTyped, OnePlaceInit, OnePlaceStep, PTL DEF Spec

-----------------------------------------------------------------------------
(* Until the first scan there is nothing to reap.                          *)
BeforeScan ==
  spent["scan"] = 0 =>
    /\ \A id \in Id : vault[id] = NoFile
    /\ \A i \in Instance : index[i] = EmptyIndex
    /\ \A w \in Worker : cmd[w].pc \notin Reaping

(* The file under a surrogate name is the one the index has under that id,
   or the user changed the file between the comparison and the rename.     *)
SurrogatesNamed ==
  \A w \in Worker, id \in Id :
    vault[id] # NoFile /\ Real(index[Home[w]][id]) =>
      vault[id] = index[Home[w]][id].file \/ fate[index[Home[w]][id].file] = "deleted"

(* The same for the file about to be moved.                                *)
SourceKnown ==
  \A w \in Worker :
    At(w, "rename") => tree[<<cmd[w].path, 0>>] = cmd[w].file \/ fate[cmd[w].file] = "deleted"

OneScan == BeforeScan /\ SurrogatesNamed /\ SourceKnown /\ VacantSurrogate

(* One worker, so commands do not overlap, and one scan in the life of the
   journal, so an id names one file.                                       *)
OneCommandOneScan == Limit["scan"] <= 1 /\ \A v, w \in Worker : v = w

(* At the beginning nothing has been scanned or reaped. *)
LEMMA OneScanInit == Init => OneScan
  BY DEF Init, OneScan, BeforeScan, SurrogatesNamed, SourceKnown, VacantSurrogate, Idle, Job,
     At, Reaping, Kind

(* A content that the user removed never comes back.                       *)
LEMMA DeletedStays ==
  ASSUME Typed, OnePlace, [Next]_vars, NEW f \in File, fate[f] = "deleted"
  PROVE  fate'[f] = "deleted"
<1>t. /\ tree \in [Spot -> File \cup {NoFile}] /\ vault \in [Id -> File \cup {NoFile}]
      /\ fate \in [File -> {"unborn", "alive", "deleted", "purged"}]
  BY DEF Typed, TypeOK, DiskOK, GhostOK
<1>1. ASSUME NEW w \in Worker, PurgeFromQuarantine(w)
      PROVE  fate'[f] = "deleted"
  BY <1>1, <1>t DEF PurgeFromQuarantine, Erasable, OnePlace, OnlyLivingLie
<1>2. ASSUME NEW w \in Worker, MoveIntoQuarantine(w) \/ RestoreFromQuarantine(w)
      PROVE  fate'[f] = "deleted"
  BY <1>2 DEF MoveIntoQuarantine, RestoreFromQuarantine, ghost
<1>3. ASSUME NEW spot \in Spot, UserDeletes(spot)
      PROVE  fate'[f] = "deleted"
  BY <1>3, <1>t DEF UserDeletes
<1>4. ASSUME NEW at \in Spot, NEW file \in File, UserWrites(at, file)
      PROVE  fate'[f] = "deleted"
  BY <1>4, <1>t DEF UserWrites
<1> QED BY <1>1, <1>2, <1>3, <1>4, Footprint
(* A step of a worker changes that worker alone. *)
LEMMA CommandChange ==
  ASSUME Typed, NEW w \in Worker, Reap(w) \/ Restore(w) \/ Purge(w)
  PROVE  \E c : cmd' = [cmd EXCEPT ![w] = c]
<1> USE DEF Goto, NextItem, Return, Begin
<1>1. CASE Reap(w)
  BY <1>1 DEF Reap, StartReap, ReadIdentity, SkipItem, JournalReap, VerifyIdentity,
     MoveIntoQuarantine, MoveFails, ConfirmReap, EndReap
<1>2. CASE Restore(w)
  BY <1>2 DEF Restore, StartRestore, StartUndo, LookupEntry, RestoreFromQuarantine, TrySuffix,
     RestoreFails, ConfirmRestore, EndRestore
<1>3. CASE Purge(w)
  BY <1>3 DEF Purge, StartPurge, StartSweep, PurgeFromQuarantine, PurgeFails, ConfirmPurge,
     EndPurge
<1> QED BY <1>1, <1>2, <1>3

(* A command changes by a step of its worker or because its instance dies. *)
LEMMA WorkerStep ==
  ASSUME Typed, [Next]_vars, NEW w \in Worker, cmd'[w] # cmd[w]
  PROVE  Reap(w) \/ Restore(w) \/ Purge(w) \/ cmd'[w] = Idle
<1>t. cmd \in [Worker -> Command]
  BY DEF Typed, TypeOK
<1>1. ASSUME NEW v \in Worker, Reap(v) \/ Restore(v) \/ Purge(v)
      PROVE  v = w
  <2>1. PICK c : cmd' = [cmd EXCEPT ![v] = c]
    BY <1>1, CommandChange
  <2> QED BY <1>t, <2>1
<1>2. ASSUME NEW i \in Instance, Launch(i) \/ Reconcile(i) \/ Scan(i)
      PROVE  FALSE
  BY <1>2 DEF Launch, Reconcile, ProbeInFlight, ResolveInFlight, ProbeHeld, ResolveHeld,
     RecoveryStep, RecoveryFails, Scan
<1>3. ASSUME NEW i \in Instance, Crash(i)
      PROVE  cmd'[w] = Idle
  BY <1>3 DEF Crash
<1>4. CASE World
  BY <1>4 DEF World, UserDeletes, UserWrites, Unplug, Plug, TtlPasses
<1>5. CASE UNCHANGED vars
  BY <1>5 DEF vars
<1> QED BY <1>1, <1>2, <1>3, <1>4, <1>5 DEF Next

(* Restores and purges never enter a reap. *)
LEMMA ElsewhereNotReaping ==
  ASSUME Typed, NEW w \in Worker, Restore(w) \/ Purge(w)
  PROVE  cmd'[w].pc \notin Reaping
<1>t. cmd \in [Worker -> Command] /\ cmd[w] \in Command
  BY DEF Typed, TypeOK
<1> USE DEF Goto, NextItem, Return, Begin, Job, Idle, Reaping
<1>1. CASE StartRestore(w) \/ StartUndo(w) \/ StartPurge(w) \/ StartSweep(w)
  BY <1>t, <1>1 DEF StartRestore, StartUndo, StartPurge, StartSweep
<1>2. CASE LookupEntry(w)
  <2>1. CASE Return(w)
    BY <1>t, <2>1
  <2>2. ASSUME NEW id \in cmd[w].todo,
               cmd' = [cmd EXCEPT ![w] = [cmd[w] EXCEPT !.pc = "return", !.id = id,
                                                        !.path = manifest[id].path]]
        PROVE  cmd'[w].pc = "return"
    <3>1. cmd'[w] = [cmd[w] EXCEPT !.pc = "return", !.id = id, !.path = manifest[id].path]
      BY <1>t, <2>2
    <3> QED BY <1>t, <3>1 DEF Command
  <2> QED BY <1>2, <2>1, <2>2 DEF LookupEntry
<1>3. CASE RestoreFromQuarantine(w)
  BY <1>t, <1>3 DEF RestoreFromQuarantine, Command
<1>4. CASE TrySuffix(w)
  BY <1>t, <1>4 DEF TrySuffix, Command, At
<1>5. CASE RestoreFails(w) \/ ConfirmRestore(w) \/ EndRestore(w)
  BY <1>t, <1>5 DEF RestoreFails, ConfirmRestore, EndRestore
<1>6. CASE PurgeFromQuarantine(w)
  BY <1>t, <1>6 DEF PurgeFromQuarantine, Command
<1>7. CASE PurgeFails(w) \/ ConfirmPurge(w) \/ EndPurge(w)
  BY <1>t, <1>7 DEF PurgeFails, ConfirmPurge, EndPurge
<1> QED BY <1>1, <1>2, <1>3, <1>4, <1>5, <1>6, <1>7 DEF Restore, Purge

(* A reap goes on only after it was started. *)
LEMMA ReapingBefore ==
  ASSUME NEW w \in Worker, Reap(w)
  PROVE  cmd[w].pc \in Reaping \/ StartReap(w)
  BY DEF Reap, ReadIdentity, SkipItem, JournalReap, VerifyIdentity, MoveIntoQuarantine,
     MoveFails, ConfirmReap, EndReap, At, Reaping

(* Only the last comparison leads to the rename. *)
LEMMA RenameBefore ==
  ASSUME Typed, NEW w \in Worker, Reap(w), cmd'[w].pc = "rename"
  PROVE  VerifyIdentity(w)
<1>t. cmd \in [Worker -> Command] /\ cmd[w] \in Command
  BY DEF Typed, TypeOK
<1> USE DEF Goto, NextItem, Return, Begin, Job, Idle
<1>1. ~StartReap(w)
  BY <1>t DEF StartReap
<1>2. ASSUME ReadIdentity(w) PROVE FALSE
  <2>1. PICK id, c : cmd' = [cmd EXCEPT ![w] = [cmd[w] EXCEPT !.pc = "insert", !.id = id,
                                                             !.path = c.path, !.file = c.file]]
    BY <1>2 DEF ReadIdentity
  <2>2. cmd'[w].pc = "insert"
    BY <1>t, <2>1 DEF Command
  <2> QED BY <2>2
<1>3. ~SkipItem(w)
  BY <1>t DEF SkipItem, Command, At
<1>4. ~JournalReap(w)
  BY <1>t DEF JournalReap, Command
<1>5. ~MoveIntoQuarantine(w)
  BY <1>t DEF MoveIntoQuarantine, Command
<1>6. ~MoveFails(w) /\ ~ConfirmReap(w) /\ ~EndReap(w)
  BY <1>t DEF MoveFails, ConfirmReap, EndReap
<1> QED BY <1>1, <1>2, <1>3, <1>4, <1>5, <1>6 DEF Reap

(* Only a scan and a crash change an index. *)
LEMMA IndexChange ==
  ASSUME [Next]_vars
  PROVE  index' = index \/ \E i \in Instance : Scan(i) \/ Crash(i)
<1> USE DEF app
<1>1. ASSUME NEW w \in Worker, Reap(w)
      PROVE  index' = index
  BY <1>1 DEF Reap, StartReap, ReadIdentity, SkipItem, JournalReap, VerifyIdentity,
     MoveIntoQuarantine, MoveFails, ConfirmReap, EndReap
<1>2. ASSUME NEW w \in Worker, Restore(w)
      PROVE  index' = index
  BY <1>2 DEF Restore, StartRestore, StartUndo, LookupEntry, RestoreFromQuarantine, TrySuffix,
     RestoreFails, ConfirmRestore, EndRestore
<1>3. ASSUME NEW w \in Worker, Purge(w)
      PROVE  index' = index
  BY <1>3 DEF Purge, StartPurge, StartSweep, PurgeFromQuarantine, PurgeFails, ConfirmPurge,
     EndPurge
<1>4. ASSUME NEW i \in Instance, Launch(i) \/ Reconcile(i)
      PROVE  index' = index
  BY <1>4 DEF Launch, Reconcile, ProbeInFlight, ResolveInFlight, ProbeHeld, ResolveHeld,
     RecoveryStep, RecoveryFails
<1>5. CASE World
  BY <1>5 DEF World, UserDeletes, UserWrites, Unplug, Plug, TtlPasses
<1>6. CASE UNCHANGED vars
  BY <1>6 DEF vars
<1> QED BY <1>1, <1>2, <1>3, <1>4, <1>5, <1>6 DEF Next

(* Only a scan puts anything into an index. *)
LEMMA EmptyStays ==
  ASSUME Typed, [Next]_vars, NEW i \in Instance, index[i] = EmptyIndex
  PROVE  index'[i] = EmptyIndex \/ \E j \in Instance : Scan(j)
<1>1. ASSUME NEW j \in Instance, Crash(j)
      PROVE  index'[i] = EmptyIndex
  BY <1>1 DEF Crash, Typed, TypeOK, AppOK
<1> QED BY <1>1, IndexChange

(* A step spends at most one of the bounded events. *)
LEMMA SpendingStep ==
  ASSUME [Next]_vars
  PROVE  UNCHANGED spent \/ \E kind \in Kind : Spend(kind)
<1> USE DEF Kind
<1>1. ASSUME NEW w \in Worker, Reap(w) \/ Restore(w) \/ Purge(w)
      PROVE  UNCHANGED spent \/ \E kind \in Kind : Spend(kind)
  <2>1. CASE Reap(w)
    BY <2>1 DEF Reap, StartReap, ReadIdentity, SkipItem, JournalReap, VerifyIdentity,
       MoveIntoQuarantine, MoveFails, ConfirmReap, EndReap
  <2>2. CASE Restore(w)
    BY <2>2 DEF Restore, StartRestore, StartUndo, LookupEntry, RestoreFromQuarantine, TrySuffix,
       RestoreFails, ConfirmRestore, EndRestore
  <2>3. CASE Purge(w)
    BY <2>3 DEF Purge, StartPurge, StartSweep, PurgeFromQuarantine, PurgeFails, ConfirmPurge,
       EndPurge
  <2> QED BY <1>1, <2>1, <2>2, <2>3
<1>2. ASSUME NEW i \in Instance, Launch(i) \/ Reconcile(i) \/ Scan(i) \/ Crash(i)
      PROVE  UNCHANGED spent \/ \E kind \in Kind : Spend(kind)
  BY <1>2 DEF Launch, Reconcile, ProbeInFlight, ResolveInFlight, ProbeHeld, ResolveHeld,
     RecoveryStep, RecoveryFails, Scan, Crash
<1>3. CASE World
  BY <1>3 DEF World, UserDeletes, UserWrites, Unplug, Plug, TtlPasses
<1>4. CASE UNCHANGED vars
  BY <1>4 DEF vars
<1> QED BY <1>1, <1>2, <1>3, <1>4 DEF Next

(* Scans are counted. *)
LEMMA ScansCount ==
  ASSUME Typed, [Next]_vars
  PROVE  /\ spent'["scan"] = 0 => spent["scan"] = 0
         /\ \A i \in Instance : Scan(i) => spent'["scan"] # 0
<1>t. spent \in [Kind -> Nat] /\ "scan" \in Kind
  BY DEF Typed, TypeOK, Kind
<1>1. ASSUME NEW kind \in Kind, Spend(kind)
      PROVE  spent'["scan"] = 0 => spent["scan"] = 0
  BY <1>1, <1>t DEF Spend
<1>2. ASSUME NEW i \in Instance, Scan(i)
      PROVE  spent'["scan"] # 0
  BY <1>2, <1>t DEF Scan, Spend
<1>3. UNCHANGED spent \/ \E kind \in Kind : Spend(kind)
  BY SpendingStep
<1> QED BY <1>1, <1>2, <1>3
(* Before the first scan nothing can be reaped. *)
LEMMA BeforeScanStep ==
  ASSUME Typed, BeforeScan, [Next]_vars
  PROVE  BeforeScan'
<1> SUFFICES ASSUME spent'["scan"] = 0
             PROVE  /\ \A id \in Id : vault'[id] = NoFile
                    /\ \A i \in Instance : index'[i] = EmptyIndex
                    /\ \A w \in Worker : cmd'[w].pc \notin Reaping
  BY DEF BeforeScan
<1>1. /\ \A id \in Id : vault[id] = NoFile
      /\ \A i \in Instance : index[i] = EmptyIndex
      /\ \A w \in Worker : cmd[w].pc \notin Reaping
      /\ \A i \in Instance : ~Scan(i)
  BY ScansCount DEF BeforeScan
<1>2. \A id \in Id : vault'[id] = NoFile
  <2>t. vault \in [Id -> File \cup {NoFile}]
    BY DEF Typed, TypeOK, DiskOK
  <2>1. \A w \in Worker : ~MoveIntoQuarantine(w)
    BY <1>1 DEF MoveIntoQuarantine, At, Reaping
  <2>2. ASSUME NEW w \in Worker, RestoreFromQuarantine(w) \/ PurgeFromQuarantine(w)
        PROVE  \A id \in Id : vault'[id] = NoFile
    BY <1>1, <2>t, <2>2 DEF RestoreFromQuarantine, PurgeFromQuarantine
  <2>3. UNCHANGED vault => \A id \in Id : vault'[id] = NoFile
    BY <1>1
  <2> QED BY <2>1, <2>2, <2>3, Footprint DEF UserDeletes, UserWrites
<1>3. \A i \in Instance : index'[i] = EmptyIndex
  BY <1>1, EmptyStays
<1>4. ASSUME NEW w \in Worker
      PROVE  cmd'[w].pc \notin Reaping
  <2>1. ~Reap(w)
    <3> SUFFICES ASSUME Reap(w) PROVE FALSE
      OBVIOUS
    <3>1. StartReap(w)
      BY <1>1, ReapingBefore
    <3> QED BY <1>1, <3>1, ConstantsOK DEF StartReap, Indexed, EmptyIndex
  <2>2. Idle.pc \notin Reaping
    BY DEF Idle, Job, Reaping
  <2> QED BY <1>1, <2>1, <2>2, WorkerStep, ElsewhereNotReaping
<1> QED BY <1>2, <1>3, <1>4

(* What the last comparison before the rename has established. *)
LEMMA VerifiedSource ==
  ASSUME Typed, NEW w \in Worker, VerifyIdentity(w), At(w, "rename")'
  PROVE  /\ tree[<<cmd[w].path, 0>>] = cmd[w].file
         /\ cmd'[w] = [cmd[w] EXCEPT !.pc = "rename"]
         /\ cmd'[w].path = cmd[w].path /\ cmd'[w].file = cmd[w].file /\ cmd'[w].id = cmd[w].id
         /\ cmd[w].file \in File /\ cmd[w].id \in Id /\ <<cmd[w].path, 0>> \in Spot
         /\ index[Home[w]][cmd[w].id].file = cmd[w].file
         /\ Real(index[Home[w]][cmd[w].id])
         /\ UNCHANGED <<tree, vault, fate>>
<1>1. cmd[w] \in Command /\ Sound(cmd[w], index[Home[w]]) /\ cmd \in [Worker -> Command]
  BY CommandOf DEF Typed, TypeOK
<1>2. SameFile(cmd[w].path, cmd[w].file) /\ Goto(w, "rename")
  BY <1>1 DEF VerifyIdentity, NextItem, Job, At
<1>3. cmd'[w] = [cmd[w] EXCEPT !.pc = "rename"]
  BY <1>1, <1>2 DEF Goto
<1>4. cmd'[w].path = cmd[w].path /\ cmd'[w].file = cmd[w].file /\ cmd'[w].id = cmd[w].id
  BY <1>1, <1>3 DEF Command
<1>5. cmd[w].pc \in Moving
  BY DEF VerifyIdentity, At, Moving
<1>6. /\ cmd[w].path \in Path /\ cmd[w].file \in File /\ cmd[w].id \in Id
      /\ index[Home[w]][cmd[w].id] = [path |-> cmd[w].path, file |-> cmd[w].file]
  BY <1>1, <1>5 DEF Sound, Command, Real
<1>7. <<cmd[w].path, 0>> \in Spot
  BY <1>6, ConstantsOK DEF Spot
<1>8. UNCHANGED <<tree, vault, fate>>
  BY DEF VerifyIdentity, disk, ghost
<1> QED BY <1>2, <1>3, <1>4, <1>6, <1>7, <1>8 DEF SameFile, Real

(* With one command at a time and one scan, a file that still lies at its path
   cannot also lie under its surrogate name, and no other file can: the name is free. *)
LEMMA VacantStep ==
  ASSUME OneCommandOneScan, Typed, OnePlace, OneScan, [Next]_vars
  PROVE  VacantSurrogate'
<1> SUFFICES ASSUME NEW w \in Worker, At(w, "rename")'
             PROVE  vault'[cmd'[w].id] = NoFile
  BY DEF VacantSurrogate, At
<1>t. cmd[w] \in Command /\ vault \in [Id -> File \cup {NoFile}]
  BY DEF Typed, TypeOK, DiskOK
<1>1. CASE cmd'[w] # cmd[w]
  <2>1. VerifyIdentity(w)
    BY <1>1, WorkerStep, ElsewhereNotReaping, RenameBefore DEF At, Reaping, Idle, Job
  <2> DEFINE f == cmd[w].file
  <2>2. f \in File /\ tree[<<cmd[w].path, 0>>] = f /\ <<cmd[w].path, 0>> \in Spot
    BY <2>1, VerifiedSource
  <2>3. fate[f] = "alive" /\ vault[cmd[w].id] # f
    BY <2>2, <1>t, ConstantsOK DEF OnePlace, OnlyLivingLie, NothingDuplicated, Command
  <2>4. vault[cmd[w].id] # NoFile => vault[cmd[w].id] = f \/ fate[f] = "deleted"
    <3>1. /\ cmd[w].id \in Id /\ Real(index[Home[w]][cmd[w].id])
          /\ index[Home[w]][cmd[w].id].file = f
      BY <2>1, VerifiedSource
    <3> QED BY <3>1 DEF OneScan, SurrogatesNamed
  <2>5. vault' = vault /\ cmd'[w].id = cmd[w].id
    BY <2>1, VerifiedSource
  <2>6. vault[cmd[w].id] = NoFile
    BY <2>3, <2>4
  <2> QED BY <2>5, <2>6
<1>2. CASE cmd'[w] = cmd[w]
  <2>1. vault[cmd[w].id] = NoFile
    BY <1>2 DEF OneScan, VacantSurrogate, At
  <2>2. ASSUME NEW v \in Worker, MoveIntoQuarantine(v)
        PROVE  FALSE
    <3>1. v = w
      BY DEF OneCommandOneScan
    <3>2. cmd'[w].pc = "confirm"
      BY <1>t, <2>2, <3>1 DEF MoveIntoQuarantine, Goto, Command, Typed, TypeOK
    <3> QED BY <3>2 DEF At
  <2>3. ASSUME NEW v \in Worker, RestoreFromQuarantine(v) \/ PurgeFromQuarantine(v)
        PROVE  vault'[cmd[w].id] = NoFile
    BY <1>t, <2>1, <2>3 DEF RestoreFromQuarantine, PurgeFromQuarantine, Command
  <2> QED BY <1>2, <2>1, <2>2, <2>3, Footprint DEF UserDeletes, UserWrites
<1> QED BY <1>1, <1>2

(* Between the comparison and the rename only the user can change the file, and
   then the file that was compared is gone for good. *)
LEMMA SourceKnownStep ==
  ASSUME OneCommandOneScan, Typed, OnePlace, OneScan, [Next]_vars
  PROVE  SourceKnown'
<1> SUFFICES ASSUME NEW w \in Worker, At(w, "rename")'
             PROVE  tree'[<<cmd'[w].path, 0>>] = cmd'[w].file \/ fate'[cmd'[w].file] = "deleted"
  BY DEF SourceKnown, At
<1>t. /\ cmd[w] \in Command /\ tree \in [Spot -> File \cup {NoFile}]
      /\ fate \in [File -> {"unborn", "alive", "deleted", "purged"}]
  BY DEF Typed, TypeOK, DiskOK, GhostOK
<1>1. CASE cmd'[w] # cmd[w]
  <2>1. VerifyIdentity(w)
    BY <1>1, WorkerStep, ElsewhereNotReaping, RenameBefore DEF At, Reaping, Idle, Job
  <2> QED BY <2>1, VerifiedSource
<1>2. CASE cmd'[w] = cmd[w]
  <2> DEFINE from == <<cmd[w].path, 0>>
             f    == cmd[w].file
  <2>1. At(w, "rename") /\ (tree[from] = f \/ fate[f] = "deleted")
    BY <1>2 DEF OneScan, SourceKnown, At
  <2>2. f \in File /\ from \in Spot
    <3>1. Sound(cmd[w], index[Home[w]])
      BY CommandOf
    <3> QED BY <2>1, <3>1, ConstantsOK DEF At, Sound, Moving, Real, Spot
  <2>3. CASE fate[f] = "deleted"
    BY <1>2, <2>2, <2>3, DeletedStays
  <2>4. CASE tree[from] = f
    <3>1. ASSUME NEW v \in Worker, MoveIntoQuarantine(v) \/ RestoreFromQuarantine(v)
          PROVE  FALSE
      <4>1. v = w
        BY DEF OneCommandOneScan
      <4>2. cmd'[w].pc \in {"confirm", "settle"}
        BY <1>t, <3>1, <4>1 DEF MoveIntoQuarantine, RestoreFromQuarantine, Goto, Command, Typed, TypeOK
      <4> QED BY <4>2 DEF At
    <3>2. ASSUME NEW v \in Worker, PurgeFromQuarantine(v)
          PROVE  tree'[from] = f
      BY <2>4, <3>2 DEF PurgeFromQuarantine
    <3>3. ASSUME NEW spot \in Spot, UserDeletes(spot)
          PROVE  tree'[from] = f \/ fate'[f] = "deleted"
      BY <1>t, <2>2, <2>4, <3>3 DEF UserDeletes
    <3>4. ASSUME NEW at \in Spot, NEW file \in File, UserWrites(at, file)
          PROVE  tree'[from] = f \/ fate'[f] = "deleted"
      <4>1. CASE from = at
        BY <1>t, <2>2, <2>4, <3>4, <4>1 DEF UserWrites
      <4>2. CASE from # at
        BY <1>t, <2>2, <2>4, <3>4, <4>2 DEF UserWrites
      <4> QED BY <4>1, <4>2
    <3>5. UNCHANGED tree => tree'[from] = f
      BY <2>4
    <3> QED BY <1>2, <3>1, <3>2, <3>3, <3>4, <3>5, Footprint
  <2> QED BY <2>1, <2>3, <2>4
<1> QED BY <1>1, <1>2
(* With one scan a surrogate name belongs to one file of the index. *)
LEMMA SurrogatesNamedStep ==
  ASSUME OneCommandOneScan, Typed, OnePlace, OneScan, [Next]_vars
  PROVE  SurrogatesNamed'
<1> SUFFICES ASSUME NEW w \in Worker, NEW id \in Id,
                    vault'[id] # NoFile, Real(index'[Home[w]][id])
             PROVE  \/ vault'[id] = index'[Home[w]][id].file
                    \/ fate'[index'[Home[w]][id].file] = "deleted"
  BY DEF SurrogatesNamed, Real
<1>t. /\ cmd[w] \in Command /\ Sound(cmd[w], index[Home[w]]) /\ Home[w] \in Instance
      /\ vault \in [Id -> File \cup {NoFile}]
      /\ index \in [Instance -> [Id -> Candidate]]
      /\ spent["scan"] \in Nat
  BY CommandOf, ConstantsOK DEF Typed, TypeOK, DiskOK, AppOK, Kind
<1>1. ASSUME NEW i \in Instance, Scan(i)
      PROVE  FALSE
  <2>1. spent["scan"] = 0
    <3>1. Limit["scan"] \in Nat /\ Limit["scan"] <= 1
      BY ConstantsOK DEF OneCommandOneScan, Kind
    <3>2. spent["scan"] < Limit["scan"]
      BY <1>1 DEF Scan, Spend
    <3> QED BY <1>t, <3>1, <3>2
  <2>2. vault[id] = NoFile
    BY <2>1 DEF OneScan, BeforeScan
  <2> QED BY <1>1, <2>2 DEF Scan, disk
<1>2. ASSUME NEW i \in Instance, Crash(i), index' # index
      PROVE  vault' = vault /\ index'[Home[w]] = index[Home[w]] /\ fate' = fate
  <2>1. Home[w] # i
    BY <1>2, <1>t, ConstantsOK DEF Crash, EmptyIndex, NoCandidate, Real
  <2> QED BY <1>2, <1>t, <2>1 DEF Crash, disk, ghost
<1>3. index'[Home[w]] = index[Home[w]]
  BY <1>1, <1>2, IndexChange
<1> DEFINE f == index[Home[w]][id].file
<1>4. f \in File /\ Real(index[Home[w]][id])
  BY <1>3 DEF Real
<1>5. CASE vault'[id] = vault[id]
  <2>1. vault[id] = f \/ fate[f] = "deleted"
    BY <1>4, <1>5 DEF OneScan, SurrogatesNamed
  <2> QED BY <1>3, <1>4, <1>5, <2>1, DeletedStays
<1>6. CASE vault'[id] # vault[id]
  <2>1. PICK v \in Worker : MoveIntoQuarantine(v)
    <3>1. ASSUME NEW v \in Worker, RestoreFromQuarantine(v) \/ PurgeFromQuarantine(v)
          PROVE  FALSE
      BY <1>t, <1>6, <3>1 DEF RestoreFromQuarantine, PurgeFromQuarantine
    <3> QED BY <1>6, <3>1, Footprint DEF UserDeletes, UserWrites
  <2>2. v = w
    BY DEF OneCommandOneScan
  <2>3. /\ id = cmd[w].id /\ vault'[id] = tree[<<cmd[w].path, 0>>] /\ fate' = fate
        /\ At(w, "rename")
    BY <1>t, <1>6, <2>1, <2>2 DEF MoveIntoQuarantine, Command
  <2>4. f = cmd[w].file
    BY <1>t, <2>3 DEF At, Sound, Moving
  <2>5. tree[<<cmd[w].path, 0>>] = f \/ fate[f] = "deleted"
    BY <2>3, <2>4 DEF OneScan, SourceKnown
  <2> QED BY <1>3, <2>3, <2>5
<1> QED BY <1>5, <1>6

(* If the ids were handed out only once (one scan in the life of the journal) and
   commands did not overlap, no rename into the quarantine directory would ever
   find its name taken. *)
THEOREM VacantWithOneCommand ==
  ASSUME OneCommandOneScan
  PROVE  Spec => []VacantSurrogate
<1> DEFINE Inv == Typed /\ OnePlace /\ OneScan
<1>1. Init => Inv
  BY TypedInit, OnePlaceInit, OneScanInit
<1>2. Inv /\ [Next]_vars => Inv'
  <2> SUFFICES ASSUME Inv, [Next]_vars PROVE Inv'
    OBVIOUS
  <2>1. Typed' /\ OnePlace'
    BY TypedStep, OnePlaceStep DEF OneScan
  <2>2. OneScan'
    BY OneCommandOneScan, BeforeScanStep, SurrogatesNamedStep, SourceKnownStep, VacantStep DEF OneScan
  <2> QED BY <2>1, <2>2
<1>3. Inv => VacantSurrogate
  BY DEF OneScan
<1> QED BY <1>1, <1>2, <1>3, PTL DEF Spec

(* Under the same assumption nothing is lost, whatever crashes, journal errors
   and changes of the user come between any two steps. *)
THEOREM NothingLostWithOneCommand ==
  ASSUME OneCommandOneScan
  PROVE  Spec => []NothingLost
  BY VacantWithOneCommand, NothingLostIfVacant, PTL
-----------------------------------------------------------------------------
(* The refinement mapping of DeletesSafely.                                *)
StateOf(f) == IF InVault(f) THEN "held" ELSE IF InTree(f) THEN "live" ELSE fate[f]
states == [f \in File |-> StateOf(f)]

(* The abstract state of one content. *)
LEMMA StateIsAbstract ==
  ASSUME NEW f \in File
  PROVE  states[f] = StateOf(f)
  BY DEF states

(* Initial states of the quarantine are initial states of a safe deletion. *)
LEMMA RefinesInit == Init => Abstract!Init
<1> SUFFICES ASSUME Init PROVE states \in [File -> {"unborn", "live"}]
  BY DEF Abstract!Init, states, StateOf
<1> SUFFICES ASSUME NEW f \in File PROVE StateOf(f) \in {"unborn", "live"}
  BY DEF states
<1>1. OnePlace
  BY OnePlaceInit
<1>2. ~InVault(f)
  BY ConstantsOK DEF Init, InVault
<1>3. fate[f] \in {"alive", "unborn"}
  BY DEF Init
<1>4. fate[f] = "alive" => InTree(f)
  BY <1>1, <1>2 DEF OnePlace, NothingLost
<1> QED BY <1>2, <1>3, <1>4 DEF StateOf

(* A step that changes one content changes one abstract state. *)
LEMMA StatesChange ==
  ASSUME NEW g \in File, NEW state, StateOf(g)' = state,
         \A f \in File : f # g => StateOf(f)' = StateOf(f)
  PROVE  states' = [states EXCEPT ![g] = state]
<1>1. states' = [f \in File |-> StateOf(f)']
  BY DEF states
<1>2. \A f \in File : StateOf(f)' = IF f = g THEN state ELSE StateOf(f)
  OBVIOUS
<1> QED BY <1>1, <1>2 DEF states

(* The rename into the quarantine directory is an abstract Reap. *)
LEMMA RefinesMove ==
  ASSUME Typed, OnePlace, VacantSurrogate, NEW w \in Worker, MoveIntoQuarantine(w)
  PROVE  Abstract!Next
<1> DEFINE from == <<cmd[w].path, 0>>
           id   == cmd[w].id
<1>c. cmd[w] \in Command /\ Sound(cmd[w], index[Home[w]])
  BY CommandOf
<1>1. from \in Spot /\ id \in Id
  BY <1>c, ConstantsOK DEF MoveIntoQuarantine, At, Sound, Moving, Command, Real, Spot
<1>2. vault[id] = NoFile /\ tree[from] # NoFile
  BY DEF VacantSurrogate, MoveIntoQuarantine, At
<1>3. /\ vault' = [vault EXCEPT ![id] = tree[from]]
      /\ tree' = [tree EXCEPT ![from] = NoFile]
      /\ fate' = fate
  BY DEF MoveIntoQuarantine
<1>4. tree \in [Spot -> File \cup {NoFile}] /\ vault \in [Id -> File \cup {NoFile}]
  BY DEF Typed, TypeOK, DiskOK
<1> HIDE DEF id, from
<1>5. PICK g \in File : g = tree[from]
  BY <1>1, <1>2, <1>4
<1>6. InTree(g) /\ ~InVault(g) /\ InVault(g)'
  BY <1>1, <1>2, <1>3, <1>4, <1>5 DEF InTree, InVault, OnePlace, NothingDuplicated
<1>7. \A f \in File : f # g => InTree(f)' = InTree(f) /\ InVault(f)' = InVault(f)
  BY <1>1, <1>2, <1>3, <1>4, <1>5, ConstantsOK DEF InTree, InVault
<1>8. StateOf(g) = "live" /\ StateOf(g)' = "held"
  BY <1>6 DEF StateOf
<1>9. \A f \in File : f # g => StateOf(f)' = StateOf(f)
  BY <1>3, <1>7 DEF StateOf
<1>10. states[g] = "live" /\ states' = [states EXCEPT ![g] = "held"]
  BY <1>8, <1>9, StatesChange, StateIsAbstract
<1> QED BY <1>5, <1>10 DEF Abstract!Next, Abstract!Reap, Abstract!Become, states, StateOf
(* The rename out of the quarantine directory is an abstract Restore. *)
LEMMA RefinesRestore ==
  ASSUME Typed, OnePlace, NEW w \in Worker, RestoreFromQuarantine(w)
  PROVE  Abstract!Next
<1> DEFINE to == Destination(w)
           id == cmd[w].id
<1>c. cmd[w] \in Command /\ Sound(cmd[w], index[Home[w]])
  BY CommandOf
<1>1. to \in Spot /\ id \in Id
  BY <1>c DEF RestoreFromQuarantine, At, Sound, Command, Spot, Destination
<1>2. vault[id] # NoFile /\ tree[to] = NoFile
  BY DEF RestoreFromQuarantine, Free
<1>3. /\ tree' = [tree EXCEPT ![to] = vault[id]]
      /\ vault' = [vault EXCEPT ![id] = NoFile]
      /\ fate' = fate
  BY DEF RestoreFromQuarantine, ghost
<1>4. tree \in [Spot -> File \cup {NoFile}] /\ vault \in [Id -> File \cup {NoFile}]
  BY DEF Typed, TypeOK, DiskOK
<1> HIDE DEF id, to
<1>5. PICK g \in File : g = vault[id]
  BY <1>1, <1>2, <1>4
<1>6. InVault(g) /\ ~InVault(g)' /\ InTree(g)'
  BY <1>1, <1>2, <1>3, <1>4, <1>5, ConstantsOK DEF InTree, InVault, OnePlace, NothingDuplicated
<1>7. \A f \in File : f # g => InTree(f)' = InTree(f) /\ InVault(f)' = InVault(f)
  BY <1>1, <1>2, <1>3, <1>4, <1>5, ConstantsOK DEF InTree, InVault
<1>8. StateOf(g) = "held" /\ StateOf(g)' = "live"
  BY <1>6 DEF StateOf
<1>9. \A f \in File : f # g => StateOf(f)' = StateOf(f)
  BY <1>3, <1>7 DEF StateOf
<1>10. states[g] = "held" /\ states' = [states EXCEPT ![g] = "live"]
  BY <1>8, <1>9, StatesChange, StateIsAbstract
<1> QED BY <1>5, <1>10 DEF Abstract!Next, Abstract!Restore, Abstract!Become, states, StateOf

(* The erasure is an abstract Purge. *)
LEMMA RefinesPurge ==
  ASSUME Typed, OnePlace, NEW w \in Worker, PurgeFromQuarantine(w)
  PROVE  Abstract!Next
<1>1. PICK id \in Id : /\ vault[id] # NoFile
                       /\ fate' = [fate EXCEPT ![vault[id]] = "purged"]
                       /\ vault' = [vault EXCEPT ![id] = NoFile]
  BY DEF PurgeFromQuarantine, Erasable
<1>2. tree' = tree
  BY DEF PurgeFromQuarantine
<1>3. /\ tree \in [Spot -> File \cup {NoFile}] /\ vault \in [Id -> File \cup {NoFile}]
      /\ fate \in [File -> {"unborn", "alive", "deleted", "purged"}]
  BY DEF Typed, TypeOK, DiskOK, GhostOK
<1>4. PICK g \in File : g = vault[id]
  BY <1>1, <1>3
<1>5. InVault(g) /\ ~InVault(g)' /\ ~InTree(g)' /\ fate'[g] = "purged"
  BY <1>1, <1>2, <1>3, <1>4, ConstantsOK DEF InTree, InVault, OnePlace, NothingDuplicated
<1>6. \A f \in File : f # g =>
        InTree(f)' = InTree(f) /\ InVault(f)' = InVault(f) /\ fate'[f] = fate[f]
  BY <1>1, <1>2, <1>3, <1>4, ConstantsOK DEF InTree, InVault
<1>7. StateOf(g) = "held" /\ StateOf(g)' = "purged"
  BY <1>5 DEF StateOf
<1>8. \A f \in File : f # g => StateOf(f)' = StateOf(f)
  BY <1>6 DEF StateOf
<1>9. states[g] = "held" /\ states' = [states EXCEPT ![g] = "purged"]
  BY <1>7, <1>8, StatesChange, StateIsAbstract
<1> QED BY <1>4, <1>9 DEF Abstract!Next, Abstract!Purge, Abstract!Become, states, StateOf

(* A file the user removes is an abstract Delete. *)
LEMMA RefinesDelete ==
  ASSUME Typed, OnePlace, NEW spot \in Spot, UserDeletes(spot)
  PROVE  Abstract!Next
<1>1. /\ tree[spot] # NoFile
      /\ fate' = [fate EXCEPT ![tree[spot]] = "deleted"]
      /\ tree' = [tree EXCEPT ![spot] = NoFile]
      /\ vault' = vault
  BY DEF UserDeletes
<1>2. /\ tree \in [Spot -> File \cup {NoFile}] /\ vault \in [Id -> File \cup {NoFile}]
      /\ fate \in [File -> {"unborn", "alive", "deleted", "purged"}]
  BY DEF Typed, TypeOK, DiskOK, GhostOK
<1>3. PICK g \in File : g = tree[spot]
  BY <1>1, <1>2
<1>4. InTree(g) /\ ~InVault(g) /\ ~InVault(g)' /\ ~InTree(g)' /\ fate'[g] = "deleted"
  BY <1>1, <1>2, <1>3, ConstantsOK DEF InTree, InVault, OnePlace, NothingDuplicated
<1>5. \A f \in File : f # g =>
        InTree(f)' = InTree(f) /\ InVault(f)' = InVault(f) /\ fate'[f] = fate[f]
  BY <1>1, <1>2, <1>3, ConstantsOK DEF InTree, InVault
<1>6. StateOf(g) = "live" /\ StateOf(g)' = "deleted"
  BY <1>4 DEF StateOf
<1>7. \A f \in File : f # g => StateOf(f)' = StateOf(f)
  BY <1>5 DEF StateOf
<1>8. states[g] = "live" /\ states' = [states EXCEPT ![g] = "deleted"]
  BY <1>6, <1>7, StatesChange, StateIsAbstract
<1> QED BY <1>3, <1>8 DEF Abstract!Next, Abstract!Delete, Abstract!Become, states, StateOf

(* A file the user writes is an abstract Create or Overwrite. *)
LEMMA RefinesWrite ==
  ASSUME Typed, OnePlace, NEW at \in Spot, NEW file \in File, UserWrites(at, file)
  PROVE  Abstract!Next
<1>1. /\ fate[file] = "unborn"
      /\ fate' = [f \in File |-> IF f = file THEN "alive"
                                 ELSE IF f = tree[at] THEN "deleted" ELSE fate[f]]
      /\ tree' = [tree EXCEPT ![at] = file]
      /\ vault' = vault
  BY DEF UserWrites
<1>2. at \in Spot
  OBVIOUS
<1>3. /\ tree \in [Spot -> File \cup {NoFile}] /\ vault \in [Id -> File \cup {NoFile}]
  BY DEF Typed, TypeOK, DiskOK
<1>4. ~InTree(file) /\ ~InVault(file) /\ InTree(file)' /\ ~InVault(file)'
  BY <1>1, <1>2, <1>3, ConstantsOK DEF OnePlace, OnlyLivingLie, InTree, InVault
<1>5. StateOf(file) = "unborn" /\ StateOf(file)' = "live"
  BY <1>1, <1>4 DEF StateOf
<1>6. CASE tree[at] = NoFile
  <2>1. \A f \in File : f # file =>
          InTree(f)' = InTree(f) /\ InVault(f)' = InVault(f) /\ fate'[f] = fate[f]
    BY <1>1, <1>2, <1>3, <1>6, ConstantsOK DEF InTree, InVault
  <2>2. \A f \in File : f # file => StateOf(f)' = StateOf(f)
    BY <2>1 DEF StateOf
  <2>3. states[file] = "unborn" /\ states' = [states EXCEPT ![file] = "live"]
    BY <1>5, <2>2, StatesChange, StateIsAbstract
  <2> QED BY <2>3 DEF Abstract!Next, Abstract!Create, Abstract!Become, states, StateOf
<1>7. CASE tree[at] # NoFile
  <2>1. PICK g \in File : g = tree[at]
    BY <1>2, <1>3, <1>7
  <2>2. g # file
    BY <1>2, <1>4, <2>1 DEF InTree
  <2>3. InTree(g) /\ ~InVault(g) /\ ~InTree(g)' /\ ~InVault(g)' /\ fate'[g] = "deleted"
    BY <1>1, <1>2, <1>3, <1>7, <2>1, <2>2, ConstantsOK
    DEF InTree, InVault, OnePlace, NothingDuplicated
  <2>4. \A f \in File : f # file /\ f # g =>
          InTree(f)' = InTree(f) /\ InVault(f)' = InVault(f) /\ fate'[f] = fate[f]
    BY <1>1, <1>2, <1>3, <2>1, ConstantsOK DEF InTree, InVault
  <2>5. StateOf(g) = "live" /\ StateOf(g)' = "deleted"
    BY <2>3 DEF StateOf
  <2>6. \A f \in File : f # file /\ f # g => StateOf(f)' = StateOf(f)
    BY <2>4 DEF StateOf
  <2>7. states' = [states EXCEPT ![g] = "deleted", ![file] = "live"]
    <3>1. states' = [f \in File |-> StateOf(f)']
      BY DEF states
    <3>2. \A f \in File : StateOf(f)' = IF f = file THEN "live"
                                        ELSE IF f = g THEN "deleted" ELSE StateOf(f)
      BY <1>5, <2>5, <2>6
    <3> QED BY <2>2, <3>1, <3>2 DEF states
  <2>8. states[g] = "live" /\ states[file] = "unborn"
    BY <1>5, <2>5, StateIsAbstract
  <2> QED BY <2>1, <2>7, <2>8 DEF Abstract!Next, Abstract!Overwrite, states, StateOf
<1> QED BY <1>6, <1>7

(* Every other step is invisible to the abstract specification. *)
LEMMA RefinesStep ==
  Typed /\ OnePlace /\ VacantSurrogate /\ [Next]_vars => [Abstract!Next]_states
<1> SUFFICES ASSUME Typed, OnePlace, VacantSurrogate, [Next]_vars
             PROVE  Abstract!Next \/ UNCHANGED states
  OBVIOUS
<1>1. CASE UNCHANGED <<tree, vault, fate>>
  <2>1. \A f \in File : StateOf(f)' = StateOf(f)
    BY <1>1 DEF StateOf, InTree, InVault
  <2> QED BY <2>1 DEF states
<1> QED
  BY <1>1, Footprint, RefinesMove, RefinesRestore, RefinesPurge, RefinesDelete, RefinesWrite

(* The quarantine implements two-phase deletion: if no rename into the quarantine
   directory finds its name taken, each step is one abstract step or none. *)
THEOREM RefinesIfVacant == Spec /\ []VacantSurrogate => DeletesSafely
<1>1. Spec => []Typed
  BY SpecTyped
<1>2. Init => OnePlace /\ Abstract!Init
  BY OnePlaceInit, RefinesInit
<1>3. Typed /\ OnePlace /\ VacantSurrogate /\ [Next]_vars => OnePlace'
  BY OnePlaceStep
<1>4. Typed /\ OnePlace /\ VacantSurrogate /\ [Next]_vars => [Abstract!Next]_states
  BY RefinesStep
<1> QED BY <1>1, <1>2, <1>3, <1>4, PTL DEF Spec, DeletesSafely, Abstract!Spec, states, StateOf

(* With one command at a time and one scan it does so unconditionally. *)
THEOREM RefinesWithOneCommand ==
  ASSUME OneCommandOneScan
  PROVE  Spec => DeletesSafely
  BY VacantWithOneCommand, RefinesIfVacant, PTL

-----------------------------------------------------------------------------
(* One instance of the application.                                        *)

(* One copy of the application works on the journal.                       *)
OneInstance == \A i, j \in Instance : i = j

(* What the journal says of every entry, and whether its surrogate lies in
   the directory.                                                          *)
status == [id \in Id |-> manifest[id].status]
filled == [id \in Id |-> vault[id] # NoFile]

(* Nothing has been done about the candidate.                              *)
Untouched(id, st, fl) == st[id] = "absent" /\ ~fl[id]

(* Its reap was confirmed, once and for all.                               *)
Acknowledged(id, st) == st[id] \in {"quarantined", "restored", "purged"}

(* the steps of a reap that has its row, those between the surrogate's
   leaving the directory and its record                                    *)
Journalled == {"verify", "rename", "confirm"}
Settling   == {"settle", "record"}

(* What a command knows of the entries it works on.                        *)
Orderly(c, st, fl) ==
  /\ c.pc \in Moving => c.id \in c.todo
  /\ c.pc \in Reaping =>
       \A id \in c.todo : (c.pc \in Journalled => id # c.id) => Untouched(id, st, fl)
  /\ c.pc \in Journalled => st[c.id] = "in_flight"
  /\ c.pc \in {"verify", "rename"} => ~fl[c.id]
  /\ c.pc \in Settling => st[c.id] = "quarantined" /\ ~fl[c.id]
  /\ c.pc = "return" => Acknowledged(c.id, st)
  /\ c.pc \in {"erase", "record"} => \A id \in c.todo : Acknowledged(id, st)

CommandsOrderly == \A w \in Worker : Orderly(cmd[w], status, filled)

(* Until the first reap there is nothing in the quarantine.                *)
BeforeReap ==
  spent["reap"] = 0 =>
    /\ \A id \in Id : Untouched(id, status, filled)
    /\ \A w \in Worker : cmd[w].pc \notin Reaping

(* One command reaps, and one has taken a given surrogate out.             *)
Apart ==
  \A v, w \in Worker : v # w =>
    /\ ~(cmd[v].pc \in Reaping /\ cmd[w].pc \in Reaping)
    /\ ~(cmd[v].pc \in Settling /\ cmd[w].pc \in Settling /\ cmd[v].id = cmd[w].id)

(* An entry without a promise has no file.                                 *)
Resting ==
  \A id \in Id : status[id] \in {"absent", "restored", "purged"} => ~filled[id]

(* The reconciliation has seen a file that was never moved, or none.       *)
Found(i, at, probe, id) ==
  phase[i] = at /\ rec[i].probe = probe
    /\ FirstOf(IF at = "flight" THEN rec[i].flight ELSE rec[i].held, id)

(* Commands run only in an instance that is up.                            *)
Still == \A i \in Instance : phase[i] # "up" => \A w \in Worker : cmd[w] = Idle

(* The reconciliation has the journal and the directory to itself.         *)
Starting ==
  \A i \in Instance : phase[i] # "up" =>
    /\ \A w \in Worker : cmd[w] = Idle
    /\ phase[i] = "flight" => \A id \in rec[i].flight : status[id] = "in_flight"
    /\ phase[i] \in {"flight", "held"} => \A id \in rec[i].held : status[id] = "quarantined"
    /\ \A id \in Id :
         Found(i, "flight", "source", id) \/ Found(i, "held", "missing", id) => ~filled[id]

Life == BeforeReap /\ CommandsOrderly /\ Apart /\ Resting /\ Starting

(* The step leaves the entry alone.                                        *)
Same(id) == status'[id] = status[id] /\ filled'[id] = filled[id]

(* What a step of worker w may do to entry x, and to no other.             *)
Lawful(w, x) ==
  /\ \A id \in Id \ {x} : Same(id)
  /\ \/ Same(x)
     \/ /\ cmd[w].pc \in Reaping
        /\ <<status[x], status'[x]>> \in {<<"absent", "in_flight">>,
               <<"in_flight", "in_flight">>, <<"in_flight", "quarantined">>}
     \/ /\ status[x] = "quarantined" /\ status'[x] = "quarantined"
        /\ filled[x]
     \/ /\ cmd[w].pc \in Settling /\ cmd[w].id = x
        /\ status[x] = "quarantined" /\ status'[x] \in {"restored", "purged"}
        /\ ~filled'[x]

(* What StatusOrder says of a step.                                        *)
LegalStep == \A id \in Id : status'[id] # status[id] => <<status[id], status'[id]>> \in Legal

-----------------------------------------------------------------------------
(* At the beginning there are no rows and no surrogates. *)
LEMMA LifeInit == Init => Life
<1> SUFFICES ASSUME Init PROVE Life
  OBVIOUS
<1>1. /\ \A id \in Id : Untouched(id, status, filled)
      /\ \A w \in Worker : cmd[w] = Idle
      /\ \A i \in Instance : phase[i] = "down"
  BY DEF Init, Untouched, status, filled, NoRow
<1>2. Idle.pc = "idle"
  BY DEF Idle, Job
<1>3. BeforeReap /\ CommandsOrderly /\ Apart
  BY <1>1, <1>2 DEF BeforeReap, CommandsOrderly, Apart, Orderly, Reaping, Moving, Journalled, Settling
<1>4. Resting
  BY <1>1 DEF Resting, Untouched
<1>5. Starting
  BY <1>1 DEF Starting, Found
<1> QED BY <1>3, <1>4, <1>5 DEF Life

(* A lawful step of one worker leaves what the others know true. *)
LEMMA OthersOrderly ==
  ASSUME Typed, Life, NEW w \in Worker, NEW v \in Worker, v # w, cmd'[v] = cmd[v],
         NEW x \in Id, Lawful(w, x)
  PROVE  Orderly(cmd'[v], status', filled')
<1> DEFINE c == cmd[v]
<1>1. c \in Command /\ cmd'[v] = c
  BY CommandOf
<1>2. c.id \in Id /\ c.todo \subseteq Id
  BY <1>1 DEF Command
<1>3. /\ Orderly(c, status, filled)
      /\ ~(c.pc \in Reaping /\ cmd[w].pc \in Reaping)
      /\ ~(c.pc \in Settling /\ cmd[w].pc \in Settling /\ c.id = cmd[w].id)
  BY DEF Life, CommandsOrderly, Apart
<1>4. Journalled \subseteq Reaping /\ Moving \subseteq Reaping /\ {"verify", "rename"} \subseteq Journalled
  BY DEF Journalled, Reaping, Moving
<1> HIDE DEF c
<1>5. ASSUME c.pc \in Reaping, NEW id \in c.todo, c.pc \in Journalled => id # c.id
      PROVE  Untouched(id, status', filled')
  <2>1. Untouched(id, status, filled) /\ id \in Id
    BY <1>2, <1>3, <1>5 DEF Orderly
  <2> QED BY <1>3, <1>5, <2>1 DEF Lawful, Same, Untouched
<1>6. c.pc \in Journalled => status'[c.id] = "in_flight"
  BY <1>2, <1>3, <1>4 DEF Lawful, Same, Orderly
<1>7. c.pc \in {"verify", "rename"} => ~filled'[c.id]
  BY <1>2, <1>3, <1>4 DEF Lawful, Same, Orderly
<1>8. c.pc \in Settling => status'[c.id] = "quarantined" /\ ~filled'[c.id]
  BY <1>2, <1>3 DEF Lawful, Same, Orderly
<1>9. ASSUME NEW id \in Id, Acknowledged(id, status)
      PROVE  Acknowledged(id, status')
  BY <1>9 DEF Lawful, Same, Acknowledged
<1>10. /\ c.pc = "return" => Acknowledged(c.id, status')
       /\ c.pc \in {"erase", "record"} => \A id \in c.todo : Acknowledged(id, status')
  BY <1>2, <1>3, <1>9 DEF Orderly
<1>11. c.pc \in Moving => c.id \in c.todo
  BY <1>3 DEF Orderly
<1> QED BY <1>1, <1>5, <1>6, <1>7, <1>8, <1>10, <1>11 DEF Orderly, Untouched, Acknowledged

(* A worker acts only while its instance is up, so no reconciliation runs. *)
LEMMA WorkerUp ==
  ASSUME Still, NEW w \in Worker, Reap(w) \/ Restore(w) \/ Purge(w)
  PROVE  phase[Home[w]] = "up" /\ UNCHANGED <<phase, rec>>
<1>1. phase[Home[w]] # "up" => cmd[w].pc = "idle"
  BY ConstantsOK DEF Still, Idle, Job
<1> USE DEF Begin, At, app
<1>2. CASE Reap(w)
  BY <1>1, <1>2 DEF Reap, StartReap, ReadIdentity, SkipItem, JournalReap, VerifyIdentity,
     MoveIntoQuarantine, MoveFails, ConfirmReap, EndReap
<1>3. CASE Restore(w)
  BY <1>1, <1>3 DEF Restore, StartRestore, StartUndo, LookupEntry, RestoreFromQuarantine, TrySuffix,
     RestoreFails, ConfirmRestore, EndRestore
<1>4. CASE Purge(w)
  BY <1>1, <1>4 DEF Purge, StartPurge, StartSweep, PurgeFromQuarantine, PurgeFails, ConfirmPurge,
     EndPurge
<1> QED BY <1>2, <1>3, <1>4

(* A lawful step of a worker that leaves its command orderly keeps the invariant. *)
LEMMA LifeByWorker ==
  ASSUME OneInstance, Typed, Life, NEW w \in Worker, Reap(w) \/ Restore(w) \/ Purge(w),
         NEW c, cmd' = [cmd EXCEPT ![w] = c], Orderly(c, status', filled'),
         NEW x \in Id, Lawful(w, x),
         spent'["reap"] = spent["reap"],
         c.pc \in Reaping => cmd[w].pc \in Reaping,
         c.pc \in Settling => c.id = x /\ filled[x]
  PROVE  Life' /\ LegalStep
<1>t. /\ cmd \in [Worker -> Command]
      /\ \A v \in Worker : v # w => cmd'[v] = cmd[v]
      /\ cmd'[w] = c
  BY DEF Typed, TypeOK
<1>1. CommandsOrderly'
  <2>1. \A v \in Worker : v # w => Orderly(cmd'[v], status', filled')
    BY <1>t, OthersOrderly
  <2>2. Orderly(cmd'[w], status', filled')
    BY <1>t DEF Orderly
  <2> QED BY <2>1, <2>2 DEF CommandsOrderly
<1>2. BeforeReap'
  <2> SUFFICES ASSUME spent["reap"] = 0
               PROVE  /\ \A id \in Id : Untouched(id, status', filled')
                      /\ \A v \in Worker : cmd'[v].pc \notin Reaping
    BY DEF BeforeReap, Untouched
  <2>1. (\A id \in Id : Untouched(id, status, filled)) /\ (\A v \in Worker : cmd[v].pc \notin Reaping)
    BY DEF Life, BeforeReap
  <2>2. \A id \in Id : Untouched(id, status', filled')
    BY <2>1 DEF Lawful, Same, Untouched
  <2> QED BY <1>t, <2>1, <2>2
<1>3. Apart'
  <2>1. ASSUME NEW v \in Worker, v # w
        PROVE  /\ ~(cmd[v].pc \in Reaping /\ c.pc \in Reaping)
               /\ ~(cmd[v].pc \in Settling /\ c.pc \in Settling /\ cmd[v].id = c.id)
    BY <2>1 DEF Life, Apart, CommandsOrderly, Orderly
  <2> QED BY <1>t, <2>1 DEF Life, Apart
<1>4. Resting'
  BY DEF Life, Resting, Lawful, Same
<1>5. Starting'
  <2>1. \A i \in Instance : phase'[i] = "up"
    BY WorkerUp, ConstantsOK DEF OneInstance, Life, Starting, Still
  <2> QED BY <2>1 DEF Starting
<1>6. LegalStep
  BY DEF LegalStep, Lawful, Same, Legal
<1> QED BY <1>1, <1>2, <1>3, <1>4, <1>5, <1>6 DEF Life

-----------------------------------------------------------------------------
(* What leaves journal and directory alone changes no entry. *)
LEMMA SameAll ==
  ASSUME UNCHANGED <<manifest, vault>>
  PROVE  UNCHANGED <<status, filled>> /\ \A id \in Id : Same(id)
  BY DEF Same, status, filled

(* A transaction of the journal changes the status of one entry. *)
LEMMA OneRow ==
  ASSUME Typed, NEW x \in Id, NEW r, r \in Row,
         manifest' = [manifest EXCEPT ![x] = r], UNCHANGED vault
  PROVE  /\ status'[x] = r.status /\ UNCHANGED filled
         /\ \A id \in Id \ {x} : status'[id] = status[id] /\ Same(id)
         /\ status[x] = r.status => Same(x)
  BY DEF Same, status, filled, Typed, TypeOK, JournalOK

(* A confirmation sets the status of a row that is there. *)
LEMMA ConfirmsOne ==
  ASSUME Typed, NEW x \in Id, NEW s \in Status, NEW op, NEW actor,
         ConfirmWithAudit(x, s, op, actor), status[x] # "absent", UNCHANGED vault
  PROVE  /\ status'[x] = s /\ UNCHANGED filled
         /\ \A id \in Id \ {x} : Same(id)
<1> DEFINE r == [manifest[x] EXCEPT !.status = s]
<1>1. manifest[x] \in Row /\ manifest \in [Id -> Row]
  BY DEF Typed, TypeOK, JournalOK
<1>2. r \in Row /\ r.status = s
  BY <1>1 DEF Row
<1>3. manifest' = [manifest EXCEPT ![x] = r]
  BY <1>1 DEF ConfirmWithAudit, status
<1> HIDE DEF r
<1> QED BY <1>2, <1>3, OneRow

(* A rename or an erasure changes one surrogate. *)
LEMMA OneSurrogate ==
  ASSUME Typed, NEW x \in Id, NEW f, vault' = [vault EXCEPT ![x] = f], UNCHANGED manifest
  PROVE  /\ filled'[x] = (f # NoFile) /\ UNCHANGED status
         /\ \A id \in Id \ {x} : Same(id)
  BY DEF Same, status, filled, Typed, TypeOK, DiskOK

(* A command between two items knows what it knew, or nothing. *)
LEMMA JobOrderly ==
  ASSUME NEW pc, NEW ask, NEW todo, NEW batch, NEW done, NEW actor, NEW st, NEW fl,
         pc \in {"idle", "pick", "lookup", "erase"},
         pc = "pick" => \A id \in todo : Untouched(id, st, fl),
         pc = "erase" => \A id \in todo : Acknowledged(id, st)
  PROVE  /\ Orderly(Job(pc, ask, todo, batch, done, actor), st, fl)
         /\ Job(pc, ask, todo, batch, done, actor).pc = pc
         /\ pc \notin Settling
  BY DEF Job, Orderly, Moving, Reaping, Journalled, Settling

(* A worker that returns claims nothing. *)
LEMMA IdleOrderly ==
  ASSUME NEW st, NEW fl
  PROVE  Orderly(Idle, st, fl) /\ Idle.pc = "idle" /\ Idle.pc \notin Settling \cup Reaping
  BY DEF Idle, Job, Orderly, Moving, Reaping, Journalled, Settling

(* Giving up or finishing a reaped candidate leaves the others untouched. *)
LEMMA NextCandidate ==
  ASSUME Typed, Life, NEW w \in Worker, cmd[w].pc \in Moving, NEW done,
         NextItem(w, "pick", done), \A id \in Id \ {cmd[w].id} : Same(id)
  PROVE  \E c : /\ cmd' = [cmd EXCEPT ![w] = c]
               /\ Orderly(c, status', filled') /\ c.pc = "pick"
<1> DEFINE c == Job("pick", cmd[w].ask, cmd[w].todo \ {cmd[w].id}, cmd[w].batch,
                    cmd[w].done \cup done, cmd[w].actor)
<1>1. cmd[w] \in Command /\ Orderly(cmd[w], status, filled)
  BY CommandOf DEF Life, CommandsOrderly
<1>2. cmd' = [cmd EXCEPT ![w] = c]
  BY DEF NextItem
<1>3. \A id \in cmd[w].todo \ {cmd[w].id} : Untouched(id, status, filled) /\ id \in Id
  BY <1>1 DEF Orderly, Moving, Reaping, Command
<1>4. \A id \in cmd[w].todo \ {cmd[w].id} : Untouched(id, status', filled')
  BY <1>3 DEF Untouched, Same
<1>5. Orderly(c, status', filled') /\ c.pc = "pick"
  BY <1>4, JobOrderly
<1> HIDE DEF c
<1> QED BY <1>2, <1>5

(* A step of a worker that changes no entry. *)
LEMMA LifeByThought ==
  ASSUME OneInstance, Typed, Life, NEW w \in Worker, Reap(w) \/ Restore(w) \/ Purge(w),
         NEW c, cmd' = [cmd EXCEPT ![w] = c], Orderly(c, status', filled'),
         UNCHANGED <<manifest, vault>>,
         spent'["reap"] = spent["reap"],
         c.pc \in Reaping => cmd[w].pc \in Reaping,
         c.pc \notin Settling
  PROVE  Life' /\ LegalStep
<1>1. 0 \in Id
  BY ConstantsOK DEF Id
<1>2. Lawful(w, 0)
  BY <1>1, SameAll DEF Lawful
<1> QED BY <1>1, <1>2, LifeByWorker

(* Only the start of a reap counts as one. *)
LEMMA OtherKind ==
  ASSUME Typed, NEW kind \in Kind \ {"reap"}, Spend(kind) \/ UNCHANGED spent
  PROVE  spent'["reap"] = spent["reap"]
  BY DEF Spend, Typed, TypeOK, Kind

-----------------------------------------------------------------------------
(* No step of reap_execute breaks the invariant, as long as it is the only one. *)
LEMMA LifeReap ==
  ASSUME OneInstance, Typed, ReapedOnce', Life, NEW w \in Worker, Reap(w)
  PROVE  Life' /\ LegalStep
<1>t. /\ cmd \in [Worker -> Command] /\ cmd[w] \in Command /\ Orderly(cmd[w], status, filled)
      /\ spent["reap"] \in Nat
  BY CommandOf DEF Typed, TypeOK, Life, CommandsOrderly, Kind
<1>i. cmd[w].id \in Id /\ cmd[w].todo \subseteq Id
  BY <1>t DEF Command
<1> USE DEF disk, journal, ghost
<1>1. CASE StartReap(w)
  <2>1. PICK ids \in SUBSET Indexed(Home[w]) : Begin(w, "pick", ids, spent["reap"] + 1, "user")
    BY <1>1 DEF StartReap
  <2> DEFINE c == Job("pick", ids, ids, spent["reap"] + 1, {}, "user")
  <2>2. ids \subseteq Id
    BY DEF Indexed
  <2>3. spent["reap"] = 0 /\ spent'["reap"] = 1
    BY <1>1, <1>t DEF StartReap, Spend, ReapedOnce, Typed, TypeOK, Kind
  <2>4. UNCHANGED <<status, filled>> /\ \A id \in Id : Same(id)
    BY <1>1, SameAll DEF StartReap
  <2>5. (\A id \in Id : Untouched(id, status, filled)) /\ (\A v \in Worker : cmd[v].pc \notin Reaping)
    BY <2>3 DEF Life, BeforeReap
  <2>6. cmd' = [cmd EXCEPT ![w] = c] /\ phase[Home[w]] = "up"
    BY <2>1 DEF Begin
  <2>7. Orderly(c, status', filled') /\ c.pc = "pick" /\ c.pc \notin Settling
    BY <2>2, <2>4, <2>5, JobOrderly DEF Untouched
  <2> HIDE DEF c
  <2>8. cmd'[w] = c /\ \A v \in Worker : v # w => cmd'[v] = cmd[v]
    BY <2>6, <1>t
  <2>9. CommandsOrderly'
    BY <2>4, <2>7, <2>8 DEF CommandsOrderly, Life
  <2>10. Apart'
    BY <2>5, <2>7, <2>8 DEF Apart, Life
  <2>11. Resting' /\ LegalStep
    BY <2>4 DEF Resting, Life, LegalStep
  <2>12. BeforeReap'
    BY <2>3 DEF BeforeReap
  <2>13. Starting'
    BY <1>1, <2>6, ConstantsOK DEF StartReap, Starting, OneInstance, app
  <2> QED BY <2>9, <2>10, <2>11, <2>12, <2>13 DEF Life
<1>2. CASE ReadIdentity(w)
  <2>1. PICK id \in cmd[w].todo : cmd' = [cmd EXCEPT ![w] = [cmd[w] EXCEPT !.pc = "insert", !.id = id,
                 !.path = index[Home[w]][id].path, !.file = index[Home[w]][id].file]]
    BY <1>2 DEF ReadIdentity
  <2> DEFINE c == [cmd[w] EXCEPT !.pc = "insert", !.id = id,
                 !.path = index[Home[w]][id].path, !.file = index[Home[w]][id].file]
  <2>2. c.pc = "insert" /\ c.id = id /\ c.todo = cmd[w].todo
    BY <1>t DEF Command
  <2> HIDE DEF c
  <2>3. UNCHANGED <<manifest, vault, spent>> /\ cmd[w].pc = "pick"
    BY <1>2 DEF ReadIdentity, At
  <2>4. Orderly(c, status, filled)
    BY <1>t, <2>2, <2>3 DEF Orderly, Moving, Reaping, Journalled, Settling
  <2>5. Orderly(c, status', filled') /\ c.pc \notin Settling /\ cmd[w].pc \in Reaping
    BY <2>2, <2>3, <2>4, SameAll DEF Settling, Reaping
  <2> QED BY <2>1, <2>3, <2>5, LifeByThought DEF c
<1>3. CASE SkipItem(w)
  <2>1. PICK id \in cmd[w].todo : cmd' = [cmd EXCEPT ![w].todo = @ \ {id}]
    BY <1>3 DEF SkipItem
  <2> DEFINE c == [cmd[w] EXCEPT !.todo = cmd[w].todo \ {id}]
  <2>3. UNCHANGED <<manifest, vault, spent>> /\ cmd[w].pc = "pick"
    BY <1>3 DEF SkipItem, At
  <2>2. c.pc = "pick" /\ c.todo \subseteq cmd[w].todo /\ cmd' = [cmd EXCEPT ![w] = c]
    BY <1>t, <2>1, <2>3 DEF Command
  <2> HIDE DEF c
  <2>4. Orderly(c, status, filled)
    BY <1>t, <2>2, <2>3 DEF Orderly, Moving, Reaping, Journalled, Settling
  <2>5. Orderly(c, status', filled') /\ c.pc \notin Settling /\ cmd[w].pc \in Reaping
    BY <2>2, <2>3, <2>4, SameAll DEF Settling, Reaping
  <2> QED BY <2>2, <2>3, <2>5, LifeByThought
<1>4. CASE JournalReap(w)
  <2>0. cmd[w].pc = "insert" /\ UNCHANGED vault
    BY <1>4 DEF JournalReap, At
  <2>1. CASE Spend("fault") /\ NextItem(w, "pick", {}) /\ UNCHANGED manifest
    <3>1. PICK c : cmd' = [cmd EXCEPT ![w] = c] /\ Orderly(c, status', filled') /\ c.pc = "pick"
      BY <2>0, <2>1, SameAll, NextCandidate DEF Moving
    <3> QED BY <2>0, <2>1, <3>1, LifeByThought, OtherKind DEF Kind, Reaping, Settling
  <2>2. CASE InsertEntry(cmd[w].id, cmd[w].path, cmd[w].batch) /\ Goto(w, "verify") /\ UNCHANGED spent
    <3> DEFINE c == [cmd[w] EXCEPT !.pc = "verify"]
               x == cmd[w].id
               r == [status |-> "in_flight", path |-> cmd[w].path, batch |-> cmd[w].batch, due |-> FALSE]
    <3>1. cmd' = [cmd EXCEPT ![w] = c] /\ c.pc = "verify" /\ c.id = x /\ c.todo = cmd[w].todo
      BY <1>t, <2>2 DEF Goto, Command
    <3>2. /\ x \in cmd[w].todo /\ Untouched(x, status, filled)
          /\ \A id \in cmd[w].todo : Untouched(id, status, filled)
      BY <1>t, <2>0 DEF Orderly, Moving, Reaping, Journalled
    <3>3. r \in Row /\ r.status = "in_flight"
      BY <1>t, <1>i DEF Row, Status, Command
    <3>4. manifest' = [manifest EXCEPT ![x] = r]
      BY <1>i, <2>2, <3>2 DEF InsertEntry, Untouched, status
    <3> HIDE DEF c, r
    <3>5. status'[x] = "in_flight" /\ UNCHANGED filled /\ \A id \in Id \ {x} : Same(id)
      BY <1>i, <2>0, <3>3, <3>4, OneRow
    <3>6. Lawful(w, x)
      BY <2>0, <3>2, <3>5 DEF Lawful, Untouched, Reaping
    <3>7. \A id \in c.todo : id # x => Untouched(id, status', filled')
      BY <1>i, <3>1, <3>2, <3>5 DEF Same, Untouched
    <3>8. Orderly(c, status', filled')
      <4>1. ~filled'[x]
        BY <3>2, <3>5 DEF Untouched
      <4>2. x \in c.todo /\ status'[x] = "in_flight"
        BY <3>1, <3>2, <3>5
      <4> HIDE DEF x
      <4> QED BY <3>1, <3>7, <4>1, <4>2 DEF Orderly, Moving, Reaping, Journalled, Settling
    <3>9. cmd[w].pc \in Reaping /\ c.pc \notin Settling
      BY <2>0, <3>1 DEF Reaping, Settling
    <3> HIDE DEF x
    <3> QED BY <1>i, <2>2, <3>1, <3>6, <3>8, <3>9, LifeByWorker DEF x
  <2> QED BY <1>4, <2>1, <2>2 DEF JournalReap
<1>5. CASE VerifyIdentity(w)
  <2>0. cmd[w].pc = "verify" /\ UNCHANGED <<manifest, vault, spent>>
    BY <1>5 DEF VerifyIdentity, At
  <2>1. CASE Goto(w, "rename")
    <3> DEFINE c == [cmd[w] EXCEPT !.pc = "rename"]
    <3>1. cmd' = [cmd EXCEPT ![w] = c] /\ c.pc = "rename" /\ c.id = cmd[w].id /\ c.todo = cmd[w].todo
      BY <1>t, <2>1 DEF Goto, Command
    <3> HIDE DEF c
    <3>2. Orderly(c, status, filled)
      BY <1>t, <2>0, <3>1 DEF Orderly, Moving, Reaping, Journalled, Settling
    <3>3. Orderly(c, status', filled') /\ c.pc \notin Settling /\ cmd[w].pc \in Reaping
      BY <2>0, <3>1, <3>2, SameAll DEF Settling, Reaping
    <3> QED BY <2>0, <3>1, <3>3, LifeByThought
  <2>2. CASE NextItem(w, "pick", {})
    <3>1. PICK c : cmd' = [cmd EXCEPT ![w] = c] /\ Orderly(c, status', filled') /\ c.pc = "pick"
      BY <2>0, <2>2, SameAll, NextCandidate DEF Moving
    <3> QED BY <2>0, <3>1, LifeByThought DEF Reaping, Settling
  <2> QED BY <1>5, <2>1, <2>2 DEF VerifyIdentity
<1>6. CASE MoveIntoQuarantine(w)
  <2> DEFINE c == [cmd[w] EXCEPT !.pc = "confirm"]
             x == cmd[w].id
  <2>0. cmd[w].pc = "rename" /\ UNCHANGED <<manifest, spent>>
    BY <1>6 DEF MoveIntoQuarantine, At
  <2>1. cmd' = [cmd EXCEPT ![w] = c] /\ c.pc = "confirm" /\ c.id = x /\ c.todo = cmd[w].todo
    BY <1>t, <1>6 DEF MoveIntoQuarantine, Goto, Command
  <2>2. /\ x \in c.todo /\ status[x] = "in_flight"
        /\ \A id \in c.todo : id # x => Untouched(id, status, filled)
    BY <1>t, <2>0, <2>1 DEF Orderly, Moving, Reaping, Journalled
  <2> HIDE DEF c
  <2>3. UNCHANGED status /\ \A id \in Id \ {x} : Same(id)
    BY <1>i, <1>6, OneSurrogate DEF MoveIntoQuarantine
  <2>4. Lawful(w, x)
    BY <2>0, <2>2, <2>3 DEF Lawful, Reaping
  <2>5. Orderly(c, status', filled')
    <3>1. \A id \in c.todo : id # x => Untouched(id, status', filled')
      BY <1>i, <2>1, <2>2, <2>3 DEF Same, Untouched
    <3> QED BY <2>1, <2>2, <2>3, <3>1 DEF Orderly, Moving, Reaping, Journalled, Settling
  <2>6. cmd[w].pc \in Reaping /\ c.pc \notin Settling
    BY <2>0, <2>1 DEF Reaping, Settling
  <2> HIDE DEF x
  <2> QED BY <1>i, <2>0, <2>1, <2>4, <2>5, <2>6, LifeByWorker DEF x
<1>7. CASE MoveFails(w)
  <2>0. cmd[w].pc = "rename" /\ UNCHANGED <<manifest, vault>> /\ NextItem(w, "pick", {})
        /\ (Spend("fault") \/ UNCHANGED spent)
    BY <1>7 DEF MoveFails, At
  <2>1. PICK c : cmd' = [cmd EXCEPT ![w] = c] /\ Orderly(c, status', filled') /\ c.pc = "pick"
    BY <2>0, SameAll, NextCandidate DEF Moving
  <2> QED BY <2>0, <2>1, LifeByThought, OtherKind DEF Kind, Reaping, Settling
<1>8. CASE ConfirmReap(w)
  <2>0. cmd[w].pc = "confirm" /\ UNCHANGED vault
    BY <1>8 DEF ConfirmReap, At
  <2>1. CASE Spend("fault") /\ NextItem(w, "pick", {}) /\ UNCHANGED journal
    <3>1. PICK c : cmd' = [cmd EXCEPT ![w] = c] /\ Orderly(c, status', filled') /\ c.pc = "pick"
      BY <2>0, <2>1, SameAll, NextCandidate DEF Moving
    <3> QED BY <2>0, <2>1, <3>1, LifeByThought, OtherKind DEF Kind, Reaping, Settling
  <2>2. CASE /\ ConfirmWithAudit(cmd[w].id, "quarantined", "reap", "user")
             /\ NextItem(w, "pick", {cmd[w].id}) /\ UNCHANGED spent
    <3> DEFINE x == cmd[w].id
    <3>1. status[x] = "in_flight"
      BY <1>t, <2>0 DEF Orderly, Journalled
    <3>2. status'[x] = "quarantined" /\ \A id \in Id \ {x} : Same(id)
      BY <1>i, <2>0, <2>2, <3>1, ConfirmsOne DEF Status
    <3>3. Lawful(w, x)
      BY <2>0, <3>1, <3>2 DEF Lawful, Reaping
    <3>4. PICK c : cmd' = [cmd EXCEPT ![w] = c] /\ Orderly(c, status', filled') /\ c.pc = "pick"
      BY <2>0, <2>2, <3>2, NextCandidate DEF Moving
    <3> HIDE DEF x
    <3> QED BY <1>i, <2>0, <2>2, <3>3, <3>4, LifeByWorker DEF Reaping, Settling, x
  <2> QED BY <1>8, <2>1, <2>2 DEF ConfirmReap
<1>9. CASE EndReap(w)
  <2>1. cmd' = [cmd EXCEPT ![w] = Idle] /\ UNCHANGED <<manifest, vault, spent>>
    BY <1>9 DEF EndReap, Return
  <2> QED BY <2>1, IdleOrderly, LifeByThought
<1> QED
  BY <1>1, <1>2, <1>3, <1>4, <1>5, <1>6, <1>7, <1>8, <1>9 DEF Reap

(* No step of a restore or an undo breaks the invariant. *)
LEMMA LifeRestore ==
  ASSUME OneInstance, Typed, Life, NEW w \in Worker, Restore(w)
  PROVE  Life' /\ LegalStep
<1>t. /\ cmd \in [Worker -> Command] /\ cmd[w] \in Command /\ Orderly(cmd[w], status, filled)
  BY CommandOf DEF Typed, TypeOK, Life, CommandsOrderly
<1>i. cmd[w].id \in Id /\ cmd[w].todo \subseteq Id
  BY <1>t DEF Command
<1>r. "lookup" \notin Reaping \cup Settling /\ "return" \notin Reaping \cup Settling
      /\ "settle" \notin Reaping
  BY DEF Reaping, Settling
<1> USE DEF disk, journal, ghost
<1>1. CASE StartRestore(w) \/ StartUndo(w)
  <2>1. PICK ids : Begin(w, "lookup", ids, 0, "user")
    BY <1>1 DEF StartRestore, StartUndo
  <2> DEFINE c == Job("lookup", ids, ids, 0, {}, "user")
  <2>2. Orderly(c, status', filled') /\ c.pc = "lookup" /\ cmd' = [cmd EXCEPT ![w] = c]
    BY <2>1, JobOrderly DEF Begin
  <2> HIDE DEF c
  <2>3. UNCHANGED <<manifest, vault, spent>>
    BY <1>1 DEF StartRestore, StartUndo
  <2> QED BY <1>r, <2>2, <2>3, LifeByThought
<1>2. ASSUME Return(w), UNCHANGED <<manifest, vault>>, spent'["reap"] = spent["reap"]
      PROVE  Life' /\ LegalStep
  <2>1. cmd' = [cmd EXCEPT ![w] = Idle]
    BY <1>2 DEF Return
  <2> QED BY <1>2, <2>1, IdleOrderly, LifeByThought
<1>3. CASE LookupEntry(w)
  <2>0. UNCHANGED <<manifest, vault, spent>>
    BY <1>3 DEF LookupEntry
  <2>1. PICK id \in cmd[w].todo :
          IF Restorable(id)
          THEN cmd' = [cmd EXCEPT ![w] = [cmd[w] EXCEPT !.pc = "return", !.id = id,
                                                        !.path = manifest[id].path]]
          ELSE Return(w)
    BY <1>3 DEF LookupEntry
  <2>2. CASE Restorable(id)
    <3> DEFINE c == [cmd[w] EXCEPT !.pc = "return", !.id = id, !.path = manifest[id].path]
    <3>1. cmd' = [cmd EXCEPT ![w] = c] /\ c.pc = "return" /\ c.id = id /\ id \in Id
      BY <1>t, <1>i, <2>1, <2>2 DEF Command
    <3> HIDE DEF c
    <3>2. Orderly(c, status', filled')
      BY <2>0, <2>2, <3>1, SameAll DEF Orderly, Restorable, Acknowledged, status, Moving, Reaping,
         Journalled, Settling
    <3> QED BY <1>r, <2>0, <3>1, <3>2, LifeByThought
  <2> QED BY <1>2, <2>0, <2>1, <2>2
<1>4. CASE RestoreFromQuarantine(w)
  <2> DEFINE c == [cmd[w] EXCEPT !.pc = "settle"]
             x == cmd[w].id
  <2>0. cmd[w].pc = "return" /\ UNCHANGED <<manifest, spent>>
    BY <1>4 DEF RestoreFromQuarantine, At
  <2>1. cmd' = [cmd EXCEPT ![w] = c] /\ c.pc = "settle" /\ c.id = x
    BY <1>t, <1>4 DEF RestoreFromQuarantine, Goto, Command
  <2> HIDE DEF c
  <2>2. filled[x] /\ status[x] = "quarantined"
    <3>1. filled[x]
      BY <1>i, <1>4 DEF RestoreFromQuarantine, filled
    <3> QED BY <1>t, <1>i, <2>0, <3>1 DEF Orderly, Acknowledged, Life, Resting
  <2>3. UNCHANGED status /\ ~filled'[x] /\ \A id \in Id \ {x} : Same(id)
    BY <1>i, <1>4, OneSurrogate DEF RestoreFromQuarantine
  <2>4. Lawful(w, x)
    BY <2>2, <2>3 DEF Lawful
  <2>5. Orderly(c, status', filled')
    BY <2>1, <2>2, <2>3 DEF Orderly, Moving, Reaping, Journalled, Settling
  <2> HIDE DEF x
  <2> QED BY <1>i, <1>r, <2>0, <2>1, <2>2, <2>4, <2>5, LifeByWorker DEF x
<1>5. CASE TrySuffix(w)
  <2>0. UNCHANGED <<manifest, vault, spent>> /\ cmd[w].pc = "return"
    BY <1>5 DEF TrySuffix, At
  <2>1. CASE cmd' = [cmd EXCEPT ![w].attempt = NextSuffix(@)]
    <3> DEFINE c == [cmd[w] EXCEPT !.attempt = NextSuffix(cmd[w].attempt)]
    <3>1. cmd' = [cmd EXCEPT ![w] = c] /\ c.pc = "return" /\ c.id = cmd[w].id
      BY <1>t, <2>0, <2>1 DEF Command
    <3> HIDE DEF c
    <3>2. Orderly(c, status', filled')
      BY <1>t, <2>0, <3>1, SameAll DEF Orderly, Moving, Reaping, Journalled, Settling
    <3> QED BY <1>r, <2>0, <3>1, <3>2, LifeByThought
  <2> QED BY <1>2, <1>5, <2>0, <2>1 DEF TrySuffix
<1>6. CASE RestoreFails(w)
  BY <1>2, <1>6, OtherKind DEF RestoreFails, Kind
<1>7. CASE ConfirmRestore(w)
  <2>0. cmd[w].pc = "settle" /\ UNCHANGED vault
    BY <1>7 DEF ConfirmRestore, At
  <2>1. CASE /\ ConfirmWithAudit(cmd[w].id, "restored", "restore", "user")
             /\ NextItem(w, "lookup", {}) /\ UNCHANGED spent
    <3> DEFINE x == cmd[w].id
               c == Job("lookup", cmd[w].ask, cmd[w].todo \ {cmd[w].id}, cmd[w].batch,
                        cmd[w].done \cup {}, cmd[w].actor)
    <3>1. status[x] = "quarantined" /\ ~filled[x]
      BY <1>t, <2>0 DEF Orderly, Settling
    <3>2. status'[x] = "restored" /\ UNCHANGED filled /\ \A id \in Id \ {x} : Same(id)
      BY <1>i, <2>0, <2>1, <3>1, ConfirmsOne DEF Status
    <3>3. Lawful(w, x)
      BY <2>0, <3>1, <3>2 DEF Lawful, Settling
    <3>4. cmd' = [cmd EXCEPT ![w] = c] /\ Orderly(c, status', filled') /\ c.pc = "lookup"
      BY <2>1, JobOrderly DEF NextItem
    <3> HIDE DEF x, c
    <3> QED BY <1>i, <1>r, <2>1, <3>3, <3>4, LifeByWorker DEF x
  <2> QED BY <1>2, <1>7, <2>0, <2>1, OtherKind DEF ConfirmRestore, Kind
<1>8. CASE EndRestore(w)
  BY <1>2, <1>8 DEF EndRestore
<1> QED BY <1>1, <1>3, <1>4, <1>5, <1>6, <1>7, <1>8 DEF Restore

(* No step of a purge or a sweep breaks the invariant. *)
LEMMA LifePurge ==
  ASSUME OneInstance, Typed, Life, NEW w \in Worker, Purge(w)
  PROVE  Life' /\ LegalStep
<1>t. /\ cmd \in [Worker -> Command] /\ cmd[w] \in Command /\ Orderly(cmd[w], status, filled)
  BY CommandOf DEF Typed, TypeOK, Life, CommandsOrderly
<1>i. cmd[w].id \in Id /\ cmd[w].todo \subseteq Id
  BY <1>t DEF Command
<1>r. "erase" \notin Reaping \cup Settling /\ "record" \notin Reaping
  BY DEF Reaping, Settling
<1> USE DEF disk, journal, ghost
<1>1. CASE StartPurge(w) \/ StartSweep(w)
  <2>1. PICK ids \in SUBSET In("quarantined"), actor \in {"user", "sweeper"} :
          Begin(w, "erase", ids, 0, actor)
    BY <1>1 DEF StartPurge, StartSweep, In
  <2> DEFINE c == Job("erase", ids, ids, 0, {}, actor)
  <2>2. UNCHANGED <<manifest, vault, spent>>
    BY <1>1 DEF StartPurge, StartSweep
  <2>3. \A id \in ids : Acknowledged(id, status')
    BY <2>2, SameAll DEF In, Acknowledged, status
  <2>4. Orderly(c, status', filled') /\ c.pc = "erase" /\ cmd' = [cmd EXCEPT ![w] = c]
    BY <2>1, <2>3, JobOrderly DEF Begin
  <2> HIDE DEF c
  <2> QED BY <1>r, <2>2, <2>4, LifeByThought
<1>2. ASSUME Return(w), UNCHANGED <<manifest, vault>>, spent'["reap"] = spent["reap"]
      PROVE  Life' /\ LegalStep
  <2>1. cmd' = [cmd EXCEPT ![w] = Idle]
    BY <1>2 DEF Return
  <2> QED BY <1>2, <2>1, IdleOrderly, LifeByThought
<1>3. CASE PurgeFromQuarantine(w)
  <2>0. cmd[w].pc = "erase" /\ UNCHANGED <<manifest, spent>>
    BY <1>3 DEF PurgeFromQuarantine, At
  <2>1. PICK x \in Id : /\ NextTarget(w, x) /\ Erasable(x)
                       /\ vault' = [vault EXCEPT ![x] = NoFile]
                       /\ cmd' = [cmd EXCEPT ![w] = [cmd[w] EXCEPT !.pc = "record", !.id = x]]
    BY <1>3 DEF PurgeFromQuarantine
  <2> DEFINE c == [cmd[w] EXCEPT !.pc = "record", !.id = x]
  <2>2. cmd' = [cmd EXCEPT ![w] = c] /\ c.pc = "record" /\ c.id = x /\ c.todo = cmd[w].todo
    BY <1>t, <2>1 DEF Command
  <2> HIDE DEF c
  <2>3. filled[x] /\ status[x] = "quarantined"
    <3>1. filled[x] /\ x \in cmd[w].todo
      BY <2>1 DEF Erasable, NextTarget, filled
    <3> QED BY <1>t, <2>0, <3>1 DEF Orderly, Acknowledged, Life, Resting
  <2>4. UNCHANGED status /\ ~filled'[x] /\ \A id \in Id \ {x} : Same(id)
    BY <2>0, <2>1, OneSurrogate
  <2>5. Lawful(w, x)
    BY <2>3, <2>4 DEF Lawful
  <2>6. Orderly(c, status', filled')
    <3>1. \A id \in c.todo : Acknowledged(id, status')
      BY <1>t, <2>0, <2>2, <2>4 DEF Orderly
    <3> QED BY <2>2, <2>3, <2>4, <3>1 DEF Orderly, Moving, Reaping, Journalled, Settling
  <2> QED BY <1>r, <2>0, <2>2, <2>3, <2>5, <2>6, LifeByWorker
<1>4. CASE PurgeFails(w)
  BY <1>2, <1>4, OtherKind DEF PurgeFails, Kind
<1>5. CASE ConfirmPurge(w)
  <2>0. cmd[w].pc = "record" /\ UNCHANGED vault
    BY <1>5 DEF ConfirmPurge, At
  <2>1. ASSUME NEW op, ConfirmWithAudit(cmd[w].id, "purged", op, cmd[w].actor),
               NextItem(w, "erase", {}), UNCHANGED spent
        PROVE  Life' /\ LegalStep
    <3> DEFINE x == cmd[w].id
               c == Job("erase", cmd[w].ask, cmd[w].todo \ {cmd[w].id}, cmd[w].batch,
                        cmd[w].done \cup {}, cmd[w].actor)
    <3>1. status[x] = "quarantined" /\ ~filled[x]
      BY <1>t, <2>0 DEF Orderly, Settling
    <3>2. status'[x] = "purged" /\ UNCHANGED filled /\ \A id \in Id \ {x} : Same(id)
      BY <1>i, <2>0, <2>1, <3>1, ConfirmsOne DEF Status
    <3>3. Lawful(w, x)
      BY <2>0, <3>1, <3>2 DEF Lawful, Settling
    <3>4. \A id \in cmd[w].todo \ {x} : Acknowledged(id, status')
      BY <1>t, <1>i, <2>0, <3>2 DEF Orderly, Acknowledged, Same
    <3>5. cmd' = [cmd EXCEPT ![w] = c] /\ Orderly(c, status', filled') /\ c.pc = "erase"
      BY <2>1, <3>4, JobOrderly DEF NextItem
    <3> HIDE DEF x, c
    <3> QED BY <1>i, <1>r, <2>1, <3>3, <3>5, LifeByWorker DEF x
  <2> QED BY <1>2, <1>5, <2>0, <2>1, OtherKind DEF ConfirmPurge, Kind
<1>6. CASE EndPurge(w)
  BY <1>2, <1>6 DEF EndPurge
<1> QED BY <1>1, <1>3, <1>4, <1>5, <1>6 DEF Purge

-----------------------------------------------------------------------------
(* No step of the reconciliation breaks the invariant: it resolves what is in
   flight and what is quarantined, and nobody else is at work. *)
LEMMA LifeReconcile ==
  ASSUME OneInstance, Typed, Life, NEW i \in Instance, Launch(i) \/ Reconcile(i)
  PROVE  Life' /\ LegalStep
<1>t. /\ phase \in [Instance -> {"down", "flight", "held", "up"}]
      /\ rec \in [Instance -> Recovery] /\ rec[i] \in Recovery
      /\ \A j \in Instance : j = i
      /\ spent["reap"] \in Nat /\ spent \in [Kind -> Nat]
  BY DEF Typed, TypeOK, AppOK, OneInstance, Kind
<1>0. UNCHANGED <<cmd, vault>> /\ phase[i] # "up" /\ spent'["reap"] = spent["reap"]
  <2>1. CASE RecoveryFails(i)
    BY <2>1, OtherKind DEF RecoveryFails, disk, Kind
  <2>2. CASE ~RecoveryFails(i)
    BY <2>2 DEF Launch, Reconcile, ProbeInFlight, ResolveInFlight, ProbeHeld, ResolveHeld,
       RecoveryStep, disk
  <2> QED BY <2>1, <2>2
<1>1. \A w \in Worker : cmd[w] = Idle
  BY <1>0 DEF Life, Starting
<1>2. CommandsOrderly' /\ Apart'
  BY <1>0, <1>1, IdleOrderly DEF CommandsOrderly, Apart
<1>3. ASSUME UNCHANGED manifest
      PROVE  BeforeReap' /\ Resting' /\ LegalStep /\ UNCHANGED <<status, filled>>
  <2>1. UNCHANGED <<status, filled>>
    BY <1>0, <1>3, SameAll
  <2> QED BY <1>0, <2>1 DEF BeforeReap, Resting, LegalStep, Life
<1>4. CASE Launch(i)
  <2>1. Starting'
    BY <1>0, <1>1, <1>t, <1>4, <1>3 DEF Launch, Starting, Found, In, status, journal
  <2> QED BY <1>2, <1>3, <1>4, <2>1 DEF Launch, Life, journal
<1>5. CASE ProbeInFlight(i)
  <2>0. UNCHANGED manifest /\ phase' = phase /\ phase[i] = "flight"
    BY <1>5 DEF ProbeInFlight, journal
  <2>1. /\ rec'[i].flight = rec[i].flight /\ rec'[i].held = rec[i].held
        /\ rec'[i].probe = "source" => \A id \in Id : FirstOf(rec[i].flight, id) => ~filled[id]
    <3>1. PICK id \in Id :
            /\ FirstOf(rec[i].flight, id)
            /\ LET source == mounted /\ tree[<<rec[i].rows[id].path, 0>>] # NoFile
                   moved  == mounted /\ vault[id] # NoFile
               IN rec' = [rec EXCEPT ![i].probe =
                            IF source /\ moved THEN "both"
                            ELSE IF source THEN "source"
                            ELSE IF moved THEN "vault" ELSE "missing"]
      BY <1>5 DEF ProbeInFlight
    <3>2. rec'[i].flight = rec[i].flight /\ rec'[i].held = rec[i].held
      BY <1>t, <3>1 DEF Recovery
    <3>3. rec'[i].probe = "source" => ~filled[id]
      BY <1>t, <3>1 DEF Recovery, filled
    <3>4. \A other \in Id : FirstOf(rec[i].flight, other) => other = id
      BY <3>1 DEF FirstOf, Id
    <3> QED BY <3>2, <3>3, <3>4
  <2>2. Starting'
    BY <1>0, <1>1, <1>t, <1>3, <2>0, <2>1 DEF Starting, Found, Life
  <2> QED BY <1>2, <1>3, <2>0, <2>2 DEF Life
<1>6. CASE ResolveInFlight(i)
  <2>0. phase' = phase /\ phase[i] = "flight"
    BY <1>6 DEF ResolveInFlight
  <2>1. PICK id \in Id :
          /\ FirstOf(rec[i].flight, id)
          /\ IF rec[i].probe = "source" THEN RollBack(id) ELSE CompleteReap(id)
          /\ rec' = [rec EXCEPT ![i].flight = @ \ {id}, ![i].probe = "none"]
    BY <1>6 DEF ResolveInFlight
  <2>2. /\ rec'[i].flight = rec[i].flight \ {id} /\ rec'[i].held = rec[i].held
        /\ rec'[i].probe = "none"
    BY <1>t, <2>1 DEF Recovery
  <2>3. status[id] = "in_flight"
    BY <1>0, <2>0, <2>1 DEF Life, Starting, FirstOf
  <2>4. /\ UNCHANGED filled /\ \A other \in Id \ {id} : Same(other)
        /\ \/ status'[id] = "quarantined"
           \/ status'[id] = "absent" /\ ~filled[id]
    <3>1. CASE rec[i].probe = "source"
      <4>1. ~filled[id]
        BY <1>0, <2>0, <2>1, <3>1 DEF Life, Starting, Found
      <4>2. NoRow \in Row /\ NoRow.status = "absent"
        BY DEF NoRow, Row, Status
      <4> QED BY <1>0, <2>1, <3>1, <4>1, <4>2, OneRow DEF RollBack, RemoveEntry
    <3>2. CASE rec[i].probe # "source"
      BY <1>0, <2>1, <2>3, <3>2, ConfirmsOne DEF CompleteReap, Status
    <3> QED BY <3>1, <3>2
  <2>5. Starting'
    <3>1. \A other \in rec'[i].flight : status'[other] = "in_flight"
      BY <1>0, <1>t, <2>0, <2>2, <2>4 DEF Life, Starting, Same, Recovery
    <3>2. \A other \in rec'[i].held : status'[other] = "quarantined"
      BY <1>0, <1>t, <2>0, <2>2, <2>3, <2>4 DEF Life, Starting, Same, Recovery
    <3> QED BY <1>0, <1>1, <1>t, <2>0, <2>2, <3>1, <3>2 DEF Starting, Found
  <2>6. Resting' /\ LegalStep
    BY <2>3, <2>4 DEF Life, Resting, LegalStep, Legal, Same
  <2>7. BeforeReap'
    BY <1>0, <2>3 DEF Life, BeforeReap, Untouched
  <2> QED BY <1>2, <2>5, <2>6, <2>7 DEF Life
<1>7. CASE ProbeHeld(i)
  <2>0. UNCHANGED manifest /\ phase' = phase /\ phase[i] = "held"
    BY <1>7 DEF ProbeHeld, journal
  <2>1. PICK id \in Id :
          /\ FirstOf(rec[i].held, id)
          /\ rec' = [rec EXCEPT ![i].probe = IF Vanished(id) THEN "missing" ELSE "present"]
    BY <1>7 DEF ProbeHeld
  <2>2. /\ rec'[i].held = rec[i].held
        /\ rec'[i].probe = "missing" => ~filled[id]
    BY <1>t, <2>1 DEF Recovery, Vanished, filled
  <2>3. \A other \in Id : FirstOf(rec[i].held, other) => other = id
    BY <2>1 DEF FirstOf, Id
  <2>4. Starting'
    BY <1>0, <1>1, <1>t, <1>3, <2>0, <2>2, <2>3 DEF Starting, Found, Life
  <2> QED BY <1>2, <1>3, <2>0, <2>4 DEF Life
<1>8. CASE ResolveHeld(i)
  <2>0. phase' = phase /\ phase[i] = "held"
    BY <1>8 DEF ResolveHeld
  <2>1. PICK id \in Id :
          /\ FirstOf(rec[i].held, id)
          /\ IF rec[i].probe = "missing" THEN CompletePurge(id) ELSE UNCHANGED journal
          /\ rec' = [rec EXCEPT ![i].held = @ \ {id}, ![i].probe = "none"]
    BY <1>8 DEF ResolveHeld
  <2>2. rec'[i].held = rec[i].held \ {id} /\ rec'[i].probe = "none"
    BY <1>t, <2>1 DEF Recovery
  <2>3. status[id] = "quarantined"
    BY <1>0, <2>0, <2>1 DEF Life, Starting, FirstOf
  <2>4. /\ UNCHANGED filled /\ \A other \in Id \ {id} : Same(other)
        /\ \/ status'[id] = "quarantined"
           \/ status'[id] = "purged" /\ ~filled[id]
    <3>1. CASE rec[i].probe = "missing"
      <4>1. ~filled[id]
        BY <1>0, <2>0, <2>1, <3>1 DEF Life, Starting, Found
      <4> QED BY <1>0, <2>1, <2>3, <3>1, <4>1, ConfirmsOne DEF CompletePurge, Status
    <3>2. CASE rec[i].probe # "missing"
      BY <1>0, <2>1, <2>3, <3>2, SameAll DEF journal
    <3> QED BY <3>1, <3>2
  <2>5. Starting'
    <3>1. \A other \in rec'[i].held : status'[other] = "quarantined"
      BY <1>0, <1>t, <2>0, <2>2, <2>4 DEF Life, Starting, Same, Recovery
    <3> QED BY <1>0, <1>1, <1>t, <2>0, <2>2, <3>1 DEF Starting, Found
  <2>6. Resting' /\ LegalStep
    BY <2>3, <2>4 DEF Life, Resting, LegalStep, Legal, Same
  <2>7. BeforeReap'
    BY <1>0, <2>3 DEF Life, BeforeReap, Untouched
  <2> QED BY <1>2, <2>5, <2>6, <2>7 DEF Life
<1>9. CASE RecoveryStep(i) \/ RecoveryFails(i)
  <2>1. UNCHANGED manifest
    BY <1>9 DEF RecoveryStep, RecoveryFails, journal
  <2>2. \/ phase'[i] = "up"
        \/ phase[i] = "flight" /\ phase'[i] = "held" /\ rec' = rec /\ rec[i].probe = "none"
    BY <1>9, <1>t DEF RecoveryStep, RecoveryFails
  <2>3. Starting'
    BY <1>0, <1>1, <1>t, <1>3, <2>1, <2>2 DEF Starting, Found, Life
  <2> QED BY <1>2, <1>3, <2>1, <2>3 DEF Life
<1> QED BY <1>4, <1>5, <1>6, <1>7, <1>8, <1>9 DEF Reconcile

(* Scans, crashes and the world outside change no entry. *)
LEMMA ElsewhereSame ==
  ASSUME Typed, (\E i \in Instance : Scan(i) \/ Crash(i)) \/ World \/ UNCHANGED vars
  PROVE  UNCHANGED <<status, filled>>
<1>1. ASSUME NEW id \in Id, TtlPasses(id)
      PROVE  UNCHANGED <<status, filled>>
  <2>1. manifest' = [manifest EXCEPT ![id].due = TRUE] /\ UNCHANGED vault
    BY <1>1 DEF TtlPasses, disk
  <2>2. \A other \in Id : manifest'[other].status = manifest[other].status
    BY <2>1 DEF Typed, TypeOK, JournalOK, Row
  <2> QED BY <2>1, <2>2 DEF status, filled
<1>2. UNCHANGED <<manifest, vault>> \/ \E id \in Id : TtlPasses(id)
  BY DEF World, UserDeletes, UserWrites, Unplug, Plug, Scan, Crash, vars, disk, journal
<1> QED BY <1>1, <1>2, SameAll

(* What a crash of the only instance leaves of commands and phases.        *)
Stopped ==
  /\ \A w \in Worker : cmd'[w] = Idle
  /\ \A i \in Instance : phase'[i] = "down"

(* They touch commands and instances only by stopping the one there is. *)
LEMMA ElsewhereStopped ==
  ASSUME OneInstance, Typed, (\E i \in Instance : Scan(i) \/ Crash(i)) \/ World \/ UNCHANGED vars
  PROVE  UNCHANGED <<cmd, phase, rec>> \/ Stopped
<1>1. ASSUME NEW i \in Instance, Crash(i)
      PROVE  Stopped
  BY <1>1, ConstantsOK DEF Crash, Stopped, OneInstance, Typed, TypeOK, AppOK
<1>2. UNCHANGED <<cmd, phase, rec>> \/ \E i \in Instance : Crash(i)
  BY DEF World, UserDeletes, UserWrites, Unplug, Plug, TtlPasses, Scan, vars, app
<1> QED BY <1>1, <1>2

(* So they keep the invariant. *)
LEMMA LifeElsewhere ==
  ASSUME OneInstance, Typed, Life,
         (\E i \in Instance : Scan(i) \/ Crash(i)) \/ World \/ UNCHANGED vars
  PROVE  Life' /\ LegalStep
<1>1. UNCHANGED <<status, filled>>
  BY ElsewhereSame
<1>2. spent'["reap"] = spent["reap"]
  BY OtherKind DEF World, UserDeletes, UserWrites, Unplug, Plug, TtlPasses, Scan, Crash, vars, Kind
<1>3. Resting' /\ LegalStep
  BY <1>1 DEF Life, Resting, LegalStep
<1>4. CASE UNCHANGED <<cmd, phase, rec>>
  BY <1>1, <1>2, <1>3, <1>4 DEF Life, BeforeReap, CommandsOrderly, Apart, Starting, Found
<1>5. CASE Stopped
  <2>1. CommandsOrderly' /\ Apart' /\ \A w \in Worker : cmd'[w].pc \notin Reaping
    BY <1>5, IdleOrderly DEF Stopped, CommandsOrderly, Apart
  <2>2. Starting'
    BY <1>5 DEF Stopped, Starting, Found
  <2> QED BY <1>1, <1>2, <1>3, <2>1, <2>2 DEF Life, BeforeReap
<1> QED BY <1>4, <1>5, ElsewhereStopped

(* Only the start of a reap counts as one. *)
LEMMA SpendsReap ==
  ASSUME Typed, [Next]_vars, spent'["reap"] # spent["reap"]
  PROVE  \E w \in Worker : StartReap(w)
<1>0. \A kind \in Kind : Spend(kind) => kind = "reap"
  BY OtherKind
<1>1. ASSUME NEW w \in Worker, Reap(w), ~StartReap(w)
      PROVE  FALSE
  BY <1>0, <1>1 DEF Reap, ReadIdentity, SkipItem, JournalReap, VerifyIdentity, MoveIntoQuarantine,
     MoveFails, ConfirmReap, EndReap, Kind
<1>2. ASSUME NEW w \in Worker, Restore(w)
      PROVE  FALSE
  BY <1>0, <1>2 DEF Restore, StartRestore, StartUndo, LookupEntry, RestoreFromQuarantine, TrySuffix,
     RestoreFails, ConfirmRestore, EndRestore, Kind
<1>3. ASSUME NEW w \in Worker, Purge(w)
      PROVE  FALSE
  BY <1>0, <1>3 DEF Purge, StartPurge, StartSweep, PurgeFromQuarantine, PurgeFails, ConfirmPurge,
     EndPurge, Kind
<1>4. ASSUME NEW i \in Instance, Launch(i) \/ Reconcile(i) \/ Scan(i) \/ Crash(i)
      PROVE  FALSE
  BY <1>0, <1>4 DEF Launch, Reconcile, ProbeInFlight, ResolveInFlight, ProbeHeld, ResolveHeld,
     RecoveryStep, RecoveryFails, Scan, Crash, Kind
<1>5. ~World /\ ~UNCHANGED vars
  BY <1>0 DEF World, UserDeletes, UserWrites, Unplug, Plug, TtlPasses, vars, Kind
<1> QED BY <1>1, <1>2, <1>3, <1>4, <1>5 DEF Next

(* Reaps are counted and not taken back. *)
LEMMA ReapsCount ==
  ASSUME Typed, [Next]_vars, ReapedOnce'
  PROVE  ReapedOnce
<1>t. spent \in [Kind -> Nat] /\ "reap" \in Kind
  BY DEF Typed, TypeOK, Kind
<1>1. CASE \E w \in Worker : StartReap(w)
  BY <1>t, <1>1 DEF StartReap, Spend, ReapedOnce
<1>2. CASE spent'["reap"] = spent["reap"]
  BY <1>2 DEF ReapedOnce
<1> QED BY <1>1, <1>2, SpendsReap

(* Every step keeps the invariant, as long as one reap has been started. *)
LEMMA LifeStep ==
  ASSUME OneInstance, Typed, [Next]_vars, Life, ReapedOnce'
  PROVE  Life' /\ LegalStep
  BY LifeReap, LifeRestore, LifePurge, LifeReconcile, LifeElsewhere DEF Next

(* The step that starts a second reap changes no entry. *)
LEMMA ReapStartsQuietly ==
  ASSUME Typed, [Next]_vars, ReapedOnce, ~ReapedOnce'
  PROVE  LegalStep
<1>t. spent \in [Kind -> Nat]
  BY DEF Typed, TypeOK
<1>1. \E w \in Worker : StartReap(w)
  BY SpendsReap DEF ReapedOnce
<1>2. UNCHANGED <<manifest, vault>>
  BY <1>1 DEF StartReap, disk, journal
<1> QED BY <1>2, SameAll DEF LegalStep

(* As long as one reap has been started, the invariant holds. *)
THEOREM LifeHolds ==
  ASSUME OneInstance
  PROVE  Spec => [](ReapedOnce => Life)
<1>1. Init => Life
  BY LifeInit
<1>2. Typed /\ (ReapedOnce => Life) /\ [Next]_vars => (ReapedOnce => Life)'
  BY OneInstance, ReapsCount, LifeStep
<1> QED BY <1>1, <1>2, SpecTyped, PTL DEF Spec

(* Whatever lies in the quarantine directory has a row that promises it. *)
THEOREM NoOrphanEver ==
  ASSUME OneInstance
  PROVE  Spec => []NoOrphans
<1>1. Typed /\ (ReapedOnce => Life) => NoOrphans
  <2> SUFFICES ASSUME Typed, Life, NEW id \in Id, vault[id] # NoFile
               PROVE  manifest[id].status \in {"in_flight", "quarantined"}
    BY DEF NoOrphans
  <2>1. manifest[id].status \in Status
    BY DEF Typed, TypeOK, JournalOK, Row
  <2> QED BY <2>1 DEF Life, Resting, status, filled, Status
<1> QED BY <1>1, OneInstance, LifeHolds, SpecTyped, PTL

(* An entry is reaped, then restored or purged, once and for all, and only one
   whose move never happened is forgotten. *)
THEOREM EntriesInOrder ==
  ASSUME OneInstance
  PROVE  Spec => StatusOrder
<1> DEFINE InOrder == \A id \in Id : LET was == manifest[id].status
                                      is  == manifest'[id].status
                                  IN ReapedOnce /\ was # is => <<was, is>> \in Legal
<1>1. Typed /\ (ReapedOnce => Life) /\ [Next]_vars => InOrder
  <2> SUFFICES ASSUME Typed, ReapedOnce, Life, [Next]_vars PROVE InOrder
    OBVIOUS
  <2>1. LegalStep
    BY OneInstance, LifeStep, ReapStartsQuietly
  <2> QED BY <2>1 DEF LegalStep, status
<1>2. Typed /\ (ReapedOnce => Life) /\ [Next]_vars => [InOrder]_vars
  BY <1>1
<1>3. Spec => [][InOrder]_vars
  BY <1>2, OneInstance, LifeHolds, SpecTyped, PTL DEF Spec
<1> QED BY <1>3 DEF StatusOrder

(* The name of a file about to be moved is free, so that nothing is lost or
   duplicated, however restores, undos, purges and sweeps overlap with the reap. *)
LEMMA VacantWithOneReap ==
  ASSUME OneInstance
  PROVE  Spec /\ []ReapedOnce => []VacantSurrogate
<1>1. Typed /\ Life => VacantSurrogate
  BY CommandOf DEF Life, CommandsOrderly, Orderly, VacantSurrogate, At, filled, Command
<1> QED BY <1>1, OneInstance, LifeHolds, SpecTyped, PTL

(* With one reap in the life of the journal no content disappears unless the
   user or a purge removed it, whatever else runs at the same time. *)
THEOREM NothingLostWithOneReap ==
  ASSUME OneInstance
  PROVE  Spec /\ []ReapedOnce => []NothingLost
  BY VacantWithOneReap, NothingLostIfVacant, PTL

(* Nor does a restore or an interrupted move leave a second copy behind. *)
THEOREM NothingDuplicatedWithOneReap ==
  ASSUME OneInstance
  PROVE  Spec /\ []ReapedOnce => []NothingDuplicated
  BY VacantWithOneReap, NothingDuplicatedIfVacant, PTL

(* And every step of the quarantine is then a step of a safe deletion, or none. *)
THEOREM RefinesWithOneReap ==
  ASSUME OneInstance
  PROVE  Spec /\ []ReapedOnce => DeletesSafely
  BY VacantWithOneReap, RefinesIfVacant, PTL

-----------------------------------------------------------------------------
(* The rest of the module needs no bound on reaps. What a reconciliation has
   looked at is in order; what it has not is on its lists.                 *)
Unplugged == spent["unplug"] > 0

Here(id) == filled[id] \/ Unplugged

Cleaning ==
  /\ Still
  /\ mounted \/ Unplugged
  /\ \A i \in Instance : phase[i] \in {"flight", "held"} =>
       /\ \A id \in Id : status[id] = "in_flight" => phase[i] = "flight" /\ id \in rec[i].flight
       /\ \A id \in Id \ rec[i].held : status[id] = "quarantined" => Here(id)
       /\ \A id \in Id :
            \/ phase[i] = "flight" /\ FirstOf(rec[i].flight, id) /\ rec[i].probe = "vault"
            \/ phase[i] = "held" /\ FirstOf(rec[i].held, id) /\ rec[i].probe \notin {"none", "missing"}
            => Here(id)

(* At the beginning no reconciliation runs. *)
LEMMA CleaningInit == Init => Cleaning
  BY DEF Init, Cleaning, Still

(* The volume that was once out of reach is remembered. *)
LEMMA UnpluggedStays ==
  ASSUME Typed, [Next]_vars
  PROVE  Unplugged => Unplugged'
<1>t. spent \in [Kind -> Nat] /\ spent' \in [Kind -> Nat] /\ "unplug" \in Kind
  BY TypedStep DEF Typed, TypeOK, Kind
<1>1. ASSUME NEW kind \in Kind, Spend(kind)
      PROVE  spent["unplug"] <= spent'["unplug"]
  BY <1>1, <1>t DEF Spend
<1>2. spent["unplug"] <= spent'["unplug"]
  BY <1>t, <1>1, SpendingStep
<1> QED BY <1>t, <1>2 DEF Unplugged

(* A reconciliation that runs leaves the journal and the directory in order
   behind it. *)
LEMMA CleaningReconcile ==
  ASSUME OneInstance, Typed, Cleaning, [Next]_vars,
         NEW i \in Instance, Launch(i) \/ Reconcile(i)
  PROVE  Cleaning'
<1>t. /\ phase \in [Instance -> {"down", "flight", "held", "up"}]
      /\ rec \in [Instance -> Recovery] /\ rec[i] \in Recovery
      /\ \A j \in Instance : j = i
  BY DEF Typed, TypeOK, AppOK, OneInstance
<1>0. UNCHANGED <<cmd, vault, mounted>> /\ phase[i] # "up"
  BY DEF Launch, Reconcile, ProbeInFlight, ResolveInFlight, ProbeHeld, ResolveHeld,
     RecoveryStep, RecoveryFails, disk
<1>1. Still'
  BY <1>0, <1>t DEF Cleaning, Still
<1>2. mounted' \/ Unplugged'
  BY <1>0, UnpluggedStays DEF Cleaning
<1>3. /\ UNCHANGED filled
      /\ \A id \in Id : Here(id) => Here(id)'
  BY <1>0, UnpluggedStays DEF Here, filled
<1> DEFINE Clean == phase'[i] \in {"flight", "held"} =>
       /\ \A id \in Id : status'[id] = "in_flight" => phase'[i] = "flight" /\ id \in rec'[i].flight
       /\ \A id \in Id \ rec'[i].held : status'[id] = "quarantined" => Here(id)'
       /\ \A id \in Id :
            \/ phase'[i] = "flight" /\ FirstOf(rec'[i].flight, id) /\ rec'[i].probe = "vault"
            \/ phase'[i] = "held" /\ FirstOf(rec'[i].held, id) /\ rec'[i].probe \notin {"none", "missing"}
            => Here(id)'
<1>4. SUFFICES Clean
  BY <1>1, <1>2, <1>t DEF Cleaning
<1>5. UNCHANGED manifest => UNCHANGED status
  BY DEF status
<1>6. phase[i] \in {"flight", "held"} =>
        /\ \A id \in Id : status[id] = "in_flight" => phase[i] = "flight" /\ id \in rec[i].flight
        /\ \A id \in Id \ rec[i].held : status[id] = "quarantined" => Here(id)
  BY DEF Cleaning
<1>7. CASE Launch(i)
  <2>1. rec'[i].flight = In("in_flight") /\ rec'[i].held = In("quarantined") /\ rec'[i].probe = "none"
        /\ UNCHANGED status /\ phase'[i] = "flight"
    BY <1>t, <1>7, <1>5 DEF Launch, journal
  <2> QED BY <2>1 DEF In, status
<1>8. CASE ProbeInFlight(i)
  <2>0. UNCHANGED status /\ phase' = phase /\ phase[i] = "flight"
    BY <1>5, <1>8 DEF ProbeInFlight, journal
  <2>1. PICK id \in Id :
          /\ FirstOf(rec[i].flight, id)
          /\ LET source == mounted /\ tree[<<rec[i].rows[id].path, 0>>] # NoFile
                 moved  == mounted /\ vault[id] # NoFile
             IN rec' = [rec EXCEPT ![i].probe =
                          IF source /\ moved THEN "both"
                          ELSE IF source THEN "source"
                          ELSE IF moved THEN "vault" ELSE "missing"]
    BY <1>8 DEF ProbeInFlight
  <2>2. rec'[i].flight = rec[i].flight /\ rec'[i].held = rec[i].held
    BY <1>t, <2>1 DEF Recovery
  <2>3. rec'[i].probe = "vault" => Here(id)'
    BY <1>t, <1>0, <2>1 DEF Recovery, filled, Here
  <2>4. \A other \in Id : FirstOf(rec[i].flight, other) => other = id
    BY <2>1 DEF FirstOf, Id
  <2> QED BY <1>3, <1>6, <2>0, <2>2, <2>3, <2>4
<1>9. CASE ResolveInFlight(i)
  <2>0. phase' = phase /\ phase[i] = "flight" /\ rec[i].probe \in {"source", "vault"}
    BY <1>9 DEF ResolveInFlight
  <2>1. PICK id \in Id :
          /\ FirstOf(rec[i].flight, id)
          /\ IF rec[i].probe = "source" THEN RollBack(id) ELSE CompleteReap(id)
          /\ rec' = [rec EXCEPT ![i].flight = @ \ {id}, ![i].probe = "none"]
    BY <1>9 DEF ResolveInFlight
  <2>2. /\ rec'[i].flight = rec[i].flight \ {id} /\ rec'[i].held = rec[i].held
        /\ rec'[i].probe = "none"
    BY <1>t, <2>1 DEF Recovery
  <2>3. /\ \A other \in Id \ {id} : status'[other] = status[other]
        /\ status'[id] # "in_flight"
        /\ status'[id] = "quarantined" => rec[i].probe = "vault"
    <3>1. CASE rec[i].probe = "source"
      <4>1. NoRow \in Row /\ NoRow.status = "absent"
        BY DEF NoRow, Row, Status
      <4> QED BY <1>0, <2>1, <3>1, <4>1, OneRow DEF RollBack, RemoveEntry
    <3>2. CASE rec[i].probe = "vault" /\ status[id] = "absent"
      BY <1>5, <2>1, <3>2 DEF CompleteReap, ConfirmWithAudit, status
    <3>3. CASE rec[i].probe = "vault" /\ status[id] # "absent"
      BY <1>0, <2>1, <3>3, ConfirmsOne DEF CompleteReap, Status, Same
    <3> QED BY <2>0, <3>1, <3>2, <3>3
  <2>4. rec[i].probe = "vault" => Here(id)'
    BY <1>3, <2>0, <2>1 DEF Cleaning
  <2> QED BY <1>3, <1>6, <2>0, <2>2, <2>3, <2>4
<1>10. CASE ProbeHeld(i)
  <2>0. UNCHANGED status /\ phase' = phase /\ phase[i] = "held"
    BY <1>5, <1>10 DEF ProbeHeld, journal
  <2>1. PICK id \in Id :
          /\ FirstOf(rec[i].held, id)
          /\ rec' = [rec EXCEPT ![i].probe = IF Vanished(id) THEN "missing" ELSE "present"]
    BY <1>10 DEF ProbeHeld
  <2>2. /\ rec'[i].held = rec[i].held
        /\ rec'[i].probe # "missing" => ~Vanished(id)
    BY <1>t, <2>1 DEF Recovery
  <2>3. ~Vanished(id) => Here(id)
    BY DEF Vanished, Here, filled, Cleaning
  <2>4. \A other \in Id : FirstOf(rec[i].held, other) => other = id
    BY <2>1 DEF FirstOf, Id
  <2> QED BY <1>3, <1>6, <2>0, <2>2, <2>3, <2>4
<1>11. CASE ResolveHeld(i)
  <2>0. phase' = phase /\ phase[i] = "held" /\ rec[i].probe # "none"
    BY <1>11 DEF ResolveHeld
  <2>1. PICK id \in Id :
          /\ FirstOf(rec[i].held, id)
          /\ IF rec[i].probe = "missing" THEN CompletePurge(id) ELSE UNCHANGED journal
          /\ rec' = [rec EXCEPT ![i].held = @ \ {id}, ![i].probe = "none"]
    BY <1>11 DEF ResolveHeld
  <2>2. rec'[i].held = rec[i].held \ {id} /\ rec'[i].probe = "none"
    BY <1>t, <2>1 DEF Recovery
  <2>3. /\ \A other \in Id \ {id} : status'[other] = status[other]
        /\ status'[id] = "in_flight" => status[id] = "in_flight"
        /\ status'[id] = "quarantined" => rec[i].probe # "missing"
    <3>1. CASE rec[i].probe = "missing" /\ status[id] = "absent"
      BY <1>5, <2>1, <3>1 DEF CompletePurge, ConfirmWithAudit, status
    <3>2. CASE rec[i].probe = "missing" /\ status[id] # "absent"
      BY <1>0, <2>1, <3>2, ConfirmsOne DEF CompletePurge, Status, Same
    <3>3. CASE rec[i].probe # "missing"
      BY <1>5, <2>1, <3>3 DEF journal
    <3> QED BY <3>1, <3>2, <3>3
  <2>4. rec[i].probe # "missing" => Here(id)'
    BY <1>3, <2>0, <2>1 DEF Cleaning
  <2> QED BY <1>3, <1>6, <2>0, <2>2, <2>3, <2>4
<1>12. CASE RecoveryStep(i) \/ RecoveryFails(i)
  <2>1. UNCHANGED status
    BY <1>5, <1>12 DEF RecoveryStep, RecoveryFails, journal
  <2>2. \/ phase'[i] = "up"
        \/ /\ phase[i] = "flight" /\ phase'[i] = "held" /\ rec' = rec
           /\ rec[i].probe = "none" /\ rec[i].flight = {}
    BY <1>12, <1>t DEF RecoveryStep, RecoveryFails
  <2> QED BY <1>3, <1>6, <2>1, <2>2
<1> QED BY <1>7, <1>8, <1>9, <1>10, <1>11, <1>12 DEF Reconcile

(* Every step keeps the order. *)
LEMMA CleaningStep ==
  ASSUME OneInstance, Typed, Cleaning, [Next]_vars
  PROVE  Cleaning'
<1>1. ASSUME NEW w \in Worker, Reap(w) \/ Restore(w) \/ Purge(w)
      PROVE  Cleaning'
  <2>1. \A i \in Instance : phase'[i] = "up"
    BY <1>1, WorkerUp, ConstantsOK DEF OneInstance, Cleaning
  <2>2. UNCHANGED mounted
    <3> USE DEF disk
    <3>1. CASE Reap(w)
      BY <3>1 DEF Reap, StartReap, ReadIdentity, SkipItem, JournalReap, VerifyIdentity,
         MoveIntoQuarantine, MoveFails, ConfirmReap, EndReap
    <3>2. CASE Restore(w)
      BY <3>2 DEF Restore, StartRestore, StartUndo, LookupEntry, RestoreFromQuarantine, TrySuffix,
         RestoreFails, ConfirmRestore, EndRestore
    <3>3. CASE Purge(w)
      BY <3>3 DEF Purge, StartPurge, StartSweep, PurgeFromQuarantine, PurgeFails, ConfirmPurge,
         EndPurge
    <3> QED BY <1>1, <3>1, <3>2, <3>3
  <2> QED BY <2>1, <2>2, UnpluggedStays DEF Cleaning, Still
<1>2. CASE (\E i \in Instance : Scan(i) \/ Crash(i)) \/ World \/ UNCHANGED vars
  <2>1. UNCHANGED <<status, filled>>
    BY <1>2, ElsewhereSame
  <2>2. UNCHANGED <<cmd, phase, rec>> \/ Stopped
    BY <1>2, ElsewhereStopped
  <2>3. mounted' \/ Unplugged'
    <3>1. CASE Unplug
      BY <3>1 DEF Unplug, Spend, Unplugged, Typed, TypeOK, Kind
    <3>2. CASE ~Unplug
      BY <1>2, <3>2, UnpluggedStays DEF Cleaning, World, UserDeletes, UserWrites, Plug, TtlPasses,
         Scan, Crash, vars, disk
    <3> QED BY <3>1, <3>2
  <2>4. \A id \in Id : Here(id) => Here(id)'
    BY <2>1, UnpluggedStays DEF Here
  <2>5. CASE UNCHANGED <<cmd, phase, rec>>
    BY <2>1, <2>3, <2>4, <2>5 DEF Cleaning, Still
  <2>6. CASE Stopped
    BY <2>3, <2>6 DEF Stopped, Cleaning, Still
  <2> QED BY <2>2, <2>5, <2>6
<1> QED BY <1>1, <1>2, CleaningReconcile DEF Next

(* Only the reconciliation brings an instance up, by a step that changes no entry. *)
LEMMA ComingUp ==
  ASSUME OneInstance, Typed, Still, [Next]_vars, NEW i \in Instance, phase[i] # "up", phase'[i] = "up"
  PROVE  UNCHANGED <<manifest, vault>>
<1>t. phase \in [Instance -> {"down", "flight", "held", "up"}]
  BY DEF Typed, TypeOK, AppOK
<1>1. \A w \in Worker : ~(Reap(w) \/ Restore(w) \/ Purge(w))
  BY WorkerUp
<1>2. ~((\E j \in Instance : Scan(j) \/ Crash(j)) \/ World \/ UNCHANGED vars)
  BY ElsewhereStopped DEF Stopped
<1>3. PICK j \in Instance : Launch(j) \/ Reconcile(j)
  BY <1>1, <1>2 DEF Next
<1>4. RecoveryStep(j) \/ RecoveryFails(j)
  BY <1>3, <1>t DEF Launch, Reconcile, ProbeInFlight, ResolveInFlight, ProbeHeld, ResolveHeld
<1> QED BY <1>4 DEF RecoveryStep, RecoveryFails, disk, journal

(* When a reconciliation comes to its end no reap is left in flight, and no row
   promises a file that is not there, unless the volume was out of reach. *)
THEOREM CleanAfterRestart ==
  ASSUME OneInstance
  PROVE  Spec => RestartIsClean
<1> DEFINE CleanRestart ==
      \A i \in Instance :
        phase[i] = "held" /\ phase'[i] = "up" /\ rec[i].held = {} =>
          \A id \in Id :
            /\ manifest'[id].status # "in_flight"
            /\ manifest'[id].status = "quarantined" /\ spent["unplug"] = 0 => vault'[id] # NoFile
<1>1. Typed /\ Cleaning /\ [Next]_vars => CleanRestart
  <2> SUFFICES ASSUME Typed, Cleaning, [Next]_vars, NEW i \in Instance,
                      phase[i] = "held", phase'[i] = "up", rec[i].held = {}, NEW id \in Id
               PROVE  /\ manifest'[id].status # "in_flight"
                      /\ manifest'[id].status = "quarantined" /\ spent["unplug"] = 0 => vault'[id] # NoFile
    OBVIOUS
  <2>1. UNCHANGED <<manifest, vault>>
    BY OneInstance, ComingUp DEF Cleaning
  <2>2. status[id] # "in_flight" /\ (status[id] = "quarantined" => Here(id))
    BY DEF Cleaning
  <2>3. manifest'[id].status = status[id] /\ (vault'[id] # NoFile <=> filled[id])
    BY <2>1 DEF status, filled
  <2>4. spent["unplug"] = 0 => ~Unplugged
    BY DEF Unplugged
  <2> QED BY <2>2, <2>3, <2>4 DEF Here
<1>2. Init => Cleaning
  BY CleaningInit
<1>3. Typed /\ Cleaning /\ [Next]_vars => Cleaning'
  BY OneInstance, CleaningStep
<1>4. Typed /\ Cleaning /\ [Next]_vars => [CleanRestart]_vars
  BY <1>1
<1>5. Spec => [][CleanRestart]_vars
  BY <1>2, <1>3, <1>4, SpecTyped, PTL DEF Spec
<1> QED BY <1>5 DEF RestartIsClean
-----------------------------------------------------------------------------
(***************************************************************************)
(* What becomes of the files of one instance of the application, with any  *)
(* number of commands at once.                                             *)
(*   - A destruction is accounted for (DestructionAccounted), and a row    *)
(*     says purged only of a file that is gone (PurgedIsDestroyed), from   *)
(*     the invariant Fate.                                                 *)
(*   - What a reap reports is on record with its path and the batch first  *)
(*     reported for it (ReapsOnRecord), from the invariant Undoable; the   *)
(*     reaps may be many, of one candidate too, one at a time.             *)
(*   - Once all commands have ended, journal and directory agree           *)
(*     (SettlesDown), from the invariant Calm.                             *)
(***************************************************************************)
-----------------------------------------------------------------------------
(* Who does what: each change of an entry belongs to a few actions.        *)

(* Only the rename into the directory changes which content was moved there. *)
LEMMA CargoChange ==
  ASSUME [Next]_vars
  PROVE  cargo' = cargo \/ \E w \in Worker : MoveIntoQuarantine(w)
<1> USE DEF ghost
<1>1. ASSUME NEW w \in Worker, Reap(w)
      PROVE  cargo' = cargo \/ MoveIntoQuarantine(w)
  BY <1>1 DEF Reap, StartReap, ReadIdentity, SkipItem, JournalReap, VerifyIdentity,
     MoveFails, ConfirmReap, EndReap
<1>2. ASSUME NEW w \in Worker, Restore(w)
      PROVE  cargo' = cargo
  BY <1>2 DEF Restore, StartRestore, StartUndo, LookupEntry, RestoreFromQuarantine, TrySuffix,
     RestoreFails, ConfirmRestore, EndRestore
<1>3. ASSUME NEW w \in Worker, Purge(w)
      PROVE  cargo' = cargo
  BY <1>3 DEF Purge, StartPurge, StartSweep, PurgeFromQuarantine, PurgeFails, ConfirmPurge, EndPurge
<1>4. ASSUME NEW i \in Instance, Launch(i) \/ Reconcile(i) \/ Scan(i) \/ Crash(i)
      PROVE  cargo' = cargo
  BY <1>4 DEF Launch, Reconcile, ProbeInFlight, ResolveInFlight, ProbeHeld, ResolveHeld,
     RecoveryStep, RecoveryFails, Scan, Crash
<1>5. CASE World
  BY <1>5 DEF World, UserDeletes, UserWrites, Unplug, Plug, TtlPasses
<1>6. CASE UNCHANGED vars
  BY <1>6 DEF vars
<1> QED BY <1>1, <1>2, <1>3, <1>4, <1>5, <1>6 DEF Next

(* Only the rename into the directory fills a surrogate name, and only that of
   an entry in flight. *)
LEMMA FilledByMove ==
  ASSUME Typed, Life, [Next]_vars, NEW id \in Id, (filled'[id] /\ ~filled[id]) \/ cargo'[id] # cargo[id]
  PROVE  status[id] = "in_flight" /\ cargo'[id] = vault'[id]
<1>t. vault \in [Id -> File \cup {NoFile}] /\ cargo \in [Id -> File \cup {NoFile}]
  BY DEF Typed, TypeOK, DiskOK, GhostOK
<1>1. PICK w \in Worker : MoveIntoQuarantine(w)
  <2>1. CASE cargo'[id] # cargo[id]
    BY <2>1, CargoChange
  <2>2. CASE filled'[id] /\ ~filled[id]
    <3>1. vault'[id] # NoFile /\ vault[id] = NoFile
      BY <2>2 DEF filled
    <3>2. ASSUME NEW w \in Worker, RestoreFromQuarantine(w) \/ PurgeFromQuarantine(w)
          PROVE  FALSE
      BY <1>t, <3>1, <3>2 DEF RestoreFromQuarantine, PurgeFromQuarantine
    <3> QED BY <3>1, <3>2, Footprint DEF UserDeletes, UserWrites
  <2> QED BY <2>1, <2>2
<1>2. cmd[w] \in Command /\ Orderly(cmd[w], status, filled) /\ cmd[w].pc = "rename"
  BY <1>1, CommandOf DEF Life, CommandsOrderly, MoveIntoQuarantine, At
<1>3. /\ vault' = [vault EXCEPT ![cmd[w].id] = tree[<<cmd[w].path, 0>>]]
      /\ cargo' = [cargo EXCEPT ![cmd[w].id] = tree[<<cmd[w].path, 0>>]]
  BY <1>1 DEF MoveIntoQuarantine
<1>4. id = cmd[w].id
  BY <1>3, <1>t DEF filled
<1> QED BY <1>2, <1>3, <1>4, <1>t DEF Orderly, Journalled

(* What lies under a surrogate name is what was last moved there.          *)
Carried == \A id \in Id : filled[id] => vault[id] = cargo[id]

(* Renames out of the directory and erasures only empty surrogate names. *)
LEMMA CarriedStep ==
  ASSUME Typed, Life, Carried, [Next]_vars
  PROVE  Carried'
<1> SUFFICES ASSUME NEW id \in Id, filled'[id] PROVE vault'[id] = cargo'[id]
  BY DEF Carried
<1>t. vault \in [Id -> File \cup {NoFile}]
  BY DEF Typed, TypeOK, DiskOK
<1>1. CASE ~filled[id] \/ cargo'[id] # cargo[id]
  BY <1>1, FilledByMove
<1>2. CASE filled[id] /\ cargo'[id] = cargo[id]
  <2>1. vault[id] = cargo[id] /\ vault'[id] # NoFile
    BY <1>2 DEF Carried, filled
  <2>2. ASSUME NEW w \in Worker, MoveIntoQuarantine(w)
        PROVE  vault'[id] = cargo'[id]
    BY <1>t, <1>2, <2>1, <2>2 DEF MoveIntoQuarantine, Typed, TypeOK, GhostOK
  <2>3. ASSUME NEW w \in Worker, RestoreFromQuarantine(w) \/ PurgeFromQuarantine(w)
        PROVE  vault'[id] = vault[id]
    BY <1>t, <2>1, <2>3 DEF RestoreFromQuarantine, PurgeFromQuarantine
  <2> QED BY <1>2, <2>1, <2>2, <2>3, Footprint DEF UserDeletes, UserWrites
<1> QED BY <1>1, <1>2

(* Only these steps touch the journal. *)
LEMMA JournalChange ==
  ASSUME [Next]_vars
  PROVE  \/ UNCHANGED <<manifest, audit>>
         \/ \E w \in Worker : JournalReap(w) \/ ConfirmReap(w) \/ ConfirmRestore(w) \/ ConfirmPurge(w)
         \/ \E i \in Instance : ResolveInFlight(i) \/ ResolveHeld(i)
         \/ \E id \in Id : TtlPasses(id)
<1> USE DEF journal
<1>1. ASSUME NEW w \in Worker, Reap(w)
      PROVE  UNCHANGED <<manifest, audit>> \/ JournalReap(w) \/ ConfirmReap(w)
  BY <1>1 DEF Reap, StartReap, ReadIdentity, SkipItem, VerifyIdentity, MoveIntoQuarantine,
     MoveFails, EndReap
<1>2. ASSUME NEW w \in Worker, Restore(w)
      PROVE  UNCHANGED <<manifest, audit>> \/ ConfirmRestore(w)
  BY <1>2 DEF Restore, StartRestore, StartUndo, LookupEntry, RestoreFromQuarantine, TrySuffix,
     RestoreFails, EndRestore
<1>3. ASSUME NEW w \in Worker, Purge(w)
      PROVE  UNCHANGED <<manifest, audit>> \/ ConfirmPurge(w)
  BY <1>3 DEF Purge, StartPurge, StartSweep, PurgeFromQuarantine, PurgeFails, EndPurge
<1>4. ASSUME NEW i \in Instance, Launch(i) \/ Reconcile(i) \/ Scan(i) \/ Crash(i)
      PROVE  UNCHANGED <<manifest, audit>> \/ ResolveInFlight(i) \/ ResolveHeld(i)
  BY <1>4 DEF Launch, Reconcile, ProbeInFlight, ProbeHeld, RecoveryStep, RecoveryFails, Scan, Crash
<1>5. CASE World
  BY <1>5 DEF World, UserDeletes, UserWrites, Unplug, Plug
<1>6. CASE UNCHANGED vars
  BY <1>6 DEF vars
<1> QED BY <1>1, <1>2, <1>3, <1>4, <1>5, <1>6 DEF Next

(* The history of destructive events is never rewritten. *)
LEMMA AuditGrows ==
  ASSUME [Next]_vars
  PROVE  audit \subseteq audit'
<1> USE DEF ConfirmWithAudit, RemoveEntry
<1>1. ASSUME NEW w \in Worker, JournalReap(w) \/ ConfirmReap(w) \/ ConfirmRestore(w) \/ ConfirmPurge(w)
      PROVE  audit \subseteq audit'
  BY <1>1 DEF JournalReap, ConfirmReap, ConfirmRestore, ConfirmPurge, journal
<1>2. ASSUME NEW i \in Instance, ResolveInFlight(i) \/ ResolveHeld(i)
      PROVE  audit \subseteq audit'
  BY <1>2 DEF ResolveInFlight, ResolveHeld, RollBack, CompleteReap, CompletePurge, journal
<1> QED BY <1>1, <1>2, JournalChange DEF TtlPasses

PurgeOps == {"purge_manual", "purge_ttl"}

(* The audit has a purge of the entry.                                     *)
LoggedIn(id, log) == \E e \in log : e.id = id /\ e.op \in PurgeOps

(* A quarantined entry leaves that status because its restore was recorded, or
   because its purge was, by the command that erased it or at a restart. *)
LEMMA LeavesQuarantine ==
  ASSUME Typed, Life, [Next]_vars, NEW id \in Id, status[id] = "quarantined", status'[id] # "quarantined"
  PROVE  \/ status'[id] = "restored" /\ \E w \in Worker : At(w, "settle") /\ cmd[w].id = id
         \/ /\ status'[id] = "purged" /\ LoggedIn(id, audit')
            /\ (\E w \in Worker : At(w, "record") /\ cmd[w].id = id) \/ \E i \in Instance : phase[i] = "held"
<1>t. manifest \in [Id -> Row]
  BY DEF Typed, TypeOK, JournalOK
<1>0. manifest[id].status = "quarantined" /\ manifest'[id].status # "quarantined"
  BY DEF status
<1>1. ASSUME NEW x \in Id, NEW s, NEW op, NEW actor, ConfirmWithAudit(x, s, op, actor)
      PROVE  id = x /\ manifest'[id].status = s /\ [id |-> id, op |-> op, actor |-> actor] \in audit'
  BY <1>t, <1>0, <1>1 DEF ConfirmWithAudit, Row
<1>2. ASSUME NEW w \in Worker, JournalReap(w)
      PROVE  FALSE
  BY <1>t, <1>0, <1>2, CommandOf DEF JournalReap, InsertEntry, Command
<1>3. ASSUME NEW w \in Worker, ConfirmReap(w)
      PROVE  FALSE
  <2>1. cmd[w].id \in Id
    BY CommandOf DEF Command
  <2> QED BY <1>0, <1>1, <1>3, <2>1 DEF ConfirmReap, journal
<1>4. ASSUME NEW w \in Worker, ConfirmRestore(w)
      PROVE  status'[id] = "restored" /\ At(w, "settle") /\ cmd[w].id = id
  <2>1. cmd[w].id \in Id
    BY CommandOf DEF Command
  <2> QED BY <1>0, <1>1, <1>4, <2>1 DEF ConfirmRestore, journal, status
<1>5. ASSUME NEW w \in Worker, ConfirmPurge(w)
      PROVE  status'[id] = "purged" /\ LoggedIn(id, audit') /\ At(w, "record") /\ cmd[w].id = id
  <2>1. cmd[w].id \in Id
    BY CommandOf DEF Command
  <2> DEFINE op == IF cmd[w].actor = "user" THEN "purge_manual" ELSE "purge_ttl"
             e  == [id |-> id, op |-> op, actor |-> cmd[w].actor]
  <2>2. ConfirmWithAudit(cmd[w].id, "purged", op, cmd[w].actor)
    BY <1>0, <1>5 DEF ConfirmPurge, journal
  <2>3. id = cmd[w].id /\ manifest'[id].status = "purged" /\ e \in audit'
    BY <1>1, <2>1, <2>2
  <2>4. e.id = id /\ e.op \in PurgeOps
    BY DEF PurgeOps
  <2> QED BY <1>5, <2>3, <2>4 DEF ConfirmPurge, status, LoggedIn
<1>6. ASSUME NEW i \in Instance, ResolveInFlight(i)
      PROVE  FALSE
  <2>1. PICK x \in Id :
          /\ FirstOf(rec[i].flight, x)
          /\ IF rec[i].probe = "source" THEN RollBack(x) ELSE CompleteReap(x)
    BY <1>6 DEF ResolveInFlight
  <2>2. status[x] = "in_flight"
    BY <1>6, <2>1 DEF Life, Starting, ResolveInFlight, FirstOf
  <2>3. x # id
    BY <2>2
  <2>4. CASE RollBack(x)
    BY <1>t, <1>0, <2>3, <2>4 DEF RollBack, RemoveEntry
  <2>5. CASE CompleteReap(x)
    BY <1>1, <2>3, <2>5 DEF CompleteReap
  <2> QED BY <2>1, <2>4, <2>5
<1>7. ASSUME NEW i \in Instance, ResolveHeld(i)
      PROVE  status'[id] = "purged" /\ LoggedIn(id, audit') /\ phase[i] = "held"
  <2>1. PICK x \in Id : CompletePurge(x) \/ UNCHANGED journal
    BY <1>7 DEF ResolveHeld
  <2>2. CompletePurge(x)
    BY <1>0, <2>1 DEF journal
  <2> DEFINE e == [id |-> id, op |-> "purge_manual", actor |-> "recovery"]
  <2>3. id = x /\ manifest'[id].status = "purged" /\ e \in audit'
    BY <1>1, <2>2 DEF CompletePurge
  <2>4. e.id = id /\ e.op \in PurgeOps
    BY DEF PurgeOps
  <2> QED BY <1>7, <2>3, <2>4 DEF ResolveHeld, status, LoggedIn
<1>8. ASSUME NEW x \in Id, TtlPasses(x)
      PROVE  FALSE
  BY <1>t, <1>0, <1>8 DEF TtlPasses, Row
<1> QED BY <1>0, <1>2, <1>3, <1>4, <1>5, <1>6, <1>7, <1>8, JournalChange

(* A worker comes to record a restore, or a purge, by having taken the file out
   of the directory. *)
LEMMA TakenOut ==
  ASSUME Typed, Life, Carried, [Next]_vars, NEW w \in Worker,
         cmd'[w].pc \in Settling, cmd'[w] # cmd[w]
  PROVE  /\ filled[cmd'[w].id]
         /\ cmd'[w].pc = "record" => vault[cmd'[w].id] \in File /\ fate'[vault[cmd'[w].id]] = "purged"
<1>t. /\ cmd \in [Worker -> Command] /\ cmd[w] \in Command
      /\ vault \in [Id -> File \cup {NoFile}]
      /\ fate \in [File -> {"unborn", "alive", "deleted", "purged"}]
  BY DEF Typed, TypeOK, DiskOK, GhostOK
<1> USE DEF Goto, NextItem, Return, Begin, Job, Idle, Settling
<1>1. ~Reap(w)
  <2> SUFFICES ASSUME Reap(w) PROVE FALSE
    OBVIOUS
  <2>1. ~StartReap(w)
    BY <1>t DEF StartReap
  <2>2. ASSUME ReadIdentity(w)
        PROVE  FALSE
    <3>1. PICK id : cmd' = [cmd EXCEPT ![w] = [cmd[w] EXCEPT !.pc = "insert", !.id = id,
                 !.path = index[Home[w]][id].path, !.file = index[Home[w]][id].file]]
      BY <2>2 DEF ReadIdentity
    <3> DEFINE c == [cmd[w] EXCEPT !.pc = "insert", !.id = id,
                 !.path = index[Home[w]][id].path, !.file = index[Home[w]][id].file]
    <3>2. c.pc = "insert"
      BY <1>t DEF Command
    <3>3. cmd'[w] = c
      BY <1>t, <3>1
    <3> HIDE DEF c
    <3> QED BY <3>2, <3>3
  <2>3. ~SkipItem(w)
    BY <1>t DEF SkipItem, Command, At
  <2>4. ~JournalReap(w) /\ ~VerifyIdentity(w)
    BY <1>t DEF JournalReap, VerifyIdentity, Command
  <2>5. ~MoveIntoQuarantine(w)
    BY <1>t DEF MoveIntoQuarantine, Command
  <2>6. ~MoveFails(w) /\ ~ConfirmReap(w) /\ ~EndReap(w)
    BY <1>t DEF MoveFails, ConfirmReap, EndReap
  <2> QED BY <2>1, <2>2, <2>3, <2>4, <2>5, <2>6 DEF Reap
<1>2. ASSUME Restore(w)
      PROVE  filled[cmd'[w].id] /\ cmd'[w].pc = "settle"
  <2>1. ~StartRestore(w) /\ ~StartUndo(w)
    BY <1>t DEF StartRestore, StartUndo
  <2>2. ~LookupEntry(w)
    <3>1. ASSUME NEW id, cmd' = [cmd EXCEPT ![w] = [cmd[w] EXCEPT !.pc = "return", !.id = id,
                                                                 !.path = manifest[id].path]]
          PROVE  FALSE
      <4>1. cmd'[w] = [cmd[w] EXCEPT !.pc = "return", !.id = id, !.path = manifest[id].path]
        BY <1>t, <3>1
      <4>2. cmd'[w].pc = "return"
        BY <1>t, <4>1 DEF Command
      <4> QED BY <4>2
    <3>2. ~Return(w)
      BY <1>t
    <3> HIDE DEF Return
    <3> QED BY <3>1, <3>2 DEF LookupEntry
  <2>3. ~TrySuffix(w)
    BY <1>t DEF TrySuffix, Command, At
  <2>4. ~RestoreFails(w) /\ ~ConfirmRestore(w) /\ ~EndRestore(w)
    BY <1>t DEF RestoreFails, ConfirmRestore, EndRestore
  <2>5. RestoreFromQuarantine(w)
    BY <1>2, <2>1, <2>2, <2>3, <2>4 DEF Restore
  <2> QED BY <1>t, <2>5 DEF RestoreFromQuarantine, Command, filled
<1>3. ASSUME Purge(w)
      PROVE  filled[cmd'[w].id] /\ vault[cmd'[w].id] \in File /\ fate'[vault[cmd'[w].id]] = "purged"
  <2>1. ~StartPurge(w) /\ ~StartSweep(w)
    BY <1>t DEF StartPurge, StartSweep
  <2>2. ~PurgeFails(w) /\ ~ConfirmPurge(w) /\ ~EndPurge(w)
    BY <1>t DEF PurgeFails, ConfirmPurge, EndPurge
  <2>3. PurgeFromQuarantine(w)
    BY <1>3, <2>1, <2>2 DEF Purge
  <2>4. PICK id \in Id : /\ vault[id] # NoFile /\ fate' = [fate EXCEPT ![vault[id]] = "purged"]
                         /\ cmd' = [cmd EXCEPT ![w] = [cmd[w] EXCEPT !.pc = "record", !.id = id]]
    BY <2>3 DEF PurgeFromQuarantine, Erasable
  <2>5. cmd'[w].id = id
    BY <1>t, <2>4 DEF Command
  <2> QED BY <1>t, <2>4, <2>5 DEF filled
<1> QED BY <1>1, <1>2, <1>3, WorkerStep

-----------------------------------------------------------------------------
(* The next start of the application will log the entry as purged: its file
   is gone, and nobody is about to record a restore of it.                 *)
Doomed(id) ==
  /\ status[id] = "quarantined" /\ ~filled[id]
  /\ \A w \in Worker : ~(At(w, "settle") /\ cmd[w].id = id)

(* The journal says that it was purged.                                    *)
Logged(id) == status[id] = "purged" /\ LoggedIn(id, audit)

(* Every content that a purge erased is the cargo of such an entry.        *)
Accounted ==
  \A f \in File : fate[f] = "purged" => \E id \in Id : cargo[id] = f /\ (Doomed(id) \/ Logged(id))

(* An entry that accounts for a destruction goes on doing so, by itself until
   its command or the next start has logged it. *)
LEMMA StaysAccounted ==
  ASSUME Typed, Life, Carried, LegalStep, [Next]_vars, NEW id \in Id, Doomed(id) \/ Logged(id)
  PROVE  cargo'[id] = cargo[id] /\ (Doomed(id)' \/ Logged(id)')
<1>1. cargo'[id] = cargo[id] /\ (filled'[id] => filled[id])
  BY FilledByMove DEF Doomed, Logged
<1>2. CASE Logged(id)
  <2>1. status'[id] = "purged"
    BY <1>2 DEF Logged, LegalStep, Legal
  <2>2. LoggedIn(id, audit')
    BY <1>2, AuditGrows DEF Logged, LoggedIn
  <2> QED BY <1>1, <2>1, <2>2 DEF Logged, LoggedIn
<1>3. CASE Doomed(id) /\ status'[id] # "quarantined"
  <2>1. status'[id] = "purged" /\ LoggedIn(id, audit')
    BY <1>3, LeavesQuarantine DEF Doomed
  <2> QED BY <1>1, <2>1 DEF Logged, LoggedIn
<1>4. CASE Doomed(id) /\ status'[id] = "quarantined"
  <2>1. ASSUME NEW w \in Worker, At(w, "settle")', cmd'[w].id = id
        PROVE  FALSE
    <3>1. cmd'[w] # cmd[w]
      BY <1>4, <2>1 DEF Doomed, At
    <3> QED BY <1>4, <2>1, <3>1, TakenOut DEF Doomed, At, Settling
  <2> QED BY <1>1, <1>4, <2>1 DEF Doomed, At
<1> QED BY <1>2, <1>3, <1>4

(* The step that erases a file leaves the row that accounts for it. *)
LEMMA ErasureAccounted ==
  ASSUME Typed, Life, Life', Carried, [Next]_vars, NEW f \in File, fate'[f] = "purged", fate[f] # "purged"
  PROVE  \E id \in Id : cargo'[id] = f /\ Doomed(id)'
<1>t. /\ cmd \in [Worker -> Command] /\ vault \in [Id -> File \cup {NoFile}]
      /\ fate \in [File -> {"unborn", "alive", "deleted", "purged"}]
  BY DEF Typed, TypeOK, DiskOK, GhostOK
<1>1. PICK w \in Worker : PurgeFromQuarantine(w)
  <2>1. ASSUME NEW w \in Worker, MoveIntoQuarantine(w) \/ RestoreFromQuarantine(w)
        PROVE  FALSE
    BY <2>1 DEF MoveIntoQuarantine, RestoreFromQuarantine, ghost
  <2>2. ASSUME NEW spot \in Spot, UserDeletes(spot)
        PROVE  FALSE
    BY <1>t, <2>2 DEF UserDeletes
  <2>3. ASSUME NEW spot \in Spot, NEW file \in File, UserWrites(spot, file)
        PROVE  FALSE
    BY <1>t, <2>3 DEF UserWrites
  <2> QED BY <2>1, <2>2, <2>3, Footprint
<1>2. PICK id \in Id : /\ vault[id] # NoFile
                       /\ fate' = [fate EXCEPT ![vault[id]] = "purged"]
                       /\ vault' = [vault EXCEPT ![id] = NoFile]
                       /\ cmd' = [cmd EXCEPT ![w] = [cmd[w] EXCEPT !.pc = "record", !.id = id]]
  BY <1>1 DEF PurgeFromQuarantine, Erasable
<1>3. vault[id] = f /\ cargo'[id] = f
  <2>1. vault[id] = f
    BY <1>2, <1>t
  <2> QED BY <1>1, <1>2, <2>1 DEF Carried, filled, PurgeFromQuarantine
<1>4. cmd'[w].pc = "record" /\ cmd'[w].id = id
  BY <1>2, <1>t DEF Command
<1>5. status'[id] = "quarantined" /\ ~filled'[id]
  BY <1>4 DEF Life, CommandsOrderly, Orderly, Settling
<1>6. ASSUME NEW v \in Worker, cmd'[v].pc = "settle", cmd'[v].id = id
      PROVE  FALSE
  BY <1>4, <1>6 DEF Life, Apart, Settling
<1> QED BY <1>3, <1>5, <1>6 DEF Doomed, At

(* Every step keeps the destructions accounted for. *)
LEMMA AccountedStep ==
  ASSUME Typed, Life, Life', Carried, Accounted, LegalStep, [Next]_vars
  PROVE  Accounted'
<1> SUFFICES ASSUME NEW f \in File, fate'[f] = "purged"
             PROVE  \E id \in Id : cargo'[id] = f /\ (Doomed(id)' \/ Logged(id)')
  BY DEF Accounted
<1>1. CASE fate[f] # "purged"
  BY <1>1, ErasureAccounted
<1>2. CASE fate[f] = "purged"
  <2>1. PICK id \in Id : cargo[id] = f /\ (Doomed(id) \/ Logged(id))
    BY <1>2 DEF Accounted
  <2> QED BY <2>1, StaysAccounted
<1> QED BY <1>1, <1>2

-----------------------------------------------------------------------------
(* What was last moved under the surrogate name was erased by a purge.     *)
Gone(id) == cargo[id] \in File /\ fate[cargo[id]] = "purged"

(* A command that is about to record a purge has erased the file; without a
   crash the same is true of every row that says purged, and nothing has been
   journalled before the application is up.                                *)
Destroyed ==
  /\ \A w \in Worker : At(w, "record") => Gone(cmd[w].id)
  /\ NeverCrashed =>
       /\ \A id \in Id : status[id] = "purged" => Gone(id)
       /\ \A i \in Instance : phase[i] # "up" => \A id \in Id : status[id] = "absent"

(* A content that was purged never comes back.                             *)
LEMMA PurgedStays ==
  ASSUME Typed, OnePlace, [Next]_vars, NEW f \in File, fate[f] = "purged"
  PROVE  fate'[f] = "purged"
<1>t. /\ tree \in [Spot -> File \cup {NoFile}] /\ vault \in [Id -> File \cup {NoFile}]
      /\ fate \in [File -> {"unborn", "alive", "deleted", "purged"}]
  BY DEF Typed, TypeOK, DiskOK, GhostOK
<1>0. \A s \in Spot : tree[s] # f
  BY <1>t, ConstantsOK DEF OnePlace, OnlyLivingLie
<1>1. ASSUME NEW w \in Worker, PurgeFromQuarantine(w)
      PROVE  fate'[f] = "purged"
  BY <1>1, <1>t DEF PurgeFromQuarantine, Erasable
<1>2. ASSUME NEW w \in Worker, MoveIntoQuarantine(w) \/ RestoreFromQuarantine(w)
      PROVE  fate'[f] = "purged"
  BY <1>2 DEF MoveIntoQuarantine, RestoreFromQuarantine, ghost
<1>3. ASSUME NEW spot \in Spot, UserDeletes(spot)
      PROVE  fate'[f] = "purged"
  BY <1>0, <1>3, <1>t DEF UserDeletes
<1>4. ASSUME NEW at \in Spot, NEW file \in File, UserWrites(at, file)
      PROVE  fate'[f] = "purged"
  BY <1>0, <1>4, <1>t DEF UserWrites
<1> QED BY <1>1, <1>2, <1>3, <1>4, Footprint

(* Only an entry in flight receives another file. *)
LEMMA GoneStays ==
  ASSUME Typed, Life, OnePlace, [Next]_vars, NEW id \in Id, Gone(id), status[id] # "in_flight"
  PROVE  cargo'[id] \in File /\ fate'[cargo'[id]] = "purged"
  BY FilledByMove, PurgedStays DEF Gone

(* Crashes are counted. *)
LEMMA CrashesCount ==
  ASSUME Typed, [Next]_vars, NeverCrashed'
  PROVE  NeverCrashed /\ \A i \in Instance : ~Crash(i)
<1>t. spent \in [Kind -> Nat] /\ "crash" \in Kind
  BY DEF Typed, TypeOK, Kind
<1>1. ASSUME NEW kind \in Kind, Spend(kind)
      PROVE  spent'["crash"] = 0 => spent["crash"] = 0 /\ kind # "crash"
  BY <1>1, <1>t DEF Spend
<1>2. \A i \in Instance : Crash(i) => Spend("crash")
  BY DEF Crash
<1> QED BY <1>t, <1>1, <1>2, SpendingStep DEF NeverCrashed

(* The first start of the application finds an empty journal. *)
LEMMA FirstStart ==
  ASSUME OneInstance, Typed, Life, Destroyed, [Next]_vars, NeverCrashed',
         NEW i \in Instance, phase'[i] # "up", NEW id \in Id
  PROVE  status'[id] = "absent"
<1>t. /\ manifest \in [Id -> Row] /\ phase \in [Instance -> {"down", "flight", "held", "up"}]
      /\ \A j \in Instance : j = i
  BY DEF Typed, TypeOK, JournalOK, AppOK, OneInstance
<1>1. \A w \in Worker : ~(Reap(w) \/ Restore(w) \/ Purge(w))
  BY <1>t, WorkerUp, ConstantsOK DEF Life, Starting, Still
<1>2. phase[i] # "up"
  <2>1. ~Launch(i) /\ ~Reconcile(i) => phase' = phase
    BY <1>1, <1>t, CrashesCount DEF Next, World, UserDeletes, UserWrites, Unplug, Plug, TtlPasses, Scan, vars, app
  <2>2. Launch(i) => phase[i] # "up"
    BY DEF Launch
  <2>3. Reconcile(i) => phase[i] # "up"
    BY DEF Reconcile, ProbeInFlight, ResolveInFlight, ProbeHeld, ResolveHeld, RecoveryStep, RecoveryFails
  <2> QED BY <2>1, <2>2, <2>3
<1>3. \A x \in Id : manifest[x].status = "absent"
  BY <1>2, CrashesCount DEF Destroyed, status
<1>4. ASSUME NEW j \in Instance, ResolveInFlight(j) \/ ResolveHeld(j)
      PROVE  manifest'[id].status = "absent"
  <2>1. PICK x \in Id : RollBack(x) \/ CompleteReap(x) \/ CompletePurge(x) \/ UNCHANGED journal
    BY <1>4 DEF ResolveInFlight, ResolveHeld
  <2> QED BY <1>t, <1>3, <2>1 DEF RollBack, RemoveEntry, NoRow, CompleteReap, CompletePurge,
        ConfirmWithAudit, journal
<1>5. ASSUME NEW w \in Worker, JournalReap(w) \/ ConfirmReap(w) \/ ConfirmRestore(w) \/ ConfirmPurge(w)
      PROVE  FALSE
  BY <1>1, <1>5 DEF Reap, Restore, Purge
<1>6. ASSUME NEW x \in Id, TtlPasses(x)
      PROVE  FALSE
  BY <1>3, <1>6 DEF TtlPasses
<1>7. manifest'[id].status = "absent"
  BY <1>3, <1>4, <1>5, <1>6, JournalChange
<1> QED BY <1>7 DEF status

(* Every step keeps it so. *)
LEMMA DestroyedStep ==
  ASSUME OneInstance, Typed, Life, OnePlace, Carried, Destroyed, LegalStep, [Next]_vars
  PROVE  Destroyed'
<1>1. ASSUME NEW w \in Worker, cmd'[w].pc = "record"
      PROVE  cargo'[cmd'[w].id] \in File /\ fate'[cargo'[cmd'[w].id]] = "purged"
  <2>1. CASE cmd'[w] = cmd[w]
    <3>1. cmd[w].id \in Id /\ Orderly(cmd[w], status, filled)
      BY CommandOf DEF Command, Life, CommandsOrderly
    <3>2. Gone(cmd[w].id) /\ status[cmd[w].id] = "quarantined"
      BY <1>1, <2>1, <3>1 DEF Destroyed, At, Orderly, Settling
    <3> QED BY <2>1, <3>1, <3>2, GoneStays
  <2>2. CASE cmd'[w] # cmd[w]
    <3> DEFINE x == cmd'[w].id
    <3>1. filled[x] /\ vault[x] \in File /\ fate'[vault[x]] = "purged"
      BY <1>1, <2>2, TakenOut DEF Settling
    <3>2. x \in Id
      BY TypedStep DEF Typed, TypeOK, Command
    <3>3. vault[x] = cargo[x]
      BY <3>1, <3>2 DEF Carried
    <3>4. cargo' = cargo
      <4>1. ASSUME NEW v \in Worker, MoveIntoQuarantine(v)
            PROVE  FALSE
        <5>1. fate[vault[x]] = "alive" /\ fate' = fate
          BY <3>1, <3>2, <4>1, ConstantsOK DEF OnePlace, OnlyLivingLie, MoveIntoQuarantine
        <5> QED BY <3>1, <5>1
      <4> QED BY <4>1, CargoChange
    <3> QED BY <3>1, <3>3, <3>4
  <2> QED BY <2>1, <2>2
<1>2. ASSUME NeverCrashed', NEW id \in Id, status'[id] = "purged"
      PROVE  cargo'[id] \in File /\ fate'[cargo'[id]] = "purged"
  <2>1. Gone(id) /\ status[id] # "in_flight"
    <3>1. CASE status[id] = "purged"
      BY <1>2, <3>1, CrashesCount DEF Destroyed
    <3>2. CASE status[id] # "purged"
      <4>1. status[id] = "quarantined"
        BY <1>2, <3>2 DEF LegalStep, Legal
      <4>2. ~\E i \in Instance : phase[i] = "held"
        BY <1>2, <4>1, CrashesCount DEF Destroyed
      <4>3. PICK w \in Worker : At(w, "record") /\ cmd[w].id = id
        BY <1>2, <4>1, <4>2, LeavesQuarantine
      <4> QED BY <4>1, <4>3 DEF Destroyed
    <3> QED BY <3>1, <3>2
  <2> QED BY <2>1, GoneStays
<1>3. ASSUME NeverCrashed', NEW i \in Instance, phase'[i] # "up", NEW id \in Id
      PROVE  status'[id] = "absent"
  BY <1>3, OneInstance, FirstStart
<1> QED BY <1>1, <1>2, <1>3 DEF Destroyed, At, Gone

-----------------------------------------------------------------------------
(* What the files of the quarantine have come to, and how the journal shows it. *)
Fate == OnePlace /\ Carried /\ Accounted /\ Destroyed

(* At the beginning nothing has come to anything. *)
LEMMA FateInit == Init => Fate
<1> SUFFICES ASSUME Init PROVE Fate
  OBVIOUS
<1>1. Carried
  BY DEF Init, Carried, filled
<1>2. \A f \in File : fate[f] # "purged"
  BY DEF Init
<1>3. Accounted
  BY <1>2 DEF Accounted
<1>4. \A id \in Id : status[id] = "absent"
  BY DEF Init, status, NoRow
<1>5. \A w \in Worker : ~At(w, "record")
  BY DEF Init, At, Idle, Job
<1>6. Destroyed
  BY <1>4, <1>5 DEF Destroyed
<1> QED BY <1>1, <1>3, <1>6, OnePlaceInit DEF Fate

(* With one reap in the life of the journal the fate of every file is in order. *)
THEOREM FateHolds ==
  ASSUME OneInstance
  PROVE  Spec => [](ReapedOnce => Life /\ Fate)
<1>1. Typed /\ (ReapedOnce => Life) /\ (ReapedOnce => Fate) /\ [Next]_vars => (ReapedOnce => Fate)'
  <2> SUFFICES ASSUME Typed, ReapedOnce => Life, ReapedOnce => Fate, [Next]_vars, ReapedOnce'
               PROVE  Fate'
    OBVIOUS
  <2>1. Life /\ Fate
    BY ReapsCount
  <2>2. Life' /\ LegalStep
    BY <2>1, OneInstance, LifeStep
  <2>3. VacantSurrogate
    BY <2>1, CommandOf DEF Life, CommandsOrderly, Orderly, VacantSurrogate, At, filled, Command
  <2>4. OnePlace'
    BY <2>1, <2>3, OnePlaceStep DEF Fate
  <2>5. Carried' /\ Accounted' /\ Destroyed'
    BY <2>1, <2>2, OneInstance, CarriedStep, AccountedStep, DestroyedStep DEF Fate
  <2> QED BY <2>4, <2>5 DEF Fate
<1> QED BY <1>1, FateInit, OneInstance, LifeHolds, SpecTyped, PTL DEF Spec

(* A content erased by a purge is logged as purged, or the row it was erased
   under is still quarantined without a surrogate, so that the next start logs
   it, whatever crashes and failures come between the erasure and its record. *)
THEOREM DestructionAccounted ==
  ASSUME OneInstance
  PROVE  Spec => []DestructionIsAccounted
<1>1. (ReapedOnce => Life /\ Fate) => DestructionIsAccounted
  <2> SUFFICES ASSUME Fate, NEW f \in File, fate[f] = "purged"
               PROVE  \E id \in Id :
                        /\ cargo[id] = f
                        /\ \/ manifest[id].status = "quarantined" /\ vault[id] = NoFile
                           \/ \E e \in audit : e.id = id /\ e.op \in {"purge_manual", "purge_ttl"}
    BY DEF DestructionIsAccounted
  <2>1. PICK id \in Id : cargo[id] = f /\ (Doomed(id) \/ Logged(id))
    BY DEF Fate, Accounted
  <2>2. Doomed(id) => manifest[id].status = "quarantined" /\ vault[id] = NoFile
    BY DEF Doomed, status, filled
  <2>3. Logged(id) => \E e \in audit : e.id = id /\ e.op \in {"purge_manual", "purge_ttl"}
    BY DEF Logged, LoggedIn, PurgeOps
  <2> QED BY <2>1, <2>2, <2>3
<1> QED BY <1>1, OneInstance, FateHolds, PTL

(* Without a crash a row says purged only of a file that is no longer on the
   disk, neither in the quarantine directory nor back at some path, however
   restores, purges and sweeps of the same entry overlap. *)
THEOREM PurgedIsDestroyed ==
  ASSUME OneInstance
  PROVE  Spec /\ []ReapedOnce => []PurgedMeansDestroyed
<1>1. ReapedOnce /\ (ReapedOnce => Life /\ Fate) => PurgedMeansDestroyed
  <2> SUFFICES ASSUME Fate, NeverCrashed, NEW id \in Id, manifest[id].status = "purged"
               PROVE  ~InTree(cargo[id]) /\ ~InVault(cargo[id])
    BY DEF PurgedMeansDestroyed
  <2>1. Gone(id)
    BY DEF Fate, Destroyed, status
  <2> QED BY <2>1, ConstantsOK DEF Gone, Fate, OnePlace, OnlyLivingLie, InTree, InVault
<1> QED BY <1>1, OneInstance, FateHolds, PTL

-----------------------------------------------------------------------------
(* The journal will still take what a reap writes into this row.           *)
Awaits(r) == r.status \in {"absent", "in_flight"}

(* It no longer does, and the row keeps the batch and the path for good.   *)
Kept(r, batch, path) == ~Awaits(r) /\ r.batch = batch /\ r.path = path

(* What a command has written and what it relies on: the row of the file it
   goes on with is its own or one that an earlier reap has filled, and those
   of the files it has reaped are filled.                                  *)
Remembers(c, known, rows) ==
  /\ c.pc \in Reaping =>
       /\ c.batch # 0
       /\ \A id \in c.done : Real(known[id]) /\ ~Awaits(rows[id])
  /\ c.pc \notin Reaping => c.done = {}
  /\ c.pc \in Journalled =>
       /\ rows[c.id].status # "absent"
       /\ Awaits(rows[c.id]) => rows[c.id].batch = c.batch /\ rows[c.id].path = c.path
  /\ c.pc \in {"return", "settle", "record"} => ~Awaits(rows[c.id])
  /\ c.pc \in {"erase", "record"} => \A id \in c.todo : ~Awaits(rows[id])

Remembering == \A w \in Worker : Remembers(cmd[w], index[Home[w]], manifest)

(* The row of a candidate of this session awaits its reap until one is
   reported; then it has the batch of that reap and the candidate's path,
   however often the candidate is restored and reaped again.               *)
Entered ==
  \A i \in Instance, id \in Id : Real(index[i][id]) =>
    \/ Awaits(manifest[id]) /\ acked[id] = 0
    \/ acked[id] # 0 /\ Kept(manifest[id], acked[id], index[i][id].path)

(* Until the first scan nothing is journalled, and an application that is not
   up has no index.                                                        *)
Unwritten == spent["scan"] = 0 => \A id \in Id : manifest[id].status = "absent" /\ acked[id] = 0
Unlisted  == \A i \in Instance : phase[i] # "up" => index[i] = EmptyIndex

(* One reap_execute runs at a time; restores, purges and sweeps may overlap
   with it and with each other.                                            *)
ReapsApart == \A v, w \in Worker : v # w => ~(cmd[v].pc \in Reaping /\ cmd[w].pc \in Reaping)

ScannedOnce == spent["scan"] <= 1

Undoable == Remembering /\ Entered /\ Unwritten /\ Unlisted /\ BeforeScan /\ Cleaning

(* A row that no longer awaits a reap keeps its batch and its path.        *)
Steady(r, s) == ~Awaits(r) => Kept(s, r.batch, r.path)

(* At the beginning there is nothing to remember. *)
LEMMA UndoableInit == Init => Undoable
<1> SUFFICES ASSUME Init PROVE Undoable
  OBVIOUS
<1>1. /\ \A w \in Worker : cmd[w] = Idle
      /\ \A i \in Instance : index[i] = EmptyIndex
      /\ \A id \in Id : manifest[id].status = "absent" /\ acked[id] = 0
  BY DEF Init, NoRow
<1>2. Idle.pc = "idle" /\ Idle.done = {}
  BY DEF Idle, Job
<1>3. Remembering /\ Entered /\ Unwritten /\ Unlisted
  BY <1>1, <1>2 DEF Remembering, Remembers, Entered, Awaits, Unwritten, Unlisted, Reaping, Journalled
<1>4. BeforeScan
  BY OneScanInit DEF OneScan
<1> QED BY <1>3, <1>4, CleaningInit DEF Undoable

(* A command between two items. *)
LEMMA JobRemembers ==
  ASSUME NEW pc, NEW ask, NEW todo, NEW batch, NEW done, NEW actor, NEW known, NEW rows,
         pc \in {"idle", "pick", "lookup", "erase"},
         pc = "pick" => batch # 0 /\ \A id \in done : Real(known[id]) /\ ~Awaits(rows[id]),
         pc # "pick" => done = {},
         pc = "erase" => \A id \in todo : ~Awaits(rows[id])
  PROVE  /\ Remembers(Job(pc, ask, todo, batch, done, actor), known, rows)
         /\ Job(pc, ask, todo, batch, done, actor).pc = pc
         /\ Job(pc, ask, todo, batch, done, actor).done = done
  BY DEF Job, Remembers, Moving, Reaping, Journalled

(* A worker that returns remembers nothing. *)
LEMMA IdleRemembers ==
  ASSUME NEW known, NEW rows
  PROVE  Remembers(Idle, known, rows) /\ Idle.pc = "idle"
  BY DEF Idle, Job, Remembers, Moving, Reaping, Journalled

(* What the others know stays true: a reap runs alone, and the rows of files
   that were reaped keep what it wrote. *)
LEMMA OthersRemember ==
  ASSUME NEW c \in Command, NEW known, NEW rows, NEW known2, NEW rows2,
         Remembers(c, known, rows),
         \A id \in Id : Steady(rows[id], rows2[id]),
         c.pc \in Reaping => \A id \in Id : Awaits(rows[id]) => rows2[id] = rows[id],
         \A id \in Id : Real(known[id]) => known2[id] = known[id]
  PROVE  Remembers(c, known2, rows2)
<1>1. c.id \in Id /\ c.todo \subseteq Id /\ c.done \subseteq Id
  BY DEF Command
<1>2. Journalled \subseteq Reaping
  BY DEF Journalled, Reaping
<1>3. c.pc \in Reaping =>
        c.batch # 0 /\ \A id \in c.done : Real(known2[id]) /\ ~Awaits(rows2[id])
  BY <1>1 DEF Remembers, Steady, Kept
<1>4. c.pc \in Journalled =>
        /\ rows2[c.id].status # "absent"
        /\ Awaits(rows2[c.id]) => rows2[c.id].batch = c.batch /\ rows2[c.id].path = c.path
  BY <1>1, <1>2 DEF Remembers, Steady, Kept, Awaits
<1>5. /\ c.pc \in {"return", "settle", "record"} => ~Awaits(rows2[c.id])
      /\ c.pc \in {"erase", "record"} => \A id \in c.todo : ~Awaits(rows2[id])
  BY <1>1 DEF Remembers, Steady, Kept
<1> QED BY <1>3, <1>4, <1>5 DEF Remembers

(* What a step of a worker does to its command c and to the journal.       *)
Mindful(w, c) ==
  /\ cmd' = [cmd EXCEPT ![w] = c]
  /\ Remembers(c, index[Home[w]], manifest')
  /\ \A id \in Id : Steady(manifest[id], manifest'[id])
  /\ cmd[w].pc \in Reaping \/ \A id \in Id : Awaits(manifest[id]) => manifest'[id] = manifest[id]
  /\ UNCHANGED index

(* The other commands lose nothing by such a step. *)
LEMMA RememberingByWorker ==
  ASSUME Typed, ReapsApart, Remembering, NEW w \in Worker, NEW c, Mindful(w, c)
  PROVE  Remembering'
<1> SUFFICES ASSUME NEW v \in Worker
             PROVE  Remembers(cmd'[v], index'[Home[v]], manifest')
  BY DEF Remembering
<1>1. index' = index /\ cmd \in [Worker -> Command] /\ cmd[v] \in Command
  BY DEF Mindful, Typed, TypeOK
<1>2. CASE v = w
  BY <1>1, <1>2 DEF Mindful
<1>3. CASE v # w
  <2>1. cmd'[v] = cmd[v] /\ Remembers(cmd[v], index[Home[v]], manifest)
    BY <1>1, <1>3 DEF Mindful, Remembering
  <2>2. cmd[v].pc \in Reaping => \A id \in Id : Awaits(manifest[id]) => manifest'[id] = manifest[id]
    BY <1>3 DEF ReapsApart, Mindful
  <2>3. Remembers(cmd[v], index[Home[v]], manifest')
    BY <1>1, <2>1, <2>2, OthersRemember DEF Mindful
  <2> QED BY <1>1, <2>1, <2>3
<1> QED BY <1>2, <1>3

(* Nor does the session, unless a reap is reported. *)
LEMMA EnteredByWorker ==
  ASSUME Entered, UNCHANGED <<index, acked>>,
         \A id \in Id : /\ Steady(manifest[id], manifest'[id])
                        /\ Awaits(manifest[id]) => Awaits(manifest'[id])
  PROVE  Entered'
<1> SUFFICES ASSUME NEW i \in Instance, NEW id \in Id, Real(index[i][id])
             PROVE  \/ Awaits(manifest'[id]) /\ acked[id] = 0
                    \/ acked[id] # 0 /\ Kept(manifest'[id], acked[id], index[i][id].path)
  BY DEF Entered
<1>1. \/ Awaits(manifest[id]) /\ acked[id] = 0
      \/ acked[id] # 0 /\ Kept(manifest[id], acked[id], index[i][id].path)
  BY DEF Entered
<1> QED BY <1>1 DEF Steady, Kept

-----------------------------------------------------------------------------
(* A step that leaves the journal alone. *)
LEMMA QuietSteady ==
  ASSUME manifest' = manifest
  PROVE  \A id \in Id : /\ Steady(manifest[id], manifest'[id])
                        /\ Awaits(manifest[id]) => manifest'[id] = manifest[id]
  BY DEF Steady, Kept

(* The insertion of a row is steady, and a row that awaits it becomes the one
   that is written. *)
LEMMA InsertSteady ==
  ASSUME Typed, NEW x \in Id, NEW path, NEW batch, InsertEntry(x, path, batch), Awaits(manifest[x])
  PROVE  /\ \A id \in Id \ {x} : manifest'[id] = manifest[id]
         /\ manifest'[x].status = "in_flight" /\ manifest'[x].path = path /\ manifest'[x].batch = batch
         /\ \A id \in Id : Steady(manifest[id], manifest'[id])
  BY DEF Typed, TypeOK, JournalOK, InsertEntry, Awaits, Steady, Kept

(* So is a confirmation, which only sets the status. *)
LEMMA ConfirmSteady ==
  ASSUME Typed, NEW x \in Id, NEW s, NEW op, NEW actor, ConfirmWithAudit(x, s, op, actor),
         s \notin {"absent", "in_flight"}, manifest[x].status # "absent"
  PROVE  /\ \A id \in Id \ {x} : manifest'[id] = manifest[id]
         /\ manifest'[x].status = s
         /\ manifest'[x].path = manifest[x].path /\ manifest'[x].batch = manifest[x].batch
         /\ \A id \in Id : Steady(manifest[id], manifest'[id])
<1> DEFINE r == [manifest[x] EXCEPT !.status = s]
<1>1. manifest \in [Id -> Row] /\ manifest' = [manifest EXCEPT ![x] = r]
  BY DEF Typed, TypeOK, JournalOK, ConfirmWithAudit
<1>2. r.status = s /\ r.path = manifest[x].path /\ r.batch = manifest[x].batch
  BY <1>1 DEF Row
<1> HIDE DEF r
<1>3. manifest'[x] = r /\ \A id \in Id \ {x} : manifest'[id] = manifest[id]
  BY <1>1
<1> QED BY <1>2, <1>3 DEF Steady, Kept, Awaits

(* What a step of a reap leaves of the session when it leaves the journal and
   the reports alone. *)
LEMMA QuietReap ==
  ASSUME Typed, Remembering, Entered, ReapsApart, NEW w \in Worker, NEW c,
         cmd' = [cmd EXCEPT ![w] = c], Remembers(c, index[Home[w]], manifest),
         UNCHANGED <<manifest, index, acked>>
  PROVE  Remembering' /\ Entered'
<1>1. Mindful(w, c)
  BY QuietSteady DEF Mindful
<1> QED BY <1>1, QuietSteady, RememberingByWorker, EnteredByWorker

(* No step of reap_execute breaks the invariant, as long as no other reap runs. *)
LEMMA UndoableReap ==
  ASSUME OneInstance, Typed, Remembering, Entered, ReapsApart, NEW w \in Worker, Reap(w)
  PROVE  Remembering' /\ Entered'
<1>t. /\ cmd \in [Worker -> Command] /\ cmd[w] \in Command
      /\ Remembers(cmd[w], index[Home[w]], manifest)
      /\ Sound(cmd[w], index[Home[w]])
      /\ \A i \in Instance : i = Home[w]
  BY CommandOf, ConstantsOK DEF Typed, TypeOK, Remembering, OneInstance
<1>i. cmd[w].id \in Id /\ cmd[w].todo \subseteq Id /\ cmd[w].done \subseteq Id
  BY <1>t DEF Command
<1> USE DEF disk, journal, app, ghost
<1>f. ASSUME NextItem(w, "pick", {}), cmd[w].pc \in Reaping, UNCHANGED <<manifest, index, acked>>
      PROVE  Remembering' /\ Entered'
  <2> DEFINE c == Job("pick", cmd[w].ask, cmd[w].todo \ {cmd[w].id}, cmd[w].batch,
                      cmd[w].done \cup {}, cmd[w].actor)
  <2>1. cmd' = [cmd EXCEPT ![w] = c]
    BY <1>f DEF NextItem
  <2>2. cmd[w].batch # 0 /\ \A id \in cmd[w].done \cup {} : Real(index[Home[w]][id]) /\ ~Awaits(manifest[id])
    BY <1>t, <1>f DEF Remembers
  <2>3. Remembers(c, index[Home[w]], manifest)
    BY <2>2, JobRemembers
  <2> HIDE DEF c
  <2> QED BY <1>f, <2>1, <2>3, QuietReap
<1>1. CASE StartReap(w)
  <2>1. PICK ids \in SUBSET Indexed(Home[w]) : Begin(w, "pick", ids, spent["reap"] + 1, "user")
    BY <1>1 DEF StartReap
  <2> DEFINE c == Job("pick", ids, ids, spent["reap"] + 1, {}, "user")
  <2>2. cmd' = [cmd EXCEPT ![w] = c] /\ UNCHANGED <<manifest, index, acked>>
    BY <1>1, <2>1 DEF Begin, StartReap
  <2>3. spent["reap"] + 1 # 0
    BY DEF Typed, TypeOK, Kind
  <2>4. Remembers(c, index[Home[w]], manifest)
    BY <2>3, JobRemembers
  <2> HIDE DEF c
  <2> QED BY <2>2, <2>4, QuietReap
<1>2. CASE ReadIdentity(w)
  <2>1. PICK id \in cmd[w].todo : cmd' = [cmd EXCEPT ![w] = [cmd[w] EXCEPT !.pc = "insert", !.id = id,
                 !.path = index[Home[w]][id].path, !.file = index[Home[w]][id].file]]
    BY <1>2 DEF ReadIdentity
  <2> DEFINE c == [cmd[w] EXCEPT !.pc = "insert", !.id = id,
                 !.path = index[Home[w]][id].path, !.file = index[Home[w]][id].file]
  <2>2. c.pc = "insert" /\ c.done = cmd[w].done /\ c.batch = cmd[w].batch
    BY <1>t DEF Command
  <2> HIDE DEF c
  <2>3. UNCHANGED <<manifest, index, acked>> /\ cmd[w].pc = "pick"
    BY <1>2 DEF ReadIdentity, At
  <2>4. Remembers(c, index[Home[w]], manifest)
    BY <1>t, <2>2, <2>3 DEF Remembers, Journalled, Reaping
  <2> QED BY <2>1, <2>3, <2>4, QuietReap DEF c
<1>3. CASE SkipItem(w)
  <2>1. PICK id \in cmd[w].todo : cmd' = [cmd EXCEPT ![w].todo = @ \ {id}]
    BY <1>3 DEF SkipItem
  <2> DEFINE c == [cmd[w] EXCEPT !.todo = cmd[w].todo \ {id}]
  <2>2. c.pc = cmd[w].pc /\ c.done = cmd[w].done /\ c.batch = cmd[w].batch
    BY <1>t DEF Command
  <2>3. UNCHANGED <<manifest, index, acked>> /\ cmd[w].pc = "pick"
    BY <1>3 DEF SkipItem, At
  <2>4. cmd' = [cmd EXCEPT ![w] = c]
    BY <1>t, <2>1 DEF Command
  <2> HIDE DEF c
  <2>5. Remembers(c, index[Home[w]], manifest)
    BY <1>t, <2>2, <2>3 DEF Remembers, Journalled, Reaping
  <2> QED BY <2>3, <2>4, <2>5, QuietReap
<1>4. CASE JournalReap(w)
  <2>1. cmd[w].pc = "insert" /\ cmd[w].pc \in Reaping /\ UNCHANGED <<index, acked>>
    BY <1>4 DEF JournalReap, At, Reaping
  <2>2. CASE NextItem(w, "pick", {}) /\ UNCHANGED manifest
    BY <1>f, <2>1, <2>2
  <2>3. CASE InsertEntry(cmd[w].id, cmd[w].path, cmd[w].batch) /\ Goto(w, "verify")
    <3> DEFINE c == [cmd[w] EXCEPT !.pc = "verify"]
    <3>1. cmd' = [cmd EXCEPT ![w] = c]
      BY <2>3 DEF Goto
    <3>2. c.pc = "verify" /\ c.id = cmd[w].id /\ c.done = cmd[w].done /\ c.batch = cmd[w].batch /\ c.path = cmd[w].path
      BY <1>t DEF Command
    <3> HIDE DEF c
    <3>3. /\ \A id \in Id : /\ Steady(manifest[id], manifest'[id])
                            /\ Awaits(manifest[id]) => Awaits(manifest'[id])
          /\ manifest'[cmd[w].id].status # "absent"
          /\ Awaits(manifest'[cmd[w].id]) =>
               manifest'[cmd[w].id].batch = cmd[w].batch /\ manifest'[cmd[w].id].path = cmd[w].path
      <4>1. CASE Awaits(manifest[cmd[w].id])
        <5>1. /\ \A id \in Id \ {cmd[w].id} : manifest'[id] = manifest[id]
              /\ manifest'[cmd[w].id].status = "in_flight" /\ manifest'[cmd[w].id].path = cmd[w].path
              /\ manifest'[cmd[w].id].batch = cmd[w].batch
              /\ \A id \in Id : Steady(manifest[id], manifest'[id])
          BY <1>i, <2>3, <4>1, InsertSteady
        <5> QED BY <5>1 DEF Awaits
      <4>2. CASE ~Awaits(manifest[cmd[w].id])
        <5>1. manifest' = manifest
          BY <2>3, <4>2 DEF InsertEntry, Awaits
        <5> QED BY <4>2, <5>1, QuietSteady DEF Awaits
      <4> QED BY <4>1, <4>2
    <3>4. Remembers(c, index[Home[w]], manifest')
      <4>1. cmd[w].batch # 0 /\ \A id \in cmd[w].done : Real(index[Home[w]][id]) /\ ~Awaits(manifest[id])
        BY <1>t, <2>1 DEF Remembers
      <4>2. \A id \in cmd[w].done : ~Awaits(manifest'[id])
        BY <1>i, <3>3, <4>1 DEF Steady, Kept
      <4> QED BY <3>2, <3>3, <4>1, <4>2 DEF Remembers, Reaping
    <3>5. Mindful(w, c)
      BY <2>1, <3>1, <3>3, <3>4 DEF Mindful
    <3> QED BY <2>1, <3>3, <3>5, RememberingByWorker, EnteredByWorker
  <2> QED BY <1>4, <2>2, <2>3 DEF JournalReap
<1>5. CASE VerifyIdentity(w) \/ MoveIntoQuarantine(w)
  <2>1. /\ cmd[w].pc \in Journalled /\ cmd[w].pc \in Reaping /\ UNCHANGED <<manifest, index, acked>>
        /\ NextItem(w, "pick", {}) \/ \E pc \in {"rename", "confirm"} : Goto(w, pc)
    BY <1>5 DEF VerifyIdentity, MoveIntoQuarantine, At, Reaping, Journalled
  <2>2. CASE NextItem(w, "pick", {})
    BY <1>f, <2>1, <2>2
  <2>3. ASSUME NEW pc \in {"rename", "confirm"}, Goto(w, pc)
        PROVE  Remembering' /\ Entered'
    <3> DEFINE c == [cmd[w] EXCEPT !.pc = pc]
    <3>1. cmd' = [cmd EXCEPT ![w] = c]
      BY <2>3 DEF Goto
    <3>2. c.pc = pc /\ c.id = cmd[w].id /\ c.done = cmd[w].done /\ c.batch = cmd[w].batch /\ c.path = cmd[w].path
      BY <1>t DEF Command
    <3> HIDE DEF c
    <3>3. Remembers(c, index[Home[w]], manifest)
      BY <1>t, <2>1, <3>2 DEF Remembers, Reaping
    <3> QED BY <2>1, <3>1, <3>3, QuietReap
  <2> QED BY <2>1, <2>2, <2>3
<1>6. CASE MoveFails(w)
  BY <1>6, <1>f DEF MoveFails, At, Reaping
<1>7. CASE ConfirmReap(w)
  <2> DEFINE x == cmd[w].id
  <2>1. cmd[w].pc = "confirm" /\ cmd[w].pc \in Reaping /\ UNCHANGED index
    BY <1>7 DEF ConfirmReap, At, Reaping
  <2>2. CASE NextItem(w, "pick", {}) /\ UNCHANGED <<journal, acked>>
    BY <1>f, <2>1, <2>2
  <2>3. CASE /\ ConfirmWithAudit(x, "quarantined", "reap", "user") /\ NextItem(w, "pick", {x})
             /\ acked' = [acked EXCEPT ![x] = IF acked[x] = 0 THEN cmd[w].batch ELSE acked[x]]
    <3> DEFINE c == Job("pick", cmd[w].ask, cmd[w].todo \ {x}, cmd[w].batch, cmd[w].done \cup {x}, cmd[w].actor)
    <3>1. /\ manifest[x].status # "absent"
          /\ Awaits(manifest[x]) => manifest[x].batch = cmd[w].batch /\ manifest[x].path = cmd[w].path
          /\ cmd[w].batch # 0
          /\ \A id \in cmd[w].done : Real(index[Home[w]][id]) /\ ~Awaits(manifest[id])
      BY <1>t, <2>1 DEF Remembers, Journalled
    <3>2. /\ \A id \in Id \ {x} : manifest'[id] = manifest[id]
          /\ manifest'[x].status = "quarantined"
          /\ manifest'[x].path = manifest[x].path /\ manifest'[x].batch = manifest[x].batch
          /\ \A id \in Id : Steady(manifest[id], manifest'[id])
      BY <1>i, <2>3, <3>1, ConfirmSteady
    <3>3. Real(index[Home[w]][x]) /\ index[Home[w]][x].path = cmd[w].path
      BY <1>t, <2>1 DEF Sound, Real, Moving
    <3>4. ~Awaits(manifest'[x])
      BY <3>2 DEF Awaits
    <3>5. cmd' = [cmd EXCEPT ![w] = c]
      BY <2>3 DEF NextItem
    <3>6. Remembers(c, index[Home[w]], manifest')
      <4>1. \A id \in cmd[w].done \cup {x} : Real(index[Home[w]][id]) /\ ~Awaits(manifest'[id])
        BY <1>i, <3>1, <3>2, <3>3, <3>4
      <4> QED BY <3>1, <4>1, JobRemembers
    <3> HIDE DEF c
    <3>7. Mindful(w, c)
      BY <2>1, <3>2, <3>5, <3>6 DEF Mindful
    <3>8. ASSUME NEW i \in Instance, NEW id \in Id, Real(index[i][id])
          PROVE  \/ Awaits(manifest'[id]) /\ acked'[id] = 0
                 \/ acked'[id] # 0 /\ Kept(manifest'[id], acked'[id], index[i][id].path)
      <4>a. acked \in [Id -> Nat]
        BY DEF Typed, TypeOK, GhostOK
      <4>e. \/ Awaits(manifest[id]) /\ acked[id] = 0
            \/ acked[id] # 0 /\ Kept(manifest[id], acked[id], index[i][id].path)
        BY <3>8 DEF Entered
      <4>1. CASE id # x
        BY <2>3, <3>2, <4>1, <4>a, <4>e
      <4>2. CASE id = x /\ Awaits(manifest[x])
        <5>1. acked[x] = 0
          BY <4>2, <4>e DEF Kept
        <5>2. acked'[x] = cmd[w].batch
          BY <1>i, <2>3, <4>a, <5>1
        <5> QED BY <1>t, <3>1, <3>2, <3>3, <3>4, <4>2, <5>2 DEF Kept
      <4>3. CASE id = x /\ ~Awaits(manifest[x])
        <5>1. acked'[x] = acked[x]
          BY <1>i, <2>3, <4>3, <4>a, <4>e
        <5> QED BY <3>2, <3>4, <4>3, <4>e, <5>1 DEF Kept
      <4> QED BY <4>1, <4>2, <4>3
    <3> HIDE DEF x
    <3>9. Entered'
      BY <2>1, <3>8 DEF Entered
    <3> QED BY <3>7, <3>9, RememberingByWorker
  <2> QED BY <1>7, <2>2, <2>3 DEF ConfirmReap
<1>8. CASE EndReap(w)
  <2>1. cmd' = [cmd EXCEPT ![w] = Idle] /\ UNCHANGED <<manifest, index, acked>>
    BY <1>8 DEF EndReap, Return
  <2> QED BY <2>1, QuietReap, IdleRemembers
<1> QED BY <1>1, <1>2, <1>3, <1>4, <1>5, <1>6, <1>7, <1>8 DEF Reap

(* A restore or a purge that leaves the journal alone, or gives one entry that
   was reaped its last status, keeps what commands remember and what the session has entered. *)
LEMMA UndoableByOther ==
  ASSUME Typed, Remembering, Entered, ReapsApart, NEW w \in Worker, Restore(w) \/ Purge(w),
         NEW c, cmd' = [cmd EXCEPT ![w] = c], Remembers(c, index[Home[w]], manifest'),
         UNCHANGED <<index, acked>>, cmd[w].pc \notin Reaping,
         \A id \in Id : Steady(manifest[id], manifest'[id]) /\ (Awaits(manifest[id]) => manifest'[id] = manifest[id])
  PROVE  Remembering' /\ Entered'
<1>1. Mindful(w, c)
  BY DEF Mindful
<1> QED BY <1>1, RememberingByWorker, EnteredByWorker

(* No step of restore and undo breaks the invariant. *)
LEMMA UndoableRestore ==
  ASSUME Typed, Remembering, Entered, ReapsApart, NEW w \in Worker, Restore(w)
  PROVE  Remembering' /\ Entered'
<1>t. /\ cmd \in [Worker -> Command] /\ cmd[w] \in Command
      /\ Remembers(cmd[w], index[Home[w]], manifest)
  BY CommandOf DEF Typed, TypeOK, Remembering
<1>i. cmd[w].id \in Id /\ cmd[w].todo \subseteq Id
  BY <1>t DEF Command
<1> USE DEF disk, journal, app, ghost
<1>0. UNCHANGED <<index, acked>> /\ cmd[w].pc \in {"idle", "lookup", "return", "settle"}
      /\ cmd[w].pc \notin Reaping
  <2>1. Idle.pc = "idle"
    BY DEF Idle, Job
  <2>2. CASE StartRestore(w) \/ StartUndo(w)
    BY <2>1, <2>2 DEF StartRestore, StartUndo, Begin, Reaping
  <2>3. CASE LookupEntry(w) \/ EndRestore(w)
    BY <2>3 DEF LookupEntry, EndRestore, At, Reaping
  <2>4. CASE RestoreFromQuarantine(w) \/ TrySuffix(w) \/ RestoreFails(w)
    BY <2>4 DEF RestoreFromQuarantine, TrySuffix, RestoreFails, At, Reaping
  <2>5. CASE ConfirmRestore(w)
    BY <2>5 DEF ConfirmRestore, At, Reaping
  <2> QED BY <2>2, <2>3, <2>4, <2>5 DEF Restore
<1>r. ASSUME Return(w), UNCHANGED manifest
      PROVE  Remembering' /\ Entered'
  BY <1>r, <1>0, IdleRemembers, QuietSteady, UndoableByOther DEF Return
<1>1. CASE StartRestore(w) \/ StartUndo(w)
  <2>1. PICK ids : Begin(w, "lookup", ids, 0, "user") /\ UNCHANGED manifest
    BY <1>1 DEF StartRestore, StartUndo
  <2> DEFINE c == Job("lookup", ids, ids, 0, {}, "user")
  <2>2. cmd' = [cmd EXCEPT ![w] = c]
    BY <2>1 DEF Begin
  <2>3. Remembers(c, index[Home[w]], manifest')
    BY JobRemembers
  <2> HIDE DEF c
  <2> QED BY <1>0, <2>1, <2>2, <2>3, QuietSteady, UndoableByOther
<1>2. CASE LookupEntry(w)
  <2>1. PICK id \in cmd[w].todo :
          \/ /\ Restorable(id)
             /\ cmd' = [cmd EXCEPT ![w] = [cmd[w] EXCEPT !.pc = "return", !.id = id,
                                                         !.path = manifest[id].path]]
          \/ Return(w)
    BY <1>2 DEF LookupEntry
  <2>2. UNCHANGED manifest
    BY <1>2 DEF LookupEntry
  <2>3. CASE Return(w)
    BY <1>r, <2>2, <2>3
  <2>4. CASE /\ Restorable(id)
             /\ cmd' = [cmd EXCEPT ![w] = [cmd[w] EXCEPT !.pc = "return", !.id = id,
                                                         !.path = manifest[id].path]]
    <3> DEFINE c == [cmd[w] EXCEPT !.pc = "return", !.id = id, !.path = manifest[id].path]
    <3>1. c.pc = "return" /\ c.id = id /\ c.done = cmd[w].done
      BY <1>t DEF Command
    <3> HIDE DEF c
    <3>2. Remembers(c, index[Home[w]], manifest')
      BY <1>0, <1>t, <2>2, <2>4, <3>1 DEF Remembers, Restorable, Awaits, Moving, Reaping, Journalled
    <3> QED BY <1>0, <2>2, <2>4, <3>2, QuietSteady, UndoableByOther DEF c
  <2> QED BY <2>1, <2>3, <2>4
<1>3. CASE RestoreFromQuarantine(w)
  <2> DEFINE c == [cmd[w] EXCEPT !.pc = "settle"]
  <2>1. cmd' = [cmd EXCEPT ![w] = c] /\ UNCHANGED manifest /\ cmd[w].pc = "return"
    BY <1>3 DEF RestoreFromQuarantine, Goto, At
  <2>2. c.pc = "settle" /\ c.id = cmd[w].id /\ c.done = cmd[w].done
    BY <1>t DEF Command
  <2> HIDE DEF c
  <2>3. Remembers(c, index[Home[w]], manifest')
    BY <1>0, <1>t, <2>1, <2>2 DEF Remembers, Moving, Reaping, Journalled
  <2> QED BY <1>0, <2>1, <2>3, QuietSteady, UndoableByOther
<1>4. CASE TrySuffix(w)
  <2>1. UNCHANGED manifest /\ cmd[w].pc = "return"
    BY <1>4 DEF TrySuffix, At
  <2> DEFINE c == [cmd[w] EXCEPT !.attempt = NextSuffix(cmd[w].attempt)]
  <2>2. Return(w) \/ cmd' = [cmd EXCEPT ![w] = c]
    BY <1>4, <1>t DEF TrySuffix, Command
  <2>3. c.pc = "return" /\ c.id = cmd[w].id /\ c.done = cmd[w].done
    BY <1>t, <2>1 DEF Command
  <2> HIDE DEF c
  <2>4. Remembers(c, index[Home[w]], manifest')
    BY <1>0, <1>t, <2>1, <2>3 DEF Remembers, Moving, Reaping, Journalled
  <2> QED BY <1>0, <1>r, <2>1, <2>2, <2>4, QuietSteady, UndoableByOther
<1>5. CASE RestoreFails(w) \/ EndRestore(w)
  BY <1>5, <1>r DEF RestoreFails, EndRestore
<1>6. CASE ConfirmRestore(w)
  <2>1. cmd[w].pc = "settle" /\ ~Awaits(manifest[cmd[w].id]) /\ cmd[w].done = {}
    BY <1>0, <1>6, <1>t DEF ConfirmRestore, At, Remembers
  <2>2. CASE Return(w) /\ UNCHANGED journal
    BY <1>r, <2>2
  <2>3. CASE ConfirmWithAudit(cmd[w].id, "restored", "restore", "user") /\ NextItem(w, "lookup", {})
    <3> DEFINE c == Job("lookup", cmd[w].ask, cmd[w].todo \ {cmd[w].id}, cmd[w].batch,
                        cmd[w].done \cup {}, cmd[w].actor)
    <3>1. cmd' = [cmd EXCEPT ![w] = c]
      BY <2>3 DEF NextItem
    <3>2. Remembers(c, index[Home[w]], manifest')
      <4>1. cmd[w].done \cup {} = {}
        BY <2>1
      <4> QED BY <4>1, JobRemembers
    <3> HIDE DEF c
    <3>3. /\ \A id \in Id \ {cmd[w].id} : manifest'[id] = manifest[id]
          /\ \A id \in Id : Steady(manifest[id], manifest'[id])
      BY <1>i, <2>1, <2>3, ConfirmSteady DEF Awaits
    <3> QED BY <1>0, <2>1, <3>1, <3>2, <3>3, UndoableByOther
  <2> QED BY <1>6, <2>2, <2>3 DEF ConfirmRestore
<1> QED BY <1>1, <1>2, <1>3, <1>4, <1>5, <1>6 DEF Restore

(* No step of a purge or a sweep breaks it. *)
LEMMA UndoablePurge ==
  ASSUME Typed, Remembering, Entered, ReapsApart, NEW w \in Worker, Purge(w)
  PROVE  Remembering' /\ Entered'
<1>t. /\ cmd \in [Worker -> Command] /\ cmd[w] \in Command
      /\ Remembers(cmd[w], index[Home[w]], manifest)
  BY CommandOf DEF Typed, TypeOK, Remembering
<1>i. cmd[w].id \in Id /\ cmd[w].todo \subseteq Id
  BY <1>t DEF Command
<1> USE DEF disk, journal, app, ghost
<1>0. UNCHANGED <<index, acked>> /\ cmd[w].pc \in {"idle", "erase", "record"}
      /\ cmd[w].pc \notin Reaping
  <2>1. Idle.pc = "idle"
    BY DEF Idle, Job
  <2>2. CASE StartPurge(w) \/ StartSweep(w)
    BY <2>1, <2>2 DEF StartPurge, StartSweep, Begin, Reaping
  <2>3. CASE PurgeFromQuarantine(w) \/ PurgeFails(w) \/ EndPurge(w)
    BY <2>3 DEF PurgeFromQuarantine, PurgeFails, EndPurge, At, Reaping
  <2>4. CASE ConfirmPurge(w)
    BY <2>4 DEF ConfirmPurge, At, Reaping
  <2> QED BY <2>2, <2>3, <2>4 DEF Purge
<1>r. ASSUME Return(w), UNCHANGED manifest
      PROVE  Remembering' /\ Entered'
  BY <1>r, <1>0, IdleRemembers, QuietSteady, UndoableByOther DEF Return
<1>1. CASE StartPurge(w) \/ StartSweep(w)
  <2>1. PICK ids \in SUBSET In("quarantined"), actor \in {"user", "sweeper"} :
          Begin(w, "erase", ids, 0, actor) /\ UNCHANGED manifest
    BY <1>1 DEF StartPurge, StartSweep
  <2> DEFINE c == Job("erase", ids, ids, 0, {}, actor)
  <2>2. cmd' = [cmd EXCEPT ![w] = c]
    BY <2>1 DEF Begin
  <2>3. \A id \in ids : ~Awaits(manifest'[id])
    BY <2>1 DEF In, Awaits
  <2>4. Remembers(c, index[Home[w]], manifest')
    BY <2>3, JobRemembers
  <2> HIDE DEF c
  <2> QED BY <1>0, <2>1, <2>2, <2>4, QuietSteady, UndoableByOther
<1>2. CASE PurgeFromQuarantine(w)
  <2>1. PICK id \in Id :
          /\ NextTarget(w, id)
          /\ cmd' = [cmd EXCEPT ![w] = [cmd[w] EXCEPT !.pc = "record", !.id = id]]
    BY <1>2 DEF PurgeFromQuarantine
  <2> DEFINE c == [cmd[w] EXCEPT !.pc = "record", !.id = id]
  <2>2. UNCHANGED manifest /\ cmd[w].pc = "erase" /\ id \in cmd[w].todo
    BY <1>2, <2>1 DEF PurgeFromQuarantine, At, NextTarget
  <2>3. c.pc = "record" /\ c.id = id /\ c.todo = cmd[w].todo /\ c.done = cmd[w].done
    BY <1>t DEF Command
  <2> HIDE DEF c
  <2>4. Remembers(c, index[Home[w]], manifest')
    BY <1>0, <1>t, <2>2, <2>3 DEF Remembers, Moving, Reaping, Journalled
  <2> QED BY <1>0, <2>1, <2>2, <2>4, QuietSteady, UndoableByOther DEF c
<1>3. CASE PurgeFails(w) \/ EndPurge(w)
  BY <1>3, <1>r DEF PurgeFails, EndPurge
<1>4. CASE ConfirmPurge(w)
  <2>1. cmd[w].pc = "record" /\ ~Awaits(manifest[cmd[w].id]) /\ cmd[w].done = {}
        /\ \A id \in cmd[w].todo : ~Awaits(manifest[id])
    BY <1>0, <1>4, <1>t DEF ConfirmPurge, At, Remembers
  <2>2. CASE Return(w) /\ UNCHANGED journal
    BY <1>r, <2>2
  <2>3. CASE /\ ConfirmWithAudit(cmd[w].id, "purged",
                   IF cmd[w].actor = "user" THEN "purge_manual" ELSE "purge_ttl", cmd[w].actor)
             /\ NextItem(w, "erase", {})
    <3> DEFINE c == Job("erase", cmd[w].ask, cmd[w].todo \ {cmd[w].id}, cmd[w].batch,
                        cmd[w].done \cup {}, cmd[w].actor)
    <3>1. cmd' = [cmd EXCEPT ![w] = c]
      BY <2>3 DEF NextItem
    <3>3. /\ \A id \in Id \ {cmd[w].id} : manifest'[id] = manifest[id]
          /\ \A id \in Id : Steady(manifest[id], manifest'[id])
      BY <1>i, <2>1, <2>3, ConfirmSteady DEF Awaits
    <3>4. \A id \in cmd[w].todo \ {cmd[w].id} : ~Awaits(manifest'[id])
      BY <1>i, <2>1, <3>3
    <3>2. Remembers(c, index[Home[w]], manifest')
      <4>1. cmd[w].done \cup {} = {}
        BY <2>1
      <4> QED BY <4>1, <3>4, JobRemembers
    <3> HIDE DEF c
    <3> QED BY <1>0, <2>1, <3>1, <3>2, <3>3, UndoableByOther
  <2> QED BY <1>4, <2>2, <2>3 DEF ConfirmPurge
<1> QED BY <1>1, <1>2, <1>3, <1>4 DEF Purge

-----------------------------------------------------------------------------
(* Only a reap that is reported changes what was reported first. *)
LEMMA AckedChange ==
  ASSUME [Next]_vars
  PROVE  acked' = acked \/ \E w \in Worker : ConfirmReap(w)
<1> USE DEF ghost
<1>1. ASSUME NEW w \in Worker, Reap(w)
      PROVE  acked' = acked \/ ConfirmReap(w)
  BY <1>1 DEF Reap, StartReap, ReadIdentity, SkipItem, JournalReap, VerifyIdentity,
     MoveIntoQuarantine, MoveFails, EndReap
<1>2. ASSUME NEW w \in Worker, Restore(w)
      PROVE  acked' = acked
  BY <1>2 DEF Restore, StartRestore, StartUndo, LookupEntry, RestoreFromQuarantine, TrySuffix,
     RestoreFails, ConfirmRestore, EndRestore
<1>3. ASSUME NEW w \in Worker, Purge(w)
      PROVE  acked' = acked
  BY <1>3 DEF Purge, StartPurge, StartSweep, PurgeFromQuarantine, PurgeFails, ConfirmPurge, EndPurge
<1>4. ASSUME NEW i \in Instance, Launch(i) \/ Reconcile(i) \/ Scan(i) \/ Crash(i)
      PROVE  acked' = acked
  BY <1>4 DEF Launch, Reconcile, ProbeInFlight, ResolveInFlight, ProbeHeld, ResolveHeld,
     RecoveryStep, RecoveryFails, Scan, Crash
<1>5. CASE World
  BY <1>5 DEF World, UserDeletes, UserWrites, Unplug, Plug, TtlPasses
<1>6. CASE UNCHANGED vars
  BY <1>6 DEF vars
<1> QED BY <1>1, <1>2, <1>3, <1>4, <1>5, <1>6 DEF Next

(* Before the first scan nothing is reaped, so nothing is written. *)
LEMMA UnwrittenStep ==
  ASSUME Typed, Unwritten, BeforeScan, [Next]_vars
  PROVE  Unwritten'
<1> SUFFICES ASSUME spent'["scan"] = 0, NEW id \in Id
             PROVE  manifest'[id].status = "absent" /\ acked'[id] = 0
  BY DEF Unwritten
<1>t. manifest \in [Id -> Row]
  BY DEF Typed, TypeOK, JournalOK
<1>1. /\ \A x \in Id : manifest[x].status = "absent" /\ acked[x] = 0
      /\ \A w \in Worker : cmd[w].pc \notin Reaping
  BY ScansCount DEF Unwritten, BeforeScan
<1>2. ASSUME NEW x \in Id, NEW s, NEW op, NEW actor, ConfirmWithAudit(x, s, op, actor)
      PROVE  manifest' = manifest
  BY <1>1, <1>2 DEF ConfirmWithAudit
<1>3. ASSUME NEW w \in Worker, JournalReap(w) \/ ConfirmReap(w)
      PROVE  FALSE
  BY <1>1, <1>3 DEF JournalReap, ConfirmReap, At, Reaping
<1>4. ASSUME NEW w \in Worker, ConfirmRestore(w) \/ ConfirmPurge(w)
      PROVE  manifest' = manifest
  <2>1. cmd[w].id \in Id
    BY CommandOf DEF Command
  <2> QED BY <1>2, <1>4, <2>1 DEF ConfirmRestore, ConfirmPurge, journal
<1>5. ASSUME NEW i \in Instance, ResolveInFlight(i) \/ ResolveHeld(i)
      PROVE  manifest'[id].status = "absent"
  <2>1. PICK x \in Id : RollBack(x) \/ CompleteReap(x) \/ CompletePurge(x) \/ UNCHANGED journal
    BY <1>5 DEF ResolveInFlight, ResolveHeld
  <2>2. CASE RollBack(x)
    BY <1>t, <1>1, <2>2 DEF RollBack, RemoveEntry, NoRow
  <2>3. CASE CompleteReap(x) \/ CompletePurge(x)
    BY <1>1, <1>2, <2>3 DEF CompleteReap, CompletePurge
  <2> QED BY <1>1, <2>1, <2>2, <2>3 DEF journal
<1>6. ASSUME NEW x \in Id, TtlPasses(x)
      PROVE  FALSE
  BY <1>1, <1>6 DEF TtlPasses
<1>7. manifest'[id].status = "absent"
  BY <1>1, <1>3, <1>4, <1>5, <1>6, JournalChange
<1> QED BY <1>1, <1>3, <1>7, AckedChange

(* Only a scan fills the index, and only of an application that is up. *)
LEMMA UnlistedStep ==
  ASSUME OneInstance, Typed, Unlisted, Still, [Next]_vars
  PROVE  Unlisted'
<1> SUFFICES ASSUME NEW i \in Instance, phase'[i] # "up"
             PROVE  index'[i] = EmptyIndex
  BY DEF Unlisted
<1>t. /\ \A j \in Instance : j = i
      /\ phase \in [Instance -> {"down", "flight", "held", "up"}] /\ index \in [Instance -> [Id -> Candidate]]
  BY DEF Typed, TypeOK, AppOK, OneInstance
<1>1. CASE phase[i] = "up"
  <2>1. ASSUME NEW w \in Worker, Reap(w) \/ Restore(w) \/ Purge(w)
        PROVE  FALSE
    BY <1>t, <1>1, <2>1, WorkerUp, ConstantsOK
  <2>2. ASSUME NEW j \in Instance, Launch(j) \/ Reconcile(j)
        PROVE  FALSE
    BY <1>t, <1>1, <2>2 DEF Launch, Reconcile, ProbeInFlight, ResolveInFlight, ProbeHeld, ResolveHeld,
       RecoveryStep, RecoveryFails
  <2>3. PICK j \in Instance : Crash(j)
    BY <1>1, <2>1, <2>2 DEF Next, World, UserDeletes, UserWrites, Unplug, Plug, TtlPasses, Scan, vars, app
  <2> QED BY <1>t, <2>3 DEF Crash
<1>2. CASE phase[i] # "up"
  <2>1. index[i] = EmptyIndex
    BY <1>2 DEF Unlisted
  <2>2. \A j \in Instance : ~Scan(j)
    BY <1>t, <1>2 DEF Scan
  <2> QED BY <2>1, <2>2, EmptyStays
<1> QED BY <1>1, <1>2

(* An empty index has no record. *)
LEMMA NothingReal ==
  ASSUME NEW id \in Id
  PROVE  ~Real(EmptyIndex[id])
  BY ConstantsOK DEF EmptyIndex, NoCandidate, Real

(* While the application starts there is no command that remembers anything,
   and no index. *)
LEMMA UndoableStart ==
  ASSUME OneInstance, Typed, Undoable, NEW i \in Instance, Launch(i) \/ Reconcile(i)
  PROVE  Remembering' /\ Entered'
<1>1. UNCHANGED <<cmd, index, acked>> /\ phase[i] # "up" /\ \A j \in Instance : j = i
  BY DEF Launch, Reconcile, ProbeInFlight, ResolveInFlight, ProbeHeld, ResolveHeld,
     RecoveryStep, RecoveryFails, OneInstance, ghost
<1>2. \A w \in Worker : cmd'[w] = Idle
  BY <1>1 DEF Undoable, Cleaning, Still
<1>3. \A j \in Instance : index'[j] = EmptyIndex
  BY <1>1 DEF Undoable, Unlisted
<1> QED BY <1>2, <1>3, IdleRemembers, NothingReal DEF Remembering, Entered

(* The one scan lists candidates of which the journal knows nothing. *)
LEMMA UndoableScan ==
  ASSUME OneInstance, Typed, Undoable, ScannedOnce', NEW i \in Instance, Scan(i)
  PROVE  Remembering' /\ Entered'
<1>t. /\ spent \in [Kind -> Nat] /\ "scan" \in Kind /\ index \in [Instance -> [Id -> Candidate]]
      /\ \A w \in Worker : cmd[w] \in Command /\ Home[w] = i
  BY CommandOf, ConstantsOK DEF Typed, TypeOK, AppOK, Kind, OneInstance
<1>1. UNCHANGED <<cmd, manifest, acked>>
  BY DEF Scan, journal, ghost
<1>2. spent["scan"] = 0
  BY <1>t DEF Scan, Spend, ScannedOnce
<1>3. /\ \A id \in Id : Awaits(manifest'[id]) /\ acked'[id] = 0
      /\ \A w \in Worker : cmd[w].pc \notin Reaping
  BY <1>1, <1>2 DEF Undoable, Unwritten, BeforeScan, Awaits
<1>4. Entered'
  BY <1>3 DEF Entered
<1>5. ASSUME NEW w \in Worker
      PROVE  Remembers(cmd[w], index'[Home[w]], manifest)
  <2>1. Remembers(cmd[w], index[Home[w]], manifest)
    BY DEF Undoable, Remembering
  <2>2. Journalled \subseteq Reaping
    BY DEF Journalled, Reaping
  <2> QED BY <1>3, <2>1, <2>2 DEF Remembers
<1> QED BY <1>1, <1>4, <1>5 DEF Remembering

(* A crash leaves no command and no list; the world outside leaves both, and
   of the journal all but the due mark. *)
LEMMA UndoableOutside ==
  ASSUME OneInstance, Typed, Remembering, Entered, (\E i \in Instance : Crash(i)) \/ World \/ UNCHANGED vars
  PROVE  Remembering' /\ Entered'
<1>1. ASSUME NEW i \in Instance, Crash(i)
      PROVE  Remembering' /\ Entered'
  <2>1. /\ \A w \in Worker : cmd'[w] = Idle
        /\ \A j \in Instance : index'[j] = EmptyIndex
    BY <1>1, ConstantsOK DEF Crash, OneInstance, Typed, TypeOK, AppOK
  <2> QED BY <2>1, IdleRemembers, NothingReal DEF Remembering, Entered
<1>2. CASE World \/ UNCHANGED vars
  <2>1. UNCHANGED <<cmd, index, acked>>
    BY <1>2 DEF World, UserDeletes, UserWrites, Unplug, Plug, TtlPasses, vars, app, ghost
  <2>2. ASSUME NEW id \in Id
        PROVE  /\ manifest'[id].status = manifest[id].status
               /\ manifest'[id].batch = manifest[id].batch /\ manifest'[id].path = manifest[id].path
    <3>1. ASSUME NEW x \in Id, TtlPasses(x)
          PROVE  /\ manifest'[id].status = manifest[id].status
                 /\ manifest'[id].batch = manifest[id].batch /\ manifest'[id].path = manifest[id].path
      BY <3>1 DEF TtlPasses, Typed, TypeOK, JournalOK, Row
    <3>2. manifest' = manifest \/ \E x \in Id : TtlPasses(x)
      BY <1>2 DEF World, UserDeletes, UserWrites, Unplug, Plug, vars, journal
    <3> QED BY <3>1, <3>2
  <2>3. \A id \in Id : Awaits(manifest'[id]) = Awaits(manifest[id])
    BY <2>2 DEF Awaits
  <2>4. Entered'
    BY <2>1, <2>2, <2>3, EnteredByWorker DEF Steady, Kept
  <2>5. ASSUME NEW w \in Worker
        PROVE  Remembers(cmd[w], index[Home[w]], manifest')
    <3>1. cmd[w].id \in Id /\ cmd[w].todo \subseteq Id /\ cmd[w].done \subseteq Id
      BY CommandOf DEF Command
    <3>2. Remembers(cmd[w], index[Home[w]], manifest)
      BY DEF Remembering
    <3>3. \A id \in Id : \A batch, path : Kept(manifest[id], batch, path) => Kept(manifest'[id], batch, path)
      BY <2>2, <2>3 DEF Kept
    <3> QED BY <2>2, <2>3, <3>1, <3>2, <3>3 DEF Remembers
  <2> QED BY <2>1, <2>4, <2>5 DEF Remembering
<1> QED BY <1>1, <1>2

(* Every step keeps the invariant while reaps do not overlap. *)
LEMMA UndoableStep ==
  ASSUME OneInstance, Typed, Undoable, ReapsApart, ScannedOnce', [Next]_vars
  PROVE  Undoable'
<1>1. Remembering' /\ Entered'
  BY UndoableReap, UndoableRestore, UndoablePurge, UndoableStart, UndoableScan, UndoableOutside
     DEF Undoable, Next
<1>2. Unwritten' /\ Unlisted' /\ BeforeScan' /\ Cleaning'
  BY UnwrittenStep, UnlistedStep, BeforeScanStep, CleaningStep DEF Undoable, Cleaning
<1> QED BY <1>1, <1>2 DEF Undoable

(* What reap_execute reports as reaped is what an undo will find, with the path
   the file came from, under the batch that was first reported for it: with one
   scan in the life of the journal and reaps that do not overlap, however many
   there are of one candidate and whatever restores, purges, sweeps, crashes and
   failures come between. *)
THEOREM ReapsOnRecord ==
  ASSUME OneInstance
  PROVE  Spec /\ [](ReapsApart /\ ScannedOnce) => []ReapIsOnRecord
<1>1. Typed /\ Undoable => ReapIsOnRecord
  <2> SUFFICES ASSUME Typed, Undoable, NEW w \in Worker, NEW id \in cmd[w].done
               PROVE  manifest[id].batch = acked[id] /\ manifest[id].path = index[Home[w]][id].path
    BY DEF ReapIsOnRecord
  <2>1. Remembers(cmd[w], index[Home[w]], manifest) /\ Home[w] \in Instance
    BY ConstantsOK DEF Undoable, Remembering
  <2>2. id \in Id
    BY CommandOf DEF Command
  <2>3. Real(index[Home[w]][id]) /\ ~Awaits(manifest[id])
    BY <2>1 DEF Remembers
  <2> QED BY <2>1, <2>2, <2>3 DEF Undoable, Entered, Kept
<1>2. Typed /\ Undoable /\ [Next]_vars /\ ReapsApart /\ ScannedOnce /\ (ReapsApart /\ ScannedOnce)'
        => Undoable'
  BY OneInstance, UndoableStep
<1> QED BY <1>1, <1>2, UndoableInit, SpecTyped, PTL DEF Spec

-----------------------------------------------------------------------------
(* What every action does to the rows and surrogates of other entries. *)

(* A confirmation sets one status and no path. *)
LEMMA ConfirmKeeps ==
  ASSUME Typed, NEW x \in Id, NEW s, NEW op, NEW actor, ConfirmWithAudit(x, s, op, actor), NEW id \in Id
  PROVE  /\ manifest'[id].path = manifest[id].path
         /\ status'[id] # status[id] => id = x /\ status'[id] = s
<1>t. manifest \in [Id -> Row]
  BY DEF Typed, TypeOK, JournalOK
<1>1. CASE manifest' = manifest
  BY <1>1 DEF status
<1>2. CASE manifest' = [manifest EXCEPT ![x].status = s]
  <2>1. manifest'[id].path = manifest[id].path /\ (id # x => manifest'[id] = manifest[id])
        /\ (id = x => manifest'[id].status = s)
    BY <1>t, <1>2 DEF Row
  <2> QED BY <2>1 DEF status
<1> QED BY <1>1, <1>2 DEF ConfirmWithAudit

(* Only the insertion of a row and the rollback of one change where it says
   that its file came from, and neither has a surrogate. *)
LEMMA PathsStay ==
  ASSUME Typed, Life, [Next]_vars, NEW id \in Id, manifest'[id].path # manifest[id].path
  PROVE  /\ ~filled[id] /\ UNCHANGED vault
         /\ \/ status[id] = "absent" /\ \E w \in Worker : JournalReap(w)
            \/ status'[id] = "absent" /\ \E i \in Instance : ResolveInFlight(i)
<1>t. manifest \in [Id -> Row]
  BY DEF Typed, TypeOK, JournalOK
<1> USE DEF journal, disk
<1>1. ASSUME NEW w \in Worker, JournalReap(w)
      PROVE  ~filled[id] /\ UNCHANGED vault /\ status[id] = "absent"
  <2>1. cmd[w] \in Command /\ Orderly(cmd[w], status, filled) /\ cmd[w].pc = "insert"
    BY <1>1, CommandOf DEF Life, CommandsOrderly, JournalReap, At
  <2>2. Untouched(cmd[w].id, status, filled)
    BY <2>1 DEF Orderly, Moving, Reaping, Journalled
  <2>3. id = cmd[w].id /\ UNCHANGED vault
    BY <1>1, <1>t DEF JournalReap, InsertEntry
  <2> QED BY <2>2, <2>3 DEF Untouched
<1>2. ASSUME NEW w \in Worker, ConfirmReap(w) \/ ConfirmRestore(w) \/ ConfirmPurge(w)
      PROVE  FALSE
  <2>1. cmd[w].id \in Id
    BY CommandOf DEF Command
  <2> QED BY <1>2, <2>1, ConfirmKeeps DEF ConfirmReap, ConfirmRestore, ConfirmPurge
<1>3. ASSUME NEW i \in Instance, ResolveInFlight(i)
      PROVE  ~filled[id] /\ UNCHANGED vault /\ status'[id] = "absent"
  <2>1. PICK x \in Id :
          /\ FirstOf(rec[i].flight, x)
          /\ IF rec[i].probe = "source" THEN RollBack(x) ELSE CompleteReap(x)
    BY <1>3 DEF ResolveInFlight
  <2>2. rec[i].probe = "source" /\ RollBack(x)
    BY <2>1, ConfirmKeeps DEF CompleteReap
  <2>3. id = x /\ status'[id] = "absent"
    BY <1>t, <2>2 DEF RollBack, RemoveEntry, NoRow, status
  <2>4. phase[i] = "flight" /\ UNCHANGED vault
    BY <1>3 DEF ResolveInFlight
  <2>5. ~filled[id]
    BY <2>1, <2>2, <2>3, <2>4 DEF Life, Starting, Found
  <2> QED BY <2>3, <2>4, <2>5
<1>4. ASSUME NEW i \in Instance, ResolveHeld(i)
      PROVE  FALSE
  BY <1>4, ConfirmKeeps DEF ResolveHeld, CompletePurge
<1>5. ASSUME NEW x \in Id, TtlPasses(x)
      PROVE  FALSE
  BY <1>t, <1>5 DEF TtlPasses, Row
<1> QED BY <1>1, <1>2, <1>3, <1>4, <1>5, JournalChange

(* Only the transaction before the rename puts an entry in flight. *)
LEMMA EntersFlight ==
  ASSUME Typed, [Next]_vars, NEW id \in Id, status'[id] = "in_flight", status[id] # "in_flight"
  PROVE  \E w \in Worker :
           /\ JournalReap(w) /\ cmd[w].id = id /\ Goto(w, "verify")
           /\ manifest'[id].path = cmd[w].path /\ UNCHANGED <<tree, vault>>
<1>t. manifest \in [Id -> Row]
  BY DEF Typed, TypeOK, JournalOK
<1>0. manifest'[id].status = "in_flight" /\ manifest[id].status # "in_flight"
  BY DEF status
<1> USE DEF journal, disk
<1>1. ASSUME NEW w \in Worker, JournalReap(w)
      PROVE  /\ cmd[w].id = id /\ Goto(w, "verify")
             /\ manifest'[id].path = cmd[w].path /\ UNCHANGED <<tree, vault>>
  BY <1>0, <1>1, <1>t DEF JournalReap, InsertEntry
<1>2. ASSUME NEW w \in Worker, ConfirmReap(w) \/ ConfirmRestore(w) \/ ConfirmPurge(w)
      PROVE  FALSE
  <2>1. cmd[w].id \in Id
    BY CommandOf DEF Command
  <2> QED BY <1>0, <1>2, <2>1, ConfirmKeeps DEF ConfirmReap, ConfirmRestore, ConfirmPurge
<1>3. ASSUME NEW i \in Instance, ResolveInFlight(i) \/ ResolveHeld(i)
      PROVE  FALSE
  <2>1. PICK x \in Id : RollBack(x) \/ CompleteReap(x) \/ CompletePurge(x) \/ UNCHANGED journal
    BY <1>3 DEF ResolveInFlight, ResolveHeld
  <2>2. ~RollBack(x)
    BY <1>0, <1>t DEF RollBack, RemoveEntry, NoRow
  <2> QED BY <1>0, <2>1, <2>2, ConfirmKeeps DEF CompleteReap, CompletePurge
<1>4. ASSUME NEW x \in Id, TtlPasses(x)
      PROVE  FALSE
  BY <1>0, <1>t, <1>4 DEF TtlPasses, Row
<1> QED BY <1>0, <1>1, <1>2, <1>3, <1>4, JournalChange

(* Only the transaction after the rename, or a restart, quarantines an entry. *)
LEMMA EntersQuarantine ==
  ASSUME Typed, [Next]_vars, NEW id \in Id, status'[id] = "quarantined", status[id] # "quarantined"
  PROVE  UNCHANGED vault /\ \/ \E w \in Worker : ConfirmReap(w) /\ cmd[w].id = id
                            \/ \E i \in Instance : ResolveInFlight(i)
<1>t. manifest \in [Id -> Row]
  BY DEF Typed, TypeOK, JournalOK
<1>0. manifest'[id].status = "quarantined" /\ manifest[id].status # "quarantined"
  BY DEF status
<1> USE DEF journal, disk
<1>1. ASSUME NEW w \in Worker, JournalReap(w)
      PROVE  FALSE
  BY <1>0, <1>1, <1>t DEF JournalReap, InsertEntry
<1>2. ASSUME NEW w \in Worker, ConfirmReap(w) \/ ConfirmRestore(w) \/ ConfirmPurge(w)
      PROVE  UNCHANGED vault /\ ConfirmReap(w) /\ cmd[w].id = id
  <2>1. cmd[w].id \in Id
    BY CommandOf DEF Command
  <2> QED BY <1>0, <1>2, <2>1, ConfirmKeeps DEF ConfirmReap, ConfirmRestore, ConfirmPurge
<1>3. ASSUME NEW i \in Instance, ResolveHeld(i)
      PROVE  FALSE
  BY <1>0, <1>3, ConfirmKeeps DEF ResolveHeld, CompletePurge
<1>4. ASSUME NEW x \in Id, TtlPasses(x)
      PROVE  FALSE
  BY <1>0, <1>t, <1>4 DEF TtlPasses, Row
<1>5. ASSUME NEW i \in Instance, ResolveInFlight(i)
      PROVE  UNCHANGED vault
  BY <1>5 DEF ResolveInFlight
<1> QED BY <1>0, <1>1, <1>2, <1>3, <1>4, <1>5, JournalChange

(* Only a command that is about to record it takes a file out of the
   directory, and only that of a quarantined entry. *)
LEMMA Emptied ==
  ASSUME Typed, Life, [Next]_vars, NEW id \in Id, filled[id], ~filled'[id]
  PROVE  status[id] = "quarantined" /\ \E w \in Worker : cmd'[w].pc \in Settling /\ cmd'[w].id = id
<1>t. vault \in [Id -> File \cup {NoFile}] /\ cmd \in [Worker -> Command]
  BY DEF Typed, TypeOK, DiskOK
<1>0. vault[id] # NoFile /\ vault'[id] = NoFile
  BY DEF filled
<1>1. ASSUME NEW w \in Worker, MoveIntoQuarantine(w)
      PROVE  FALSE
  <2>1. cmd[w] \in Command /\ Orderly(cmd[w], status, filled) /\ cmd[w].pc = "rename"
    BY <1>1, CommandOf DEF Life, CommandsOrderly, MoveIntoQuarantine, At
  <2>2. ~filled[cmd[w].id]
    BY <2>1 DEF Orderly
  <2> QED BY <1>0, <1>1, <1>t, <2>2 DEF MoveIntoQuarantine
<1>2. ASSUME NEW w \in Worker, RestoreFromQuarantine(w)
      PROVE  status[id] = "quarantined" /\ cmd'[w].pc \in Settling /\ cmd'[w].id = id
  <2>1. cmd[w] \in Command /\ Orderly(cmd[w], status, filled) /\ cmd[w].pc = "return"
    BY <1>2, CommandOf DEF Life, CommandsOrderly, RestoreFromQuarantine, At
  <2>2. id = cmd[w].id
    BY <1>0, <1>2, <1>t DEF RestoreFromQuarantine
  <2>3. cmd'[w].pc = "settle" /\ cmd'[w].id = id
    BY <1>2, <1>t, <2>2 DEF RestoreFromQuarantine, Goto, Command
  <2> QED BY <2>1, <2>2, <2>3 DEF Orderly, Acknowledged, Life, Resting, Settling
<1>3. ASSUME NEW w \in Worker, PurgeFromQuarantine(w)
      PROVE  status[id] = "quarantined" /\ cmd'[w].pc \in Settling /\ cmd'[w].id = id
  <2>1. cmd[w] \in Command /\ Orderly(cmd[w], status, filled) /\ cmd[w].pc = "erase"
    BY <1>3, CommandOf DEF Life, CommandsOrderly, PurgeFromQuarantine, At
  <2>2. PICK x \in Id : /\ x \in cmd[w].todo /\ vault' = [vault EXCEPT ![x] = NoFile]
                        /\ cmd' = [cmd EXCEPT ![w] = [cmd[w] EXCEPT !.pc = "record", !.id = x]]
    BY <1>3 DEF PurgeFromQuarantine, NextTarget
  <2>3. x = id
    BY <1>0, <1>t, <2>2
  <2>4. cmd'[w].pc = "record" /\ cmd'[w].id = id
    BY <1>t, <2>2, <2>3 DEF Command
  <2> QED BY <2>1, <2>2, <2>3, <2>4 DEF Orderly, Acknowledged, Life, Resting, Settling
<1> QED BY <1>0, <1>1, <1>2, <1>3, Footprint DEF UserDeletes, UserWrites

-----------------------------------------------------------------------------
(* Nothing fails and nobody interferes: every file lies at its path or under
   the surrogate name of a row that says so.                               *)
Placed ==
  /\ mounted
  /\ \A s \in Spot : tree[s] # NoFile => s[2] = 0 /\ tree[s] = Original[s[1]]
  /\ \A id \in Id : filled[id] => vault[id] = Original[manifest[id].path]

(* The file of an entry in flight is there, before the rename or after it. *)
Findable == \A id \in Id : status[id] = "in_flight" => filled[id] \/ tree[<<manifest[id].path, 0>>] # NoFile

(* What a command that meets no obstacle knows of its current item.        *)
Knows(c, rows, fl, dirs) ==
  /\ c.pc \in {"insert", "verify", "rename"} => dirs[<<c.path, 0>>] = c.file
  /\ c.pc \in Journalled \cup {"return"} => rows[c.id].path = c.path
  /\ c.pc \in {"lookup", "return"} => c.attempt = 0
  /\ c.pc = "confirm" => fl[c.id]

Aware == \A w \in Worker : Knows(cmd[w], manifest, filled, tree)

Awake == \A i \in Instance : phase[i] = "up"

(* A command takes care of every entry in flight, and of every quarantined one
   whose file has left the directory.                                      *)
Attended ==
  Awake => \A id \in Id :
    /\ status[id] = "in_flight" => \E w \in Worker : cmd[w].pc \in Journalled /\ cmd[w].id = id
    /\ status[id] = "quarantined" /\ ~filled[id] =>
         \E w \in Worker : cmd[w].pc \in Settling /\ cmd[w].id = id

(* The reconciliation knows the paths, and finds one copy of each file.    *)
Recovering ==
  \A i \in Instance : phase[i] = "flight" =>
    /\ rec[i].probe \notin {"both", "missing"}
    /\ \A id \in rec[i].flight : rec[i].rows[id].path = manifest[id].path

Calm == Placed /\ Findable /\ Aware /\ Attended /\ Recovering

(* At the beginning every file lies at its path. *)
LEMMA CalmInit == Init => Calm
<1> SUFFICES ASSUME Init PROVE Calm
  OBVIOUS
<1>1. /\ \A id \in Id : status[id] = "absent" /\ ~filled[id]
      /\ \A w \in Worker : cmd[w].pc = "idle"
      /\ \A i \in Instance : phase[i] = "down"
      /\ mounted
  BY DEF Init, NoRow, status, filled, Idle, Job
<1>2. \A s \in Spot : tree[s] # NoFile => s[2] = 0 /\ tree[s] = Original[s[1]]
  BY DEF Init
<1> QED BY <1>1, <1>2 DEF Calm, Placed, Findable, Aware, Knows, Attended, Recovering, Journalled

(* Obstacles are counted. *)
LEMMA SmoothBefore ==
  ASSUME Typed, [Next]_vars, Smooth'
  PROVE  Smooth /\ ~Unplugged /\ ~Unplugged' /\ \A kind \in {"fault", "edit", "unplug"} : ~Spend(kind)
<1>t. spent \in [Kind -> Nat] /\ spent' \in [Kind -> Nat] /\ {"fault", "edit", "unplug"} \subseteq Kind
  BY TypedStep DEF Typed, TypeOK, Kind
<1>1. ASSUME NEW kind \in Kind, Spend(kind), NEW other \in {"fault", "edit", "unplug"}
      PROVE  spent[other] = 0 /\ kind # other
  <2>1. spent'[other] = 0
    BY DEF Smooth
  <2> QED BY <1>1, <1>t, <2>1 DEF Spend
<1>2. UNCHANGED spent => Smooth
  BY DEF Smooth
<1>3. Smooth
  BY <1>1, <1>2, SpendingStep DEF Smooth
<1>4. ~Unplugged /\ ~Unplugged'
  BY <1>3 DEF Smooth, Unplugged
<1> QED BY <1>1, <1>3, <1>4, <1>t

(* The destination of a restore is free: its file is nowhere else. *)
LEMMA DestinationFree ==
  ASSUME Typed, OnePlace, Placed, Aware, NEW w \in Worker, TrySuffix(w)
  PROVE  FALSE
<1>t. cmd[w] \in Command /\ Sound(cmd[w], index[Home[w]]) /\ cmd[w].pc = "return"
  BY CommandOf DEF TrySuffix, At
<1>1. cmd[w].id \in Id /\ cmd[w].path \in Path /\ cmd[w].attempt = 0
      /\ manifest[cmd[w].id].path = cmd[w].path
  BY <1>t DEF Command, Sound, Aware, Knows
<1>2. <<cmd[w].path, 0>> \in Spot
  BY <1>1, ConstantsOK DEF Spot
<1>3. tree[<<cmd[w].path, 0>>] # NoFile /\ vault[cmd[w].id] # NoFile
  BY <1>1 DEF TrySuffix, Free, Destination
<1>4. tree[<<cmd[w].path, 0>>] = vault[cmd[w].id]
  BY <1>1, <1>2, <1>3 DEF Placed, filled
<1> QED BY <1>1, <1>2, <1>3, <1>4 DEF OnePlace, NothingDuplicated

(* A reap that has its row goes on to the confirmation. *)
LEMMA ReapGoesOn ==
  ASSUME Typed, Placed, Aware, NEW w \in Worker, ~Spend("fault"),
         cmd[w].pc \in Journalled, Reap(w) \/ Restore(w) \/ Purge(w)
  PROVE  \/ VerifyIdentity(w) /\ Goto(w, "rename")
         \/ MoveIntoQuarantine(w)
         \/ ConfirmReap(w) /\ ConfirmWithAudit(cmd[w].id, "quarantined", "reap", "user")
                           /\ NextItem(w, "pick", {cmd[w].id})
<1>t. cmd[w] \in Command /\ Sound(cmd[w], index[Home[w]])
  BY CommandOf
<1>1. Real([path |-> cmd[w].path, file |-> cmd[w].file])
  BY <1>t DEF Sound, Journalled, Moving
<1>2. cmd[w].pc \in {"verify", "rename"} => SameFile(cmd[w].path, cmd[w].file) /\ cmd[w].file # NoFile
  BY <1>1, ConstantsOK DEF SameFile, Placed, Aware, Knows, Real
<1>3. ~Restore(w)
  <2>1. Idle.pc = "idle"
    BY DEF Idle, Job
  <2> QED BY <2>1 DEF Restore, StartRestore, StartUndo, LookupEntry, RestoreFromQuarantine, TrySuffix,
     RestoreFails, ConfirmRestore, EndRestore, Begin, At, Journalled
<1>4. ~Purge(w)
  <2>1. Idle.pc = "idle"
    BY DEF Idle, Job
  <2> QED BY <2>1 DEF Purge, StartPurge, StartSweep, PurgeFromQuarantine, PurgeFails, ConfirmPurge,
     EndPurge, Begin, At, Journalled
<1>5. ~(StartReap(w) \/ ReadIdentity(w) \/ SkipItem(w) \/ JournalReap(w) \/ EndReap(w))
  <2>1. Idle.pc = "idle"
    BY DEF Idle, Job
  <2> QED BY <2>1 DEF StartReap, ReadIdentity, SkipItem, JournalReap, EndReap, Begin, At, Journalled
<1>6. ~MoveFails(w)
  BY <1>2 DEF MoveFails, At, SameFile
<1>7. VerifyIdentity(w) => Goto(w, "rename")
  BY <1>2 DEF VerifyIdentity, At
<1>8. ConfirmReap(w) => ConfirmWithAudit(cmd[w].id, "quarantined", "reap", "user")
                        /\ NextItem(w, "pick", {cmd[w].id})
  BY DEF ConfirmReap
<1> QED BY <1>3, <1>4, <1>5, <1>6, <1>7, <1>8 DEF Reap

(* Renames put every file where its row says, or back to its path. *)
LEMMA PlacedStep ==
  ASSUME OneInstance, Typed, Life, OnePlace, Cleaning, Placed, Aware, Smooth', [Next]_vars
  PROVE  Placed'
<1>t. /\ tree \in [Spot -> File \cup {NoFile}] /\ vault \in [Id -> File \cup {NoFile}]
      /\ \A w \in Worker : cmd[w] \in Command /\ Orderly(cmd[w], status, filled)
                           /\ Knows(cmd[w], manifest, filled, tree) /\ Sound(cmd[w], index[Home[w]])
  BY CommandOf DEF Typed, TypeOK, DiskOK, Life, CommandsOrderly, Aware
<1>0. ASSUME NEW spot \in Spot
      PROVE  ~UserDeletes(spot) /\ \A file \in File : ~UserWrites(spot, file)
  BY SmoothBefore DEF UserDeletes, UserWrites
<1>1. mounted'
  BY CleaningStep, SmoothBefore DEF Cleaning
<1>2. ASSUME NEW s \in Spot, tree'[s] # NoFile
      PROVE  s[2] = 0 /\ tree'[s] = Original[s[1]]
  <2>1. ASSUME NEW w \in Worker, MoveIntoQuarantine(w)
        PROVE  tree'[s] = tree[s]
    BY <1>t, <1>2, <2>1 DEF MoveIntoQuarantine
  <2>2. ASSUME NEW w \in Worker, RestoreFromQuarantine(w), tree'[s] # tree[s]
        PROVE  s[2] = 0 /\ tree'[s] = Original[s[1]]
    <3>1. cmd[w].pc = "return" /\ vault[cmd[w].id] # NoFile
          /\ tree' = [tree EXCEPT ![<<cmd[w].path, cmd[w].attempt>>] = vault[cmd[w].id]]
      BY <2>2 DEF RestoreFromQuarantine, At, Destination
    <3>2. cmd[w].id \in Id /\ cmd[w].attempt = 0 /\ manifest[cmd[w].id].path = cmd[w].path
      BY <1>t, <3>1 DEF Command, Knows
    <3>3. s = <<cmd[w].path, 0>> /\ tree'[s] = vault[cmd[w].id]
      BY <1>t, <2>2, <3>1, <3>2
    <3> QED BY <3>1, <3>2, <3>3 DEF Placed, filled
  <2>3. ASSUME NEW w \in Worker, PurgeFromQuarantine(w)
        PROVE  tree'[s] = tree[s]
    BY <2>3 DEF PurgeFromQuarantine
  <2> QED BY <1>0, <1>2, <2>1, <2>2, <2>3, Footprint DEF Placed
<1>3. ASSUME NEW id \in Id, filled'[id]
      PROVE  vault'[id] = Original[manifest'[id].path]
  <2>1. CASE manifest'[id].path # manifest[id].path
    BY <1>3, <2>1, PathsStay DEF filled
  <2>2. CASE manifest'[id].path = manifest[id].path /\ filled[id]
    <3>1. vault'[id] # NoFile /\ vault[id] = Original[manifest[id].path]
      BY <1>3, <2>2 DEF filled, Placed
    <3>2. ASSUME NEW w \in Worker, MoveIntoQuarantine(w)
          PROVE  vault'[id] = vault[id]
      <4>1. cmd[w].id # id
        BY <1>t, <2>2, <3>2 DEF MoveIntoQuarantine, At, Orderly
      <4> QED BY <1>t, <3>2, <4>1 DEF MoveIntoQuarantine
    <3>3. ASSUME NEW w \in Worker, RestoreFromQuarantine(w) \/ PurgeFromQuarantine(w)
          PROVE  vault'[id] = vault[id]
      BY <1>t, <3>1, <3>3 DEF RestoreFromQuarantine, PurgeFromQuarantine
    <3> QED BY <1>0, <2>2, <3>1, <3>2, <3>3, Footprint
  <2>3. CASE manifest'[id].path = manifest[id].path /\ ~filled[id]
    <3>1. vault'[id] # NoFile /\ vault[id] = NoFile
      BY <1>3, <2>3 DEF filled
    <3>2. PICK w \in Worker : MoveIntoQuarantine(w)
      <4>1. ASSUME NEW w \in Worker, RestoreFromQuarantine(w) \/ PurgeFromQuarantine(w)
            PROVE  FALSE
        BY <1>t, <3>1, <4>1 DEF RestoreFromQuarantine, PurgeFromQuarantine
      <4> QED BY <1>0, <3>1, <4>1, Footprint
    <3>3. /\ cmd[w].pc = "rename" /\ tree[<<cmd[w].path, 0>>] # NoFile
          /\ vault' = [vault EXCEPT ![cmd[w].id] = tree[<<cmd[w].path, 0>>]]
      BY <3>2 DEF MoveIntoQuarantine, At
    <3>4. id = cmd[w].id /\ vault'[id] = tree[<<cmd[w].path, 0>>]
      BY <1>t, <3>1, <3>3 DEF Command
    <3>5. manifest[id].path = cmd[w].path /\ cmd[w].path \in Path
      BY <1>t, <3>3, <3>4 DEF Knows, Journalled, Sound, Moving, Real
    <3>6. <<cmd[w].path, 0>> \in Spot
      BY <3>5, ConstantsOK DEF Spot
    <3> QED BY <2>3, <3>3, <3>4, <3>5, <3>6 DEF Placed
  <2> QED BY <2>1, <2>2, <2>3
<1> QED BY <1>1, <1>2, <1>3 DEF Placed

(* The file of an entry in flight leaves its path only for the directory. *)
LEMMA FindableStep ==
  ASSUME OneInstance, Typed, Life, Findable, Placed, Aware, Attended, Smooth', [Next]_vars
  PROVE  Findable'
<1> SUFFICES ASSUME NEW id \in Id, status'[id] = "in_flight"
             PROVE  filled'[id] \/ tree'[<<manifest'[id].path, 0>>] # NoFile
  BY DEF Findable
<1>t. /\ tree \in [Spot -> File \cup {NoFile}] /\ vault \in [Id -> File \cup {NoFile}]
      /\ \A w \in Worker : cmd[w] \in Command /\ Orderly(cmd[w], status, filled)
                           /\ Knows(cmd[w], manifest, filled, tree) /\ Sound(cmd[w], index[Home[w]])
  BY CommandOf DEF Typed, TypeOK, DiskOK, Life, CommandsOrderly, Aware
<1>1. CASE status[id] # "in_flight"
  <2>1. PICK w \in Worker : /\ JournalReap(w) /\ manifest'[id].path = cmd[w].path
                            /\ UNCHANGED <<tree, vault>>
    BY <1>1, EntersFlight
  <2>2. cmd[w].pc = "insert"
    BY <2>1 DEF JournalReap, At
  <2>3. tree[<<cmd[w].path, 0>>] = cmd[w].file /\ cmd[w].file \in File
    BY <1>t, <2>2 DEF Knows, Sound, Real, Moving
  <2> QED BY <2>1, <2>3, ConstantsOK
<1>2. CASE status[id] = "in_flight"
  <2>1. manifest'[id].path = manifest[id].path
    BY <1>2, PathsStay
  <2>2. CASE filled[id]
    BY <1>2, <2>2, Emptied
  <2>3. CASE ~filled[id]
    <3> DEFINE at == <<manifest[id].path, 0>>
    <3>1. tree[at] # NoFile /\ manifest[id].path \in Path /\ at \in Spot
      BY <1>2, <2>3, ConstantsOK DEF Findable, Typed, RowsSound, status, Spot
    <3> HIDE DEF at
    <3>2. ASSUME NEW w \in Worker, MoveIntoQuarantine(w)
          PROVE  filled'[id] \/ tree'[at] # NoFile
      <4>1. Awake /\ cmd[w].pc = "rename"
        <5>1. Still
          BY DEF Life, Starting, Still
        <5>2. phase[Home[w]] = "up"
          BY <3>2, <5>1, WorkerUp DEF Reap
        <5>3. \A i \in Instance : i = Home[w]
          BY ConstantsOK DEF OneInstance
        <5> QED BY <3>2, <5>2, <5>3 DEF Awake, MoveIntoQuarantine, At
      <4>2. PICK v \in Worker : cmd[v].pc \in Journalled /\ cmd[v].id = id
        BY <1>2, <4>1 DEF Attended
      <4>3. v = w
        BY <4>1, <4>2 DEF Life, Apart, Journalled, Reaping
      <4>4. vault'[id] = tree[<<cmd[w].path, 0>>] /\ cmd[w].path = manifest[id].path
        BY <1>t, <3>2, <4>1, <4>2, <4>3 DEF MoveIntoQuarantine, Knows
      <4> QED BY <3>1, <4>4 DEF filled, at
    <3>3. ASSUME NEW w \in Worker, RestoreFromQuarantine(w) \/ PurgeFromQuarantine(w)
          PROVE  tree'[at] # NoFile
      BY <1>t, <3>1, <3>3 DEF RestoreFromQuarantine, PurgeFromQuarantine
    <3>4. ASSUME NEW spot \in Spot
          PROVE  ~UserDeletes(spot) /\ \A file \in File : ~UserWrites(spot, file)
      BY SmoothBefore DEF UserDeletes, UserWrites
    <3> QED BY <2>1, <3>1, <3>2, <3>3, <3>4, Footprint DEF at
  <2> QED BY <2>2, <2>3
<1> QED BY <1>1, <1>2

(* A command between two items, or an idle one. *)
LEMMA JobKnows ==
  ASSUME NEW pc \in {"idle", "pick", "lookup", "erase"}, NEW ask, NEW todo, NEW batch, NEW done, NEW actor,
         NEW rows, NEW fl, NEW dirs
  PROVE  Knows(Job(pc, ask, todo, batch, done, actor), rows, fl, dirs)
  BY DEF Job, Knows, Journalled

(* A step of the worker's own leaves it with what it knows. *)
LEMMA AwareReap ==
  ASSUME Typed, Life, Placed, Aware, ~Spend("fault"), NEW w \in Worker, Reap(w)
  PROVE  Knows(cmd'[w], manifest', filled', tree')
<1>t. /\ cmd \in [Worker -> Command] /\ cmd[w] \in Command
      /\ Orderly(cmd[w], status, filled) /\ Knows(cmd[w], manifest, filled, tree)
      /\ Sound(cmd[w], index[Home[w]])
      /\ vault \in [Id -> File \cup {NoFile}] /\ manifest \in [Id -> Row]
  BY CommandOf DEF Typed, TypeOK, DiskOK, JournalOK, Life, CommandsOrderly, Aware
<1>i. cmd[w].id \in Id
  BY <1>t DEF Command
<1> USE DEF disk, journal
<1>n. ASSUME NEW done, NextItem(w, "pick", done)
      PROVE  Knows(cmd'[w], manifest', filled', tree')
  BY <1>n, <1>t, JobKnows DEF NextItem
<1>g. ASSUME NEW pc \in Journalled, Goto(w, pc), manifest'[cmd[w].id].path = cmd[w].path,
             pc # "confirm" => tree'[<<cmd[w].path, 0>>] = cmd[w].file,
             pc = "confirm" => filled'[cmd[w].id]
      PROVE  Knows(cmd'[w], manifest', filled', tree')
  <2>1. cmd'[w].pc = pc /\ cmd'[w].id = cmd[w].id /\ cmd'[w].path = cmd[w].path
        /\ cmd'[w].file = cmd[w].file
    BY <1>g, <1>t DEF Goto, Command
  <2> QED BY <1>g, <2>1 DEF Knows, Journalled
<1>1. CASE StartReap(w)
  <2>1. PICK ids : Begin(w, "pick", ids, spent["reap"] + 1, "user")
    BY <1>1 DEF StartReap
  <2> QED BY <1>t, <2>1, JobKnows DEF Begin
<1>2. CASE ReadIdentity(w)
  <2>1. PICK id \in cmd[w].todo :
          /\ SameFile(index[Home[w]][id].path, index[Home[w]][id].file)
          /\ cmd' = [cmd EXCEPT ![w] = [cmd[w] EXCEPT !.pc = "insert", !.id = id,
                 !.path = index[Home[w]][id].path, !.file = index[Home[w]][id].file]]
    BY <1>2 DEF ReadIdentity
  <2> DEFINE c == [cmd[w] EXCEPT !.pc = "insert", !.id = id,
                 !.path = index[Home[w]][id].path, !.file = index[Home[w]][id].file]
  <2>2. c.pc = "insert" /\ c.path = index[Home[w]][id].path /\ c.file = index[Home[w]][id].file
    BY <1>t DEF Command
  <2>3. cmd'[w] = c /\ UNCHANGED tree
    BY <1>2, <1>t, <2>1 DEF ReadIdentity
  <2> HIDE DEF c
  <2> QED BY <2>1, <2>2, <2>3 DEF Knows, SameFile, Journalled
<1>3. CASE SkipItem(w)
  <2>1. cmd'[w].pc = "pick"
    BY <1>3, <1>t DEF SkipItem, At, Command
  <2> QED BY <2>1 DEF Knows, Journalled
<1>4. CASE JournalReap(w)
  <2>1. Goto(w, "verify") /\ InsertEntry(cmd[w].id, cmd[w].path, cmd[w].batch) /\ UNCHANGED tree
        /\ cmd[w].pc = "insert"
    BY <1>4 DEF JournalReap, At
  <2>2. manifest[cmd[w].id].status = "absent"
    BY <1>i, <1>t, <2>1 DEF Orderly, Untouched, Moving, Reaping, Journalled, status
  <2>3. manifest'[cmd[w].id].path = cmd[w].path
    BY <1>i, <1>t, <2>1, <2>2 DEF InsertEntry
  <2> QED BY <1>g, <1>t, <2>1, <2>3 DEF Knows, Journalled
<1>5. CASE EndReap(w)
  BY <1>5, <1>t, JobKnows DEF EndReap, Return, Idle
<1>6. CASE cmd[w].pc \in Journalled
  <2>1. CASE VerifyIdentity(w) /\ Goto(w, "rename")
    BY <1>g, <1>t, <2>1 DEF VerifyIdentity, At, Knows, Journalled
  <2>2. CASE MoveIntoQuarantine(w)
    <3>1. vault'[cmd[w].id] # NoFile
      BY <1>i, <1>t, <2>2 DEF MoveIntoQuarantine
    <3>2. filled'[cmd[w].id] /\ manifest' = manifest
      BY <1>i, <2>2, <3>1 DEF filled, MoveIntoQuarantine
    <3> QED BY <1>g, <1>t, <2>2, <3>2, <1>6 DEF MoveIntoQuarantine, Knows, Journalled
  <2>3. CASE NextItem(w, "pick", {cmd[w].id})
    BY <1>n, <2>3
  <2> QED BY <1>6, <2>1, <2>2, <2>3, ReapGoesOn
<1>7. CASE VerifyIdentity(w) \/ MoveIntoQuarantine(w) \/ MoveFails(w) \/ ConfirmReap(w)
  BY <1>6, <1>7 DEF VerifyIdentity, MoveIntoQuarantine, MoveFails, ConfirmReap, At, Journalled
<1> QED BY <1>1, <1>2, <1>3, <1>4, <1>5, <1>7 DEF Reap

(* The same for restores, which find their destination free. *)
LEMMA AwareRestore ==
  ASSUME Typed, OnePlace, Placed, Aware, NEW w \in Worker, Restore(w)
  PROVE  Knows(cmd'[w], manifest', filled', tree')
<1>t. /\ cmd \in [Worker -> Command] /\ cmd[w] \in Command
      /\ Knows(cmd[w], manifest, filled, tree)
  BY CommandOf DEF Typed, TypeOK, Aware
<1> USE DEF journal
<1>r. Return(w) => Knows(cmd'[w], manifest', filled', tree')
  BY <1>t, JobKnows DEF Return, Idle
<1>1. CASE StartRestore(w) \/ StartUndo(w)
  <2>1. PICK ids : Begin(w, "lookup", ids, 0, "user")
    BY <1>1 DEF StartRestore, StartUndo
  <2> QED BY <1>t, <2>1, JobKnows DEF Begin
<1>2. CASE LookupEntry(w)
  <2>1. PICK id \in cmd[w].todo :
          \/ cmd' = [cmd EXCEPT ![w] = [cmd[w] EXCEPT !.pc = "return", !.id = id, !.path = manifest[id].path]]
          \/ Return(w)
    BY <1>2 DEF LookupEntry
  <2> DEFINE c == [cmd[w] EXCEPT !.pc = "return", !.id = id, !.path = manifest[id].path]
  <2>2. c.pc = "return" /\ c.id = id /\ c.path = manifest[id].path /\ c.attempt = 0
    BY <1>2, <1>t DEF Command, Knows, LookupEntry, At
  <2>3. Return(w) \/ cmd'[w] = c
    BY <1>t, <2>1
  <2> HIDE DEF c
  <2>4. UNCHANGED manifest
    BY <1>2 DEF LookupEntry
  <2> QED BY <1>r, <2>2, <2>3, <2>4 DEF Knows, Journalled
<1>3. CASE RestoreFromQuarantine(w)
  <2>1. cmd'[w].pc = "settle"
    BY <1>3, <1>t DEF RestoreFromQuarantine, Goto, Command
  <2> QED BY <2>1 DEF Knows, Journalled
<1>4. CASE ConfirmRestore(w)
  <2>1. NextItem(w, "lookup", {}) \/ Return(w)
    BY <1>4 DEF ConfirmRestore
  <2>2. CASE NextItem(w, "lookup", {})
    BY <1>t, <2>2, JobKnows DEF NextItem
  <2> QED BY <1>r, <2>1, <2>2
<1>5. CASE RestoreFails(w) \/ EndRestore(w)
  BY <1>r, <1>5 DEF RestoreFails, EndRestore
<1> QED BY <1>1, <1>2, <1>3, <1>4, <1>5, DestinationFree DEF Restore

(* And for purges and sweeps, which need to know nothing. *)
LEMMA AwarePurge ==
  ASSUME Typed, NEW w \in Worker, Purge(w)
  PROVE  Knows(cmd'[w], manifest', filled', tree')
<1>t. cmd \in [Worker -> Command] /\ cmd[w] \in Command
  BY CommandOf DEF Typed, TypeOK
<1>1. CASE StartPurge(w) \/ StartSweep(w)
  <2>1. PICK ids, actor : Begin(w, "erase", ids, 0, actor)
    BY <1>1 DEF StartPurge, StartSweep
  <2>2. cmd'[w] = Job("erase", ids, ids, 0, {}, actor)
    BY <1>t, <2>1 DEF Begin
  <2> QED BY <2>2, JobKnows
<1>2. CASE PurgeFromQuarantine(w)
  <2>1. cmd'[w].pc = "record"
    BY <1>2, <1>t DEF PurgeFromQuarantine, Command
  <2> QED BY <2>1 DEF Knows, Journalled
<1>3. CASE ConfirmPurge(w) \/ PurgeFails(w) \/ EndPurge(w)
  <2>1. NextItem(w, "erase", {}) \/ Return(w)
    BY <1>3 DEF ConfirmPurge, PurgeFails, EndPurge
  <2>2. CASE NextItem(w, "erase", {})
    BY <1>t, <2>2, JobKnows DEF NextItem
  <2>3. CASE Return(w)
    BY <1>t, <2>3, JobKnows DEF Return, Idle
  <2> QED BY <2>1, <2>2, <2>3
<1> QED BY <1>1, <1>2, <1>3 DEF Purge

(* A command knows as much after every step as it needs. *)
LEMMA AwareStep ==
  ASSUME Typed, Life, Life', OnePlace, Placed, Aware, Smooth', [Next]_vars
  PROVE  Aware'
<1> SUFFICES ASSUME NEW v \in Worker
             PROVE  Knows(cmd'[v], manifest', filled', tree')
  BY DEF Aware
<1>t. /\ tree \in [Spot -> File \cup {NoFile}] /\ vault \in [Id -> File \cup {NoFile}]
      /\ cmd \in [Worker -> Command] /\ cmd[v] \in Command /\ Orderly(cmd[v], status, filled)
      /\ Knows(cmd[v], manifest, filled, tree) /\ Sound(cmd[v], index[Home[v]])
  BY CommandOf DEF Typed, TypeOK, DiskOK, Life, CommandsOrderly, Aware
<1>s. Smooth /\ ~Spend("fault") /\ ~Spend("edit")
  BY SmoothBefore
<1>1. CASE cmd'[v] # cmd[v]
  <2>1. CASE Reap(v)
    BY <1>s, <2>1, AwareReap
  <2>2. CASE Restore(v)
    BY <2>2, AwareRestore
  <2>3. CASE Purge(v)
    BY <2>3, AwarePurge
  <2>4. CASE cmd'[v] = Idle
    BY <2>4, JobKnows DEF Idle
  <2> QED BY <1>1, <2>1, <2>2, <2>3, <2>4, WorkerStep
<1>2. CASE cmd'[v] = cmd[v]
  <2>1. Orderly(cmd[v], status', filled') /\ cmd[v].id \in Id
    BY <1>2, <1>t DEF Life, CommandsOrderly, Command
  <2>2. cmd[v].pc \in Journalled \cup {"return"} => manifest'[cmd[v].id].path = cmd[v].path
    <3>1. cmd[v].pc \in Journalled \cup {"return"} =>
            status[cmd[v].id] # "absent" /\ status'[cmd[v].id] # "absent"
      BY <1>t, <2>1 DEF Orderly, Acknowledged
    <3>2. manifest'[cmd[v].id].path # manifest[cmd[v].id].path =>
            status[cmd[v].id] = "absent" \/ status'[cmd[v].id] = "absent"
      BY <2>1, PathsStay
    <3> QED BY <1>t, <3>1, <3>2 DEF Knows
  <2>3. cmd[v].pc = "confirm" => filled'[cmd[v].id]
    <3>1. cmd[v].pc = "confirm" => filled[cmd[v].id] /\ status[cmd[v].id] = "in_flight"
      BY <1>t DEF Knows, Orderly, Journalled
    <3> QED BY <2>1, <3>1, Emptied
  <2>4. cmd[v].pc \in {"insert", "verify", "rename"} => tree'[<<cmd[v].path, 0>>] = cmd[v].file
    <3> SUFFICES ASSUME cmd[v].pc \in {"insert", "verify", "rename"}
                 PROVE  tree'[<<cmd[v].path, 0>>] = cmd[v].file
      OBVIOUS
    <3>1. /\ tree[<<cmd[v].path, 0>>] = cmd[v].file /\ cmd[v].file # NoFile
          /\ <<cmd[v].path, 0>> \in Spot
      BY <1>t, ConstantsOK DEF Knows, Sound, Real, Moving, Spot
    <3>2. ASSUME NEW w \in Worker, MoveIntoQuarantine(w)
          PROVE  FALSE
      <4>1. cmd[w].pc = "rename" /\ cmd[w] \in Command /\ cmd' = [cmd EXCEPT ![w].pc = "confirm"]
        BY <3>2, CommandOf DEF MoveIntoQuarantine, At, Goto
      <4>2. v = w
        BY <4>1 DEF Life, Apart, Reaping
      <4>3. cmd'[v].pc = "confirm"
        BY <1>t, <4>1, <4>2 DEF Command
      <4> QED BY <1>2, <4>3
    <3>3. ASSUME NEW w \in Worker, RestoreFromQuarantine(w) \/ PurgeFromQuarantine(w)
          PROVE  tree'[<<cmd[v].path, 0>>] = tree[<<cmd[v].path, 0>>]
      BY <1>t, <3>1, <3>3 DEF RestoreFromQuarantine, PurgeFromQuarantine, Free
    <3> QED BY <1>s, <3>1, <3>2, <3>3, Footprint DEF UserDeletes, UserWrites
  <2> QED BY <1>2, <1>t, <2>2, <2>3, <2>4 DEF Knows
<1> QED BY <1>1, <1>2

(* A worker's step leaves no entry unattended: it takes care of those it stops
   in the middle of, and records those it has finished with. *)
LEMMA AttendedByWorker ==
  ASSUME Typed, Life, Placed, Aware, Attended, Awake, ~Spend("fault"), [Next]_vars,
         NEW w \in Worker, Reap(w) \/ Restore(w) \/ Purge(w)
  PROVE  Attended'
<1>t. cmd \in [Worker -> Command] /\ cmd[w] \in Command
  BY CommandOf DEF Typed, TypeOK
<1>o. \A v \in Worker : v # w => cmd'[v] = cmd[v]
  BY <1>t, CommandChange
<1>1. ASSUME NEW id \in Id, status'[id] = "in_flight"
      PROVE  \E v \in Worker : cmd'[v].pc \in Journalled /\ cmd'[v].id = id
  <2>1. CASE status[id] # "in_flight"
    <3>1. PICK v \in Worker : Goto(v, "verify") /\ cmd[v].id = id
      BY <1>1, <2>1, EntersFlight
    <3>2. cmd'[v].pc = "verify" /\ cmd'[v].id = id
      BY <1>t, <3>1 DEF Goto, Command
    <3> QED BY <3>2 DEF Journalled
  <2>2. CASE status[id] = "in_flight"
    <3>1. PICK v \in Worker : cmd[v].pc \in Journalled /\ cmd[v].id = id
      BY <2>2 DEF Attended
    <3>2. CASE v # w
      BY <1>o, <3>1, <3>2
    <3>3. CASE v = w
      <4>1. ASSUME NEW pc \in {"rename", "confirm"}, Goto(w, pc)
            PROVE  cmd'[w].pc \in Journalled /\ cmd'[w].id = id
        BY <1>t, <3>1, <3>3, <4>1 DEF Goto, Command, Journalled
      <4>2. ASSUME ConfirmWithAudit(cmd[w].id, "quarantined", "reap", "user")
            PROVE  FALSE
        BY <1>1, <2>2, <3>1, <3>3, <4>2 DEF ConfirmWithAudit, status, Typed, TypeOK, JournalOK, Row
      <4> QED BY <3>1, <3>3, <4>1, <4>2, ReapGoesOn DEF MoveIntoQuarantine
    <3> QED BY <3>2, <3>3
  <2> QED BY <2>1, <2>2
<1>2. ASSUME NEW id \in Id, status'[id] = "quarantined", ~filled'[id]
      PROVE  \E v \in Worker : cmd'[v].pc \in Settling /\ cmd'[v].id = id
  <2>1. CASE filled[id]
    BY <1>2, <2>1, Emptied
  <2>2. CASE ~filled[id] /\ status[id] # "quarantined"
    <3>1. ASSUME NEW v \in Worker, ConfirmReap(v), cmd[v].id = id
          PROVE  FALSE
      BY <2>2, <3>1 DEF ConfirmReap, At, Aware, Knows
    <3>2. ASSUME NEW i \in Instance, ResolveInFlight(i)
          PROVE  FALSE
      BY <3>2 DEF ResolveInFlight, Awake
    <3> QED BY <1>2, <2>2, <3>1, <3>2, EntersQuarantine
  <2>3. CASE ~filled[id] /\ status[id] = "quarantined"
    <3>1. PICK v \in Worker : cmd[v].pc \in Settling /\ cmd[v].id = id
      BY <2>3 DEF Attended
    <3>2. CASE v # w
      BY <1>o, <3>1, <3>2
    <3>3. CASE v = w
      <4>0. Idle.pc \notin Settling
        BY DEF Idle, Job, Settling
      <4>1. ASSUME NEW s \in {"restored", "purged"}, NEW op, NEW actor, ConfirmWithAudit(cmd[w].id, s, op, actor)
            PROVE  FALSE
        BY <1>2, <2>3, <3>1, <3>3, <4>1 DEF ConfirmWithAudit, status, Typed, TypeOK, JournalOK, Row
      <4>2. ~Reap(w)
        BY <3>1, <3>3, <4>0 DEF Reap, StartReap, ReadIdentity, SkipItem, JournalReap, VerifyIdentity,
           MoveIntoQuarantine, MoveFails, ConfirmReap, EndReap, Begin, At, Settling
      <4>3. ~Restore(w)
        <5>1. ~ConfirmRestore(w)
          BY <4>1 DEF ConfirmRestore
        <5> QED BY <3>1, <3>3, <4>0, <5>1 DEF Restore, StartRestore, StartUndo, LookupEntry,
              RestoreFromQuarantine, TrySuffix, RestoreFails, EndRestore, Begin, At, Settling
      <4>4. ~Purge(w)
        <5>1. ~ConfirmPurge(w)
          BY <4>1 DEF ConfirmPurge
        <5> QED BY <3>1, <3>3, <4>0, <5>1 DEF Purge, StartPurge, StartSweep, PurgeFromQuarantine,
              PurgeFails, EndPurge, Begin, At, Settling
      <4> QED BY <4>2, <4>3, <4>4
    <3> QED BY <3>2, <3>3
  <2> QED BY <2>1, <2>2, <2>3
<1> QED BY <1>1, <1>2 DEF Attended

(* A restart that ends leaves none unattended either. *)
LEMMA AttendedStep ==
  ASSUME OneInstance, Typed, Life, Cleaning, Placed, Aware, Attended, Recovering, Smooth', [Next]_vars
  PROVE  Attended'
<1> SUFFICES ASSUME Awake' PROVE Attended'
  BY DEF Attended
<1>s. ~Unplugged /\ ~Spend("fault")
  BY SmoothBefore
<1>t. phase \in [Instance -> {"down", "flight", "held", "up"}] /\ rec \in [Instance -> Recovery]
  BY DEF Typed, TypeOK, AppOK
<1>1. ASSUME NEW w \in Worker, Reap(w) \/ Restore(w) \/ Purge(w)
      PROVE  Attended'
  <2>1. phase[Home[w]] = "up"
    BY <1>1, WorkerUp DEF Cleaning
  <2>2. Awake
    BY <2>1, ConstantsOK DEF Awake, OneInstance
  <2> QED BY <1>1, <1>s, <2>2, AttendedByWorker
<1>2. ASSUME NEW i \in Instance, Launch(i) \/ Reconcile(i)
      PROVE  Attended'
  <2>1. phase'[i] = "up"
    BY DEF Awake
  <2>2. ~Launch(i) /\ ~ProbeInFlight(i) /\ ~ResolveInFlight(i) /\ ~ProbeHeld(i) /\ ~ResolveHeld(i)
    BY <1>t, <2>1 DEF Launch, ProbeInFlight, ResolveInFlight, ProbeHeld, ResolveHeld
  <2>3. ~RecoveryFails(i)
    BY <1>s DEF RecoveryFails, Recovering
  <2>4. RecoveryStep(i)
    BY <1>2, <2>2, <2>3 DEF Reconcile
  <2>5. phase[i] = "held" /\ rec[i].held = {} /\ UNCHANGED <<manifest, vault>>
    BY <1>t, <2>1, <2>4 DEF RecoveryStep, journal, disk
  <2>6. \A id \in Id : status[id] # "in_flight" /\ (status[id] = "quarantined" => filled[id])
    BY <1>s, <2>5 DEF Cleaning, Here
  <2>7. UNCHANGED <<status, filled>>
    BY <2>5, SameAll
  <2> QED BY <2>6, <2>7 DEF Attended
<1>3. CASE (\E i \in Instance : Scan(i) \/ Crash(i)) \/ World \/ UNCHANGED vars
  <2>1. \A i \in Instance : ~Crash(i)
    BY <1>t DEF Crash, Awake
  <2>2. UNCHANGED <<cmd, phase>>
    BY <1>3, <2>1 DEF World, UserDeletes, UserWrites, Unplug, Plug, TtlPasses, Scan, vars, app
  <2>3. UNCHANGED <<status, filled>>
    BY <1>3, ElsewhereSame
  <2> QED BY <2>2, <2>3 DEF Attended, Awake
<1> QED BY <1>1, <1>2, <1>3 DEF Next

(* A reconciliation finds each file it asks for once: nobody made a copy. *)
LEMMA RecoveringStep ==
  ASSUME OneInstance, Typed, Life, OnePlace, Placed, Findable, Recovering, [Next]_vars
  PROVE  Recovering'
<1> SUFFICES ASSUME NEW i \in Instance, phase'[i] = "flight"
             PROVE  /\ rec'[i].probe \notin {"both", "missing"}
                    /\ \A id \in rec'[i].flight : rec'[i].rows[id].path = manifest'[id].path
  BY DEF Recovering
<1>t. /\ phase \in [Instance -> {"down", "flight", "held", "up"}] /\ rec \in [Instance -> Recovery]
      /\ rec[i] \in Recovery /\ \A j \in Instance : j = i
      /\ phase[i] # "up" => \A w \in Worker : cmd[w] = Idle
  BY DEF Typed, TypeOK, AppOK, OneInstance, Life, Starting
<1>0. ASSUME NEW w \in Worker, Reap(w) \/ Restore(w) \/ Purge(w)
      PROVE  FALSE
  <2>1. Still
    BY DEF Life, Starting, Still
  <2>2. phase[Home[w]] = "up" /\ phase' = phase
    BY <1>0, <2>1, WorkerUp
  <2> QED BY <1>t, <2>2, ConstantsOK
<1>1. CASE Launch(i)
  <2>1. rec'[i] = [rows |-> manifest, flight |-> In("in_flight"), held |-> In("quarantined"), probe |-> "none"]
    BY <1>1, <1>t DEF Launch
  <2> QED BY <1>1, <2>1 DEF Launch, journal
<1>2. CASE ProbeInFlight(i)
  <2>1. PICK x \in Id :
          /\ FirstOf(rec[i].flight, x)
          /\ LET source == mounted /\ tree[<<rec[i].rows[x].path, 0>>] # NoFile
                 moved  == mounted /\ vault[x] # NoFile
             IN rec' = [rec EXCEPT ![i].probe =
                          IF source /\ moved THEN "both"
                          ELSE IF source THEN "source"
                          ELSE IF moved THEN "vault" ELSE "missing"]
    BY <1>2 DEF ProbeInFlight
  <2>2. rec'[i].flight = rec[i].flight /\ rec'[i].rows = rec[i].rows
        /\ phase[i] = "flight" /\ UNCHANGED manifest
    BY <1>2, <1>t, <2>1 DEF Recovery, ProbeInFlight, journal
  <2>3. status[x] = "in_flight" /\ rec[i].rows[x].path = manifest[x].path /\ manifest[x].path \in Path
    BY <2>1, <2>2 DEF FirstOf, Life, Starting, Recovering, Typed, RowsSound, status
  <2> DEFINE at == <<manifest[x].path, 0>>
  <2>4. ~(tree[at] # NoFile /\ vault[x] # NoFile)
    <3>1. at \in Spot
      BY <2>3, ConstantsOK DEF Spot
    <3>2. ASSUME tree[at] # NoFile, vault[x] # NoFile
          PROVE  tree[at] = vault[x]
      BY <3>1, <3>2 DEF Placed, filled
    <3> QED BY <3>1, <3>2 DEF OnePlace, NothingDuplicated
  <2>5. tree[at] # NoFile \/ vault[x] # NoFile
    BY <2>3 DEF Findable, filled
  <2>6. rec'[i].probe \in {"source", "vault"}
    BY <1>t, <2>1, <2>3, <2>4, <2>5 DEF Recovery, Placed
  <2> QED BY <2>2, <2>6 DEF Recovering
<1>3. CASE ResolveInFlight(i)
  <2>1. PICK x \in Id :
          /\ RollBack(x) \/ CompleteReap(x)
          /\ rec' = [rec EXCEPT ![i].flight = @ \ {x}, ![i].probe = "none"]
    BY <1>3 DEF ResolveInFlight
  <2>2. /\ rec'[i].flight = rec[i].flight \ {x} /\ rec'[i].rows = rec[i].rows
        /\ rec'[i].probe = "none" /\ phase[i] = "flight" /\ rec[i].flight \subseteq Id
    BY <1>3, <1>t, <2>1 DEF Recovery, ResolveInFlight
  <2>3. \A id \in Id \ {x} : manifest'[id].path = manifest[id].path
    BY <2>1, ConfirmKeeps DEF RollBack, RemoveEntry, CompleteReap, Typed, TypeOK, JournalOK
  <2> QED BY <2>2, <2>3 DEF Recovering
<1>4. CASE ProbeHeld(i) \/ ResolveHeld(i) \/ RecoveryStep(i) \/ RecoveryFails(i)
  BY <1>4, <1>t DEF ProbeHeld, ResolveHeld, RecoveryStep, RecoveryFails
<1>5. CASE (\E j \in Instance : Scan(j) \/ Crash(j)) \/ World \/ UNCHANGED vars
  <2>1. UNCHANGED <<phase, rec>>
    BY <1>5, ElsewhereStopped DEF Stopped
  <2>2. \A id \in Id : manifest'[id].path = manifest[id].path
    <3>1. ASSUME NEW x \in Id, TtlPasses(x), NEW id \in Id
          PROVE  manifest'[id].path = manifest[id].path
      BY <3>1 DEF TtlPasses, Typed, TypeOK, JournalOK, Row
    <3>2. UNCHANGED manifest \/ \E x \in Id : TtlPasses(x)
      BY <1>5 DEF World, UserDeletes, UserWrites, Unplug, Plug, Scan, Crash, vars, journal
    <3> QED BY <3>1, <3>2
  <2> QED BY <1>t, <2>1, <2>2 DEF Recovering, Recovery
<1> QED BY <1>0, <1>1, <1>2, <1>3, <1>4, <1>5, <1>t DEF Next, Reconcile

(* Every step keeps the calm. *)
LEMMA CalmStep ==
  ASSUME OneInstance, Typed, Life, Life', OnePlace, Cleaning, Calm, Smooth', [Next]_vars
  PROVE  Calm'
  BY PlacedStep, FindableStep, AwareStep, AttendedStep, RecoveringStep DEF Calm

(* While the application runs and no command does, a row is quarantined exactly
   when its surrogate lies in the directory, and an abandoned row never hides
   one: with one reap, no failures and nobody interfering, whatever restores,
   purges, sweeps and crashes come between. *)
THEOREM SettlesDown ==
  ASSUME OneInstance
  PROVE  Spec => []Settled
<1> DEFINE Quiet == ReapedOnce /\ Smooth
<1>1. Init => (Quiet => Calm) /\ Cleaning
  BY CalmInit, CleaningInit
<1>2. /\ Typed /\ Typed' /\ [Next]_vars
      /\ (ReapedOnce => Life /\ Fate) /\ (ReapedOnce => Life /\ Fate)'
      /\ (Quiet => Calm) /\ Cleaning
      => (Quiet => Calm)' /\ Cleaning'
  <2> SUFFICES ASSUME Typed, [Next]_vars, ReapedOnce => Life /\ Fate, (ReapedOnce => Life /\ Fate)',
                      Quiet => Calm, Cleaning
               PROVE  (Quiet => Calm)' /\ Cleaning'
    OBVIOUS
  <2>1. Cleaning'
    BY OneInstance, CleaningStep
  <2>2. ASSUME Quiet' PROVE Calm'
    <3>1. ReapedOnce /\ Smooth
      BY <2>2, ReapsCount, SmoothBefore
    <3> QED BY <2>2, <3>1, OneInstance, CalmStep DEF Fate
  <2> QED BY <2>1, <2>2
<1>3. Typed /\ (ReapedOnce => Life /\ Fate) /\ (Quiet => Calm) => Settled
  <2> SUFFICES ASSUME Typed, Life, Calm, Awake, \A w \in Worker : cmd[w] = Idle, NEW id \in Id
               PROVE  manifest[id].status = "quarantined" <=> vault[id] # NoFile
    BY DEF Settled, Awake
  <2>1. Idle.pc \notin Journalled \cup Settling
    BY DEF Idle, Job, Journalled, Settling
  <2>2. status[id] # "in_flight" /\ (status[id] = "quarantined" => filled[id])
    BY <2>1 DEF Calm, Attended
  <2>3. filled[id] => status[id] = "quarantined"
    <3>1. status[id] \in Status
      BY DEF Typed, TypeOK, JournalOK, Row, status
    <3> QED BY <2>2, <3>1 DEF Life, Resting, Status
  <2> QED BY <2>2, <2>3 DEF status, filled
<1> QED BY <1>1, <1>2, <1>3, OneInstance, FateHolds, SpecTyped, PTL DEF Spec
=============================================================================
