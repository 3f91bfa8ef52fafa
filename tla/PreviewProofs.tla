--------------------------- MODULE PreviewProofs ---------------------------
(***************************************************************************)
(* What holds of the preview pipeline for any files, hooks and workers and *)
(* any number of commands, edits and faults: the types, that no wake-up of *)
(* the scheduler is lost, that its table names only running jobs, and that *)
(* the cache never takes an old picture for a current one, unless two jobs *)
(* crossed.                                                                *)
(***************************************************************************)
EXTENDS Preview, SequenceTheorems, FiniteSetTheorems, TLAPS

-----------------------------------------------------------------------------
(* Sequences. *)

(* Removing an element. *)
LEMMA Removed ==
  ASSUME NEW S, NEW s \in Seq(S), NEW i \in 1 .. Len(s)
  PROVE  RemoveAt(s, i) \in Seq(S) /\ Len(RemoveAt(s, i)) = Len(s) - 1
<1> DEFINE a == SubSeq(s, 1, i - 1)
           b == SubSeq(s, i + 1, Len(s))
<1>1. Len(s) \in Nat
  OBVIOUS
<1>2. a \in Seq(S) /\ Len(a) = i - 1
  BY <1>1, SubSeqProperties
<1>3. b \in Seq(S) /\ Len(b) = Len(s) - i
  BY <1>1, SubSeqProperties
<1>4. a \o b \in Seq(S) /\ Len(a \o b) = Len(a) + Len(b)
  BY <1>2, <1>3, ConcatProperties
<1>5. RemoveAt(s, i) = a \o b
  BY DEF RemoveAt
<1>6. i - 1 + (Len(s) - i) = Len(s) - 1
  BY <1>1
<1>7. Len(a \o b) = Len(s) - 1
  BY <1>2, <1>3, <1>4, <1>6
<1> QED BY <1>4, <1>5, <1>7

-----------------------------------------------------------------------------
(* The scheduler. *)

(* A dropped scheduler has an empty queue. *)
Emptied == stop => pending = <<>>

SchedulerInv == SchedulerTypeOK /\ Emptied /\ WorkConserving /\ TableIsCurrent

(* The tasks that stay when a new one comes. *)
LEMMA OthersTyped ==
  ASSUME NEW S, pending \in Seq(S), NEW t
  PROVE  Others(t) \in Seq(S) /\ Len(Others(t)) <= Len(pending)
<1>1. CASE Waits(t) = {}
  BY <1>1 DEF Others
<1>2. CASE Waits(t) # {}
  <2>1. (CHOOSE i \in Waits(t) : TRUE) \in Waits(t)
    BY <1>2
  <2>2. (CHOOSE i \in Waits(t) : TRUE) \in 1 .. Len(pending)
    BY <2>1 DEF Waits
  <2>3. Len(pending) \in Nat
    OBVIOUS
  <2> QED BY <1>2, <2>2, <2>3, Removed DEF Others
<1> QED BY <1>1, <1>2

(* A worker that starts to look adds one to those that look. *)
LEMMA OneMoreLooks ==
  ASSUME SchedulerTypeOK, NEW w \in Worker, at[w] = "wait", at' = [at EXCEPT ![w] = "look"]
  PROVE  /\ Cardinality(Looking) \in Nat
         /\ Cardinality(Looking') = Cardinality(Looking) + 1
<1>1. IsFiniteSet(Looking)
  BY SchedulerConstantsOK, FS_Subset DEF Looking
<1>2. w \notin Looking /\ Looking' = Looking \cup {w}
  BY DEF SchedulerTypeOK, Looking
<1> QED BY <1>1, <1>2, FS_AddElement, FS_CardinalityType

(* One that leaves takes one away. *)
LEMMA OneLessLooks ==
  ASSUME SchedulerTypeOK, NEW w \in Worker, at[w] = "look", NEW place, place # "look",
         at' = [at EXCEPT ![w] = place]
  PROVE  /\ Cardinality(Looking) \in Nat
         /\ Cardinality(Looking') = Cardinality(Looking) - 1
<1>1. IsFiniteSet(Looking)
  BY SchedulerConstantsOK, FS_Subset DEF Looking
<1>2. w \in Looking /\ Looking' = Looking \ {w}
  BY DEF SchedulerTypeOK, Looking
<1> QED BY <1>1, <1>2, FS_RemoveElement, FS_CardinalityType

(* After notify_all nobody sleeps. *)
LEMMA AllAwake ==
  ASSUME SchedulerTypeOK, NEW w \in Worker, at' \in {NotifyAll(at), [NotifyAll(at) EXCEPT ![w] = "look"]}
  PROVE  Asleep' = {}
  BY DEF SchedulerTypeOK, NotifyAll, Asleep

(* The first state. *)
LEMMA SchedulerStarts == ASSUME SchedulerInit PROVE SchedulerInv
<1>1. SchedulerTypeOK
  <2>1. pending \in Seq(Task)
    BY EmptySeq DEF SchedulerInit
  <2>2. \A w \in Worker : task[w] = NoTask <=> at[w] \in {"look", "wait", "gone"}
    BY DEF SchedulerInit
  <2>3. running \in [Key -> Worker \cup {NoWorker}]
    BY DEF SchedulerInit
  <2> QED BY <2>1, <2>2, <2>3 DEF SchedulerInit, SchedulerTypeOK
<1>2. Asleep = {}
  BY DEF SchedulerInit, Asleep
<1>3. TableIsCurrent
  BY DEF SchedulerInit, TableIsCurrent, Key
<1> QED BY <1>1, <1>2, <1>3 DEF SchedulerInv, Emptied, WorkConserving, SchedulerInit

(* A new task. *)
LEMMA SubmitKeeps ==
  ASSUME SchedulerInv, NEW t \in Task, SubmitJob(t)
  PROVE  SchedulerInv'
<1> USE DEF SchedulerInv
<1>1. CASE stop
  BY <1>1 DEF SubmitJob, SchedulerTypeOK, Emptied, WorkConserving, TableIsCurrent, Asleep, Looking
<1>2. CASE ~stop
  <2>1. pending' = Append(Others(t), t) /\ at' \in NotifyOne
    BY <1>2 DEF SubmitJob
  <2>2. UNCHANGED <<running, task, cancelled, stop>>
    BY DEF SubmitJob
  <2>3. /\ pending' \in Seq(Task)
        /\ Len(pending') <= Len(pending) + 1
        /\ Len(pending) \in Nat /\ Len(pending') \in Nat
    BY <2>1, OthersTyped, AppendProperties DEF SchedulerTypeOK
  <2>4. CASE Asleep = {}
    <3>1. at' = at
      BY <2>1, <2>4 DEF NotifyOne
    <3> QED BY <1>2, <2>2, <2>3, <2>4, <3>1
            DEF SchedulerTypeOK, Emptied, WorkConserving, TableIsCurrent, Asleep
  <2>5. CASE Asleep # {}
    <3>1. PICK w \in Asleep : at' = [at EXCEPT ![w] = "look"]
      BY <2>1, <2>5 DEF NotifyOne
    <3>2. w \in Worker /\ at[w] = "wait"
      BY <3>1 DEF Asleep
    <3>3. Len(pending) <= Cardinality(Looking)
      BY <2>5 DEF WorkConserving
    <3>4. Cardinality(Looking) \in Nat /\ Cardinality(Looking') = Cardinality(Looking) + 1
      BY <3>1, <3>2, OneMoreLooks
    <3>6. Len(pending') <= Cardinality(Looking')
      BY <2>3, <3>3, <3>4
    <3>5. SchedulerTypeOK'
      BY <2>2, <2>3, <3>1, <3>2 DEF SchedulerTypeOK
    <3> QED BY <1>2, <2>2, <3>5, <3>6 DEF Emptied, WorkConserving, TableIsCurrent
  <2> QED BY <2>4, <2>5
<1> QED BY <1>1, <1>2

(* A task is taken. *)
LEMMA TakeKeeps ==
  ASSUME SchedulerInv, NEW w \in Worker, Take(w)
  PROVE  SchedulerInv'
<1> USE DEF SchedulerInv
<1>1. PICK i \in DOMAIN pending :
        /\ pending' = RemoveAt(pending, i)
        /\ task' = [task EXCEPT ![w] = pending[i]]
        /\ running' = [running EXCEPT ![KeyOf(pending[i])] = w]
  BY DEF Take
<1>2. at[w] = "look" /\ ~stop /\ stop' = stop /\ at' = [at EXCEPT ![w] = "draw"]
      /\ cancelled' = cancelled \ {w}
  BY DEF Take
<1>3. i \in 1 .. Len(pending) /\ Len(pending) \in Nat /\ pending[i] \in Task
  BY <1>1 DEF SchedulerTypeOK
<1>4. pending' \in Seq(Task) /\ Len(pending') = Len(pending) - 1
  BY <1>1, <1>3, Removed DEF SchedulerTypeOK
<1>5. KeyOf(pending[i]) \in Key
  BY <1>3 DEF KeyOf, Key, Task
<1>6. SchedulerTypeOK'
  <2>1. running' \in [Key -> Worker \cup {NoWorker}]
    BY <1>1, <1>5 DEF SchedulerTypeOK
  <2>2. task' \in [Worker -> Task \cup {NoTask}] /\ pending[i] # NoTask
    BY <1>1, <1>3, SchedulerConstantsOK DEF SchedulerTypeOK
  <2>3. \A v \in Worker : task'[v] = NoTask <=> at'[v] \in {"look", "wait", "gone"}
    BY <1>1, <1>2, <2>2 DEF SchedulerTypeOK
  <2> QED BY <1>2, <1>4, <2>1, <2>2, <2>3 DEF SchedulerTypeOK
<1>7. WorkConserving'
  <2>1. Asleep' = Asleep
    BY <1>2 DEF Asleep, SchedulerTypeOK
  <2>2. Cardinality(Looking) \in Nat /\ Cardinality(Looking') = Cardinality(Looking) - 1
    BY <1>2, OneLessLooks
  <2> QED BY <1>3, <1>4, <2>1, <2>2 DEF WorkConserving
<1>8. TableIsCurrent'
  <2> SUFFICES ASSUME NEW k \in Key, running'[k] # NoWorker
               PROVE  task'[running'[k]] # NoTask /\ KeyOf(task'[running'[k]]) = k
    BY DEF TableIsCurrent
  <2>1. CASE k = KeyOf(pending[i])
    <3>1. running'[k] = w /\ task'[w] = pending[i]
      BY <1>1, <1>5, <2>1 DEF SchedulerTypeOK
    <3> QED BY <1>3, <2>1, <3>1, SchedulerConstantsOK
  <2>2. CASE k # KeyOf(pending[i])
    <3>1. running'[k] = running[k] /\ running[k] \in Worker
      BY <1>1, <1>5, <2>2 DEF SchedulerTypeOK
    <3>2. task[running[k]] # NoTask /\ KeyOf(task[running[k]]) = k
      BY <3>1 DEF TableIsCurrent
    <3>3. running[k] # w
      BY <1>2, <3>2 DEF SchedulerTypeOK
    <3>4. task'[running[k]] = task[running[k]]
      BY <1>1, <3>1, <3>3 DEF SchedulerTypeOK
    <3> QED BY <3>1, <3>2, <3>4
  <2> QED BY <2>1, <2>2
<1> QED BY <1>2, <1>6, <1>7, <1>8 DEF Emptied

(* A worker goes to sleep, wakes or leaves. *)
LEMMA RestKeeps ==
  ASSUME SchedulerInv, NEW w \in Worker, Sleep(w) \/ Wake(w) \/ Quit(w)
  PROVE  SchedulerInv'
<1> USE DEF SchedulerInv
<1>1. UNCHANGED <<pending, running, task, cancelled, stop>>
  BY DEF Sleep, Wake, Quit
<1>2. SchedulerTypeOK'
  BY DEF Sleep, Wake, Quit, SchedulerTypeOK
<1>3. Len(pending) \in Nat
  BY DEF SchedulerTypeOK
<1>4. WorkConserving'
  <2>1. CASE pending = <<>>
    <3>1. Cardinality(Looking') \in Nat
      BY <1>2, SchedulerConstantsOK, FS_Subset, FS_CardinalityType DEF Looking
    <3> QED BY <1>1, <2>1, <3>1 DEF WorkConserving
  <2>2. CASE Wake(w)
    <3>1. Asleep # {}
      BY <2>2 DEF Wake, Asleep
    <3>2. Cardinality(Looking) \in Nat /\ Cardinality(Looking') = Cardinality(Looking) + 1
      BY <2>2, OneMoreLooks DEF Wake
    <3> QED BY <1>1, <1>3, <3>1, <3>2 DEF WorkConserving
  <2> QED BY <2>1, <2>2 DEF Sleep, Quit, Emptied
<1> QED BY <1>1, <1>2, <1>4 DEF Emptied, TableIsCurrent

(* A job is over. *)
LEMMA FinishKeeps ==
  ASSUME SchedulerInv, NEW w \in Worker, Finish(w)
  PROVE  SchedulerInv'
<1> USE DEF SchedulerInv
<1>1. /\ at[w] = "end"
      /\ running' = [running EXCEPT ![KeyOf(task[w])] = NoWorker]
      /\ at' = [NotifyAll(at) EXCEPT ![w] = "look"]
      /\ task' = [task EXCEPT ![w] = NoTask]
      /\ UNCHANGED <<pending, cancelled, stop>>
  BY DEF Finish
<1>2. task[w] \in Task
  BY <1>1 DEF SchedulerTypeOK
<1>3. KeyOf(task[w]) \in Key
  BY <1>2 DEF KeyOf, Key, Task
<1>4. SchedulerTypeOK'
  <2>1. \A v \in Worker : task'[v] = NoTask <=> at'[v] \in {"look", "wait", "gone"}
    BY <1>1 DEF SchedulerTypeOK, NotifyAll
  <2> QED BY <1>1, <1>3, <2>1 DEF SchedulerTypeOK, NotifyAll
<1>5. Asleep' = {}
  BY <1>1, AllAwake
<1>6. TableIsCurrent'
  <2> SUFFICES ASSUME NEW k \in Key, running'[k] # NoWorker
               PROVE  task'[running'[k]] # NoTask /\ KeyOf(task'[running'[k]]) = k
    BY DEF TableIsCurrent
  <2>1. running'[k] = running[k] /\ running[k] \in Worker /\ k # KeyOf(task[w])
    BY <1>1, <1>3 DEF SchedulerTypeOK
  <2>2. task[running[k]] # NoTask /\ KeyOf(task[running[k]]) = k
    BY <2>1 DEF TableIsCurrent
  <2>3. task'[running[k]] = task[running[k]]
    BY <1>1, <2>1, <2>2 DEF SchedulerTypeOK
  <2> QED BY <2>1, <2>2, <2>3
<1> QED BY <1>1, <1>4, <1>5, <1>6 DEF Emptied, WorkConserving

(* The scheduler is dropped. *)
LEMMA DropKeeps == ASSUME SchedulerInv, Drop PROVE SchedulerInv'
<1> USE DEF SchedulerInv
<1>1. SchedulerTypeOK'
  <2>1. {running[k] : k \in {key \in Key : running[key] # NoWorker}} \subseteq Worker
    BY DEF SchedulerTypeOK
  <2>2. \A v \in Worker : task'[v] = NoTask <=> at'[v] \in {"look", "wait", "gone"}
    BY DEF Drop, SchedulerTypeOK, NotifyAll
  <2> QED BY <2>1, <2>2 DEF Drop, SchedulerTypeOK, NotifyAll
<1>2. Asleep' = {}
  BY DEF SchedulerTypeOK, Drop, NotifyAll, Asleep
<1> QED BY <1>1, <1>2 DEF Drop, Emptied, WorkConserving, TableIsCurrent

(* A job goes on. *)
LEMMA GotoKeeps ==
  ASSUME SchedulerInv, NEW w \in Worker, at[w] \notin {"look", "wait", "gone"},
         NEW place \in {"draw", "write", "fill", "enter", "show", "spare", "end"}, Goto(w, place)
  PROVE  SchedulerInv'
<1> USE DEF SchedulerInv
<1>1. at' = [at EXCEPT ![w] = place] /\ UNCHANGED <<pending, running, task, cancelled, stop>>
  BY DEF Goto
<1>2. SchedulerTypeOK'
  BY <1>1 DEF SchedulerTypeOK
<1>3. Asleep' = Asleep /\ Looking' = Looking
  BY <1>1 DEF SchedulerTypeOK, Asleep, Looking
<1> QED BY <1>1, <1>2, <1>3 DEF Emptied, WorkConserving, TableIsCurrent

-----------------------------------------------------------------------------
(* The invariant. *)

(* Commands at work know their file and, a prefetch apart, their hook. *)
Called ==
  \A r \in Request :
    /\ stage[r] \notin {"new", "done"} => request[r].path \in Path
    /\ stage[r] \notin {"new", "done", "ahead"} => request[r].hook \in Hook

For(w, pic) == task[w] # NoTask /\ Goal(task[w]) = pic

(* A picture that is being written has a job that writes it. *)
Opened == \A pic \in Picture : shape[pic] = "open" => \E w \in Worker : at[w] = "fill" /\ For(w, pic)

(* A job that shows a picture of the cache has put one there. *)
Has(w) == at[w] \in {"write", "fill", "enter", "show", "spare"}
Kept   ==
  /\ Opened
  /\ \A w \in Worker :
       /\ Has(w) => drawn[w] # 0
       /\ at[w] \in {"enter", "show"} => content[Goal(task[w])] # 0
       /\ at[w] \in {"show", "spare"} => task[w].kind # "prefetch"

(* Nothing is newer than the files. *)
Timely == {t \in Task : t.version <= disk[t.path]}
Ages ==
  /\ \A p \in Path : record[p] <= disk[p]
  /\ \A r \in Request : request[r].path \in Path => request[r].version <= disk[request[r].path]
  /\ pending \in Seq(Timely)
  /\ \A w \in Worker : task[w] # NoTask => task[w] \in Timely
  /\ \A w \in Worker : Has(w) => task[w].version <= drawn[w] /\ drawn[w] <= disk[task[w].path]
  /\ \A pic \in Picture : content[pic] <= disk[pic[1]]

(* A picture is as new as its entry says, and jobs about to save it are
   about to save the same, unless they crossed. *)
Saves ==
  \A pic \in Picture \ crossed :
    /\ entry[pic] <= content[pic]
    /\ \A w \in Worker : For(w, pic) /\ at[w] \in {"write", "fill"} => entry[pic] <= drawn[w]
    /\ \A w \in Worker : For(w, pic) /\ at[w] = "enter" => content[pic] = drawn[w]
    /\ \A v, w \in Worker : For(v, pic) /\ For(w, pic) /\ Saving(v) /\ Saving(w) => drawn[v] = drawn[w]

Inv == TypeOK /\ Called /\ Kept /\ SchedulerInv /\ Ages /\ Saves

(* The invariant says what it is for. *)
LEMMA InvTrue == ASSUME Inv PROVE TrueUnlessCrossed
<1>4. \A pic \in Picture : shape[pic] = "open" =>
         \E w \in Worker : at[w] = "fill" /\ Goal(task[w]) = pic
  BY DEF Inv, Kept, Opened, For
<1> SUFFICES ASSUME NEW pic \in Picture \ crossed, Valid(pic, disk[pic[1]])
             PROVE  content[pic] = disk[pic[1]]
  BY <1>4 DEF TrueUnlessCrossed
<1>1. entry[pic] = disk[pic[1]]
  BY DEF Valid
<1>2. entry[pic] <= content[pic] /\ content[pic] <= disk[pic[1]]
  BY DEF Inv, Saves, Ages
<1>3. content[pic] \in Nat /\ disk[pic[1]] \in Nat
  BY PreviewConstantsOK DEF Inv, TypeOK, Picture, Version
<1> QED BY <1>1, <1>2, <1>3

(* It holds at the start. *)
LEMMA InvInit == ASSUME Init PROVE Inv
<1> USE DEF Init
<1>1. SchedulerInv
  BY SchedulerStarts
<1>2. 1 \in Version \ {0} /\ 0 \in Version
  BY PreviewConstantsOK DEF Version
<1>3. TypeOK
  <2>1. SchedulerTypeOK
    BY <1>1 DEF SchedulerInv
  <2>2. disk \in [Path -> Version \ {0}] /\ record \in [Path -> Version \ {0}]
    BY <1>2
  <2>3. content \in [Picture -> Version] /\ entry \in [Picture -> Version] /\ drawn \in [Worker -> Version]
    BY <1>2
  <2>a. shape \in [Picture -> {"whole", "open", "torn"}]
    OBVIOUS
  <2>4. asked \in 0 .. MaxRequests /\ faults \in 0 .. MaxFaults
    BY PreviewConstantsOK
  <2>5. request \in [Request -> [hook : Hook \cup {NoHook}, path : Path \cup {NoPath}, version : Version]]
    BY <1>2
  <2>6. stage \in [Request -> {"new", "lookup", "order", "open", "hit", "reply", "ahead", "done"}]
    OBVIOUS
  <2>7. slot \in [Request -> Image] /\ known \in [Path -> Image]
    BY DEF Image
  <2>8. hook \in [Hook -> [path : Path \cup {NoPath}, request : 0 .. MaxRequests, shows : Image,
                           listens : BOOLEAN]]
    BY PreviewConstantsOK DEF Off, Still, Image
  <2>9. bus \in Seq([path : Path, image : Image])
    BY EmptySeq
  <2> QED BY <2>1, <2>2, <2>3, <2>a, <2>4, <2>5, <2>6, <2>7, <2>8, <2>9 DEF TypeOK
<1>4. Called /\ Kept
  BY PreviewConstantsOK DEF SchedulerInit, Called, Kept, Opened, Has
<1>5. Ages
  <2>1. pending \in Seq(Timely)
    BY EmptySeq DEF SchedulerInit
  <2>2. \A pic \in Picture : content[pic] <= disk[pic[1]]
    BY DEF Picture
  <2> QED BY <2>1, <2>2, PreviewConstantsOK DEF Ages, SchedulerInit, Has
<1>6. Saves
  BY DEF Saves, SchedulerInit, For
<1> QED BY <1>1, <1>3, <1>4, <1>5, <1>6 DEF Inv

-----------------------------------------------------------------------------
(* What steps leave alone. *)

(* A step that does not touch the scheduler. *)
LEMMA SchedulerRests == ASSUME SchedulerInv, UNCHANGED scheduler PROVE SchedulerInv'
  BY DEF SchedulerInv, SchedulerTypeOK, Emptied, WorkConserving, TableIsCurrent, Asleep, Looking, scheduler

(* A step that touches no job, no picture and no entry. *)
LEMMA CacheRests ==
  ASSUME Kept, Saves, UNCHANGED <<scheduler, cache, drawn, crossed>>
  PROVE  Kept' /\ Saves'
  BY DEF Kept, Opened, Saves, Has, For, Saving, scheduler, cache

(* A step that touches no job, no file and no picture, nor what is asked. *)
LEMMA AgesRest ==
  ASSUME Ages, UNCHANGED <<scheduler, files, cache, drawn, request>>
  PROVE  Ages'
  BY DEF Ages, Timely, Has, scheduler, files, cache

(* Images of the cache. *)
LEMMA ImageOfCache ==
  ASSUME TypeOK, NEW pic \in Picture
  PROVE  Draft(Seen(pic)) \in Image /\ Sharp(Seen(pic)) \in Image
<1>1. Seen(pic) \in Version
  BY PreviewConstantsOK DEF TypeOK, Seen, Version
<1> QED BY <1>1 DEF Image

-----------------------------------------------------------------------------
(* The user and the UI. *)

(* A command is issued by a hook or ahead of one. *)
LEMMA CallKeeps ==
  ASSUME Inv, NEW h \in Hook \cup {NoHook}, NEW p \in Path, NEW place \in {"lookup", "ahead"},
         h = NoHook => place = "ahead",
         asked < MaxRequests, asked' = asked + 1,
         request' = [request EXCEPT ![asked'] = Call(h, p)],
         stage' = [stage EXCEPT ![asked'] = place],
         UNCHANGED <<scheduler, files, cache, drawn, slot, bus, faults, ghost>>
  PROVE  /\ asked' \in Request
         /\ request' \in [Request -> [hook : Hook \cup {NoHook}, path : Path \cup {NoPath}, version : Version]]
         /\ stage' \in [Request -> {"new", "lookup", "order", "open", "hit", "reply", "ahead", "done"}]
         /\ Called' /\ Kept' /\ SchedulerInv' /\ Ages' /\ Saves'
<1> USE DEF Inv
<1>1. asked' \in Request
  BY PreviewConstantsOK DEF TypeOK, Request
<1>2. Call(h, p) \in [hook : Hook \cup {NoHook}, path : Path \cup {NoPath}, version : Version]
  BY DEF TypeOK, Call
<1>3. request' \in [Request -> [hook : Hook \cup {NoHook}, path : Path \cup {NoPath}, version : Version]]
  BY <1>1, <1>2 DEF TypeOK
<1>4. stage' \in [Request -> {"new", "lookup", "order", "open", "hit", "reply", "ahead", "done"}]
  BY <1>1 DEF TypeOK
<1>5. \A r \in Request : IF r = asked' THEN request'[r] = Call(h, p) /\ stage'[r] = place
                        ELSE request'[r] = request[r] /\ stage'[r] = stage[r]
  BY <1>1 DEF TypeOK
<1>6. Called'
  BY <1>5, PreviewConstantsOK DEF Called, Call
<1>7. Kept' /\ Saves'
  BY CacheRests DEF ghost
<1>8. SchedulerInv'
  BY SchedulerRests
<1>9. Ages'
  <2>1. \A r \in Request : request'[r].path \in Path => request'[r].version <= disk[request'[r].path]
    BY <1>5 DEF Ages, Call
  <2> QED BY <2>1 DEF Ages, Timely, Has, scheduler, files, cache
<1> QED BY <1>1, <1>3, <1>4, <1>6, <1>7, <1>8, <1>9

(* A hook looks at a file. *)
LEMMA LookKeeps == ASSUME Inv, NEW h \in Hook, NEW p \in Path, Look(h, p) PROVE Inv'
<1> USE DEF Inv
<1>1. /\ asked' \in Request
      /\ request' \in [Request -> [hook : Hook \cup {NoHook}, path : Path \cup {NoPath}, version : Version]]
      /\ stage' \in [Request -> {"new", "lookup", "order", "open", "hit", "reply", "ahead", "done"}]
      /\ Called' /\ Kept' /\ SchedulerInv' /\ Ages' /\ Saves'
  BY PreviewConstantsOK, CallKeeps DEF Look
<1>2. [path |-> p, request |-> asked', shows |-> known[p], listens |-> TRUE]
        \in [path : Path \cup {NoPath}, request : 0 .. MaxRequests, shows : Image, listens : BOOLEAN]
  BY <1>1 DEF TypeOK, Request
<1>3. hook' \in [Hook -> [path : Path \cup {NoPath}, request : 0 .. MaxRequests, shows : Image,
                         listens : BOOLEAN]]
  BY <1>2 DEF Look, TypeOK
<1>4. asked' \in 0 .. MaxRequests
  BY <1>1 DEF Request
<1>5. SchedulerTypeOK'
  BY <1>1 DEF SchedulerInv
<1>6. TypeOK'
  BY <1>1, <1>3, <1>4, <1>5 DEF Look, TypeOK, files, cache, ghost
<1> QED BY <1>1, <1>6

(* A prefetch is issued. *)
LEMMA PrefetchKeeps == ASSUME Inv, NEW p \in Path, Prefetch(p) PROVE Inv'
<1> USE DEF Inv
<1>1. /\ asked' \in Request
      /\ request' \in [Request -> [hook : Hook \cup {NoHook}, path : Path \cup {NoPath}, version : Version]]
      /\ stage' \in [Request -> {"new", "lookup", "order", "open", "hit", "reply", "ahead", "done"}]
      /\ Called' /\ Kept' /\ SchedulerInv' /\ Ages' /\ Saves'
  BY PreviewConstantsOK, CallKeeps DEF Prefetch
<1>4. asked' \in 0 .. MaxRequests
  BY <1>1 DEF Request
<1>5. SchedulerTypeOK'
  BY <1>1 DEF SchedulerInv
<1>6. TypeOK'
  BY <1>1, <1>4, <1>5 DEF Prefetch, TypeOK, files, cache, ghost, ui
<1> QED BY <1>1, <1>6

(* A hook looks at a known file, or away. *)
LEMMA HookKeeps ==
  ASSUME Inv, NEW h \in Hook, LookAway(h) \/ \E p \in Path : LookAgain(h, p)
  PROVE  Inv'
<1> USE DEF Inv
<1>1. hook' \in [Hook -> [path : Path \cup {NoPath}, request : 0 .. MaxRequests, shows : Image,
                         listens : BOOLEAN]]
  <2>1. Off \in [path : Path \cup {NoPath}, request : 0 .. MaxRequests, shows : Image, listens : BOOLEAN]
    BY PreviewConstantsOK DEF Off, Still, Image
  <2>2. \A p \in Path : Still(p, known[p])
          \in [path : Path \cup {NoPath}, request : 0 .. MaxRequests, shows : Image, listens : BOOLEAN]
    BY PreviewConstantsOK DEF TypeOK, Still
  <2>3. CASE LookAway(h)
    BY <2>1, <2>3 DEF LookAway, TypeOK
  <2>4. ASSUME NEW p \in Path, LookAgain(h, p)
        PROVE  hook' \in [Hook -> [path : Path \cup {NoPath}, request : 0 .. MaxRequests, shows : Image,
                                  listens : BOOLEAN]]
    BY <2>2, <2>4 DEF LookAgain, TypeOK
  <2> QED BY <2>3, <2>4
<1>2. UNCHANGED <<scheduler, files, cache, drawn, commands, known, bus, faults, ghost>>
  BY DEF LookAway, LookAgain
<1>3. SchedulerInv' /\ Kept' /\ Saves' /\ Ages'
  BY <1>2, SchedulerRests, CacheRests, AgesRest DEF ghost, commands
<1>4. TypeOK'
  BY <1>1, <1>2, <1>3 DEF TypeOK, SchedulerInv, files, cache, commands, ghost
<1> QED BY <1>2, <1>3, <1>4 DEF Called, commands

(* The user edits a file, a scan finds it. *)
LEMMA FileKeeps == ASSUME Inv, NEW p \in Path, Edit(p) \/ Rescan(p) PROVE Inv'
<1> USE DEF Inv
<1>1. UNCHANGED <<scheduler, cache, drawn, commands, ui, bus, faults, ghost>>
  BY DEF Edit, Rescan
<1>2. disk' \in [Path -> Version \ {0}] /\ record' \in [Path -> Version \ {0}]
  <2>1. CASE Edit(p)
    <3>1. disk[p] + 1 \in Version \ {0}
      BY <2>1, PreviewConstantsOK DEF Edit, TypeOK, Version
    <3> QED BY <2>1, <3>1 DEF Edit, TypeOK
  <2>2. CASE Rescan(p)
    BY <2>2 DEF Rescan, TypeOK
  <2> QED BY <2>1, <2>2
<1>3. \A q \in Path : disk[q] <= disk'[q] /\ disk[q] \in Nat /\ disk'[q] \in Nat
  <2>1. disk[p] \in Nat /\ \A q \in Path : disk[q] \in Nat /\ disk'[q] \in Nat
    BY <1>2, PreviewConstantsOK DEF TypeOK, Version
  <2>2. CASE Edit(p)
    BY <2>1, <2>2 DEF Edit, TypeOK
  <2>3. CASE Rescan(p)
    BY <2>1, <2>3 DEF Rescan, TypeOK
  <2> QED BY <2>2, <2>3
<1>4. SchedulerInv' /\ Kept' /\ Saves'
  BY <1>1, SchedulerRests, CacheRests DEF ghost
<1>5. TypeOK'
  BY <1>1, <1>2, <1>4 DEF TypeOK, SchedulerInv, cache, commands, ghost, ui
<1>6. Ages'
  <2>1. \A q \in Path : record'[q] <= disk'[q]
    <3>1. \A q \in Path : record[q] <= disk[q] /\ record[q] \in Nat /\ record'[q] \in Nat
      BY <1>2, PreviewConstantsOK DEF TypeOK, Ages, Version
    <3>2. CASE Edit(p)
      BY <1>3, <3>1, <3>2 DEF Edit
    <3>3. CASE Rescan(p)
      BY <1>3, <3>1, <3>3 DEF Rescan, TypeOK
    <3> QED BY <3>2, <3>3
  <2>2. \A r \in Request : request'[r].path \in Path => request'[r].version <= disk'[request'[r].path]
    <3> SUFFICES ASSUME NEW r \in Request, request[r].path \in Path
                 PROVE  request[r].version <= disk'[request[r].path]
      BY <1>1 DEF commands
    <3>1. request[r].version <= disk[request[r].path] /\ request[r].version \in Nat
      BY PreviewConstantsOK DEF Ages, TypeOK, Version
    <3> QED BY <1>3, <3>1
  <2>3. Timely \subseteq Timely'
    <3> SUFFICES ASSUME NEW t \in Task, t.version <= disk[t.path] PROVE t.version <= disk'[t.path]
      BY DEF Timely
    <3>1. t.version \in Nat /\ t.path \in Path
      BY DEF Task
    <3> QED BY <1>3, <3>1
  <2>4. pending' \in Seq(Timely')
    BY <1>1, <2>3, SeqMonotonic DEF Ages, scheduler
  <2>5. \A w \in Worker : task'[w] # NoTask => task'[w] \in Timely'
    BY <1>1, <2>3 DEF Ages, scheduler
  <2>6. \A w \in Worker : Has(w)' => task'[w].version <= drawn'[w] /\ drawn'[w] <= disk'[task'[w].path]
    <3> SUFFICES ASSUME NEW w \in Worker, Has(w)' PROVE task[w].version <= drawn[w] /\ drawn[w] <= disk'[task[w].path]
      BY <1>1 DEF scheduler
    <3>1. Has(w) /\ task[w] \in Task
      BY <1>1 DEF Has, scheduler, TypeOK, SchedulerTypeOK
    <3>2. task[w].path \in Path /\ drawn[w] \in Nat
      BY <3>1, PreviewConstantsOK DEF Task, TypeOK, Version
    <3> QED BY <1>3, <3>1, <3>2 DEF Ages
  <2>7. \A pic \in Picture : content'[pic] <= disk'[pic[1]]
    <3> SUFFICES ASSUME NEW pic \in Picture PROVE content[pic] <= disk'[pic[1]]
      BY <1>1 DEF cache
    <3>1. content[pic] <= disk[pic[1]] /\ content[pic] \in Nat /\ pic[1] \in Path
      BY PreviewConstantsOK DEF Ages, TypeOK, Version, Picture
    <3> QED BY <1>3, <3>1
  <2> QED BY <2>1, <2>2, <2>4, <2>5, <2>6, <2>7 DEF Ages
<1> QED BY <1>1, <1>4, <1>5, <1>6 DEF Called, commands

(* What a hook shows next is well typed. *)
LEMMA ShowingTyped ==
  ASSUME TypeOK, NEW h \in Hook, NEW image \in Image, NEW listens \in BOOLEAN
  PROVE  Showing(h, image, listens)
           \in [path : Path \cup {NoPath}, request : 0 .. MaxRequests, shows : Image, listens : BOOLEAN]
  BY DEF TypeOK, Showing

(* A command answers. *)
LEMMA AnswerKeeps == ASSUME Inv, NEW r \in Request, Answer(r) PROVE Inv'
<1> USE DEF Inv
<1>1. UNCHANGED <<scheduler, files, cache, drawn, asked, request, bus, faults, ghost>>
  BY DEF Answer
<1>2. SchedulerInv' /\ Kept' /\ Saves' /\ Ages'
  BY <1>1, SchedulerRests, CacheRests, AgesRest DEF ghost
<1>3. request[r].hook \in Hook /\ request[r].path \in Path
  BY DEF Answer, Called
<1>4. stage' = [stage EXCEPT ![r] = "done"] /\ slot' = [slot EXCEPT ![r] = Blank]
  BY DEF Answer
<1>5. slot' \in [Request -> Image]
        /\ stage' \in [Request -> {"new", "lookup", "order", "open", "hit", "reply", "ahead", "done"}]
  BY <1>4 DEF TypeOK, Image
<1>6. hook' \in [Hook -> [path : Path \cup {NoPath}, request : 0 .. MaxRequests, shows : Image,
                         listens : BOOLEAN]]
  <2> DEFINE h == request[r].hook
             image == IF slot[r] = Blank THEN hook[h].shows ELSE slot[r]
             waits == hook[h].listens /\ stage[r] = "reply"
  <2>1. image \in Image /\ waits \in BOOLEAN
    BY <1>3 DEF TypeOK
  <2>2. Showing(h, image, waits)
          \in [path : Path \cup {NoPath}, request : 0 .. MaxRequests, shows : Image, listens : BOOLEAN]
    BY <1>3, <2>1, ShowingTyped
  <2>3. hook' = hook \/ hook' = [hook EXCEPT ![h] = Showing(h, image, waits)]
    BY DEF Answer, ui
  <2> QED BY <2>2, <2>3 DEF TypeOK
<1>7. known' \in [Path -> Image]
  BY <1>3 DEF Answer, ui, TypeOK
<1>8. Called'
  BY <1>1, <1>4 DEF Called, TypeOK
<1>9. TypeOK'
  BY <1>1, <1>2, <1>5, <1>6, <1>7 DEF TypeOK, SchedulerInv, files, cache, ghost
<1> QED BY <1>2, <1>8, <1>9

(* An event is delivered. *)
LEMMA DeliverKeeps == ASSUME Inv, Deliver PROVE Inv'
<1> USE DEF Inv
<1> DEFINE e == Head(bus)
<1>1. UNCHANGED <<scheduler, files, cache, drawn, commands, faults, ghost>> /\ bus' = Tail(bus) /\ bus # <<>>
  BY DEF Deliver
<1>2. SchedulerInv' /\ Kept' /\ Saves' /\ Ages'
  BY <1>1, SchedulerRests, CacheRests, AgesRest DEF ghost, commands
<1>3. e \in [path : Path, image : Image] /\ bus' \in Seq([path : Path, image : Image])
  BY <1>1, HeadTailProperties DEF TypeOK
<1>4. ASSUME NEW h \in Hook
      PROVE  AfterEvent(h, e)
               \in [path : Path \cup {NoPath}, request : 0 .. MaxRequests, shows : Image, listens : BOOLEAN]
  <2>1. e.image \in Image /\ hook[h].shows \in Image
    BY <1>3 DEF TypeOK
  <2>2. (IF hook[h].shows = Blank THEN e.image ELSE hook[h].shows) \in Image
    BY <2>1
  <2> HIDE DEF e
  <2>3. /\ Showing(h, e.image, FALSE)
             \in [path : Path \cup {NoPath}, request : 0 .. MaxRequests, shows : Image, listens : BOOLEAN]
        /\ Showing(h, IF hook[h].shows = Blank THEN e.image ELSE hook[h].shows, TRUE)
             \in [path : Path \cup {NoPath}, request : 0 .. MaxRequests, shows : Image, listens : BOOLEAN]
    BY <2>1, <2>2, ShowingTyped
  <2> QED BY <2>3, Zenon DEF AfterEvent
<1>5. hook' \in [Hook -> [path : Path \cup {NoPath}, request : 0 .. MaxRequests, shows : Image,
                         listens : BOOLEAN]]
  <2>1. hook' = [h \in Hook |-> IF Hears(h, e) THEN AfterEvent(h, e) ELSE hook[h]]
    BY DEF Deliver
  <2> HIDE DEF e
  <2> QED BY <1>4, <2>1 DEF TypeOK
<1>6. known' \in [Path -> Image]
  <2>1. known' = known \/ known' = [known EXCEPT ![e.path] = e.image]
    BY DEF Deliver
  <2> HIDE DEF e
  <2> QED BY <1>3, <2>1 DEF TypeOK
<1>7. TypeOK'
  BY <1>1, <1>2, <1>3, <1>5, <1>6 DEF TypeOK, SchedulerInv, files, cache, commands, ghost
<1> QED BY <1>1, <1>2, <1>7 DEF Called, commands

-----------------------------------------------------------------------------
(* The commands. *)

(* A command looks into the cache. *)
LEMMA LookupKeeps == ASSUME Inv, NEW r \in Request, Lookup(r) PROVE Inv'
<1> USE DEF Inv
<1>1. UNCHANGED <<scheduler, files, cache, drawn, asked, request, ui, bus, faults, ghost>>
  BY DEF Lookup
<1>2. SchedulerInv' /\ Kept' /\ Saves' /\ Ages'
  BY <1>1, SchedulerRests, CacheRests, AgesRest DEF ghost
<1>3. request[r].hook \in Hook /\ request[r].path \in Path
  BY DEF Lookup, Called
<1> DEFINE p == request[r].path
           thumbnail == Valid(<<p, "thumbnail">>, request[r].version)
           large     == ~ForTile(r) /\ Valid(<<p, "large">>, request[r].version)
           image == IF large THEN Sharp(Seen(<<p, "large">>))
                    ELSE IF thumbnail THEN Draft(Seen(<<p, "thumbnail">>)) ELSE Blank
<1>4. image \in Image
  <2>1. <<p, "large">> \in Picture /\ <<p, "thumbnail">> \in Picture
    BY <1>3 DEF Picture, Stored
  <2>2. Blank \in Image
    BY DEF Image
  <2> QED BY <2>1, <2>2, ImageOfCache
<1>5. slot' = [slot EXCEPT ![r] = image]
  BY DEF Lookup
<1>6. \E place \in {"hit", "order"} : stage' = [stage EXCEPT ![r] = place]
  BY DEF Lookup
<1> HIDE DEF image
<1>7. slot' \in [Request -> Image]
        /\ stage' \in [Request -> {"new", "lookup", "order", "open", "hit", "reply", "ahead", "done"}]
  BY <1>4, <1>5, <1>6 DEF TypeOK
<1>8. Called'
  BY <1>1, <1>3, <1>6 DEF Called, TypeOK
<1>9. TypeOK'
  BY <1>1, <1>2, <1>7 DEF TypeOK, SchedulerInv, files, cache, ghost, ui
<1> QED BY <1>2, <1>8, <1>9

(* The answer of a pane is sealed. *)
LEMMA SealKeeps == ASSUME Inv, NEW r \in Request, Seal(r) PROVE Inv'
<1> USE DEF Inv
<1>1. UNCHANGED <<scheduler, files, cache, drawn, asked, request, slot, ui, bus, faults, ghost>>
      /\ stage' = [stage EXCEPT ![r] = "reply"] /\ stage[r] = "open"
  BY DEF Seal
<1>2. SchedulerInv' /\ Kept' /\ Saves' /\ Ages'
  BY <1>1, SchedulerRests, CacheRests, AgesRest DEF ghost
<1>3. Called'
  BY <1>1 DEF Called, TypeOK
<1>4. TypeOK'
  BY <1>1, <1>2 DEF TypeOK, SchedulerInv, files, cache, ghost, ui
<1> QED BY <1>2, <1>3, <1>4

(* A command submits its job. *)
LEMMA SubmitStep ==
  ASSUME Inv, NEW r \in Request, NEW kind \in Kind, NEW place \in {"reply", "open", "done"},
         stage[r] \in {"order", "ahead"}, stage[r] = "ahead" => place = "done",
         SubmitJob(NewTask(r, kind)),
         stage' = [stage EXCEPT ![r] = place],
         UNCHANGED <<files, cache, drawn, asked, request, slot, ui, bus, faults, ghost>>
  PROVE  Inv'
<1> USE DEF Inv
<1>1. request[r].path \in Path
  BY DEF Called
<1>2. NewTask(r, kind) \in Timely
  BY <1>1, PreviewConstantsOK DEF NewTask, Timely, Task, Ages, TypeOK, Version, Request
<1>3. NewTask(r, kind) \in Task
  BY <1>2 DEF Timely
<1>4. SchedulerInv'
  BY <1>3, SubmitKeeps
<1>5. UNCHANGED <<running, task, cancelled, stop>>
  BY DEF SubmitJob
<1>6. \A w \in Worker : at'[w] = at[w] \/ (at[w] = "wait" /\ at'[w] = "look")
  BY DEF SubmitJob, NotifyOne, Asleep, SchedulerInv, SchedulerTypeOK
<1>7. \A w \in Worker : /\ (Has(w)' <=> Has(w)) /\ (Saving(w)' <=> Saving(w))
                       /\ (at'[w] = "write" <=> at[w] = "write")
                       /\ (at'[w] = "fill" <=> at[w] = "fill")
                       /\ (at'[w] = "enter" <=> at[w] = "enter")
                       /\ (at'[w] = "show" <=> at[w] = "show")
                       /\ (at'[w] = "spare" <=> at[w] = "spare")
  BY <1>6 DEF Has, Saving
<1>8. Kept' /\ Saves'
  BY <1>5, <1>7 DEF Kept, Opened, Saves, For, cache, ghost
<1>9. Ages'
  <2>1. pending' \in Seq(Timely)
    <3>1. CASE stop
      BY <3>1 DEF SubmitJob, Ages
    <3>2. CASE ~stop
      <4>1. Others(NewTask(r, kind)) \in Seq(Timely)
        BY OthersTyped DEF Ages
      <4> QED BY <1>2, <3>2, <4>1, AppendProperties DEF SubmitJob
    <3> QED BY <3>1, <3>2
  <2> QED BY <1>5, <1>7, <2>1 DEF Ages, Timely, files, cache
<1>10. Called'
  BY <1>1 DEF Called, TypeOK
<1>11. TypeOK'
  BY <1>4 DEF TypeOK, SchedulerInv, files, cache, ghost, ui
<1> QED BY <1>4, <1>8, <1>9, <1>10, <1>11

(* A command moves on. *)
LEMMA CommandKeeps == ASSUME Inv, NEW r \in Request, CommandStep(r) PROVE Inv'
<1>1. CASE Lookup(r)
  BY <1>1, LookupKeeps
<1>2. CASE Order(r)
  <2>1. CASE ForTile(r)
    BY <1>2, <2>1, SubmitStep DEF Order, Kind
  <2>2. CASE ~ForTile(r)
    BY <1>2, <2>2, SubmitStep DEF Order, Kind
  <2> QED BY <2>1, <2>2
<1>3. CASE Seal(r)
  BY <1>3, SealKeeps
<1>4. CASE Answer(r)
  BY <1>4, AnswerKeeps
<1>5. CASE SubmitAhead(r)
  BY <1>5, SubmitStep DEF SubmitAhead, Kind
<1> QED BY <1>1, <1>2, <1>3, <1>4, <1>5 DEF CommandStep

-----------------------------------------------------------------------------
(* The workers. *)

(* What a job saves is a picture of the cache. *)
LEMMA GoalTyped == ASSUME NEW t \in Task PROVE Goal(t) \in Picture /\ Goal(t)[1] = t.path
  BY DEF Goal, Task, Picture, Stored

(* A task is taken. *)
LEMMA TakeStep ==
  ASSUME Inv, NEW w \in Worker, Take(w), OfScheduler
  PROVE  Inv'
<1> USE DEF Inv
<1>1. SchedulerInv'
  BY TakeKeeps
<1>2. PICK i \in DOMAIN pending :
        pending' = RemoveAt(pending, i) /\ task' = [task EXCEPT ![w] = pending[i]]
  BY DEF Take
<1>3. at[w] = "look" /\ at' = [at EXCEPT ![w] = "draw"] /\ UNCHANGED <<files, cache, drawn, commands, crossed>>
  BY DEF Take, OfScheduler, ghost
<1>4. pending[i] \in Timely /\ pending' \in Seq(Timely)
  BY <1>2, Removed DEF Ages
<1>5. \A v \in Worker : IF v = w THEN at'[v] = "draw" /\ task'[v] = pending[i]
                       ELSE at'[v] = at[v] /\ task'[v] = task[v]
  BY <1>2, <1>3 DEF SchedulerInv, SchedulerTypeOK
<1>6. Kept' /\ Saves'
  BY <1>3, <1>5 DEF Kept, Opened, Saves, Has, For, Saving, cache
<1>7. Ages'
  BY <1>3, <1>4, <1>5 DEF Ages, Timely, Has, files, cache, commands
<1>8. TypeOK'
  BY <1>1 DEF OfScheduler, TypeOK, SchedulerInv, files, cache, commands, ghost, ui
<1> QED BY <1>1, <1>3, <1>6, <1>7, <1>8 DEF Called, commands

(* A worker goes to sleep, wakes or leaves. *)
LEMMA RestStep ==
  ASSUME Inv, NEW w \in Worker, Sleep(w) \/ Wake(w) \/ Quit(w), OfScheduler
  PROVE  Inv'
<1> USE DEF Inv
<1>1. SchedulerInv'
  BY RestKeeps
<1>2. UNCHANGED <<pending, task, files, cache, drawn, commands, crossed>>
  BY DEF Sleep, Wake, Quit, OfScheduler, ghost
<1>3. \A v \in Worker : at'[v] = at[v] \/ (~Has(v) /\ at'[v] \in {"look", "wait", "gone"})
  BY DEF Sleep, Wake, Quit, Has, SchedulerInv, SchedulerTypeOK
<1>4. \A v \in Worker : /\ (Has(v)' <=> Has(v)) /\ (Saving(v)' <=> Saving(v))
                       /\ (at'[v] = "write" <=> at[v] = "write")
                       /\ (at'[v] = "fill" <=> at[v] = "fill")
                       /\ (at'[v] = "enter" <=> at[v] = "enter")
                       /\ (at'[v] = "show" <=> at[v] = "show")
                       /\ (at'[v] = "spare" <=> at[v] = "spare")
  BY <1>3 DEF Has, Saving
<1>5. Kept' /\ Saves'
  BY <1>2, <1>4 DEF Kept, Opened, Saves, For, cache
<1>6. Ages'
  BY <1>2, <1>4 DEF Ages, Timely, files, cache, commands
<1>7. TypeOK'
  BY <1>1 DEF OfScheduler, TypeOK, SchedulerInv, files, cache, commands, ghost, ui
<1> QED BY <1>1, <1>2, <1>5, <1>6, <1>7 DEF Called, commands

(* A job is over. *)
LEMMA ReturnKeeps == ASSUME Inv, NEW w \in Worker, Return(w) PROVE Inv'
<1> USE DEF Inv
<1>1. SchedulerInv'
  BY FinishKeeps DEF Return
<1>2. UNCHANGED <<pending, files, cache, commands, ui, bus, faults, ghost>>
  BY DEF Return, Finish
<1>3. \A v \in Worker : IF v = w THEN at'[v] = "look" /\ task'[v] = NoTask
                       ELSE /\ at'[v] = at[v] \/ (at[v] = "wait" /\ at'[v] = "look")
                            /\ task'[v] = task[v] /\ drawn'[v] = drawn[v]
  BY DEF Return, Finish, NotifyAll, SchedulerInv, SchedulerTypeOK, TypeOK
<1>4. Kept'
  <2>1. Opened'
    <3>1. at[w] = "end"
      BY DEF Return, Finish
    <3>2. \A v \in Worker : at[v] = "fill" => at'[v] = "fill" /\ task'[v] = task[v]
      BY <1>3, <3>1
    <3> QED BY <1>2, <3>2 DEF Kept, Opened, For, cache
  <2> QED BY <1>2, <1>3, <2>1 DEF Kept, Has, cache
<1>5. Saves'
  BY <1>2, <1>3 DEF Saves, For, Saving, cache, ghost
<1>6. Ages'
  BY <1>2, <1>3 DEF Ages, Timely, Has, files, cache, commands
<1>7. TypeOK'
  <2>1. drawn' \in [Worker -> Version]
    BY PreviewConstantsOK DEF Return, TypeOK, Version
  <2> QED BY <1>1, <1>2, <2>1 DEF TypeOK, SchedulerInv, files, cache, commands, ghost, ui
<1> QED BY <1>1, <1>2, <1>4, <1>5, <1>6, <1>7 DEF Called, commands

(* A job that goes on leaves the pictures others write. *)
LEMMA StillOpened ==
  ASSUME Inv, NEW w \in Worker, at[w] # "fill",
         NEW place \in {"draw", "write", "fill", "enter", "show", "spare", "end"}, Goto(w, place),
         UNCHANGED shape
  PROVE  Opened'
<1>1. \A v \in Worker : at[v] = "fill" => at'[v] = "fill" /\ task'[v] = task[v]
  BY DEF Goto, Inv, SchedulerInv, SchedulerTypeOK
<1> QED BY <1>1 DEF Inv, Kept, Opened, For

(* A job goes on without touching what is drawn or kept. *)
LEMMA OnwardKeeps ==
  ASSUME Inv, NEW w \in Worker, at[w] \notin {"look", "wait", "gone"},
         NEW place \in {"end", "spare"}, Goto(w, place),
         place = "spare" => Saving(w) /\ task[w].kind # "prefetch",
         UNCHANGED <<files, content, entry, drawn, asked, request, crossed>>, Opened'
  PROVE  Kept' /\ SchedulerInv' /\ Ages' /\ Saves'
<1> USE DEF Inv
<1>1. SchedulerInv'
  BY GotoKeeps
<1>2. UNCHANGED <<pending, task>>
  BY DEF Goto
<1>3. \A v \in Worker : at'[v] = IF v = w THEN place ELSE at[v]
  BY DEF Goto, SchedulerInv, SchedulerTypeOK
<1>4. Kept' /\ Saves'
  BY <1>2, <1>3 DEF Kept, Saves, Has, For, Saving
<1>5. Ages'
  BY <1>2, <1>3 DEF Ages, Timely, Has, Saving, files
<1> QED BY <1>1, <1>4, <1>5

(* A job gives up, or has no picture. *)
LEMMA DrawEnds == ASSUME Inv, NEW w \in Worker, GiveUp(w) \/ DrawFails(w) PROVE Inv'
<1> USE DEF Inv
<1>1. at[w] \notin {"look", "wait", "gone"} /\ Goto(w, "end")
      /\ UNCHANGED <<files, cache, drawn, commands, ui, bus, crossed, missed>> /\ at[w] # "fill"
  BY DEF GiveUp, DrawFails, Fails, ghost
<1>o. Opened'
  BY <1>1, StillOpened DEF cache
<1>2. Kept' /\ SchedulerInv' /\ Ages' /\ Saves'
  BY <1>1, <1>o, OnwardKeeps DEF commands, cache
<1>3. faults' \in 0 .. MaxFaults
  BY PreviewConstantsOK DEF GiveUp, DrawFails, Fails, Fault, TypeOK
<1>4. broken' \subseteq Path
  <2>1. task[w] \in Task
    BY <1>1 DEF SchedulerInv, SchedulerTypeOK
  <2> QED BY <2>1 DEF GiveUp, DrawFails, Fails, TypeOK, ghost, Task
<1>5. TypeOK'
  BY <1>1, <1>2, <1>3, <1>4 DEF TypeOK, SchedulerInv, files, cache, commands, ui
<1> QED BY <1>1, <1>2, <1>5 DEF Called, commands

(* A picture is drawn. *)
LEMMA DrawKeeps == ASSUME Inv, NEW w \in Worker, Draw(w) PROVE Inv'
<1> USE DEF Inv
<1>1. at[w] = "draw" /\ drawn' = [drawn EXCEPT ![w] = disk[task[w].path]] /\ Goto(w, "write")
      /\ crossed' = crossed \cup Crossing'
      /\ UNCHANGED <<files, cache, commands, ui, bus, faults, broken, missed>>
  BY DEF Draw
<1>2. SchedulerInv'
  BY <1>1, GotoKeeps
<1>3. UNCHANGED <<pending, task, content, entry, disk>>
  BY <1>1 DEF Goto, cache, files
<1>o. Opened'
  BY <1>1, StillOpened DEF cache
<1>4. task[w] \in Timely /\ task[w] \in Task /\ task[w] # NoTask
  BY <1>1, SchedulerConstantsOK DEF SchedulerInv, SchedulerTypeOK, Ages
<1>5. disk[task[w].path] \in Version \ {0}
  BY <1>4 DEF TypeOK, Task
<1>6. \A v \in Worker : IF v = w THEN at'[v] = "write" /\ drawn'[v] = disk[task[w].path]
                       ELSE at'[v] = at[v] /\ drawn'[v] = drawn[v]
  BY <1>1 DEF Goto, SchedulerInv, SchedulerTypeOK, TypeOK
<1>7. Kept'
  BY <1>3, <1>5, <1>6, <1>o DEF Kept, Has
<1>8. Ages'
  <2>1. \A v \in Worker : Has(v)' => task'[v].version <= drawn'[v] /\ drawn'[v] <= disk'[task'[v].path]
    <3>1. disk[task[w].path] <= disk[task[w].path]
      BY <1>5, PreviewConstantsOK DEF Version
    <3> QED BY <1>3, <1>4, <1>6, <3>1 DEF Ages, Timely, Has
  <2> QED BY <1>1, <1>3, <2>1 DEF Ages, Timely, files, commands
<1>9. Saves'
  <2> SUFFICES ASSUME NEW pic \in Picture, pic \notin crossed'
               PROVE  /\ entry[pic] <= content[pic]
                      /\ \A v \in Worker : For(v, pic)' /\ at'[v] \in {"write", "fill"} =>
                           entry[pic] <= drawn'[v]
                      /\ \A v \in Worker : For(v, pic)' /\ at'[v] = "enter" => content[pic] = drawn'[v]
                      /\ \A u, v \in Worker : For(u, pic)' /\ For(v, pic)' /\ Saving(u)' /\ Saving(v)' =>
                           drawn'[u] = drawn'[v]
    BY <1>3 DEF Saves
  <2>1. pic \notin crossed /\ pic \notin Crossing'
    BY <1>1
  <2>2. \A v \in Worker : For(v, pic)' <=> For(v, pic)
    BY <1>3 DEF For
  <2>3. entry[pic] <= content[pic]
    BY <2>1 DEF Saves
  <2>4. ASSUME For(w, pic) PROVE entry[pic] <= disk[task[w].path]
    <3>1. pic[1] = task[w].path
      BY <1>4, <2>4, GoalTyped DEF For
    <3>2. content[pic] <= disk[task[w].path]
      BY <3>1 DEF Ages
    <3>3. entry[pic] \in Nat /\ content[pic] \in Nat /\ disk[task[w].path] \in Nat
      BY <1>5, PreviewConstantsOK DEF TypeOK, Version
    <3> QED BY <2>3, <3>2, <3>3
  <2>5. \A v \in Worker : For(v, pic)' /\ at'[v] \in {"write", "fill"} => entry[pic] <= drawn'[v]
    BY <1>6, <2>1, <2>2, <2>4 DEF Saves
  <2>6. \A v \in Worker : For(v, pic)' /\ at'[v] = "enter" => content[pic] = drawn'[v]
    BY <1>6, <2>1, <2>2 DEF Saves
  <2>7. ASSUME NEW u \in Worker, NEW v \in Worker, For(u, pic)', For(v, pic)', Saving(u)', Saving(v)',
               drawn'[u] # drawn'[v]
        PROVE  FALSE
    <3>1. Goal(task[u]) = pic /\ Goal(task[v]) = pic /\ task' = task
      BY <1>3, <2>7 DEF For
    <3>2. Goal(task[u]) \in Crossing'
      BY <2>7, <3>1 DEF Crossing, Goal
    <3> QED BY <2>1, <3>1, <3>2
  <2> QED BY <2>3, <2>5, <2>6, <2>7
<1>10. TypeOK'
  <2>1. drawn' \in [Worker -> Version]
    BY <1>1, <1>5 DEF TypeOK
  <2>2. crossed' \subseteq Picture
    <3>1. Crossing' \subseteq Picture
      <4> SUFFICES ASSUME NEW v \in Worker, Saving(v)' PROVE Goal(task'[v]) \in Picture
        BY DEF Crossing
      <4>1. task'[v] \in Task
        BY <1>2 DEF SchedulerInv, SchedulerTypeOK, Saving
      <4> QED BY <4>1, GoalTyped
    <3> QED BY <1>1, <3>1 DEF TypeOK
  <2> QED BY <1>1, <1>2, <2>1, <2>2 DEF TypeOK, SchedulerInv, files, cache, commands, ui
<1> QED BY <1>1, <1>2, <1>7, <1>8, <1>9, <1>10 DEF Called, commands

(* A job begins to write its picture. *)
LEMMA OpenKeeps == ASSUME Inv, NEW w \in Worker, OpenPicture(w) PROVE Inv'
<1> USE DEF Inv
<1> DEFINE goal == Goal(task[w])
<1>1. at[w] = "write" /\ Goto(w, "fill")
      /\ UNCHANGED <<files, content, entry, drawn, commands, ui, bus, faults, ghost>>
  BY DEF OpenPicture
<1>2. SchedulerInv'
  BY <1>1, GotoKeeps
<1>3. UNCHANGED <<pending, task>>
  BY <1>1 DEF Goto
<1>4. task[w] \in Task /\ task[w] # NoTask
  BY <1>1, SchedulerConstantsOK DEF SchedulerInv, SchedulerTypeOK
<1>5. goal \in Picture
  BY <1>4, GoalTyped
<1>6. \A v \in Worker : at'[v] = IF v = w THEN "fill" ELSE at[v]
  BY <1>1 DEF Goto, SchedulerInv, SchedulerTypeOK
<1> HIDE DEF goal
<1>7. PICK is \in {"open", "torn"} : shape' = [shape EXCEPT ![goal] = is]
  BY DEF OpenPicture, goal
<1>8. Opened'
  <2> SUFFICES ASSUME NEW pic \in Picture, shape'[pic] = "open"
               PROVE  \E v \in Worker : at'[v] = "fill" /\ For(v, pic)
    BY <1>3 DEF Opened, For
  <2>1. CASE pic = goal
    BY <1>4, <1>6, <2>1 DEF For, goal
  <2>2. CASE pic # goal
    <3>1. shape[pic] = "open"
      BY <1>7, <2>2 DEF TypeOK
    <3> QED BY <1>6, <3>1 DEF Kept, Opened
  <2> QED BY <2>1, <2>2
<1>9. Kept'
  BY <1>1, <1>3, <1>6, <1>8 DEF Kept, Has
<1>10. Ages'
  BY <1>1, <1>3, <1>6 DEF Ages, Timely, Has, files, commands
<1>11. Saves'
  BY <1>1, <1>3, <1>6 DEF Saves, For, Saving, ghost
<1>12. TypeOK'
  <2>1. shape' \in [Picture -> {"whole", "open", "torn"}]
    BY <1>7 DEF TypeOK
  <2> QED BY <1>1, <1>2, <2>1 DEF TypeOK, SchedulerInv, files, commands, ghost, ui
<1> QED BY <1>1, <1>2, <1>9, <1>10, <1>11, <1>12 DEF Called, commands

(* A picture is written into the cache. *)
LEMMA WriteKeeps == ASSUME Inv, NEW w \in Worker, WritePicture(w) PROVE Inv'
<1> USE DEF Inv
<1> DEFINE goal == Goal(task[w])
<1>1. at[w] = "fill" /\ content' = [content EXCEPT ![goal] = drawn[w]] /\ Goto(w, "enter")
      /\ UNCHANGED <<files, entry, drawn, commands, ui, bus, faults, ghost>>
  BY DEF WritePicture
<1>2. SchedulerInv'
  BY <1>1, GotoKeeps
<1>3. UNCHANGED <<pending, task, entry, disk, crossed>>
  BY <1>1 DEF Goto, files, ghost
<1>4. task[w] \in Task /\ task[w] # NoTask
  BY <1>1, SchedulerConstantsOK DEF SchedulerInv, SchedulerTypeOK
<1>5. goal \in Picture /\ goal[1] = task[w].path
  BY <1>4, GoalTyped
<1>6. drawn[w] \in Version /\ drawn[w] # 0 /\ drawn[w] <= disk[task[w].path]
  BY <1>1 DEF TypeOK, Kept, Ages, Has
<1> HIDE DEF goal
<1>7. \A pic \in Picture : content'[pic] = IF pic = goal THEN drawn[w] ELSE content[pic]
  BY <1>1 DEF TypeOK
<1>8. \A v \in Worker : at'[v] = IF v = w THEN "enter" ELSE at[v]
  BY <1>1 DEF Goto, SchedulerInv, SchedulerTypeOK
<1>s. PICK is \in Shapes(w) : shape' = [shape EXCEPT ![goal] = is]
  BY DEF WritePicture, goal
<1>r. Shapes(w) = IF Rivals(w) # {} THEN {shape[goal]}
                  ELSE IF shape[goal] = "open" THEN {"whole"} ELSE {"whole", "torn"}
  BY DEF Shapes, goal
<1>o. Opened'
  <2> SUFFICES ASSUME NEW pic \in Picture, shape'[pic] = "open"
               PROVE  \E v \in Worker : at'[v] = "fill" /\ For(v, pic)
    BY <1>3 DEF Opened, For
  <2>1. CASE pic = goal
    <3>1. Rivals(w) # {}
      BY <1>5, <1>r, <1>s, <2>1 DEF TypeOK
    <3>2. PICK v \in Worker \ {w} : at[v] = "fill" /\ Goal(task[v]) = goal
      BY <3>1 DEF Rivals, goal
    <3>3. task[v] # NoTask
      BY <3>2 DEF SchedulerInv, SchedulerTypeOK
    <3> QED BY <1>8, <2>1, <3>2, <3>3 DEF For
  <2>2. CASE pic # goal
    <3>1. shape[pic] = "open"
      BY <1>5, <1>s, <2>2 DEF TypeOK
    <3>2. PICK v \in Worker : at[v] = "fill" /\ For(v, pic)
      BY <3>1 DEF Kept, Opened
    <3>3. v # w
      BY <2>2, <3>2 DEF For, goal
    <3> QED BY <1>8, <3>2, <3>3
  <2> QED BY <2>1, <2>2
<1>9. Kept'
  <2> SUFFICES ASSUME NEW v \in Worker
               PROVE  /\ Has(v)' => drawn[v] # 0
                      /\ at'[v] \in {"enter", "show"} => content'[Goal(task[v])] # 0
                      /\ at'[v] \in {"show", "spare"} => task[v].kind # "prefetch"
    BY <1>1, <1>3, <1>o DEF Kept
  <2>1. Has(v)' <=> Has(v)
    BY <1>1, <1>8 DEF Has
  <2>2. CASE v = w
    BY <1>5, <1>6, <1>7, <1>8, <2>1, <2>2 DEF Kept, goal
  <2>3. CASE v # w
    <3>1. at'[v] = at[v]
      BY <1>8, <2>3
    <3>2. at[v] \in {"enter", "show"} => Goal(task[v]) \in Picture /\ content[Goal(task[v])] # 0
      BY GoalTyped DEF Kept, SchedulerInv, SchedulerTypeOK
    <3> QED BY <1>6, <1>7, <2>1, <3>1, <3>2 DEF Kept
  <2> QED BY <2>2, <2>3
<1>10. Ages'
  <2>1. \A pic \in Picture : content'[pic] <= disk[pic[1]]
    BY <1>5, <1>6, <1>7 DEF Ages
  <2>2. \A v \in Worker : Has(v)' <=> Has(v)
    BY <1>1, <1>8 DEF Has
  <2> QED BY <1>1, <1>3, <2>1, <2>2 DEF Ages, Timely, files, commands
<1>11. Saves'
  <2> SUFFICES ASSUME NEW pic \in Picture, pic \notin crossed
               PROVE  /\ entry[pic] <= content'[pic]
                      /\ \A v \in Worker : For(v, pic) /\ at'[v] \in {"write", "fill"} => entry[pic] <= drawn[v]
                      /\ \A v \in Worker : For(v, pic) /\ at'[v] = "enter" => content'[pic] = drawn[v]
                      /\ \A u, v \in Worker : For(u, pic) /\ For(v, pic) /\ Saving(u)' /\ Saving(v)' =>
                           drawn[u] = drawn[v]
    BY <1>1, <1>3 DEF Saves, For
  <2>1. \A v \in Worker : Saving(v)' <=> Saving(v)
    BY <1>1, <1>8 DEF Saving
  <2>2. CASE pic # goal
    BY <1>4, <1>7, <1>8, <2>1, <2>2 DEF Saves, For, goal
  <2>3. CASE pic = goal
    <3>1. For(w, pic) /\ Saving(w)
      BY <1>1, <1>4, <2>3 DEF For, goal, Saving
    <3>2. \A v \in Worker : For(v, pic) /\ Saving(v) => drawn[v] = drawn[w]
      BY <3>1 DEF Saves
    <3>3. entry[pic] <= drawn[w]
      BY <1>1, <3>1 DEF Saves
    <3> QED BY <1>7, <1>8, <2>1, <2>3, <3>2, <3>3 DEF Saving
  <2> QED BY <2>2, <2>3
<1>12. TypeOK'
  <2>1. content' \in [Picture -> Version]
    BY <1>1, <1>6 DEF TypeOK
  <2>2. shape' \in [Picture -> {"whole", "open", "torn"}]
    <3>1. shape \in [Picture -> {"whole", "open", "torn"}]
      BY DEF TypeOK
    <3>2. is \in {"whole", "open", "torn"}
      BY <1>5, <1>r, <3>1
    <3> QED BY <1>s, <3>1, <3>2
  <2> QED BY <1>1, <1>2, <2>1, <2>2 DEF TypeOK, SchedulerInv, files, commands, ghost, ui
<1> QED BY <1>1, <1>2, <1>9, <1>10, <1>11, <1>12 DEF Called, commands

(* A picture is entered. *)
LEMMA PutKeeps == ASSUME Inv, NEW w \in Worker, PutEntry(w) PROVE Inv'
<1> USE DEF Inv
<1> DEFINE goal == Goal(task[w])
<1>1. at[w] = "enter" /\ entry' = [entry EXCEPT ![goal] = task[w].version]
      /\ UNCHANGED <<files, content, shape, drawn, commands, ui, bus, faults, ghost>>
  BY DEF PutEntry, Dated
<1>2. PICK place \in {"end", "show"} : Goto(w, place) /\ (place = "show" => task[w].kind # "prefetch")
  BY DEF PutEntry
<1>3. SchedulerInv'
  BY <1>1, <1>2, GotoKeeps
<1>4. UNCHANGED <<pending, task, content, drawn, disk, crossed>>
  BY <1>1, <1>2 DEF Goto, files, ghost
<1>5. task[w] \in Timely /\ task[w] \in Task /\ task[w] # NoTask
  BY <1>1, SchedulerConstantsOK DEF SchedulerInv, SchedulerTypeOK, Ages
<1>6. goal \in Picture
  BY <1>5, GoalTyped
<1>7. task[w].version <= drawn[w] /\ drawn[w] \in Nat /\ task[w].version \in Nat
  BY <1>1, <1>5, PreviewConstantsOK DEF Ages, Has, TypeOK, Version, Task
<1>8. task[w].version \in Version
  <2>1. disk[task[w].path] \in Version /\ task[w].version <= disk[task[w].path]
    BY <1>5 DEF Timely, TypeOK, Task
  <2> QED BY <1>7, <2>1, PreviewConstantsOK DEF Version
<1> HIDE DEF goal
<1>9. \A pic \in Picture : entry'[pic] = IF pic = goal THEN task[w].version ELSE entry[pic]
  BY <1>1 DEF TypeOK
<1>10. \A v \in Worker : at'[v] = IF v = w THEN place ELSE at[v]
  BY <1>2 DEF Goto, SchedulerInv, SchedulerTypeOK
<1>o. Opened'
  BY <1>1, <1>2, StillOpened
<1>11. Kept'
  BY <1>1, <1>2, <1>4, <1>10, <1>o DEF Kept, Has
<1>12. Ages'
  BY <1>1, <1>4, <1>10 DEF Ages, Timely, Has, files, commands
<1>13. Saves'
  <2> SUFFICES ASSUME NEW pic \in Picture, pic \notin crossed
               PROVE  /\ entry'[pic] <= content[pic]
                      /\ \A v \in Worker : For(v, pic) /\ at'[v] \in {"write", "fill"} => entry'[pic] <= drawn[v]
                      /\ \A v \in Worker : For(v, pic) /\ at'[v] = "enter" => content[pic] = drawn[v]
                      /\ \A u, v \in Worker : For(u, pic) /\ For(v, pic) /\ Saving(u)' /\ Saving(v)' =>
                           drawn[u] = drawn[v]
    BY <1>4 DEF Saves, For
  <2>1. \A v \in Worker : Saving(v)' => Saving(v)
    BY <1>1, <1>10 DEF Saving
  <2>2. \A v \in Worker : at'[v] \in {"write", "fill", "enter"} => at'[v] = at[v]
    BY <1>10
  <2>3. CASE pic # goal
    BY <1>9, <2>1, <2>2, <2>3 DEF Saves
  <2>4. CASE pic = goal
    <3>1. For(w, pic) /\ Saving(w)
      BY <1>1, <1>5, <2>4 DEF For, goal, Saving
    <3>2. \A v \in Worker : For(v, pic) /\ Saving(v) => drawn[v] = drawn[w]
      BY <3>1 DEF Saves
    <3>3. content[pic] = drawn[w]
      BY <1>1, <3>1 DEF Saves
    <3> QED BY <1>7, <1>9, <2>1, <2>2, <2>4, <3>2, <3>3 DEF Saving, Saves
  <2> QED BY <2>3, <2>4
<1>14. TypeOK'
  <2>1. entry' \in [Picture -> Version]
    BY <1>1, <1>8 DEF TypeOK
  <2> QED BY <1>1, <1>3, <2>1 DEF TypeOK, SchedulerInv, files, commands, ghost, ui
<1> QED BY <1>1, <1>3, <1>11, <1>12, <1>13, <1>14 DEF Called, commands

(* Saving fails. *)
LEMMA SaveFailsKeeps == ASSUME Inv, NEW w \in Worker, SaveFails(w) PROVE Inv'
<1> USE DEF Inv
<1>1. Saving(w) /\ at[w] \notin {"look", "wait", "gone"}
      /\ UNCHANGED <<files, content, entry, drawn, commands, ui, bus, missed, crossed>>
  BY DEF SaveFails, Saving
<1>2. \E place \in {"end", "spare"} : Goto(w, place) /\ (place = "spare" => task[w].kind # "prefetch")
  BY DEF SaveFails, Fails
<1>g. task[w] # NoTask /\ Goal(task[w]) \in Picture
  BY <1>1, GoalTyped, SchedulerConstantsOK DEF SchedulerInv, SchedulerTypeOK
<1>s. shape' = IF at[w] = "fill" THEN [shape EXCEPT ![Goal(task[w])] = "torn"] ELSE shape
  BY DEF SaveFails
<1>o. Opened'
  <2>1. CASE at[w] # "fill"
    BY <1>2, <1>s, <2>1, StillOpened
  <2>2. CASE at[w] = "fill"
    <3> SUFFICES ASSUME NEW pic \in Picture, shape'[pic] = "open"
                 PROVE  \E v \in Worker : at'[v] = "fill" /\ For(v, pic)'
      BY DEF Opened
    <3>1. pic # Goal(task[w]) /\ shape[pic] = "open"
      BY <1>g, <1>s, <2>2 DEF TypeOK
    <3>2. PICK v \in Worker : at[v] = "fill" /\ For(v, pic)
      BY <3>1 DEF Kept, Opened
    <3>3. v # w
      BY <3>1, <3>2 DEF For
    <3>4. at'[v] = at[v] /\ task' = task
      BY <1>2, <3>3 DEF Goto, SchedulerInv, SchedulerTypeOK
    <3> QED BY <3>2, <3>4 DEF For
  <2> QED BY <2>1, <2>2
<1>3. Kept' /\ SchedulerInv' /\ Ages' /\ Saves'
  BY <1>1, <1>2, <1>o, OnwardKeeps DEF commands
<1>t. shape' \in [Picture -> {"whole", "open", "torn"}]
  BY <1>s DEF TypeOK
<1>4. faults' \in 0 .. MaxFaults
  BY PreviewConstantsOK DEF SaveFails, Fails, Fault, TypeOK
<1>5. broken' \subseteq Path
  <2>1. task[w] \in Task
    BY <1>1 DEF SchedulerInv, SchedulerTypeOK
  <2> QED BY <2>1 DEF SaveFails, Fails, TypeOK, Task
<1>6. TypeOK'
  BY <1>1, <1>3, <1>t, <1>4, <1>5 DEF TypeOK, SchedulerInv, files, commands, ui
<1> QED BY <1>1, <1>3, <1>6 DEF Called, commands

(* A picture is delivered. *)
LEMMA ShowKeeps == ASSUME Inv, NEW w \in Worker, Show(w) PROVE Inv'
<1> USE DEF Inv
<1> DEFINE t == task[w]
<1>1. at[w] \in {"show", "spare"} /\ Goto(w, "end")
      /\ UNCHANGED <<files, cache, drawn, asked, request, stage, ui, faults, broken, crossed>>
  BY DEF Show
<1>2. SchedulerInv'
  BY <1>1, GotoKeeps
<1>o. Opened'
  BY <1>1, StillOpened DEF cache
<1>3. Kept' /\ Ages' /\ Saves'
  BY <1>1, <1>o, OnwardKeeps DEF cache
<1>4. t \in Task
  BY <1>1 DEF SchedulerInv, SchedulerTypeOK
<1>5. Product(w) \in Image
  <2>1. drawn[w] \in Version
    BY DEF TypeOK
  <2>2. Draft(drawn[w]) \in Image /\ Sharp(drawn[w]) \in Image
    BY <2>1 DEF Image
  <2>3. Goal(t) \in Picture /\ (t.kind = "large" => Goal(t) = <<t.path, "large">>)
    BY <1>4, GoalTyped DEF Goal
  <2>4. CASE t.kind = "large"
    BY <2>2, <2>3, <2>4, ImageOfCache DEF Product
  <2>5. CASE t.kind = "thumbnail"
    BY <2>2, <2>5 DEF Product
  <2>6. t.kind # "prefetch"
    BY <1>1 DEF Kept
  <2> QED BY <1>4, <2>4, <2>5, <2>6 DEF Task, Kind
<1>6. slot' \in [Request -> Image] /\ missed' \subseteq Request /\ bus' \in Seq([path : Path, image : Image])
  <2>1. CASE t.kind = "large" /\ Slotted(t.request)
    <3>1. slot' = [slot EXCEPT ![t.request] = Product(w)] /\ missed' = missed \cup Bereft(w) /\ bus' = bus
      BY <2>1 DEF Show
    <3> HIDE DEF t
    <3> QED BY <1>5, <3>1 DEF TypeOK, Bereft
  <2>2. CASE ~(t.kind = "large" /\ Slotted(t.request))
    <3>1. bus' = Append(bus, [path |-> t.path, image |-> Product(w)]) /\ UNCHANGED <<slot, missed>>
      BY <2>2 DEF Show
    <3>2. [path |-> t.path, image |-> Product(w)] \in [path : Path, image : Image]
      BY <1>4, <1>5 DEF Task
    <3> QED BY <3>1, <3>2, AppendProperties DEF TypeOK
  <2> QED BY <2>1, <2>2
<1>7. TypeOK'
  BY <1>1, <1>2, <1>6 DEF TypeOK, SchedulerInv, files, cache, ui
<1> QED BY <1>1, <1>2, <1>3, <1>7 DEF Called

(* The application ends. *)
LEMMA ExitKeeps == ASSUME Inv, Exit PROVE Inv'
<1> USE DEF Inv
<1>1. SchedulerInv'
  BY DropKeeps DEF Exit
<1>2. UNCHANGED <<running, task, files, cache, drawn, asked, request, faults, ghost>> /\ pending' = <<>>
  BY DEF Exit, Drop
<1>3. \A w \in Worker : at'[w] = at[w] \/ (at[w] = "wait" /\ at'[w] = "look")
  BY DEF Exit, Drop, NotifyAll, SchedulerInv, SchedulerTypeOK
<1>4. \A w \in Worker : /\ (Has(w)' <=> Has(w)) /\ (Saving(w)' <=> Saving(w))
                       /\ (at'[w] = "write" <=> at[w] = "write")
                       /\ (at'[w] = "fill" <=> at[w] = "fill")
                       /\ (at'[w] = "enter" <=> at[w] = "enter")
                       /\ (at'[w] = "show" <=> at[w] = "show")
                       /\ (at'[w] = "spare" <=> at[w] = "spare")
  BY <1>3 DEF Has, Saving
<1>5. Kept' /\ Saves'
  BY <1>2, <1>4 DEF Kept, Opened, Saves, For, cache, ghost
<1>6. Ages'
  BY <1>2, <1>4, EmptySeq DEF Ages, Timely, files, cache
<1>7. TypeOK'
  <2>1. stage' \in [Request -> {"new", "lookup", "order", "open", "hit", "reply", "ahead", "done"}]
    BY DEF Exit
  <2>2. slot' \in [Request -> Image] /\ known' \in [Path -> Image] /\ bus' \in Seq([path : Path, image : Image])
    BY EmptySeq DEF Exit, Image
  <2>3. Off \in [path : Path \cup {NoPath}, request : 0 .. MaxRequests, shows : Image, listens : BOOLEAN]
    BY PreviewConstantsOK DEF Off, Still, Image
  <2>4. hook' \in [Hook -> [path : Path \cup {NoPath}, request : 0 .. MaxRequests, shows : Image,
                           listens : BOOLEAN]]
    BY <2>3 DEF Exit
  <2> QED BY <1>1, <1>2, <2>1, <2>2, <2>4 DEF TypeOK, SchedulerInv, files, cache, ghost
<1>8. Called'
  BY DEF Exit, Called
<1> QED BY <1>1, <1>5, <1>6, <1>7, <1>8

-----------------------------------------------------------------------------
(* The specification. *)

(* A worker moves on. *)
LEMMA WorkerKeeps ==
  ASSUME Inv, NEW w \in Worker, WorkerStep(w) \/ (OfScheduler /\ Wake(w))
  PROVE  Inv'
<1>1. CASE OfScheduler /\ Take(w)
  BY <1>1, TakeStep
<1>2. CASE OfScheduler /\ (Sleep(w) \/ Wake(w) \/ Quit(w))
  BY <1>2, RestStep
<1>3. CASE Return(w)
  BY <1>3, ReturnKeeps
<1>4. CASE GiveUp(w) \/ DrawFails(w)
  BY <1>4, DrawEnds
<1>5. CASE Draw(w)
  BY <1>5, DrawKeeps
<1>a. CASE OpenPicture(w)
  BY <1>a, OpenKeeps
<1>6. CASE WritePicture(w)
  BY <1>6, WriteKeeps
<1>7. CASE PutEntry(w)
  BY <1>7, PutKeeps
<1>8. CASE SaveFails(w)
  BY <1>8, SaveFailsKeeps
<1>9. CASE Show(w)
  BY <1>9, ShowKeeps
<1> QED BY <1>1, <1>2, <1>3, <1>4, <1>5, <1>a, <1>6, <1>7, <1>8, <1>9 DEF WorkerStep, JobStep

(* The invariant is inductive. *)
LEMMA InvNext == ASSUME Inv, [Next]_vars PROVE Inv'
<1>1. CASE User
  <2>1. ASSUME NEW h \in Hook, LookAway(h) \/ \E p \in Path : LookAgain(h, p)
        PROVE  Inv'
    BY <2>1, HookKeeps
  <2>2. ASSUME NEW h \in Hook, NEW p \in Path, Look(h, p) PROVE Inv'
    BY <2>2, LookKeeps
  <2>3. ASSUME NEW p \in Path, Edit(p) \/ Rescan(p) PROVE Inv'
    BY <2>3, FileKeeps
  <2>4. ASSUME NEW p \in Path, Prefetch(p) PROVE Inv'
    BY <2>4, PrefetchKeeps
  <2> QED BY <1>1, <2>1, <2>2, <2>3, <2>4 DEF User
<1>2. CASE \E r \in Request : CommandStep(r)
  BY <1>2, CommandKeeps
<1>3. CASE Deliver
  BY <1>3, DeliverKeeps
<1>4. CASE \E w \in Worker : WorkerStep(w) \/ (OfScheduler /\ Wake(w))
  BY <1>4, WorkerKeeps
<1>5. CASE Exit
  BY <1>5, ExitKeeps
<1>6. CASE UNCHANGED vars
  <2> USE DEF Inv
  <2>1. SchedulerInv' /\ Kept' /\ Saves' /\ Ages'
    BY <1>6, SchedulerRests, CacheRests, AgesRest DEF vars, ghost, commands
  <2>2. TypeOK'
    BY <1>6, <2>1 DEF vars, TypeOK, SchedulerInv, files, cache, commands, ghost, ui
  <2> QED BY <1>6, <2>1, <2>2 DEF vars, Called, commands
<1> QED BY <1>1, <1>2, <1>3, <1>4, <1>5, <1>6 DEF Next

(* It always holds. *)
THEOREM InvAlways == Spec => []Inv
  BY InvInit, InvNext, PTL DEF Spec

(* Every variable keeps its type: no hook is ever shown a picture that does
   not exist, for one.                                                     *)
THEOREM TypeCorrect == Spec => []TypeOK
<1>1. Inv => TypeOK
  BY DEF Inv
<1> QED BY <1>1, InvAlways, PTL

(* No wake-up is lost (worker_loop, submit_job), for any number of workers. *)
THEOREM NoLostWakeup == Spec => []WorkConserving
<1>1. Inv => WorkConserving
  BY DEF Inv, SchedulerInv
<1> QED BY <1>1, InvAlways, PTL

(* The table of running jobs names only jobs that run (worker_loop).       *)
THEOREM TableCurrent == Spec => []TableIsCurrent
<1>1. Inv => TableIsCurrent
  BY DEF Inv, SchedulerInv
<1> QED BY <1>1, InvAlways, PTL

(* Uncrossed jobs leave a true cache (save_preview, get_valid_preview_path)
   of all pictures that no failed or overlapping write has torn, for any
   number of files, versions, jobs and faults.                             *)
THEOREM CacheTrue == Spec => []TrueUnlessCrossed
  BY InvTrue, InvAlways, PTL
=============================================================================
