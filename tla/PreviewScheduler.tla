-------------------------- MODULE PreviewScheduler --------------------------
(***************************************************************************)
(* PreviewScheduler of core/app/src/preview.rs (T-067): one queue of       *)
(* preview jobs, a fixed number of worker threads that sleep on a          *)
(* condition variable while it is empty, and the table of running jobs     *)
(* through which jobs are found and cancelled. What a job does between     *)
(* being taken and being finished is left to the module that uses this     *)
(* one. Each action is one critical section of the scheduler's mutex.      *)
(***************************************************************************)
EXTENDS Integers, Sequences, SequencesExt, FiniteSets

CONSTANTS
  Path,      (* the files with previews                                    *)
  Worker,    (* the threads                                                *)
  NoWorker,
  NoTask

Kind == {"thumbnail", "large", "prefetch"}
Key  == Path \X Kind
Task == [path : Path, kind : Kind, version : Nat, request : Nat]

ASSUME SchedulerConstantsOK ==
  /\ IsFiniteSet(Worker)
  /\ NoWorker \notin Worker
  /\ NoTask \notin Task

VARIABLES
  pending,   (* SchedulerState.pending, oldest first                       *)
  running,   (* SchedulerState.running: the worker registered under a key  *)
  at,        (* where each worker is                                       *)
  task,      (* what it works on                                           *)
  cancelled, (* the workers whose job's token is cancelled                 *)
  stop       (* SchedulerState.shutdown                                    *)

scheduler == <<pending, running, at, task, cancelled, stop>>

KeyOf(t) == <<t.path, t.kind>>

(* P0, P1 and P2. Nothing submits a P3 job, which is all a P0 job cancels. *)
Priority(t) == [large |-> 3, thumbnail |-> 2, prefetch |-> 1][t.kind]

(* The score of a task grows while it waits, so time may favour any task
   but one behind an older task of its priority or of a higher one.        *)
Eligible(i) == \A j \in 1 .. i - 1 : Priority(pending[j]) < Priority(pending[i])

Asleep == {w \in Worker : at[w] = "wait"}

(* is_queued_or_running                                                    *)
QueuedOrRunning(p) ==
  \/ \E i \in DOMAIN pending : pending[i].path = p
  \/ \E k \in Kind : running[<<p, k>>] # NoWorker

(* faulty variants: the sleepers are left to sleep                         *)
NotifyNone(place) == place
NotifyNobody == {at}

(* What notify_all and notify_one make of the places of the workers.       *)
NotifyAll(place) == [w \in Worker |-> IF place[w] = "wait" THEN "look" ELSE place[w]]

NotifyOne ==
  IF Asleep = {} THEN {at} ELSE {[at EXCEPT ![w] = "look"] : w \in Asleep}

(* A new task replaces the one of its key that still waits; there is never
   more than one.                                                          *)
Waits(t) == {i \in DOMAIN pending : KeyOf(pending[i]) = KeyOf(t)}

Others(t) ==
  IF Waits(t) = {} THEN pending ELSE RemoveAt(pending, CHOOSE i \in Waits(t) : TRUE)

SubmitJob(t) ==
  /\ IF stop THEN UNCHANGED <<pending, at>>
     ELSE pending' = Append(Others(t), t) /\ at' \in NotifyOne
  /\ UNCHANGED <<running, task, cancelled, stop>>

(* worker_loop: take a task, with a token of its own and an entry in the
   table; the entry of an older job of the same key is overwritten.        *)
Take(w) ==
  /\ at[w] = "look"
  /\ ~stop
  /\ \E i \in DOMAIN pending :
       /\ Eligible(i)
       /\ pending' = RemoveAt(pending, i)
       /\ task' = [task EXCEPT ![w] = pending[i]]
       /\ running' = [running EXCEPT ![KeyOf(pending[i])] = w]
  /\ at' = [at EXCEPT ![w] = "draw"]
  /\ cancelled' = cancelled \ {w}
  /\ UNCHANGED stop

(* ... or wait until there is one; a condition variable may wake a thread
   for no reason                                                           *)
Sleep(w) ==
  /\ at[w] = "look"
  /\ ~stop
  /\ pending = <<>>
  /\ at' = [at EXCEPT ![w] = "wait"]
  /\ UNCHANGED <<pending, running, task, cancelled, stop>>

Wake(w) ==
  /\ at[w] = "wait"
  /\ at' = [at EXCEPT ![w] = "look"]
  /\ UNCHANGED <<pending, running, task, cancelled, stop>>

Quit(w) ==
  /\ at[w] = "look"
  /\ stop
  /\ at' = [at EXCEPT ![w] = "gone"]
  /\ UNCHANGED <<pending, running, task, cancelled, stop>>

(* faulty variant: the table still names the worker                        *)
FinishUnlisted(w) ==
  /\ at[w] = "end"
  /\ at' = [NotifyAll(at) EXCEPT ![w] = "look"]
  /\ task' = [task EXCEPT ![w] = NoTask]
  /\ UNCHANGED <<pending, running, cancelled, stop>>

(* The job has returned or panicked: whoever is registered under its key
   no longer is.                                                           *)
Finish(w) ==
  /\ at[w] = "end"
  /\ running' = [running EXCEPT ![KeyOf(task[w])] = NoWorker]
  /\ at' = [NotifyAll(at) EXCEPT ![w] = "look"]
  /\ task' = [task EXCEPT ![w] = NoTask]
  /\ UNCHANGED <<pending, cancelled, stop>>

(* Drop: queued jobs are dropped, those in the table are cancelled.        *)
Drop ==
  /\ ~stop
  /\ stop' = TRUE
  /\ pending' = <<>>
  /\ cancelled' = cancelled \cup {running[k] : k \in {key \in Key : running[key] # NoWorker}}
  /\ at' = NotifyAll(at)
  /\ UNCHANGED <<running, task>>

SchedulerInit ==
  /\ pending = <<>>
  /\ running = [k \in Key |-> NoWorker]
  /\ at = [w \in Worker |-> "look"]
  /\ task = [w \in Worker |-> NoTask]
  /\ cancelled = {}
  /\ stop = FALSE

-----------------------------------------------------------------------------
(* The types of the scheduler's variables.                                 *)
SchedulerTypeOK ==
  /\ pending \in Seq(Task)
  /\ running \in [Key -> Worker \cup {NoWorker}]
  /\ at \in [Worker -> {"look", "wait", "draw", "write", "fill", "enter", "show", "spare", "end", "gone"}]
  /\ task \in [Worker -> Task \cup {NoTask}]
  /\ \A w \in Worker : task[w] = NoTask <=> at[w] \in {"look", "wait", "gone"}
  /\ cancelled \subseteq Worker
  /\ stop \in BOOLEAN

Looking == {w \in Worker : at[w] = "look"}

(* No wake-up is lost: a worker sleeps only while the workers that are about
   to look are enough for all the tasks that wait.                         *)
WorkConserving == Asleep # {} => Len(pending) <= Cardinality(Looking)

(* No two tasks of one key wait.                                           *)
OnePerKey == \A i, j \in DOMAIN pending : KeyOf(pending[i]) = KeyOf(pending[j]) => i = j

(* The table through which jobs are found and cancelled names only workers
   that work on what it says, although two jobs of one key may run and the
   second takes the entry of the first, which removes it on its return.    *)
TableIsCurrent ==
  \A k \in Key : running[k] # NoWorker =>
    task[running[k]] # NoTask /\ KeyOf(task[running[k]]) = k
=============================================================================
