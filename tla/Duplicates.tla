----------------------------- MODULE Duplicates -----------------------------
(***************************************************************************)
(* The duplicate cascade (core/app/src/duplicates): files of equal size,   *)
(* then of equal head and tail, then of equal content, over one snapshot   *)
(* of the index, with the hash cache that outlives the cascade, the worker *)
(* threads of stage 3, the limit of reads per volume and cancellation. The *)
(* user goes on working with the files meanwhile. A hash stands for what   *)
(* it is computed from; a read of a file is one step.                      *)
(***************************************************************************)
EXTENDS Integers, FiniteSets, FiniteSetsExt

CONSTANTS
  Path,       (* the files that can be indexed                             *)
  Content,    (* what a file can hold                                      *)
  NoContent,  (* what a deleted file holds                                 *)
  Size,       (* the size of each content                                  *)
  Edge,       (* its head and tail, all that a partial hash reads          *)
  NoHash,
  Volume,     (* the volume of each path                                   *)
  Worker,     (* the threads of stage 3                                    *)
  NoPath,
  MaxReads,   (* DEFAULT_MAX_CONCURRENT_READS_PER_VOLUME                   *)
  Limit       (* how often each kind of bounded event may happen           *)

Kind  == {"scan", "edit",
          "upset"}  \* a file left out, a read that fails, a cancellation
Edges == {Edge[c] : c \in Content}
Drives == {Volume[p] : p \in Path}

ASSUME ConstantsOK ==
  /\ IsFiniteSet(Path)
  /\ IsFiniteSet(Worker) /\ Worker # {}
  /\ NoContent \notin Content
  /\ NoHash \notin Content
  /\ NoHash \notin Edges \cup Nat
  /\ NoPath \notin Path
  /\ Size \in [Content -> Nat]
  /\ MaxReads \in Nat \ {0}
  /\ Limit \in [Kind -> Nat]

VARIABLES
  disk,       (* each file: its content and the time of its last change    *)
  record,     (* the index: size and time of each file as last scanned     *)
  cache,      (* the hash cache: one entry per path                        *)
  phase,      (* idle, partial (stage 2), full (stage 3)                   *)
  snap,       (* records the running, or last, cascade works on            *)
  todo,       (* files the current stage has not taken up                  *)
  partial,    (* hashes of stage 2                                         *)
  full,       (* hashes of stage 3                                         *)
  confirmed,  (* the groups the last cascade confirmed                     *)
  figure,     (* the figure shown for the category, and "refining"         *)
  cancel,     (* the cancellation token of the scan                        *)
  halted,     (* cancelled_flag of stage 3                                 *)
  thread,     (* per worker: where it is and which file it holds           *)
  active,     (* permits of the I/O gate in use on each volume             *)
  spent,      (* how often each bounded event has happened                 *)
  stale,      (* history: files changed after their content was hashed     *)
  failed,     (* history: files the running cascade could not read         *)
  hashed      (* history: the record under which each file was last hashed *)

files   == <<disk, record>>
cascade == <<phase, snap, todo, partial, full, confirmed, figure>>
control == <<cancel, halted>>
ghost   == <<stale, failed, hashed>>
pool    == <<thread, active>>
vars    == <<files, cache, cascade, control, pool, spent, ghost>>

Spend(kind) ==
  /\ spent[kind] < Limit[kind]
  /\ spent' = [spent EXCEPT ![kind] = @ + 1]

-----------------------------------------------------------------------------
(* The hash cache. An entry is valid for one size and one time.            *)

NoRecord == [size |-> 0, mtime |-> 0]
NoEntry  == [of |-> NoRecord, partial |-> NoHash, content |-> NoHash]

(* hash_cache_lookup                                                       *)
Hit(p) == cache[p].of = snap[p]

(* put_entry of an entry for the file as recorded: what it does not carry
   is kept from the entry that was there, whatever that one was valid for. *)
PutPartial(p, hash) ==
  cache' = [cache EXCEPT ![p] = [of |-> snap[p], partial |-> hash, content |-> @.content]]

(* faulty variant: the new entry is not stored                             *)
DropContent(p, hash) == cache' = cache

PutContent(p, hash) ==
  cache' = [cache EXCEPT ![p] = [of |-> snap[p], partial |-> @.partial, content |-> hash]]

-----------------------------------------------------------------------------
(* Groups: files of one recorded size with the same key, two at least.     *)

Alike(key, p) == {q \in Path : snap[q].size = snap[p].size /\ key[q] = key[p]}

(* faulty variant: pairs are dropped                                       *)
LargeGroups(key) ==
  {g \in {Alike(key, p) : p \in {q \in Path : snap[q].size > 0 /\ key[q] # NoHash}} :
     Cardinality(g) > 2}

Groups(key) ==
  {g \in {Alike(key, p) : p \in {q \in Path : snap[q].size > 0 /\ key[q] # NoHash}} :
     Cardinality(g) >= 2}

SizeKey == [p \in Path |-> snap[p].size]

GroupBytes(g) == Max({snap[p].size : p \in g}) * (Cardinality(g) - 1)

Reclaim(key) == MapThenSumSet(GroupBytes, Groups(key))

(* Files wait in the order of what their groups would free; ties in any
   order.                                                                  *)
Foremost(key, p) ==
  /\ p \in todo
  /\ \A q \in todo : GroupBytes(Alike(key, q)) <= GroupBytes(Alike(key, p))

-----------------------------------------------------------------------------
(* A scan records the files, then stage 1 groups all records but those     *)
(* with Decision::Keep, folder units and placeholders of cloud files.      *)

Clean == [p \in Path |-> NoHash]

Start ==
  /\ phase = "idle"
  /\ spent["scan"] < Limit["scan"]
  /\ record' = [p \in Path |-> IF disk[p].content = NoContent THEN record[p]
                              ELSE [size |-> Size[disk[p].content], mtime |-> disk[p].mtime]]
  /\ \E left \in SUBSET Path :
       /\ spent["upset"] + Cardinality(left) <= Limit["upset"]
       /\ spent' = [spent EXCEPT !["scan"] = @ + 1, !["upset"] = @ + Cardinality(left)]
       /\ snap' = [p \in Path |-> IF p \in left THEN NoRecord ELSE record'[p]]
  /\ todo' = UNION Groups(SizeKey)'
  /\ phase' = "partial"
  /\ partial' = Clean
  /\ full' = Clean
  /\ confirmed' = {}
  /\ figure' = [bytes |-> 0, refining |-> FALSE]
  /\ cancel' = FALSE
  /\ halted' = FALSE
  /\ failed' = {}
  /\ UNCHANGED <<disk, cache, pool, stale, hashed>>

-----------------------------------------------------------------------------
(* Stage 2: one thread.                                                    *)

PartialHit ==
  /\ phase = "partial"
  /\ ~cancel
  /\ \E p \in todo :
       /\ Foremost(SizeKey, p)
       /\ Hit(p)
       /\ cache[p].partial # NoHash
       /\ partial' = [partial EXCEPT ![p] = cache[p].partial]
       /\ todo' = todo \ {p}
  /\ UNCHANGED <<files, cache, phase, snap, full, confirmed, figure, control, pool, spent, ghost>>

(* what the head and the tail of the recorded size may show: of a file that
   has grown, some bytes that are not its tail                             *)
Seen(p) ==
  LET c == disk[p].content IN
  IF c = NoContent \/ Size[c] < snap[p].size THEN {}
  ELSE IF Size[c] = snap[p].size THEN {Edge[c]} ELSE Edges

PartialRead ==
  /\ phase = "partial"
  /\ ~cancel
  /\ \E p \in todo :
       /\ Foremost(SizeKey, p)
       /\ ~(Hit(p) /\ cache[p].partial # NoHash)
       /\ \E hash \in Seen(p) :
            /\ partial' = [partial EXCEPT ![p] = hash]
            /\ PutPartial(p, hash)
       /\ todo' = todo \ {p}
  /\ UNCHANGED <<files, phase, snap, full, confirmed, figure, control, pool, spent, ghost>>

PartialFails ==
  /\ phase = "partial"
  /\ ~cancel
  /\ \E p \in todo :
       /\ Foremost(SizeKey, p)
       /\ ~(Hit(p) /\ cache[p].partial # NoHash)
       /\ \/ Seen(p) = {} /\ UNCHANGED spent
          \/ Spend("upset")
       /\ todo' = todo \ {p}
       /\ failed' = failed \cup {p}
  /\ UNCHANGED <<files, cache, phase, snap, partial, full, confirmed, figure, control, pool, stale, hashed>>

(* The preliminary figure; stage 3 starts if there is anything to confirm. *)
EndPartial ==
  /\ phase = "partial"
  /\ cancel \/ todo = {}
  /\ LET refine == ~cancel /\ Groups(partial) # {} IN
     /\ figure' = [bytes |-> Reclaim(partial), refining |-> refine]
     /\ phase' = IF refine THEN "full" ELSE "idle"
     /\ todo' = IF refine THEN UNION Groups(partial) ELSE {}
     /\ thread' = IF refine THEN [w \in Worker |-> [at |-> "top", file |-> NoPath]] ELSE thread
  /\ UNCHANGED <<files, cache, snap, partial, full, confirmed, control, active, spent, ghost>>

-----------------------------------------------------------------------------
(* Stage 3: threads take files from one queue. A thread that has to read   *)
(* one waits for a permit of its volume and returns it after the read.     *)

At(w, place) == thread[w].at = place
Holds(w)     == thread[w].file
Drive(w)     == Volume[Holds(w)]

(* faulty variant: the file is not put away                                *)
MoveOn(w, at, p) ==
  thread' = [thread EXCEPT ![w] = [at |-> at, file |-> IF p = NoPath THEN Holds(w) ELSE p]]

Become(w, at, p) == thread' = [thread EXCEPT ![w] = [at |-> at, file |-> p]]

FullHit(w) ==
  /\ At(w, "top")
  /\ ~cancel /\ ~halted
  /\ \E p \in todo :
       /\ Foremost(partial, p)
       /\ Hit(p)
       /\ cache[p].content # NoHash
       /\ full' = [full EXCEPT ![p] = cache[p].content]
       /\ todo' = todo \ {p}
  /\ UNCHANGED <<files, cache, phase, snap, partial, confirmed, figure, control, pool, spent, ghost>>

TakeFile(w) ==
  /\ At(w, "top")
  /\ ~cancel /\ ~halted
  /\ \E p \in todo :
       /\ Foremost(partial, p)
       /\ ~(Hit(p) /\ cache[p].content # NoHash)
       /\ todo' = todo \ {p}
       /\ Become(w, "gate", p)
  /\ UNCHANGED <<files, cache, phase, snap, partial, full, confirmed, figure, control, active, spent, ghost>>

(* faulty variant: one permit too many                                     *)
RoomForOneMore(v) == active[v] <= MaxReads

Room(v) == active[v] < MaxReads

(* VolumeIoGate::acquire; a cancelled waiter leaves the gate               *)
Acquire(w) ==
  /\ At(w, "gate")
  /\ ~cancel
  /\ Room(Drive(w))
  /\ active' = [active EXCEPT ![Drive(w)] = @ + 1]
  /\ Become(w, "read", Holds(w))
  /\ UNCHANGED <<files, cache, cascade, control, spent, ghost>>

(* faulty variant: the permit is kept                                      *)
KeepPermit(w) == active' = active

(* VolumeIoPermit::drop                                                    *)
Release(w) == active' = [active EXCEPT ![Drive(w)] = @ - 1]

FullRead(w) ==
  LET p == Holds(w) IN
  /\ At(w, "read")
  /\ disk[p].content # NoContent
  /\ full' = [full EXCEPT ![p] = disk[p].content]
  /\ PutContent(p, disk[p].content)
  /\ hashed' = [hashed EXCEPT ![p] = snap[p]]
  /\ Release(w)
  /\ Become(w, "top", NoPath)
  /\ UNCHANGED <<files, phase, snap, todo, partial, confirmed, figure, control, spent, stale, failed>>

FullFails(w) ==
  /\ At(w, "read")
  /\ \/ disk[Holds(w)].content = NoContent /\ UNCHANGED spent
     \/ Spend("upset")
  /\ failed' = failed \cup {Holds(w)}
  /\ Release(w)
  /\ Become(w, "top", NoPath)
  /\ UNCHANGED <<files, cache, cascade, control, stale, hashed>>

(* A thread that finds nothing left, or the token cancelled at the top of
   its loop, at the gate or between two blocks of a file, ends; in the last
   three cases it halts the others.                                        *)
Quit(w) ==
  /\ \/ At(w, "top") /\ (todo = {} \/ cancel \/ halted)
     \/ At(w, "gate") /\ cancel
     \/ At(w, "read") /\ cancel
  /\ halted' = (halted \/ cancel)
  /\ IF At(w, "read") THEN Release(w) ELSE UNCHANGED active
  /\ Become(w, "out", NoPath)
  /\ UNCHANGED <<files, cache, cascade, cancel, spent, ghost>>

(* faulty variant: a cancelled stage confirms what stage 2 has found       *)
EndFullEarly ==
  /\ phase = "full"
  /\ \A w \in Worker : At(w, "out")
  /\ confirmed' = IF cancel THEN Groups(partial) ELSE Groups(full)
  /\ figure' = [bytes |-> Reclaim(full), refining |-> FALSE]
  /\ phase' = "idle"
  /\ todo' = {}
  /\ UNCHANGED <<files, cache, snap, partial, full, control, pool, spent, ghost>>

(* All threads joined: also a cancelled stage confirms what it has hashed. *)
EndFull ==
  /\ phase = "full"
  /\ \A w \in Worker : At(w, "out")
  /\ confirmed' = Groups(full)
  /\ figure' = [bytes |-> Reclaim(full), refining |-> FALSE]
  /\ phase' = "idle"
  /\ todo' = {}
  /\ UNCHANGED <<files, cache, snap, partial, full, control, pool, spent, ghost>>

-----------------------------------------------------------------------------
(* The user.                                                               *)

(* scan_stop                                                               *)
Cancel ==
  /\ phase # "idle"
  /\ ~cancel
  /\ Spend("upset")
  /\ cancel' = TRUE
  /\ UNCHANGED <<files, cache, cascade, halted, pool, ghost>>

Edit(p, content) ==
  /\ disk[p].content # NoContent
  /\ content # disk[p].content
  /\ Spend("edit")
  /\ disk' = [disk EXCEPT ![p] = [content |-> content, mtime |-> @.mtime + 1]]
  /\ stale' = IF cache[p].content # NoHash THEN stale \cup {p} ELSE stale
  /\ UNCHANGED <<record, cache, cascade, control, pool, failed, hashed>>

Init ==
  /\ disk \in [Path -> [content : Content, mtime : {1}]]
  /\ record = [p \in Path |-> NoRecord]
  /\ cache = [p \in Path |-> NoEntry]
  /\ phase = "idle"
  /\ snap = [p \in Path |-> NoRecord]
  /\ todo = {}
  /\ partial = Clean
  /\ full = Clean
  /\ confirmed = {}
  /\ figure = [bytes |-> 0, refining |-> FALSE]
  /\ cancel = FALSE
  /\ halted = FALSE
  /\ thread = [w \in Worker |-> [at |-> "out", file |-> NoPath]]
  /\ active = [v \in Drives |-> 0]
  /\ spent = [k \in Kind |-> 0]
  /\ stale = {}
  /\ failed = {}
  /\ hashed = [p \in Path |-> NoRecord]

Stage2 == PartialHit \/ PartialRead \/ PartialFails \/ EndPartial

Stage3(w) == FullHit(w) \/ TakeFile(w) \/ Acquire(w) \/ FullRead(w) \/ FullFails(w) \/ Quit(w)

User == Cancel \/ \E p \in Path, c \in Content \cup {NoContent} : Edit(p, c)

Next == Start \/ Stage2 \/ (\E w \in Worker : Stage3(w)) \/ EndFull \/ User

Spec == Init /\ [][Next]_vars

(* The scan thread runs the cascade to its end, the threads it has started
   run to theirs; a read returns, and a waiter at the gate looks again at
   least every 50 ms. Nobody has to scan, cancel or edit.                  *)
Fairness ==
  /\ WF_vars(Stage2) /\ WF_vars(EndFull)
  /\ \A w \in Worker : WF_vars(Stage3(w))

FairSpec == Spec /\ Fairness

-----------------------------------------------------------------------------
Record == [size : Nat, mtime : Nat]
Entry  == [of : Record, partial : Edges \cup {NoHash}, content : Content \cup {NoHash}]

FilesOK ==
  /\ disk \in [Path -> [content : Content \cup {NoContent}, mtime : Nat]]
  /\ record \in [Path -> Record]
  /\ cache \in [Path -> Entry]

CascadeOK ==
  /\ phase \in {"idle", "partial", "full"}
  /\ snap \in [Path -> Record]
  /\ todo \subseteq Path
  /\ partial \in [Path -> Edges \cup {NoHash}]
  /\ full \in [Path -> Content \cup {NoHash}]
  /\ confirmed \subseteq SUBSET Path
  /\ figure.refining \in BOOLEAN

PoolOK ==
  /\ cancel \in BOOLEAN
  /\ halted \in BOOLEAN
  /\ thread \in [Worker -> [at : {"top", "gate", "read", "out"}, file : Path \cup {NoPath}]]
  /\ active \in [Drives -> Int]

(* Every variable keeps its type, and a thread that waits or reads holds a
   file.                                                                   *)
TypeOK ==
  /\ FilesOK /\ CascadeOK /\ PoolOK
  /\ \A w \in Worker : Holds(w) \in Path <=> thread[w].at \in {"gate", "read"}
  /\ spent \in [Kind -> Nat]
  /\ stale \subseteq Path
  /\ failed \subseteq Path
  /\ hashed \in [Path -> Record]

(* the file is still the one the records of the cascade describe, which is
   what a reap checks before it moves it                                   *)
Unchanged(p) == disk[p].content # NoContent /\ disk[p].mtime = snap[p].mtime

(* Never more reads of one volume at a time than the limit, and no permit
   is lost or returned twice, whatever fails or is cancelled.              *)
ReadsBounded ==
  \A v \in Drives :
    /\ active[v] <= MaxReads
    /\ active[v] = Cardinality({w \in Worker : At(w, "read") /\ Drive(w) = v})

(* Files of one confirmed group that can still be reaped are identical.    *)
ConfirmedMeansIdentical ==
  \A g \in confirmed : \A p, q \in g :
    Unchanged(p) /\ Unchanged(q) => disk[p].content = disk[q].content

(* The same of files that were not changed after their content was hashed. *)
IdenticalUnlessRehashed ==
  \A g \in confirmed : \A p, q \in g \ stale :
    Unchanged(p) /\ Unchanged(q) => disk[p].content = disk[q].content

(* A cascade that ran to its end has found every pair of duplicates among
   the files it considered, could read and nobody changed.                 *)
AllDuplicatesFound ==
  phase = "idle" /\ ~cancel =>
    \A p, q \in Path \ (stale \cup failed) :
      /\ p # q
      /\ Unchanged(p) /\ Unchanged(q)
      /\ snap[p].size > 0
      /\ disk[p].content = disk[q].content
      => \E g \in confirmed : {p, q} \subseteq g

(* A file whose size and time are those it was last hashed under is never
   read in full again.                                                     *)
NoRehash ==
  [][\A w \in Worker : thread[w].file = NoPath /\ thread'[w].file # NoPath
       => hashed[thread'[w].file] # snap[thread'[w].file]]_vars

(* Every cascade ends, and with it the mark that its figure is being
   refined, also when it is cancelled while threads wait for a permit.     *)
CascadeEnds == phase # "idle" ~> phase = "idle" /\ ~figure.refining
=============================================================================
