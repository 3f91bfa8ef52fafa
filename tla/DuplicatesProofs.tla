-------------------------- MODULE DuplicatesProofs --------------------------
(***************************************************************************)
(* What holds of the duplicate cascade for any files, contents, threads    *)
(* and limits: the types; the bound on concurrent reads of a volume; that  *)
(* confirmed files which were not changed since their content was hashed,  *)
(* nor since they were recorded, are identical; that a cascade that ran to *)
(* its end has found every pair; that nothing is hashed in full twice.     *)
(***************************************************************************)
EXTENDS Duplicates, FiniteSetTheorems, TLAPS

-----------------------------------------------------------------------------
(* Types. *)

(* Files that groups are made of are files. *)
LEMMA GroupsArePaths == ASSUME NEW key PROVE UNION Groups(key) \subseteq Path
  BY DEF Groups, Alike

(* The same of the groups of the next state. *)
LEMMA SizeGroupsArePaths == UNION Groups(SizeKey)' \subseteq Path
  BY DEF Groups, Alike

(* Moving one thread keeps the types of the threads. *)
LEMMA BecomeTyped ==
  ASSUME TypeOK, NEW w \in Worker, NEW at \in {"top", "gate", "read", "out"},
         NEW p \in Path \cup {NoPath}, p \in Path <=> at \in {"gate", "read"},
         Become(w, at, p)
  PROVE  /\ thread' \in [Worker -> [at : {"top", "gate", "read", "out"}, file : Path \cup {NoPath}]]
         /\ \A v \in Worker : Holds(v)' \in Path <=> thread'[v].at \in {"gate", "read"}
  BY DEF TypeOK, PoolOK, Become, Holds

(* The file a thread waits for or reads lies on a known volume. *)
LEMMA DriveTyped ==
  ASSUME TypeOK, NEW w \in Worker, thread[w].at \in {"gate", "read"}
  PROVE  Holds(w) \in Path /\ Drive(w) \in Drives
  BY DEF TypeOK, Drive, Drives

(* Bounded events are counted. *)
LEMMA SpendTyped == ASSUME TypeOK, NEW kind \in Kind, Spend(kind) PROVE spent' \in [Kind -> Nat]
  BY DEF TypeOK, Spend

(* The first state is well typed. *)
THEOREM TypeInit == Init => TypeOK
<1> SUFFICES ASSUME Init PROVE TypeOK
  OBVIOUS
<1>1. FilesOK
  BY DEF Init, FilesOK, NoEntry, NoRecord, Entry, Record
<1>2. CascadeOK
  BY DEF Init, CascadeOK, Clean, NoRecord, Record
<1>3. PoolOK /\ \A w \in Worker : Holds(w) \in Path <=> thread[w].at \in {"gate", "read"}
  <2>1. \A w \in Worker : thread[w] = [at |-> "out", file |-> NoPath]
    BY DEF Init
  <2>2. \A w \in Worker : Holds(w) \notin Path /\ thread[w].at = "out"
    BY <2>1, ConstantsOK DEF Holds
  <2>3. thread \in [Worker -> [at : {"top", "gate", "read", "out"}, file : Path \cup {NoPath}]]
    BY DEF Init
  <2>4. active \in [Drives -> Int]
    BY DEF Init
  <2>5. PoolOK
    BY <2>3, <2>4 DEF Init, PoolOK
  <2> QED BY <2>2, <2>5
<1>4. spent \in [Kind -> Nat] /\ hashed \in [Path -> Record]
  BY DEF Init, NoRecord, Record
<1> QED BY <1>1, <1>2, <1>3, <1>4 DEF TypeOK, Init

(* A new cascade is well typed. *)
LEMMA StartTyped == TypeOK /\ Start => TypeOK'
<1> SUFFICES ASSUME TypeOK, Start PROVE TypeOK'
  OBVIOUS
<1>1. record' \in [Path -> Record]
  BY ConstantsOK DEF Start, TypeOK, FilesOK, Record
<1>2. PICK left \in SUBSET Path :
        /\ spent' = [spent EXCEPT !["scan"] = @ + 1, !["upset"] = @ + Cardinality(left)]
        /\ snap' = [p \in Path |-> IF p \in left THEN NoRecord ELSE record'[p]]
  BY DEF Start
<1>3. snap' \in [Path -> Record]
  BY <1>1, <1>2 DEF NoRecord, Record
<1>4. Cardinality(left) \in Nat
  BY ConstantsOK, FS_Subset, FS_CardinalityType
<1>5. spent' \in [Kind -> Nat]
  BY <1>2, <1>4 DEF TypeOK, Kind
<1>6. todo' \subseteq Path
  BY SizeGroupsArePaths DEF Start
<1>7. FilesOK'
  BY <1>1 DEF Start, TypeOK, FilesOK
<1>8. CascadeOK'
  BY <1>3, <1>6 DEF Start, TypeOK, CascadeOK, Clean
<1>9. PoolOK' /\ \A w \in Worker : Holds(w)' \in Path <=> thread'[w].at \in {"gate", "read"}
  BY DEF Start, TypeOK, PoolOK, pool, Holds
<1> QED BY <1>5, <1>7, <1>8, <1>9 DEF TypeOK, Start

(* What stage 2 leaves alone stays well typed. *)
LEMMA Stage2Frame ==
  ASSUME TypeOK, FilesOK', CascadeOK', spent' \in [Kind -> Nat], failed' \subseteq Path,
         UNCHANGED <<control, pool, stale, hashed>>
  PROVE  TypeOK'
  BY DEF TypeOK, PoolOK, control, pool, Holds

(* What can be seen of a file is the edge of some content. *)
LEMMA SeenTyped == ASSUME TypeOK, NEW p \in Path PROVE Seen(p) \subseteq Edges
  BY DEF Seen, Edges, TypeOK, FilesOK

(* The steps of stage 2 are well typed. *)
LEMMA Stage2Typed == TypeOK /\ Stage2 => TypeOK'
<1> SUFFICES ASSUME TypeOK, Stage2 PROVE TypeOK'
  OBVIOUS
<1>1. CASE PartialHit
  <2>1. PICK p \in todo : /\ cache[p].partial # NoHash
                          /\ partial' = [partial EXCEPT ![p] = cache[p].partial]
                          /\ todo' = todo \ {p}
    BY <1>1 DEF PartialHit
  <2>2. p \in Path /\ cache[p].partial \in Edges \cup {NoHash}
    BY DEF TypeOK, CascadeOK, FilesOK, Entry
  <2>3. CascadeOK'
    BY <1>1, <2>1, <2>2 DEF PartialHit, TypeOK, CascadeOK
  <2>4. FilesOK'
    BY <1>1 DEF PartialHit, TypeOK, FilesOK, files
  <2> QED BY <1>1, <2>3, <2>4, Stage2Frame DEF PartialHit, TypeOK, ghost
<1>2. CASE PartialRead
  <2>1. PICK p \in todo : /\ \E hash \in Seen(p) :
                               /\ partial' = [partial EXCEPT ![p] = hash]
                               /\ PutPartial(p, hash)
                          /\ todo' = todo \ {p}
    BY <1>2 DEF PartialRead
  <2>2. PICK hash \in Seen(p) : /\ partial' = [partial EXCEPT ![p] = hash]
                                /\ PutPartial(p, hash)
    BY <2>1
  <2>3. p \in Path /\ hash \in Edges
    BY SeenTyped DEF TypeOK, CascadeOK
  <2>4. CascadeOK'
    BY <1>2, <2>1, <2>2, <2>3 DEF PartialRead, TypeOK, CascadeOK
  <2>5. FilesOK'
    <3>1. [of |-> snap[p], partial |-> hash, content |-> cache[p].content] \in Entry
      BY <2>3 DEF TypeOK, FilesOK, CascadeOK, Entry
    <3>2. cache' = [cache EXCEPT ![p] = [of |-> snap[p], partial |-> hash, content |-> cache[p].content]]
      BY <2>2 DEF PutPartial
    <3>3. cache' \in [Path -> Entry]
      BY <3>1, <3>2 DEF TypeOK, FilesOK
    <3> QED BY <1>2, <3>3 DEF PartialRead, TypeOK, FilesOK, files
  <2> QED BY <1>2, <2>4, <2>5, Stage2Frame DEF PartialRead, TypeOK, ghost
<1>3. CASE PartialFails
  <2>1. PICK p \in todo : todo' = todo \ {p} /\ failed' = failed \cup {p}
                          /\ (UNCHANGED spent \/ Spend("upset"))
    BY <1>3 DEF PartialFails
  <2>2. spent' \in [Kind -> Nat]
    BY <2>1, SpendTyped DEF TypeOK, Kind
  <2>3. CascadeOK' /\ FilesOK'
    BY <1>3, <2>1 DEF PartialFails, TypeOK, CascadeOK, FilesOK, files
  <2>4. failed' \subseteq Path
    BY <2>1 DEF TypeOK, CascadeOK
  <2> QED BY <1>3, <2>2, <2>3, <2>4, Stage2Frame DEF PartialFails
<1>4. CASE EndPartial
  <2>1. thread' = [w \in Worker |-> [at |-> "top", file |-> NoPath]] \/ thread' = thread
    BY <1>4 DEF EndPartial
  <2>2. PoolOK' /\ \A w \in Worker : Holds(w)' \in Path <=> thread'[w].at \in {"gate", "read"}
    <3>1. CASE thread' = thread
      BY <1>4, <3>1 DEF EndPartial, TypeOK, PoolOK, control, Holds
    <3>2. CASE thread' = [w \in Worker |-> [at |-> "top", file |-> NoPath]]
      BY <1>4, <3>2, ConstantsOK DEF EndPartial, TypeOK, PoolOK, control, Holds
    <3> QED BY <2>1, <3>1, <3>2
  <2>3. CascadeOK'
    BY <1>4, GroupsArePaths DEF EndPartial, TypeOK, CascadeOK
  <2>4. FilesOK'
    BY <1>4 DEF EndPartial, TypeOK, FilesOK, files
  <2> QED BY <1>4, <2>2, <2>3, <2>4 DEF EndPartial, TypeOK, ghost
<1> QED BY <1>1, <1>2, <1>3, <1>4 DEF Stage2

(* What stage 3 leaves alone stays well typed. *)
LEMMA Stage3Frame ==
  ASSUME TypeOK, NEW w \in Worker, FilesOK', CascadeOK', halted' \in BOOLEAN, UNCHANGED cancel,
         active' \in [Drives -> Int],
         \/ UNCHANGED thread
         \/ \E at \in {"top", "gate", "read", "out"}, p \in Path \cup {NoPath} :
              (p \in Path <=> at \in {"gate", "read"}) /\ Become(w, at, p),
         spent' \in [Kind -> Nat], failed' \subseteq Path, hashed' \in [Path -> Record],
         UNCHANGED stale
  PROVE  TypeOK'
<1>1. /\ thread' \in [Worker -> [at : {"top", "gate", "read", "out"}, file : Path \cup {NoPath}]]
      /\ \A v \in Worker : Holds(v)' \in Path <=> thread'[v].at \in {"gate", "read"}
  <2>1. CASE UNCHANGED thread
    BY <2>1 DEF TypeOK, PoolOK, Holds
  <2>2. CASE \E at \in {"top", "gate", "read", "out"}, p \in Path \cup {NoPath} :
               (p \in Path <=> at \in {"gate", "read"}) /\ Become(w, at, p)
    BY <2>2, BecomeTyped
  <2> QED BY <2>1, <2>2
<1> QED BY <1>1 DEF TypeOK, PoolOK

(* Returning a permit keeps the counters integers. *)
LEMMA ReleaseTyped ==
  ASSUME TypeOK, NEW w \in Worker, thread[w].at = "read", Release(w)
  PROVE  active' \in [Drives -> Int]
  BY DriveTyped DEF Release, TypeOK, PoolOK

(* The steps of a thread of stage 3 are well typed. *)
LEMMA Stage3Typed == ASSUME TypeOK, NEW w \in Worker, Stage3(w) PROVE TypeOK'
<1> USE ConstantsOK
<1>1. CASE FullHit(w)
  <2>1. PICK p \in todo : /\ cache[p].content # NoHash
                          /\ full' = [full EXCEPT ![p] = cache[p].content]
                          /\ todo' = todo \ {p}
    BY <1>1 DEF FullHit
  <2>2. cache[p].content \in Content \cup {NoHash}
    BY DEF TypeOK, CascadeOK, FilesOK, Entry
  <2>3. CascadeOK'
    BY <1>1, <2>1, <2>2 DEF FullHit, TypeOK, CascadeOK
  <2>4. FilesOK' /\ UNCHANGED <<control, pool, ghost, spent>>
    BY <1>1 DEF FullHit, TypeOK, FilesOK, files
  <2> QED BY <2>3, <2>4, Stage3Frame DEF TypeOK, PoolOK, control, pool, ghost
<1>2. CASE TakeFile(w)
  <2>1. PICK p \in todo : todo' = todo \ {p} /\ Become(w, "gate", p)
    BY <1>2 DEF TakeFile
  <2>2. p \in Path
    BY DEF TypeOK, CascadeOK
  <2>3. CascadeOK' /\ FilesOK' /\ UNCHANGED <<control, active, ghost, spent>>
    BY <1>2, <2>1 DEF TakeFile, TypeOK, CascadeOK, FilesOK, files
  <2> QED BY <2>1, <2>2, <2>3, Stage3Frame DEF TypeOK, PoolOK, control, ghost
<1>3. CASE Acquire(w)
  <2>1. Holds(w) \in Path /\ Drive(w) \in Drives
    BY <1>3, DriveTyped DEF Acquire, At
  <2>2. active' \in [Drives -> Int]
    BY <1>3, <2>1 DEF Acquire, TypeOK, PoolOK
  <2>3. CascadeOK' /\ FilesOK' /\ UNCHANGED <<control, ghost, spent>> /\ Become(w, "read", Holds(w))
    BY <1>3 DEF Acquire, TypeOK, CascadeOK, FilesOK, files, cascade
  <2> QED BY <2>1, <2>2, <2>3, Stage3Frame DEF TypeOK, PoolOK, control, ghost
<1>4. CASE FullRead(w)
  <2> DEFINE p == Holds(w)
  <2>1. p \in Path /\ active' \in [Drives -> Int]
    BY <1>4, DriveTyped, ReleaseTyped DEF FullRead, At
  <2>2. disk[p].content \in Content
    BY <1>4, <2>1 DEF FullRead, TypeOK, FilesOK
  <2>3. CascadeOK'
    BY <1>4, <2>1, <2>2 DEF FullRead, TypeOK, CascadeOK
  <2>4. FilesOK'
    <3>1. cache' = [cache EXCEPT ![p] = [of |-> snap[p], partial |-> cache[p].partial, content |-> disk[p].content]]
      BY <1>4 DEF FullRead, PutContent
    <3>2. [of |-> snap[p], partial |-> cache[p].partial, content |-> disk[p].content] \in Entry
      BY <2>1, <2>2 DEF TypeOK, FilesOK, CascadeOK, Entry
    <3>3. cache' \in [Path -> Entry]
      BY <3>1, <3>2 DEF TypeOK, FilesOK
    <3> QED BY <1>4, <3>3 DEF FullRead, TypeOK, FilesOK, files
  <2>5. hashed' \in [Path -> Record]
    BY <1>4, <2>1 DEF FullRead, TypeOK, CascadeOK
  <2>6. Become(w, "top", NoPath) /\ UNCHANGED <<control, spent, stale, failed>>
    BY <1>4 DEF FullRead
  <2> QED BY <2>1, <2>3, <2>4, <2>5, <2>6, Stage3Frame DEF TypeOK, PoolOK, control
<1>5. CASE FullFails(w)
  <2>1. Holds(w) \in Path /\ active' \in [Drives -> Int]
    BY <1>5, DriveTyped, ReleaseTyped DEF FullFails, At
  <2>2. spent' \in [Kind -> Nat]
    BY <1>5, SpendTyped DEF FullFails, TypeOK, Kind
  <2>3. CascadeOK' /\ FilesOK'
    BY <1>5 DEF FullFails, TypeOK, CascadeOK, FilesOK, files, cascade
  <2>4. Become(w, "top", NoPath) /\ UNCHANGED <<control, stale, hashed>> /\ failed' \subseteq Path
    BY <1>5, <2>1 DEF FullFails, TypeOK
  <2> QED BY <2>1, <2>2, <2>3, <2>4, Stage3Frame DEF TypeOK, PoolOK, control
<1>6. CASE Quit(w)
  <2>1. active' \in [Drives -> Int]
    BY <1>6, ReleaseTyped DEF Quit, At, TypeOK, PoolOK
  <2>2. CascadeOK' /\ FilesOK'
    BY <1>6 DEF Quit, TypeOK, CascadeOK, FilesOK, files, cascade
  <2>3. halted' \in BOOLEAN /\ UNCHANGED <<cancel, spent, ghost>> /\ Become(w, "out", NoPath)
    BY <1>6 DEF Quit, TypeOK, PoolOK
  <2> QED BY <2>1, <2>2, <2>3, Stage3Frame DEF TypeOK, ghost
<1> QED BY <1>1, <1>2, <1>3, <1>4, <1>5, <1>6 DEF Stage3

(* The end of stage 3 and the steps of the user are well typed. *)
LEMMA RestTyped == TypeOK /\ (EndFull \/ User \/ UNCHANGED vars) => TypeOK'
<1> SUFFICES ASSUME TypeOK, EndFull \/ User \/ UNCHANGED vars PROVE TypeOK'
  OBVIOUS
<1>1. CASE EndFull
  <2>1. confirmed' \subseteq SUBSET Path
    BY <1>1 DEF EndFull, Groups, Alike
  <2>2. CascadeOK'
    BY <1>1, <2>1 DEF EndFull, TypeOK, CascadeOK
  <2> QED BY <1>1, <2>2 DEF EndFull, TypeOK, FilesOK, PoolOK, files, control, pool, ghost, Holds
<1>2. CASE Cancel
  <2>1. spent' \in [Kind -> Nat]
    BY <1>2, SpendTyped DEF Cancel, Kind
  <2> QED BY <1>2, <2>1 DEF Cancel, TypeOK, FilesOK, CascadeOK, PoolOK, files, cascade, pool, ghost, Holds
<1>3. ASSUME NEW p \in Path, NEW c \in Content \cup {NoContent}, Edit(p, c) PROVE TypeOK'
  <2>1. spent' \in [Kind -> Nat]
    BY <1>3, SpendTyped DEF Edit, Kind
  <2>2. disk' \in [Path -> [content : Content \cup {NoContent}, mtime : Nat]]
    BY <1>3 DEF Edit, TypeOK, FilesOK
  <2>3. stale' \subseteq Path
    BY <1>3 DEF Edit, TypeOK
  <2> QED BY <1>3, <2>1, <2>2, <2>3 DEF Edit, TypeOK, FilesOK, CascadeOK, PoolOK, cascade, control, pool, Holds
<1>4. CASE UNCHANGED vars
  BY <1>4 DEF vars, TypeOK, FilesOK, CascadeOK, PoolOK, files, cascade, control, pool, ghost, Holds
<1> QED BY <1>1, <1>2, <1>3, <1>4 DEF User

(* Every step is well typed. *)
LEMMA TypeNext == TypeOK /\ [Next]_vars => TypeOK'
  BY StartTyped, Stage2Typed, Stage3Typed, RestTyped DEF Next

(* Every variable keeps its type, for any number of files and threads. *)
THEOREM TypeCorrect == Spec => []TypeOK
  BY TypeInit, TypeNext, PTL DEF Spec

-----------------------------------------------------------------------------
(* Identity of confirmed files. *)

(* A cached content hash is that of the file as it is now, unless the file
   changed after it was hashed; so is a hash of the running cascade, unless
   the file changed after it was recorded.                                 *)
CacheTrue == \A p \in Path \ stale : cache[p].content # NoHash => cache[p].content = disk[p].content
FullTrue  == \A p \in Path \ stale : full[p] # NoHash /\ Unchanged(p) => full[p] = disk[p].content

(* Times only move on after a file was recorded.                           *)
TimesPass == \A p \in Path : record[p].mtime <= disk[p].mtime /\ snap[p].mtime <= disk[p].mtime

(* Groups are confirmed after the last thread is out, and stay as the
   hashes they were made of until the next cascade.                        *)
GroupsOfHashes ==
  /\ phase # "full" => \A w \in Worker : At(w, "out")
  /\ phase # "idle" => confirmed = {}
  /\ \A g \in confirmed : \A p, q \in g : full[p] # NoHash /\ full[p] = full[q]

Identity == TypeOK /\ CacheTrue /\ FullTrue /\ TimesPass /\ GroupsOfHashes

(* Nothing is cached, hashed or confirmed at first. *)
LEMMA IdentityInit == Init => Identity
<1> SUFFICES ASSUME Init PROVE Identity
  OBVIOUS
<1>1. TypeOK
  BY TypeInit
<1>2. CacheTrue /\ FullTrue
  BY DEF Init, CacheTrue, FullTrue, NoEntry, Clean
<1>3. TimesPass
  BY DEF Init, TimesPass, NoRecord
<1>4. GroupsOfHashes
  BY DEF Init, GroupsOfHashes, At
<1> QED BY <1>1, <1>2, <1>3, <1>4 DEF Identity

(* A cascade starts from the records of now, without hashes of its own. *)
LEMMA IdentityStart == ASSUME Identity, Start PROVE Identity'
<1>1. TypeOK /\ TypeOK'
  BY TypeNext DEF Identity, Next
<1>2. TimesPass'
  <2>1. \A p \in Path : record'[p].mtime <= disk[p].mtime /\ disk[p].mtime \in Nat
    BY <1>1 DEF Start, Identity, TimesPass, TypeOK, FilesOK
  <2> QED BY <2>1 DEF Start, TimesPass, NoRecord
<1>3. CacheTrue' /\ FullTrue'
  BY DEF Start, Identity, CacheTrue, FullTrue, Clean
<1>4. GroupsOfHashes'
  BY DEF Start, Identity, GroupsOfHashes, At, pool
<1> QED BY <1>1, <1>2, <1>3, <1>4 DEF Identity

(* Stage 2 stores no content hash of its own; what it takes over from an
   entry of an older version concerns a file that is known to have changed. *)
LEMMA IdentityStage2 == ASSUME Identity, Stage2 PROVE Identity'
<1>1. TypeOK /\ TypeOK'
  BY TypeNext DEF Identity, Next
<1>2. UNCHANGED <<disk, record, snap, full, confirmed, stale>>
  BY DEF Stage2, PartialHit, PartialRead, PartialFails, EndPartial, files, ghost
<1>3. \A p \in Path : cache'[p].content = cache[p].content
  BY <1>1 DEF Stage2, PartialHit, PartialRead, PartialFails, EndPartial, PutPartial, TypeOK, FilesOK, Entry
<1>4. CacheTrue' /\ FullTrue' /\ TimesPass'
  BY <1>2, <1>3 DEF Identity, CacheTrue, FullTrue, TimesPass, Unchanged
<1>5. GroupsOfHashes'
  BY <1>2 DEF Stage2, PartialHit, PartialRead, PartialFails, EndPartial, Identity, GroupsOfHashes, At, pool
<1> QED BY <1>1, <1>4, <1>5 DEF Identity

(* A thread that is not out shows that stage 3 is running. *)
LEMMA ThreadsRun ==
  ASSUME Identity, NEW w \in Worker, ~At(w, "out")
  PROVE  phase = "full" /\ confirmed = {}
  BY DEF Identity, GroupsOfHashes

(* Stage 3 hashes a file as it is now, or takes what the cache says of it. *)
LEMMA IdentityStage3 == ASSUME Identity, NEW w \in Worker, Stage3(w) PROVE Identity'
<1>1. TypeOK /\ TypeOK'
  BY TypeNext DEF Identity, Next
<1>2. UNCHANGED <<disk, record, snap, confirmed, stale, phase>>
  BY DEF Stage3, FullHit, TakeFile, Acquire, FullRead, FullFails, Quit, files, cascade, ghost
<1>3. phase = "full" /\ confirmed = {}
  BY ThreadsRun DEF Stage3, FullHit, TakeFile, Acquire, FullRead, FullFails, Quit, At
<1>4. TimesPass' /\ GroupsOfHashes'
  BY <1>2, <1>3 DEF Identity, TimesPass, GroupsOfHashes
<1>5. CacheTrue' /\ FullTrue'
  <2>1. CASE FullHit(w)
    BY <1>1, <1>2, <2>1 DEF FullHit, Identity, CacheTrue, FullTrue, Unchanged, TypeOK, CascadeOK
  <2>2. CASE FullRead(w)
    <3>1. Holds(w) \in Path
      BY <1>1, <2>2, DriveTyped DEF FullRead, At
    <3>2. full' = [full EXCEPT ![Holds(w)] = disk[Holds(w)].content]
      BY <2>2 DEF FullRead
    <3>3. \A p \in Path : cache'[p].content = IF p = Holds(w) THEN disk[p].content ELSE cache[p].content
      BY <1>1, <2>2, <3>1 DEF FullRead, PutContent, TypeOK, FilesOK
    <3>4. CacheTrue'
      BY <1>2, <3>3 DEF Identity, CacheTrue
    <3>5. FullTrue'
      BY <1>1, <1>2, <3>1, <3>2 DEF Identity, FullTrue, Unchanged, TypeOK, CascadeOK
    <3> QED BY <3>4, <3>5
  <2>3. CASE TakeFile(w) \/ Acquire(w) \/ FullFails(w) \/ Quit(w)
    <3>1. UNCHANGED <<cache, full>>
      BY <2>3 DEF TakeFile, Acquire, FullFails, Quit, cascade
    <3> QED BY <1>2, <3>1 DEF Identity, CacheTrue, FullTrue, Unchanged
  <2> QED BY <2>1, <2>2, <2>3 DEF Stage3
<1> QED BY <1>1, <1>4, <1>5 DEF Identity

(* Files that share a group share its key, which is a hash. *)
LEMMA GroupsShareKeys ==
  ASSUME NEW key, NEW g \in Groups(key), NEW p \in g, NEW q \in g
  PROVE  p \in Path /\ key[p] # NoHash /\ key[p] = key[q]
  BY DEF Groups, Alike

(* Stage 3 ends with groups of equal hashes. *)
LEMMA IdentityEnd == ASSUME Identity, EndFull PROVE Identity'
<1>1. TypeOK /\ TypeOK'
  BY TypeNext DEF Identity, Next
<1>2. CacheTrue' /\ FullTrue' /\ TimesPass'
  BY DEF EndFull, files, ghost, Identity, CacheTrue, FullTrue, TimesPass, Unchanged
<1>3. GroupsOfHashes'
  <2>1. confirmed' = Groups(full) /\ full' = full /\ phase' = "idle" /\ UNCHANGED thread
    BY DEF EndFull, pool
  <2>2. \A v \in Worker : At(v, "out")'
    BY <2>1 DEF EndFull, At
  <2> QED BY <2>1, <2>2, GroupsShareKeys DEF GroupsOfHashes
<1> QED BY <1>1, <1>2, <1>3 DEF Identity

(* A change moves the time of the file on, and makes a cached hash stale. *)
LEMMA IdentityEdit ==
  ASSUME Identity, NEW p \in Path, NEW c \in Content \cup {NoContent}, Edit(p, c)
  PROVE  Identity'
<1>1. TypeOK /\ TypeOK'
  BY TypeNext DEF Identity, Next, User
<1>2. UNCHANGED <<record, snap, cache, full, confirmed, phase, thread>>
  BY DEF Edit, cascade, pool
<1>3. /\ disk'[p].mtime = disk[p].mtime + 1
      /\ \A q \in Path \ {p} : disk'[q] = disk[q]
      /\ disk[p].mtime \in Nat /\ snap[p].mtime \in Nat /\ record[p].mtime \in Nat
  BY <1>1 DEF Edit, TypeOK, FilesOK, CascadeOK, Record
<1>4. stale' = IF cache[p].content # NoHash THEN stale \cup {p} ELSE stale
  BY DEF Edit
<1>5. TimesPass'
  BY <1>1, <1>2, <1>3 DEF Identity, TimesPass, TypeOK, FilesOK
<1>6. CacheTrue'
  BY <1>2, <1>3, <1>4 DEF Identity, CacheTrue
<1>7. FullTrue'
  <2>1. ~Unchanged(p)'
    BY <1>2, <1>3 DEF Unchanged, Identity, TimesPass
  <2>2. \A q \in Path \ {p} : Unchanged(q)' <=> Unchanged(q)
    BY <1>2, <1>3 DEF Unchanged
  <2> QED BY <1>2, <1>3, <1>4, <2>1, <2>2 DEF Identity, FullTrue
<1>8. GroupsOfHashes'
  BY <1>2 DEF Identity, GroupsOfHashes, At
<1> QED BY <1>1, <1>5, <1>6, <1>7, <1>8 DEF Identity

(* Every step keeps the identity of what is hashed. *)
LEMMA IdentityNext == Identity /\ [Next]_vars => Identity'
<1> SUFFICES ASSUME Identity, [Next]_vars PROVE Identity'
  OBVIOUS
<1>1. CASE Cancel \/ UNCHANGED vars
  <2>1. TypeOK'
    BY <1>1, TypeNext DEF Identity, Next, User
  <2>2. UNCHANGED <<files, cache, cascade, pool, stale>>
    BY <1>1 DEF Cancel, vars, ghost
  <2> QED BY <2>1, <2>2 DEF Identity, CacheTrue, FullTrue, TimesPass, GroupsOfHashes, Unchanged, At,
                            files, cascade, pool
<1> QED BY <1>1, IdentityStart, IdentityStage2, IdentityStage3, IdentityEnd, IdentityEdit DEF Next, User

(* Confirmed files that can still be reaped are identical, if none of them
   was changed after its content was hashed: what a group is worth.        *)
THEOREM ConfirmedIdentical == Spec => []IdenticalUnlessRehashed
<1>1. Identity => IdenticalUnlessRehashed
  <2> SUFFICES ASSUME Identity, NEW g \in confirmed, NEW p \in g \ stale, NEW q \in g \ stale,
                      Unchanged(p), Unchanged(q)
               PROVE  disk[p].content = disk[q].content
    BY DEF IdenticalUnlessRehashed
  <2>1. p \in Path /\ q \in Path
    BY DEF Identity, TypeOK, CascadeOK
  <2> QED BY <2>1 DEF Identity, GroupsOfHashes, FullTrue
<1> QED BY <1>1, IdentityInit, IdentityNext, PTL DEF Spec

-----------------------------------------------------------------------------
(* The limit of concurrent reads. *)

Readers(v) == {w \in Worker : At(w, "read") /\ Drive(w) = v}

(* The bound needs to know that no thread is left from an earlier cascade. *)
Permits == Identity /\ ReadsBounded

(* There are finitely many readers. *)
LEMMA ReadersFinite == \A v : IsFiniteSet(Readers(v)) /\ Cardinality(Readers(v)) \in Nat
  BY ConstantsOK, FS_Subset, FS_CardinalityType DEF Readers

(* A thread that begins to read takes one permit of its volume. *)
LEMMA PermitTaken ==
  ASSUME Permits, NEW w \in Worker, Acquire(w)
  PROVE  ReadsBounded'
<1>1. TypeOK /\ Drive(w) \in Drives /\ thread[w].at = "gate"
  BY DriveTyped DEF Acquire, At, Permits, Identity
<1> PICK d \in Drives : d = Drive(w)
  BY <1>1
<1>2. thread' = [thread EXCEPT ![w] = [at |-> "read", file |-> thread[w].file]]
  BY DEF Acquire, Become, Holds
<1>3. /\ Readers(d)' = Readers(d) \cup {w}
      /\ w \notin Readers(d)
      /\ \A v \in Drives \ {d} : Readers(v)' = Readers(v)
  BY <1>1, <1>2 DEF Readers, At, Drive, Holds, TypeOK, PoolOK
<1>4. Cardinality(Readers(d)') = Cardinality(Readers(d)) + 1
  BY <1>3, ReadersFinite, FS_AddElement
<1>5. /\ active[d] < MaxReads
      /\ active' = [active EXCEPT ![d] = @ + 1]
  BY DEF Acquire, Room
<1>6. ASSUME NEW v \in Drives
      PROVE  active'[v] <= MaxReads /\ active'[v] = Cardinality(Readers(v)')
  <2>1. active[v] <= MaxReads /\ active[v] = Cardinality(Readers(v)) /\ active \in [Drives -> Int]
    BY <1>1 DEF Permits, ReadsBounded, Readers, TypeOK, PoolOK
  <2>2. CASE v = d
    BY <1>1, <1>4, <1>5, <2>1, <2>2, ConstantsOK
  <2>3. CASE v # d
    BY <1>3, <1>5, <2>1, <2>3
  <2> QED BY <2>2, <2>3
<1> QED BY <1>6 DEF ReadsBounded, Readers

(* A thread that ends a read returns the permit of its volume. *)
LEMMA PermitReturned ==
  ASSUME Permits, NEW w \in Worker, thread[w].at = "read", Release(w),
         NEW at \in {"top", "out"}, Become(w, at, NoPath)
  PROVE  ReadsBounded'
<1>1. TypeOK /\ Drive(w) \in Drives
  BY DriveTyped DEF Permits, Identity
<1> PICK d \in Drives : d = Drive(w)
  BY <1>1
<1>2. thread' = [thread EXCEPT ![w] = [at |-> at, file |-> NoPath]]
  BY DEF Become
<1>3. /\ Readers(d)' = Readers(d) \ {w}
      /\ w \in Readers(d)
      /\ \A v \in Drives \ {d} : Readers(v)' = Readers(v)
  BY <1>1, <1>2 DEF Readers, At, Drive, Holds, TypeOK, PoolOK
<1>4. Cardinality(Readers(d)') = Cardinality(Readers(d)) - 1
  <2>1. Cardinality(Readers(d) \ {w}) = Cardinality(Readers(d)) - 1
    BY ONLY <1>3, ReadersFinite, FS_RemoveElement
  <2> QED BY <1>3, <2>1
<1>5. active' = [active EXCEPT ![d] = @ - 1]
  BY DEF Release
<1>6. ASSUME NEW v \in Drives
      PROVE  active'[v] <= MaxReads /\ active'[v] = Cardinality(Readers(v)')
  <2>1. active[v] <= MaxReads /\ active[v] = Cardinality(Readers(v)) /\ active \in [Drives -> Int]
    BY <1>1 DEF Permits, ReadsBounded, Readers, TypeOK, PoolOK
  <2>2. CASE v = d
    BY <1>1, <1>4, <1>5, <2>1, <2>2, ConstantsOK
  <2>3. CASE v # d
    BY <1>3, <1>5, <2>1, <2>3
  <2> QED BY <2>2, <2>3
<1> QED BY <1>6 DEF ReadsBounded, Readers

(* A thread that does not read before and after a step needs no permit. *)
LEMMA PermitUntouched ==
  ASSUME Permits, NEW w \in Worker, thread[w].at # "read",
         NEW at \in {"top", "gate", "out"}, NEW p, Become(w, at, p), UNCHANGED active
  PROVE  ReadsBounded'
<1>1. thread' = [thread EXCEPT ![w] = [at |-> at, file |-> p]] /\ TypeOK
  BY DEF Become, Permits, Identity
<1>2. \A v \in Drives : Readers(v)' = Readers(v)
  BY <1>1 DEF Readers, At, Drive, Holds, TypeOK, PoolOK
<1> QED BY <1>2 DEF Permits, ReadsBounded, Readers

(* Every step respects the limit. *)
LEMMA PermitsNext == Permits /\ [Next]_vars => Permits'
<1> SUFFICES ASSUME Permits, [Next]_vars PROVE ReadsBounded'
  BY IdentityNext DEF Permits
<1>1. CASE UNCHANGED pool
  BY <1>1 DEF pool, Permits, ReadsBounded, At, Drive, Holds
<1>2. CASE EndPartial
  <2>1. \A w \in Worker : ~At(w, "read")
    BY <1>2 DEF EndPartial, Permits, Identity, GroupsOfHashes, At
  <2>2. \A w \in Worker : ~At(w, "read")'
    BY <1>2, <2>1 DEF EndPartial, At
  <2>3. \A v \in Drives : Readers(v)' = Readers(v)
    BY <2>1, <2>2 DEF Readers
  <2> QED BY <1>2, <2>3 DEF EndPartial, Permits, ReadsBounded, Readers
<1>3. ASSUME NEW w \in Worker, Stage3(w), ~UNCHANGED pool PROVE ReadsBounded'
  <2>1. CASE TakeFile(w)
    <3>1. PICK p \in todo : Become(w, "gate", p)
      BY <2>1 DEF TakeFile
    <3> QED BY <2>1, <3>1, PermitUntouched DEF TakeFile, At
  <2>2. CASE Acquire(w)
    BY <2>2, PermitTaken
  <2>3. CASE FullRead(w) \/ FullFails(w)
    <3>1. thread[w].at = "read" /\ Release(w) /\ Become(w, "top", NoPath)
      BY <2>3 DEF FullRead, FullFails, At
    <3> QED BY <3>1, PermitReturned
  <2>4. CASE Quit(w)
    <3>1. Become(w, "out", NoPath)
      BY <2>4 DEF Quit
    <3>2. CASE At(w, "read")
      <4>1. thread[w].at = "read" /\ Release(w)
        BY <2>4, <3>2 DEF Quit, At
      <4> QED BY <3>1, <4>1, PermitReturned
    <3>3. CASE ~At(w, "read")
      <4>1. thread[w].at # "read" /\ UNCHANGED active
        BY <2>4, <3>3 DEF Quit, At
      <4> QED BY <3>1, <4>1, PermitUntouched
    <3> QED BY <3>2, <3>3
  <2> QED BY <1>3, <2>1, <2>2, <2>3, <2>4 DEF Stage3, FullHit
<1> QED BY <1>1, <1>2, <1>3 DEF Next, Start, Stage2, PartialHit, PartialRead, PartialFails,
                               EndFull, User, Cancel, Edit, vars

(* Never more reads of a volume than the limit, and no permit lost, for any
   number of threads.                                                      *)
THEOREM LimitKept == Spec => []ReadsBounded
<1>1. Init => Permits
  <2> SUFFICES ASSUME Init PROVE ReadsBounded
    BY IdentityInit DEF Permits
  <2>1. \A v \in Drives : Readers(v) = {} /\ active[v] = 0
    BY DEF Init, Readers, At
  <2> QED BY <2>1, FS_EmptySet, ConstantsOK DEF ReadsBounded, Readers
<1>2. Permits => ReadsBounded
  BY DEF Permits
<1> QED BY <1>1, <1>2, PermitsNext, PTL DEF Spec

-----------------------------------------------------------------------------
(* The inductive invariant behind AllDuplicatesFound and NoRehash.         *)

(* Two files that a cascade that runs to its end has to find.              *)
Twins(p, q) ==
  /\ {p, q} \subseteq Path \ (stale \cup failed) /\ p # q
  /\ Unchanged(p) /\ Unchanged(q)
  /\ snap[p].size > 0
  /\ disk[p].content = disk[q].content

(* Each of them waits, is held by a thread or has the hash of the stage.   *)
Sought ==
  ~cancel =>
    \A p, q \in Path : Twins(p, q) =>
      /\ phase = "partial" => p \in todo \/ partial[p] = Edge[disk[p].content]
      /\ phase = "full" => \/ p \in todo
                           \/ \E w \in Worker : Holds(w) = p
                           \/ full[p] = disk[p].content
      /\ phase = "idle" => \E g \in confirmed : {p, q} \subseteq g

(* A file that was not changed has the recorded size, and an entry for it
   the head and tail it has.                                               *)
Faithful ==
  \A p \in Path :
    /\ disk[p].mtime > 0 /\ cache[p].of.mtime <= disk[p].mtime
    /\ Unchanged(p) => snap[p].size = Size[disk[p].content]
    /\ /\ disk[p].content # NoContent /\ cache[p].of.mtime = disk[p].mtime
       /\ cache[p].partial # NoHash
       => cache[p].partial = Edge[disk[p].content]

(* What stage 2 has hashed is cached for the record it was hashed under,
   and stage 3 takes up nothing else.                                      *)
InCache ==
  /\ phase # "idle" => \A p \in Path : partial[p] # NoHash => cache[p].of = snap[p]
  /\ phase = "full" => \A p \in todo : partial[p] # NoHash /\ snap[p].size > 0
  /\ \A w \in Worker : Holds(w) \in Path => partial[Holds(w)] # NoHash
  /\ \A p \in Path : hashed[p] # NoRecord => cache[p].content # NoHash

(* Only a cancellation makes a thread leave work behind.                   *)
NoneLeft ==
  ~cancel =>
    /\ ~halted
    /\ phase = "full" /\ (\E w \in Worker : At(w, "out")) => todo = {}

Search == Faithful /\ InCache /\ NoneLeft /\ Sought

(* Nothing is hashed, cached or sought at first.                           *)
LEMMA SearchInit == ASSUME Init PROVE Search
<1>1. Faithful
  BY DEF Init, Faithful, Unchanged, NoEntry, NoRecord
<1>2. InCache
  BY IdentityInit DEF Init, InCache, Holds, NoEntry, Identity, TypeOK, ConstantsOK
<1>3. NoneLeft
  BY DEF Init, NoneLeft
<1>4. ~\E p, q \in Path : Twins(p, q)
  BY DEF Init, Twins, NoRecord
<1> QED BY <1>1, <1>2, <1>3, <1>4 DEF Search, Sought, Init

-----------------------------------------------------------------------------
(* Twins and groups.                                                       *)

(* Two files make a group large enough.                                    *)
LEMMA TwoAtLeast ==
  ASSUME NEW g \in SUBSET Path, NEW p \in g, NEW q \in g, p # q
  PROVE  Cardinality(g) >= 2
<1>1. IsFiniteSet(g) /\ IsFiniteSet({p})
  BY ConstantsOK, FS_Subset, FS_Singleton
<1>2. Cardinality({p} \cup {q}) = 2
  <2>1. Cardinality({p}) = 1 /\ q \notin {p}
    BY FS_Singleton
  <2>2. Cardinality({p} \cup {q}) = Cardinality({p}) + 1
    BY <1>1, <2>1, FS_AddElement
  <2> QED BY <2>1, <2>2
<1>3. {p} \cup {q} \subseteq g
  OBVIOUS
<1>4. Cardinality({p} \cup {q}) <= Cardinality(g)
  BY <1>1, <1>3, FS_Subset
<1>5. Cardinality(g) \in Nat
  BY <1>1, FS_CardinalityType
<1> QED BY <1>2, <1>4, <1>5

(* Twins with the same hash share a group.                                 *)
LEMMA TwinsShareGroup ==
  ASSUME Faithful, NEW key, NEW p \in Path, NEW q \in Path, Twins(p, q),
         key[p] # NoHash, key[p] = key[q]
  PROVE  \E g \in Groups(key) : {p, q} \subseteq g
<1>1. snap[p].size = snap[q].size /\ p # q /\ snap[p].size > 0
  BY DEF Twins, Faithful
<1>2. p \in Alike(key, p) /\ q \in Alike(key, p) /\ Alike(key, p) \in SUBSET Path
  BY <1>1 DEF Alike
<1>3. Cardinality(Alike(key, p)) >= 2
  BY <1>1, <1>2, TwoAtLeast
<1>4. Alike(key, p) \in Groups(key)
  BY <1>1, <1>3 DEF Groups
<1> QED BY <1>2, <1>4

(* What a step does not touch was twins before it.                         *)
LEMMA TwinsStay ==
  ASSUME UNCHANGED <<disk, snap, stale>>, failed \subseteq failed', NEW p, NEW q, Twins(p, q)'
  PROVE  Twins(p, q) /\ Unchanged(p) /\ p \notin stale /\ p \notin failed' /\ p \in Path
  BY DEF Twins, Unchanged

(* Of twins, which have one size, either may be named first.               *)
LEMMA TwinsSwap == ASSUME Faithful, NEW p \in Path, NEW q \in Path, Twins(p, q) PROVE Twins(q, p)
  BY DEF Twins, Faithful

-----------------------------------------------------------------------------
(* Stage 1.                                                                *)

(* Stage 1 takes up all twins, by their size.                              *)
LEMMA SearchStart == ASSUME Identity, Search, Start PROVE Search'
<1>0. TypeOK /\ TypeOK'
  BY TypeNext DEF Identity, Next
<1>1. PICK left \in SUBSET Path : snap' = [p \in Path |-> IF p \in left THEN NoRecord ELSE record'[p]]
  BY DEF Start
<1>2. /\ record' = [p \in Path |-> IF disk[p].content = NoContent THEN record[p]
                                  ELSE [size |-> Size[disk[p].content], mtime |-> disk[p].mtime]]
      /\ todo' = UNION Groups(SizeKey)' /\ phase' = "partial" /\ partial' = Clean
      /\ phase = "idle" /\ halted' = FALSE
      /\ UNCHANGED <<disk, cache, thread, hashed>>
  BY DEF Start, pool
<1>3. Faithful'
  BY <1>1, <1>2 DEF Search, Faithful, Unchanged, NoRecord
<1>4. InCache'
  <2>1. \A w \in Worker : Holds(w) \notin Path /\ Holds(w)' = Holds(w)
    BY <1>0, <1>2 DEF Identity, GroupsOfHashes, At, TypeOK, Holds
  <2> QED BY <1>2, <2>1 DEF Search, InCache, Clean
<1>5. NoneLeft'
  BY <1>2 DEF NoneLeft
<1>6. ASSUME NEW p \in Path, NEW q \in Path, Twins(p, q)' PROVE p \in todo'
  <2>1. snap'[p].size = snap'[q].size /\ p # q /\ snap'[p].size > 0 /\ snap'[p].size \in Nat
    BY <1>0, <1>3, <1>6 DEF Twins, Faithful, TypeOK, CascadeOK, Record
  <2>2. SizeKey'[p] = SizeKey'[q] /\ SizeKey'[p] # NoHash
    BY <2>1, ConstantsOK DEF SizeKey
  <2>3. p \in Alike(SizeKey, p)' /\ q \in Alike(SizeKey, p)' /\ Alike(SizeKey, p)' \in SUBSET Path
    BY <2>1, <2>2 DEF Alike
  <2>4. Cardinality(Alike(SizeKey, p)') >= 2
    BY <2>1, <2>3, TwoAtLeast
  <2>5. Alike(SizeKey, p)' \in Groups(SizeKey)'
    BY <2>1, <2>2, <2>4 DEF Groups
  <2> QED BY <1>2, <2>3, <2>5
<1>7. Sought'
  BY <1>2, <1>6 DEF Sought
<1> QED BY <1>3, <1>4, <1>5, <1>7 DEF Search

-----------------------------------------------------------------------------
(* Stage 2.                                                                *)

(* A file stage 2 is done with has its own head and tail for hash, be it
   read now or cached before, unless it could not be read.                 *)
LEMMA SearchPartial == ASSUME Identity, Search, PartialHit \/ PartialRead \/ PartialFails PROVE Search'
<1>0. TypeOK /\ TypeOK'
  BY TypeNext DEF Identity, Next, Stage2
<1>1. /\ phase = "partial" /\ ~cancel
      /\ UNCHANGED <<disk, snap, phase, full, confirmed, cancel, halted, thread, stale, hashed>>
      /\ failed \subseteq failed'
  BY DEF PartialHit, PartialRead, PartialFails, files, control, pool, ghost
<1>2. PICK f \in todo :
        /\ todo' = todo \ {f}
        /\ \/ /\ Hit(f) /\ cache[f].partial # NoHash
              /\ partial' = [partial EXCEPT ![f] = cache[f].partial] /\ UNCHANGED cache
           \/ \E hash \in Seen(f) : partial' = [partial EXCEPT ![f] = hash] /\ PutPartial(f, hash)
           \/ f \in failed' /\ UNCHANGED <<partial, cache>>
  <2>1. CASE PartialHit
    BY <2>1 DEF PartialHit
  <2>2. CASE PartialRead
    BY <2>2 DEF PartialRead
  <2>3. CASE PartialFails
    BY <2>3 DEF PartialFails
  <2> QED BY <2>1, <2>2, <2>3
<1>3. f \in Path /\ cache \in [Path -> Entry] /\ partial \in [Path -> Edges \cup {NoHash}]
  BY <1>0 DEF TypeOK, CascadeOK, FilesOK
<1>4. \A p \in Path : Holds(p)' = Holds(p)
  BY <1>1 DEF Holds
<1>5. NoneLeft'
  BY <1>1 DEF Search, NoneLeft, At
(* of every other file nothing changes                                     *)
<1>6. \A p \in Path \ {f} : partial'[p] = partial[p] /\ cache'[p] = cache[p]
  BY <1>2, <1>3 DEF PutPartial
<1>7. /\ partial'[f] # NoHash => partial'[f] = partial[f] \/ cache'[f].of = snap[f]
      /\ cache'[f].content = cache[f].content
      /\ partial[f] # NoHash => partial'[f] # NoHash
      /\ cache'[f] = cache[f] \/ (cache'[f].of = snap[f] /\ cache'[f].partial \in Seen(f))
      /\ Unchanged(f) /\ f \notin failed' => partial'[f] = Edge[disk[f].content]
  <2>1. CASE Hit(f) /\ cache[f].partial # NoHash /\ UNCHANGED cache
             /\ partial' = [partial EXCEPT ![f] = cache[f].partial]
    <3>1. Unchanged(f) => cache[f].partial = Edge[disk[f].content]
      BY <1>3, <2>1 DEF Hit, Unchanged, Search, Faithful
    <3> QED BY <1>3, <2>1, <3>1 DEF Hit
  <2>2. ASSUME NEW hash \in Seen(f), partial' = [partial EXCEPT ![f] = hash], PutPartial(f, hash)
        PROVE  <1>7!:
    <3>1. hash \in Edges /\ hash # NoHash
      BY <1>0, <1>3, SeenTyped, ConstantsOK
    <3>2. cache'[f] = [of |-> snap[f], partial |-> hash, content |-> cache[f].content]
      BY <1>3, <2>2 DEF PutPartial
    <3>3. Unchanged(f) => Seen(f) = {Edge[disk[f].content]}
      <4>1. HAVE Unchanged(f)
      <4>2. disk[f].content # NoContent /\ Size[disk[f].content] = snap[f].size /\ snap[f].size \in Nat
        BY <1>0, <1>3, <4>1 DEF Unchanged, Search, Faithful, TypeOK, CascadeOK, Record
      <4> QED BY <4>2 DEF Seen
    <3> QED BY <1>3, <2>2, <3>1, <3>2, <3>3
  <2>3. CASE f \in failed' /\ UNCHANGED <<partial, cache>>
    BY <2>3
  <2> QED BY <1>2, <2>1, <2>2, <2>3
<1>8. Faithful'
  <2>1. ASSUME NEW p \in Path
        PROVE  /\ disk[p].mtime > 0 /\ cache'[p].of.mtime <= disk[p].mtime
               /\ Unchanged(p) => snap[p].size = Size[disk[p].content]
               /\ /\ disk[p].content # NoContent /\ cache'[p].of.mtime = disk[p].mtime
                  /\ cache'[p].partial # NoHash
                  => cache'[p].partial = Edge[disk[p].content]
    <3>1. CASE cache'[p] = cache[p]
      BY <3>1 DEF Search, Faithful
    <3>2. CASE cache'[p] # cache[p]
      <4>1. p = f /\ cache'[f].of = snap[f] /\ cache'[f].partial \in Seen(f)
        BY <1>6, <1>7, <3>2
      <4>2. snap[f].mtime <= disk[f].mtime
        BY <1>3 DEF Identity, TimesPass
      <4>3. disk[f].content # NoContent /\ cache'[f].of.mtime = disk[f].mtime =>
              cache'[f].partial = Edge[disk[f].content]
        <5>1. HAVE disk[f].content # NoContent /\ cache'[f].of.mtime = disk[f].mtime
        <5>2. Unchanged(f) /\ snap[f].size \in Nat
          BY <1>0, <1>3, <4>1, <5>1 DEF Unchanged, TypeOK, CascadeOK, Record
        <5>3. Size[disk[f].content] = snap[f].size
          BY <1>3, <5>2 DEF Search, Faithful
        <5> QED BY <4>1, <5>1, <5>2, <5>3 DEF Seen
      <4> QED BY <1>3, <4>1, <4>2, <4>3 DEF Search, Faithful
    <3> QED BY <3>1, <3>2
  <2> QED BY <1>1, <2>1 DEF Faithful, Unchanged
<1>9. InCache'
  <2>1. ASSUME NEW p \in Path, partial'[p] # NoHash PROVE cache'[p].of = snap[p]
    <3>1. CASE p = f
      BY <1>1, <1>3, <1>7, <2>1, <3>1 DEF Search, InCache
    <3>2. CASE p # f
      BY <1>1, <1>6, <2>1, <3>2 DEF Search, InCache
    <3> QED BY <3>1, <3>2
  <2>2. ASSUME NEW w \in Worker, Holds(w)' \in Path PROVE partial'[Holds(w)'] # NoHash
    <3>1. Holds(w)' = Holds(w) /\ partial[Holds(w)] # NoHash
      BY <1>1, <2>2 DEF Search, InCache, Holds
    <3> QED BY <1>6, <1>7, <2>2, <3>1
  <2>3. \A p \in Path : hashed'[p] # NoRecord => cache'[p].content # NoHash
    BY <1>1, <1>6, <1>7 DEF Search, InCache
  <2> QED BY <1>1, <2>1, <2>2, <2>3 DEF InCache
<1>10. Sought'
  <2>1. ASSUME NEW p \in Path, NEW q \in Path, Twins(p, q)'
        PROVE  p \in todo' \/ partial'[p] = Edge[disk[p].content]
    <3>1. Twins(p, q) /\ Unchanged(p) /\ p \notin failed'
      BY <1>1, <2>1, TwinsStay
    <3>2. CASE p = f
      BY <1>7, <3>1, <3>2
    <3>3. CASE p # f
      BY <1>1, <1>2, <1>6, <3>1, <3>3 DEF Search, Sought
    <3> QED BY <3>2, <3>3
  <2> QED BY <1>1, <2>1 DEF Sought
<1> QED BY <1>5, <1>8, <1>9, <1>10 DEF Search

(* Where stage 2 has hashed twins, stage 3 takes both up.                  *)
LEMMA SearchEndPartial == ASSUME Identity, Search, EndPartial PROVE Search'
<1>0. TypeOK /\ TypeOK'
  BY TypeNext DEF Identity, Next, Stage2
<1>1. /\ phase = "partial" /\ (cancel \/ todo = {})
      /\ UNCHANGED <<disk, cache, snap, partial, full, confirmed, cancel, halted, stale, failed, hashed>>
  BY DEF EndPartial, files, control, ghost
<1>2. \/ /\ ~cancel /\ phase' = "full" /\ todo' = UNION Groups(partial)
         /\ thread' = [w \in Worker |-> [at |-> "top", file |-> NoPath]]
      \/ /\ cancel \/ Groups(partial) = {}
         /\ phase' = "idle" /\ todo' = {} /\ thread' = thread
  BY DEF EndPartial
<1>3. \A w \in Worker : Holds(w)' \notin Path /\ (phase' = "full" => ~At(w, "out")')
  <2>1. CASE thread' = thread
    BY <1>0, <1>1, <1>2, <2>1 DEF Identity, GroupsOfHashes, At, TypeOK, Holds
  <2>2. CASE thread' = [w \in Worker |-> [at |-> "top", file |-> NoPath]]
    BY <2>2, ConstantsOK DEF Holds, At
  <2> QED BY <1>2, <2>1, <2>2
<1>4. Faithful'
  BY <1>1 DEF Search, Faithful, Unchanged
<1>5. ASSUME NEW p \in UNION Groups(partial) PROVE partial[p] # NoHash /\ snap[p].size > 0
  BY <1>5 DEF Groups, Alike
<1>6. InCache'
  BY <1>1, <1>2, <1>3, <1>5 DEF Search, InCache
<1>7. NoneLeft'
  BY <1>1, <1>3 DEF Search, NoneLeft
<1>8. ASSUME ~cancel, NEW p \in Path, NEW q \in Path, Twins(p, q)'
      PROVE  \E g \in Groups(partial) : {p, q} \subseteq g
  <2>1. Twins(p, q) /\ Twins(q, p)
    BY <1>1, <1>8, TwinsStay, TwinsSwap DEF Search
  <2>2. partial[p] = Edge[disk[p].content] /\ partial[q] = Edge[disk[q].content]
    BY <1>1, <1>8, <2>1 DEF Search, Sought
  <2>3. disk[p].content = disk[q].content /\ disk[p].content \in Content
    BY <1>0, <2>1 DEF Twins, Unchanged, TypeOK, FilesOK
  <2>4. partial[p] # NoHash /\ partial[p] = partial[q]
    BY <2>2, <2>3, ConstantsOK DEF Edges
  <2> QED BY <2>1, <2>4, TwinsShareGroup DEF Search
<1>9. Sought'
  BY <1>1, <1>2, <1>8 DEF Sought
<1> QED BY <1>4, <1>6, <1>7, <1>9 DEF Search

-----------------------------------------------------------------------------
(* Stage 3.                                                                *)

(* A file leaves the queue of stage 3 into the hands of a thread, and those
   with its own content for hash, unless reading fails or all is cancelled. *)
LEMMA SearchStage3 == ASSUME Identity, Search, NEW w \in Worker, Stage3(w) PROVE Search'
<1>0. TypeOK /\ TypeOK'
  BY TypeNext DEF Identity, Next
<1>1. /\ phase = "full" /\ phase' = "full"
      /\ UNCHANGED <<disk, snap, partial, confirmed, cancel, stale>>
      /\ failed \subseteq failed' /\ todo' \subseteq todo /\ ~At(w, "out")
  <2>1. ~At(w, "out")
    BY DEF Stage3, FullHit, TakeFile, Acquire, FullRead, FullFails, Quit, At
  <2>2. phase = "full"
    BY <2>1, ThreadsRun
  <2> QED BY <2>1, <2>2 DEF Stage3, FullHit, TakeFile, Acquire, FullRead, FullFails, Quit, files, cascade,
                            control, ghost
<1>2. \A v \in Worker : Holds(v) \in Path \cup {NoPath}
  BY <1>0 DEF TypeOK, PoolOK, Holds
<1>3. ASSUME NEW at, NEW p, Become(w, at, p)
      PROVE  /\ Holds(w)' = p /\ (At(w, "out")' <=> at = "out")
             /\ \A v \in Worker \ {w} : Holds(v)' = Holds(v) /\ (At(v, "out")' <=> At(v, "out"))
  BY <1>0, <1>3 DEF Become, Holds, At, TypeOK, PoolOK
(* nothing is written to the cache                                         *)
<1>4. ASSUME UNCHANGED <<cache, hashed>>, \A v \in Worker : Holds(v)' \in Path => Holds(v)' = Holds(v) \/ Holds(v)' \in todo
      PROVE  Faithful' /\ InCache'
  <2>1. Faithful'
    BY <1>1, <1>4 DEF Search, Faithful, Unchanged
  <2>2. ASSUME NEW v \in Worker, Holds(v)' \in Path PROVE partial'[Holds(v)'] # NoHash
    BY <1>1, <1>4, <2>2 DEF Search, InCache
  <2> QED BY <1>1, <1>4, <2>1, <2>2 DEF Search, InCache
(* no thread leaves                                                        *)
<1>5. ASSUME UNCHANGED halted, \A v \in Worker : At(v, "out")' => At(v, "out") PROVE NoneLeft'
  BY <1>1, <1>5 DEF Search, NoneLeft
<1>6. ASSUME ~cancel => \A p \in Path \ (stale \cup failed') :
               Unchanged(p) /\ (p \in todo \/ (\E v \in Worker : Holds(v) = p) \/ full[p] = disk[p].content)
               => p \in todo' \/ (\E v \in Worker : Holds(v)' = p) \/ full'[p] = disk[p].content
      PROVE  Sought'
  <2>1. SUFFICES ASSUME ~cancel, NEW p \in Path, NEW q \in Path, Twins(p, q)'
                 PROVE  p \in todo' \/ (\E v \in Worker : Holds(v)' = p) \/ full'[p] = disk[p].content
    BY <1>1 DEF Sought
  <2>2. Twins(p, q) /\ Unchanged(p) /\ p \notin stale /\ p \notin failed'
    BY <1>1, <2>1, TwinsStay
  <2>3. p \in todo \/ (\E v \in Worker : Holds(v) = p) \/ full[p] = disk[p].content
    BY <1>1, <2>1, <2>2 DEF Search, Sought
  <2> QED BY <1>6, <2>1, <2>2, <2>3
<1>7. CASE FullHit(w)
  <2>1. UNCHANGED <<cache, hashed, thread, halted>>
    BY <1>7 DEF FullHit, ghost, pool, control
  <2>2. PICK f \in todo : /\ cache[f].content # NoHash /\ todo' = todo \ {f}
                          /\ full' = [full EXCEPT ![f] = cache[f].content]
    BY <1>7 DEF FullHit
  <2>3. \A v \in Worker : Holds(v)' = Holds(v) /\ (At(v, "out")' <=> At(v, "out"))
    BY <2>1 DEF Holds, At
  <2>4. f \notin stale => full'[f] = disk[f].content
    BY <1>0, <2>2 DEF Identity, CacheTrue, TypeOK, CascadeOK
  <2>5. \A p \in Path \ {f} : full'[p] = full[p] /\ (p \in todo => p \in todo')
    BY <1>0, <2>2 DEF TypeOK, CascadeOK
  <2> QED BY <1>4, <1>5, <1>6, <2>1, <2>3, <2>4, <2>5 DEF Search
<1>8. CASE TakeFile(w)
  <2>1. UNCHANGED <<cache, hashed, full, halted>>
    BY <1>8 DEF TakeFile, ghost, control
  <2>2. PICK f \in todo : todo' = todo \ {f} /\ Become(w, "gate", f)
    BY <1>8 DEF TakeFile
  <2>3. Holds(w)' = f /\ \A v \in Worker : At(v, "out")' => At(v, "out")
    BY <1>3, <2>2
  <2>4. Holds(w) \notin Path
    BY <1>0, <1>8 DEF TakeFile, At, TypeOK
  <2>5. \A v \in Worker \ {w} : Holds(v)' = Holds(v)
    BY <1>3, <2>2
  <2> QED BY <1>4, <1>5, <1>6, <2>1, <2>2, <2>3, <2>4, <2>5 DEF Search
<1>9. CASE Acquire(w)
  <2>1. UNCHANGED <<cache, hashed, full, todo, halted>> /\ Become(w, "read", Holds(w))
    BY <1>9 DEF Acquire, ghost, control, cascade
  <2>2. \A v \in Worker : Holds(v)' = Holds(v) /\ (At(v, "out")' => At(v, "out"))
    BY <1>3, <2>1
  <2> QED BY <1>4, <1>5, <1>6, <2>1, <2>2 DEF Search
<1>10. CASE FullRead(w)
  <2> DEFINE f == Holds(w)
  <2>1. f \in Path
    BY <1>0, <1>10, DriveTyped DEF FullRead, At
  <2>2. /\ disk[f].content # NoContent /\ full' = [full EXCEPT ![f] = disk[f].content]
        /\ hashed' = [hashed EXCEPT ![f] = snap[f]] /\ Become(w, "top", NoPath)
        /\ UNCHANGED <<halted, todo, failed>>
    BY <1>10 DEF FullRead, control
  <2>3. cache' = [cache EXCEPT ![f] = [of |-> snap[f], partial |-> cache[f].partial, content |-> disk[f].content]]
    BY <1>10 DEF FullRead, PutContent
  <2> HIDE DEF f
  <2>4. disk[f].content \in Content /\ disk[f].content # NoHash
    BY <1>0, <2>1, <2>2, ConstantsOK DEF TypeOK, FilesOK
  <2>5. partial[f] # NoHash /\ cache[f].of = snap[f]
    BY <1>1, <2>1 DEF Search, InCache, f
  <2>6. /\ cache'[f].of = cache[f].of /\ cache'[f].partial = cache[f].partial /\ cache'[f].content # NoHash
        /\ \A p \in Path \ {f} : cache'[p] = cache[p] /\ hashed'[p] = hashed[p] /\ full'[p] = full[p]
        /\ full'[f] = disk[f].content
    BY <1>0, <2>1, <2>2, <2>3, <2>4, <2>5 DEF TypeOK, FilesOK, CascadeOK
  <2>7. \A p \in Path : cache'[p].of = cache[p].of /\ cache'[p].partial = cache[p].partial
    BY <2>6
  <2>8. Faithful'
    BY <1>1, <2>7 DEF Search, Faithful, Unchanged
  <2>9. Holds(w)' = NoPath /\ \A v \in Worker \ {w} : Holds(v)' = Holds(v)
    BY <1>3, <2>2
  <2>10. InCache'
    <3>1. \A v \in Worker : Holds(v)' \in Path => partial[Holds(v)'] # NoHash
      BY <2>9, ConstantsOK DEF Search, InCache
    <3>2. \A p \in Path : hashed'[p] # NoRecord => cache'[p].content # NoHash
      BY <2>6 DEF Search, InCache
    <3> QED BY <1>1, <2>2, <2>7, <3>1, <3>2 DEF Search, InCache
  <2>11. NoneLeft'
    BY <1>3, <1>5, <2>2
  <2>12. \A p \in Path : (\E v \in Worker : Holds(v) = p) => (\E v \in Worker : Holds(v)' = p) \/ full'[p] = disk[p].content
    BY <2>6, <2>9 DEF f
  <2>13. Sought'
    BY <1>6, <2>2, <2>6, <2>12
  <2> QED BY <2>8, <2>10, <2>11, <2>13 DEF Search
<1>11. CASE FullFails(w)
  <2>1. UNCHANGED <<cache, hashed, full, todo, halted>> /\ Become(w, "top", NoPath) /\ failed' = failed \cup {Holds(w)}
    BY <1>11 DEF FullFails, control, cascade
  <2>2. Holds(w)' = NoPath /\ \A v \in Worker \ {w} : Holds(v)' = Holds(v)
    BY <1>3, <2>1
  <2>3. \A v \in Worker : At(v, "out")' => At(v, "out")
    BY <1>3, <2>1
  <2> QED BY <1>4, <1>5, <1>6, <2>1, <2>2, <2>3, ConstantsOK DEF Search
<1>12. CASE Quit(w)
  <2>1. UNCHANGED <<cache, hashed, full, todo>> /\ Become(w, "out", NoPath) /\ halted' = (halted \/ cancel)
    BY <1>12 DEF Quit, ghost, cascade
  <2>2. Holds(w)' = NoPath /\ \A v \in Worker \ {w} : Holds(v)' = Holds(v) /\ (At(v, "out")' <=> At(v, "out"))
    BY <1>3, <2>1
  <2>3. Faithful' /\ InCache'
    BY <1>4, <2>1, <2>2, ConstantsOK
  <2>4. ~cancel => ~halted' /\ At(w, "top") /\ todo = {}
    BY <1>12, <2>1 DEF Quit, Search, NoneLeft
  <2>5. NoneLeft'
    BY <1>1, <2>1, <2>4 DEF NoneLeft
  <2>6. ~cancel => Holds(w) \notin Path
    BY <1>0, <2>4 DEF At, TypeOK
  <2>7. Sought'
    BY <1>6, <2>1, <2>2, <2>6
  <2> QED BY <2>3, <2>5, <2>7 DEF Search
<1> QED BY <1>7, <1>8, <1>9, <1>10, <1>11, <1>12 DEF Stage3

(* Stage 3 ends with a group for every pair that was sought.               *)
LEMMA SearchEndFull == ASSUME Identity, Search, EndFull PROVE Search'
<1>0. TypeOK
  BY DEF Identity
<1>1. /\ phase = "full" /\ phase' = "idle" /\ confirmed' = Groups(full)
      /\ \A w \in Worker : At(w, "out")
      /\ UNCHANGED <<disk, cache, snap, partial, full, cancel, halted, thread, stale, failed, hashed>>
  BY DEF EndFull, files, control, pool, ghost
<1>2. Faithful' /\ NoneLeft' /\ InCache'
  BY <1>1 DEF Search, Faithful, NoneLeft, InCache, Unchanged, Holds, At
<1>3. ASSUME ~cancel, NEW p \in Path, NEW q \in Path, Twins(p, q)
      PROVE  full[p] = disk[p].content
  <2>1. todo = {}
    BY <1>1, <1>3, ConstantsOK DEF Search, NoneLeft
  <2>2. \A w \in Worker : Holds(w) \notin Path
    BY <1>0, <1>1 DEF TypeOK, At
  <2> QED BY <1>1, <1>3, <2>1, <2>2 DEF Search, Sought
<1>4. ASSUME ~cancel, NEW p \in Path, NEW q \in Path, Twins(p, q)'
      PROVE  \E g \in Groups(full) : {p, q} \subseteq g
  <2>1. Twins(p, q) /\ Twins(q, p)
    BY <1>1, <1>4, TwinsStay, TwinsSwap DEF Search
  <2>2. full[p] = disk[p].content /\ full[q] = disk[q].content
    BY <1>3, <1>4, <2>1
  <2>3. full[p] = full[q] /\ full[p] # NoHash
    BY <1>0, <2>1, <2>2, ConstantsOK DEF Twins, Unchanged, TypeOK, FilesOK
  <2> QED BY <2>1, <2>3, TwinsShareGroup DEF Search
<1>5. Sought'
  BY <1>1, <1>4 DEF Sought
<1> QED BY <1>2, <1>5 DEF Search

-----------------------------------------------------------------------------
(* The user.                                                               *)

(* A file that was changed is not sought any more.                         *)
LEMMA SearchEdit ==
  ASSUME Identity, Search, NEW f \in Path, NEW c \in Content \cup {NoContent}, Edit(f, c)
  PROVE  Search'
<1>0. TypeOK
  BY DEF Identity
<1>1. /\ UNCHANGED <<cache, phase, snap, todo, partial, full, confirmed, cancel, halted, thread, failed, hashed>>
      /\ stale \subseteq stale' /\ disk[f].content # NoContent
  BY DEF Edit, cascade, control, pool
<1>2. /\ disk'[f].content = c /\ disk'[f].mtime = disk[f].mtime + 1
      /\ \A p \in Path \ {f} : disk'[p] = disk[p]
      /\ disk[f].mtime \in Nat /\ snap[f].mtime \in Nat /\ cache[f].of.mtime \in Nat
      /\ snap[f].mtime <= disk[f].mtime /\ cache[f].of.mtime <= disk[f].mtime
  BY <1>0 DEF Edit, TypeOK, FilesOK, CascadeOK, Record, Entry, Identity, TimesPass, Search, Faithful
<1>3. ~Unchanged(f)' /\ cache[f].of.mtime # disk'[f].mtime
  BY <1>1, <1>2 DEF Unchanged
<1>4. \A p \in Path \ {f} : Unchanged(p)' <=> Unchanged(p)
  BY <1>1, <1>2 DEF Unchanged
<1>5. Faithful'
  <2>1. disk'[f].mtime > 0 /\ cache[f].of.mtime <= disk'[f].mtime
    BY <1>2
  <2> QED BY <1>1, <1>2, <1>3, <1>4, <2>1 DEF Search, Faithful
<1>6. NoneLeft' /\ InCache'
  BY <1>1 DEF Search, NoneLeft, InCache, Holds, At
<1>7. ASSUME NEW p \in Path, NEW q \in Path, Twins(p, q)'
      PROVE  Twins(p, q) /\ p # f
  BY <1>1, <1>2, <1>3, <1>4, <1>7 DEF Twins
<1>8. Sought'
  BY <1>1, <1>2, <1>7 DEF Search, Sought, Holds
<1> QED BY <1>5, <1>6, <1>8 DEF Search

(* Every step keeps the search complete.                                   *)
LEMMA SearchNext == Identity /\ Search /\ [Next]_vars => Search'
<1> SUFFICES ASSUME Identity, Search, [Next]_vars PROVE Search'
  OBVIOUS
<1>1. CASE Cancel \/ UNCHANGED vars
  <2>1. /\ UNCHANGED <<disk, cache, phase, snap, todo, partial, full, confirmed, halted, thread, stale, failed, hashed>>
        /\ cancel' = cancel \/ cancel' = TRUE
    BY <1>1 DEF Cancel, vars, files, cascade, control, pool, ghost
  <2>2. Faithful' /\ InCache' /\ NoneLeft'
    BY <2>1 DEF Search, Faithful, InCache, NoneLeft, Unchanged, Holds, At
  <2>3. \A p, q \in Path : Twins(p, q)' <=> Twins(p, q)
    BY <2>1 DEF Twins, Unchanged
  <2>4. Sought'
    BY <2>1, <2>3 DEF Search, Sought, Holds
  <2> QED BY <2>2, <2>4 DEF Search
<1> QED BY <1>1, SearchStart, SearchPartial, SearchEndPartial, SearchStage3, SearchEndFull, SearchEdit
        DEF Next, Stage2, User

(* A cascade that ran to its end has found every pair of duplicates among
   the files it considered, could read and nobody changed: for any files,
   threads, limits and contents, and whatever an earlier cascade cached.   *)
THEOREM FindsAll == Spec => []AllDuplicatesFound
<1>1. Init => Identity /\ Search
  BY IdentityInit, SearchInit
<1>2. Identity /\ Search /\ [Next]_vars => Identity' /\ Search'
  BY IdentityNext, SearchNext
<1>3. Search => AllDuplicatesFound
  BY DEF Search, Sought, AllDuplicatesFound, Twins
<1> QED BY <1>1, <1>2, <1>3, PTL DEF Spec

(* A file whose size and time are those it was last hashed under is never
   read in full again: no thread takes it up.                              *)
THEOREM HashedOnce == Spec => NoRehash
<1>1. Init => Identity /\ Search
  BY IdentityInit, SearchInit
<1>2. Identity /\ Search /\ [Next]_vars => Identity' /\ Search'
  BY IdentityNext, SearchNext
<1>3. Identity /\ Search /\ [Next]_vars =>
        [\A w \in Worker : thread[w].file = NoPath /\ thread'[w].file # NoPath
           => hashed[thread'[w].file] # snap[thread'[w].file]]_vars
  <2> SUFFICES ASSUME Identity, Search, Next, NEW v \in Worker,
                      thread[v].file = NoPath, thread'[v].file # NoPath
               PROVE  hashed[thread'[v].file] # snap[thread'[v].file]
    OBVIOUS
  <2>0. TypeOK /\ TypeOK'
    BY TypeNext DEF Identity
  <2>1. PICK w \in Worker : Stage3(w)
    <3>1. CASE Start \/ EndFull \/ User \/ PartialHit \/ PartialRead \/ PartialFails
      <4>1. thread' = thread
        BY <3>1 DEF Start, EndFull, User, Cancel, Edit, PartialHit, PartialRead, PartialFails, pool
      <4> QED BY <4>1
    <3>2. CASE EndPartial
      BY <3>2 DEF EndPartial
    <3> QED BY <3>1, <3>2 DEF Next, Stage2
  <2>2. ASSUME NEW at, NEW p, Become(w, at, p) PROVE v = w /\ thread'[v].file = p
    BY <2>0, <2>2 DEF Become, TypeOK, PoolOK
  <2>3. ~FullHit(w) /\ ~FullRead(w) /\ ~FullFails(w) /\ ~Quit(w)
    BY <2>2 DEF FullHit, FullRead, FullFails, Quit, pool
  <2>4. ~Acquire(w)
    BY <2>2 DEF Acquire, Holds
  <2>5. TakeFile(w)
    BY <2>1, <2>3, <2>4 DEF Stage3
  <2>6. PICK p \in todo : ~(Hit(p) /\ cache[p].content # NoHash) /\ Become(w, "gate", p)
    BY <2>5 DEF TakeFile
  <2>7. thread'[v].file = p /\ snap' = snap
    BY <2>2, <2>5, <2>6 DEF TakeFile
  <2>8. phase = "full" /\ p \in Path
    BY <2>0, <2>5, ThreadsRun DEF TakeFile, At, TypeOK, CascadeOK
  <2>9. Hit(p) /\ snap[p] # NoRecord
    BY <2>8 DEF Search, InCache, Hit, NoRecord
  <2>10. hashed[p] = NoRecord
    BY <2>6, <2>8, <2>9 DEF Search, InCache
  <2> QED BY <2>7, <2>9, <2>10
<1> QED BY <1>1, <1>2, <1>3, PTL DEF Spec, NoRehash
=============================================================================
