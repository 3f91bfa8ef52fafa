------------------------ MODULE ChangeMonitorProofs ------------------------
(***************************************************************************)
(* What holds of the change monitor for any files, folders, names and      *)
(* volumes, journals of any length, and any number of faults, restarts and *)
(* scans:                                                                  *)
(*   - the types (TypeCorrect);                                            *)
(*   - a monitor that has caught up shows what is on the disk              *)
(*     (IndexFollows), and the rows keep nothing that the index has        *)
(*     dropped (RowsFollow);                                               *)
(*   - nothing in the quarantine becomes a candidate (NeverSeen).          *)
(* All of them follow from the invariant IInv. Its heart is Kept: a path   *)
(* that no unread record is about is right already, and one that no record *)
(* behind the delta at hand is about will be right when the delta has been *)
(* applied. It rests on Journalled, which every operation of the user      *)
(* keeps (LogsKeep), and on PlanIs, what a plan makes of any delta.        *)
(***************************************************************************)
EXTENDS ChangeMonitor, SequenceTheorems, FiniteSetTheorems, WellFoundedInduction, TLAPS

(* What MonitorConstantsOK and NoneOK say, apart.                          *)
LEMMA Apart ==
  /\ Root \notin File /\ Root \notin Folder /\ File \cap Folder = {} /\ FileName \cap FolderName = {}
  /\ Service \in FolderName
  /\ Chunk \in Nat /\ Chunk > 0 /\ MaxVersion \in Nat /\ MaxVersion > 0
  /\ MaxRecords \in Nat /\ MaxFaults \in Nat
  /\ None \notin File /\ None \notin Folder /\ None \notin FileName /\ None \notin FolderName
  /\ None \notin Path /\ None \notin Version /\ None # Empty /\ None \notin Entry /\ None \notin Cursors
  /\ None \notin [Path -> Content]
  BY MonitorConstantsOK, NoneOK

(* Which reason counts.                                                    *)
LEMMA ClassIs ==
  ASSUME NEW why
  PROVE  Class(why) = IF "delete" \in why THEN "delete"
                      ELSE IF "old" \in why THEN "old"
                      ELSE IF "new" \in why THEN "new"
                      ELSE IF "create" \in why THEN "create"
                      ELSE IF "write" \in why THEN "write" ELSE "ignore"
<1> DEFINE hits == {k \in DOMAIN Priority : Priority[k] \in why}
<1>1. Class(why) = IF hits = {} THEN "ignore" ELSE Priority[Min(hits)]
  BY DEF Class
<1>2. DOMAIN Priority = 1 .. 5 /\ Priority[1] = "delete" /\ Priority[2] = "old" /\ Priority[3] = "new"
      /\ Priority[4] = "create" /\ Priority[5] = "write"
  BY DEF Priority
<1>3. \A k \in 1 .. 5 : k \in hits <=> Priority[k] \in why
  BY <1>2
<1>4. hits \subseteq 1 .. 5
  BY <1>2
<1> HIDE DEF hits
<1>5. ASSUME NEW n \in hits, \A m \in hits : n <= m PROVE Min(hits) = n
  <2>1. ASSUME NEW m \in hits, \A k \in hits : m <= k PROVE m = n
    <3>1. m <= n /\ n <= m /\ m \in 1 .. 5 /\ n \in 1 .. 5
      BY <1>4, <1>5, <2>1
    <3> QED BY <3>1
  <2> QED BY <1>5, <2>1 DEF Min
<1>6. CASE "delete" \in why
  <2>1. 1 \in hits /\ \A m \in hits : 1 <= m
    BY <1>2, <1>3, <1>4, <1>6
  <2> QED BY <1>1, <1>2, <1>5, <1>6, <2>1
<1>7. CASE "delete" \notin why /\ "old" \in why
  <2>1. 2 \in hits /\ \A m \in hits : 2 <= m
    BY <1>2, <1>3, <1>4, <1>7
  <2> QED BY <1>1, <1>2, <1>5, <1>7, <2>1
<1>8. CASE "delete" \notin why /\ "old" \notin why /\ "new" \in why
  <2>1. 3 \in hits /\ \A m \in hits : 3 <= m
    BY <1>2, <1>3, <1>4, <1>8
  <2> QED BY <1>1, <1>2, <1>5, <1>8, <2>1
<1>9. CASE "delete" \notin why /\ "old" \notin why /\ "new" \notin why /\ "create" \in why
  <2>1. 4 \in hits /\ \A m \in hits : 4 <= m
    BY <1>2, <1>3, <1>4, <1>9
  <2> QED BY <1>1, <1>2, <1>5, <1>9, <2>1
<1>10. CASE "delete" \notin why /\ "old" \notin why /\ "new" \notin why /\ "create" \notin why /\ "write" \in why
  <2>1. 5 \in hits /\ \A m \in hits : 5 <= m
    BY <1>2, <1>3, <1>4, <1>10
  <2> QED BY <1>1, <1>2, <1>5, <1>10, <2>1
<1>11. CASE "delete" \notin why /\ "old" \notin why /\ "new" \notin why /\ "create" \notin why /\ "write" \notin why
  <2>1. hits = {}
    BY <1>2, <1>3, <1>4, <1>11
  <2> QED BY <1>1, <1>11, <2>1
<1> QED BY <1>6, <1>7, <1>8, <1>9, <1>10, <1>11

InRoot   == {<<n>> : n \in FileName}
InFolder == {<<n>> : n \in FolderName}

(* Paths of one and two names.                                             *)
LEMMA AppendOne == ASSUME NEW m, NEW n PROVE Append(<<m>>, n) = <<m, n>>
<1> DEFINE s == Append(<<m>>, n)
<1>1. s \in Seq({m, n}) /\ Len(s) = 2 /\ s[1] = m /\ s[2] = n
  BY AppendProperties
<1>2. <<m, n>> \in Seq({m, n}) /\ Len(<<m, n>>) = 2 /\ <<m, n>>[1] = m /\ <<m, n>>[2] = n
  OBVIOUS
<1> HIDE DEF s
<1>3. s = <<m, n>>
  BY <1>1, <1>2, SeqEqual
<1> QED BY <1>3 DEF s

(* The folder of a path of two names.                                      *)
LEMMA FrontTwo == ASSUME NEW m, NEW n PROVE Front(<<m, n>>) = <<m>>
<1>1. <<m, n>> \in Seq({m, n}) /\ Len(<<m, n>>) = 2
  OBVIOUS
<1>2. SubSeq(<<m, n>>, 1, 1) \in Seq({m, n}) /\ Len(SubSeq(<<m, n>>, 1, 1)) = 1 /\ SubSeq(<<m, n>>, 1, 1)[1] = m
  BY <1>1, SubSeqProperties
<1> DEFINE s == SubSeq(<<m, n>>, 1, 1)
<1>3. s = <<m>>
  <2>1. s = [i \in 1 .. 1 |-> s[i]]
    BY <1>2
  <2> HIDE DEF s
  <2>2. s = [i \in 1 .. 1 |-> m]
    BY <2>1, <1>2 DEF s
  <2> QED BY <2>2
<1> QED BY <1>1, <1>3 DEF Front

(* A file's path is below the root or below a folder.                      *)
LEMMA FilePathIs ==
  /\ FilePath \subseteq Path /\ InFolder \subseteq Path /\ <<>> \in Path
  /\ \A n \in FileName : Append(<<>>, n) = <<n>> /\ Append(<<>>, n) \in FilePath
  /\ \A p \in InFolder, n \in FileName : Append(p, n) = <<p[1], n>> /\ Append(p, n) \in FilePath
  /\ InFolder \cap FilePath = {}
<1>1. \A n \in FileName : Append(<<>>, n) = <<n>> /\ <<n>> \in FilePath
  BY DEF FilePath
<1>2. ASSUME NEW m \in FolderName, NEW n \in FileName
      PROVE  Append(<<m>>, n) = <<m, n>> /\ <<m>>[1] = m /\ <<m, n>> \in FilePath
  BY AppendOne DEF FilePath
<1>3. ASSUME NEW m \in FolderName PROVE <<m>> \notin FilePath
  <2>1. <<m>> \notin FolderName \X FileName
    OBVIOUS
  <2>2. \A n \in FileName : <<n>> # <<m>>
    BY Apart
  <2> QED BY <2>1, <2>2 DEF FilePath
<1>4. FilePath \subseteq Path /\ InFolder \subseteq Path /\ <<>> \in Path
  BY DEF Path, InFolder
<1>5. \A p \in InFolder : \E m \in FolderName : p = <<m>>
  BY DEF InFolder
<1>6. ASSUME NEW p \in InFolder PROVE p \notin FilePath
  <2>1. PICK m \in FolderName : p = <<m>>
    BY <1>5
  <2> QED BY <2>1, <1>3
<1>7. ASSUME NEW p \in InFolder, NEW n \in FileName
      PROVE  Append(p, n) = <<p[1], n>> /\ Append(p, n) \in FilePath
  <2>1. PICK m \in FolderName : p = <<m>>
    BY <1>5
  <2>2. p[1] = m /\ Append(p, n) = <<m, n>> /\ <<m, n>> \in FilePath
    BY <2>1, <1>2, Zenon
  <2> QED BY <2>2
<1>8. \A n \in FileName : Append(<<>>, n) \in FilePath
  BY <1>1, Zenon
<1> HIDE DEF FilePath, InFolder
<1>9. InFolder \cap FilePath = {}
  BY <1>6
<1> QED BY <1>1, <1>4, <1>7, <1>8, <1>9

(* The folder of a path.                                                   *)
LEMMA FrontIs ==
  ASSUME NEW p \in FilePath
  PROVE  Front(p) = <<>> \/ Front(p) \in InFolder
<1>1. CASE \E n \in FileName : p = <<n>>
  <2>1. PICK n \in FileName : p = <<n>>
    BY <1>1
  <2>2. Front(<<n>>) = <<>>
    BY DEF Front
  <2> QED BY <2>1, <2>2, Zenon
<1>2. CASE p \in FolderName \X FileName
  <2>1. PICK m \in FolderName, n \in FileName : p = <<m, n>>
    BY <1>2
  <2>2. Front(<<m, n>>) = <<m>>
    BY FrontTwo
  <2> QED BY <2>1, <2>2 DEF InFolder
<1> QED BY <1>1, <1>2 DEF FilePath

(* Induction over the natural numbers, by their order being well-founded.  *)
Below == {ss \in Nat \X Nat : ss[1] < ss[2]}

(* The order is well-founded.                                              *)
LEMMA BelowWF == IsWellFoundedOn(Below, Nat)
<1>1. OpToRel(<, Nat) = Below
  BY DEF OpToRel, Below
<1> QED BY <1>1, NatLessThanWellFounded

(* A set of numbers has a least one.                                       *)
LEMMA Least == ASSUME NEW T, T \subseteq Nat, T # {} PROVE \E n \in T : \A m \in T : n <= m
<1>0. \E n \in T : \A m \in T : ~(<<m, n>> \in Below)
  BY BelowWF, WFMin, Zenon
<1>1. PICK n \in T : \A m \in T : ~(<<m, n>> \in Below)
  BY <1>0
<1>2. ASSUME NEW m \in T, m < n PROVE <<m, n>> \in Below
  BY <1>2 DEF Below
<1>3. ASSUME NEW m \in T PROVE n <= m
  <2>1. ~(m < n)
    BY <1>1, <1>2
  <2> QED BY <2>1
<1> QED BY <1>3

(* What holds of zero and passes on from number to number.                 *)
LEMMA Induct == ASSUME NEW S, 0 \in S, \A n \in Nat : n \in S => n + 1 \in S PROVE Nat \subseteq S
<1>1. SUFFICES ASSUME Nat \ S # {} PROVE FALSE
  OBVIOUS
<1>2. PICK n \in Nat \ S : \A m \in Nat \ S : n <= m
  BY <1>1, Least
<1>3. n # 0 /\ n - 1 \in Nat
  BY <1>2
<1>4. n - 1 \in S
  BY <1>2, <1>3
<1> QED BY <1>2, <1>3, <1>4

(* One step of a plan.                                                     *)
Step(s, c) == CHOOSE t \in {PlanOne(b, c) : b \in {s}} : TRUE

(* It is the planning of one record.                                       *)
LEMMA StepIs == ASSUME NEW s, NEW c PROVE Step(s, c) = PlanOne(s, c)
<1>1. {PlanOne(b, c) : b \in {s}} = {PlanOne(s, c)}
  OBVIOUS
<1> QED BY <1>1 DEF Step

(* The steps of a plan, which are its definition once there is a function
   that takes them.                                                        *)
LEMMA PlanSteps ==
  ASSUME NEW known, NEW delta, Len(delta) \in Nat
  PROVE  \E after :
           /\ DOMAIN after = 0 .. Len(delta)
           /\ after[0] = Unplanned(known)
           /\ \A n \in 1 .. Len(delta) : after[n] = PlanOne(after[n - 1], delta[n])
           /\ Planned(known, delta) = after[Len(delta)]
<1> DEFINE N == Len(delta)
           Steps(f, n) == f = [m \in 0 .. n |-> IF m = 0 THEN Unplanned(known) ELSE Step(f[m - 1], delta[m])]
           S == {n \in Nat : \E f : Steps(f, n)}
<1>1. 0 \in S
  <2>1. Steps([m \in 0 .. 0 |-> Unplanned(known)], 0)
    OBVIOUS
  <2> QED BY <2>1
<1>2. \A n \in Nat : n \in S => n + 1 \in S
  <2> SUFFICES ASSUME NEW n \in Nat, NEW f, Steps(f, n) PROVE \E g : Steps(g, n + 1)
    OBVIOUS
  <2> DEFINE g == [m \in 0 .. n + 1 |-> IF m = 0 THEN Unplanned(known) ELSE Step(f[m - 1], delta[m])]
  <2>1. \A m \in 0 .. n : g[m] = f[m]
    OBVIOUS
  <2>2. \A m \in 0 .. n + 1 : m # 0 => g[m - 1] = f[m - 1]
    BY <2>1
  <2>3. g = [m \in 0 .. n + 1 |-> IF m = 0 THEN Unplanned(known) ELSE Step(g[m - 1], delta[m])]
    <3> HIDE DEF g
    <3>1. g = [m \in 0 .. n + 1 |-> IF m = 0 THEN Unplanned(known) ELSE Step(f[m - 1], delta[m])]
      BY DEF g
    <3> QED BY <2>2, <3>1
  <2> QED BY <2>3
<1>3. N \in S
  <2> HIDE DEF S
  <2>1. Nat \subseteq S
    BY <1>1, <1>2, Induct
  <2> QED BY <2>1
<1>4. \E f : Steps(f, N)
  BY <1>3
<1> DEFINE after[n \in 0 .. N] == IF n = 0 THEN Unplanned(known) ELSE Step(after[n - 1], delta[n])
<1>5. Steps(after, N)
  BY <1>4, Zenon
<1>6. Planned(known, delta) = after[N]
  BY DEF Planned, Step
<1> HIDE DEF after
<1>7. DOMAIN after = 0 .. N /\ after[0] = Unplanned(known) /\ \A n \in 1 .. N : after[n] = Step(after[n - 1], delta[n])
  <2>1. N \in Nat
    OBVIOUS
  <2> HIDE DEF N
  <2>2. after = [m \in 0 .. N |-> IF m = 0 THEN Unplanned(known) ELSE Step(after[m - 1], delta[m])]
    BY <1>5
  <2> QED BY <2>1, <2>2
<1> QED BY <1>6, <1>7, StepIs

Arriving == {"create", "write", "new"}
Leaving  == {"delete", "old"}

(* A record of a file, and one of a folder.                                *)
OfFile(c) ==
  /\ c.ref \in File
  /\ Class(c.why) \in Arriving \cup Leaving
  /\ c.parent \in Folder \cup {Root} /\ c.name \in FileName
  /\ c.at \in FilePath

OfFolder(c) ==
  /\ c.ref \in Folder
  /\ c.parent = Root /\ c.name \in FolderName /\ c.at = <<c.name>>

(* What the cache has are paths of files and folders.                      *)
Cached(known) ==
  /\ known \in [Ref -> Path \cup {None}]
  /\ known[Root] = <<>>
  /\ \A d \in Folder : known[d] \in InFolder \cup {None}
  /\ \A f \in File : known[f] \in FilePath \cup {None}

Plans == [known : [Ref -> Path \cup {None}], old : [Ref -> Path \cup {None}],
          out : SUBSET Path, in : SUBSET FilePath, last : SUBSET Path, odd : SUBSET Path]

(* The plan so far.                                                        *)
Planning(s) ==
  /\ s \in Plans
  /\ Cached(s.known)
  /\ \A d \in Folder \cup {Root} : s.old[d] \in InFolder \cup {None}
  /\ \A f \in File : s.old[f] \in FilePath \cup {None}
  /\ \A p \in s.in : ~Quarantined(p)

(* The path a record of a file is taken to be about.                       *)
Reached(s, c) == IF Class(c.why) = "new" THEN Renamed(s, c) ELSE Resolve(s.known, c)

(* The paths that a record of a file removes, and those it inserts.        *)
Goes(s, c) ==
  IF Class(c.why) = "delete" THEN {Reached(s, c)}
  ELSE IF Class(c.why) = "new" /\ s.old[c.ref] # None THEN {s.old[c.ref]} ELSE {}

Comes(s, c) ==
  IF Class(c.why) \in Arriving /\ ~Quarantined(Reached(s, c)) THEN {Reached(s, c)} ELSE {}

Halves(s, c) ==
  IF Class(c.why) = "old" THEN [s.old EXCEPT ![c.ref] = Reached(s, c)]
  ELSE IF Class(c.why) = "new" /\ s.old[c.ref] # None THEN [s.old EXCEPT ![c.ref] = None]
  ELSE s.old

(* Names are not None.                                                     *)
LEMMA SomePath == None \notin FilePath /\ None \notin InFolder /\ None # <<>>
  BY Apart, FilePathIs

(* A name below a folder of known path.                                    *)
LEMMA ChildIs ==
  ASSUME NEW known, Cached(known), NEW d \in Folder \cup {Root}, NEW n \in FileName
  PROVE  /\ Child(known[d], n) \in FilePath \cup {None}
         /\ Child(known[d], n) = None <=> known[d] = None
<1> HIDE DEF FilePath, InFolder
<1>1. CASE known[d] = None
  BY <1>1 DEF Child
<1>2. CASE d = Root
  <2>1. known[d] = <<>> /\ known[d] # None
    BY <1>2, SomePath DEF Cached
  <2>2. Child(known[d], n) = Append(<<>>, n)
    BY <2>1, Zenon DEF Child
  <2> QED BY <2>1, <2>2, FilePathIs, SomePath
<1>3. CASE d \in Folder /\ known[d] # None
  <2>1. known[d] \in InFolder
    BY <1>3 DEF Cached
  <2>2. Child(known[d], n) = Append(known[d], n)
    BY <1>3 DEF Child
  <2> QED BY <1>3, <2>1, <2>2, FilePathIs, SomePath
<1> QED BY <1>1, <1>2, <1>3

(* A file is taken to be at some path of a file, if at any; the second half
   of a rename always, if the first one waits.                             *)
LEMMA ReachedIs ==
  ASSUME NEW s, Planning(s), NEW c, OfFile(c)
  PROVE  /\ Reached(s, c) \in FilePath \cup {None}
         /\ Class(c.why) = "new" /\ s.old[c.ref] # None => Reached(s, c) # None
<1> HIDE DEF FilePath, InFolder
<1>1. Cached(s.known) /\ c.ref \in File /\ c.parent \in Folder \cup {Root} /\ c.name \in FileName
      /\ s.old[c.ref] \in FilePath \cup {None} /\ s.known[c.ref] \in FilePath \cup {None}
  BY DEF Planning, OfFile, Cached
<1>2. /\ Child(s.known[c.parent], c.name) \in FilePath \cup {None}
      /\ Child(s.known[c.parent], c.name) = None <=> s.known[c.parent] = None
  BY <1>1, ChildIs
<1>3. CASE Class(c.why) # "new"
  <2>1. Reached(s, c) = Resolve(s.known, c)
    BY <1>3 DEF Reached
  <2> QED BY <1>1, <1>2, <1>3, <2>1 DEF Resolve
<1>4. CASE Class(c.why) = "new" /\ s.known[c.parent] # None
  <2>1. Reached(s, c) = Child(s.known[c.parent], c.name)
    BY <1>4 DEF Reached, Renamed
  <2> QED BY <1>2, <1>4, <2>1
<1>5. CASE Class(c.why) = "new" /\ s.known[c.parent] = None /\ s.old[c.ref] # None
  <2>1. Reached(s, c) = Append(Front(s.old[c.ref]), c.name)
    BY <1>5 DEF Reached, Renamed
  <2>2. Front(s.old[c.ref]) = <<>> \/ Front(s.old[c.ref]) \in InFolder
    BY <1>1, <1>5, FrontIs
  <2>3. Append(Front(s.old[c.ref]), c.name) \in FilePath
    <3>1. CASE Front(s.old[c.ref]) = <<>>
      BY <3>1, <1>1, FilePathIs, Zenon
    <3>2. CASE Front(s.old[c.ref]) \in InFolder
      BY <3>2, <1>1, FilePathIs
    <3> QED BY <2>2, <3>1, <3>2
  <2> QED BY <1>1, <2>1, <2>3, SomePath
<1>6. CASE Class(c.why) = "new" /\ s.known[c.parent] = None /\ s.old[c.ref] = None
  <2>1. Reached(s, c) = None
    BY <1>6 DEF Reached, Renamed
  <2> QED BY <1>6, <2>1
<1> QED BY <1>3, <1>4, <1>5, <1>6

(* A path is removed.                                                      *)
LEMMA RemovedIs ==
  ASSUME NEW s \in Plans, NEW p \in Path, NEW t, t = Removed(s, p)
  PROVE  /\ t \in Plans /\ t.known = s.known /\ t.old = s.old /\ t.out = s.out \cup {p} /\ t.in = s.in
         /\ t.last = s.last \cup {p} /\ t.odd = s.odd
<1> HIDE DEF Path, FilePath, Ref
<1> QED BY DEF Removed, Plans

(* What a record of a file adds to the plan.                               *)
Filed(t, s, c) ==
  /\ t \in Plans
  /\ t.known = [s.known EXCEPT ![c.ref] = IF Class(c.why) \in Leaving THEN None ELSE Reached(s, c)]
  /\ t.old = Halves(s, c)
  /\ t.out = s.out \cup Goes(s, c)
  /\ t.in = s.in \cup Comes(s, c)
  /\ t.last = (s.last \cup Goes(s, c)) \ Comes(s, c)
  /\ t.odd = IF Reached(s, c) = c.at THEN s.odd ELSE s.odd \cup {c.at, Reached(s, c)}

(* A record of a file whose path is known does that.                       *)
LEMMA FileStep ==
  ASSUME NEW s, Planning(s), NEW c, OfFile(c), Reached(s, c) # None,
         NEW t, t = PlanOne(s, c)
  PROVE  Filed(t, s, c)
<1> SUFFICES /\ t \in Plans
             /\ t.known = [s.known EXCEPT ![c.ref] = IF Class(c.why) \in Leaving THEN None ELSE Reached(s, c)]
             /\ t.old = Halves(s, c)
             /\ t.out = s.out \cup Goes(s, c)
             /\ t.in = s.in \cup Comes(s, c)
             /\ t.last = (s.last \cup Goes(s, c)) \ Comes(s, c)
             /\ t.odd = IF Reached(s, c) = c.at THEN s.odd ELSE s.odd \cup {c.at, Reached(s, c)}
  BY DEF Filed
<1> DEFINE p == Reached(s, c)
           u == Check(s, c, p)
           class == Class(c.why)
<1> HIDE DEF FilePath, InFolder, Ref
<1>1. c.ref \in File /\ c.ref \in Ref /\ c.ref \notin Folder /\ c.at \in Path /\ p \in FilePath /\ p \in Path
  BY ReachedIs, FilePathIs, Apart DEF OfFile, Ref
<1>2. s \in Plans /\ s.old[c.ref] \in Path \cup {None}
  BY <1>1 DEF Planning, Plans
<1>3. PlanOne(s, c) = PlanFile(s, c)
  BY <1>1 DEF PlanOne
<1>4. u \in Plans /\ u.known = s.known /\ u.old = s.old /\ u.out = s.out /\ u.in = s.in /\ u.last = s.last
      /\ u.odd = IF p = c.at THEN s.odd ELSE s.odd \cup {c.at, p}
  BY <1>1, <1>2 DEF Check, Plans
<1> HIDE DEF u, p
<1>5. class \in {"delete", "old", "new", "create", "write"}
  BY DEF OfFile, Arriving, Leaving
<1>6. t = CASE class = "ignore" -> s
       [] class # "ignore" /\ p = None -> Skip(s, c)
       [] class = "delete" /\ p # None -> Removed(Learn(u, c, None), p)
       [] class = "old" /\ p # None -> [Learn(u, c, None) EXCEPT !.old[c.ref] = p]
       [] class = "new" /\ p # None -> Arrive(Complete(Learn(u, c, p), c), c, p)
       [] class \in {"create", "write"} /\ p # None -> Arrive(Learn(u, c, p), c, p)
  BY <1>3, Zenon DEF PlanFile, u, p, Reached
<1>7. p # None
  BY DEF p
<1>8. ASSUME NEW q \in Path \cup {None}
      PROVE  /\ Learn(u, c, q) \in Plans
             /\ Learn(u, c, q).known = [s.known EXCEPT ![c.ref] = q] /\ Learn(u, c, q).old = s.old
             /\ Learn(u, c, q).out = s.out /\ Learn(u, c, q).in = s.in /\ Learn(u, c, q).last = s.last
             /\ Learn(u, c, q).odd = u.odd
  BY <1>1, <1>4 DEF Learn, Plans
<1>9. CASE class = "delete"
  <2>1. t = Removed(Learn(u, c, None), p)
    BY <1>6, <1>7, <1>9
  <2>2. Goes(s, c) = {p} /\ Comes(s, c) = {} /\ Halves(s, c) = s.old /\ class \in Leaving
    BY <1>9 DEF Goes, Comes, Halves, Leaving, Arriving, p
  <2> DEFINE v == Learn(u, c, None)
  <2>3. /\ v \in Plans
        /\ v.known = [s.known EXCEPT ![c.ref] = None] /\ v.old = s.old
        /\ v.out = s.out /\ v.in = s.in /\ v.last = s.last /\ v.odd = u.odd
    BY <1>8
  <2> HIDE DEF v
  <2>4. t = Removed(v, p)
    BY <2>1 DEF v
  <2>5. /\ t \in Plans /\ t.known = v.known /\ t.old = v.old /\ t.out = v.out \cup {p} /\ t.in = v.in
        /\ t.last = v.last \cup {p} /\ t.odd = v.odd
    BY <1>1, <2>3, <2>4, RemovedIs
  <2> QED BY <1>4, <2>2, <2>3, <2>5 DEF p
<1>10. CASE class = "old"
  <2>1. t = [Learn(u, c, None) EXCEPT !.old[c.ref] = p]
    BY <1>6, <1>7, <1>10
  <2>2. Goes(s, c) = {} /\ Comes(s, c) = {} /\ Halves(s, c) = [s.old EXCEPT ![c.ref] = p] /\ class \in Leaving
    BY <1>10 DEF Goes, Comes, Halves, Leaving, Arriving, p
  <2> DEFINE v == Learn(u, c, None)
  <2>3. /\ v \in Plans
        /\ v.known = [s.known EXCEPT ![c.ref] = None] /\ v.old = s.old
        /\ v.out = s.out /\ v.in = s.in /\ v.last = s.last /\ v.odd = u.odd
    BY <1>8
  <2> HIDE DEF v
  <2>4. t = [v EXCEPT !.old[c.ref] = p]
    BY <2>1 DEF v
  <2>5. /\ t \in Plans /\ t.known = v.known /\ t.old = [v.old EXCEPT ![c.ref] = p] /\ t.out = v.out /\ t.in = v.in
        /\ t.last = v.last /\ t.odd = v.odd
    BY <1>1, <2>3, <2>4 DEF Plans
  <2> QED BY <1>4, <2>2, <2>3, <2>5 DEF p
<1>11. CASE class \in Arriving
  <2> DEFINE v == Learn(u, c, p)
             w == IF class = "new" THEN Complete(v, c) ELSE v
  <2>1. t = Arrive(w, c, p)
    BY <1>6, <1>7, <1>11 DEF Arriving
  <2>2. class \notin Leaving /\ class # "delete" /\ class # "old"
    BY <1>11 DEF Arriving, Leaving
  <2>3. /\ v \in Plans
        /\ v.known = [s.known EXCEPT ![c.ref] = p] /\ v.old = s.old
        /\ v.out = s.out /\ v.in = s.in /\ v.last = s.last /\ v.odd = u.odd
    BY <1>1, <1>8
  <2> HIDE DEF v
  <2>4. /\ w \in Plans /\ w.known = v.known /\ w.old = Halves(s, c) /\ w.out = s.out \cup Goes(s, c) /\ w.in = s.in
        /\ w.last = s.last \cup Goes(s, c) /\ w.odd = v.odd
    <3>1. CASE class = "new" /\ s.old[c.ref] # None
      <4>1. Goes(s, c) = {s.old[c.ref]} /\ Halves(s, c) = [s.old EXCEPT ![c.ref] = None]
        BY <2>2, <3>1 DEF Goes, Halves
      <4>2. w = [Removed(v, s.old[c.ref]) EXCEPT !.old[c.ref] = None]
        BY <2>3, <3>1 DEF Complete
      <4> DEFINE x == Removed(v, s.old[c.ref])
      <4>3. /\ x \in Plans /\ x.known = v.known /\ x.old = v.old /\ x.out = v.out \cup {s.old[c.ref]} /\ x.in = v.in
            /\ x.last = v.last \cup {s.old[c.ref]} /\ x.odd = v.odd
        BY <1>2, <2>3, <3>1 DEF Removed, Plans
      <4> HIDE DEF x
      <4>4. w = [x EXCEPT !.old[c.ref] = None]
        BY <4>2 DEF x
      <4> HIDE DEF w
      <4>5. /\ w \in Plans /\ w.known = x.known /\ w.old = [x.old EXCEPT ![c.ref] = None] /\ w.out = x.out
            /\ w.in = x.in /\ w.last = x.last /\ w.odd = x.odd
        BY <1>1, <4>3, <4>4 DEF Plans
      <4> QED BY <2>3, <4>1, <4>3, <4>5
    <3>2. CASE ~(class = "new" /\ s.old[c.ref] # None)
      <4>1. Goes(s, c) = {} /\ Halves(s, c) = s.old
        BY <2>2, <3>2 DEF Goes, Halves
      <4>2. w = v
        BY <2>3, <3>2 DEF Complete
      <4> QED BY <2>3, <4>1, <4>2
    <3> QED BY <3>1, <3>2
  <2> HIDE DEF w
  <2>5. CASE Quarantined(p)
    <3>1. t = w /\ Comes(s, c) = {}
      BY <2>1, <2>5 DEF Arrive, Comes, p
    <3> QED BY <1>4, <2>2, <2>3, <2>4, <3>1 DEF p
  <2>6. CASE ~Quarantined(p)
    <3>1. t = [w EXCEPT !.in = @ \cup {p}, !.last = @ \ {p}] /\ Comes(s, c) = {p}
      BY <1>11, <2>1, <2>6 DEF Arrive, Inserted, Comes, p
    <3>2. /\ t \in Plans /\ t.known = w.known /\ t.old = w.old /\ t.out = w.out /\ t.in = w.in \cup {p}
          /\ t.last = w.last \ {p} /\ t.odd = w.odd
      BY <1>1, <2>4, <3>1 DEF Plans
    <3> QED BY <1>4, <2>2, <2>3, <2>4, <3>1, <3>2 DEF p
  <2> QED BY <2>5, <2>6
<1> QED BY <1>5, <1>9, <1>10, <1>11 DEF Arriving

(* A record of a file whose folder is unknown.                             *)
LEMMA SkipStep ==
  ASSUME NEW s, Planning(s), NEW c, OfFile(c), Reached(s, c) = None,
         NEW t, t = PlanOne(s, c)
  PROVE  /\ t \in Plans
         /\ t.known = s.known /\ t.old = s.old /\ t.out = s.out /\ t.in = s.in /\ t.last = s.last
         /\ t.odd = s.odd \cup {c.at}
<1> HIDE DEF FilePath, InFolder, Ref
<1>1. c.ref \notin Folder /\ c.at \in Path
  BY FilePathIs, Apart DEF OfFile
<1>2. Class(c.why) # "ignore"
  BY DEF OfFile, Arriving, Leaving
<1>3. PlanOne(s, c) = PlanFile(s, c)
  BY <1>1 DEF PlanOne
<1>4. PlanFile(s, c) = Skip(s, c)
  BY <1>2 DEF PlanFile, Reached
<1>5. s \in Plans
  BY DEF Planning
<1> QED BY <1>1, <1>3, <1>4, <1>5 DEF Skip, Plans

(* A record of a folder.                                                   *)
LEMMA FolderStep ==
  ASSUME NEW s, Planning(s), NEW c, OfFolder(c),
         NEW t, t = PlanOne(s, c)
  PROVE  /\ t \in Plans /\ Cached(t.known)
         /\ \A d \in Folder \cup {Root} : t.old[d] \in InFolder \cup {None}
         /\ \A f \in File : t.old[f] = s.old[f]
         /\ t.out = s.out /\ t.in = s.in /\ t.last = s.last /\ t.odd = s.odd
<1> HIDE DEF FilePath, InFolder
<1>1. c.ref \in Folder /\ c.ref \in Ref /\ c.ref \notin File /\ c.ref # Root /\ <<c.name>> \in InFolder
      /\ <<c.name>> \in Path /\ <<c.name>> # None
  BY FilePathIs, Apart, SomePath DEF OfFolder, Ref, InFolder
<1>2. s \in Plans /\ Cached(s.known) /\ s.known[Root] = <<>> /\ s.known[Root] # None
      /\ s.known[c.ref] \in InFolder \cup {None} /\ InFolder \subseteq Path
  BY <1>1, SomePath, FilePathIs DEF Planning, Cached
<1>3. t = PlanFolder(s, c)
  BY <1>1 DEF PlanOne
<1>4. Child(s.known[Root], c.name) = <<c.name>>
  <2>1. Append(<<>>, c.name) = <<c.name>>
    OBVIOUS
  <2> QED BY <1>2, <2>1, Zenon DEF Child
<1>5. Resolve(s.known, c) \in InFolder \cup {None}
  <2>1. Resolve(s.known, c) \in {s.known[c.ref], Child(s.known[Root], c.name)}
    BY DEF Resolve, OfFolder
  <2> QED BY <1>1, <1>2, <1>4, <2>1
<1>6. Renamed(s, c) = <<c.name>>
  BY <1>2, <1>4 DEF Renamed, OfFolder
<1>7. ASSUME NEW q \in InFolder \cup {None}, t = [s EXCEPT !.known[c.ref] = q]
      PROVE  /\ t \in Plans /\ Cached(t.known) /\ t.old = s.old
             /\ t.out = s.out /\ t.in = s.in /\ t.last = s.last /\ t.odd = s.odd
  <2>1. /\ t \in Plans /\ t.known = [s.known EXCEPT ![c.ref] = q] /\ t.old = s.old
        /\ t.out = s.out /\ t.in = s.in /\ t.last = s.last /\ t.odd = s.odd
    BY <1>1, <1>2, <1>7 DEF Plans
  <2>2. Cached(t.known)
    BY <1>1, <1>2, <2>1 DEF Cached, Plans, Ref
  <2> QED BY <2>1, <2>2
<1>8. /\ \A d \in Folder \cup {Root} : s.old[d] \in InFolder \cup {None}
  BY DEF Planning
<1>9. CASE Class(c.why) = "delete"
  <2>1. t = [s EXCEPT !.known[c.ref] = None]
    BY <1>3, <1>9 DEF PlanFolder, Learn
  <2> QED BY <1>7, <1>8, <2>1
<1>10. CASE Class(c.why) = "old"
  <2>1. t = [s EXCEPT !.old[c.ref] = Resolve(s.known, c)]
    BY <1>3, <1>10 DEF PlanFolder
  <2>2. /\ t \in Plans /\ t.known = s.known /\ t.old = [s.old EXCEPT ![c.ref] = Resolve(s.known, c)]
        /\ t.out = s.out /\ t.in = s.in /\ t.last = s.last /\ t.odd = s.odd
    BY <1>1, <1>2, <1>5, <2>1 DEF Plans
  <2>3. s.old \in [Ref -> Path \cup {None}]
    BY <1>2 DEF Plans
  <2> QED BY <1>1, <1>2, <1>5, <1>8, <2>2, <2>3 DEF Ref
<1>11. CASE Class(c.why) \in {"new", "create"}
  <2>1. t = [s EXCEPT !.known[c.ref] = <<c.name>>]
    BY <1>1, <1>2, <1>3, <1>6, <1>11 DEF PlanFolder, Learn, OfFolder
  <2> QED BY <1>1, <1>7, <1>8, <2>1
<1>12. CASE Class(c.why) \notin {"delete", "old", "new", "create"}
  <2>1. t = s
    BY <1>3, <1>12 DEF PlanFolder
  <2> QED BY <1>2, <1>8, <2>1
<1> QED BY <1>9, <1>10, <1>11, <1>12

(* Whatever the record, it leaves a plan.                                  *)
LEMMA PlanningStep ==
  ASSUME NEW s, Planning(s), NEW c, OfFile(c) \/ OfFolder(c)
  PROVE  Planning(PlanOne(s, c))
<1> SUFFICES ASSUME NEW t, t = PlanOne(s, c) PROVE Planning(t)
  OBVIOUS
<1> HIDE DEF FilePath, InFolder
<1>0. \A d \in Folder \cup {Root} : s.old[d] \in InFolder \cup {None}
  BY DEF Planning
<1>1. CASE OfFolder(c)
  BY <1>1, FolderStep DEF Planning
<1>2. CASE OfFile(c) /\ Reached(s, c) = None
  <2>1. t \in Plans /\ t.known = s.known /\ t.old = s.old /\ t.in = s.in
    BY <1>2, SkipStep
  <2> QED BY <2>1 DEF Planning
<1>3. CASE OfFile(c) /\ Reached(s, c) # None
  <2>1. /\ t \in Plans
        /\ t.known = [s.known EXCEPT ![c.ref] = IF Class(c.why) \in Leaving THEN None ELSE Reached(s, c)]
        /\ t.old = Halves(s, c)
        /\ t.out = s.out \cup Goes(s, c)
        /\ t.in = s.in \cup Comes(s, c)
        /\ t.last = (s.last \cup Goes(s, c)) \ Comes(s, c)
        /\ t.odd = IF Reached(s, c) = c.at THEN s.odd ELSE s.odd \cup {c.at, Reached(s, c)}
    <3>1. Filed(t, s, c)
      BY <1>3, FileStep
    <3> HIDE DEF Planning, OfFile, Reached, Halves, Goes, Comes
    <3> QED BY <3>1 DEF Filed
  <2>2. Reached(s, c) \in FilePath /\ c.ref \in File /\ c.ref \notin Folder /\ c.ref # Root
    BY <1>3, ReachedIs, Apart DEF OfFile
  <2>3. s.known \in [Ref -> Path \cup {None}] /\ s.old \in [Ref -> Path \cup {None}]
    BY DEF Planning, Plans
  <2>4. Cached(t.known)
    <3>1. t.known \in [Ref -> Path \cup {None}]
      BY <2>1 DEF Plans
    <3>2. \A r \in Ref : t.known[r] = s.known[r] \/ (r = c.ref /\ t.known[r] \in {None, Reached(s, c)})
      BY <2>1, <2>3
    <3> QED BY <2>2, <3>1, <3>2 DEF Cached, Planning, Ref
  <2>5. \A r \in Ref : t.old[r] = s.old[r] \/ (r = c.ref /\ t.old[r] \in {None, Reached(s, c)})
    BY <2>1, <2>3 DEF Halves
  <2>6. \A p \in t.in : ~Quarantined(p)
    BY <2>1 DEF Comes, Planning
  <2>7. \A f \in File : t.old[f] \in FilePath \cup {None}
    BY <2>2, <2>5 DEF Planning, Ref
  <2>8. \A d \in Folder \cup {Root} : t.old[d] \in InFolder \cup {None}
    BY <2>2, <2>5, <1>0 DEF Ref
  <2> QED BY <2>1, <2>4, <2>6, <2>7, <2>8 DEF Planning
<1> QED BY <1>1, <1>2, <1>3

(* An empty plan.                                                          *)
LEMMA PlanningInit ==
  ASSUME NEW known, Cached(known)
  PROVE  Planning(Unplanned(known))
<1> HIDE DEF FilePath, InFolder, Path
<1> DEFINE s == Unplanned(known)
<1>1. /\ s.known = known /\ s.old = [r \in Ref |-> None] /\ s.out = {} /\ s.in = {} /\ s.last = {} /\ s.odd = {}
      /\ s = [known |-> known, old |-> [r \in Ref |-> None], out |-> {}, in |-> {}, last |-> {}, odd |-> {}]
  BY DEF Unplanned
<1>2. s \in Plans
  BY <1>1 DEF Plans, Cached
<1> HIDE DEF s
<1>3. Planning(s)
  BY <1>1, <1>2 DEF Planning, Ref
<1> QED BY <1>3 DEF s

(* Records about files at a path; the last of the first n of them.         *)
FileAt(c, p) == c.ref \in File /\ c.at = p

Untouched(recs, n, p) == \A k \in 1 .. n : ~FileAt(recs[k], p)

LastIn(recs, n, k, p) == FileAt(recs[k], p) /\ \A j \in 1 .. n : j > k => ~FileAt(recs[j], p)

(* A path that a file has come to is inserted and not removed afterwards;
   one that it has left is removed, and not inserted again, or is the first
   half of a rename that waits for the second.                             *)
Lands(s, p)  == Quarantined(p) \/ (p \in s.in /\ p \notin s.last)
Leaves(s, p) == p \in s.out /\ (p \in s.in => p \in s.last)

Fate(s, c, p) ==
  /\ Class(c.why) \in Arriving => Lands(s, p)
  /\ Class(c.why) \in Leaving => Leaves(s, p) \/ (Class(c.why) = "old" /\ s.old[c.ref] = p)

(* Only the last record can wait for its second half.                      *)
Waits(s, recs, n) ==
  \A f \in File : s.old[f] # None =>
    /\ n >= 1 /\ recs[n].ref = f /\ Class(recs[n].why) = "old"
    /\ s.old[f] = recs[n].at \/ (s.old[f] \in s.odd /\ recs[n].at \in s.odd)

Fates(s, recs, n) ==
  /\ Waits(s, recs, n)
  /\ \A p \in FilePath \ s.odd :
       /\ Untouched(recs, n, p) => p \notin s.in /\ p \notin s.out
       /\ \A k \in 1 .. n : LastIn(recs, n, k, p) => Fate(s, recs[k], p)

(* The second half of a rename comes right behind the first.               *)
PairedAt(recs, n) ==
  recs[n].ref \in File /\ Class(recs[n].why) = "old" =>
    recs[n + 1].ref = recs[n].ref /\ Class(recs[n + 1].why) = "new"

(* Waiting is over with the next record.                                   *)
LEMMA WaitOver ==
  ASSUME NEW s, NEW recs, NEW n \in Nat, Waits(s, recs, n),
         n >= 1 => PairedAt(recs, n),
         NEW f \in File, s.old[f] # None
  PROVE  recs[n + 1].ref = f /\ Class(recs[n + 1].why) = "new" /\ n >= 1
  BY DEF Waits, PairedAt

(* The records of a path that the next one is not about.                   *)
LEMMA OtherPath ==
  ASSUME NEW recs, NEW n \in Nat, NEW p, ~FileAt(recs[n + 1], p)
  PROVE  /\ Untouched(recs, n + 1, p) => Untouched(recs, n, p)
         /\ \A k \in 1 .. n + 1 : LastIn(recs, n + 1, k, p) => k \in 1 .. n /\ LastIn(recs, n, k, p)
<1>1. 1 .. n \subseteq 1 .. n + 1 /\ \A k \in 1 .. n + 1 : k \in 1 .. n \/ k = n + 1
  OBVIOUS
<1>2. Untouched(recs, n + 1, p) => Untouched(recs, n, p)
  BY <1>1 DEF Untouched
<1>3. ASSUME NEW k \in 1 .. n + 1, LastIn(recs, n + 1, k, p) PROVE k \in 1 .. n /\ LastIn(recs, n, k, p)
  BY <1>1, <1>3 DEF LastIn
<1> QED BY <1>2, <1>3

(* A path that a record neither removes nor inserts fares as before.       *)
LEMMA FateKept ==
  ASSUME NEW s, NEW recs, NEW n \in Nat, Fates(s, recs, n), NEW t, NEW p \in FilePath, p \notin s.odd,
         ~FileAt(recs[n + 1], p),
         p \in t.in <=> p \in s.in, p \in t.out <=> p \in s.out, p \in t.last <=> p \in s.last,
         \A f \in File : s.old[f] # p,
         \A k \in 1 .. n : FileAt(recs[k], p) => recs[k].ref \in File
  PROVE  /\ Untouched(recs, n + 1, p) => p \notin t.in /\ p \notin t.out
         /\ \A k \in 1 .. n + 1 : LastIn(recs, n + 1, k, p) => Fate(t, recs[k], p)
<1> HIDE DEF FilePath
<1>1. Untouched(recs, n + 1, p) => p \notin t.in /\ p \notin t.out
  BY OtherPath DEF Fates
<1>2. ASSUME NEW k \in 1 .. n + 1, LastIn(recs, n + 1, k, p) PROVE Fate(t, recs[k], p)
  <2>1. k \in 1 .. n /\ LastIn(recs, n, k, p)
    BY <1>2, OtherPath
  <2>2. Fate(s, recs[k], p)
    BY <2>1 DEF Fates
  <2>3. recs[k].ref \in File
    BY <2>1 DEF LastIn, FileAt
  <2> QED BY <2>2, <2>3 DEF Fate, Lands, Leaves
<1> QED BY <1>1, <1>2

(* One step more.                                                          *)
LEMMA FatesStep ==
  ASSUME NEW s, Planning(s), NEW recs, NEW n \in Nat, Fates(s, recs, n),
         OfFile(recs[n + 1]) \/ OfFolder(recs[n + 1]),
         n >= 1 => PairedAt(recs, n),
         NEW t, t = PlanOne(s, recs[n + 1])
  PROVE  Fates(t, recs, n + 1)
<1> DEFINE c == recs[n + 1]
<1> HIDE DEF FilePath, InFolder, Ref
<1>0. Waits(s, recs, n)
  BY DEF Fates
<1>a. n + 1 \in 1 .. n + 1 /\ n + 1 >= 1 /\ \A j \in 1 .. n + 1 : ~(j > n + 1)
  OBVIOUS
<1>b. None \notin FilePath
  BY SomePath
<1>1. CASE OfFolder(c)
  <2>1. /\ \A f \in File : t.old[f] = s.old[f]
        /\ t.out = s.out /\ t.in = s.in /\ t.last = s.last /\ t.odd = s.odd
    BY <1>1, FolderStep
  <2>2. c.ref \notin File
    BY <1>1, Apart DEF OfFolder
  <2>3. \A f \in File : s.old[f] = None
    BY <1>0, <2>2, WaitOver
  <2>4. Waits(t, recs, n + 1)
    BY <2>1, <2>3 DEF Waits
  <2>5. ASSUME NEW p \in FilePath \ t.odd
        PROVE  /\ Untouched(recs, n + 1, p) => p \notin t.in /\ p \notin t.out
               /\ \A k \in 1 .. n + 1 : LastIn(recs, n + 1, k, p) => Fate(t, recs[k], p)
    <3>1. ~FileAt(c, p) /\ \A f \in File : s.old[f] # p
      BY <1>b, <2>2, <2>3 DEF FileAt
    <3> QED BY <2>1, <2>5, <3>1, FateKept DEF FileAt
  <2> QED BY <2>4, <2>5 DEF Fates
<1>2. CASE OfFile(c) /\ Reached(s, c) = None
  <2>1. t.old = s.old /\ t.out = s.out /\ t.in = s.in /\ t.last = s.last /\ t.odd = s.odd \cup {c.at}
    BY <1>2, SkipStep
  <2>2. ~(Class(c.why) = "new" /\ s.old[c.ref] # None)
    BY <1>2, ReachedIs
  <2>3. \A f \in File : s.old[f] = None
    BY <1>0, <2>2, WaitOver
  <2>4. Waits(t, recs, n + 1)
    BY <2>1, <2>3 DEF Waits
  <2>5. ASSUME NEW p \in FilePath \ t.odd
        PROVE  /\ Untouched(recs, n + 1, p) => p \notin t.in /\ p \notin t.out
               /\ \A k \in 1 .. n + 1 : LastIn(recs, n + 1, k, p) => Fate(t, recs[k], p)
    <3>1. ~FileAt(c, p) /\ (\A f \in File : s.old[f] # p) /\ p \notin s.odd
      BY <1>b, <2>1, <2>3, <2>5 DEF FileAt
    <3> QED BY <2>1, <3>1, FateKept DEF FileAt
  <2> QED BY <2>4, <2>5 DEF Fates
<1>3. CASE OfFile(c) /\ Reached(s, c) # None
  <2>1. /\ t \in Plans
        /\ t.known = [s.known EXCEPT ![c.ref] = IF Class(c.why) \in Leaving THEN None ELSE Reached(s, c)]
        /\ t.old = Halves(s, c)
        /\ t.out = s.out \cup Goes(s, c)
        /\ t.in = s.in \cup Comes(s, c)
        /\ t.last = (s.last \cup Goes(s, c)) \ Comes(s, c)
        /\ t.odd = IF Reached(s, c) = c.at THEN s.odd ELSE s.odd \cup {c.at, Reached(s, c)}
    <3>1. Filed(t, s, c)
      BY <1>3, FileStep
    <3> HIDE DEF Planning, OfFile, Reached, Halves, Goes, Comes, c
    <3> QED BY <3>1 DEF Filed
  <2>2. c.ref \in File /\ c.ref \in Ref /\ Reached(s, c) \in FilePath /\ s.old \in [Ref -> Path \cup {None}]
        /\ File \subseteq Ref
    BY <1>3, ReachedIs DEF OfFile, Ref, Planning, Plans
  <2>3. \A f \in File : s.old[f] # None => f = c.ref /\ Class(c.why) = "new"
    BY <1>0, WaitOver
  <2>4. Waits(t, recs, n + 1)
    <3>1. CASE Class(c.why) = "old"
      <4>1. \A f \in File : s.old[f] = None
        BY <2>3, <3>1
      <4>2. \A f \in File : t.old[f] # None => f = c.ref /\ t.old[f] = Reached(s, c)
        BY <2>1, <2>2, <3>1, <4>1 DEF Halves
      <4> QED BY <1>a, <2>1, <3>1, <4>2 DEF Waits
    <3>2. CASE Class(c.why) # "old"
      <4>1. \A f \in File : t.old[f] = None
        BY <2>1, <2>2, <2>3, <3>2 DEF Halves
      <4> QED BY <4>1 DEF Waits
    <3> QED BY <3>1, <3>2
  <2>5. ASSUME NEW p \in FilePath \ t.odd
        PROVE  /\ Untouched(recs, n + 1, p) => p \notin t.in /\ p \notin t.out
               /\ \A k \in 1 .. n + 1 : LastIn(recs, n + 1, k, p) => Fate(t, recs[k], p)
    <3>1. p \notin s.odd
      BY <2>1, <2>5
    <3>2. CASE p = c.at
      <4>1. Reached(s, c) = p
        BY <2>1, <2>5, <3>2
      <4>2. FileAt(c, p)
        BY <2>2, <3>2 DEF FileAt
      <4>3. ~Untouched(recs, n + 1, p)
        BY <1>a, <4>2 DEF Untouched
      <4>4. ASSUME NEW k \in 1 .. n + 1, LastIn(recs, n + 1, k, p) PROVE k = n + 1
        BY <1>a, <4>2, <4>4 DEF LastIn
      <4>5. Fate(t, c, p)
        <5>1. CASE Class(c.why) \in Arriving
          <6>1. Class(c.why) \notin Leaving /\ Comes(s, c) = IF Quarantined(p) THEN {} ELSE {p}
            BY <4>1, <5>1 DEF Comes, Arriving, Leaving
          <6> QED BY <2>1, <6>1 DEF Fate, Lands
        <5>2. CASE Class(c.why) = "delete"
          <6>1. Goes(s, c) = {p} /\ Comes(s, c) = {} /\ Class(c.why) \notin Arriving
            BY <4>1, <5>2 DEF Goes, Comes, Arriving
          <6> QED BY <2>1, <6>1 DEF Fate, Leaves
        <5>3. CASE Class(c.why) = "old"
          <6>1. t.old[c.ref] = p /\ Class(c.why) \notin Arriving
            BY <2>1, <2>2, <4>1, <5>3 DEF Halves, Arriving
          <6> QED BY <5>3, <6>1 DEF Fate
        <5> QED BY <1>3, <5>1, <5>2, <5>3 DEF OfFile, Leaving
      <4> QED BY <4>3, <4>4, <4>5
    <3>3. CASE p # c.at
      <4>1. Reached(s, c) # p /\ ~FileAt(c, p)
        BY <2>1, <2>5, <3>3 DEF FileAt
      <4>2. p \notin Comes(s, c)
        BY <4>1 DEF Comes
      <4>3. CASE p \in Goes(s, c)
        <5>1. Class(c.why) = "new" /\ s.old[c.ref] = p
          BY <4>1, <4>3 DEF Goes
        <5>2. n >= 1 /\ recs[n].ref = c.ref /\ Class(recs[n].why) = "old" /\ recs[n].at = p
          BY <1>0, <1>b, <2>2, <3>1, <5>1 DEF Waits
        <5>3. FileAt(recs[n], p) /\ n \in 1 .. n + 1
          BY <2>2, <5>2 DEF FileAt
        <5>4. ~Untouched(recs, n + 1, p)
          BY <5>3 DEF Untouched
        <5>5. ASSUME NEW k \in 1 .. n + 1, LastIn(recs, n + 1, k, p) PROVE k = n
          BY <4>1, <5>3, <5>5 DEF LastIn
        <5>6. Fate(t, recs[n], p)
          <6>1. Leaves(t, p) /\ Class(recs[n].why) \notin Arriving
            BY <2>1, <4>2, <4>3, <5>2 DEF Leaves, Arriving
          <6> QED BY <6>1 DEF Fate
        <5> QED BY <5>4, <5>5, <5>6
      <4>4. CASE p \notin Goes(s, c)
        <5>1. \A f \in File : s.old[f] # p
          <6>1. SUFFICES ASSUME NEW f \in File, s.old[f] = p PROVE FALSE
            OBVIOUS
          <6>2. f = c.ref /\ Class(c.why) = "new" /\ s.old[c.ref] # None
            BY <1>b, <2>3, <6>1
          <6>3. Goes(s, c) = {p}
            BY <6>1, <6>2 DEF Goes
          <6> QED BY <4>4, <6>3
        <5>2. (p \in t.in <=> p \in s.in) /\ (p \in t.out <=> p \in s.out) /\ (p \in t.last <=> p \in s.last)
          BY <2>1, <4>2, <4>4
        <5> QED BY <3>1, <4>1, <5>1, <5>2, FateKept DEF FileAt
      <4> QED BY <4>3, <4>4
    <3> QED BY <3>2, <3>3
  <2> QED BY <2>4, <2>5 DEF Fates
<1> QED BY <1>1, <1>2, <1>3

(* Records of a delta, in pairs where they are renames.                    *)
Delta(recs, n) ==
  /\ \A k \in 1 .. n : OfFile(recs[k]) \/ OfFolder(recs[k])
  /\ \A k \in 1 .. n - 1 : PairedAt(recs, k)

(* What a delta comes to.                                                  *)
LEMMA PlannedIs ==
  ASSUME NEW known, Cached(known), NEW recs, Len(recs) \in Nat, Delta(recs, Len(recs))
  PROVE  Planning(Planned(known, recs)) /\ Fates(Planned(known, recs), recs, Len(recs))
<1> DEFINE N == Len(recs)
<1> HIDE DEF FilePath, InFolder, Ref, N
<1>0. N \in Nat /\ Delta(recs, N)
  BY DEF N
<1>1. PICK after :
           /\ DOMAIN after = 0 .. N
           /\ after[0] = Unplanned(known)
           /\ \A n \in 1 .. N : after[n] = PlanOne(after[n - 1], recs[n])
           /\ Planned(known, recs) = after[N]
  BY PlanSteps, Zenon DEF N
<1> DEFINE S == {n \in Nat : n <= N => Planning(after[n]) /\ Fates(after[n], recs, n)}
<1>2. 0 \in S
  <2>1. Planning(after[0])
    BY <1>1, PlanningInit
  <2>2. Fates(after[0], recs, 0)
    <3>1. /\ \A f \in File : after[0].old[f] = None
          /\ after[0].in = {} /\ after[0].out = {}
      BY <1>1 DEF Unplanned, Ref
    <3>2. 1 .. 0 = {}
      OBVIOUS
    <3> QED BY <3>1, <3>2 DEF Fates, Waits
  <2> QED BY <2>1, <2>2
<1>3. ASSUME NEW n \in Nat, n \in S PROVE n + 1 \in S
  <2> SUFFICES ASSUME n + 1 <= N PROVE Planning(after[n + 1]) /\ Fates(after[n + 1], recs, n + 1)
    OBVIOUS
  <2>1. Planning(after[n]) /\ Fates(after[n], recs, n)
    BY <1>0, <1>3
  <2>2. n + 1 \in 1 .. N /\ (n + 1) - 1 = n /\ (n >= 1 => n \in 1 .. N - 1)
    BY <1>0
  <2>3. after[n + 1] = PlanOne(after[n], recs[n + 1])
    BY <1>1, <2>2
  <2>4. (OfFile(recs[n + 1]) \/ OfFolder(recs[n + 1])) /\ (n >= 1 => PairedAt(recs, n))
    BY <1>0, <2>2 DEF Delta
  <2>5. Planning(after[n + 1])
    BY <2>1, <2>3, <2>4, PlanningStep
  <2>6. Fates(after[n + 1], recs, n + 1)
    BY <2>1, <2>3, <2>4, FatesStep
  <2> QED BY <2>5, <2>6
<1>4. N \in S
  <2> HIDE DEF S
  <2>1. Nat \subseteq S
    BY <1>2, <1>3, Induct
  <2> QED BY <1>0, <2>1
<1>5. Planning(after[N]) /\ Fates(after[N], recs, N)
  BY <1>0, <1>4
<1> QED BY <1>1, <1>5 DEF N

(* The whole plan: what a path whose changes were understood comes to.     *)
Faithful(s, recs, n) ==
  \A p \in FilePath \ s.odd :
    /\ Untouched(recs, n, p) => p \notin s.in /\ p \notin s.out
    /\ \A k \in 1 .. n : LastIn(recs, n, k, p) =>
         IF Class(recs[k].why) \in Arriving THEN Lands(s, p) ELSE Leaves(s, p)

(* What a plan says of a path whose changes were understood.               *)
LEMMA PlanIs ==
  ASSUME NEW known, Cached(known), NEW recs, Len(recs) \in Nat, Delta(recs, Len(recs)),
         NEW t, t = Plan(known, recs)
  PROVE  /\ t \in Plans /\ Cached(t.known) /\ \A p \in t.in : ~Quarantined(p)
         /\ Faithful(t, recs, Len(recs))
<1> DEFINE s == Planned(known, recs)
           N == Len(recs)
           left == {s.old[r] : r \in Ref} \ {None}
<1> HIDE DEF FilePath, InFolder, Ref
<1>1. Planning(s) /\ Fates(s, recs, N)
  BY PlannedIs
<1>2. t = [s EXCEPT !.out = @ \cup left, !.last = @ \cup left]
  BY DEF Plan
<1> HIDE DEF s, N
<1>3. s \in Plans
  BY <1>1 DEF Planning
<1>4. left \subseteq Path
  BY <1>3 DEF Plans
<1>5. ASSUME NEW p \in FilePath, p \in left PROVE \E f \in File : s.old[f] = p
  <2>1. PICK r \in Ref : s.old[r] = p
    BY <1>5
  <2>2. r \notin Folder \cup {Root}
    <3>1. SUFFICES ASSUME r \in Folder \cup {Root} PROVE FALSE
      OBVIOUS
    <3>2. s.old[r] \in InFolder \cup {None}
      BY <1>1, <3>1 DEF Planning
    <3> QED BY <2>1, <3>2, FilePathIs, SomePath
  <2> QED BY <2>1, <2>2 DEF Ref
<1>6. ASSUME NEW f \in File, s.old[f] # None PROVE s.old[f] \in left
  <2>1. f \in Ref
    BY DEF Ref
  <2> QED BY <1>6, <2>1
<1> HIDE DEF left
<1>7. t \in Plans /\ t.known = s.known /\ t.old = s.old /\ t.out = s.out \cup left /\ t.in = s.in
      /\ t.last = s.last \cup left /\ t.odd = s.odd
  <2> HIDE DEF Path
  <2> QED BY <1>2, <1>3, <1>4 DEF Plans
<1>8. Cached(t.known) /\ \A p \in t.in : ~Quarantined(p)
  BY <1>1, <1>7 DEF Planning
<1>9. ASSUME NEW p \in FilePath \ t.odd, NEW f \in File, s.old[f] = p
      PROVE  N \in 1 .. N /\ LastIn(recs, N, N, p) /\ Class(recs[N].why) = "old"
  <2>1. N >= 1 /\ recs[N].ref = f /\ Class(recs[N].why) = "old" /\ recs[N].at = p
    BY <1>1, <1>7, <1>9, SomePath DEF Fates, Waits
  <2>2. N \in Nat
    BY DEF N
  <2> QED BY <2>1, <2>2 DEF LastIn, FileAt
<1>10. Faithful(t, recs, N)
  <2> SUFFICES ASSUME NEW p \in FilePath \ t.odd
               PROVE  /\ Untouched(recs, N, p) => p \notin t.in /\ p \notin t.out
                      /\ \A k \in 1 .. N : LastIn(recs, N, k, p) =>
                           IF Class(recs[k].why) \in Arriving THEN Lands(t, p) ELSE Leaves(t, p)
    BY DEF Faithful
  <2>1. /\ Untouched(recs, N, p) => p \notin s.in /\ p \notin s.out
        /\ \A k \in 1 .. N : LastIn(recs, N, k, p) => Fate(s, recs[k], p)
    BY <1>1, <1>7 DEF Fates
  <2>2. p \in left => ~Untouched(recs, N, p)
    BY <1>5, <1>9 DEF Untouched, LastIn
  <2>3. ASSUME NEW k \in 1 .. N, LastIn(recs, N, k, p)
        PROVE  IF Class(recs[k].why) \in Arriving THEN Lands(t, p) ELSE Leaves(t, p)
    <3>1. Fate(s, recs[k], p)
      BY <2>1, <2>3
    <3>2. p \in left => k = N /\ Class(recs[k].why) = "old"
      <4>1. SUFFICES ASSUME p \in left PROVE k = N /\ Class(recs[k].why) = "old"
        OBVIOUS
      <4>2. N \in 1 .. N /\ LastIn(recs, N, N, p) /\ Class(recs[N].why) = "old"
        BY <1>5, <1>9, <4>1
      <4>3. k = N
        BY <2>3, <4>2 DEF LastIn
      <4> QED BY <4>2, <4>3
    <3>3. recs[k].ref \in File
      BY <2>3 DEF LastIn, FileAt
    <3>4. Class(recs[k].why) \in Arriving \cup Leaving
      <4>1. OfFile(recs[k]) \/ OfFolder(recs[k])
        BY DEF Delta, N
      <4>2. ~OfFolder(recs[k])
        BY <3>3, Apart DEF OfFolder
      <4> QED BY <4>1, <4>2 DEF OfFile
    <3>5. CASE Class(recs[k].why) \in Arriving
      <4>1. p \notin left
        BY <3>2, <3>5 DEF Arriving
      <4> QED BY <1>7, <3>1, <3>5, <4>1 DEF Fate, Lands
    <3>6. CASE Class(recs[k].why) \notin Arriving
      <4>1. Class(recs[k].why) \in Leaving
        BY <3>4, <3>6
      <4>2. Leaves(s, p) \/ p \in left
        BY <1>6, <3>1, <3>3, <4>1, SomePath DEF Fate
      <4> QED BY <1>7, <3>6, <4>2 DEF Leaves
    <3> QED BY <3>5, <3>6
  <2> QED BY <1>7, <2>1, <2>2, <2>3
<1> QED BY <1>7, <1>8, <1>10 DEF N

(* Folders, paths and contents of a disk that need not be the present one. *)
HomeIn(fld, d) == IF d = Root THEN <<>> ELSE IF fld[d] = None THEN None ELSE <<fld[d]>>
PathIn(dsk, fld, f) == Append(HomeIn(fld, dsk[f].dir), dsk[f].name)
AtIn(dsk, fld, p) == {f \in File : dsk[f] # None /\ PathIn(dsk, fld, f) = p}
ProbeIn(dsk, fld, p) == IF AtIn(dsk, fld, p) = {} THEN None ELSE dsk[CHOOSE f \in AtIn(dsk, fld, p) : TRUE].ver
FoundIn(dsk, fld, p) == IF Quarantined(p) THEN None ELSE ProbeIn(dsk, fld, p)

(* The present one.                                                        *)
LEMMA Now ==
  /\ \A d : FolderPath(d) = HomeIn(folders, d)
  /\ \A f : PathOf(f) = PathIn(disk, folders, f)
  /\ \A p : At(p) = AtIn(disk, folders, p)
  /\ \A p : Probe(p) = ProbeIn(disk, folders, p)
  /\ \A p : Found(p) = FoundIn(disk, folders, p)
<1>1. ASSUME NEW d PROVE FolderPath(d) = HomeIn(folders, d)
  BY DEF FolderPath, HomeIn
<1>2. ASSUME NEW f PROVE PathOf(f) = PathIn(disk, folders, f)
  BY <1>1 DEF PathOf, PathIn
<1>3. ASSUME NEW p PROVE At(p) = AtIn(disk, folders, p)
  BY <1>2 DEF At, AtIn
<1>4. ASSUME NEW p PROVE Probe(p) = ProbeIn(disk, folders, p)
  <2>1. At(p) = AtIn(disk, folders, p)
    BY <1>3
  <2> DEFINE ProbeAt(S) == IF S = {} THEN None ELSE disk[CHOOSE f \in S : TRUE].ver
  <2>2. Probe(p) = ProbeAt(At(p)) /\ ProbeIn(disk, folders, p) = ProbeAt(AtIn(disk, folders, p))
    BY DEF Probe, ProbeIn
  <2> HIDE DEF ProbeAt
  <2> QED BY <2>1, <2>2
<1>5. ASSUME NEW p PROVE Found(p) = FoundIn(disk, folders, p)
  BY <1>4 DEF Found, FoundIn
<1> QED BY <1>1, <1>2, <1>3, <1>4, <1>5

(* A volume in order: no two folders of one name, no two files in one
   place, and every file in a folder that exists.                          *)
Ordered(dsk, fld) ==
  /\ dsk \in [File -> Entry \cup {None}]
  /\ fld \in [Folder -> FolderName \cup {None}]
  /\ \A d, e \in Folder : fld[d] # None /\ fld[d] = fld[e] => d = e
  /\ \A f \in File : dsk[f] # None => dsk[f].dir = Root \/ fld[dsk[f].dir] # None
  /\ \A f, g \in File : dsk[f] # None /\ dsk[g] # None /\ dsk[f].dir = dsk[g].dir /\ dsk[f].name = dsk[g].name => f = g

(* Tuples are equal if their parts are.                                    *)
LEMMA Tuples ==
  /\ \A a, b : <<a>> = <<b>> => a = b
  /\ \A a, b, c, d : <<a, b>> = <<c, d>> => a = c /\ b = d
  /\ \A a, b, c : <<a>> # <<b, c>>
  OBVIOUS

(* Names of two paths.                                                     *)
LEMMA AppendApart ==
  ASSUME NEW g \in InFolder \cup {<<>>}, NEW h \in InFolder \cup {<<>>},
         NEW m \in FileName, NEW n \in FileName, Append(g, m) = Append(h, n)
  PROVE  g = h /\ m = n
<1>1. \A x \in InFolder : \E k \in FolderName : x = <<k>>
  BY DEF InFolder
<1>4. Append(<<>>, m) = <<m>> /\ Append(<<>>, n) = <<n>>
  BY FilePathIs, Zenon
<1>5. CASE g = <<>> /\ h = <<>>
  <2>1. <<m>> = <<n>>
    BY <1>4, <1>5
  <2> QED BY <1>5, <2>1, Tuples
<1>6. CASE g \in InFolder /\ h \in InFolder
  <2>1. PICK a, b \in FolderName : g = <<a>> /\ h = <<b>>
    BY <1>1, <1>6
  <2>2. Append(g, m) = <<a, m>> /\ Append(h, n) = <<b, n>>
    BY <2>1, AppendOne, Zenon
  <2>3. a = b /\ m = n
    <3>1. <<a, m>> = <<b, n>>
      BY <2>2
    <3> QED BY <3>1, Tuples, Zenon
  <2> QED BY <2>1, <2>3
<1>7. CASE g = <<>> /\ h \in InFolder
  <2>1. PICK b \in FolderName : h = <<b>>
    BY <1>1, <1>7
  <2>2. Append(g, m) = <<m>> /\ Append(h, n) = <<b, n>>
    BY <1>4, <1>7, <2>1, AppendOne, Zenon
  <2>3. <<m>> = <<b, n>>
    BY <2>2
  <2> QED BY <2>3, Tuples, Zenon
<1>8. CASE g \in InFolder /\ h = <<>>
  <2>1. PICK b \in FolderName : g = <<b>>
    BY <1>1, <1>8
  <2>2. Append(h, n) = <<n>> /\ Append(g, m) = <<b, m>>
    BY <1>4, <1>8, <2>1, AppendOne, Zenon
  <2>3. <<n>> = <<b, m>>
    BY <2>2
  <2> QED BY <2>3, Tuples, Zenon
<1> QED BY <1>5, <1>6, <1>7, <1>8

(* Where a folder is.                                                      *)
LEMMA HomeIs ==
  ASSUME NEW fld \in [Folder -> FolderName \cup {None}], NEW d \in Folder \cup {Root}
  PROVE  /\ HomeIn(fld, d) = None <=> d # Root /\ fld[d] = None
         /\ HomeIn(fld, d) # None => HomeIn(fld, d) \in InFolder \cup {<<>>}
         /\ d = Root => HomeIn(fld, d) = <<>>
         /\ d # Root /\ fld[d] # None => HomeIn(fld, d) = <<fld[d]>> /\ HomeIn(fld, d) \in InFolder
<1>1. \A n \in FolderName : <<n>> \in InFolder /\ <<n>> # None
  BY SomePath DEF InFolder
<1> HIDE DEF InFolder
<1>2. <<>> # None
  BY SomePath
<1> QED BY <1>1, <1>2, Apart DEF HomeIn

(* Folders are told apart by their paths.                                  *)
LEMMA HomesApart ==
  ASSUME NEW fld \in [Folder -> FolderName \cup {None}],
         \A d, e \in Folder : fld[d] # None /\ fld[d] = fld[e] => d = e,
         NEW d \in Folder \cup {Root}, NEW e \in Folder \cup {Root},
         HomeIn(fld, d) # None, HomeIn(fld, d) = HomeIn(fld, e)
  PROVE  d = e
<1>1. CASE d = Root \/ e = Root
  <2>1. \A x \in Folder \cup {Root} : x # Root /\ fld[x] # None => HomeIn(fld, x) # <<>>
    BY HomeIs
  <2> QED BY <1>1, <2>1, HomeIs
<1>2. CASE d # Root /\ e # Root
  <2>1. HomeIn(fld, d) = <<fld[d]>> /\ HomeIn(fld, e) = <<fld[e]>> /\ fld[d] # None /\ fld[e] # None
    BY <1>2, HomeIs
  <2>2. fld[d] = fld[e]
    BY <2>1, Tuples
  <2> QED BY <1>2, <2>1, <2>2
<1> QED BY <1>1, <1>2

(* A file that exists is at some path of a file, and at its own only.      *)
LEMMA PathIs ==
  ASSUME NEW dsk, NEW fld, Ordered(dsk, fld), NEW f \in File, dsk[f] # None
  PROVE  /\ dsk[f] \in Entry
         /\ dsk[f].dir \in Folder \cup {Root} /\ dsk[f].name \in FileName /\ dsk[f].ver \in Version
         /\ HomeIn(fld, dsk[f].dir) \in InFolder \cup {<<>>}
         /\ PathIn(dsk, fld, f) \in FilePath
         /\ f \in AtIn(dsk, fld, PathIn(dsk, fld, f))
<1> HIDE DEF FilePath, InFolder
<1>1. dsk[f] \in Entry
  BY DEF Ordered
<1>2. dsk[f].dir \in Folder \cup {Root} /\ dsk[f].name \in FileName /\ dsk[f].ver \in Version
  BY <1>1 DEF Entry
<1>3. HomeIn(fld, dsk[f].dir) \in InFolder \cup {<<>>}
  BY <1>2, HomeIs DEF Ordered
<1>4. PathIn(dsk, fld, f) \in FilePath
  BY <1>2, <1>3, FilePathIs DEF PathIn
<1>5. f \in AtIn(dsk, fld, PathIn(dsk, fld, f))
  BY DEF AtIn
<1> QED BY <1>1, <1>2, <1>3, <1>4, <1>5

(* Two files are not at one path.                                          *)
LEMMA OneAt ==
  ASSUME NEW dsk, NEW fld, Ordered(dsk, fld), NEW p, NEW f \in AtIn(dsk, fld, p), NEW g \in AtIn(dsk, fld, p)
  PROVE  f = g
<1>1. /\ f \in File /\ g \in File /\ dsk[f] # None /\ dsk[g] # None
      /\ PathIn(dsk, fld, f) = PathIn(dsk, fld, g)
  BY DEF AtIn
<1> DEFINE d == dsk[f].dir
           e == dsk[g].dir
<1>2. /\ d \in Folder \cup {Root} /\ HomeIn(fld, d) \in InFolder \cup {<<>>} /\ dsk[f].name \in FileName
      /\ e \in Folder \cup {Root} /\ HomeIn(fld, e) \in InFolder \cup {<<>>} /\ dsk[g].name \in FileName
  BY <1>1, PathIs
<1>3. Append(HomeIn(fld, d), dsk[f].name) = Append(HomeIn(fld, e), dsk[g].name)
  BY <1>1 DEF PathIn
<1> HIDE DEF d, e
<1>4. HomeIn(fld, d) = HomeIn(fld, e) /\ dsk[f].name = dsk[g].name
  BY <1>2, <1>3, AppendApart
<1>5. d = e
  BY <1>2, <1>4, HomesApart, SomePath DEF Ordered
<1> QED BY <1>1, <1>4, <1>5 DEF Ordered, d, e

(* The probe finds the one file at a path.                                 *)
LEMMA ProbeOne ==
  ASSUME NEW dsk, NEW fld, Ordered(dsk, fld), NEW p, NEW f \in AtIn(dsk, fld, p)
  PROVE  ProbeIn(dsk, fld, p) = dsk[f].ver
<1>1. (CHOOSE g \in AtIn(dsk, fld, p) : TRUE) \in AtIn(dsk, fld, p)
  OBVIOUS
<1>2. (CHOOSE g \in AtIn(dsk, fld, p) : TRUE) = f
  BY <1>1, OneAt, Zenon
<1> QED BY <1>2 DEF ProbeIn

(* What the probe finds, and when it finds something.                      *)
LEMMA FoundIs ==
  ASSUME NEW dsk, NEW fld, Ordered(dsk, fld), NEW p
  PROVE  /\ ProbeIn(dsk, fld, p) \in Version \cup {None}
         /\ ProbeIn(dsk, fld, p) = None <=> AtIn(dsk, fld, p) = {}
         /\ FoundIn(dsk, fld, p) \in Version \cup {None}
         /\ Quarantined(p) => FoundIn(dsk, fld, p) = None
         /\ ~Quarantined(p) => FoundIn(dsk, fld, p) = ProbeIn(dsk, fld, p)
<1>1. CASE AtIn(dsk, fld, p) = {}
  BY <1>1 DEF ProbeIn, FoundIn
<1>2. CASE AtIn(dsk, fld, p) # {}
  <2>1. PICK f \in AtIn(dsk, fld, p) : TRUE
    BY <1>2
  <2>2. ProbeIn(dsk, fld, p) = dsk[f].ver /\ f \in File /\ dsk[f] # None
    BY <2>1, ProbeOne DEF AtIn
  <2>3. dsk[f].ver \in Version /\ None \notin Version
    BY <2>2, PathIs, Apart
  <2> QED BY <1>2, <2>2, <2>3 DEF FoundIn
<1> QED BY <1>1, <1>2

(* A path at which the same file is found with the same content.           *)
LEMMA FoundSame ==
  ASSUME NEW dsk, NEW fld, NEW dskN, NEW fldN, NEW p,
         AtIn(dskN, fldN, p) = AtIn(dsk, fld, p),
         \A f \in AtIn(dsk, fld, p) : dskN[f].ver = dsk[f].ver
  PROVE  FoundIn(dskN, fldN, p) = FoundIn(dsk, fld, p)
<1>1. CASE AtIn(dsk, fld, p) = {}
  BY <1>1 DEF FoundIn, ProbeIn
<1>2. CASE AtIn(dsk, fld, p) # {}
  <2>1. (CHOOSE g \in AtIn(dsk, fld, p) : TRUE) \in AtIn(dsk, fld, p)
    BY <1>2
  <2> QED BY <1>2, <2>1 DEF FoundIn, ProbeIn
<1> QED BY <1>1, <1>2

(* The same, with the folders as they are.                                 *)
LEMMA FoundStays ==
  ASSUME NEW dsk, NEW fld, NEW dskN, NEW p,
         AtIn(dskN, fld, p) = AtIn(dsk, fld, p),
         \A f \in AtIn(dsk, fld, p) : dskN[f].ver = dsk[f].ver
  PROVE  FoundIn(dskN, fld, p) = FoundIn(dsk, fld, p)
  BY FoundSame

(* A file comes to a place that is free, or was its own.                   *)
LEMMA Put ==
  ASSUME NEW dsk, NEW fld, Ordered(dsk, fld), NEW f \in File,
         NEW dskN, dskN \in [File -> Entry \cup {None}], \A g \in File : g # f => dskN[g] = dsk[g],
         dskN[f] \in Entry, dskN[f].dir = Root \/ fld[dskN[f].dir] # None,
         AtIn(dsk, fld, PathIn(dskN, fld, f)) \subseteq {f}
  PROVE  /\ Ordered(dskN, fld) /\ PathIn(dskN, fld, f) \in FilePath
         /\ AtIn(dskN, fld, PathIn(dskN, fld, f)) = {f}
         /\ \A p : p # PathIn(dskN, fld, f) => AtIn(dskN, fld, p) = AtIn(dsk, fld, p) \ {f}
         /\ \A p : p # PathIn(dskN, fld, f) /\ f \notin AtIn(dsk, fld, p) =>
              FoundIn(dskN, fld, p) = FoundIn(dsk, fld, p)
<1> DEFINE e  == dskN[f]
           to == PathIn(dskN, fld, f)
<1> HIDE DEF FilePath, InFolder, Entry
<1>0. to = Append(HomeIn(fld, e.dir), e.name) /\ AtIn(dsk, fld, to) \subseteq {f} /\ e \in Entry
      /\ (e.dir = Root \/ fld[e.dir] # None)
  BY DEF PathIn
<1>1. /\ dskN[f] = e /\ dskN \in [File -> Entry \cup {None}] /\ \A g \in File : g # f => dskN[g] = dsk[g]
      /\ e # None
  BY Apart DEF Ordered
<1>5. to = PathIn(dskN, fld, f)
  OBVIOUS
<1> HIDE DEF e, to
<1>2. e.dir \in Folder \cup {Root} /\ e.name \in FileName
  BY <1>0 DEF Entry
<1>3. HomeIn(fld, e.dir) \in InFolder \cup {<<>>}
  BY <1>0, <1>2, HomeIs DEF Ordered
<1>4. to \in FilePath
  BY <1>0, <1>2, <1>3, FilePathIs
<1>13. PathIn(dskN, fld, f) = to /\ \A g \in File : g # f => PathIn(dskN, fld, g) = PathIn(dsk, fld, g)
  BY <1>1, <1>5 DEF PathIn
<1>6. ASSUME NEW g \in File, g # f, dsk[g] # None PROVE PathIn(dsk, fld, g) # to
  BY <1>0, <1>6 DEF AtIn
<1>7. ASSUME NEW g \in File, g # f, dsk[g] # None, dsk[g].dir = e.dir, dsk[g].name = e.name PROVE FALSE
  BY <1>0, <1>6, <1>7 DEF PathIn
<1>8. Ordered(dskN, fld)
  <2>1. \A g \in File : dskN[g] # None => dskN[g].dir = Root \/ fld[dskN[g].dir] # None
    BY <1>0, <1>1 DEF Ordered
  <2>2. ASSUME NEW g \in File, NEW h \in File, dskN[g] # None, dskN[h] # None,
               dskN[g].dir = dskN[h].dir, dskN[g].name = dskN[h].name
        PROVE  g = h
    <3>1. CASE g = f \/ h = f
      BY <1>1, <1>7, <2>2, <3>1
    <3>2. CASE g # f /\ h # f
      BY <1>1, <2>2, <3>2 DEF Ordered
    <3> QED BY <3>1, <3>2
  <2> QED BY <1>1, <2>1, <2>2 DEF Ordered
<1>9. AtIn(dskN, fld, to) = {f}
  <2>1. \A g \in File : g # f /\ dskN[g] # None => PathIn(dskN, fld, g) # to
    BY <1>1, <1>13, <1>6
  <2> QED BY <1>1, <1>13, <2>1 DEF AtIn
<1>10. ASSUME NEW p, p # to PROVE AtIn(dskN, fld, p) = AtIn(dsk, fld, p) \ {f}
  BY <1>1, <1>13, <1>10 DEF AtIn
<1>11. ASSUME NEW p, p # to, f \notin AtIn(dsk, fld, p) PROVE FoundIn(dskN, fld, p) = FoundIn(dsk, fld, p)
  <2>1. AtIn(dskN, fld, p) = AtIn(dsk, fld, p)
    BY <1>10, <1>11
  <2>2. \A g \in AtIn(dsk, fld, p) : dskN[g].ver = dsk[g].ver
    BY <1>1, <1>11 DEF AtIn
  <2> QED BY ONLY <2>1, <2>2, FoundStays
<1> QED BY <1>4, <1>5, <1>8, <1>9, <1>10, <1>11

(* A file goes.                                                            *)
LEMMA Away ==
  ASSUME NEW dsk, NEW fld, Ordered(dsk, fld), NEW f \in File,
         NEW dskN \in [File -> Entry \cup {None}], dskN[f] = None, \A g \in File : g # f => dskN[g] = dsk[g]
  PROVE  /\ Ordered(dskN, fld)
         /\ \A p : AtIn(dskN, fld, p) = AtIn(dsk, fld, p) \ {f}
         /\ \A p : f \notin AtIn(dsk, fld, p) => FoundIn(dskN, fld, p) = FoundIn(dsk, fld, p)
<1> HIDE DEF Entry
<1>1. dskN[f] = None /\ dskN \in [File -> Entry \cup {None}] /\ \A g \in File : g # f => dskN[g] = dsk[g]
  BY DEF Ordered
<1>2. Ordered(dskN, fld)
  BY <1>1 DEF Ordered
<1>3. \A g \in File : g # f => PathIn(dskN, fld, g) = PathIn(dsk, fld, g)
  BY <1>1 DEF PathIn
<1>4. ASSUME NEW p PROVE AtIn(dskN, fld, p) = AtIn(dsk, fld, p) \ {f}
  BY <1>1, <1>3 DEF AtIn
<1>5. ASSUME NEW p, f \notin AtIn(dsk, fld, p) PROVE FoundIn(dskN, fld, p) = FoundIn(dsk, fld, p)
  <2>1. AtIn(dskN, fld, p) = AtIn(dsk, fld, p)
    BY <1>4, <1>5
  <2>2. \A g \in AtIn(dsk, fld, p) : dskN[g].ver = dsk[g].ver
    BY <1>1, <1>5 DEF AtIn
  <2> QED BY ONLY <2>1, <2>2, FoundStays
<1> QED BY <1>2, <1>4, <1>5

-----------------------------------------------------------------------------
Reasons == {"create", "write", "close", "delete", "old", "new"}

Records == [ref : Ref, why : SUBSET Reasons, parent : Ref, name : FileName \cup FolderName, at : Path]

(* Records as NTFS writes them.                                            *)
Written(recs) ==
  /\ recs \in Seq(Records)
  /\ \A k \in 1 .. Len(recs) : OfFile(recs[k]) \/ OfFolder(recs[k])
  /\ \A k \in 1 .. Len(recs) : recs[k].ref \in File /\ Class(recs[k].why) = "old" =>
       /\ k + 1 \in 1 .. Len(recs)
       /\ recs[k + 1].ref = recs[k].ref /\ Class(recs[k + 1].why) = "new"

(* What an operation of the user has to do with the journal: paths it says
   nothing of are as they were, unless they are doubtful; of others the last
   record says whether there is a file now; a scan may have missed it.     *)
Told(recs, dsk, fld, dskN, fldN, doubts) ==
  \A p \in FilePath \ doubts :
    /\ Untouched(recs, Len(recs), p) =>
         /\ FoundIn(dskN, fldN, p) = FoundIn(dsk, fld, p)
         /\ AtIn(dskN, fldN, p) = {} <=> AtIn(dsk, fld, p) = {}
    /\ \A k \in 1 .. Len(recs) : LastIn(recs, Len(recs), k, p) =>
         (Class(recs[k].why) \in Arriving <=> AtIn(dskN, fldN, p) # {})
    /\ ~Untouched(recs, Len(recs), p) => scan = None

Volume ==
  /\ Ordered(disk, folders)
  /\ open \in [File -> {{}, {"create"}}]

Logs(recs) ==
  /\ Written(recs) /\ Len(recs) \in {1, 2}
  /\ next < MaxRecords /\ next' = next + Len(recs)
  /\ unread' = IF cursor = None THEN <<>> ELSE unread \o recs
  /\ UNCHANGED <<low, jid, cursor, rows, index, cache, mon, scan, faults, ghost>>
  /\ doubtful \subseteq doubtful' /\ doubtful' \subseteq doubtful \cup FilePath
  /\ Volume'
  /\ Told(recs, disk, folders, disk', folders', doubtful')

(* One record, or the two of a rename.                                     *)
LEMMA OneRecord ==
  ASSUME NEW c \in Records, OfFile(c) \/ OfFolder(c), ~(c.ref \in File /\ Class(c.why) = "old")
  PROVE  /\ Written(<<c>>) /\ Len(<<c>>) = 1
         /\ \A p : Untouched(<<c>>, 1, p) <=> ~FileAt(c, p)
         /\ \A p : \A k \in 1 .. 1 : LastIn(<<c>>, 1, k, p) <=> FileAt(c, p)
<1> DEFINE recs == <<c>>
<1>1. recs \in Seq(Records) /\ Len(recs) = 1 /\ recs[1] = c
  OBVIOUS
<1>2. 1 .. 1 = {1}
  OBVIOUS
<1> HIDE DEF recs
<1>3. Written(recs)
  BY <1>1, <1>2 DEF Written
<1>4. ASSUME NEW p PROVE /\ Untouched(recs, 1, p) <=> ~FileAt(c, p)
                         /\ \A k \in 1 .. 1 : LastIn(recs, 1, k, p) <=> FileAt(c, p)
  BY <1>1, <1>2 DEF Untouched, LastIn
<1> QED BY <1>1, <1>3, <1>4 DEF recs

(* The two records of a rename.                                            *)
LEMMA TwoRecords ==
  ASSUME NEW b \in Records, NEW c \in Records, OfFile(b) \/ OfFolder(b), OfFile(c) \/ OfFolder(c),
         b.ref = c.ref, Class(b.why) = "old", Class(c.why) = "new"
  PROVE  /\ Written(<<b, c>>) /\ Len(<<b, c>>) = 2
         /\ \A p : Untouched(<<b, c>>, 2, p) <=> ~FileAt(b, p) /\ ~FileAt(c, p)
         /\ \A p : LastIn(<<b, c>>, 2, 2, p) <=> FileAt(c, p)
         /\ \A p : LastIn(<<b, c>>, 2, 1, p) <=> FileAt(b, p) /\ ~FileAt(c, p)
         /\ <<b, c>>[1] = b /\ <<b, c>>[2] = c
<1> DEFINE recs == <<b, c>>
<1>1. recs \in Seq(Records) /\ Len(recs) = 2 /\ recs[1] = b /\ recs[2] = c
  OBVIOUS
<1>2. 1 .. 2 = {1, 2} /\ 1 + 1 = 2
  OBVIOUS
<1> HIDE DEF recs
<1>3. Written(recs)
  BY <1>1, <1>2 DEF Written
<1>4. ASSUME NEW p PROVE Untouched(recs, 2, p) <=> ~FileAt(b, p) /\ ~FileAt(c, p)
  BY <1>1, <1>2 DEF Untouched
<1>5. ASSUME NEW p PROVE LastIn(recs, 2, 2, p) <=> FileAt(c, p)
  BY <1>1, <1>2 DEF LastIn
<1>6. ASSUME NEW p PROVE LastIn(recs, 2, 1, p) <=> FileAt(b, p) /\ ~FileAt(c, p)
  BY <1>1, <1>2 DEF LastIn
<1> QED BY <1>1, <1>3, <1>4, <1>5, <1>6 DEF recs

(* A record of an existing file.                                           *)
LEMMA FileRecord ==
  ASSUME NEW f \in File, NEW why \in SUBSET Reasons, Class(why) \in Arriving \cup Leaving,
         NEW d \in Folder \cup {Root}, NEW n \in FileName, NEW p \in FilePath,
         NEW c, c = Record(f, why, d, n, p)
  PROVE  /\ c \in Records /\ OfFile(c)
         /\ c.ref = f /\ c.why = why /\ c.at = p
         /\ \A q : FileAt(c, q) <=> q = p
<1> HIDE DEF FilePath
<1>1. c = [ref |-> f, why |-> why, parent |-> d, name |-> n, at |-> p]
  BY DEF Record
<1>2. f \in Ref /\ d \in Ref /\ p \in Path
  BY FilePathIs DEF Ref
<1> HIDE DEF Path, Ref, Reasons
<1>3. c \in Records
  BY <1>1, <1>2 DEF Records
<1>4. c.ref = f /\ c.why = why /\ c.parent = d /\ c.name = n /\ c.at = p
  BY <1>1
<1> QED BY <1>3, <1>4 DEF OfFile, FileAt

(* A record of a folder.                                                   *)
LEMMA FolderRecord ==
  ASSUME NEW d \in Folder, NEW why \in SUBSET Reasons, NEW n \in FolderName,
         NEW c, c = Record(d, why, Root, n, <<n>>)
  PROVE  /\ c \in Records /\ OfFolder(c)
         /\ c.ref = d /\ c.why = why
         /\ \A q : ~FileAt(c, q)
<1> HIDE DEF FilePath
<1>1. c = [ref |-> d, why |-> why, parent |-> Root, name |-> n, at |-> <<n>>]
  BY DEF Record
<1>2. d \in Ref /\ Root \in Ref /\ <<n>> \in Path
  BY FilePathIs DEF Ref, InFolder
<1> HIDE DEF Path, Ref, Reasons
<1>3. c \in Records
  BY <1>1, <1>2 DEF Records
<1>4. c.ref = d /\ c.why = why /\ c.parent = Root /\ c.name = n /\ c.at = <<n>>
  BY <1>1
<1> QED BY <1>3, <1>4, Apart DEF OfFolder, FileAt

(* Paths that a change of one folder does not concern.                     *)
LEMMA FoundBelow ==
  ASSUME NEW dsk, NEW fld, NEW fldN, NEW p, AtIn(dsk, fldN, p) = AtIn(dsk, fld, p)
  PROVE  FoundIn(dsk, fldN, p) = FoundIn(dsk, fld, p)
<1>1. \A f \in AtIn(dsk, fld, p) : dsk[f].ver = dsk[f].ver
  OBVIOUS
<1> QED BY <1>1, FoundSame

(* Paths of no file in the folder stay as they are.                        *)
LEMMA Elsewhere ==
  ASSUME NEW dsk, NEW fld, Ordered(dsk, fld), NEW d \in Folder,
         NEW fldN, \A e \in Folder : e # d => fldN[e] = fld[e], NEW p,
         \A g \in File : dsk[g] # None /\ dsk[g].dir = d => PathIn(dsk, fld, g) # p /\ PathIn(dsk, fldN, g) # p
  PROVE  AtIn(dsk, fldN, p) = AtIn(dsk, fld, p) /\ FoundIn(dsk, fldN, p) = FoundIn(dsk, fld, p)
<1> HIDE DEF Entry
<1>1. ASSUME NEW g \in File, dsk[g] # None PROVE PathIn(dsk, fldN, g) = p <=> PathIn(dsk, fld, g) = p
  <2>1. CASE dsk[g].dir = d
    BY <1>1, <2>1
  <2>2. CASE dsk[g].dir # d
    <3>1. dsk[g].dir \in Folder \cup {Root}
      BY <1>1, PathIs
    <3>2. HomeIn(fldN, dsk[g].dir) = HomeIn(fld, dsk[g].dir)
      BY <2>2, <3>1 DEF HomeIn
    <3> QED BY <3>2 DEF PathIn
  <2> QED BY <2>1, <2>2
<1>2. AtIn(dsk, fldN, p) = AtIn(dsk, fld, p)
  BY <1>1 DEF AtIn
<1> QED BY <1>2, FoundBelow

(* A new file.                                                             *)
LEMMA CreateFileLogs ==
  ASSUME Volume, NEW f \in File, NEW d \in Folder \cup {Root}, NEW n \in FileName, CreateFile(f, d, n)
  PROVE  \E recs : Logs(recs)
<1> DEFINE to == Append(HomeIn(folders, d), n)
           c == Record(f, {"create"}, d, n, to)
           recs == <<c>>
<1> HIDE DEF FilePath, Entry, Records, Path
<1>1. /\ disk[f] = None /\ HomeIn(folders, d) # None /\ AtIn(disk, folders, to) = {}
      /\ disk' = [disk EXCEPT ![f] = [dir |-> d, name |-> n, ver |-> 1]] /\ folders' = folders
      /\ next < MaxRecords /\ next' = next + Len(recs)
      /\ unread' = IF cursor = None THEN <<>> ELSE unread \o recs
      /\ open' = [open EXCEPT ![f] = IF "close" \in Last(recs).why THEN {} ELSE Last(recs).why]
      /\ doubtful' = doubtful \cup Crossed({to})
      /\ UNCHANGED <<low, jid, cursor, rows, index, cache, mon, scan, faults, ghost>>
  BY Now DEF CreateFile, Log, Write, UserFile, store
<1> HIDE DEF recs
<1>2. [dir |-> d, name |-> n, ver |-> 1] \in Entry
  BY Apart DEF Entry, Version
<1>3. d = Root \/ folders[d] # None
  BY <1>1, HomeIs DEF Volume, Ordered
<1>4. /\ Ordered(disk', folders) /\ to \in FilePath
      /\ AtIn(disk', folders, to) = {f}
      /\ \A p : p # to => AtIn(disk', folders, p) = AtIn(disk, folders, p) \ {f}
      /\ \A p : p # to /\ f \notin AtIn(disk, folders, p) => FoundIn(disk', folders, p) = FoundIn(disk, folders, p)
  <2>1. /\ disk' \in [File -> Entry \cup {None}] /\ disk'[f] = [dir |-> d, name |-> n, ver |-> 1]
        /\ \A g \in File : g # f => disk'[g] = disk[g]
    BY <1>1, <1>2 DEF Ordered, Volume
  <2>2. disk'[f] \in Entry /\ (disk'[f].dir = Root \/ folders[disk'[f].dir] # None)
    BY <1>2, <1>3, <2>1
  <2>3. PathIn(disk', folders, f) = to
    BY <2>1 DEF PathIn
  <2>4. AtIn(disk, folders, PathIn(disk', folders, f)) \subseteq {f} /\ Ordered(disk, folders)
    BY <1>1, <2>3 DEF Volume
  <2> HIDE DEF to
  <2> QED BY <2>1, <2>2, <2>3, <2>4, Put
<1> HIDE DEF to
<1>5. \A p : f \notin AtIn(disk, folders, p)
  BY <1>1 DEF AtIn
<1>6. Class({"create"}) = "create" /\ {"create"} \in SUBSET Reasons
  BY ClassIs DEF Reasons
<1>7. /\ c \in Records /\ OfFile(c) /\ c.ref = f /\ c.why = {"create"} /\ c.at = to
      /\ \A q : FileAt(c, q) <=> q = to
  BY <1>4, <1>6, FileRecord DEF Arriving
<1> HIDE DEF c
<1>8. /\ Written(recs) /\ Len(recs) = 1
      /\ \A p : Untouched(recs, 1, p) <=> p # to
      /\ \A p : \A k \in 1 .. 1 : LastIn(recs, 1, k, p) <=> p = to
      /\ recs[1] = c /\ Last(recs) = c
  BY <1>6, <1>7, OneRecord DEF recs, Last
<1>9. Volume'
  <2>1. Ordered(disk', folders')
    BY <1>1, <1>4
  <2>2. open' \in [File -> {{}, {"create"}}]
    BY <1>1, <1>7, <1>8 DEF Volume
  <2> QED BY <2>1, <2>2 DEF Volume
<1>10. Told(recs, disk, folders, disk', folders', doubtful')
  <2> SUFFICES ASSUME NEW p \in FilePath \ doubtful'
               PROVE  /\ Untouched(recs, 1, p) =>
                           /\ FoundIn(disk', folders, p) = FoundIn(disk, folders, p)
                           /\ AtIn(disk', folders, p) = {} <=> AtIn(disk, folders, p) = {}
                      /\ \A k \in 1 .. 1 : LastIn(recs, 1, k, p) =>
                           (Class(recs[k].why) \in Arriving <=> AtIn(disk', folders, p) # {})
                      /\ ~Untouched(recs, 1, p) => scan = None
    BY <1>1, <1>8 DEF Told
  <2>1. p = to => scan = None
    BY <1>1 DEF Crossed
  <2>2. \A k \in 1 .. 1 : Class(recs[k].why) \in Arriving
    BY <1>6, <1>7, <1>8 DEF Arriving
  <2> QED BY <1>4, <1>5, <1>8, <2>1, <2>2
<1>11. doubtful \subseteq doubtful' /\ doubtful' \subseteq doubtful \cup FilePath
  BY <1>1, <1>4 DEF Crossed
<1>12. Logs(recs)
  BY <1>1, <1>8, <1>9, <1>10, <1>11 DEF Logs
<1> QED BY <1>12

(* An operation that leaves the places of the files alone, or takes one.   *)
LEMMA WriteFileLogs ==
  ASSUME Volume, NEW f \in File, WriteFile(f)
  PROVE  \E recs : Logs(recs)
<1> DEFINE e == disk[f]
           at == PathIn(disk, folders, f)
           why == open[f] \cup {"write", "close"}
           c == Record(f, why, e.dir, e.name, at)
           recs == <<c>>
<1> HIDE DEF FilePath, Entry, Records, Path
<1>1. /\ disk[f] # None /\ disk[f].ver < MaxVersion
      /\ disk' = [disk EXCEPT ![f].ver = @ + 1] /\ folders' = folders
      /\ next < MaxRecords /\ next' = next + Len(recs)
      /\ unread' = IF cursor = None THEN <<>> ELSE unread \o recs
      /\ open' = [open EXCEPT ![f] = IF "close" \in Last(recs).why THEN {} ELSE Last(recs).why]
      /\ doubtful' = doubtful \cup Crossed({at})
      /\ UNCHANGED <<low, jid, cursor, rows, index, cache, mon, scan, faults, ghost>>
  BY Now DEF WriteFile, Log, Write, UserFile, store
<1> HIDE DEF recs
<1>2. /\ e \in Entry /\ e.dir \in Folder \cup {Root} /\ e.name \in FileName /\ e.ver \in Version
      /\ at \in FilePath /\ f \in AtIn(disk, folders, at)
      /\ (e.dir = Root \/ folders[e.dir] # None)
  BY <1>1, PathIs DEF Volume, Ordered
<1>3. /\ disk' \in [File -> Entry \cup {None}] /\ disk'[f] \in Entry
      /\ disk'[f].dir = e.dir /\ disk'[f].name = e.name
      /\ \A g \in File : g # f => disk'[g] = disk[g]
  <2>1. e.ver + 1 \in Version
    BY <1>1, <1>2, Apart DEF Version
  <2>2. [e EXCEPT !.ver = @ + 1] \in Entry /\ [e EXCEPT !.ver = @ + 1].dir = e.dir /\ [e EXCEPT !.ver = @ + 1].name = e.name
    BY <1>2, <2>1 DEF Entry
  <2>3. disk' = [disk EXCEPT ![f] = [e EXCEPT !.ver = @ + 1]] /\ disk \in [File -> Entry \cup {None}]
    BY <1>1 DEF Volume, Ordered
  <2>4. disk'[f] = [e EXCEPT !.ver = @ + 1]
    BY <2>3
  <2>5. disk' \in [File -> Entry \cup {None}] /\ \A g \in File : g # f => disk'[g] = disk[g]
    BY <2>2, <2>3
  <2> HIDE DEF e
  <2> QED BY <2>2, <2>4, <2>5
<1>4. /\ Ordered(disk', folders)
      /\ AtIn(disk', folders, at) = {f}
      /\ \A p : p # at => AtIn(disk', folders, p) = AtIn(disk, folders, p) \ {f}
      /\ \A p : p # at /\ f \notin AtIn(disk, folders, p) => FoundIn(disk', folders, p) = FoundIn(disk, folders, p)
  <2>1. PathIn(disk', folders, f) = at
    BY <1>3 DEF PathIn
  <2>2. AtIn(disk, folders, PathIn(disk', folders, f)) \subseteq {f} /\ Ordered(disk, folders)
    BY <1>2, <2>1, OneAt DEF Volume
  <2>3. disk'[f].dir = Root \/ folders[disk'[f].dir] # None
    BY <1>2, <1>3
  <2> HIDE DEF at
  <2> QED BY <1>3, <2>1, <2>2, <2>3, Put
<1>5. \A p : p # at => f \notin AtIn(disk, folders, p)
  BY DEF AtIn
<1> HIDE DEF at, e
<1>6. Class(why) \in Arriving /\ why \in SUBSET Reasons /\ "close" \in why
  <2>1. open[f] \in {{}, {"create"}}
    BY DEF Volume
  <2> QED BY <2>1, ClassIs DEF Reasons, Arriving
<1> HIDE DEF why
<1>7. /\ c \in Records /\ OfFile(c) /\ c.ref = f /\ c.why = why /\ c.at = at
      /\ \A q : FileAt(c, q) <=> q = at
  BY <1>2, <1>6, FileRecord
<1> HIDE DEF c
<1>8. /\ Written(recs) /\ Len(recs) = 1
      /\ \A p : Untouched(recs, 1, p) <=> p # at
      /\ \A p : \A k \in 1 .. 1 : LastIn(recs, 1, k, p) <=> p = at
      /\ recs[1] = c /\ Last(recs) = c
  BY <1>6, <1>7, OneRecord DEF recs, Last, Arriving
<1>9. Volume'
  <2>1. Ordered(disk', folders')
    BY <1>1, <1>4
  <2>2. open' \in [File -> {{}, {"create"}}]
    BY <1>1, <1>6, <1>7, <1>8 DEF Volume
  <2> QED BY <2>1, <2>2 DEF Volume
<1>10. Told(recs, disk, folders, disk', folders', doubtful')
  <2> SUFFICES ASSUME NEW p \in FilePath \ doubtful'
               PROVE  /\ Untouched(recs, 1, p) =>
                           /\ FoundIn(disk', folders, p) = FoundIn(disk, folders, p)
                           /\ AtIn(disk', folders, p) = {} <=> AtIn(disk, folders, p) = {}
                      /\ \A k \in 1 .. 1 : LastIn(recs, 1, k, p) =>
                           (Class(recs[k].why) \in Arriving <=> AtIn(disk', folders, p) # {})
                      /\ ~Untouched(recs, 1, p) => scan = None
    BY <1>1, <1>8 DEF Told
  <2>1. p = at => scan = None
    BY <1>1 DEF Crossed
  <2>2. \A k \in 1 .. 1 : Class(recs[k].why) \in Arriving
    BY <1>6, <1>7, <1>8
  <2> QED BY <1>4, <1>5, <1>8, <2>1, <2>2
<1>11. doubtful \subseteq doubtful' /\ doubtful' \subseteq doubtful \cup FilePath
  BY <1>1, <1>2 DEF Crossed
<1>12. Logs(recs)
  BY <1>1, <1>8, <1>9, <1>10, <1>11 DEF Logs
<1> QED BY <1>12

(* A file that is deleted.                                                 *)
LEMMA DeleteFileLogs ==
  ASSUME Volume, NEW f \in File, DeleteFile(f)
  PROVE  \E recs : Logs(recs)
<1> DEFINE e == disk[f]
           at == PathIn(disk, folders, f)
           why == open[f] \cup {"delete", "close"}
           c == Record(f, why, e.dir, e.name, at)
           recs == <<c>>
<1> HIDE DEF FilePath, Entry, Records, Path
<1>1. /\ disk[f] # None
      /\ disk' = [disk EXCEPT ![f] = None] /\ folders' = folders
      /\ next < MaxRecords /\ next' = next + Len(recs)
      /\ unread' = IF cursor = None THEN <<>> ELSE unread \o recs
      /\ open' = [open EXCEPT ![f] = IF "close" \in Last(recs).why THEN {} ELSE Last(recs).why]
      /\ doubtful' = doubtful \cup Crossed({at})
      /\ UNCHANGED <<low, jid, cursor, rows, index, cache, mon, scan, faults, ghost>>
  BY Now DEF DeleteFile, Log, Write, UserFile, store
<1> HIDE DEF recs
<1>2. /\ e.dir \in Folder \cup {Root} /\ e.name \in FileName
      /\ at \in FilePath /\ f \in AtIn(disk, folders, at)
  BY <1>1, PathIs DEF Volume
<1>4. /\ Ordered(disk', folders)
      /\ \A p : AtIn(disk', folders, p) = AtIn(disk, folders, p) \ {f}
      /\ \A p : f \notin AtIn(disk, folders, p) => FoundIn(disk', folders, p) = FoundIn(disk, folders, p)
  <2>1. /\ disk' \in [File -> Entry \cup {None}] /\ disk'[f] = None
        /\ \A g \in File : g # f => disk'[g] = disk[g]
    BY <1>1 DEF Volume, Ordered
  <2> QED BY <2>1, Away DEF Volume
<1>5. \A p : p # at => f \notin AtIn(disk, folders, p)
  BY DEF AtIn
<1>3. AtIn(disk, folders, at) = {f}
  BY <1>2, OneAt DEF Volume
<1> HIDE DEF at, e
<1>6. Class(why) = "delete" /\ why \in SUBSET Reasons /\ "close" \in why
  <2>1. open[f] \in {{}, {"create"}}
    BY DEF Volume
  <2> QED BY <2>1, ClassIs DEF Reasons
<1> HIDE DEF why
<1>7. /\ c \in Records /\ OfFile(c) /\ c.ref = f /\ c.why = why /\ c.at = at
      /\ \A q : FileAt(c, q) <=> q = at
  BY <1>2, <1>6, FileRecord DEF Leaving
<1> HIDE DEF c
<1>8. /\ Written(recs) /\ Len(recs) = 1
      /\ \A p : Untouched(recs, 1, p) <=> p # at
      /\ \A p : \A k \in 1 .. 1 : LastIn(recs, 1, k, p) <=> p = at
      /\ recs[1] = c /\ Last(recs) = c
  BY <1>6, <1>7, OneRecord DEF recs, Last
<1>9. Volume'
  <2>1. Ordered(disk', folders')
    BY <1>1, <1>4
  <2>2. open' \in [File -> {{}, {"create"}}]
    BY <1>1, <1>6, <1>7, <1>8 DEF Volume
  <2> QED BY <2>1, <2>2 DEF Volume
<1>10. Told(recs, disk, folders, disk', folders', doubtful')
  <2> SUFFICES ASSUME NEW p \in FilePath \ doubtful'
               PROVE  /\ Untouched(recs, 1, p) =>
                           /\ FoundIn(disk', folders, p) = FoundIn(disk, folders, p)
                           /\ AtIn(disk', folders, p) = {} <=> AtIn(disk, folders, p) = {}
                      /\ \A k \in 1 .. 1 : LastIn(recs, 1, k, p) =>
                           (Class(recs[k].why) \in Arriving <=> AtIn(disk', folders, p) # {})
                      /\ ~Untouched(recs, 1, p) => scan = None
    BY <1>1, <1>8 DEF Told
  <2>1. p = at => scan = None
    BY <1>1 DEF Crossed
  <2>2. \A k \in 1 .. 1 : Class(recs[k].why) \notin Arriving
    BY <1>6, <1>7, <1>8 DEF Arriving
  <2>3. p = at => AtIn(disk', folders, p) = {}
    BY <1>4, <1>3
  <2>4. p # at => AtIn(disk', folders, p) = AtIn(disk, folders, p)
    BY <1>4, <1>5
  <2>5. p # at => FoundIn(disk', folders, p) = FoundIn(disk, folders, p)
    BY <1>4, <1>5
  <2> QED BY <1>8, <2>1, <2>2, <2>3, <2>4, <2>5
<1>11. doubtful \subseteq doubtful' /\ doubtful' \subseteq doubtful \cup FilePath
  BY <1>1, <1>2 DEF Crossed
<1>12. Logs(recs)
  BY <1>1, <1>8, <1>9, <1>10, <1>11 DEF Logs
<1> QED BY <1>12

(* A file that gets another path.                                          *)
LEMMA MoveFileLogs ==
  ASSUME Volume, NEW f \in File, NEW d \in Folder \cup {Root}, NEW n \in FileName, MoveFile(f, d, n)
  PROVE  \E recs : Logs(recs)
<1> DEFINE e == disk[f]
           from == PathIn(disk, folders, f)
           to == Append(HomeIn(folders, d), n)
           what == open[f] \cup {"old"}
           why == open[f] \cup {"new", "close"}
           b == Record(f, what, e.dir, e.name, from)
           c == Record(f, why, d, n, to)
           recs == <<b, c>>
<1> HIDE DEF FilePath, Entry, Records, Path
<1>1. /\ disk[f] # None /\ HomeIn(folders, d) # None /\ AtIn(disk, folders, to) = {}
      /\ disk' = [disk EXCEPT ![f].dir = d, ![f].name = n] /\ folders' = folders
      /\ next < MaxRecords /\ next' = next + Len(recs)
      /\ unread' = IF cursor = None THEN <<>> ELSE unread \o recs
      /\ open' = [open EXCEPT ![f] = IF "close" \in Last(recs).why THEN {} ELSE Last(recs).why]
      /\ doubtful' = doubtful \cup Crossed({from, to})
      /\ UNCHANGED <<low, jid, cursor, rows, index, cache, mon, scan, faults, ghost>>
  BY Now DEF MoveFile, Log, Write, UserFile, store
<1> HIDE DEF recs
<1>2. /\ e \in Entry /\ e.dir \in Folder \cup {Root} /\ e.name \in FileName /\ e.ver \in Version
      /\ from \in FilePath /\ f \in AtIn(disk, folders, from)
  BY <1>1, PathIs DEF Volume
<1>3. /\ disk' \in [File -> Entry \cup {None}] /\ disk'[f] \in Entry
      /\ disk'[f].dir = d /\ disk'[f].name = n
      /\ \A g \in File : g # f => disk'[g] = disk[g]
  <2>1. [e EXCEPT !.dir = d, !.name = n] \in Entry
    BY <1>2 DEF Entry
  <2>2. [e EXCEPT !.dir = d, !.name = n].dir = d /\ [e EXCEPT !.dir = d, !.name = n].name = n
    BY <1>2 DEF Entry
  <2>3. disk' = [disk EXCEPT ![f] = [e EXCEPT !.dir = d, !.name = n]] /\ disk \in [File -> Entry \cup {None}]
    BY <1>1 DEF Volume, Ordered
  <2>4. disk'[f] = [e EXCEPT !.dir = d, !.name = n]
    BY <2>3
  <2>5. disk' \in [File -> Entry \cup {None}] /\ \A g \in File : g # f => disk'[g] = disk[g]
    BY <2>1, <2>3
  <2> HIDE DEF e
  <2> QED BY <2>1, <2>2, <2>4, <2>5
<1>4. /\ Ordered(disk', folders) /\ to \in FilePath
      /\ AtIn(disk', folders, to) = {f}
      /\ \A p : p # to => AtIn(disk', folders, p) = AtIn(disk, folders, p) \ {f}
      /\ \A p : p # to /\ f \notin AtIn(disk, folders, p) => FoundIn(disk', folders, p) = FoundIn(disk, folders, p)
  <2>1. PathIn(disk', folders, f) = to
    BY <1>3 DEF PathIn
  <2>2. AtIn(disk, folders, PathIn(disk', folders, f)) \subseteq {f} /\ Ordered(disk, folders)
    BY <1>1, <2>1 DEF Volume
  <2>3. disk'[f].dir = Root \/ folders[disk'[f].dir] # None
    BY <1>1, <1>3, HomeIs DEF Volume, Ordered
  <2> HIDE DEF to
  <2> QED BY <1>3, <2>1, <2>2, <2>3, Put
<1>5. \A p : p # from => f \notin AtIn(disk, folders, p)
  BY DEF AtIn
<1>6. AtIn(disk, folders, from) = {f}
  BY <1>2, OneAt DEF Volume
<1>7. from # to
  BY <1>1, <1>6
<1> HIDE DEF from, to
<1>8. /\ Class(what) = "old" /\ what \in SUBSET Reasons
      /\ Class(why) = "new" /\ why \in SUBSET Reasons /\ "close" \in why
  <2>1. open[f] \in {{}, {"create"}}
    BY DEF Volume
  <2> QED BY <2>1, ClassIs DEF Reasons
<1> HIDE DEF what, why, e
<1>9. /\ b \in Records /\ OfFile(b) /\ b.ref = f /\ b.why = what /\ b.at = from
      /\ \A q : FileAt(b, q) <=> q = from
  BY <1>2, <1>8, FileRecord DEF Leaving
<1>10. /\ c \in Records /\ OfFile(c) /\ c.ref = f /\ c.why = why /\ c.at = to
       /\ \A q : FileAt(c, q) <=> q = to
  BY <1>4, <1>8, FileRecord DEF Arriving
<1> HIDE DEF b, c
<1>11. /\ Written(recs) /\ Len(recs) = 2
       /\ \A p : Untouched(recs, 2, p) <=> p # from /\ p # to
       /\ \A p : LastIn(recs, 2, 2, p) <=> p = to
       /\ \A p : LastIn(recs, 2, 1, p) <=> p = from
       /\ recs[1] = b /\ recs[2] = c /\ Last(recs) = c
  BY <1>7, <1>8, <1>9, <1>10, TwoRecords DEF recs, Last
<1>12. Volume'
  <2>1. Ordered(disk', folders')
    BY <1>1, <1>4
  <2>2. open' \in [File -> {{}, {"create"}}]
    BY <1>1, <1>8, <1>10, <1>11 DEF Volume
  <2> QED BY <2>1, <2>2 DEF Volume
<1>13. Told(recs, disk, folders, disk', folders', doubtful')
  <2> SUFFICES ASSUME NEW p \in FilePath \ doubtful'
               PROVE  /\ Untouched(recs, 2, p) =>
                           /\ FoundIn(disk', folders, p) = FoundIn(disk, folders, p)
                           /\ AtIn(disk', folders, p) = {} <=> AtIn(disk, folders, p) = {}
                      /\ \A k \in 1 .. 2 : LastIn(recs, 2, k, p) =>
                           (Class(recs[k].why) \in Arriving <=> AtIn(disk', folders, p) # {})
                      /\ ~Untouched(recs, 2, p) => scan = None
    BY <1>1, <1>11 DEF Told
  <2>1. p = from \/ p = to => scan = None
    BY <1>1 DEF Crossed
  <2>2. Class(recs[1].why) \notin Arriving /\ Class(recs[2].why) \in Arriving
    BY <1>8, <1>9, <1>10, <1>11 DEF Arriving
  <2>3. p = from => AtIn(disk', folders, p) = {}
    BY <1>4, <1>6, <1>7
  <2>4. p # from /\ p # to => AtIn(disk', folders, p) = AtIn(disk, folders, p)
    BY <1>4, <1>5
  <2>5. p # from /\ p # to => FoundIn(disk', folders, p) = FoundIn(disk, folders, p)
    BY <1>4, <1>5
  <2>6. p = to => AtIn(disk', folders, p) # {}
    BY <1>4
  <2>7. 1 .. 2 = {1, 2}
    OBVIOUS
  <2> QED BY <1>11, <2>1, <2>2, <2>3, <2>4, <2>5, <2>6, <2>7
<1>14. doubtful \subseteq doubtful' /\ doubtful' \subseteq doubtful \cup FilePath
  BY <1>1, <1>2, <1>4 DEF Crossed
<1>15. Logs(recs)
  BY <1>1, <1>11, <1>12, <1>13, <1>14 DEF Logs
<1> QED BY <1>15

(* What folders do is told if the paths that are not doubtful stay.        *)
LEMMA FoldersTold ==
  ASSUME NEW recs, NEW fldN, NEW doubts, \A k \in 1 .. Len(recs) : \A q : ~FileAt(recs[k], q),
         \A p \in FilePath \ doubts : /\ AtIn(disk, fldN, p) = AtIn(disk, folders, p)
                                      /\ FoundIn(disk, fldN, p) = FoundIn(disk, folders, p)
  PROVE  Told(recs, disk, folders, disk, fldN, doubts)
<1> HIDE DEF FilePath
<1>1. \A p : Untouched(recs, Len(recs), p)
  BY DEF Untouched
<1>2. \A p : \A k \in 1 .. Len(recs) : ~LastIn(recs, Len(recs), k, p)
  BY DEF LastIn
<1> QED BY <1>1, <1>2 DEF Told

(* A new folder is empty,                                                  *)
LEMMA CreateFolderLogs ==
  ASSUME Volume, NEW d \in Folder, NEW n \in FolderName, CreateFolder(d, n)
  PROVE  \E recs : Logs(recs)
<1> DEFINE c == Record(d, {"create", "close"}, Root, n, <<n>>)
           recs == <<c>>
<1> HIDE DEF FilePath, Entry, Records, Path
<1>1. /\ folders[d] = None /\ \A e \in Folder : folders[e] # n
      /\ folders' = [folders EXCEPT ![d] = n] /\ disk' = disk /\ open' = open
      /\ next < MaxRecords /\ next' = next + Len(recs)
      /\ unread' = IF cursor = None THEN <<>> ELSE unread \o recs
      /\ doubtful' = doubtful
      /\ UNCHANGED <<low, jid, cursor, rows, index, cache, mon, scan, faults, ghost>>
  BY DEF CreateFolder, Write, UserFolder, store
<1> HIDE DEF recs
<1>2. {"create", "close"} \in SUBSET Reasons /\ Class({"create", "close"}) = "create"
  BY ClassIs DEF Reasons
<1>3. c \in Records /\ OfFolder(c) /\ c.ref = d /\ \A q : ~FileAt(c, q)
  BY <1>2, FolderRecord
<1> HIDE DEF c
<1>4. Written(recs) /\ Len(recs) = 1 /\ recs[1] = c
  <2>1. d \notin File
    BY Apart
  <2> QED BY <1>3, <2>1, OneRecord DEF recs
<1>5. Ordered(disk, folders) /\ n # None
  BY Apart DEF Volume
<1>6. Ordered(disk, folders')
  <2>1. folders' \in [Folder -> FolderName \cup {None}] /\ folders'[d] = n
        /\ \A e \in Folder : e # d => folders'[e] = folders[e]
    BY <1>1, <1>5 DEF Ordered
  <2>2. \A a, e \in Folder : folders'[a] # None /\ folders'[a] = folders'[e] => a = e
    BY <1>1, <1>5, <2>1 DEF Ordered
  <2>3. ASSUME NEW g \in File, disk[g] # None PROVE disk[g].dir = Root \/ folders'[disk[g].dir] # None
    <3>1. disk[g].dir \in Folder \cup {Root} /\ (disk[g].dir = Root \/ folders[disk[g].dir] # None)
      BY <1>5, <2>3, PathIs DEF Ordered
    <3> QED BY <1>5, <2>1, <3>1
  <2> QED BY <1>5, <2>1, <2>2, <2>3 DEF Ordered
<1>7. ASSUME NEW p
      PROVE  AtIn(disk, folders', p) = AtIn(disk, folders, p) /\ FoundIn(disk, folders', p) = FoundIn(disk, folders, p)
  <2>1. \A g \in File : disk[g] # None => disk[g].dir # d
    BY <1>1, <1>5, Apart DEF Ordered
  <2>2. \A e \in Folder : e # d => folders'[e] = folders[e]
    BY <1>1, <1>5 DEF Ordered
  <2> QED BY <1>5, <2>1, <2>2, Elsewhere
<1>8. Told(recs, disk, folders, disk', folders', doubtful')
  <2>1. \A k \in 1 .. Len(recs) : \A q : ~FileAt(recs[k], q)
    BY <1>3, <1>4
  <2>2. Told(recs, disk, folders, disk, folders', doubtful')
    BY <1>7, <2>1, FoldersTold
  <2> QED BY <1>1, <2>2
<1>9. Volume'
  BY <1>1, <1>6 DEF Volume
<1>10. Logs(recs)
  BY <1>1, <1>4, <1>8, <1>9 DEF Logs
<1> QED BY <1>10

(* and so is one that is removed.                                          *)
LEMMA RemoveFolderLogs ==
  ASSUME Volume, NEW d \in Folder, RemoveFolder(d)
  PROVE  \E recs : Logs(recs)
<1> DEFINE n == folders[d]
           c == Record(d, {"delete", "close"}, Root, n, <<n>>)
           recs == <<c>>
<1> HIDE DEF FilePath, Entry, Records, Path
<1>1. /\ n # None /\ \A g \in File : disk[g] # None => disk[g].dir # d
      /\ folders' = [folders EXCEPT ![d] = None] /\ disk' = disk /\ open' = open
      /\ next < MaxRecords /\ next' = next + Len(recs)
      /\ unread' = IF cursor = None THEN <<>> ELSE unread \o recs
      /\ doubtful' = doubtful
      /\ UNCHANGED <<low, jid, cursor, rows, index, cache, mon, scan, faults, ghost>>
  BY DEF RemoveFolder, Write, UserFolder, store
<1> HIDE DEF recs
<1>2. {"delete", "close"} \in SUBSET Reasons /\ n \in FolderName
  BY <1>1 DEF Reasons, Volume, Ordered
<1>3. c \in Records /\ OfFolder(c) /\ c.ref = d /\ \A q : ~FileAt(c, q)
  <2> HIDE DEF n
  <2> QED BY <1>2, FolderRecord
<1> HIDE DEF c
<1>4. Written(recs) /\ Len(recs) = 1 /\ recs[1] = c
  <2>1. d \notin File
    BY Apart
  <2> QED BY <1>3, <2>1, OneRecord DEF recs
<1>5. Ordered(disk, folders)
  BY DEF Volume
<1>6. Ordered(disk, folders')
  <2>1. folders' \in [Folder -> FolderName \cup {None}] /\ folders'[d] = None
        /\ \A e \in Folder : e # d => folders'[e] = folders[e]
    BY <1>1, <1>5 DEF Ordered
  <2>2. \A a, e \in Folder : folders'[a] # None /\ folders'[a] = folders'[e] => a = e
    BY <1>1, <1>5, <2>1 DEF Ordered
  <2>3. ASSUME NEW g \in File, disk[g] # None PROVE disk[g].dir = Root \/ folders'[disk[g].dir] # None
    <3>1. disk[g].dir \in Folder \cup {Root} /\ (disk[g].dir = Root \/ folders[disk[g].dir] # None)
      BY <1>5, <2>3, PathIs DEF Ordered
    <3> QED BY <1>1, <2>1, <2>3, <3>1
  <2> QED BY <1>5, <2>1, <2>2, <2>3 DEF Ordered
<1>7. ASSUME NEW p
      PROVE  AtIn(disk, folders', p) = AtIn(disk, folders, p) /\ FoundIn(disk, folders', p) = FoundIn(disk, folders, p)
  <2>1. \A e \in Folder : e # d => folders'[e] = folders[e]
    BY <1>1, <1>5 DEF Ordered
  <2>2. \A g \in File : disk[g] # None => disk[g].dir # d
    BY <1>1
  <2> QED BY <1>5, <2>1, <2>2, Elsewhere
<1>8. Told(recs, disk, folders, disk', folders', doubtful')
  <2>1. \A k \in 1 .. Len(recs) : \A q : ~FileAt(recs[k], q)
    BY <1>3, <1>4
  <2>2. Told(recs, disk, folders, disk, folders', doubtful')
    BY <1>7, <2>1, FoldersTold
  <2> QED BY <1>1, <2>2
<1>9. Volume'
  BY <1>1, <1>6 DEF Volume
<1>10. Logs(recs)
  BY <1>1, <1>4, <1>8, <1>9 DEF Logs
<1> QED BY <1>10

(* The files below a folder get other paths, all of them doubtful.         *)
LEMMA RenameFolderLogs ==
  ASSUME Volume, NEW d \in Folder, NEW n \in FolderName, RenameFolder(d, n)
  PROVE  \E recs : Logs(recs)
<1> DEFINE m == folders[d]
           b == Record(d, {"old"}, Root, m, <<m>>)
           c == Record(d, {"new", "close"}, Root, n, <<n>>)
           recs == <<b, c>>
<1> HIDE DEF FilePath, Entry, Records, Path
<1>1. /\ m # None /\ \A e \in Folder : folders[e] # n
      /\ folders' = [folders EXCEPT ![d] = n] /\ disk' = disk /\ open' = open
      /\ next < MaxRecords /\ next' = next + Len(recs)
      /\ unread' = IF cursor = None THEN <<>> ELSE unread \o recs
      /\ doubtful' = doubtful \cup {p \in FilePath : p[1] \in {m, n}}
      /\ UNCHANGED <<low, jid, cursor, rows, index, cache, mon, scan, faults, ghost>>
  BY DEF RenameFolder, Write, UserFolder, store
<1> HIDE DEF recs
<1>2. /\ {"old"} \in SUBSET Reasons /\ Class({"old"}) = "old"
      /\ {"new", "close"} \in SUBSET Reasons /\ Class({"new", "close"}) = "new"
      /\ m \in FolderName
  BY <1>1, ClassIs DEF Reasons, Volume, Ordered
<1>3. b \in Records /\ OfFolder(b) /\ b.ref = d /\ b.why = {"old"} /\ \A q : ~FileAt(b, q)
  <2> HIDE DEF m
  <2> QED BY <1>2, FolderRecord
<1>4. c \in Records /\ OfFolder(c) /\ c.ref = d /\ c.why = {"new", "close"} /\ \A q : ~FileAt(c, q)
  BY <1>2, FolderRecord
<1> HIDE DEF b, c
<1>5. Written(recs) /\ Len(recs) = 2 /\ recs[1] = b /\ recs[2] = c
  BY <1>2, <1>3, <1>4, TwoRecords DEF recs
<1>6. Ordered(disk, folders) /\ n # None
  BY Apart DEF Volume
<1>7. folders' \in [Folder -> FolderName \cup {None}] /\ folders'[d] = n
      /\ \A e \in Folder : e # d => folders'[e] = folders[e]
  BY <1>1, <1>6 DEF Ordered
<1>8. Ordered(disk, folders')
  <2>1. \A a, e \in Folder : folders'[a] # None /\ folders'[a] = folders'[e] => a = e
    BY <1>1, <1>6, <1>7 DEF Ordered
  <2>2. ASSUME NEW g \in File, disk[g] # None PROVE disk[g].dir = Root \/ folders'[disk[g].dir] # None
    <3>1. disk[g].dir \in Folder \cup {Root} /\ (disk[g].dir = Root \/ folders[disk[g].dir] # None)
      BY <1>6, <2>2, PathIs DEF Ordered
    <3> QED BY <1>6, <1>7, <3>1
  <2> QED BY <1>6, <1>7, <2>1, <2>2 DEF Ordered
<1>9. ASSUME NEW fld, Ordered(disk, fld), fld[d] # None, NEW g \in File, disk[g] # None, disk[g].dir = d
      PROVE  PathIn(disk, fld, g)[1] = fld[d]
  <2>1. PathIn(disk, fld, g) = Append(<<fld[d]>>, disk[g].name)
    BY <1>9, Apart DEF PathIn, HomeIn
  <2>2. Append(<<fld[d]>>, disk[g].name) = <<fld[d], disk[g].name>>
    BY AppendOne
  <2> QED BY <2>1, <2>2
<1>10. ASSUME NEW p \in FilePath \ doubtful'
       PROVE  AtIn(disk, folders', p) = AtIn(disk, folders, p) /\ FoundIn(disk, folders', p) = FoundIn(disk, folders, p)
  <2>1. p[1] # m /\ p[1] # n
    BY <1>1
  <2>2. ASSUME NEW g \in File, disk[g] # None, disk[g].dir = d
        PROVE  PathIn(disk, folders, g) # p /\ PathIn(disk, folders', g) # p
    <3>1. PathIn(disk, folders, g)[1] = m
      BY <1>1, <1>6, <1>9, <2>2
    <3>2. PathIn(disk, folders', g)[1] = n
      BY <1>6, <1>7, <1>8, <1>9, <2>2
    <3> QED BY <2>1, <3>1, <3>2
  <2> QED BY <1>6, <1>7, <2>2, Elsewhere
<1>11. Told(recs, disk, folders, disk', folders', doubtful')
  <2>1. \A k \in 1 .. Len(recs) : \A q : ~FileAt(recs[k], q)
    BY <1>3, <1>4, <1>5
  <2>2. Told(recs, disk, folders, disk, folders', doubtful')
    BY <1>10, <2>1, FoldersTold
  <2> QED BY <1>1, <2>2
<1>12. Volume'
  BY <1>1, <1>8 DEF Volume
<1>13. Logs(recs)
  BY <1>1, <1>5, <1>11, <1>12 DEF Logs
<1> QED BY <1>13

-----------------------------------------------------------------------------
(* The inductive invariant.                                                *)

Working == {"apply", "prune", "commit"}

(* What the monitor's thread holds.                                        *)
Holds ==
  \/ mon = Idle
  \/ /\ mon.pc = "read"
     /\ mon \in [pc : {"read"}, end : 0 .. MaxRecords + 2, at : 0 .. MaxRecords + 2]
  \/ /\ mon.pc \in Working
     /\ mon = [pc |-> mon.pc, to |-> mon.to, out |-> mon.out, in |-> mon.in]
     /\ mon.to \in Cursors /\ mon.out \subseteq Path
     /\ DOMAIN mon.in \subseteq Path
     /\ \A p \in DOMAIN mon.in : mon.in[p] \in Version \cup {Empty}

Counts ==
  /\ faults \in 0 .. MaxFaults /\ jid \in 1 .. faults + 1
  /\ next \in 0 .. MaxRecords + 1 /\ low \in 0 .. next

Stored ==
  /\ cursor \in Cursors \cup {None} /\ Cached(cache)
  /\ rows \in [Path -> Content] /\ index \in [Path -> Content]
  /\ scan \in [Path -> Content] \cup {None}
  /\ ghost \subseteq Path /\ doubtful \subseteq Path

(* The last record of a path says whether there is a file now.             *)
Journalled ==
  \A p \in FilePath \ doubtful : \A k \in 1 .. Len(unread) :
    LastIn(unread, Len(unread), k, p) =>
      (Class(unread[k].why) \in Arriving <=> AtIn(disk, folders, p) # {})

(* The cursor is in the present journal.                                   *)
Synced == cursor # None /\ cursor.jid = jid

(* Which records are unread, and where the monitor is among them.          *)
Control ==
  /\ cursor = None => unread = <<>> /\ mon = Idle
  /\ scan # None => cursor = None /\ \A p \in FilePath \ doubtful : scan[p] = FoundIn(disk, folders, p)
  /\ cursor # None => cursor.jid <= jid
  /\ Synced => cursor.next + Len(unread) = next
  /\ Synced /\ mon.pc = "read" => mon.at \in cursor.next .. next
  /\ mon.pc \in Working => mon.to.jid = cursor.jid /\ (Synced => mon.to.next \in cursor.next .. next)

Unseen ==
  /\ \A p \in Path : Quarantined(p) => index[p] = None /\ rows[p] = None /\ (scan # None => scan[p] = None)
  /\ mon.pc \in Working => \A p \in DOMAIN mon.in : ~Quarantined(p)

(* No record behind the first m is about a path.                           *)
Clear(recs, m, p) == \A k \in m + 1 .. Len(recs) : ~FileAt(recs[k], p)

(* An entry and a row that agree with what is found.                       *)
Good(v, p, found, gh)   == v = found \/ (p \in gh /\ found = None)
Backed(r, p, found, gh) == p \in gh \/ r = None \/ found # None

(* The entry and the row of a path behind the delta that is applied.       *)
Then(m, idx, p) ==
  IF m.pc # "apply" THEN idx[p]
  ELSE IF p \in DOMAIN m.in THEN m.in[p]
  ELSE IF p \in m.out THEN None
  ELSE idx[p]
RowThen(m, rws, p) == IF m.pc \in {"apply", "prune"} /\ p \in m.out THEN None ELSE rws[p]

(* A path that no unread record is about is right in index and rows; one   *)
(* that no record behind the delta is about will be.                       *)
Kept ==
  Synced => \A p \in FilePath \ doubtful :
    /\ Clear(unread, 0, p) => Good(index[p], p, FoundIn(disk, folders, p), ghost)
                              /\ Backed(rows[p], p, FoundIn(disk, folders, p), ghost)
    /\ mon.pc \in Working /\ Clear(unread, mon.to.next - cursor.next, p) =>
         Good(Then(mon, index, p), p, FoundIn(disk, folders, p), ghost)
         /\ Backed(RowThen(mon, rows, p), p, FoundIn(disk, folders, p), ghost)

IInv == /\ Holds /\ Counts /\ Stored /\ Written(unread)
        /\ Volume /\ Journalled /\ Control /\ Unseen /\ Kept

-----------------------------------------------------------------------------
(* Records that are appended.                                              *)
Joined(a, b, c) == c = a \o b

(* What is known of them.                                                  *)
LEMMA Appended ==
  ASSUME NEW a, NEW b, Written(a), Written(b), NEW c, Joined(a, b, c)
  PROVE  /\ Written(c) /\ Len(c) = Len(a) + Len(b) /\ Len(a) \in Nat /\ Len(b) \in Nat
         /\ \A p, m : m \in 0 .. Len(a) /\ Clear(c, m, p) => Clear(a, m, p) /\ Untouched(b, Len(b), p)
         /\ \A p : \A k \in 1 .. Len(c) : LastIn(c, Len(c), k, p) =>
              \/ k \in 1 .. Len(a) /\ c[k] = a[k] /\ LastIn(a, Len(a), k, p) /\ Untouched(b, Len(b), p)
              \/ k - Len(a) \in 1 .. Len(b) /\ c[k] = b[k - Len(a)] /\ LastIn(b, Len(b), k - Len(a), p)
                 /\ ~Untouched(b, Len(b), p)
<1> DEFINE L == Len(a)
           N == Len(b)
<1>1. /\ c \in Seq(Records) /\ L \in Nat /\ N \in Nat /\ Len(c) = L + N
      /\ \A k \in 1 .. L : c[k] = a[k]
      /\ \A k \in L + 1 .. L + N : c[k] = b[k - L]
  <2>1. a \in Seq(Records) /\ b \in Seq(Records)
    BY DEF Written
  <2> QED BY <2>1, ConcatProperties DEF Joined
<1>2. \A k \in 1 .. N : L + k \in L + 1 .. L + N /\ (L + k) - L = k /\ c[L + k] = b[k]
  <2>1. \A k \in 1 .. N : L + k \in L + 1 .. L + N /\ (L + k) - L = k
    BY <1>1
  <2> QED BY <1>1, <2>1
<1>3. \A k \in 1 .. L + N : k \in 1 .. L \/ (k \in L + 1 .. L + N /\ k - L \in 1 .. N)
  BY <1>1
<1>4. Written(c)
  <2>1. ASSUME NEW k \in 1 .. Len(c)
        PROVE  /\ OfFile(c[k]) \/ OfFolder(c[k])
               /\ c[k].ref \in File /\ Class(c[k].why) = "old" =>
                    /\ k + 1 \in 1 .. Len(c)
                    /\ c[k + 1].ref = c[k].ref /\ Class(c[k + 1].why) = "new"
    <3>1. CASE k \in 1 .. L
      <4>1. /\ OfFile(a[k]) \/ OfFolder(a[k])
            /\ a[k].ref \in File /\ Class(a[k].why) = "old" =>
                 k + 1 \in 1 .. L /\ a[k + 1].ref = a[k].ref /\ Class(a[k + 1].why) = "new"
        BY <3>1 DEF Written
      <4>2. c[k] = a[k] /\ (k + 1 \in 1 .. L => k + 1 \in 1 .. Len(c) /\ c[k + 1] = a[k + 1])
        BY <1>1, <3>1
      <4> QED BY <4>1, <4>2
    <3>2. CASE k \in L + 1 .. L + N /\ k - L \in 1 .. N
      <4> DEFINE j == k - L
      <4>1. /\ OfFile(b[j]) \/ OfFolder(b[j])
            /\ b[j].ref \in File /\ Class(b[j].why) = "old" =>
                 j + 1 \in 1 .. N /\ b[j + 1].ref = b[j].ref /\ Class(b[j + 1].why) = "new"
        BY <3>2 DEF Written
      <4>2. c[k] = b[j] /\ (j + 1 \in 1 .. N => k + 1 \in 1 .. Len(c) /\ c[k + 1] = b[j + 1])
        <5>1. k + 1 = L + (j + 1) /\ k = L + j
          BY <1>1
        <5>2. j + 1 \in 1 .. N => L + (j + 1) \in 1 .. L + N
          BY <1>1
        <5> QED BY <1>1, <1>2, <3>2, <5>1, <5>2
      <4> HIDE DEF j
      <4> QED BY <4>1, <4>2
    <3> QED BY <1>1, <1>3, <3>1, <3>2
  <2> QED BY <1>1, <2>1 DEF Written
<1>5. ASSUME NEW p, NEW m \in 0 .. L, Clear(c, m, p) PROVE Clear(a, m, p) /\ Untouched(b, N, p)
  <2>1. ASSUME NEW k \in m + 1 .. L PROVE ~FileAt(a[k], p)
    <3>1. k \in m + 1 .. Len(c) /\ k \in 1 .. L
      BY <1>1
    <3> QED BY <1>1, <1>5, <3>1 DEF Clear
  <2>2. ASSUME NEW k \in 1 .. N PROVE ~FileAt(b[k], p)
    <3>1. L + k \in m + 1 .. Len(c)
      BY <1>1
    <3> QED BY <1>2, <1>5, <3>1 DEF Clear
  <2> QED BY <2>1, <2>2 DEF Clear, Untouched
<1>6. ASSUME NEW p, NEW k \in 1 .. Len(c), LastIn(c, Len(c), k, p)
      PROVE  \/ k \in 1 .. L /\ c[k] = a[k] /\ LastIn(a, L, k, p) /\ Untouched(b, N, p)
             \/ k - L \in 1 .. N /\ c[k] = b[k - L] /\ LastIn(b, N, k - L, p) /\ ~Untouched(b, N, p)
  <2>1. FileAt(c[k], p) /\ \A j \in 1 .. L + N : j > k => ~FileAt(c[j], p)
    BY <1>1, <1>6 DEF LastIn
  <2>2. CASE k \in 1 .. L
    <3>1. ASSUME NEW j \in 1 .. L, j > k PROVE ~FileAt(a[j], p)
      <4>1. j \in 1 .. L + N
        BY <1>1
      <4> QED BY <1>1, <2>1, <3>1, <4>1
    <3>2. ASSUME NEW j \in 1 .. N PROVE ~FileAt(b[j], p)
      <4>1. L + j \in 1 .. L + N /\ L + j > k
        BY <1>1, <2>2
      <4> QED BY <1>2, <2>1, <4>1
    <3> QED BY <1>1, <2>1, <2>2, <3>1, <3>2 DEF LastIn, Untouched
  <2>3. CASE k \in L + 1 .. L + N /\ k - L \in 1 .. N
    <3>1. c[k] = b[k - L]
      BY <1>1, <2>3
    <3>2. ASSUME NEW j \in 1 .. N, j > k - L PROVE ~FileAt(b[j], p)
      <4>1. L + j \in 1 .. L + N /\ L + j > k
        BY <1>1, <2>3, <3>2
      <4> QED BY <1>2, <2>1, <4>1
    <3> QED BY <2>1, <2>3, <3>1, <3>2 DEF LastIn, Untouched
  <2> QED BY <1>1, <1>3, <2>2, <2>3
<1> QED BY <1>1, <1>4, <1>5, <1>6

(* What the user does keeps the invariant.                                 *)
LEMMA LogsKeep == ASSUME IInv, NEW recs, Logs(recs) PROVE IInv'
<1> DEFINE L == Len(unread)
           N == Len(recs)
           Here(p) == FoundIn(disk, folders, p)
           There(p) == FoundIn(disk', folders', p)
<1>1. /\ Holds /\ Counts /\ Stored /\ Written(unread)
      /\ Volume /\ Journalled /\ Control /\ Unseen /\ Kept
  BY DEF IInv
<1>2. /\ Written(recs) /\ N \in {1, 2}
      /\ next < MaxRecords /\ next' = next + N
      /\ unread' = IF cursor = None THEN <<>> ELSE unread \o recs
      /\ low' = low /\ jid' = jid /\ cursor' = cursor /\ rows' = rows /\ index' = index /\ cache' = cache
      /\ mon' = mon /\ scan' = scan /\ faults' = faults /\ ghost' = ghost
      /\ doubtful \subseteq doubtful' /\ doubtful' \subseteq doubtful \cup FilePath
      /\ Volume'
      /\ Told(recs, disk, folders, disk', folders', doubtful')
  BY DEF Logs
<1>3. /\ \A p \in FilePath \ doubtful' : p \in FilePath \ doubtful
      /\ \A p \in FilePath \ doubtful' : Untouched(recs, N, p) => There(p) = Here(p)
      /\ \A p \in FilePath \ doubtful' : ~Untouched(recs, N, p) => scan = None
  BY <1>2 DEF Told
<1>4. Holds' /\ Unseen'
  BY <1>1, <1>2 DEF Holds, Unseen
<1>5. Counts'
  <2>1. N \in {1, 2} /\ next' = next + N /\ next < MaxRecords /\ low' = low /\ jid' = jid /\ faults' = faults
    BY <1>2
  <2>2. Counts /\ MaxRecords \in Nat
    BY <1>1, Apart
  <2> HIDE DEF N
  <2> QED BY <2>1, <2>2 DEF Counts
<1>6. Stored'
  BY <1>1, <1>2, FilePathIs DEF Stored
<1>7. cursor = None => unread = <<>> /\ unread' = <<>>
  BY <1>1, <1>2 DEF Control
<1>8. /\ Written(<<>>) /\ Len(<<>>) = 0
  BY DEF Written
<1>9. ASSUME cursor # None
      PROVE  /\ Written(unread') /\ Len(unread') = L + N /\ L \in Nat /\ N \in Nat
             /\ \A p, m : m \in 0 .. L /\ Clear(unread', m, p) => Clear(unread, m, p) /\ Untouched(recs, N, p)
             /\ \A p : \A k \in 1 .. Len(unread') : LastIn(unread', Len(unread'), k, p) =>
                  \/ k \in 1 .. L /\ unread'[k] = unread[k] /\ LastIn(unread, L, k, p) /\ Untouched(recs, N, p)
                  \/ k - L \in 1 .. N /\ unread'[k] = recs[k - L] /\ LastIn(recs, N, k - L, p)
                     /\ ~Untouched(recs, N, p)
  <2>1. Joined(unread, recs, unread') /\ Written(unread) /\ Written(recs)
    BY <1>1, <1>2, <1>9 DEF Joined
  <2> QED BY <2>1, Appended
<1>10. Written(unread')
  BY <1>7, <1>8, <1>9
<1>11. Journalled'
  <2> SUFFICES ASSUME NEW p \in FilePath \ doubtful', NEW k \in 1 .. Len(unread'),
                      LastIn(unread', Len(unread'), k, p)
               PROVE  Class(unread'[k].why) \in Arriving <=> AtIn(disk', folders', p) # {}
    BY DEF Journalled
  <2>1. cursor # None
    BY <1>7, <1>8
  <2>2. CASE k \in 1 .. L /\ unread'[k] = unread[k] /\ LastIn(unread, L, k, p) /\ Untouched(recs, N, p)
    <3>1. Class(unread[k].why) \in Arriving <=> AtIn(disk, folders, p) # {}
      BY <1>1, <1>3, <2>2 DEF Journalled
    <3>2. AtIn(disk', folders', p) = {} <=> AtIn(disk, folders, p) = {}
      BY <1>2, <2>2 DEF Told
    <3> QED BY <2>2, <3>1, <3>2
  <2>3. CASE k - L \in 1 .. N /\ unread'[k] = recs[k - L] /\ LastIn(recs, N, k - L, p)
    BY <1>2, <2>3 DEF Told
  <2> QED BY <1>9, <2>1, <2>2, <2>3
<1>12. Control'
  <2>1. scan' # None => cursor' = None /\ \A p \in FilePath \ doubtful' : scan'[p] = There(p)
    BY <1>1, <1>2, <1>3 DEF Control
  <2>2. cursor' # None /\ cursor'.jid = jid' => cursor'.next + Len(unread') = next'
    <3> SUFFICES ASSUME cursor # None, cursor.jid = jid PROVE cursor.next + Len(unread') = next'
      BY <1>2
    <3>1. cursor.next + L = next /\ Len(unread') = L + N /\ L \in Nat /\ N \in Nat
      BY <1>1, <1>9 DEF Control, Synced
    <3>2. cursor.next \in Nat
      BY <1>1, Apart DEF Stored, Cursors
    <3> QED BY <1>2, <3>1, <3>2
  <2>3. ASSUME NEW x, x \in cursor.next .. next, cursor # None PROVE x \in cursor.next .. next'
    <3>1. cursor.next \in Nat /\ next \in Nat
      BY <1>1, <2>3, Apart DEF Stored, Cursors, Counts
    <3> QED BY <1>2, <2>3, <3>1
  <2> QED BY <1>1, <1>2, <1>7, <2>1, <2>2, <2>3 DEF Control, Synced
<1>13. Kept'
  <2> SUFFICES ASSUME cursor # None, cursor.jid = jid, NEW p \in FilePath \ doubtful'
               PROVE  /\ Clear(unread', 0, p) => Good(index[p], p, There(p), ghost)
                                                 /\ Backed(rows[p], p, There(p), ghost)
                      /\ mon.pc \in Working /\ Clear(unread', mon.to.next - cursor.next, p) =>
                           Good(Then(mon, index, p), p, There(p), ghost)
                           /\ Backed(RowThen(mon, rows, p), p, There(p), ghost)
    BY <1>2 DEF Kept, Synced
  <2>1. /\ Clear(unread, 0, p) => Good(index[p], p, Here(p), ghost) /\ Backed(rows[p], p, Here(p), ghost)
        /\ mon.pc \in Working /\ Clear(unread, mon.to.next - cursor.next, p) =>
             Good(Then(mon, index, p), p, Here(p), ghost) /\ Backed(RowThen(mon, rows, p), p, Here(p), ghost)
    BY <1>1, <1>3 DEF Kept, Synced
  <2>2. mon.pc \in Working => mon.to.next - cursor.next \in 0 .. L
    <3>1. cursor.next + L = next /\ L \in Nat /\ cursor.next \in Nat
      BY <1>1, <1>9, Apart DEF Control, Synced, Stored, Cursors
    <3>2. mon.pc \in Working => mon.to.next \in cursor.next .. next
      BY <1>1 DEF Control, Synced
    <3> QED BY <3>1, <3>2
  <2>3. 0 \in 0 .. L
    BY <1>9
  <2>4. Clear(unread', 0, p) => Clear(unread, 0, p) /\ There(p) = Here(p)
    BY <1>3, <1>9, <2>3
  <2>5. mon.pc \in Working /\ Clear(unread', mon.to.next - cursor.next, p) =>
          Clear(unread, mon.to.next - cursor.next, p) /\ There(p) = Here(p)
    BY <1>3, <1>9, <2>2
  <2> QED BY <2>1, <2>4, <2>5
<1> QED BY <1>2, <1>4, <1>5, <1>6, <1>10, <1>11, <1>12, <1>13 DEF IInv

-----------------------------------------------------------------------------
(* The journal.                                                            *)
LEMMA DiscardKeeps == ASSUME IInv, Discard PROVE IInv'
<1>1. /\ low' = next /\ faults < MaxFaults /\ faults' = faults + 1
      /\ UNCHANGED <<disk, folders, open, unread, next, jid, cursor, rows, index, cache, mon, scan, ghost, doubtful>>
  BY DEF Discard, Fault, store, history
<1>2. Counts'
  BY <1>1, Apart DEF IInv, Counts
<1> QED BY <1>1, <1>2 DEF IInv, Holds, Stored, Volume, Journalled, Control, Synced, Unseen, Kept

(* A new journal: the cursor is in none.                                   *)
LEMMA RecreateKeeps == ASSUME IInv, Recreate PROVE IInv'
<1>1. /\ jid' = jid + 1 /\ next' = 0 /\ low' = 0 /\ unread' = <<>> /\ faults < MaxFaults /\ faults' = faults + 1
      /\ UNCHANGED <<disk, folders, open, cursor, rows, index, cache, mon, scan, ghost, doubtful>>
  BY DEF Recreate, Fault, store, history
<1>2. Counts'
  BY <1>1, Apart DEF IInv, Counts
<1>3. Holds' /\ Stored' /\ Unseen' /\ Volume'
  BY <1>1 DEF IInv, Holds, Stored, Volume, Unseen
<1>4. Written(unread') /\ Journalled'
  BY <1>1 DEF Written, Journalled
<1>5. cursor # None => cursor.jid \in Nat /\ cursor.jid <= jid
  BY Apart DEF IInv, Control, Stored, Cursors
<1>6. jid \in Nat
  BY DEF IInv, Counts
<1>7. ~Synced'
  BY <1>1, <1>5, <1>6 DEF Synced
<1>8. Control'
  <2>1. cursor' # None => cursor'.jid <= jid'
    BY <1>1, <1>5, <1>6
  <2> QED BY <1>1, <1>7, <2>1 DEF IInv, Control
<1>9. Kept'
  BY <1>7 DEF Kept
<1> QED BY <1>2, <1>3, <1>4, <1>8, <1>9 DEF IInv

(* Where the monitor is.                                                   *)
LEMMA Busy ==
  ASSUME IInv
  PROVE  /\ mon.pc = "read" => cursor # None /\ mon = [pc |-> "read", end |-> mon.end, at |-> mon.at]
                               /\ mon.end \in 0 .. MaxRecords + 2 /\ mon.at \in 0 .. MaxRecords + 2
         /\ mon.pc \in Working =>
              /\ cursor # None
              /\ mon = [pc |-> mon.pc, to |-> mon.to, out |-> mon.out, in |-> mon.in]
              /\ mon.to \in Cursors /\ mon.out \subseteq Path /\ DOMAIN mon.in \subseteq Path
              /\ \A p \in DOMAIN mon.in : mon.in[p] \in Version \cup {Empty}
         /\ Idle.pc = "idle"
<1>1. Idle.pc = "idle"
  BY DEF Idle
<1>2. Holds /\ Control
  BY DEF IInv
<1> QED BY <1>1, <1>2 DEF Holds, Control, Working

(* A tick that ends without having done anything.                          *)
LEMMA GiveUp ==
  ASSUME IInv, mon' = Idle, faults' = faults \/ (faults < MaxFaults /\ faults' = faults + 1),
         UNCHANGED <<disk, folders, open, unread, next, low, jid, cursor, rows, index, cache, scan, ghost, doubtful>>
  PROVE  IInv'
<1>1. Counts'
  BY Apart DEF IInv, Counts
<1>2. mon'.pc = "idle"
  BY Busy
<1>3. Holds' /\ Stored' /\ Volume' /\ Journalled' /\ Written(unread)'
  BY DEF IInv, Holds, Stored, Volume, Journalled
<1>4. Control' /\ Unseen' /\ Kept'
  BY <1>2 DEF IInv, Control, Unseen, Kept, Synced, Working
<1> QED BY <1>1, <1>3, <1>4 DEF IInv

(* A new cache knows the root only.                                        *)
LEMMA SeededIs == Cached(Seeded)
<1>1. Root \in Ref /\ Folder \subseteq Ref /\ File \subseteq Ref
  BY DEF Ref
<1>2. Seeded \in [Ref -> Path \cup {None}]
  BY FilePathIs DEF Seeded
<1>3. Seeded[Root] = <<>> /\ \A r \in Ref : r # Root => Seeded[r] = None
  BY <1>1 DEF Seeded
<1> QED BY <1>1, <1>2, <1>3, Apart DEF Cached

(* The cursor is dropped, or the tick ends.                                *)
LEMMA FallBackKeeps == ASSUME IInv, cursor # None, FallBack PROVE IInv'
<1>1. CASE Fail /\ UNCHANGED <<volume, store, index, cache, scan, history>>
  BY <1>1, GiveUp DEF Fail, Fault, volume, store, history
<1>2. CASE /\ cursor' = None /\ cache' = Seeded /\ mon' = Idle
           /\ unread' = <<>>
           /\ UNCHANGED <<disk, folders, open, next, low, jid, rows, index, scan, faults, history>>
  <2>1. mon'.pc = "idle"
    BY <1>2, Busy
  <2>2. Holds' /\ Counts' /\ Volume' /\ Unseen'
    BY <1>2, <2>1 DEF IInv, Holds, Counts, Volume, Unseen, Working
  <2>3. Stored'
    BY <1>2, SeededIs DEF IInv, Stored, history
  <2>4. Written(unread') /\ Journalled'
    BY <1>2 DEF Written, Journalled
  <2>5. scan = None
    BY DEF IInv, Control
  <2>6. ~Synced'
    BY <1>2 DEF Synced
  <2>7. Control' /\ Kept'
    BY <1>2, <2>1, <2>5, <2>6 DEF Control, Kept, Working
  <2> QED BY <2>2, <2>3, <2>4, <2>7 DEF IInv
<1> QED BY <1>1, <1>2 DEF FallBack

-----------------------------------------------------------------------------
(* Reading.                                                                *)
LEMMA QueryKeeps == ASSUME IInv, Query PROVE IInv'
<1>1. /\ cursor # None /\ cursor.jid = jid /\ cursor.next < next
      /\ mon' = [pc |-> "read", end |-> next, at |-> cursor.next]
      /\ UNCHANGED <<disk, folders, open, unread, next, low, jid, cursor, rows, index, cache, scan, faults, ghost, doubtful>>
  BY DEF Query, Valid, volume, store, history
<1>2. cursor.next \in 0 .. MaxRecords + 2 /\ next \in 0 .. MaxRecords + 1 /\ MaxRecords \in Nat
  BY <1>1, Apart DEF IInv, Stored, Counts, Cursors
<1>3. mon'.pc = "read" /\ mon'.at = cursor.next /\ next \in 0 .. MaxRecords + 2
  BY <1>1, <1>2
<1>4. Holds'
  BY <1>1, <1>2, <1>3 DEF Holds
<1>5. Counts' /\ Stored' /\ Volume' /\ Journalled' /\ Written(unread)'
  BY <1>1 DEF IInv, Counts, Stored, Volume, Journalled
<1>6. cursor.next \in cursor.next .. next
  BY <1>1, <1>2
<1>7. Control' /\ Unseen' /\ Kept'
  BY <1>1, <1>3, <1>6 DEF IInv, Control, Unseen, Kept, Synced, Working
<1> QED BY <1>4, <1>5, <1>7 DEF IInv

(* A stale cursor when a tick begins.                                      *)
LEMMA QueryStaleKeeps == ASSUME IInv, QueryStale PROVE IInv'
  BY FallBackKeeps DEF QueryStale

(* The lesser of two numbers.                                              *)
LEMMA LesserIs == ASSUME NEW a \in Nat, NEW b \in Nat PROVE Min({a, b}) = IF a <= b THEN a ELSE b
<1> DEFINE m == IF a <= b THEN a ELSE b
<1>1. m \in {a, b} /\ \A y \in {a, b} : m <= y
  OBVIOUS
<1>2. ASSUME NEW x \in {a, b}, \A y \in {a, b} : x <= y PROVE x = m
  BY <1>2
<1> QED BY <1>1, <1>2 DEF Min

(* The next records are read.                                              *)
LEMMA ReadChunkKeeps == ASSUME IInv, ReadChunk PROVE IInv'
<1>1. /\ mon.pc = "read" /\ cursor.jid = jid
      /\ mon' = [mon EXCEPT !.at = Min({mon.at + Chunk, next})]
      /\ UNCHANGED <<disk, folders, open, unread, next, low, jid, cursor, rows, index, cache, scan, faults, ghost, doubtful>>
  BY DEF ReadChunk, volume, store, history
<1>2. cursor # None /\ mon = [pc |-> "read", end |-> mon.end, at |-> mon.at]
      /\ mon.end \in 0 .. MaxRecords + 2 /\ mon.at \in 0 .. MaxRecords + 2
  BY <1>1, Busy
<1>3. mon.at \in cursor.next .. next /\ cursor.next \in Nat /\ next \in 0 .. MaxRecords + 1
  BY <1>1, <1>2, Apart DEF IInv, Control, Synced, Stored, Counts, Cursors
<1> DEFINE to == Min({mon.at + Chunk, next})
<1>4. to \in cursor.next .. next
  <2>1. mon.at + Chunk \in Nat /\ next \in Nat /\ Chunk \in Nat
    BY <1>2, <1>3, Apart
  <2>2. to = IF mon.at + Chunk <= next THEN mon.at + Chunk ELSE next
    BY <2>1, LesserIs
  <2> QED BY <1>3, <2>1, <2>2
<1> HIDE DEF to
<1>5. mon' = [pc |-> "read", end |-> mon.end, at |-> to]
  BY <1>1, <1>2 DEF to
<1>6. mon'.pc = "read" /\ mon'.at = to /\ to \in 0 .. MaxRecords + 2
  BY <1>3, <1>4, <1>5, Apart
<1>7. Holds'
  BY <1>2, <1>5, <1>6 DEF Holds
<1>8. Counts' /\ Stored' /\ Volume' /\ Journalled' /\ Written(unread)'
  BY <1>1 DEF IInv, Counts, Stored, Volume, Journalled
<1>9. Control' /\ Unseen' /\ Kept'
  BY <1>1, <1>2, <1>4, <1>6 DEF IInv, Control, Unseen, Kept, Synced, Working
<1> QED BY <1>7, <1>8, <1>9 DEF IInv

(* They have been discarded.                                               *)
LEMMA ReadDiscardedKeeps == ASSUME IInv, ReadDiscarded PROVE IInv'
  BY Busy, FallBackKeeps DEF ReadDiscarded

(* The journal is another one when the read ends.                          *)
LEMMA EndReadStaleKeeps == ASSUME IInv, EndReadStale PROVE IInv'
  BY Busy, FallBackKeeps DEF EndReadStale

(* A read fails.                                                           *)
LEMMA ReadFailsKeeps == ASSUME IInv, ReadFails PROVE IInv'
<1>1. /\ mon.pc = "read"
      /\ UNCHANGED <<disk, folders, open, unread, next, low, jid, cursor, rows, index, cache, scan, ghost, doubtful>>
  BY DEF ReadFails, volume, store, history
<1>2. CASE Fail
  BY <1>1, <1>2, GiveUp DEF Fail, Fault
<1>3. CASE mon' = [mon EXCEPT !.end = mon.at] /\ IF cursor.jid = jid THEN Fault ELSE UNCHANGED faults
  <2>1. cursor # None /\ mon = [pc |-> "read", end |-> mon.end, at |-> mon.at] /\ mon.at \in 0 .. MaxRecords + 2
    BY <1>1, Busy
  <2>2. mon' = [pc |-> "read", end |-> mon.at, at |-> mon.at]
    BY <1>3, <2>1
  <2>3. mon'.pc = "read" /\ mon'.at = mon.at
    BY <2>2
  <2>4. Holds'
    BY <2>1, <2>2, <2>3 DEF Holds
  <2>5. Stored' /\ Volume' /\ Journalled' /\ Written(unread)'
    BY <1>1 DEF IInv, Stored, Volume, Journalled
  <2>6. Counts'
    BY <1>1, <1>3, Apart DEF IInv, Counts, Fault
  <2>7. Control' /\ Unseen' /\ Kept'
    BY <1>1, <2>1, <2>3 DEF IInv, Control, Unseen, Kept, Synced, Working
  <2> QED BY <2>4, <2>5, <2>6, <2>7 DEF IInv
<1> QED BY <1>2, <1>3 DEF ReadFails

-----------------------------------------------------------------------------
(* Applying.                                                               *)
LEMMA ApplyHotKeeps == ASSUME IInv, ApplyHot PROVE IInv'
<1> DEFINE ins == mon.in
           outs == mon.out
<1>1. /\ mon.pc = "apply"
      /\ index' = [p \in Path |->
           CASE p \in DOMAIN ins -> ins[p]
             [] p \in outs \ DOMAIN ins -> None
             [] OTHER -> index[p]]
      /\ mon' = [mon EXCEPT !.pc = "prune"]
      /\ UNCHANGED <<disk, folders, open, unread, next, low, jid, cursor, rows, cache, scan, faults, ghost, doubtful>>
  BY DEF ApplyHot, volume, store, history
<1>2. /\ mon.pc \in Working /\ cursor # None
      /\ mon = [pc |-> mon.pc, to |-> mon.to, out |-> mon.out, in |-> mon.in]
      /\ mon.to \in Cursors /\ mon.out \subseteq Path /\ DOMAIN mon.in \subseteq Path
      /\ \A p \in DOMAIN mon.in : mon.in[p] \in Version \cup {Empty}
  BY <1>1, Busy DEF Working
<1>3. mon' = [pc |-> "prune", to |-> mon.to, out |-> mon.out, in |-> mon.in]
  BY <1>1, <1>2
<1>4. mon'.pc = "prune" /\ mon'.to = mon.to /\ mon'.out = mon.out /\ mon'.in = mon.in /\ mon'.pc \in Working
  BY <1>3 DEF Working
<1>5. \A p \in Path : index'[p] = Then(mon, index, p)
  BY <1>1 DEF Then
<1>6. Holds'
  BY <1>2, <1>3, <1>4 DEF Holds
<1>7. \A p \in Path : Then(mon, index, p) \in Content
  BY <1>2 DEF IInv, Stored, Then, Content
<1>8. Stored'
  <2>1. index' \in [Path -> Content]
    BY <1>1, <1>5, <1>7
  <2> QED BY <1>1, <2>1 DEF IInv, Stored
<1>9. Counts' /\ Volume' /\ Journalled' /\ Written(unread)'
  BY <1>1 DEF IInv, Counts, Volume, Journalled
<1>10. Control'
  BY <1>1, <1>2, <1>4 DEF IInv, Control, Synced
<1>11. Unseen'
  <2>1. \A p \in Path : Quarantined(p) => Then(mon, index, p) = None
    BY <1>2 DEF IInv, Unseen, Then
  <2> QED BY <1>1, <1>2, <1>4, <1>5, <2>1 DEF IInv, Unseen
<1>12. Kept'
  <2> SUFFICES ASSUME Synced, NEW p \in FilePath \ doubtful
               PROVE  /\ Clear(unread, 0, p) => Good(index'[p], p, FoundIn(disk, folders, p), ghost)
                                                /\ Backed(rows[p], p, FoundIn(disk, folders, p), ghost)
                      /\ Clear(unread, mon.to.next - cursor.next, p) =>
                           Good(Then(mon', index', p), p, FoundIn(disk, folders, p), ghost)
                           /\ Backed(RowThen(mon', rows, p), p, FoundIn(disk, folders, p), ghost)
    BY <1>1, <1>4 DEF Kept, Synced
  <2>1. /\ Clear(unread, 0, p) => Backed(rows[p], p, FoundIn(disk, folders, p), ghost)
        /\ Clear(unread, mon.to.next - cursor.next, p) =>
             Good(Then(mon, index, p), p, FoundIn(disk, folders, p), ghost)
             /\ Backed(RowThen(mon, rows, p), p, FoundIn(disk, folders, p), ghost)
    BY <1>2 DEF IInv, Kept
  <2>2. Then(mon', index', p) = index'[p] /\ RowThen(mon', rows, p) = RowThen(mon, rows, p)
    BY <1>1, <1>4 DEF Then, RowThen
  <2>3. index'[p] = Then(mon, index, p)
    BY <1>5, FilePathIs
  <2>4. Clear(unread, 0, p) => Clear(unread, mon.to.next - cursor.next, p)
    <3>1. mon.to.next \in cursor.next .. next /\ cursor.next \in Nat /\ next \in Nat
      BY <1>2, Apart DEF IInv, Control, Stored, Counts, Cursors
    <3>2. Len(unread) \in Nat
      BY DEF IInv, Written
    <3>3. \A k \in (mon.to.next - cursor.next) + 1 .. Len(unread) : k \in 0 + 1 .. Len(unread)
      BY <3>1, <3>2
    <3> QED BY <3>3 DEF Clear
  <2> QED BY <2>1, <2>2, <2>3, <2>4
<1> QED BY <1>6, <1>8, <1>9, <1>10, <1>11, <1>12 DEF IInv

(* Rows of some paths are deleted.                                         *)
LEMMA PruneKeeps == ASSUME IInv, Prune PROVE IInv'
<1>1. /\ mon.pc = "prune"
      /\ UNCHANGED <<disk, folders, open, unread, next, low, jid, cursor, index, cache, scan, ghost, doubtful>>
  BY DEF Prune, volume, store, history
<1>2. /\ mon.pc \in Working /\ cursor # None
      /\ mon = [pc |-> mon.pc, to |-> mon.to, out |-> mon.out, in |-> mon.in]
      /\ mon.to \in Cursors /\ mon.out \subseteq Path /\ DOMAIN mon.in \subseteq Path
      /\ \A p \in DOMAIN mon.in : mon.in[p] \in Version \cup {Empty}
  BY <1>1, Busy DEF Working
<1>3. Volume' /\ Journalled' /\ Written(unread)'
  BY <1>1 DEF IInv, Volume, Journalled
<1>4. ASSUME NEW done, rows' = [p \in Path |-> IF p \in done THEN None ELSE rows[p]]
      PROVE  Stored' /\ \A p \in Path : rows'[p] = IF p \in done THEN None ELSE rows[p]
  <2>1. \A p \in Path : rows'[p] = IF p \in done THEN None ELSE rows[p]
    BY <1>4
  <2>2. rows' \in [Path -> Content]
    BY <1>4 DEF IInv, Stored, Content
  <2> QED BY <1>1, <2>1, <2>2 DEF IInv, Stored
<1>5. CASE /\ rows' = [p \in Path |-> IF p \in mon.out THEN None ELSE rows[p]]
           /\ mon' = [mon EXCEPT !.pc = "commit"]
           /\ UNCHANGED faults
  <2>1. Stored' /\ \A p \in Path : rows'[p] = IF p \in mon.out THEN None ELSE rows[p]
    BY <1>4, <1>5
  <2>2. mon' = [pc |-> "commit", to |-> mon.to, out |-> mon.out, in |-> mon.in]
    BY <1>2, <1>5
  <2>3. mon'.pc = "commit" /\ mon'.to = mon.to /\ mon'.out = mon.out /\ mon'.in = mon.in /\ mon'.pc \in Working
    BY <2>2 DEF Working
  <2>4. Holds'
    BY <1>2, <2>2, <2>3 DEF Holds
  <2>5. Counts'
    BY <1>1, <1>5 DEF IInv, Counts
  <2>6. Control'
    BY <1>1, <1>2, <2>3 DEF IInv, Control, Synced
  <2>7. Unseen'
    BY <1>1, <1>2, <2>1, <2>3 DEF IInv, Unseen
  <2>8. Kept'
    <3> SUFFICES ASSUME Synced, NEW p \in FilePath \ doubtful
                 PROVE  /\ Clear(unread, 0, p) => Good(index[p], p, FoundIn(disk, folders, p), ghost)
                                                  /\ Backed(rows'[p], p, FoundIn(disk, folders, p), ghost)
                        /\ Clear(unread, mon.to.next - cursor.next, p) =>
                             Good(Then(mon', index, p), p, FoundIn(disk, folders, p), ghost)
                             /\ Backed(RowThen(mon', rows', p), p, FoundIn(disk, folders, p), ghost)
      BY <1>1, <2>3 DEF Kept, Synced
    <3>1. /\ Clear(unread, 0, p) => Good(index[p], p, FoundIn(disk, folders, p), ghost)
                                    /\ Backed(rows[p], p, FoundIn(disk, folders, p), ghost)
          /\ Clear(unread, mon.to.next - cursor.next, p) =>
               Good(Then(mon, index, p), p, FoundIn(disk, folders, p), ghost)
               /\ Backed(RowThen(mon, rows, p), p, FoundIn(disk, folders, p), ghost)
      BY <1>2 DEF IInv, Kept
    <3>2. Then(mon', index, p) = Then(mon, index, p) /\ RowThen(mon', rows', p) = rows'[p]
      BY <1>1, <2>3 DEF Then, RowThen
    <3>3. rows'[p] = IF p \in mon.out THEN None ELSE rows[p]
      BY <2>1, FilePathIs
    <3>4. RowThen(mon, rows, p) = rows'[p]
      BY <1>1, <3>3 DEF RowThen
    <3>5. Backed(rows[p], p, FoundIn(disk, folders, p), ghost) => Backed(rows'[p], p, FoundIn(disk, folders, p), ghost)
      BY <3>3 DEF Backed
    <3> QED BY <3>1, <3>2, <3>4, <3>5
  <2> QED BY <1>3, <2>1, <2>4, <2>5, <2>6, <2>7, <2>8 DEF IInv
<1>6. ASSUME Fail, NEW done, rows' = [p \in Path |-> IF p \in done THEN None ELSE rows[p]]
      PROVE  IInv'
  <2>1. Stored' /\ \A p \in Path : rows'[p] = IF p \in done THEN None ELSE rows[p]
    BY <1>4, <1>6
  <2>2. mon' = Idle /\ mon'.pc = "idle"
    BY <1>6, Busy DEF Fail
  <2>3. Holds'
    BY <2>2 DEF Holds
  <2>4. Counts'
    BY <1>1, <1>6, Apart DEF IInv, Counts, Fail, Fault
  <2>5. Control'
    BY <1>1, <2>2 DEF IInv, Control, Synced, Working
  <2>6. Unseen'
    BY <1>1, <2>1, <2>2 DEF IInv, Unseen, Working
  <2>7. Kept'
    <3> SUFFICES ASSUME Synced, NEW p \in FilePath \ doubtful, Clear(unread, 0, p)
                 PROVE  Good(index[p], p, FoundIn(disk, folders, p), ghost)
                        /\ Backed(rows'[p], p, FoundIn(disk, folders, p), ghost)
      BY <1>1, <2>2 DEF Kept, Synced, Working
    <3>1. Good(index[p], p, FoundIn(disk, folders, p), ghost) /\ Backed(rows[p], p, FoundIn(disk, folders, p), ghost)
      BY DEF IInv, Kept
    <3>2. rows'[p] = IF p \in done THEN None ELSE rows[p]
      BY <2>1, FilePathIs
    <3> QED BY <3>1, <3>2 DEF Backed
  <2> QED BY <1>3, <2>1, <2>3, <2>4, <2>5, <2>6, <2>7 DEF IInv
<1> QED BY <1>5, <1>6 DEF Prune

(* The records behind the first m.                                         *)
Behind(recs, m, rest) == rest = SubSeq(recs, m + 1, Len(recs))

(* What is known of them.                                                  *)
LEMMA Suffix ==
  ASSUME NEW recs, Written(recs), NEW m \in 0 .. Len(recs), NEW rest, Behind(recs, m, rest)
  PROVE  /\ Written(rest) /\ Len(rest) = Len(recs) - m
         /\ \A p : Clear(rest, 0, p) => Clear(recs, m, p)
         /\ \A p : \A k \in 1 .. Len(rest) : LastIn(rest, Len(rest), k, p) =>
              k + m \in 1 .. Len(recs) /\ rest[k] = recs[k + m] /\ LastIn(recs, Len(recs), k + m, p)
<1> DEFINE L == Len(recs)
           N == L - m
<1>1. recs \in Seq(Records) /\ L \in Nat /\ m \in Nat /\ m <= L /\ N \in Nat
  BY DEF Written
<1>2. rest \in Seq(Records) /\ Len(rest) = N /\ \A k \in 1 .. N : rest[k] = recs[(m + 1) + k - 1]
  <2>1. \A k \in m + 1 .. L : recs[k] \in Records
    BY <1>1
  <2>2. (IF m + 1 <= L THEN L - (m + 1) + 1 ELSE 0) = N
    BY <1>1
  <2>3. \A i \in m + 1 .. L : i \in 1 .. Len(recs)
    BY <1>1
  <2>4. /\ SubSeq(recs, m + 1, L) \in Seq(Records)
        /\ Len(SubSeq(recs, m + 1, L)) = IF m + 1 <= L THEN L - (m + 1) + 1 ELSE 0
        /\ \A i \in 1 .. L - (m + 1) + 1 : SubSeq(recs, m + 1, L)[i] = recs[(m + 1) + i - 1]
    BY <1>1, <2>3, SubSeqProperties
  <2> QED BY <1>1, <2>2, <2>4 DEF Behind
<1>3. \A k \in 1 .. N : k + m \in 1 .. L /\ rest[k] = recs[k + m]
  <2>1. \A k \in 1 .. N : k + m \in 1 .. L /\ (m + 1) + k - 1 = k + m
    BY <1>1
  <2> QED BY <1>2, <2>1
<1>4. \A j \in m + 1 .. L : j - m \in 1 .. N /\ rest[j - m] = recs[j]
  <2>1. \A j \in m + 1 .. L : j - m \in 1 .. N /\ (j - m) + m = j
    BY <1>1
  <2> QED BY <1>3, <2>1
<1> HIDE DEF N, L
<1>5. Written(rest)
  <2>1. ASSUME NEW k \in 1 .. N
        PROVE  /\ OfFile(rest[k]) \/ OfFolder(rest[k])
               /\ rest[k].ref \in File /\ Class(rest[k].why) = "old" =>
                    k + 1 \in 1 .. N /\ rest[k + 1].ref = rest[k].ref /\ Class(rest[k + 1].why) = "new"
    <3> DEFINE j == k + m
    <3>1. j \in 1 .. L /\ rest[k] = recs[j] /\ j \in m + 1 .. L
      <4>1. k + m \in 1 .. L /\ rest[k] = recs[k + m]
        BY <1>3, <2>1
      <4>2. k + m \in m + 1 .. L
        BY <1>1, <4>1
      <4> QED BY <4>1, <4>2
    <3>2. /\ OfFile(recs[j]) \/ OfFolder(recs[j])
          /\ recs[j].ref \in File /\ Class(recs[j].why) = "old" =>
               j + 1 \in 1 .. L /\ recs[j + 1].ref = recs[j].ref /\ Class(recs[j + 1].why) = "new"
      BY <3>1 DEF Written, L
    <3>3. j + 1 \in 1 .. L => k + 1 \in 1 .. N /\ rest[k + 1] = recs[j + 1]
      <4>1. j + 1 \in 1 .. L => j + 1 \in m + 1 .. L /\ (j + 1) - m = k + 1
        BY <1>1
      <4> QED BY <1>4, <4>1
    <3> HIDE DEF j
    <3> QED BY <3>1, <3>2, <3>3
  <2> QED BY <1>2, <2>1 DEF Written
<1>6. ASSUME NEW p, Clear(rest, 0, p) PROVE Clear(recs, m, p)
  <2>1. ASSUME NEW j \in m + 1 .. L PROVE ~FileAt(recs[j], p)
    <3>1. j - m \in 1 .. N /\ rest[j - m] = recs[j]
      BY <1>4
    <3>2. 0 + 1 = 1
      OBVIOUS
    <3> QED BY <1>2, <1>6, <3>1, <3>2 DEF Clear
  <2> QED BY <2>1 DEF Clear, L
<1>7. ASSUME NEW p, NEW k \in 1 .. N, LastIn(rest, N, k, p)
      PROVE  k + m \in 1 .. L /\ rest[k] = recs[k + m] /\ LastIn(recs, L, k + m, p)
  <2>1. k + m \in 1 .. L /\ rest[k] = recs[k + m]
    BY <1>3
  <2>2. ASSUME NEW j \in 1 .. L, j > k + m PROVE ~FileAt(recs[j], p)
    <3>1. j \in m + 1 .. L /\ j - m > k
      BY <1>1, <2>2
    <3>2. j - m \in 1 .. N /\ rest[j - m] = recs[j]
      BY <1>4, <3>1
    <3> QED BY <1>7, <3>1, <3>2 DEF LastIn
  <2> QED BY <1>7, <2>1, <2>2 DEF LastIn
<1> QED BY <1>2, <1>5, <1>6, <1>7 DEF L, N

(* The cursor is saved: the records behind it are left.                    *)
LEMMA CommitKeeps == ASSUME IInv, Commit PROVE IInv'
<1>1. /\ mon.pc = "commit"
      /\ UNCHANGED <<disk, folders, open, next, low, jid, rows, index, cache, scan, ghost, doubtful>>
  BY DEF Commit, history
<1>2. CASE Fail /\ UNCHANGED <<cursor, unread>>
  BY <1>1, <1>2, GiveUp DEF Fail, Fault
<1>3. CASE /\ cursor' = mon.to /\ mon' = Idle /\ UNCHANGED faults
           /\ unread' = IF mon.to.jid = jid THEN SubSeq(unread, mon.to.next - cursor.next + 1, Len(unread)) ELSE <<>>
  <2>1. /\ mon.pc \in Working /\ cursor # None /\ mon.to \in Cursors
        /\ mon.to.jid = cursor.jid /\ (Synced => mon.to.next \in cursor.next .. next)
    BY <1>1, Busy DEF Working, IInv, Control
  <2>2. mon'.pc = "idle" /\ cursor' \in Cursors /\ cursor' # None
    BY <1>3, <2>1, Busy, Apart
  <2>3. Holds' /\ Counts' /\ Volume'
    BY <1>1, <1>3 DEF IInv, Holds, Counts, Volume
  <2>4. Stored'
    BY <1>1, <2>2 DEF IInv, Stored
  <2>5. Unseen'
    BY <1>1, <2>2 DEF IInv, Unseen, Working
  <2>6. scan = None /\ cursor.jid <= jid
    BY <2>1 DEF IInv, Control
  <2>7. CASE mon.to.jid # jid
    <3>1. unread' = <<>> /\ ~Synced'
      BY <1>1, <1>3, <2>7 DEF Synced
    <3>2. Written(unread') /\ Journalled'
      BY <3>1 DEF Written, Journalled
    <3>3. Control' /\ Kept'
      BY <1>1, <1>3, <2>1, <2>2, <2>6, <3>1 DEF Control, Kept, Working
    <3> QED BY <2>3, <2>4, <2>5, <3>2, <3>3 DEF IInv
  <2>8. CASE mon.to.jid = jid
    <3> DEFINE m == mon.to.next - cursor.next
               L == Len(unread)
    <3>1. Synced
      BY <2>1, <2>8 DEF Synced
    <3>2. /\ m \in 0 .. L /\ L \in Nat /\ cursor.next + L = next /\ cursor.next \in Nat /\ mon.to.next \in Nat
          /\ cursor.next + m = mon.to.next
      <4>1. mon.to.next \in cursor.next .. next /\ cursor.next + L = next
        BY <2>1, <3>1 DEF IInv, Control
      <4>2. cursor.next \in Nat /\ L \in Nat /\ mon.to.next \in Nat
        BY <2>1, Apart DEF IInv, Stored, Written, Cursors
      <4> QED BY <4>1, <4>2
    <3>3. Behind(unread, m, unread') /\ Written(unread)
      BY <1>3, <2>8 DEF IInv, Behind
    <3> HIDE DEF m
    <3>4. /\ Written(unread') /\ Len(unread') = L - m
          /\ \A p : Clear(unread', 0, p) => Clear(unread, m, p)
          /\ \A p : \A k \in 1 .. Len(unread') : LastIn(unread', Len(unread'), k, p) =>
               k + m \in 1 .. L /\ unread'[k] = unread[k + m] /\ LastIn(unread, L, k + m, p)
      BY <3>2, <3>3, Suffix
    <3>5. Journalled'
      <4> SUFFICES ASSUME NEW p \in FilePath \ doubtful, NEW k \in 1 .. Len(unread'),
                          LastIn(unread', Len(unread'), k, p)
                   PROVE  Class(unread'[k].why) \in Arriving <=> AtIn(disk, folders, p) # {}
        BY <1>1 DEF Journalled
      <4>1. k + m \in 1 .. L /\ unread'[k] = unread[k + m] /\ LastIn(unread, L, k + m, p)
        BY <3>4
      <4> QED BY <4>1 DEF IInv, Journalled
    <3>6. cursor'.next + Len(unread') = next
      <4> HIDE DEF L
      <4>1. cursor'.next = cursor.next + m /\ Len(unread') = L - m
        BY <1>3, <3>2, <3>4
      <4>2. m \in Int /\ L \in Int /\ cursor.next \in Int /\ cursor.next + L = next
        BY <3>2
      <4> QED BY <4>1, <4>2
    <3>7. Control'
      BY <1>1, <1>3, <2>1, <2>2, <2>6, <3>6 DEF Control, Synced, Working
    <3>8. Kept'
      <4> SUFFICES ASSUME NEW p \in FilePath \ doubtful, Clear(unread', 0, p)
                   PROVE  Good(index[p], p, FoundIn(disk, folders, p), ghost)
                          /\ Backed(rows[p], p, FoundIn(disk, folders, p), ghost)
        BY <1>1, <2>2 DEF Kept, Working
      <4>1. Clear(unread, mon.to.next - cursor.next, p)
        BY <3>4 DEF m
      <4>2. Good(Then(mon, index, p), p, FoundIn(disk, folders, p), ghost)
            /\ Backed(RowThen(mon, rows, p), p, FoundIn(disk, folders, p), ghost)
        BY <2>1, <3>1, <4>1 DEF IInv, Kept
      <4>3. Then(mon, index, p) = index[p] /\ RowThen(mon, rows, p) = rows[p]
        BY <1>1 DEF Then, RowThen
      <4> QED BY <4>2, <4>3
    <3> QED BY <2>3, <2>4, <2>5, <3>4, <3>5, <3>7, <3>8 DEF IInv
  <2> QED BY <2>7, <2>8
<1> QED BY <1>2, <1>3 DEF Commit

-----------------------------------------------------------------------------
(* A full scan, and a start of the application.                            *)
LEMMA ScanDiskKeeps == ASSUME IInv, ScanDisk PROVE IInv'
<1>1. /\ cursor = None /\ doubtful' = {} /\ scan' = [p \in Path |-> FoundIn(disk, folders, p)]
      /\ UNCHANGED <<disk, folders, open, unread, next, low, jid, cursor, rows, index, cache, mon, faults, ghost>>
  BY Now DEF ScanDisk, volume, store
<1>2. unread = <<>> /\ mon = Idle /\ mon.pc = "idle"
  BY <1>1, Busy DEF IInv, Control
<1>3. Holds' /\ Counts' /\ Volume' /\ Written(unread)'
  BY <1>1 DEF IInv, Holds, Counts, Volume
<1>4. \A p \in Path : FoundIn(disk, folders, p) \in Content /\ (Quarantined(p) => FoundIn(disk, folders, p) = None)
  BY FoundIs DEF IInv, Volume, Content
<1>5. scan' \in [Path -> Content] /\ \A p \in Path : scan'[p] = FoundIn(disk, folders, p)
  BY <1>1, <1>4
<1>6. Stored' /\ Unseen'
  BY <1>1, <1>2, <1>4, <1>5 DEF IInv, Stored, Unseen, Working
<1>7. Journalled'
  BY <1>1, <1>2 DEF Journalled
<1>8. ~Synced'
  BY <1>1 DEF Synced
<1>9. Control' /\ Kept'
  BY <1>1, <1>2, <1>5, <1>8, FilePathIs DEF Control, Kept, Working
<1> QED BY <1>3, <1>6, <1>7, <1>9 DEF IInv

(* The end of the scan.                                                    *)
LEMMA CaptureKeeps == ASSUME IInv, Capture PROVE IInv'
<1>1. /\ scan # None /\ index' = scan /\ rows' = scan /\ cursor' = [jid |-> jid, next |-> next]
      /\ scan' = None /\ ghost' = {}
      /\ UNCHANGED <<disk, folders, open, unread, next, low, jid, cache, mon, faults, doubtful>>
  BY DEF Capture, Cursor, volume
<1>2. /\ cursor = None /\ unread = <<>> /\ mon = Idle /\ mon.pc = "idle"
      /\ \A p \in FilePath \ doubtful : scan[p] = FoundIn(disk, folders, p)
  BY <1>1, Busy DEF IInv, Control
<1>3. Holds' /\ Counts' /\ Volume' /\ Written(unread)' /\ Journalled'
  BY <1>1 DEF IInv, Holds, Counts, Volume, Journalled
<1>4. cursor' \in Cursors /\ cursor'.jid = jid /\ cursor'.next = next /\ jid \in Nat /\ next \in Nat
  BY <1>1, Apart DEF IInv, Counts, Cursors
<1>5. Stored'
  BY <1>1, <1>4 DEF IInv, Stored
<1>6. Unseen'
  BY <1>1, <1>2 DEF IInv, Unseen, Working
<1>7. Control'
  BY <1>1, <1>2, <1>4, Apart DEF Control, Working
<1>8. Kept'
  <2> SUFFICES ASSUME NEW p \in FilePath \ doubtful
               PROVE  Good(scan[p], p, FoundIn(disk, folders, p), {}) /\ Backed(scan[p], p, FoundIn(disk, folders, p), {})
    BY <1>1, <1>2 DEF Kept, Working
  <2> QED BY <1>2 DEF Good, Backed
<1> QED BY <1>3, <1>5, <1>6, <1>7, <1>8 DEF IInv

(* The next start.                                                         *)
LEMMA RestartKeeps == ASSUME IInv, Restart PROVE IInv'
<1>1. /\ faults < MaxFaults /\ faults' = faults + 1
      /\ index' = rows /\ cache' = Seeded /\ mon' = Idle /\ scan' = None
      /\ doubtful' = doubtful \cup {p \in Path : index[p] # rows[p]}
      /\ UNCHANGED <<disk, folders, open, unread, next, low, jid, cursor, rows, ghost>>
  BY DEF Restart, Fault, volume, store
<1>2. mon'.pc = "idle"
  BY <1>1, Busy
<1>3. /\ \A p \in FilePath \ doubtful' : p \in FilePath \ doubtful /\ index[p] = rows[p]
      /\ doubtful' \subseteq Path
  BY <1>1, FilePathIs DEF IInv, Stored
<1>4. Counts'
  BY <1>1, Apart DEF IInv, Counts
<1>5. Holds' /\ Volume' /\ Written(unread)'
  BY <1>1 DEF IInv, Holds, Volume
<1>6. Stored'
  BY <1>1, <1>3, SeededIs DEF IInv, Stored
<1>7. Unseen'
  BY <1>1, <1>2 DEF IInv, Unseen, Working
<1>8. Journalled'
  BY <1>1, <1>3 DEF IInv, Journalled
<1>9. Control'
  BY <1>1, <1>2 DEF IInv, Control, Synced, Working
<1>10. Kept'
  <2> SUFFICES ASSUME Synced, NEW p \in FilePath \ doubtful', Clear(unread, 0, p)
               PROVE  Good(rows[p], p, FoundIn(disk, folders, p), ghost)
                      /\ Backed(rows[p], p, FoundIn(disk, folders, p), ghost)
    BY <1>1, <1>2 DEF Kept, Synced, Working
  <2> QED BY <1>3 DEF IInv, Kept
<1> QED BY <1>4, <1>5, <1>6, <1>7, <1>8, <1>9, <1>10 DEF IInv

(* The records up to the n-th.                                             *)
Ahead(recs, n, pre) == pre = SubSeq(recs, 1, n)

(* What is known of them.                                                  *)
LEMMA Prefix ==
  ASSUME NEW recs, Written(recs), NEW n \in 0 .. Len(recs), NEW pre, Ahead(recs, n, pre)
  PROVE  /\ Len(pre) = n /\ n \in Nat /\ Len(recs) \in Nat /\ Delta(pre, n)
         /\ \A k \in 1 .. n : k \in 1 .. Len(recs) /\ pre[k] = recs[k]
<1> DEFINE L == Len(recs)
<1>1. recs \in Seq(Records) /\ L \in Nat /\ n \in Nat /\ n <= L
  BY DEF Written
<1>2. \A k \in 1 .. n : k \in 1 .. L
  BY <1>1
<1>3. Len(pre) = n /\ \A k \in 1 .. n : pre[k] = recs[k]
  <2>1. /\ Len(SubSeq(recs, 1, n)) = IF 1 <= n THEN n - 1 + 1 ELSE 0
        /\ \A i \in 1 .. n - 1 + 1 : SubSeq(recs, 1, n)[i] = recs[1 + i - 1]
    <3>1. \A i \in 1 .. n : recs[i] \in Records
      BY <1>1, <1>2
    <3> QED BY <1>1, <3>1, SubSeqProperties
  <2>2. (IF 1 <= n THEN n - 1 + 1 ELSE 0) = n /\ n - 1 + 1 = n /\ \A i \in 1 .. n : 1 + i - 1 = i
    BY <1>1
  <2> QED BY <2>1, <2>2 DEF Ahead
<1> HIDE DEF L
<1>4. Delta(pre, n)
  <2>1. \A k \in 1 .. n : OfFile(pre[k]) \/ OfFolder(pre[k])
    BY <1>2, <1>3 DEF Written, L
  <2>2. ASSUME NEW k \in 1 .. n - 1 PROVE PairedAt(pre, k)
    <3>1. k \in 1 .. n /\ k + 1 \in 1 .. n
      BY <1>1
    <3>2. pre[k] = recs[k] /\ pre[k + 1] = recs[k + 1] /\ k \in 1 .. L
      BY <1>2, <1>3, <3>1
    <3>3. recs[k].ref \in File /\ Class(recs[k].why) = "old" =>
            recs[k + 1].ref = recs[k].ref /\ Class(recs[k + 1].why) = "new"
      BY <3>2 DEF Written, L
    <3> QED BY <3>2, <3>3 DEF PairedAt
  <2> QED BY <2>1, <2>2 DEF Delta
<1> QED BY <1>1, <1>2, <1>3, <1>4 DEF L

(* A path that some record is about has a last one.                        *)
LEMMA SomeLast ==
  ASSUME NEW recs, NEW n \in Nat, NEW p, ~Untouched(recs, n, p)
  PROVE  \E k \in 1 .. n : LastIn(recs, n, k, p)
<1> DEFINE T == {n - k : k \in {j \in 1 .. n : FileAt(recs[j], p)}}
<1>1. PICK j \in 1 .. n : FileAt(recs[j], p)
  BY DEF Untouched
<1>2. T \subseteq Nat /\ T # {}
  BY <1>1
<1>3. PICK d \in T : \A x \in T : d <= x
  <2> HIDE DEF T
  <2> QED BY <1>2, Least
<1>4. PICK k \in 1 .. n : FileAt(recs[k], p) /\ d = n - k
  BY <1>3
<1>5. ASSUME NEW i \in 1 .. n, i > k, FileAt(recs[i], p) PROVE FALSE
  <2>1. n - i \in T
    BY <1>5
  <2>2. d <= n - i
    BY <1>3, <2>1
  <2> QED BY <1>4, <1>5, <2>2
<1>6. LastIn(recs, n, k, p)
  BY <1>4, <1>5 DEF LastIn
<1> QED BY <1>6

-----------------------------------------------------------------------------
(* What a path comes to by the plan of the first n unread records.         *)
LEMMA DeltaFollows ==
  ASSUME IInv, Synced, NEW n \in 0 .. Len(unread), NEW pre, Ahead(unread, n, pre),
         NEW t, t = Plan(cache, pre), NEW p \in FilePath, p \notin doubtful, p \notin t.odd
  PROVE  /\ Clear(unread, 0, p) =>
              /\ p \notin t.in /\ p \notin t.out
              /\ Good(index[p], p, FoundIn(disk, folders, p), ghost)
              /\ Backed(rows[p], p, FoundIn(disk, folders, p), ghost)
         /\ Clear(unread, n, p) /\ ~Clear(unread, 0, p) =>
              \/ Quarantined(p) /\ p \notin t.in
              \/ p \in t.in /\ p \notin t.last /\ ~Quarantined(p) /\ AtIn(disk, folders, p) # {}
              \/ p \in t.out /\ (p \in t.in => p \in t.last) /\ AtIn(disk, folders, p) = {}
<1>1. /\ Len(pre) = n /\ n \in Nat /\ Len(unread) \in Nat /\ Delta(pre, n)
      /\ \A k \in 1 .. n : k \in 1 .. Len(unread) /\ pre[k] = unread[k]
  BY Prefix DEF IInv
<1>2. (\A q \in t.in : ~Quarantined(q)) /\ Faithful(t, pre, n)
  <2>1. Len(pre) \in Nat /\ Delta(pre, Len(pre)) /\ Cached(cache)
    BY <1>1 DEF IInv, Stored
  <2>2. (\A q \in t.in : ~Quarantined(q)) /\ Faithful(t, pre, Len(pre))
    BY <2>1, PlanIs
  <2> QED BY <1>1, <2>2
<1>3. /\ Untouched(pre, n, p) => p \notin t.in /\ p \notin t.out
      /\ \A k \in 1 .. n : LastIn(pre, n, k, p) =>
           IF Class(pre[k].why) \in Arriving THEN Lands(t, p) ELSE Leaves(t, p)
  BY <1>2 DEF Faithful
<1>4. ASSUME Clear(unread, 0, p)
      PROVE  /\ p \notin t.in /\ p \notin t.out
             /\ Good(index[p], p, FoundIn(disk, folders, p), ghost)
             /\ Backed(rows[p], p, FoundIn(disk, folders, p), ghost)
  <2>1. Untouched(pre, n, p)
    <3>1. 0 + 1 = 1
      OBVIOUS
    <3> QED BY <1>1, <1>4, <3>1 DEF Clear, Untouched
  <2> QED BY <1>3, <1>4, <2>1 DEF IInv, Kept
<1>5. ASSUME Clear(unread, n, p), ~Clear(unread, 0, p)
      PROVE  \/ Quarantined(p) /\ p \notin t.in
             \/ p \in t.in /\ p \notin t.last /\ ~Quarantined(p) /\ AtIn(disk, folders, p) # {}
             \/ p \in t.out /\ (p \in t.in => p \in t.last) /\ AtIn(disk, folders, p) = {}
  <2>1. ~Untouched(pre, n, p)
    <3>1. SUFFICES ASSUME Untouched(pre, n, p), NEW k \in 0 + 1 .. Len(unread) PROVE ~FileAt(unread[k], p)
      BY <1>5 DEF Clear
    <3>2. k \in 1 .. n \/ k \in n + 1 .. Len(unread)
      BY <1>1
    <3> QED BY <1>1, <1>5, <3>1, <3>2 DEF Clear, Untouched
  <2>2. PICK k \in 1 .. n : LastIn(pre, n, k, p)
    BY <1>1, <2>1, SomeLast
  <2>3. LastIn(unread, Len(unread), k, p) /\ k \in 1 .. Len(unread) /\ pre[k] = unread[k]
    <3>1. FileAt(unread[k], p) /\ k \in 1 .. Len(unread) /\ pre[k] = unread[k]
      BY <1>1, <2>2 DEF LastIn
    <3>2. ASSUME NEW j \in 1 .. Len(unread), j > k PROVE ~FileAt(unread[j], p)
      <4>1. j \in 1 .. n \/ j \in n + 1 .. Len(unread)
        BY <1>1
      <4> QED BY <1>1, <1>5, <2>2, <3>2, <4>1 DEF Clear, LastIn
    <3> QED BY <3>1, <3>2 DEF LastIn
  <2>4. Class(pre[k].why) \in Arriving <=> AtIn(disk, folders, p) # {}
    BY <2>3 DEF IInv, Journalled
  <2>5. IF Class(pre[k].why) \in Arriving THEN Lands(t, p) ELSE Leaves(t, p)
    BY <1>3, <2>2
  <2> QED BY <1>2, <2>4, <2>5 DEF Lands, Leaves
<1> QED BY <1>4, <1>5

(* The delta is planned.                                                   *)
LEMMA EndReadKeeps == ASSUME IInv, EndRead PROVE IInv'
<1> DEFINE n == mon.at - cursor.next
           pre == SubSeq(unread, 1, n)
           t == Plan(cache, pre)
           here(p) == FoundIn(disk, folders, p)
           ins == [p \in t.in |-> IF ProbeIn(disk, folders, p) = None THEN Empty ELSE ProbeIn(disk, folders, p)]
<1>1. /\ mon.pc = "read" /\ cursor.jid = jid
      /\ cache' = t.known
      /\ mon' = [pc |-> "apply", to |-> [jid |-> jid, next |-> mon.at], out |-> t.out, in |-> ins]
      /\ ghost' = (ghost \ (t.in \cup t.out)) \cup (t.in \cap t.last)
      /\ doubtful' = doubtful \cup t.odd
      /\ UNCHANGED <<disk, folders, open, unread, next, low, jid, cursor, rows, index, scan, faults>>
  BY Now DEF EndRead, Cursor, volume, store
<1>2. cursor # None /\ mon.at \in 0 .. MaxRecords + 2 /\ Synced
  BY <1>1, Busy DEF Synced
<1>3. /\ n \in 0 .. Len(unread) /\ mon.at \in cursor.next .. next
      /\ cursor.next + n = mon.at
  <2>1. mon.at \in cursor.next .. next /\ cursor.next + Len(unread) = next
    BY <1>1, <1>2 DEF IInv, Control
  <2>2. cursor.next \in Nat /\ Len(unread) \in Nat
    BY <1>2, Apart DEF IInv, Stored, Written, Cursors
  <2> QED BY <2>1, <2>2
<1>4. Ahead(unread, n, pre)
  BY DEF Ahead
<1> HIDE DEF pre, n
<1>5. t \in Plans /\ Cached(t.known) /\ \A p \in t.in : ~Quarantined(p)
  <2>1. Len(pre) = n /\ n \in Nat /\ Delta(pre, n)
    BY <1>3, <1>4, Prefix DEF IInv
  <2>2. Len(pre) \in Nat /\ Delta(pre, Len(pre)) /\ Cached(cache)
    BY <2>1 DEF IInv, Stored
  <2> QED BY <2>2, PlanIs
<1>6. \A p \in FilePath : p \notin doubtful /\ p \notin t.odd =>
        /\ Clear(unread, 0, p) =>
              /\ p \notin t.in /\ p \notin t.out
              /\ Good(index[p], p, here(p), ghost)
              /\ Backed(rows[p], p, here(p), ghost)
        /\ Clear(unread, n, p) /\ ~Clear(unread, 0, p) =>
              \/ Quarantined(p) /\ p \notin t.in
              \/ p \in t.in /\ p \notin t.last /\ ~Quarantined(p) /\ AtIn(disk, folders, p) # {}
              \/ p \in t.out /\ (p \in t.in => p \in t.last) /\ AtIn(disk, folders, p) = {}
  BY <1>2, <1>3, <1>4, DeltaFollows
<1> HIDE DEF t
<1>7. t.in \subseteq Path /\ t.out \subseteq Path /\ t.odd \subseteq Path /\ t.last \subseteq Path
  BY <1>5, FilePathIs DEF Plans
<1>8. /\ DOMAIN ins = t.in
      /\ \A p \in t.in : ins[p] = IF ProbeIn(disk, folders, p) = None THEN Empty ELSE ProbeIn(disk, folders, p)
  OBVIOUS
<1> HIDE DEF ins
<1>9. /\ mon'.pc = "apply" /\ mon'.to = [jid |-> jid, next |-> mon.at] /\ mon'.out = t.out /\ mon'.in = ins
      /\ mon'.to.jid = jid /\ mon'.to.next = mon.at /\ mon'.pc \in Working
  BY <1>1 DEF Working
<1>10. \A p : /\ ProbeIn(disk, folders, p) \in Version \cup {None}
              /\ ProbeIn(disk, folders, p) = None <=> AtIn(disk, folders, p) = {}
              /\ Quarantined(p) => here(p) = None
              /\ ~Quarantined(p) => here(p) = ProbeIn(disk, folders, p)
  BY FoundIs DEF IInv, Volume
<1>11. Holds'
  <2>1. mon'.to \in Cursors
    <3>1. jid \in 1 .. MaxFaults + 1
      BY Apart DEF IInv, Counts
    <3> QED BY <1>2, <1>9, <3>1 DEF Cursors
  <2>2. \A p \in DOMAIN ins : ins[p] \in Version \cup {Empty}
    BY <1>8, <1>10
  <2>3. mon' = [pc |-> mon'.pc, to |-> mon'.to, out |-> mon'.out, in |-> mon'.in]
    BY <1>1, <1>9
  <2> QED BY <1>7, <1>8, <1>9, <2>1, <2>2, <2>3 DEF Holds
<1>12. Counts' /\ Volume' /\ Written(unread)'
  BY <1>1 DEF IInv, Counts, Volume
<1>13. Stored'
  BY <1>1, <1>5, <1>7 DEF IInv, Stored
<1>14. \A p \in FilePath \ doubtful' : p \in FilePath \ doubtful /\ p \notin t.odd /\ p \in Path
  BY <1>1, FilePathIs
<1>15. Journalled'
  BY <1>1, <1>14 DEF IInv, Journalled
<1>16. Control'
  <2>1. mon'.to.next \in cursor.next .. next
    BY <1>3, <1>9
  <2>2. scan = None
    BY <1>2 DEF IInv, Control
  <2> QED BY <1>1, <1>2, <1>9, <2>1, <2>2 DEF IInv, Control, Synced
<1>17. Unseen'
  BY <1>1, <1>5, <1>8, <1>9 DEF IInv, Unseen
<1>18. Kept'
  <2> SUFFICES ASSUME NEW p \in FilePath \ doubtful'
               PROVE  /\ Clear(unread, 0, p) => Good(index[p], p, here(p), ghost') /\ Backed(rows[p], p, here(p), ghost')
                      /\ Clear(unread, n, p) =>
                           Good(Then(mon', index, p), p, here(p), ghost')
                           /\ Backed(RowThen(mon', rows, p), p, here(p), ghost')
    BY <1>1, <1>9 DEF Kept, n
  <2>1. /\ Then(mon', index, p) = IF p \in t.in THEN ins[p] ELSE IF p \in t.out THEN None ELSE index[p]
        /\ RowThen(mon', rows, p) = IF p \in t.out THEN None ELSE rows[p]
    BY <1>8, <1>9 DEF Then, RowThen
  <2>2. ASSUME Clear(unread, 0, p)
        PROVE  /\ Good(index[p], p, here(p), ghost') /\ Backed(rows[p], p, here(p), ghost')
               /\ Then(mon', index, p) = index[p] /\ RowThen(mon', rows, p) = rows[p]
    <3>1. /\ p \notin t.in /\ p \notin t.out
          /\ Good(index[p], p, here(p), ghost) /\ Backed(rows[p], p, here(p), ghost)
      BY <1>6, <1>14, <2>2
    <3>2. p \in ghost' <=> p \in ghost
      BY <1>1, <3>1
    <3> QED BY <2>1, <3>1, <3>2 DEF Good, Backed
  <2>3. ASSUME Clear(unread, n, p), ~Clear(unread, 0, p)
        PROVE  Good(Then(mon', index, p), p, here(p), ghost') /\ Backed(RowThen(mon', rows, p), p, here(p), ghost')
    <3>1. CASE Quarantined(p) /\ p \notin t.in
      <4>1. index[p] = None /\ rows[p] = None
        BY <1>14, <3>1 DEF IInv, Unseen
      <4>2. Then(mon', index, p) = None /\ RowThen(mon', rows, p) = None
        BY <2>1, <3>1, <4>1
      <4> QED BY <1>10, <3>1, <4>2 DEF Good, Backed
    <3>2. CASE p \in t.in /\ p \notin t.last /\ ~Quarantined(p) /\ AtIn(disk, folders, p) # {}
      <4>1. here(p) = ProbeIn(disk, folders, p) /\ here(p) # None
        BY <1>10, <3>2
      <4>2. Then(mon', index, p) = here(p)
        BY <1>8, <2>1, <3>2, <4>1
      <4> QED BY <4>1, <4>2 DEF Good, Backed
    <3>3. CASE p \in t.out /\ (p \in t.in => p \in t.last) /\ AtIn(disk, folders, p) = {}
      <4>1. here(p) = None
        BY <1>10, <3>3
      <4>2. RowThen(mon', rows, p) = None
        BY <2>1, <3>3
      <4>3. CASE p \in t.in
        <5>1. p \in ghost'
          BY <1>1, <3>3, <4>3
        <5> QED BY <4>1, <4>2, <5>1 DEF Good, Backed
      <4>4. CASE p \notin t.in
        <5>1. Then(mon', index, p) = None
          BY <2>1, <3>3, <4>4
        <5> QED BY <4>1, <4>2, <5>1 DEF Good, Backed
      <4> QED BY <4>3, <4>4
    <3> QED BY <1>6, <1>14, <2>3, <3>1, <3>2, <3>3
  <2> QED BY <2>2, <2>3
<1> QED BY <1>11, <1>12, <1>13, <1>15, <1>16, <1>17, <1>18 DEF IInv

-----------------------------------------------------------------------------
(* The invariant holds at the start.                                       *)
LEMMA InitKeeps == ASSUME Init PROVE IInv
<1>1. PICK v \in Volumes : disk = v.disk /\ folders = v.folders
  BY DEF Init
<1>2. Ordered(disk, folders)
  <2>1. /\ disk \in [File -> Entry \cup {None}] /\ folders \in [Folder -> FolderName \cup {None}]
        /\ \A d, e \in Folder : folders[d] # None /\ folders[d] = folders[e] => d = e
        /\ \A f \in File : disk[f] # None => disk[f].dir = Root \/ folders[disk[f].dir] # None
        /\ \A f, g \in File : disk[f] # None /\ disk[g] # None
             /\ disk[f].dir = disk[g].dir /\ disk[f].name = disk[g].name => f = g
    BY <1>1, VolumesOK
  <2> QED BY <2>1 DEF Ordered
<1>3. /\ open = [f \in File |-> {}]
      /\ unread = <<>> /\ next = 0 /\ low = 0 /\ jid = 1
      /\ cursor = [jid |-> 1, next |-> 0]
      /\ rows = [p \in Path |-> FoundIn(disk, folders, p)] /\ index = rows
      /\ cache = Seeded /\ mon = Idle /\ scan = None
      /\ faults = 0 /\ ghost = {} /\ doubtful = {}
  BY Now DEF Init, Cursor
<1>4. mon.pc = "idle" /\ mon.pc \notin Working /\ mon.pc # "read"
  BY <1>3 DEF Idle, Working
<1>5. cursor \in Cursors /\ cursor # None /\ cursor.jid = 1 /\ cursor.next = 0
  BY <1>3, Apart DEF Cursors
<1>6. \A p \in Path : FoundIn(disk, folders, p) \in Content /\ (Quarantined(p) => FoundIn(disk, folders, p) = None)
  BY <1>2, FoundIs DEF Content
<1>7. rows \in [Path -> Content] /\ \A p \in Path : rows[p] = FoundIn(disk, folders, p)
  BY <1>3, <1>6
<1>8. Holds /\ Counts /\ Written(unread) /\ Journalled
  BY <1>3, Apart DEF Holds, Counts, Written, Journalled
<1>9. Stored
  BY <1>3, <1>5, <1>7, SeededIs DEF Stored
<1>10. Volume
  BY <1>2, <1>3 DEF Volume
<1>11. Control /\ Unseen
  BY <1>3, <1>4, <1>5, <1>6, <1>7 DEF Control, Unseen
<1>12. Kept
  <2> SUFFICES ASSUME NEW p \in FilePath
               PROVE  Good(index[p], p, FoundIn(disk, folders, p), ghost)
                      /\ Backed(rows[p], p, FoundIn(disk, folders, p), ghost)
    BY <1>4 DEF Kept
  <2> QED BY <1>3, <1>7, FilePathIs DEF Good, Backed
<1> QED BY <1>8, <1>9, <1>10, <1>11, <1>12 DEF IInv

(* What holds stays as long as nothing changes.                            *)
LEMMA Still == ASSUME IInv, UNCHANGED vars PROVE IInv'
  BY DEF vars, volume, store, history, IInv, Holds, Counts, Stored, Volume, Journalled, Control, Synced, Unseen, Kept

(* Every operation of the user keeps the invariant.                        *)
LEMMA UserKeeps == ASSUME IInv, User PROVE IInv'
<1>1. Volume
  BY DEF IInv
<1>2. ASSUME NEW f \in File, NEW d \in Folder \cup {Root}, NEW n \in FileName, CreateFile(f, d, n) \/ MoveFile(f, d, n)
      PROVE  \E recs : Logs(recs)
  BY <1>1, <1>2, CreateFileLogs, MoveFileLogs
<1>3. ASSUME NEW f \in File, WriteFile(f) \/ DeleteFile(f) PROVE \E recs : Logs(recs)
  BY <1>1, <1>3, WriteFileLogs, DeleteFileLogs
<1>4. ASSUME NEW d \in Folder, NEW n \in FolderName, CreateFolder(d, n) \/ RenameFolder(d, n)
      PROVE  \E recs : Logs(recs)
  BY <1>1, <1>4, CreateFolderLogs, RenameFolderLogs
<1>5. ASSUME NEW d \in Folder, RemoveFolder(d) PROVE \E recs : Logs(recs)
  BY <1>1, <1>5, RemoveFolderLogs
<1>6. (\E recs : Logs(recs)) \/ Discard \/ Recreate
  BY <1>2, <1>3, <1>4, <1>5 DEF User
<1> QED BY <1>6, LogsKeep, DiscardKeeps, RecreateKeeps

(* Every step of the monitor keeps it.                                     *)
LEMMA MonitorKeeps == ASSUME IInv, Monitor PROVE IInv'
<1>1. CASE Query
  BY <1>1, QueryKeeps
<1>2. CASE QueryStale
  BY <1>2, QueryStaleKeeps
<1>3. CASE ReadChunk
  BY <1>3, ReadChunkKeeps
<1>4. CASE ReadDiscarded
  BY <1>4, ReadDiscardedKeeps
<1>5. CASE ReadFails
  BY <1>5, ReadFailsKeeps
<1>6. CASE EndRead
  BY <1>6, EndReadKeeps
<1>7. CASE EndReadStale
  BY <1>7, EndReadStaleKeeps
<1>8. CASE ApplyHot
  BY <1>8, ApplyHotKeeps
<1>9. CASE Prune
  BY <1>9, PruneKeeps
<1>10. CASE Commit
  BY <1>10, CommitKeeps
<1> QED BY <1>1, <1>2, <1>3, <1>4, <1>5, <1>6, <1>7, <1>8, <1>9, <1>10 DEF Monitor

(* The invariant holds always.                                             *)
THEOREM MonitorInvariant == Spec => []IInv
<1>1. Init => IInv
  BY InitKeeps
<1>2. IInv /\ [Next]_vars => IInv'
  <2> SUFFICES ASSUME IInv, [Next]_vars PROVE IInv'
    OBVIOUS
  <2>1. CASE User
    BY <2>1, UserKeeps
  <2>2. CASE Monitor
    BY <2>2, MonitorKeeps
  <2>3. CASE ScanDisk
    BY <2>3, ScanDiskKeeps
  <2>4. CASE Capture
    BY <2>4, CaptureKeeps
  <2>5. CASE Restart
    BY <2>5, RestartKeeps
  <2>6. CASE UNCHANGED vars
    BY <2>6, Still
  <2> QED BY <2>1, <2>2, <2>3, <2>4, <2>5, <2>6 DEF Next
<1> QED BY <1>1, <1>2, PTL DEF Spec

(* What the variables hold.                                                *)
THEOREM TypeCorrect == Spec => []TypeOK
<1>1. IInv => TypeOK
  <2> SUFFICES ASSUME IInv PROVE TypeOK
    OBVIOUS
  <2>1. disk \in [File -> {None} \cup Entry] /\ folders \in [Folder -> FolderName \cup {None}]
    BY DEF IInv, Volume, Ordered
  <2>2. jid \in 1 .. MaxFaults + 1 /\ low \in 0 .. next
    BY Apart DEF IInv, Counts
  <2>3. /\ cursor \in Cursors \cup {None}
        /\ rows \in [Path -> Content] /\ index \in [Path -> Content]
        /\ cache \in [Ref -> Path \cup {None}]
        /\ ghost \cup doubtful \subseteq Path
    BY DEF IInv, Stored, Cached
  <2>4. mon.pc \in {"idle", "read", "apply", "prune", "commit"}
    BY Busy DEF IInv, Holds, Working
  <2> QED BY <2>1, <2>2, <2>3, <2>4 DEF TypeOK
<1> QED BY <1>1, MonitorInvariant, PTL

(* When nothing is left to do, no path has an unread record.               *)
LEMMA QuietIs ==
  ASSUME IInv, Quiet, NEW p \in FilePath, p \notin doubtful
  PROVE  Good(index[p], p, FoundIn(disk, folders, p), ghost) /\ Backed(rows[p], p, FoundIn(disk, folders, p), ghost)
<1>1. Synced /\ cursor.next = next
  BY DEF Quiet, Synced
<1>2. cursor.next \in Nat /\ Len(unread) \in Nat /\ cursor.next + Len(unread) = next
  BY <1>1, Apart DEF IInv, Stored, Cursors, Written, Control, Synced
<1>3. Len(unread) = 0
  BY <1>1, <1>2
<1>4. Clear(unread, 0, p)
  BY <1>3 DEF Clear
<1> QED BY <1>1, <1>4 DEF IInv, Kept

(* The index follows the disk.                                             *)
THEOREM IndexFollows == Spec => []IndexFollowsDisk
<1>1. IInv => IndexFollowsDisk
  <2> SUFFICES ASSUME IInv, Quiet, NEW p \in FilePath \ doubtful
               PROVE  index[p] = Found(p) \/ (p \in ghost /\ Found(p) = None)
    BY DEF IndexFollowsDisk
  <2>1. Found(p) = FoundIn(disk, folders, p)
    BY Now
  <2> QED BY <2>1, QuietIs DEF Good
<1> QED BY <1>1, MonitorInvariant, PTL

(* Nothing in the quarantine is seen.                                      *)
THEOREM NeverSeen == Spec => []QuarantineUnseen
<1>1. IInv => QuarantineUnseen
  BY DEF IInv, Unseen, QuarantineUnseen
<1> QED BY <1>1, MonitorInvariant, PTL

(* The rows follow the index.                                              *)
THEOREM RowsFollow == Spec => []RowsFollowIndex
<1>1. IInv => RowsFollowIndex
  <2> SUFFICES ASSUME IInv, Quiet, NEW p \in FilePath \ (doubtful \cup ghost), rows[p] # None
               PROVE  index[p] # None
    BY DEF RowsFollowIndex
  <2>1. Good(index[p], p, FoundIn(disk, folders, p), ghost) /\ Backed(rows[p], p, FoundIn(disk, folders, p), ghost)
    BY QuietIs
  <2> QED BY <2>1 DEF Good, Backed
<1> QED BY <1>1, MonitorInvariant, PTL
=============================================================================
