------------------------- MODULE ScanSessionProofs -------------------------
(***************************************************************************)
(* What holds of scan sessions for any number of them, any files, any      *)
(* settings and detectors, and any number of changes and decisions.        *)
(*   - One session works at a time (SessionsExclusive), and scan.stop      *)
(*     reaches it, from the invariant Held: the flag and the token of      *)
(*     ScanController through the steps of a thread.                       *)
(*   - The types of all variables (TypeCorrect), from Typed.               *)
(*   - What the user decided last stands throughout the first scan         *)
(*     (DecisionsHold), and a candidate offered as a duplicate has a copy  *)
(*     that is not (CopyStays), from the invariant Recorded: records are   *)
(*     told apart by path and by id (Rows), what a thread holds was read   *)
(*     from them (Traced), it says of who is kept what the index says      *)
(*     (Wanted), and whoever is or will be offered is a member of one      *)
(*     group other than the copy that group keeps (Grouped).               *)
(***************************************************************************)
EXTENDS ScanSession, FiniteSetTheorems, WellFoundedInduction, TLAPS

-----------------------------------------------------------------------------
(* The inductive invariant. A session whose settings were refused never
   frees the controller, so it counts as holding it.                       *)
Holding(c) == pc[c] \notin {"new", "done"}

Threads == pc \in [Session -> Places]

Owned == \A c \in Session : Holding(c) => running

Sole == \A c, other \in Session : Holding(c) /\ Holding(other) => c = other

Known == \A c \in Session : Holding(c) /\ pc[c] \notin {"token", "ending"} => token = c

Held == Threads /\ Owned /\ Sole /\ Known

(* A step that moves one thread and leaves the controller alone.           *)
Between == {"new", "token", "ending", "done"}

Moves(c) ==
  /\ pc[c] \notin Between
  /\ \E place \in Places \ Between : pc' = [pc EXCEPT ![c] = place]
  /\ UNCHANGED <<running, token>>

(* Such a step keeps the invariant.                                        *)
LEMMA MoveKeeps == ASSUME NEW c \in Session, Held, Moves(c) PROVE Held'
<1>1. pc' \in [Session -> Places] /\ pc'[c] \notin Between /\ \A d \in Session \ {c} : pc'[d] = pc[d]
  BY DEF Moves, Held, Threads
<1>2. \A d \in Session : Holding(d)' <=> Holding(d)
  BY <1>1 DEF Moves, Between, Holding
<1>3. Threads' /\ Owned' /\ Sole'
  BY <1>1, <1>2 DEF Held, Threads, Owned, Sole, Moves
<1>4. Known'
  BY <1>1, <1>2 DEF Held, Known, Moves, Between
<1> QED BY <1>3, <1>4 DEF Held

(* So does a step that touches neither the threads nor the controller.     *)
LEMMA StillHeld == ASSUME Held, UNCHANGED <<pc, running, token>> PROVE Held'
  BY DEF Held, Threads, Owned, Sole, Known, Holding

-----------------------------------------------------------------------------
(* Every step of a thread between taking the token and ending moves it.    *)

(* The steps of the search for files.                                      *)
LEMMA FindMoves ==
  ASSUME NEW c \in Session, Held, Spawn(c) \/ Batch(c) \/ Tag(c) \/ Count(c) \/ EndFind(c)
  PROVE  Moves(c)
<1>1. CASE Spawn(c)
  BY <1>1 DEF Spawn, At, Goto, Moves, Between, Places, Idle, control
<1>2. CASE Batch(c)
  BY <1>2 DEF Batch, At, Goto, Moves, Between, Places, Idle, control
<1>3. CASE Tag(c)
  BY <1>3 DEF Tag, At, Goto, Moves, Between, Places, Idle, control
<1>4. CASE Count(c)
  BY <1>4 DEF Count, At, Goto, Moves, Between, Places, Idle, control
<1>5. CASE EndFind(c)
  BY <1>5 DEF EndFind, At, Goto, Moves, Between, Places, Idle, control
<1> QED BY <1>1, <1>2, <1>3, <1>4, <1>5

(* Those of the duplicate cascade.                                         *)
LEMMA CascadeMoves ==
  ASSUME NEW c \in Session, Held, Snapshot(c) \/ Hash(c) \/ Promote(c) \/ Recount(c) \/ Store(c)
  PROVE  Moves(c)
<1>1. CASE Snapshot(c)
  BY <1>1 DEF Snapshot, At, Goto, Moves, Between, Places, Idle, control
<1>2. CASE Hash(c)
  BY <1>2 DEF Hash, At, Goto, Moves, Between, Places, Idle, control
<1>3. CASE Promote(c)
  BY <1>3 DEF Promote, At, Goto, Moves, Between, Places, Idle, control
<1>4. CASE Recount(c)
  BY <1>4 DEF Recount, At, Goto, Moves, Between, Places, Idle, control
<1>5. CASE Store(c)
  BY <1>5 DEF Store, At, Goto, Moves, Between, Places, Idle, control
<1> QED BY <1>1, <1>2, <1>3, <1>4, <1>5

(* Those of the pass over folder units.                                    *)
LEMMA UnitsMove ==
  ASSUME NEW c \in Session, Held, CountUnits(c) \/ InsertUnits(c)
  PROVE  Moves(c)
<1>1. CASE CountUnits(c)
  BY <1>1 DEF CountUnits, At, Goto, Moves, Between, Places, Idle, control
<1>2. CASE InsertUnits(c)
  BY <1>2 DEF InsertUnits, At, Goto, Moves, Between, Places, Idle, control
<1> QED BY <1>1, <1>2

-----------------------------------------------------------------------------
(* The steps that work on the controller.                                  *)

(* ScanController.begin is passed only while nobody holds the controller.  *)
LEMMA BeginKeeps == ASSUME NEW c \in Session, Held, Begin(c) PROVE Held'
<1>1. pc \in [Session -> Places]
  BY DEF Held, Threads
<1>2. /\ pc' \in [Session -> Places] /\ pc'[c] = "token"
      /\ \A d \in Session \ {c} : pc'[d] = pc[d]
      /\ running' /\ token' = token
  BY <1>1 DEF Begin, Goto, Places
<1>3. \A d \in Session : ~Holding(d)
  BY DEF Begin, Free, Held, Owned
<1>4. \A d \in Session : Holding(d)' <=> d = c
  BY <1>2, <1>3 DEF Holding
<1>5. Threads' /\ Owned' /\ Sole'
  BY <1>2, <1>4 DEF Threads, Held, Owned, Sole
<1>6. Known'
  BY <1>2, <1>4 DEF Known
<1> QED BY <1>5, <1>6 DEF Held

(* The token becomes that of the session that has begun.                   *)
LEMMA TakeTokenKeeps == ASSUME NEW c \in Session, Held, TakeToken(c) PROVE Held'
<1>1. pc \in [Session -> Places]
  BY DEF Held, Threads
<1>2. /\ pc' \in [Session -> Places] /\ pc'[c] = "spawn"
      /\ \A d \in Session \ {c} : pc'[d] = pc[d]
      /\ running' = running /\ token' = c /\ pc[c] = "token"
  BY <1>1 DEF TakeToken, Goto, At, Places
<1>3. \A d \in Session : Holding(d) <=> d = c
  BY <1>2 DEF Holding, Held, Sole
<1>4. \A d \in Session : Holding(d)' <=> d = c
  BY <1>2, <1>3 DEF Holding
<1>5. Threads' /\ Owned' /\ Sole'
  BY <1>2, <1>3, <1>4 DEF Threads, Held, Owned, Sole
<1>6. Known'
  BY <1>2, <1>4 DEF Known
<1> QED BY <1>5, <1>6 DEF Held

(* ScanController.end drops the token before it lets the next one in.      *)
LEMMA EndKeeps == ASSUME NEW c \in Session, Held, End(c) PROVE Held'
<1>1. pc \in [Session -> Places]
  BY DEF Held, Threads
<1>2. Closing[1] = "token" /\ Closing[2] = "flag"
  BY DEF Closing
<1>3. Holding(c) /\ \A d \in Session : Holding(d) => d = c
  BY DEF End, At, Holding, Held, Sole
<1>4. CASE At(c, "end") /\ Goto(c, "ending") /\ Close(c, Closing[1]) /\ UNCHANGED run
  <2>1. /\ pc' \in [Session -> Places] /\ pc'[c] = "ending"
        /\ \A d \in Session \ {c} : pc'[d] = pc[d]
        /\ running' = running
    BY <1>1, <1>2, <1>4 DEF Goto, Close, Places
  <2>2. \A d \in Session : Holding(d)' <=> d = c
    BY <2>1, <1>3 DEF Holding
  <2>3. Threads' /\ Owned' /\ Sole' /\ Known'
    BY <2>1, <2>2, <1>3 DEF Threads, Held, Owned, Sole, Known
  <2> QED BY <2>3 DEF Held
<1>5. CASE At(c, "ending") /\ Goto(c, "done") /\ Close(c, Closing[2]) /\ run' = [run EXCEPT ![c] = Clean]
  <2>1. /\ pc' \in [Session -> Places] /\ pc'[c] = "done"
        /\ \A d \in Session \ {c} : pc'[d] = pc[d]
    BY <1>1, <1>5 DEF Goto, Places, Idle
  <2>2. \A d \in Session : ~Holding(d)'
    BY <2>1, <1>3 DEF Holding
  <2>3. Threads' /\ Owned' /\ Sole' /\ Known'
    BY <2>1, <2>2 DEF Threads, Held, Owned, Sole, Known
  <2> QED BY <2>3 DEF Held
<1> QED BY <1>4, <1>5 DEF End

-----------------------------------------------------------------------------
(* The first state has the invariant.                                      *)
THEOREM HeldInit == Init => Held
<1> SUFFICES ASSUME Init PROVE Held
  OBVIOUS
<1>1. pc = [c \in Session |-> "new"]
  BY DEF Init
<1>2. Threads
  BY <1>1 DEF Threads, Places, Idle
<1>3. \A c \in Session : ~Holding(c)
  BY <1>1 DEF Holding
<1> QED BY <1>2, <1>3 DEF Held, Owned, Sole, Known

(* Every step keeps the invariant.                                         *)
THEOREM HeldNext == Held /\ [Next]_vars => Held'
<1> SUFFICES ASSUME Held, [Next]_vars PROVE Held'
  OBVIOUS
<1>1. CASE \E c \in Session : SessionStep(c)
  <2> PICK c \in Session : SessionStep(c)
    BY <1>1
  <2>1. CASE Begin(c) \/ TakeToken(c) \/ End(c)
    BY <2>1, BeginKeeps, TakeTokenKeeps, EndKeeps
  <2>2. CASE ~(Begin(c) \/ TakeToken(c) \/ End(c))
    <3>1. Moves(c)
      BY <2>2, FindMoves, CascadeMoves, UnitsMove DEF SessionStep
    <3> QED BY <3>1, MoveKeeps
  <2> QED BY <2>1, <2>2
<1>2. CASE \E k \in Change : ApplyStep(k)
  <2>1. UNCHANGED <<pc, running, token>>
    BY <1>2 DEF ApplyStep, SetSettings, Recalculate, Publish, Reapply, Rewrite, Reread, Retotal, control
  <2> QED BY <2>1, StillHeld
<1>3. CASE Stop \/ Decide \/ Total \/ UNCHANGED vars
  <2>1. UNCHANGED <<pc, running, token>>
    BY <1>3 DEF Stop, Decide, Total, control, vars
  <2> QED BY <2>1, StillHeld
<1> QED BY <1>1, <1>2, <1>3 DEF Next

(* The invariant always holds.                                             *)
THEOREM HeldAlways == Spec => []Held
  BY HeldInit, HeldNext, PTL DEF Spec

(* One session works at a time: the compare-and-swap of ScanController
   admits a session only after the former one has ended. And scan.stop
   finds the token of the session that works, never that of one that has
   ended.                                                                  *)
THEOREM SessionsExclusive == Spec => []OneSession
<1>1. ASSUME Held, NEW c \in Session, NEW other \in Session, Busy(c), Busy(other) PROVE c = other
  BY <1>1 DEF Held, Sole, Holding, Busy, Idle
<1>2. ASSUME Held, NEW c \in Session, Busy(c), pc[c] \notin {"token", "ending"} PROVE token = c
  BY <1>2 DEF Held, Known, Holding, Busy, Idle
<1>3. Held => OneSession
  BY <1>1, <1>2 DEF OneSession
<1> QED BY <1>3, HeldAlways, PTL

-----------------------------------------------------------------------------
(* Induction over the natural numbers, by their order being well-founded.  *)
Below == {ss \in Nat \X Nat : ss[1] < ss[2]}

(* The order is well-founded.                                              *)
LEMMA BelowWF == IsWellFoundedOn(Below, Nat)
<1>1. OpToRel(<, Nat) = Below
  BY DEF OpToRel, Below
<1> QED BY <1>1, NatLessThanWellFounded

(* A set of numbers that is not empty has a least one.                     *)
LEMMA Least == ASSUME NEW T, T \subseteq Nat, T # {} PROVE \E n \in T : \A m \in T : n <= m
<1>0. \E n \in T : \A m \in T : ~(<<m, n>> \in Below)
  BY BelowWF, WFMin, Zenon
<1>1. PICK n \in T : \A m \in T : ~(<<m, n>> \in Below)
  BY <1>0
<1>2. ASSUME NEW m \in T, m < n PROVE <<m, n>> \in Below
  BY <1>2 DEF Below
<1>3. ASSUME NEW m \in T PROVE n <= m
  <2>1. ~(m < n)
    BY <1>1, <1>2
  <2> QED BY <2>1
<1> QED BY <1>3

(* A set with 0 and every successor of its members has all numbers.        *)
LEMMA Induct == ASSUME NEW S, 0 \in S, \A n \in Nat : n \in S => n + 1 \in S PROVE Nat \subseteq S
<1>1. SUFFICES ASSUME Nat \ S # {} PROVE FALSE
  OBVIOUS
<1>2. PICK n \in Nat \ S : \A m \in Nat \ S : n <= m
  BY <1>1, Least
<1>3. n # 0 /\ n - 1 \in Nat
  BY <1>2
<1>4. n - 1 \in S
  BY <1>2, <1>3
<1> QED BY <1>2, <1>3, <1>4

(* A set of positions that is not empty has a greatest one.                *)
LEMMA MaxIn == ASSUME NEW S, S # {}, NEW n \in Nat, S \subseteq 1 .. n PROVE Max(S) \in S
<1> DEFINE T == {m \in Nat : \A s \in S : s <= m}
<1>1. n \in T
  OBVIOUS
<1>2. PICK m \in T : \A k \in T : m <= k
  <2>1. T \subseteq Nat
    OBVIOUS
  <2> HIDE DEF T
  <2> QED BY <1>1, <2>1, Least
<1>3. m \in S
  <2>1. SUFFICES ASSUME m \notin S PROVE FALSE
    OBVIOUS
  <2>0. PICK s \in S : TRUE
    OBVIOUS
  <2>2. m # 0 /\ m - 1 \in Nat
    <3>1. s \in 1 .. n /\ s <= m /\ m \in Nat
      BY <1>2, <2>0
    <3> QED BY <3>1
  <2>3. m - 1 \in T
    BY <2>1, <2>2
  <2>4. m \in Nat
    BY <1>2
  <2> HIDE DEF T
  <2>5. m <= m - 1
    BY <1>2, <2>3
  <2> QED BY <2>4, <2>5
<1>4. ASSUME NEW s \in S PROVE m >= s
  BY <1>2
<1> QED BY <1>3, <1>4 DEF Max

(* The steps of Upsert, which are its definition once there is a function
   that takes them.                                                        *)
LEMMA UpsertSteps ==
  ASSUME NEW recs, NEW new \in Seq(Records)
  PROVE  \E after :
           /\ DOMAIN after = 0 .. Len(new)
           /\ after[0] = recs
           /\ \A n \in 1 .. Len(new) : after[n] = UpsertOne(after[n - 1], new[n])
           /\ Upsert(recs, new) = after[Len(new)]
<1> DEFINE N == Len(new)
           Steps(f, n) == f = [m \in 0 .. n |-> IF m = 0 THEN recs ELSE UpsertOne(f[m - 1], new[m])]
           S == {n \in Nat : \E f : Steps(f, n)}
<1>1. 0 \in S
  <2>1. Steps([m \in 0 .. 0 |-> recs], 0)
    OBVIOUS
  <2> QED BY <2>1
<1>2. \A n \in Nat : n \in S => n + 1 \in S
  <2> SUFFICES ASSUME NEW n \in Nat, NEW f, Steps(f, n) PROVE \E g : Steps(g, n + 1)
    OBVIOUS
  <2> DEFINE g == [m \in 0 .. n + 1 |-> IF m = 0 THEN recs ELSE UpsertOne(f[m - 1], new[m])]
  <2>1. \A m \in 0 .. n : g[m] = f[m]
    OBVIOUS
  <2>2. \A m \in 0 .. n + 1 : m # 0 => g[m - 1] = f[m - 1]
    BY <2>1
  <2>3. g = [m \in 0 .. n + 1 |-> IF m = 0 THEN recs ELSE UpsertOne(g[m - 1], new[m])]
    <3> HIDE DEF g
    <3>1. g = [m \in 0 .. n + 1 |-> IF m = 0 THEN recs ELSE UpsertOne(f[m - 1], new[m])]
      BY DEF g
    <3> QED BY <2>2, <3>1
  <2> QED BY <2>3
<1>3. N \in S
  <2> HIDE DEF S
  <2>1. Nat \subseteq S
    BY <1>1, <1>2, Induct
  <2> QED BY <2>1
<1>4. \E f : Steps(f, N)
  BY <1>3
<1> DEFINE after[n \in 0 .. N] == IF n = 0 THEN recs ELSE UpsertOne(after[n - 1], new[n])
<1>5. Steps(after, N)
  BY <1>4, Zenon
<1>6. Upsert(recs, new) = after[N]
  BY DEF Upsert
<1> HIDE DEF after
<1>7. DOMAIN after = 0 .. N /\ after[0] = recs /\ \A n \in 1 .. N : after[n] = UpsertOne(after[n - 1], new[n])
  <2>1. N \in Nat
    OBVIOUS
  <2> HIDE DEF N
  <2>2. after = [m \in 0 .. N |-> IF m = 0 THEN recs ELSE UpsertOne(after[m - 1], new[m])]
    BY <1>5
  <2> QED BY <2>1, <2>2
<1> QED BY <1>6, <1>7

(* A record replaces the last one of its path or is appended.              *)
LEMMA UpsertOneType ==
  ASSUME NEW recs \in Seq(Records), NEW r \in Records
  PROVE  UpsertOne(recs, r) \in Seq(Records)
<1> DEFINE at == {k \in DOMAIN recs : recs[k].path = r.path}
<1>1. CASE at = {}
  <2>1. UpsertOne(recs, r) = Append(recs, r)
    BY <1>1 DEF UpsertOne
  <2> QED BY <2>1
<1>2. CASE at # {}
  <2>1. UpsertOne(recs, r) = [recs EXCEPT ![Max(at)] = r]
    BY <1>2 DEF UpsertOne
  <2>2. Len(recs) \in Nat /\ at \subseteq 1 .. Len(recs)
    OBVIOUS
  <2>3. Max(at) \in at
    <3> HIDE DEF at
    <3> QED BY <1>2, <2>2, MaxIn
  <2>4. Max(at) \in 1 .. Len(recs)
    BY <2>2, <2>3
  <2> HIDE DEF at
  <2> QED BY <2>1, <2>4
<1> QED BY <1>1, <1>2

(* Where every step of Upsert stays in a set, its result is in the set.    *)
LEMMA UpsertWithin ==
  ASSUME NEW recs, NEW new \in Seq(Records), NEW Stage, recs \in Stage[0],
         \A n \in 1 .. Len(new) : \A x \in Stage[n - 1] : UpsertOne(x, new[n]) \in Stage[n]
  PROVE  Upsert(recs, new) \in Stage[Len(new)]
<1>1. PICK after :
        /\ DOMAIN after = 0 .. Len(new)
        /\ after[0] = recs
        /\ \A n \in 1 .. Len(new) : after[n] = UpsertOne(after[n - 1], new[n])
        /\ Upsert(recs, new) = after[Len(new)]
  BY UpsertSteps
<1> DEFINE S == {n \in Nat : n <= Len(new) => after[n] \in Stage[n]}
<1>2. 0 \in S
  BY <1>1
<1>3. \A n \in Nat : n \in S => n + 1 \in S
  <2> SUFFICES ASSUME NEW n \in S, n + 1 <= Len(new) PROVE after[n + 1] \in Stage[n + 1]
    OBVIOUS
  <2>1. n \in Nat /\ n + 1 \in 1 .. Len(new) /\ (n + 1) - 1 = n /\ after[n] \in Stage[n]
    OBVIOUS
  <2>2. after[n + 1] = UpsertOne(after[n], new[n + 1])
    BY <1>1, <2>1
  <2> QED BY <2>1, <2>2
<1>4. Len(new) \in S
  <2> HIDE DEF S
  <2>1. Nat \subseteq S
    BY <1>2, <1>3, Induct
  <2> QED BY <2>1
<1> QED BY <1>1, <1>4

(* Upsert yields records.                                                  *)
LEMMA UpsertType ==
  ASSUME NEW recs \in Seq(Records), NEW new \in Seq(Records)
  PROVE  Upsert(recs, new) \in Seq(Records)
<1> DEFINE Stage == [n \in Nat |-> Seq(Records)]
<1>1. recs \in Stage[0]
  OBVIOUS
<1>2. \A n \in 1 .. Len(new) : \A x \in Stage[n - 1] : UpsertOne(x, new[n]) \in Stage[n]
  <2> SUFFICES ASSUME NEW n \in 1 .. Len(new), NEW x \in Stage[n - 1]
               PROVE  UpsertOne(x, new[n]) \in Stage[n]
    OBVIOUS
  <2>1. n \in Nat /\ n - 1 \in Nat /\ x \in Seq(Records) /\ new[n] \in Records
    OBVIOUS
  <2> QED BY <2>1, UpsertOneType
<1>3. Len(new) \in Nat
  OBVIOUS
<1>4. Upsert(recs, new) \in Stage[Len(new)]
  <2> HIDE DEF Stage
  <2> QED BY <1>1, <1>2, UpsertWithin
<1> QED BY <1>3, <1>4

(* Every id and every path has one record.                                 *)
Distinct(recs) ==
  \A j, k \in DOMAIN recs : recs[j].path = recs[k].path \/ recs[j].id = recs[k].id => j = k

(* Records of known files replace theirs, and no other changes.            *)
LEMMA UpsertInPlace ==
  ASSUME NEW recs \in Seq(Records), NEW new \in Seq(Records), Distinct(recs),
         \A j \in DOMAIN new : \E k \in DOMAIN recs : recs[k].path = new[j].path /\ recs[k].id = new[j].id
  PROVE  LET out == Upsert(recs, new) IN
         /\ out \in Seq(Records) /\ DOMAIN out = DOMAIN recs
         /\ \A k \in DOMAIN recs :
              /\ out[k].path = recs[k].path /\ out[k].id = recs[k].id
              /\ \/ /\ out[k] = recs[k]
                    /\ \A j \in DOMAIN new : new[j].path # recs[k].path
                 \/ \E j \in DOMAIN new : out[k] = new[j]
<1> DEFINE Stage == [n \in Nat |->
      {x \in Seq(Records) :
         /\ DOMAIN x = DOMAIN recs
         /\ \A k \in DOMAIN recs :
              /\ x[k].path = recs[k].path /\ x[k].id = recs[k].id
              /\ \/ /\ x[k] = recs[k]
                    /\ \A j \in DOMAIN new : j <= n => new[j].path # recs[k].path
                 \/ \E j \in DOMAIN new : x[k] = new[j]}]
<1>1. recs \in Stage[0]
  OBVIOUS
<1>2. ASSUME NEW n \in 1 .. Len(new), NEW x \in Stage[n - 1] PROVE UpsertOne(x, new[n]) \in Stage[n]
  <2>1. n \in Nat /\ n - 1 \in Nat /\ n \in DOMAIN new
    OBVIOUS
  <2>2. /\ x \in Seq(Records) /\ DOMAIN x = DOMAIN recs
        /\ \A k \in DOMAIN recs :
              /\ x[k].path = recs[k].path /\ x[k].id = recs[k].id
              /\ \/ /\ x[k] = recs[k]
                    /\ \A j \in DOMAIN new : j <= n - 1 => new[j].path # recs[k].path
                 \/ \E j \in DOMAIN new : x[k] = new[j]
    BY <2>1
  <2>3. PICK m \in DOMAIN recs : recs[m].path = new[n].path /\ recs[m].id = new[n].id
    BY <2>1
  <2>4. {k \in DOMAIN x : x[k].path = new[n].path} = {m}
    BY <2>2, <2>3 DEF Distinct
  <2>5. Max({m}) = m
    <3>1. m \in Nat
      OBVIOUS
    <3> QED BY <3>1 DEF Max
  <2>6. UpsertOne(x, new[n]) = [x EXCEPT ![m] = new[n]]
    BY <2>4, <2>5 DEF UpsertOne
  <2> DEFINE y == [x EXCEPT ![m] = new[n]]
  <2>7. y \in Seq(Records) /\ DOMAIN y = DOMAIN recs /\ y[m] = new[n]
        /\ \A k \in DOMAIN recs \ {m} : y[k] = x[k]
    BY <2>1, <2>2, <2>3
  <2>8. ASSUME NEW k \in DOMAIN recs
        PROVE  /\ y[k].path = recs[k].path /\ y[k].id = recs[k].id
               /\ \/ /\ y[k] = recs[k]
                     /\ \A j \in DOMAIN new : j <= n => new[j].path # recs[k].path
                  \/ \E j \in DOMAIN new : y[k] = new[j]
    <3> HIDE DEF y
    <3>1. CASE k = m
      BY <2>1, <2>3, <2>7, <3>1
    <3>2. CASE k # m
      <4>1. y[k] = x[k]
        BY <2>7, <3>2
      <4>2. CASE \E j \in DOMAIN new : x[k] = new[j]
        BY <2>2, <4>1, <4>2
      <4>3. CASE x[k] = recs[k] /\ \A j \in DOMAIN new : j <= n - 1 => new[j].path # recs[k].path
        <5>1. new[n].path # recs[k].path
          BY <2>3, <3>2 DEF Distinct
        <5>2. ASSUME NEW j \in DOMAIN new, j <= n PROVE new[j].path # recs[k].path
          <6>1. j = n \/ j <= n - 1
            BY <2>1, <5>2
          <6> QED BY <4>3, <5>1, <6>1
        <5> QED BY <4>1, <4>3, <5>2
      <4> QED BY <2>2, <4>2, <4>3
    <3> QED BY <3>1, <3>2
  <2> HIDE DEF y
  <2>9. y \in Stage[n]
    BY <2>1, <2>7, <2>8
  <2> QED BY <2>6, <2>9 DEF y
<1>3. Len(new) \in Nat
  OBVIOUS
<1>4. Upsert(recs, new) \in Stage[Len(new)]
  <2> HIDE DEF Stage
  <2> QED BY <1>1, <1>2, UpsertWithin
<1>5. \A j \in DOMAIN new : j <= Len(new)
  OBVIOUS
<1> QED BY <1>3, <1>4, <1>5

(* Records with ids that are not there yet take the place of the records of
   their paths, or are added.                                              *)
LEMMA UpsertLays ==
  ASSUME NEW recs \in Seq(Records), NEW new \in Seq(Records), Distinct(recs), Distinct(new),
         \A j \in DOMAIN new : \A k \in DOMAIN recs : recs[k].id # new[j].id
  PROVE  LET out == Upsert(recs, new) IN
         /\ out \in Seq(Records) /\ Distinct(out)
         /\ \A k \in DOMAIN recs : k \in DOMAIN out /\ out[k].path = recs[k].path
         /\ \A k \in DOMAIN out :
              (k \in DOMAIN recs /\ out[k] = recs[k]) \/ \E j \in DOMAIN new : out[k] = new[j]
         /\ \A j \in DOMAIN new : \E k \in DOMAIN out : out[k] = new[j]
<1> DEFINE Stage == [n \in Nat |->
      {x \in Seq(Records) :
         /\ Distinct(x)
         /\ \A k \in DOMAIN recs : k \in DOMAIN x /\ x[k].path = recs[k].path
         /\ \A k \in DOMAIN x :
              (k \in DOMAIN recs /\ x[k] = recs[k]) \/ \E j \in DOMAIN new : j <= n /\ x[k] = new[j]
         /\ \A j \in DOMAIN new : j <= n => \E k \in DOMAIN x : x[k] = new[j]}]
<1>1. recs \in Stage[0]
  OBVIOUS
<1>2. ASSUME NEW n \in 1 .. Len(new), NEW x \in Stage[n - 1] PROVE UpsertOne(x, new[n]) \in Stage[n]
  <2>1. n \in Nat /\ n - 1 \in Nat /\ n \in DOMAIN new /\ new[n] \in Records
    OBVIOUS
  <2>2. /\ x \in Seq(Records) /\ Distinct(x)
        /\ \A k \in DOMAIN recs : k \in DOMAIN x /\ x[k].path = recs[k].path
        /\ \A k \in DOMAIN x :
             (k \in DOMAIN recs /\ x[k] = recs[k]) \/ \E j \in DOMAIN new : j <= n - 1 /\ x[k] = new[j]
        /\ \A j \in DOMAIN new : j <= n - 1 => \E k \in DOMAIN x : x[k] = new[j]
    BY <2>1
  <2>3. \A j \in DOMAIN new : (j <= n <=> j <= n - 1 \/ j = n) /\ (j <= n - 1 => j # n)
    BY <2>1
  <2>4. \A k \in DOMAIN x : x[k].id # new[n].id
    BY <2>1, <2>2, <2>3 DEF Distinct
  <2> HIDE DEF Stage
  <2>5. ASSUME NEW y \in Seq(Records), NEW m \in DOMAIN y, y[m] = new[n],
               DOMAIN x \subseteq DOMAIN y, \A k \in DOMAIN y : k # m => k \in DOMAIN x /\ y[k] = x[k],
               \A k \in DOMAIN x : k # m => x[k].path # new[n].path,
               m \in DOMAIN x => x[m].path = new[n].path
        PROVE  y \in Stage[n]
    <3>1. Distinct(y)
      BY <2>2, <2>4, <2>5 DEF Distinct
    <3>2. \A k \in DOMAIN recs : k \in DOMAIN y /\ y[k].path = recs[k].path
      BY <2>2, <2>5
    <3>3. \A k \in DOMAIN y :
            (k \in DOMAIN recs /\ y[k] = recs[k]) \/ \E j \in DOMAIN new : j <= n /\ y[k] = new[j]
      BY <2>1, <2>2, <2>3, <2>5
    <3>4. ASSUME NEW j \in DOMAIN new, j <= n PROVE \E k \in DOMAIN y : y[k] = new[j]
      <4>1. CASE j = n
        BY <2>5, <4>1
      <4>2. CASE j # n
        <5>1. PICK k \in DOMAIN x : x[k] = new[j]
          BY <2>2, <2>3, <3>4, <4>2
        <5>2. new[j].path # new[n].path
          BY <2>1, <4>2 DEF Distinct
        <5>3. k # m
          BY <2>5, <5>1, <5>2
        <5> QED BY <2>5, <5>1, <5>3
      <4> QED BY <4>1, <4>2
    <3> QED BY <2>1, <3>1, <3>2, <3>3, <3>4 DEF Stage
  <2>6. CASE \E k \in DOMAIN x : x[k].path = new[n].path
    <3>1. PICK m \in DOMAIN x : x[m].path = new[n].path
      BY <2>6
    <3>2. {k \in DOMAIN x : x[k].path = new[n].path} = {m}
      BY <2>2, <3>1 DEF Distinct
    <3>3. Max({m}) = m
      <4>1. m \in Nat
        BY <2>2
      <4> QED BY <4>1 DEF Max
    <3>4. UpsertOne(x, new[n]) = [x EXCEPT ![m] = new[n]]
      BY <3>2, <3>3 DEF UpsertOne
    <3> DEFINE y == [x EXCEPT ![m] = new[n]]
    <3>5. /\ y \in Seq(Records) /\ m \in DOMAIN y /\ y[m] = new[n] /\ DOMAIN y = DOMAIN x
          /\ \A k \in DOMAIN y : k # m => y[k] = x[k]
      BY <2>1, <2>2
    <3>6. \A k \in DOMAIN x : k # m => x[k].path # new[n].path
      BY <3>2
    <3> HIDE DEF y
    <3>7. y \in Stage[n]
      BY <2>5, <3>1, <3>5, <3>6
    <3> QED BY <3>4, <3>7 DEF y
  <2>7. CASE ~ \E k \in DOMAIN x : x[k].path = new[n].path
    <3>1. UpsertOne(x, new[n]) = Append(x, new[n])
      BY <2>7 DEF UpsertOne
    <3> DEFINE y == Append(x, new[n])
               m == Len(x) + 1
    <3>2. /\ y \in Seq(Records) /\ m \in DOMAIN y /\ y[m] = new[n] /\ DOMAIN x \subseteq DOMAIN y
          /\ (\A k \in DOMAIN y : k # m => k \in DOMAIN x /\ y[k] = x[k]) /\ m \notin DOMAIN x
      BY <2>1, <2>2
    <3> HIDE DEF y, m
    <3>3. y \in Stage[n]
      BY <2>5, <2>7, <3>2
    <3> QED BY <3>1, <3>3 DEF y
  <2> QED BY <2>6, <2>7
<1>3. Len(new) \in Nat
  OBVIOUS
<1>4. Upsert(recs, new) \in Stage[Len(new)]
  <2> HIDE DEF Stage
  <2> QED BY <1>1, <1>2, UpsertWithin
<1>5. \A j \in DOMAIN new : j <= Len(new)
  OBVIOUS
<1> QED BY <1>3, <1>4, <1>5

(* SetToSeq lists a finite set, and nothing else, without repetition.      *)
LEMMA ListOf ==
  ASSUME NEW S, IsFiniteSet(S)
  PROVE  /\ SetToSeq(S) \in Seq(S)
         /\ \A j, k \in DOMAIN SetToSeq(S) : SetToSeq(S)[j] = SetToSeq(S)[k] => j = k
<1>1. Cardinality(S) \in Nat /\ ExistsBijection(1 .. Cardinality(S), S)
  BY FS_CardinalityType
<1>2. \E f \in [1 .. Cardinality(S) -> S] : \A a, b \in DOMAIN f : f[a] = f[b] => a = b
  BY <1>1 DEF ExistsBijection, Bijection, Injection, Surjection, IsInjective
<1>3. SetToSeq(S) \in [1 .. Cardinality(S) -> S] /\ \A a, b \in DOMAIN SetToSeq(S) : SetToSeq(S)[a] = SetToSeq(S)[b] => a = b
  BY <1>2, Zenon DEF SetToSeq, IsInjective
<1> QED BY <1>1, <1>3

-----------------------------------------------------------------------------
(* Types.                                                                  *)

(* What the counters and the sessions that wait for their turn hold.       *)
Fitting ==
  /\ IsFiniteSet(pend)
  /\ \A c \in Session :
       /\ run[c].next + Cardinality(run[c].todo) <= Cardinality(Path)
       /\ pc[c] = "new" => run[c] = Clean

Typed == TypeOK /\ Fitting

(* The files can be counted, and so can any of them.                       *)
LEMMA Sizes == Cardinality(Path) \in Nat /\ \A S \in SUBSET Path : IsFiniteSet(S) /\ Cardinality(S) \in Nat
<1>1. IsFiniteSet(Path)
  BY ConstantsOK
<1>2. \A S \in SUBSET Path : IsFiniteSet(S)
  BY <1>1, FS_Subset
<1> QED BY <1>1, <1>2, FS_CardinalityType

(* What the detectors make of a path: never a duplicate.                   *)
LEMMA VerdictType ==
  ASSUME NEW s \in Setting, NEW p \in Place
  PROVE  /\ Hits[s][p] \in Seq(Claim)
         /\ Verdict(s, p) \in Claim \cup {"none"}
         /\ Verdict(s, p) # "duplicates"
         /\ Verdict(s, p) = "none" <=> Hits[s][p] = <<>>
<1>1. Hits[s][p] \in Seq(Claim)
  BY ConstantsOK
<1>2. Hits[s][p] # <<>> => Head(Hits[s][p]) \in Claim
  BY <1>1
<1> QED BY <1>1, <1>2, ConstantsOK DEF Verdict

(* The record found by an id is one of the records and has that id.        *)
LEMMA LastOfIn ==
  ASSUME NEW recs \in Seq(Records), NEW i \in Ids(recs)
  PROVE  /\ LastOf(recs, i) \in Range(recs)
         /\ LastOf(recs, i) \in Records
         /\ LastOf(recs, i).id = i
<1> DEFINE own == {k \in DOMAIN recs : recs[k].id = i}
<1>1. own # {} /\ own \subseteq 1 .. Len(recs) /\ Len(recs) \in Nat
  BY DEF Ids
<1>2. Max(own) \in own
  <2> HIDE DEF own
  <2> QED BY <1>1, MaxIn
<1>3. Max(own) \in DOMAIN recs /\ recs[Max(own)].id = i
  BY <1>2
<1>4. LastOf(recs, i) = recs[Max(own)]
  BY DEF LastOf
<1> HIDE DEF own
<1> QED BY <1>3, <1>4 DEF Range

(* What a sequence holds is finite and of its type.                        *)
LEMMA RangeOf ==
  ASSUME NEW S, NEW seq \in Seq(S)
  PROVE  Range(seq) \subseteq S /\ IsFiniteSet(Range(seq))
<1>1. Range(seq) \subseteq S
  BY DEF Range
<1>2. seq \in Surjection(1 .. Len(seq), Range(seq))
  <2>1. DOMAIN seq = 1 .. Len(seq) /\ seq \in [1 .. Len(seq) -> S]
    OBVIOUS
  <2>2. seq \in [1 .. Len(seq) -> Range(seq)]
    BY <2>1 DEF Range
  <2>3. \A t \in Range(seq) : \E j \in 1 .. Len(seq) : seq[j] = t
    BY <2>1 DEF Range
  <2> QED BY <2>2, <2>3 DEF Surjection
<1>3. IsFiniteSet(1 .. Len(seq))
  <2>1. Len(seq) \in Nat
    OBVIOUS
  <2> QED BY <2>1, FS_Interval
<1> QED BY <1>1, <1>2, <1>3, FS_Surjection

(* What is promoted are records of the sequence, with another category.    *)
LEMMA PromotableIn ==
  ASSUME NEW recs \in Seq(Records), NEW groups
  PROVE  /\ Promotable(recs, groups) \subseteq Records
         /\ SetToSeq(Promotable(recs, groups)) \in Seq(Records)
         /\ \A r \in Range(SetToSeq(Promotable(recs, groups))) : r \in Promotable(recs, groups)
<1> DEFINE Again == [r \in Range(recs) |-> [r EXCEPT !.cat = "duplicates"]]
           All == {Again[r] : r \in Range(recs)}
<1>1. Promotable(recs, groups) \subseteq All
  <2>1. ASSUME NEW i \in Ids(recs) PROVE [LastOf(recs, i) EXCEPT !.cat = "duplicates"] \in All
    BY LastOfIn
  <2> HIDE DEF All
  <2> QED BY <2>1 DEF Promotable
<1>2. IsFiniteSet(All)
  <2>1. IsFiniteSet(Range(recs))
    BY RangeOf
  <2>2. Again \in Surjection(Range(recs), All)
    BY DEF Surjection
  <2> HIDE DEF Again, All
  <2> QED BY <2>1, <2>2, FS_Surjection
<1>3. All \subseteq Records
  <2>1. ASSUME NEW r \in Range(recs) PROVE Again[r] \in Records
    <3>1. r \in Records
      BY RangeOf
    <3>2. [r EXCEPT !.cat = "duplicates"] \in Records
      BY <3>1 DEF Records, Category
    <3> QED BY <3>2
  <2> HIDE DEF Again
  <2> QED BY <2>1
<1> DEFINE P == Promotable(recs, groups)
<1>4. IsFiniteSet(P)
  BY <1>1, <1>2, FS_Subset
<1>5. SetToSeq(P) \in Seq(P)
  BY <1>4, ListOf
<1> HIDE DEF P, All
<1>6. Range(SetToSeq(P)) \subseteq P
  BY <1>5, RangeOf
<1>7. P \subseteq Records
  BY <1>1, <1>3 DEF P
<1> QED BY <1>5, <1>6, <1>7 DEF P

(* The history of writers stays a truth value.                             *)
LEMMA WatchType == ASSUME muddled \in BOOLEAN, Watch PROVE muddled' \in BOOLEAN
  BY DEF Watch

(* Counting keeps the totals in their type.                                *)
LEMMA IngestTypes ==
  ASSUME NEW totals \in [Id -> Shares], NEW recs \in Seq(Records), NEW s \in Setting
  PROVE  /\ IngestHits(totals, recs, s) \in [Id -> Shares]
         /\ IngestPrimary(totals, recs) \in [Id -> Shares]
<1> DEFINE HitsOf(i) == {k \in DOMAIN recs : recs[k].id = i /\ Hits[s][recs[k].path] # <<>>}
           Own(i)    == {k \in DOMAIN recs : recs[k].id = i /\ recs[k].cat # "none"}
<1>1. ASSUME NEW i \in Id, HitsOf(i) # {}
      PROVE  /\ recs[Max(HitsOf(i))].kept \in BOOLEAN
             /\ UNION {Range(Hits[s][recs[k].path]) : k \in HitsOf(i)} \subseteq Category
  <2>1. HitsOf(i) \subseteq 1 .. Len(recs) /\ Len(recs) \in Nat
    OBVIOUS
  <2>2. Max(HitsOf(i)) \in DOMAIN recs
    <3> HIDE DEF HitsOf
    <3> QED BY <1>1, <2>1, MaxIn
  <2>3. recs[Max(HitsOf(i))] \in Records
    <3> HIDE DEF HitsOf
    <3> QED BY <2>2
  <2>4. ASSUME NEW k \in HitsOf(i) PROVE Range(Hits[s][recs[k].path]) \subseteq Category
    <3>0. recs[k] \in Records
      OBVIOUS
    <3>1. recs[k].path \in Place
      BY <3>0 DEF Records
    <3>2. Hits[s][recs[k].path] \in Seq(Claim)
      BY <3>1, VerdictType
    <3> QED BY <3>2, RangeOf DEF Category
  <2> HIDE DEF HitsOf
  <2> QED BY <2>3, <2>4 DEF Records
<1>2. ASSUME NEW i \in Id, Own(i) # {}
      PROVE  /\ recs[Max(Own(i))].kept \in BOOLEAN
             /\ {recs[k].cat : k \in Own(i)} \subseteq Category
  <2>1. Own(i) \subseteq 1 .. Len(recs) /\ Len(recs) \in Nat
    OBVIOUS
  <2>2. Max(Own(i)) \in DOMAIN recs
    <3> HIDE DEF Own
    <3> QED BY <1>2, <2>1, MaxIn
  <2>3. recs[Max(Own(i))] \in Records
    <3> HIDE DEF Own
    <3> QED BY <2>2
  <2>4. \A k \in Own(i) : recs[k] \in Records /\ recs[k].cat # "none"
    OBVIOUS
  <2> HIDE DEF Own
  <2> QED BY <2>3, <2>4 DEF Records
<1>3. IngestHits(totals, recs, s) =
        [i \in Id |-> IF HitsOf(i) = {} THEN totals[i]
                      ELSE [cats |-> totals[i].cats \cup UNION {Range(Hits[s][recs[k].path]) : k \in HitsOf(i)},
                            kept |-> recs[Max(HitsOf(i))].kept]]
  BY DEF IngestHits
<1>4. IngestPrimary(totals, recs) =
        [i \in Id |-> IF Own(i) = {} THEN totals[i]
                      ELSE [cats |-> totals[i].cats \cup {recs[k].cat : k \in Own(i)}, kept |-> recs[Max(Own(i))].kept]]
  BY DEF IngestPrimary
<1> HIDE DEF HitsOf, Own
<1>5. \A i \in Id : IngestHits(totals, recs, s)[i] \in Shares
  BY <1>1, <1>3 DEF Shares
<1>6. \A i \in Id : IngestPrimary(totals, recs)[i] \in Shares
  BY <1>2, <1>4 DEF Shares
<1> QED BY <1>3, <1>4, <1>5, <1>6

(* What threads hold at the start and at the end.                          *)
LEMMA CleanType ==
  /\ Clean \in Runs
  /\ Clean.next + Cardinality(Clean.todo) <= Cardinality(Path)
  /\ Nothing \in [Id -> Shares]
  /\ \A place \in Stages : Still(place) \in Applies
<1>1. Clean.todo = {} /\ Clean.next = 0 /\ Cardinality({}) = 0
  BY FS_EmptySet DEF Clean
<1>2. 1 \in 1 .. Finders + 1 /\ 0 \in 0 .. Cardinality(Path)
  BY Sizes, ConstantsOK
<1>3. Clean \in Runs
  BY <1>2, ConstantsOK DEF Clean, Runs
<1> QED BY <1>1, <1>3, Sizes, ConstantsOK DEF Nothing, NoShare, Still, Shares, Applies

(* Types: scan.start.                                                      *)
LEMMA BeginTyped == ASSUME NEW c \in Session, Typed, Begin(c) PROVE Typed'
<1>1. run[c] = Clean
  BY DEF Typed, Fitting, Begin, At
<1>2. muddled' \in BOOLEAN
  BY WatchType DEF Typed, TypeOK, Begin
<1>3. TypeOK'
  <2>1. run' \in [Session -> Runs]
    <3>1. ASSUME NEW x \in Runs PROVE [x EXCEPT !.todo = Path] \in Runs
      BY DEF Runs
    <3>2. run \in [Session -> Runs] /\ run' = [run EXCEPT ![c] = [run[c] EXCEPT !.todo = Path]]
      BY DEF Typed, TypeOK, Begin
    <3> QED BY <3>1, <3>2
  <2>2. acts' \in 0 .. MaxActs
    BY ConstantsOK DEF Typed, TypeOK, Begin, Act
  <2> QED BY <1>2, <2>1, <2>2, ConstantsOK DEF Typed, TypeOK, Begin, data, user, At, Goto, Places
<1>4. Fitting'
  <2>1. /\ pend' = pend /\ pc'[c] = "token" /\ \A d \in Session \ {c} : pc'[d] = pc[d]
        /\ \A d \in Session \ {c} : run'[d] = run[d]
        /\ run'[c].todo = Path /\ run'[c].next = 0
    BY <1>1 DEF Typed, TypeOK, Begin, user, Goto, Clean
  <2>2. Cardinality(Path) \in Nat
    BY Sizes
  <2> QED BY <2>1, <2>2 DEF Typed, Fitting
<1> QED BY <1>3, <1>4 DEF Typed

(* Types: taking the token.                                                *)
LEMMA TakeTokenTyped == ASSUME NEW c \in Session, Typed, TakeToken(c) PROVE Typed'
<1>2. muddled' \in BOOLEAN
  BY WatchType DEF Typed, TypeOK, TakeToken
<1>3. TypeOK'
  BY <1>2 DEF Typed, TypeOK, TakeToken, data, user, At, Goto, Places
<1>4. Fitting'
  BY DEF Typed, TypeOK, Fitting, TakeToken, user, Goto
<1> QED BY <1>3, <1>4 DEF Typed

(* Types: starting the thread.                                             *)
LEMMA SpawnTyped == ASSUME NEW c \in Session, Typed, Spawn(c) PROVE Typed'
<1>2. muddled' \in BOOLEAN
  BY WatchType DEF Typed, TypeOK, Spawn
<1>3. /\ pc' \in [Session -> Places] /\ pc'[c] # "new" /\ \A d \in Session \ {c} : pc'[d] = pc[d]
      /\ \/ live' = live /\ run' = run
         \/ live' = Nothing /\ run' = [run EXCEPT ![c] = Clean]
         \/ live' = Nothing /\ run' = [run EXCEPT ![c].farm = settings]
  <2>1. CASE Goto(c, "end") /\ UNCHANGED <<live, run>>
    BY <2>1 DEF Typed, TypeOK, Goto, Places, Idle
  <2>2. CASE /\ live' = Nothing
             /\ Goto(c, IF settings \in Broken THEN "dead" ELSE "find")
             /\ run' = [run EXCEPT ![c] = IF settings \in Broken THEN Clean ELSE [@ EXCEPT !.farm = settings]]
    <3>1. CASE settings \in Broken
      BY <2>2, <3>1 DEF Typed, TypeOK, Goto, Places, Idle
    <3>2. CASE settings \notin Broken
      BY <2>2, <3>2 DEF Typed, TypeOK, Goto, Places, Idle
    <3> QED BY <3>1, <3>2
  <2> QED BY <2>1, <2>2 DEF Spawn
<1>5. /\ live' \in [Id -> Shares]
      /\ run' \in [Session -> Runs]
      /\ \A d \in Session : \/ run'[d] = run[d]
                            \/ d = c /\ run'[d] = Clean
                            \/ d = c /\ run'[d].todo = run[d].todo /\ run'[d].next = run[d].next
  <2>1. /\ run \in [Session -> Runs] /\ live \in [Id -> Shares]
        /\ settings \in Setting
    BY DEF Typed, TypeOK
  <2>2. [run[c] EXCEPT !.farm = settings] \in Runs
    BY <2>1 DEF Runs
  <2>3. run' \in [Session -> Runs]
    BY <1>3, <2>1, <2>2, CleanType DEF Runs
  <2>4. [run[c] EXCEPT !.farm = settings].todo = run[c].todo /\ [run[c] EXCEPT !.farm = settings].next = run[c].next
    BY <2>1 DEF Runs
  <2> QED BY <1>3, <2>1, <2>3, <2>4, CleanType DEF Runs
<1>6. TypeOK'
  BY <1>2, <1>3, <1>5 DEF Typed, TypeOK, Spawn, control, user
<1>4. Fitting'
  BY <1>3, <1>5, CleanType DEF Typed, Fitting, Spawn, user
<1> QED BY <1>4, <1>6 DEF Typed

(* Types: a batch of files.                                                *)
LEMMA BatchTyped == ASSUME NEW c \in Session, Typed, Batch(c) PROVE Typed'
<1>1. PICK new \in SUBSET run[c].todo, order \in SetToSeqs(run[c].todo) :
        LET n     == Cardinality(new)
            batch == [k \in 1 .. n |-> [path |-> order[k], id |-> Number(c, k),
                                        cat |-> "none", kept |-> FALSE]]
        IN
        /\ n \in 1 .. MaxBatch
        /\ new = {order[k] : k \in 1 .. n}
        /\ index' = index \o batch
        /\ run' = [run EXCEPT ![c].todo = @ \ new, ![c].next = @ + n, ![c].held = batch]
  BY DEF Batch
<1> DEFINE todo == run[c].todo
           next == run[c].next
           n == Cardinality(new)
           batch == [k \in 1 .. n |-> [path |-> order[k], id |-> Number(c, k), cat |-> "none", kept |-> FALSE]]
<1>2. todo \in SUBSET Path /\ next \in Nat /\ next + Cardinality(todo) <= Cardinality(Path)
  <2>1. run \in [Session -> Runs] /\ run[c].next + Cardinality(run[c].todo) <= Cardinality(Path)
    BY DEF Typed, TypeOK, Fitting
  <2>2. run[c] \in Runs
    BY <2>1
  <2> QED BY <2>1, <2>2 DEF Runs
<1>3. n \in Nat /\ n <= Cardinality(todo) /\ Cardinality(todo) \in Nat /\ Cardinality(Path) \in Nat
      /\ Cardinality(todo \ new) = Cardinality(todo) - n
  <2>1. IsFiniteSet(todo) /\ IsFiniteSet(new) /\ Cardinality(todo) \in Nat /\ Cardinality(Path) \in Nat /\ n \in Nat
    BY <1>2, Sizes
  <2>2. n <= Cardinality(todo)
    BY <2>1, FS_Subset
  <2>3. todo \cap new = new
    OBVIOUS
  <2>4. Cardinality(todo \ new) = Cardinality(todo) - Cardinality(todo \cap new)
    BY <2>1, FS_Difference
  <2> QED BY <2>1, <2>2, <2>3, <2>4
<1>4. \A k \in 1 .. n : order[k] \in Path /\ Number(c, k) \in 0 .. Cardinality(Path) - 1
  <2>1. order \in [1 .. Cardinality(todo) -> todo]
    BY DEF SetToSeqs
  <2> HIDE DEF n, todo
  <2>2. ASSUME NEW k \in 1 .. n PROVE k \in 1 .. Cardinality(todo) /\ next + k - 1 \in 0 .. Cardinality(Path) - 1
    BY <1>2, <1>3
  <2> QED BY <1>2, <2>1, <2>2 DEF Number
<1>5. batch \in Seq(Records)
  <2>1. \A k \in 1 .. n : batch[k] \in Records
    BY <1>4 DEF Records, Place, Id
  <2> HIDE DEF batch, n
  <2>2. batch \in [1 .. n -> Records]
    BY <2>1 DEF batch
  <2> QED BY <1>3, <2>2
<1>6. index' \in Seq(Records)
  BY <1>1, <1>5 DEF Typed, TypeOK
<1>7. /\ run' = [run EXCEPT ![c].todo = todo \ new, ![c].next = next + n, ![c].held = batch]
      /\ next + n \in 0 .. Cardinality(Path)
  <2>1. run' = [run EXCEPT ![c].todo = todo \ new, ![c].next = next + n, ![c].held = batch]
    BY <1>1
  <2> HIDE DEF batch, n, todo
  <2> QED BY <1>2, <1>3, <2>1
<1>8. muddled' \in BOOLEAN
  BY WatchType DEF Typed, TypeOK, Batch
<1> HIDE DEF batch, n
<1>9. TypeOK'
  <2>1. run' \in [Session -> Runs]
    <3>1. run \in [Session -> Runs]
      BY DEF Typed, TypeOK
    <3>2. [run[c] EXCEPT !.todo = todo \ new, !.next = next + n, !.held = batch] \in Runs
      <4> HIDE DEF next
      <4> QED BY <1>2, <1>5, <1>7, <3>1 DEF Runs
    <3>3. run' = [run EXCEPT ![c] = [run[c] EXCEPT !.todo = todo \ new, !.next = next + n, !.held = batch]]
      BY <1>7, <3>1
    <3>4. run' \in [Session -> Runs]
      BY <3>1, <3>2, <3>3
    <3> QED BY <3>4
  <2> HIDE DEF todo, next
  <2> QED BY <1>6, <1>8, <2>1 DEF Typed, TypeOK, Batch, control, user, At, Goto, Places
<1>10. Fitting'
  <2>1. /\ pend' = pend /\ pc' \in [Session -> Places] /\ pc'[c] = "tag" /\ \A d \in Session \ {c} : pc'[d] = pc[d]
        /\ \A d \in Session \ {c} : run'[d] = run[d]
        /\ run'[c].todo = todo \ new /\ run'[c].next = next + n
    BY <1>7, <1>9 DEF Typed, TypeOK, Batch, user, Goto, Runs
  <2>2. run'[c].next + Cardinality(run'[c].todo) <= Cardinality(Path)
    BY <1>2, <1>3, <2>1
  <2> QED BY <2>1, <2>2 DEF Typed, Fitting
<1> QED BY <1>9, <1>10 DEF Typed

(* A step of a thread that changes only what it holds.                     *)
LEMMA Moved ==
  ASSUME NEW c \in Session, Typed, NEW place \in Places \ {"new"}, Goto(c, place),
         NEW held \in Seq(Records), NEW marked \in SUBSET Groups, NEW finder \in 1 .. Finders + 1,
         \/ run' = run \/ run' = [run EXCEPT ![c].held = held] \/ run' = [run EXCEPT ![c].marked = marked]
         \/ run' = [run EXCEPT ![c].marked = marked, ![c].held = held]
         \/ run' = [run EXCEPT ![c].held = held, ![c].finder = finder],
         pend' = pend
  PROVE  run' \in [Session -> Runs] /\ pc' \in [Session -> Places] /\ Fitting'
<1>1. run \in [Session -> Runs] /\ pc \in [Session -> Places]
  BY DEF Typed, TypeOK
<1>2. /\ [run[c] EXCEPT !.held = held] \in Runs
      /\ [run[c] EXCEPT !.marked = marked] \in Runs
      /\ [run[c] EXCEPT !.marked = marked, !.held = held] \in Runs
      /\ [run[c] EXCEPT !.held = held, !.finder = finder] \in Runs
  <2>1. PICK x \in Runs : x = run[c]
    BY <1>1
  <2>2. [x EXCEPT !.held = held] \in Runs
    BY DEF Runs
  <2>3. [x EXCEPT !.marked = marked] \in Runs
    BY DEF Runs
  <2>4. [x EXCEPT !.marked = marked, !.held = held] \in Runs
    BY DEF Runs
  <2>5. [x EXCEPT !.held = held, !.finder = finder] \in Runs
    BY DEF Runs
  <2> QED BY <2>1, <2>2, <2>3, <2>4, <2>5
<1>3. \/ run' = run
      \/ run' = [run EXCEPT ![c] = [run[c] EXCEPT !.held = held]]
      \/ run' = [run EXCEPT ![c] = [run[c] EXCEPT !.marked = marked]]
      \/ run' = [run EXCEPT ![c] = [run[c] EXCEPT !.marked = marked, !.held = held]]
      \/ run' = [run EXCEPT ![c] = [run[c] EXCEPT !.held = held, !.finder = finder]]
  BY <1>1
<1>4. run' \in [Session -> Runs]
  <2>1. ASSUME NEW x \in Runs PROVE [run EXCEPT ![c] = x] \in [Session -> Runs]
    BY <1>1
  <2> QED BY <1>1, <1>2, <1>3, <2>1
<1>5. pc' \in [Session -> Places] /\ pc'[c] # "new" /\ \A d \in Session \ {c} : pc'[d] = pc[d]
  BY <1>1 DEF Goto
<1>6. \A d \in Session : run'[d].todo = run[d].todo /\ run'[d].next = run[d].next /\ (d = c \/ run'[d] = run[d])
  <2>1. ASSUME NEW x \in Runs, x.todo = run[c].todo, x.next = run[c].next,
               run' = [run EXCEPT ![c] = x]
        PROVE  \A d \in Session : run'[d].todo = run[d].todo /\ run'[d].next = run[d].next /\ (d = c \/ run'[d] = run[d])
    BY <1>1, <2>1
  <2>2. /\ [run[c] EXCEPT !.held = held].todo = run[c].todo /\ [run[c] EXCEPT !.held = held].next = run[c].next
        /\ [run[c] EXCEPT !.marked = marked].todo = run[c].todo /\ [run[c] EXCEPT !.marked = marked].next = run[c].next
        /\ [run[c] EXCEPT !.marked = marked, !.held = held].todo = run[c].todo
        /\ [run[c] EXCEPT !.marked = marked, !.held = held].next = run[c].next
        /\ [run[c] EXCEPT !.held = held, !.finder = finder].todo = run[c].todo
        /\ [run[c] EXCEPT !.held = held, !.finder = finder].next = run[c].next
    <3>1. run[c] \in Runs
      BY <1>1
    <3> QED BY <3>1 DEF Runs
  <2> QED BY <1>2, <1>3, <2>1, <2>2
<1>7. Fitting'
  BY <1>5, <1>6 DEF Typed, Fitting
<1> QED BY <1>4, <1>5, <1>7

(* Appending adds one record.                                              *)
LEMMA AppendOne ==
  ASSUME NEW s \in Seq(Records), NEW r \in Records
  PROVE  Append(s, r) \in Seq(Records) /\ Range(Append(s, r)) = Range(s) \cup {r}
<1>1. Len(s) \in Nat /\ DOMAIN s = 1 .. Len(s)
  OBVIOUS
<1>3. /\ Append(s, r) \in Seq(Records) /\ DOMAIN Append(s, r) = 1 .. Len(s) + 1
      /\ Append(s, r)[Len(s) + 1] = r
      /\ \A k \in 1 .. Len(s) : Append(s, r)[k] = s[k]
  OBVIOUS
<1>4. 1 .. Len(s) + 1 = (1 .. Len(s)) \cup {Len(s) + 1}
  BY <1>1
<1>5. Range(Append(s, r)) = Range(s) \cup {r}
  <2> DEFINE t == Append(s, r)
  <2>1. /\ DOMAIN t = (1 .. Len(s)) \cup {Len(s) + 1} /\ t[Len(s) + 1] = r
        /\ \A k \in 1 .. Len(s) : t[k] = s[k]
    BY <1>3, <1>4
  <2> HIDE DEF t
  <2>2. Range(t) = {t[k] : k \in 1 .. Len(s)} \cup {r}
    BY <2>1 DEF Range
  <2>3. Range(s) = {t[k] : k \in 1 .. Len(s)}
    BY <1>1, <2>1 DEF Range
  <2> QED BY <2>2, <2>3 DEF t
<1> QED BY <1>3, <1>5

(* Those lists the records that are in the set, and no others.             *)
LEMMA ThoseAre ==
  ASSUME NEW recs \in Seq(Records), NEW S
  PROVE  /\ Those(recs, S) \in Seq(Records)
         /\ \A r : r \in Range(Those(recs, S)) <=> r \in Range(recs) /\ r \in S
<1> DEFINE N == Len(recs)
           With(x, n) == IF recs[n] \in S THEN Append(x, recs[n]) ELSE x
           Steps(f, n) == f = [m \in 0 .. n |-> IF m = 0 THEN <<>> ELSE With(f[m - 1], m)]
           T == {n \in Nat : \E f : Steps(f, n)}
<1> HIDE DEF With
<1>1. 0 \in T
  <2>1. Steps([m \in 0 .. 0 |-> <<>>], 0)
    OBVIOUS
  <2> QED BY <2>1
<1>2. \A n \in Nat : n \in T => n + 1 \in T
  <2> HIDE DEF Steps
  <2> SUFFICES ASSUME NEW n \in Nat, NEW f, Steps(f, n) PROVE \E g : Steps(g, n + 1)
    OBVIOUS
  <2> USE DEF Steps
  <2> DEFINE g == [m \in 0 .. n + 1 |-> IF m = 0 THEN <<>> ELSE With(f[m - 1], m)]
  <2>1. \A m \in 0 .. n : g[m] = f[m]
    <3>1. \A m \in 0 .. n : m \in 0 .. n + 1
      OBVIOUS
    <3> QED BY <3>1
  <2>2. \A m \in 0 .. n + 1 : m # 0 => g[m - 1] = f[m - 1]
    BY <2>1
  <2>3. g = [m \in 0 .. n + 1 |-> IF m = 0 THEN <<>> ELSE With(g[m - 1], m)]
    <3> HIDE DEF g
    <3>1. g = [m \in 0 .. n + 1 |-> IF m = 0 THEN <<>> ELSE With(f[m - 1], m)]
      BY DEF g
    <3> QED BY <2>2, <3>1
  <2> QED BY <2>3
<1>3. N \in T
  <2> HIDE DEF T
  <2>1. Nat \subseteq T
    BY <1>1, <1>2, Induct
  <2> QED BY <2>1
<1>4. \E f : Steps(f, N)
  BY <1>3
<1> DEFINE upto[n \in 0 .. N] == IF n = 0 THEN <<>> ELSE With(upto[n - 1], n)
<1>5. Steps(upto, N)
  BY <1>4, Zenon
<1>6. Those(recs, S) = upto[N]
  BY DEF Those, With
<1> HIDE DEF upto
<1>7. N \in Nat /\ upto[0] = <<>> /\ \A n \in 1 .. N : upto[n] = With(upto[n - 1], n)
  <2>1. N \in Nat
    OBVIOUS
  <2> HIDE DEF N
  <2>2. upto = [m \in 0 .. N |-> IF m = 0 THEN <<>> ELSE With(upto[m - 1], m)]
    BY <1>5
  <2> QED BY <2>1, <2>2
<1> DEFINE Lists(n) == /\ upto[n] \in Seq(Records)
                       /\ \A r : r \in Range(upto[n]) <=> r \in S /\ \E k \in 1 .. n : recs[k] = r
           Good == {n \in Nat : n <= N => Lists(n)}
<1>8. Lists(0)
  <2>1. Range(<<>>) = {}
    BY DEF Range
  <2>2. 1 .. 0 = {} /\ <<>> \in Seq(Records)
    OBVIOUS
  <2> HIDE DEF N
  <2> QED BY <1>7, <2>1, <2>2
<1>9. ASSUME NEW n \in Nat, n + 1 <= N, Lists(n) PROVE Lists(n + 1)
  <2>1. n + 1 \in 1 .. N /\ (n + 1) - 1 = n /\ 1 .. n + 1 = (1 .. n) \cup {n + 1} /\ recs[n + 1] \in Records
    BY <1>7, <1>9
  <2>2. upto[n + 1] = With(upto[n], n + 1)
    BY <1>7, <2>1
  <2>3. CASE recs[n + 1] \in S
    <3>1. upto[n + 1] = Append(upto[n], recs[n + 1])
      BY <2>2, <2>3 DEF With
    <3>2. upto[n + 1] \in Seq(Records) /\ Range(upto[n + 1]) = Range(upto[n]) \cup {recs[n + 1]}
      BY <1>9, <2>1, <3>1, AppendOne
    <3> QED BY <1>9, <2>1, <2>3, <3>2
  <2>4. CASE recs[n + 1] \notin S
    <3>2. upto[n + 1] = upto[n]
      BY <2>2, <2>4 DEF With
    <3>3. \A r : r \in S /\ (\E k \in 1 .. n + 1 : recs[k] = r) <=> r \in S /\ (\E k \in 1 .. n : recs[k] = r)
      BY <2>1, <2>4
    <3> QED BY <1>9, <3>2, <3>3
  <2> QED BY <2>3, <2>4
<1>10. Lists(N)
  <2>1. 0 \in Good
    BY <1>8
  <2>2. \A n \in Nat : n \in Good => n + 1 \in Good
    <3> HIDE DEF Lists
    <3> SUFFICES ASSUME NEW n \in Nat, n \in Good, n + 1 <= N PROVE Lists(n + 1)
      OBVIOUS
    <3>1. N \in Nat
      BY <1>7
    <3> HIDE DEF N
    <3>2. n <= N
      BY <3>1
    <3>3. Lists(n)
      BY <3>2
    <3> QED BY <1>9, <3>3
  <2>3. Nat \subseteq Good
    <3> HIDE DEF Good
    <3> QED BY <2>1, <2>2, Induct
  <2>4. N \in Nat /\ N <= N
    BY <1>7
  <2> HIDE DEF Lists, N
  <2> QED BY <2>3, <2>4
<1>11. \A r : r \in Range(recs) <=> \E k \in 1 .. N : recs[k] = r
  BY DEF Range
<1> QED BY <1>6, <1>10, <1>11

(* Nothing held, nothing marked, and no detector of folders has looked yet. *)
LEMMA EmptyHeld == <<>> \in Seq(Records) /\ {} \in SUBSET Groups /\ 1 \in 1 .. Finders + 1
  BY ConstantsOK

(* Types: categorize_batch.                                                *)
LEMMA TagTyped == ASSUME NEW c \in Session, Typed, Tag(c) PROVE Typed'
<1>1. Tagged(c) \in Seq(Records)
  <2> DEFINE verdicts == [k \in DOMAIN run[c].held |->
               [run[c].held[k] EXCEPT !.cat = Verdict(run[c].farm, run[c].held[k].path)]]
  <2>1. run[c].held \in Seq(Records) /\ run[c].farm \in Setting
    BY DEF Typed, TypeOK, Runs
  <2>2. ASSUME NEW k \in DOMAIN run[c].held PROVE verdicts[k] \in Records
    <3>1. run[c].held[k] \in Records
      BY <2>1
    <3>2. Verdict(run[c].farm, run[c].held[k].path) \in Claim \cup {"none"}
      BY <2>1, <3>1, VerdictType DEF Records
    <3> QED BY <3>1, <3>2 DEF Records, Category
  <2>3. verdicts \in Seq(Records)
    <3>2. DOMAIN run[c].held = 1 .. Len(run[c].held) /\ Len(run[c].held) \in Nat
      BY <2>1
    <3>1. verdicts \in [1 .. Len(run[c].held) -> Records]
      BY <2>2, <3>2
    <3> HIDE DEF verdicts
    <3> QED BY <3>1, <3>2
  <2>4. Tagged(c) = Those(verdicts, {r \in Records : r.cat # "none"})
    BY DEF Tagged
  <2> HIDE DEF verdicts
  <2> QED BY <2>3, <2>4, ThoseAre
<1>2. index' \in Seq(Records)
  BY <1>1, UpsertType DEF Typed, TypeOK, Tag
<1>3. muddled' \in BOOLEAN
  BY WatchType DEF Typed, TypeOK, Tag
<1>4. "count" \in Places \ {"new"} /\ Goto(c, "count") /\ run' = run /\ pend' = pend
  BY DEF Tag, Places, Idle, user
<1>5. run' \in [Session -> Runs] /\ pc' \in [Session -> Places] /\ Fitting'
  BY <1>4, EmptyHeld, Moved
<1>6. TypeOK'
  BY <1>2, <1>3, <1>5 DEF Typed, TypeOK, Tag, control, user
<1> QED BY <1>5, <1>6 DEF Typed

(* Types: counting a batch.                                                *)
LEMMA CountTyped == ASSUME NEW c \in Session, Typed, Count(c) PROVE Typed'
<1>1. live' \in [Id -> Shares]
  BY IngestTypes DEF Typed, TypeOK, Count, Runs
<1>3. muddled' \in BOOLEAN
  BY WatchType DEF Typed, TypeOK, Count
<1>4. "find" \in Places \ {"new"} /\ Goto(c, "find") /\ run' = [run EXCEPT ![c].held = <<>>] /\ pend' = pend
  BY DEF Count, Places, Idle, user
<1>5. run' \in [Session -> Runs] /\ pc' \in [Session -> Places] /\ Fitting'
  BY <1>4, EmptyHeld, Moved
<1>6. TypeOK'
  BY <1>1, <1>3, <1>5 DEF Typed, TypeOK, Count, control, user
<1> QED BY <1>5, <1>6 DEF Typed

(* Types: the end of the walk.                                             *)
LEMMA EndFindTyped == ASSUME NEW c \in Session, Typed, EndFind(c) PROVE Typed'
<1>3. muddled' \in BOOLEAN
  BY WatchType DEF Typed, TypeOK, EndFind
<1>4. \E place \in Places \ {"new"} : Goto(c, place) /\ run' = run /\ pend' = pend
  BY DEF EndFind, Places, Idle, user
<1>5. run' \in [Session -> Runs] /\ pc' \in [Session -> Places] /\ Fitting'
  BY <1>4, EmptyHeld, Moved
<1>6. TypeOK'
  BY <1>3, <1>5 DEF Typed, TypeOK, EndFind, control, user, data
<1> QED BY <1>5, <1>6 DEF Typed

(* Types: reading the files to compare.                                    *)
LEMMA SnapshotTyped == ASSUME NEW c \in Session, Typed, Snapshot(c) PROVE Typed'
<1> DEFINE files == Those(index, {r \in Records : r.path \in Path /\ ~r.kept})
<1>1. files \in Seq(Records)
  BY ThoseAre DEF Typed, TypeOK
<1>3. muddled' \in BOOLEAN
  BY WatchType DEF Typed, TypeOK, Snapshot
<1>4. \E place \in Places \ {"new"} : Goto(c, place) /\ (run' = run \/ run' = [run EXCEPT ![c].held = files]) /\ pend' = pend
  BY DEF Snapshot, Places, Idle, user
<1> HIDE DEF files
<1>5. run' \in [Session -> Runs] /\ pc' \in [Session -> Places] /\ Fitting'
  BY <1>1, <1>4, EmptyHeld, Moved
<1>6. TypeOK'
  BY <1>3, <1>5 DEF Typed, TypeOK, Snapshot, control, user, data
<1> QED BY <1>5, <1>6 DEF Typed

(* The groups of one content, each with one of its members as the kept one.*)
LEMMA HashMarks ==
  ASSUME NEW c \in Session, Typed, Hash(c)
  PROVE  LET recs == run[c].held IN
         \E hashed \in SUBSET Ids(recs) :
           \/ Goto(c, "units") /\ run' = [run EXCEPT ![c].held = <<>>]
           \/ \E keep \in [Alike(recs, hashed) -> hashed] : \E marked \in SUBSET Groups :
                /\ marked = {[keep |-> keep[g], members |-> g] : g \in Alike(recs, hashed)}
                /\ \A g \in Alike(recs, hashed) : keep[g] \in g
                /\ Goto(c, "promote")
                /\ run' = [run EXCEPT ![c].marked = marked, ![c].held = SetToSeq(Promotable(recs, marked))]
<1> DEFINE recs == run[c].held
<1>1. recs \in Seq(Records)
  BY DEF Typed, TypeOK, Runs
<1>2. Ids(recs) \subseteq Id
  <2>1. \A k \in DOMAIN recs : recs[k] \in Records
    BY <1>1
  <2> HIDE DEF recs
  <2> QED BY <2>1 DEF Ids, Records
<1>3. PICK hashed \in SUBSET Ids(recs) :
       \/ /\ Alike(recs, hashed) = {}
          /\ Goto(c, "units")
          /\ run' = [run EXCEPT ![c].held = <<>>]
       \/ \E keep \in [Alike(recs, hashed) -> hashed] :
            LET marked == {[keep |-> keep[g], members |-> g] : g \in Alike(recs, hashed)} IN
            /\ Alike(recs, hashed) # {}
            /\ \A g \in Alike(recs, hashed) : keep[g] \in g
            /\ Goto(c, "promote")
            /\ run' = [run EXCEPT ![c].marked = marked, ![c].held = SetToSeq(Promotable(recs, marked))]
  BY DEF Hash
<1>4. CASE Goto(c, "units") /\ run' = [run EXCEPT ![c].held = <<>>]
  BY <1>4
<1>5. ASSUME NEW keep \in [Alike(recs, hashed) -> hashed]
      PROVE  {[keep |-> keep[g], members |-> g] : g \in Alike(recs, hashed)} \in SUBSET Groups
  <2>1. Alike(recs, hashed) \subseteq SUBSET hashed
    BY DEF Alike
  <2>2. \A g \in Alike(recs, hashed) : keep[g] \in Id /\ g \in SUBSET Id
    BY <1>2, <2>1
  <2> QED BY <2>2 DEF Groups
<1> QED BY <1>3, <1>4, <1>5

(* Types: grouping by content.                                             *)
LEMMA HashTyped == ASSUME NEW c \in Session, Typed, Hash(c) PROVE Typed'
<1>1. run[c].held \in Seq(Records)
  BY DEF Typed, TypeOK, Runs
<1>3. muddled' \in BOOLEAN
  BY WatchType DEF Typed, TypeOK, Hash
<1>4. \E place \in Places \ {"new"}, held \in Seq(Records), marked \in SUBSET Groups :
        /\ Goto(c, place)
        /\ run' = [run EXCEPT ![c].held = held] \/ run' = [run EXCEPT ![c].marked = marked, ![c].held = held]
  <2>1. "units" \in Places \ {"new"} /\ "promote" \in Places \ {"new"}
    BY DEF Places, Idle
  <2>2. \A marked : SetToSeq(Promotable(run[c].held, marked)) \in Seq(Records)
    BY <1>1, PromotableIn
  <2> QED BY <2>1, <2>2, HashMarks, EmptyHeld
<1>2. pend' = pend
  BY DEF Hash, user
<1>5. run' \in [Session -> Runs] /\ pc' \in [Session -> Places] /\ Fitting'
  BY <1>2, <1>4, EmptyHeld, Moved
<1>6. TypeOK'
  BY <1>3, <1>5 DEF Typed, TypeOK, Hash, control, user, data
<1> QED BY <1>5, <1>6 DEF Typed

(* Types: writing the duplicates back.                                     *)
LEMMA PromoteTyped == ASSUME NEW c \in Session, Typed, Promote(c) PROVE Typed'
<1>1. index' \in Seq(Records)
  BY UpsertType DEF Typed, TypeOK, Promote, Runs
<1>3. muddled' \in BOOLEAN
  BY WatchType DEF Typed, TypeOK, Promote
<1>4. "recount" \in Places \ {"new"} /\ Goto(c, "recount") /\ run' = [run EXCEPT ![c].held = <<>>] /\ pend' = pend
  BY DEF Promote, Places, Idle, user
<1>5. run' \in [Session -> Runs] /\ pc' \in [Session -> Places] /\ Fitting'
  BY <1>4, EmptyHeld, Moved
<1>6. TypeOK'
  BY <1>1, <1>3, <1>5 DEF Typed, TypeOK, Promote, control, user
<1> QED BY <1>5, <1>6 DEF Typed

(* Types: counting the duplicates.                                         *)
LEMMA RecountTyped == ASSUME NEW c \in Session, Typed, Recount(c) PROVE Typed'
<1>1. live' \in [Id -> Shares]
  BY IngestTypes, ConstantsOK DEF Typed, TypeOK, Recount
<1>3. muddled' \in BOOLEAN
  BY WatchType DEF Typed, TypeOK, Recount
<1>4. "store" \in Places \ {"new"} /\ Goto(c, "store") /\ run' = run /\ pend' = pend
  BY DEF Recount, Places, Idle, user
<1>5. run' \in [Session -> Runs] /\ pc' \in [Session -> Places] /\ Fitting'
  BY <1>4, EmptyHeld, Moved
<1>6. TypeOK'
  BY <1>1, <1>3, <1>5 DEF Typed, TypeOK, Recount, control, user
<1> QED BY <1>5, <1>6 DEF Typed

(* Types: storing the groups.                                              *)
LEMMA StoreTyped == ASSUME NEW c \in Session, Typed, Store(c) PROVE Typed'
<1>1. dup' \in SUBSET Groups
  BY DEF Typed, TypeOK, Store, Runs
<1>3. muddled' \in BOOLEAN
  BY WatchType DEF Typed, TypeOK, Store
<1>4. "units" \in Places \ {"new"} /\ Goto(c, "units") /\ run' = [run EXCEPT ![c].marked = {}] /\ pend' = pend
  BY DEF Store, Places, Idle, user
<1>5. run' \in [Session -> Runs] /\ pc' \in [Session -> Places] /\ Fitting'
  BY <1>4, EmptyHeld, Moved
<1>6. TypeOK'
  BY <1>1, <1>3, <1>5 DEF Typed, TypeOK, Store, control, user
<1> QED BY <1>5, <1>6 DEF Typed

(* The units a detector has found, as records.                             *)
UnitsOf(found) == SetToSeq({UnitRecord(u) : u \in found})

(* A record of a unit that the detector with this number has found.        *)
FoundBy(r, finder) ==
  /\ r.id \in Unit /\ r.path \in Folder /\ Lies[r.id] = r.path /\ Finder[r.id] = finder
  /\ r.cat = "folder" /\ ~r.kept

(* The units of one detector are records of it, and are apart.             *)
LEMMA UnitsType ==
  ASSUME NEW found \in SUBSET Unit, NEW finder, \A u \in found : Finder[u] = finder
  PROVE  /\ UnitsOf(found) \in Seq(Records)
         /\ \A r \in Range(UnitsOf(found)) : FoundBy(r, finder) /\ r.id \in found
         /\ \A j, k \in DOMAIN UnitsOf(found) :
              UnitsOf(found)[j].path = UnitsOf(found)[k].path \/ UnitsOf(found)[j].id = UnitsOf(found)[k].id => j = k
<1> DEFINE Of == [u \in found |-> UnitRecord(u)]
           All == {UnitRecord(u) : u \in found}
<1>1. IsFiniteSet(found)
  BY ConstantsOK, FS_Subset
<1>2. Of \in Surjection(found, All)
  BY DEF Surjection
<1>0. \A u \in found : /\ u \in Unit /\ Lies[u] \in Folder /\ Finder[u] = finder
                        /\ UnitRecord(u).path = Lies[u] /\ UnitRecord(u).id = u
                        /\ UnitRecord(u).cat = "folder" /\ ~UnitRecord(u).kept
                        /\ UnitRecord(u) \in Records
  <2>1. ASSUME NEW u \in found PROVE u \in Unit /\ Lies[u] \in Folder
    BY ConstantsOK
  <2> QED BY <2>1 DEF UnitRecord, Records, Place, Id, Category
<1>3. \A r \in All : \E u \in found : r = UnitRecord(u)
  OBVIOUS
<1>4. /\ \A r \in All : r \in Records /\ FoundBy(r, finder) /\ r.id \in found
      /\ \A r, q \in All : r.path = q.path \/ r.id = q.id => r = q
  <2>1. \A u, v \in found : Lies[u] = Lies[v] => u = v
    BY <1>0, ConstantsOK
  <2> HIDE DEF All
  <2> QED BY <1>0, <1>3, <2>1 DEF FoundBy
<1>5. UnitsOf(found) = SetToSeq(All)
  BY DEF UnitsOf
<1> HIDE DEF All, Of
<1>6. IsFiniteSet(All)
  BY <1>1, <1>2, FS_Surjection
<1>7. SetToSeq(All) \in Seq(All) /\ \A j, k \in DOMAIN SetToSeq(All) : SetToSeq(All)[j] = SetToSeq(All)[k] => j = k
  BY <1>6, ListOf
<1>8. Range(SetToSeq(All)) \subseteq All
  BY <1>7, RangeOf
<1>9. SetToSeq(All) \in Seq(Records)
  BY <1>4, <1>7
<1>10. \A j \in DOMAIN SetToSeq(All) : SetToSeq(All)[j] \in All
  BY <1>7
<1> QED BY <1>4, <1>5, <1>7, <1>8, <1>9, <1>10

(* What the next detector of folders does: it looks for units of its own,
   unless the pass is over.                                                *)
LEMMA CountUnitsShape ==
  ASSUME NEW c \in Session, Typed, CountUnits(c)
  PROVE  /\ run[c].finder \in Nat
         /\ \/ Goto(c, "end") /\ live' = live /\ run' = run
            \/ \E found \in SUBSET Unit :
                 /\ \A u \in found : Finder[u] = run[c].finder
                 /\ UnitsOf(found) \in Seq(Records) /\ run[c].finder + 1 \in 1 .. Finders + 1
                 /\ Goto(c, IF found = {} THEN "units" ELSE "units in")
                 /\ live' = IngestPrimary(live, UnitsOf(found))
                 /\ run' = [run EXCEPT ![c].held = UnitsOf(found), ![c].finder = run[c].finder + 1]
<1>1. run \in [Session -> Runs] /\ run[c].finder \in 1 .. Finders + 1 /\ Finders \in Nat
  <2>1. run \in [Session -> Runs]
    BY DEF Typed, TypeOK
  <2>2. run[c] \in Runs
    BY <2>1
  <2> QED BY <2>1, <2>2, ConstantsOK DEF Runs
<1> DEFINE over == run[c].finder > Finders \/ (run[c].finder = 1 /\ c \in cancelled)
           Finds(found) == /\ Goto(c, IF found = {} THEN "units" ELSE "units in")
                           /\ live' = IngestPrimary(live, UnitsOf(found))
                           /\ run' = [run EXCEPT ![c].held = UnitsOf(found), ![c].finder = @ + 1]
<1>4. /\ over => Goto(c, "end") /\ live' = live /\ run' = run
      /\ ~over => \E found \in SUBSET {u \in Unit : Finder[u] = run[c].finder} : Finds(found)
  BY DEF CountUnits, UnitsOf
<1>5. ~over => ~(run[c].finder > Finders)
  OBVIOUS
<1>6. run[c].finder \in Nat
  BY <1>1
<1> HIDE DEF over
<1>2. CASE over
  BY <1>2, <1>4, <1>6
<1>3. CASE ~over
  <2>1. PICK found \in SUBSET {u \in Unit : Finder[u] = run[c].finder} :
          /\ Goto(c, IF found = {} THEN "units" ELSE "units in")
          /\ live' = IngestPrimary(live, UnitsOf(found))
          /\ run' = [run EXCEPT ![c].held = UnitsOf(found), ![c].finder = @ + 1]
    BY <1>3, <1>4
  <2>2. found \in SUBSET Unit /\ \A u \in found : Finder[u] = run[c].finder
    BY <2>1
  <2>3. UnitsOf(found) \in Seq(Records)
    BY <2>2, UnitsType
  <2>4. run[c].finder + 1 \in 1 .. Finders + 1
    <3> DEFINE n == run[c].finder
    <3>1. n \in 1 .. Finders + 1 /\ ~(n > Finders)
      BY <1>1, <1>3, <1>5
    <3> HIDE DEF n
    <3>2. n + 1 \in 1 .. Finders + 1
      BY <1>1, <3>1
    <3> QED BY <3>2 DEF n
  <2>5. run' = [run EXCEPT ![c].held = UnitsOf(found), ![c].finder = run[c].finder + 1]
    BY <2>1
  <2>6. \E f \in SUBSET Unit :
          /\ \A u \in f : Finder[u] = run[c].finder
          /\ UnitsOf(f) \in Seq(Records) /\ run[c].finder + 1 \in 1 .. Finders + 1
          /\ Goto(c, IF f = {} THEN "units" ELSE "units in")
          /\ live' = IngestPrimary(live, UnitsOf(f))
          /\ run' = [run EXCEPT ![c].held = UnitsOf(f), ![c].finder = run[c].finder + 1]
    <3> WITNESS found \in SUBSET Unit
    <3> QED BY <2>1, <2>2, <2>3, <2>4, <2>5
  <2> QED BY <1>6, <2>6
<1> QED BY <1>2, <1>3

(* Types: counting what a detector of folders has found.                   *)
LEMMA CountUnitsTyped == ASSUME NEW c \in Session, Typed, CountUnits(c) PROVE Typed'
<1>3. muddled' \in BOOLEAN
  BY WatchType DEF Typed, TypeOK, CountUnits
<1>4. /\ "end" \in Places \ {"new"} /\ "units in" \in Places \ {"new"} /\ "units" \in Places \ {"new"}
      /\ pend' = pend
  BY DEF CountUnits, Places, Idle, user
<1>5. run' \in [Session -> Runs] /\ pc' \in [Session -> Places] /\ Fitting' /\ live' \in [Id -> Shares]
  <2>0. live \in [Id -> Shares]
    BY DEF Typed, TypeOK
  <2>1. CASE Goto(c, "end") /\ live' = live /\ run' = run
    BY <1>4, <2>0, <2>1, EmptyHeld, Moved
  <2>2. ASSUME NEW found \in SUBSET Unit,
               UnitsOf(found) \in Seq(Records), run[c].finder + 1 \in 1 .. Finders + 1,
               Goto(c, IF found = {} THEN "units" ELSE "units in"),
               live' = IngestPrimary(live, UnitsOf(found)),
               run' = [run EXCEPT ![c].held = UnitsOf(found), ![c].finder = run[c].finder + 1]
        PROVE  run' \in [Session -> Runs] /\ pc' \in [Session -> Places] /\ Fitting' /\ live' \in [Id -> Shares]
    <3>1. \E place \in Places \ {"new"} : Goto(c, place)
      BY <1>4, <2>2
    <3>2. run' \in [Session -> Runs] /\ pc' \in [Session -> Places] /\ Fitting'
      BY <1>4, <2>2, <3>1, EmptyHeld, Moved
    <3>3. live' \in [Id -> Shares]
      BY <2>0, <2>2, IngestTypes, ConstantsOK
    <3> QED BY <3>2, <3>3
  <2> QED BY <2>1, <2>2, CountUnitsShape
<1>6. TypeOK'
  BY <1>3, <1>5 DEF Typed, TypeOK, CountUnits, control, user
<1> QED BY <1>5, <1>6 DEF Typed

(* Types: inserting them.                                                  *)
LEMMA InsertUnitsTyped == ASSUME NEW c \in Session, Typed, InsertUnits(c) PROVE Typed'
<1>1. index' \in Seq(Records)
  BY UpsertType DEF Typed, TypeOK, InsertUnits, Runs
<1>3. muddled' \in BOOLEAN
  BY WatchType DEF Typed, TypeOK, InsertUnits
<1>4. "units" \in Places \ {"new"} /\ Goto(c, "units") /\ run' = [run EXCEPT ![c].held = <<>>] /\ pend' = pend
  BY DEF InsertUnits, Places, Idle, user
<1>5. run' \in [Session -> Runs] /\ pc' \in [Session -> Places] /\ Fitting'
  BY <1>4, EmptyHeld, Moved
<1>6. TypeOK'
  BY <1>1, <1>3, <1>5 DEF Typed, TypeOK, InsertUnits, control, user
<1> QED BY <1>5, <1>6 DEF Typed

(* Types: ScanController.end.                                              *)
LEMMA EndTyped == ASSUME NEW c \in Session, Typed, End(c) PROVE Typed'
<1>1. PICK what \in {"token", "flag"} : Close(c, what)
  BY DEF End, Closing
<1>2. /\ running' \in BOOLEAN /\ token' \in Session \cup {NoSession} /\ cancelled' \subseteq Session
      /\ muddled' \in BOOLEAN /\ pend' = pend
  BY <1>1, WatchType DEF Typed, TypeOK, Close, user
<1>3. /\ pc' \in [Session -> Places] /\ pc'[c] # "new" /\ \A d \in Session \ {c} : pc'[d] = pc[d]
      /\ run' = run \/ run' = [run EXCEPT ![c] = Clean]
  BY DEF Typed, TypeOK, End, Goto, Places, Idle
<1>4. run' \in [Session -> Runs] /\ Fitting'
  BY <1>2, <1>3, CleanType DEF Typed, TypeOK, Fitting
<1>5. TypeOK'
  BY <1>1, <1>2, <1>3, <1>4 DEF Typed, TypeOK, Close, data, user
<1> QED BY <1>4, <1>5 DEF Typed

(* A step of a change's background thread moves no session.                *)
LEMMA ApplyTyped ==
  ASSUME NEW k \in Change, Typed, ApplyStep(k)
  PROVE  Typed'
<1> DEFINE To(place, s, recs) == [at |-> place, s |-> s, held |-> recs]
<1>1. apply \in [Change -> Applies] /\ index \in Seq(Records) /\ apply[k].s \in Setting /\ apply[k].held \in Seq(Records)
  BY DEF Typed, TypeOK, Applies
<1>2. ASSUME NEW place \in Stages, NEW recs \in Seq(Records), Advance(k, place, recs)
      PROVE  apply' \in [Change -> Applies]
  <2>1. [apply[k] EXCEPT !.at = place, !.held = recs] \in Applies
    BY <1>1 DEF Applies
  <2>2. apply' = [apply EXCEPT ![k] = [apply[k] EXCEPT !.at = place, !.held = recs]]
    BY <1>1, <1>2 DEF Advance
  <2> QED BY <1>1, <2>1, <2>2
<1>3. {"new", "recalculate", "publish", "reapply", "write", "read", "totals", "done"} \subseteq Stages /\ <<>> \in Seq(Records)
  BY DEF Stages
<1>4. UNCHANGED <<dup, control, pc, run, user>>
  BY DEF ApplyStep, SetSettings, Recalculate, Publish, Reapply, Rewrite, Reread, Retotal, data, user
<1>5. muddled' \in BOOLEAN
  BY WatchType DEF Typed, TypeOK, ApplyStep, SetSettings, Recalculate, Publish, Reapply, Rewrite, Reread, Retotal
<1>6. Fitting'
  BY <1>4 DEF Typed, Fitting, user
<1>7. /\ apply' \in [Change -> Applies] /\ settings' \in Setting /\ acts' \in 0 .. MaxActs
      /\ index' \in Seq(Records) /\ live' \in [Id -> Shares]
  <2>1. CASE SetSettings(k)
    <3>1. PICK s \in Setting \ {settings} :
           /\ settings' = s
           /\ apply' = [apply EXCEPT ![k] = IF s \in Broken THEN Still("done")
                                            ELSE [at |-> "recalculate", s |-> s, held |-> <<>>]]
      BY <2>1 DEF SetSettings
    <3>2. [at |-> "recalculate", s |-> s, held |-> <<>>] \in Applies
      BY <1>3 DEF Applies
    <3>3. apply' \in [Change -> Applies]
      BY <1>1, <1>3, <3>1, <3>2, CleanType
    <3>4. acts' \in 0 .. MaxActs
      BY <2>1, ConstantsOK DEF SetSettings, Typed, TypeOK, Act
    <3> QED BY <2>1, <3>1, <3>3, <3>4 DEF SetSettings, Typed, TypeOK, data
  <2>2. CASE Recalculate(k)
    <3>1. ASSUME NEW n \in DOMAIN index PROVE Recategorised(apply[k].s, index[n]) \in Records
      <4>1. index[n] \in Records
        BY <1>1
      <4>2. Verdict(apply[k].s, index[n].path) \in Claim \cup {"none"}
        BY <1>1, <4>1, VerdictType DEF Records
      <4> QED BY <4>1, <4>2 DEF Recategorised, Records, Category
    <3>2. index' = [n \in DOMAIN index |-> Recategorised(apply[k].s, index[n])]
      BY <2>2 DEF Recalculate
    <3>3. DOMAIN index = 1 .. Len(index) /\ Len(index) \in Nat
      BY <1>1
    <3>4. index' \in Seq(Records)
      <4>1. index' \in [1 .. Len(index) -> Records]
        BY <3>1, <3>2, <3>3
      <4> QED BY <3>3, <4>1
    <3> QED BY <1>2, <1>3, <2>2, <3>4 DEF Recalculate, Typed, TypeOK
  <2>3. CASE Publish(k)
    BY <1>1, <1>2, <1>3, <2>3 DEF Publish, Typed, TypeOK, data
  <2>4. CASE Reapply(k)
    <3>1. SetToSeq(Promotable(index, dup)) \in Seq(Records)
      BY <1>1, PromotableIn
    <3> QED BY <1>2, <1>3, <2>4, <3>1 DEF Reapply, Typed, TypeOK, data
  <2>5. CASE Rewrite(k)
    BY <1>1, <1>2, <1>3, <2>5, UpsertType DEF Rewrite, Typed, TypeOK
  <2>6. CASE Reread(k)
    BY <1>1, <1>2, <1>3, <2>6 DEF Reread, Typed, TypeOK, data
  <2>7. CASE Retotal(k)
    <3>1. live' \in [Id -> Shares]
      BY <1>1, <2>7, IngestTypes, CleanType, ConstantsOK DEF Retotal
    <3>2. apply' \in [Change -> Applies]
      BY <1>1, <1>3, <2>7, CleanType DEF Retotal
    <3> QED BY <2>7, <3>1, <3>2 DEF Retotal, Typed, TypeOK
  <2> QED BY <2>1, <2>2, <2>3, <2>4, <2>5, <2>6, <2>7 DEF ApplyStep
<1>8. TypeOK'
  BY <1>4, <1>5, <1>7 DEF Typed, TypeOK, control, user
<1> QED BY <1>6, <1>8 DEF Typed

(* Types: scan.stop.                                                       *)
LEMMA StopTyped == ASSUME Typed, Stop PROVE Typed'
<1>1. muddled' \in BOOLEAN
  BY WatchType DEF Typed, TypeOK, Stop
<1>2. TypeOK'
  BY <1>1 DEF Typed, TypeOK, Stop, data, user
<1>3. Fitting'
  BY DEF Typed, Fitting, Stop, user
<1> QED BY <1>2, <1>3 DEF Typed

(* Types: a decision.                                                      *)
LEMMA DecideTyped == ASSUME Typed, Decide PROVE Typed'
<1>1. muddled' \in BOOLEAN
  BY WatchType DEF Typed, TypeOK, Decide
<1>2. PICK i \in Ids(index), kept \in BOOLEAN :
       /\ index' = Decided(i, kept)
       /\ pend' = pend \cup {[id |-> i, kept |-> kept]}
       /\ wish' = [wish EXCEPT ![i] = IF kept THEN "keep" ELSE "free"]
       /\ raced' = IF Writes(i) THEN raced \cup {i} ELSE raced \ {i}
  BY DEF Decide
<1>3. index \in Seq(Records) /\ DOMAIN index = 1 .. Len(index) /\ Len(index) \in Nat
  BY DEF Typed, TypeOK
<1>4. i \in Id
  <2>1. \A n \in DOMAIN index : index[n] \in Records
    BY <1>3
  <2> QED BY <2>1 DEF Ids, Records
<1>5. index' \in Seq(Records)
  <2>1. ASSUME NEW n \in DOMAIN index PROVE [index[n] EXCEPT !.kept = kept] \in Records /\ index[n] \in Records
    <3>1. index[n] \in Records
      BY <1>3
    <3> QED BY <3>1 DEF Records
  <2>2. index' \in [1 .. Len(index) -> Records]
    BY <1>2, <1>3, <2>1 DEF Decided
  <2> QED BY <1>3, <2>2
<1>6. pend' \subseteq [id : Id, kept : BOOLEAN] /\ IsFiniteSet(pend')
  <2>1. IsFiniteSet(pend)
    BY DEF Typed, Fitting
  <2> DEFINE d == [id |-> i, kept |-> kept]
  <2>2. IsFiniteSet(pend \cup {d})
    BY <2>1, FS_AddElement
  <2>3. d \in [id : Id, kept : BOOLEAN]
    BY <1>4
  <2> QED BY <1>2, <2>2, <2>3 DEF Typed, TypeOK
<1>7. wish' \in [Id -> {"none", "keep", "free"}] /\ raced' \subseteq Id
  BY <1>2, <1>4 DEF Typed, TypeOK
<1>8. acts' \in 0 .. MaxActs
  BY ConstantsOK DEF Decide, Act, Typed, TypeOK
<1>9. TypeOK'
  BY <1>1, <1>5, <1>6, <1>7, <1>8 DEF Typed, TypeOK, Decide, control
<1>10. Fitting'
  BY <1>6 DEF Typed, Fitting, Decide
<1> QED BY <1>9, <1>10 DEF Typed

(* Types: a decision reaching the totals.                                  *)
LEMMA TotalTyped == ASSUME Typed, Total PROVE Typed'
<1>1. muddled' \in BOOLEAN
  BY WatchType DEF Typed, TypeOK, Total
<1>2. PICK d \in pend : live' = SetDecision(d) /\ pend' = pend \ {d}
  BY DEF Total
<1>3. live \in [Id -> Shares] /\ pend \subseteq [id : Id, kept : BOOLEAN] /\ IsFiniteSet(pend)
  BY DEF Typed, TypeOK, Fitting
<1>4. live' \in [Id -> Shares]
  <2>1. d.id \in Id /\ d.kept \in BOOLEAN
    BY <1>3
  <2>2. [live[d.id] EXCEPT !.kept = d.kept] \in Shares
    BY <1>3, <2>1 DEF Shares
  <2>3. [live EXCEPT ![d.id].kept = d.kept] = [live EXCEPT ![d.id] = [live[d.id] EXCEPT !.kept = d.kept]]
    BY <1>3, <2>1
  <2> QED BY <1>2, <1>3, <2>1, <2>2, <2>3 DEF SetDecision
<1>5. pend' \subseteq [id : Id, kept : BOOLEAN] /\ IsFiniteSet(pend')
  BY <1>2, <1>3, FS_RemoveElement
<1>6. TypeOK'
  BY <1>1, <1>4, <1>5 DEF Typed, TypeOK, Total, control
<1>7. Fitting'
  BY <1>5 DEF Typed, Fitting, Total
<1> QED BY <1>6, <1>7 DEF Typed

(* The types hold at the start.                                            *)
LEMMA TypedInit == Init => Typed
<1> SUFFICES ASSUME Init PROVE Typed
  OBVIOUS
<1>1. <<>> \in Seq(Records) /\ {} \in SUBSET Groups /\ IsFiniteSet({})
  BY FS_EmptySet
<1>2. TypeOK
  <2>1. pc \in [Session -> Places] /\ run \in [Session -> Runs] /\ apply \in [Change -> Applies] /\ live \in [Id -> Shares]
    BY CleanType DEF Init, Places, Idle, Stages
  <2>2. acts \in 0 .. MaxActs /\ settings \in Setting
    BY ConstantsOK DEF Init
  <2>3. wish \in [Id -> {"none", "keep", "free"}] /\ raced \subseteq Id /\ pend \subseteq [id : Id, kept : BOOLEAN] /\ cancelled \subseteq Session
    BY DEF Init
  <2>4. running \in BOOLEAN /\ muddled \in BOOLEAN /\ token \in Session \cup {NoSession}
    BY DEF Init
  <2>5. index \in Seq(Records) /\ dup \in SUBSET Groups
    BY <1>1 DEF Init
  <2> HIDE DEF Init
  <2> QED BY <2>1, <2>2, <2>3, <2>4, <2>5 DEF TypeOK
<1>3. Fitting
  BY <1>1, CleanType DEF Init, Fitting
<1> QED BY <1>2, <1>3 DEF Typed

(* Every step keeps the types.                                             *)
LEMMA TypedNext == Typed /\ [Next]_vars => Typed'
<1> SUFFICES ASSUME Typed, [Next]_vars PROVE Typed'
  OBVIOUS
<1>1. CASE \E c \in Session : SessionStep(c)
  BY <1>1, BeginTyped, TakeTokenTyped, SpawnTyped, BatchTyped, TagTyped, CountTyped, EndFindTyped,
     SnapshotTyped, HashTyped, PromoteTyped, RecountTyped, StoreTyped, CountUnitsTyped, InsertUnitsTyped,
     EndTyped DEF SessionStep
<1>2. CASE UNCHANGED vars
  BY <1>2 DEF vars, data, control, user, Typed, TypeOK, Fitting
<1> QED BY <1>1, <1>2, ApplyTyped, StopTyped, DecideTyped, TotalTyped DEF Next

(* The types of all variables, whatever the files, detectors and settings,
   and however many sessions and changes.                                  *)
THEOREM TypeCorrect == Spec => []TypeOK
<1>1. Spec => []Typed
  BY TypedInit, TypedNext, PTL DEF Spec
<1>2. Typed => TypeOK
  BY DEF Typed
<1> QED BY <1>1, <1>2, PTL

-----------------------------------------------------------------------------
(* How far a session's thread has come.                                    *)
Starting == {"token", "spawn"}
Finding  == {"find", "tag", "count"}
Grouping == {"snapshot", "hash", "promote", "recount", "store"}
Adding   == {"units", "units in"}

(* The detector of folders whose units are the next to go into the index.  *)
Round(c) == IF pc[c] = "units in" THEN run[c].finder - 1 ELSE run[c].finder

(* Which ids the index has for which paths.                                *)
Listing == {<<index[n].path, index[n].id>> : n \in DOMAIN index}

Numbered(r) ==
  IF r.path \in Path THEN r.id \in Nat ELSE r.path \in Folder /\ r.id \in Unit /\ Lies[r.id] = r.path

(* A unit whose folder has come to be the unit of a later detector.        *)
Passed(i) ==
  i \in Unit /\ \E n \in DOMAIN index : index[n].path = Lies[i] /\ Finder[i] < Finder[index[n].id]

PassedThen(i) ==
  i \in Unit /\ \E n \in DOMAIN index' : index'[n].path = Lies[i] /\ Finder[i] < Finder[index'[n].id]

(* An id that has or had a record.                                         *)
Met(i) == i \in Ids(index) \/ Passed(i)
MetThen(i) == i \in Ids(index') \/ PassedThen(i)

(* The records are told apart by their paths and by their ids; what a
   session has not found yet is not among them.                            *)
Rows ==
  /\ Distinct(index)
  /\ \A n \in DOMAIN index : Numbered(index[n])
  /\ (\A c \in Session : pc[c] \in Starting \cup {"new"}) => index = <<>>
  /\ \A c \in Session : pc[c] \in Finding =>
       \A n \in DOMAIN index : index[n].path \in Path \ run[c].todo /\ index[n].id < run[c].next
  /\ \A c \in Session : pc[c] \in Grouping => \A n \in DOMAIN index : index[n].path \in Path
  /\ \A c \in Session : pc[c] \in Adding =>
       \A n \in DOMAIN index : index[n].path \in Path \/ Finder[index[n].id] < Round(c)

(* Whatever a thread holds it has read from records that are still there,
   or are units that another detector's have replaced.                     *)
Traced ==
  /\ \A c \in Session : pc[c] \in {"tag", "count", "hash", "promote"} =>
       \A r \in Range(run[c].held) : <<r.path, r.id>> \in Listing
  /\ \A c \in Session : pc[c] \in {"tag", "count"} =>
       \A r \in Range(run[c].held) : r.path \in Path /\ r.cat = "none" /\ ~r.kept
  /\ \A c \in Session : pc[c] = "hash" =>
       \A r \in Range(run[c].held) : r.path \in Path
  /\ \A c \in Session : pc[c] = "units in" =>
       /\ Distinct(run[c].held)
       /\ \A r \in Range(run[c].held) : FoundBy(r, Round(c))
  /\ \A k \in Change : apply[k].at = "write" =>
       \A r \in Range(apply[k].held) : r.path \in Path /\ <<r.path, r.id>> \in Listing
  /\ \A k \in Change : apply[k].at = "totals" => \A r \in Range(apply[k].held) : Met(r.id)

(* A step of the first session: all others have still to start.            *)
LEMMA Alone ==
  ASSUME NEW c \in Session, Typed, FirstScan', SessionStep(c)
  PROVE  /\ FirstScan
         /\ pc \in [Session -> Places] /\ pc' \in [Session -> Places] /\ pc'[c] # "new"
         /\ \A d \in Session \ {c} : pc[d] = "new" /\ pc'[d] = "new" /\ run[d] = Clean /\ run'[d] = Clean
         /\ apply' = apply
<1>1. pc \in [Session -> Places] /\ run \in [Session -> Runs] /\ \A d \in Session : pc[d] = "new" => run[d] = Clean
  BY DEF Typed, TypeOK, Fitting
<1>2. /\ pc' \in [Session -> Places] /\ pc'[c] # "new"
      /\ \A d \in Session \ {c} : pc'[d] = pc[d] /\ run'[d] = run[d]
      /\ apply' = apply
  <2>1. CASE Begin(c)
    BY <1>1, <2>1 DEF Begin, Goto, Places, Idle
  <2>2. CASE TakeToken(c)
    BY <1>1, <2>2 DEF TakeToken, Goto, Places, Idle
  <2>3. CASE Spawn(c)
    BY <1>1, <2>3 DEF Spawn, Goto, Places, Idle
  <2>4. CASE Batch(c)
    BY <1>1, <2>4 DEF Batch, Goto, Places, Idle
  <2>5. CASE Tag(c) \/ Count(c) \/ EndFind(c) \/ Snapshot(c)
    BY <1>1, <2>5 DEF Tag, Count, EndFind, Snapshot, Goto, Places, Idle
  <2>6. CASE Hash(c)
    BY <1>1, <2>6 DEF Hash, Goto, Places, Idle
  <2>7. CASE Promote(c) \/ Recount(c) \/ Store(c) \/ InsertUnits(c)
    BY <1>1, <2>7 DEF Promote, Recount, Store, InsertUnits, Goto, Places, Idle
  <2>8. CASE CountUnits(c)
    BY <1>1, <2>8 DEF CountUnits, Goto, Places, Idle
  <2>9. CASE End(c)
    BY <1>1, <2>9 DEF End, Close, Goto, Places, Idle
  <2> QED BY <2>1, <2>2, <2>3, <2>4, <2>5, <2>6, <2>7, <2>8, <2>9 DEF SessionStep
<1>3. \A d \in Session \ {c} : pc'[d] = "new"
  BY <1>2 DEF FirstScan
<1>4. FirstScan
  BY <1>2, <1>3 DEF FirstScan
<1> QED BY <1>1, <1>2, <1>3, <1>4

(* A thread, a change or the user leaves the listing as it is.             *)
InPlace ==
  /\ DOMAIN index' = DOMAIN index
  /\ \A n \in DOMAIN index : index'[n].path = index[n].path /\ index'[n].id = index[n].id

(* A file keeps its id; a unit at least leaves a trace.                    *)
Lasts ==
  /\ \A i : \A p \in Path : <<p, i>> \in Listing => <<p, i>> \in Listing'
  /\ \A i : Met(i) => MetThen(i)

(* In place every path keeps its id, and no unit is replaced.              *)
LEMMA InPlaceListing ==
  ASSUME InPlace
  PROVE  /\ Listing' = Listing /\ Lasts
         /\ \A i : Passed(i) <=> PassedThen(i)
         /\ \A i : Met(i) <=> MetThen(i)
<1>1. Listing' = Listing /\ Ids(index') = Ids(index)
  BY DEF InPlace, Listing, Ids
<1>2. \A i : Passed(i) <=> PassedThen(i)
  BY DEF InPlace, Passed, PassedThen
<1> QED BY <1>1, <1>2 DEF Lasts, Met, MetThen

(* One less and one more.                                                  *)
LEMMA Beside == \A n \in Nat : n \in Int /\ n - 1 \in Int /\ (n + 1) - 1 = n /\ (n - 1) + 1 = n /\ n <= n + 1
  OBVIOUS

(* The rounds are numbers.                                                 *)
LEMMA RoundType == ASSUME Typed PROVE \A c \in Session : run[c].finder \in Nat /\ Round(c) \in Int
<1>1. ASSUME NEW c \in Session PROVE run[c].finder \in Nat
  <2>1. run[c] \in Runs /\ Finders \in Nat
    BY ConstantsOK DEF Typed, TypeOK
  <2> QED BY <2>1 DEF Runs
<1> QED BY <1>1, Beside, Zenon DEF Round

(* A record of the index is not a replaced one.                            *)
LEMMA NeverPassed ==
  ASSUME Rows
  PROVE  \A n \in DOMAIN index : ~Passed(index[n].id) /\ (index[n].id \in Unit => Finder[index[n].id] \in Nat)
<1> SUFFICES ASSUME NEW n \in DOMAIN index, index[n].id \in Unit
             PROVE  ~Passed(index[n].id) /\ Finder[index[n].id] \in Nat
  BY DEF Passed
<1>1. Finder[index[n].id] \in Nat
  BY ConstantsOK
<1>2. index[n].path = Lies[index[n].id]
  BY ConstantsOK DEF Rows, Numbered
<1>3. \A m \in DOMAIN index : index[m].path = index[n].path => m = n
  BY DEF Rows, Distinct
<1>4. ~ (Finder[index[n].id] < Finder[index[n].id])
  BY <1>1
<1> QED BY <1>1, <1>2, <1>3, <1>4 DEF Passed

(* Then records stay apart.                                                *)
LEMMA InPlaceRows ==
  ASSUME InPlace, Rows
  PROVE  Distinct(index)' /\ \A n \in DOMAIN index' : Numbered(index'[n])
  BY DEF InPlace, Rows, Distinct, Numbered

(* What is written back to records of the index replaces them.             *)
LEMMA Patched ==
  ASSUME Typed, Distinct(index), NEW recs \in Seq(Records), index' = Upsert(index, recs),
         \A r \in Range(recs) : <<r.path, r.id>> \in Listing
  PROVE  /\ InPlace
         /\ \A n \in DOMAIN index :
              \/ index'[n] = index[n] /\ \A r \in Range(recs) : r.path # index[n].path
              \/ index'[n] \in Range(recs)
<1>1. index \in Seq(Records)
  BY DEF Typed, TypeOK
<1>2. \A j \in DOMAIN recs : \E n \in DOMAIN index : index[n].path = recs[j].path /\ index[n].id = recs[j].id
  BY DEF Range, Listing
<1>3. /\ DOMAIN index' = DOMAIN index
      /\ \A n \in DOMAIN index :
           /\ index'[n].path = index[n].path /\ index'[n].id = index[n].id
           /\ \/ index'[n] = index[n] /\ \A j \in DOMAIN recs : recs[j].path # index[n].path
              \/ \E j \in DOMAIN recs : index'[n] = recs[j]
  BY <1>1, <1>2, UpsertInPlace
<1> QED BY <1>3 DEF InPlace, Range

(* The verdicts of the detectors on what the thread holds.                 *)
LEMMA TaggedAre ==
  ASSUME NEW c \in Session, Typed
  PROVE  /\ Tagged(c) \in Seq(Records)
         /\ \A r \in Range(Tagged(c)) : \E h \in Range(run[c].held) :
              /\ r.path = h.path /\ r.id = h.id /\ r.kept = h.kept
              /\ r.cat = Verdict(run[c].farm, h.path) /\ r.cat # "none" /\ r.cat # "duplicates"
         /\ \A h \in Range(run[c].held) : Verdict(run[c].farm, h.path) # "none" =>
              \E r \in Range(Tagged(c)) : r.path = h.path
<1> DEFINE held == run[c].held
           farm == run[c].farm
           verdicts == [k \in DOMAIN held |-> [held[k] EXCEPT !.cat = Verdict(farm, held[k].path)]]
           S == {r \in Records : r.cat # "none"}
<1>1. held \in Seq(Records) /\ farm \in Setting
  BY DEF Typed, TypeOK, Runs
<1>2. ASSUME NEW k \in DOMAIN held
      PROVE  /\ verdicts[k] \in Records
             /\ verdicts[k].path = held[k].path /\ verdicts[k].id = held[k].id /\ verdicts[k].kept = held[k].kept
             /\ verdicts[k].cat = Verdict(farm, held[k].path) /\ verdicts[k].cat # "duplicates"
  <2> HIDE DEF held, farm
  <2>1. held[k] \in Records
    BY <1>1
  <2>2. Verdict(farm, held[k].path) \in Claim \cup {"none"} /\ Verdict(farm, held[k].path) # "duplicates"
    BY <1>1, <2>1, VerdictType DEF Records
  <2> QED BY <2>1, <2>2 DEF Records, Category
<1>3. DOMAIN verdicts = DOMAIN held /\ DOMAIN held = 1 .. Len(held) /\ Len(held) \in Nat
  BY <1>1
<1>4. Tagged(c) = Those(verdicts, S)
  BY DEF Tagged
<1> HIDE DEF verdicts, held, farm
<1>6. verdicts \in Seq(Records)
  <2>1. verdicts \in [1 .. Len(held) -> Records]
    BY <1>2, <1>3 DEF verdicts
  <2> QED BY <1>3, <2>1
<1>7. Tagged(c) \in Seq(Records) /\ \A r : r \in Range(Tagged(c)) <=> r \in Range(verdicts) /\ r \in S
  BY <1>4, <1>6, ThoseAre
<1>8. ASSUME NEW r \in Range(Tagged(c)) PROVE \E h \in Range(held) :
              /\ r.path = h.path /\ r.id = h.id /\ r.kept = h.kept
              /\ r.cat = Verdict(farm, h.path) /\ r.cat # "none" /\ r.cat # "duplicates"
  <2>1. PICK k \in DOMAIN held : r = verdicts[k]
    BY <1>3, <1>7 DEF Range
  <2>2. r.cat # "none"
    BY <1>7
  <2>3. held[k] \in Range(held)
    BY DEF Range
  <2> QED BY <1>2, <2>1, <2>2, <2>3
<1>9. ASSUME NEW h \in Range(held), Verdict(farm, h.path) # "none" PROVE \E r \in Range(Tagged(c)) : r.path = h.path
  <2>1. PICK k \in DOMAIN held : h = held[k]
    BY DEF Range
  <2>2. verdicts[k] \in Range(verdicts) /\ verdicts[k] \in S
    BY <1>2, <1>3, <1>9, <2>1 DEF Range
  <2> QED BY <1>2, <1>7, <2>1, <2>2
<1> QED BY <1>7, <1>8, <1>9 DEF held, farm

-----------------------------------------------------------------------------
(* A session that only goes on, with what it has still to find.            *)
Forth(d) ==
  /\ pc'[d] \in Starting \cup {"new"} => pc[d] \in Starting \cup {"new"}
  /\ pc'[d] \in Finding => pc[d] \in Finding /\ run'[d].todo = run[d].todo /\ run'[d].next = run[d].next
  /\ pc'[d] \in Grouping => pc[d] \in Finding \cup Grouping
  /\ pc'[d] \in Adding => pc[d] \in Finding \cup Grouping \/ (pc[d] \in Adding /\ Round(d) <= Round(d)')

(* A step in place, of a session that goes on or waits, keeps the rows.    *)
LEMMA RowsKeep ==
  ASSUME Typed, Typed', Rows, InPlace, \A d \in Session : Forth(d)
  PROVE  Rows'
<1>1. Distinct(index)' /\ \A n \in DOMAIN index' : Numbered(index'[n])
  BY InPlaceRows
<1>2. (\A d \in Session : pc'[d] \in Starting \cup {"new"}) => index' = <<>>
  <2>1. index' \in Seq(Records)
    BY DEF Typed, TypeOK
  <2> QED BY <2>1 DEF Forth, Rows, InPlace
<1>3. ASSUME NEW d \in Session, pc'[d] \in Finding, NEW n \in DOMAIN index'
      PROVE  index'[n].path \in Path \ run'[d].todo /\ index'[n].id < run'[d].next
  BY <1>3 DEF Forth, Rows, InPlace
<1>4. ASSUME NEW d \in Session, pc'[d] \in Grouping, NEW n \in DOMAIN index'
      PROVE  index'[n].path \in Path
  BY <1>4 DEF Forth, Rows, InPlace
<1>5. ASSUME NEW d \in Session, pc'[d] \in Adding, NEW n \in DOMAIN index'
      PROVE  index'[n].path \in Path \/ Finder[index'[n].id] < Round(d)'
  <2>1. n \in DOMAIN index /\ index'[n].path = index[n].path /\ index'[n].id = index[n].id
    BY DEF InPlace
  <2>2. CASE pc[d] \in Finding \cup Grouping
    BY <2>1, <2>2 DEF Rows
  <2>3. CASE pc[d] \in Adding /\ Round(d) <= Round(d)' /\ index[n].path \notin Path
    <3>1. Finder[index[n].id] < Round(d) /\ Round(d) \in Int /\ Round(d)' \in Int
      <4>1. Round(d)' \in Int
        <5>1. run'[d] \in Runs /\ Finders \in Nat
          BY ConstantsOK DEF Typed, TypeOK
        <5>2. run'[d].finder \in Nat
          BY <5>1 DEF Runs
        <5> QED BY <5>2, Beside, Zenon DEF Round
      <4> QED BY <2>1, <2>3, <4>1, RoundType DEF Rows
    <3>2. Finder[index[n].id] \in Nat
      BY <2>1, <2>3, NeverPassed DEF Rows, Numbered
    <3> DEFINE f == Finder[index[n].id]
               r == Round(d)
    <3>3. f < r /\ r <= r' /\ f \in Nat /\ r \in Int /\ r' \in Int
      BY <2>3, <3>1, <3>2
    <3> HIDE DEF f, r
    <3>4. f < r'
      BY <3>3
    <3> QED BY <2>1, <3>4 DEF f, r
  <2> QED BY <1>5, <2>1, <2>2, <2>3 DEF Forth
<1> QED BY <1>1, <1>2, <1>3, <1>4, <1>5 DEF Rows

(* What has to be shown of the threads after a step.                       *)
LEMMA TracedThen ==
  ASSUME \A d \in Session : pc'[d] \in {"tag", "count", "hash", "promote"} =>
           \A r \in Range(run'[d].held) : <<r.path, r.id>> \in Listing',
         \A d \in Session : pc'[d] \in {"tag", "count"} =>
           \A r \in Range(run'[d].held) : r.path \in Path /\ r.cat = "none" /\ ~r.kept,
         \A d \in Session : pc'[d] = "hash" => \A r \in Range(run'[d].held) : r.path \in Path,
         \A d \in Session : pc'[d] = "units in" =>
           Distinct(run'[d].held) /\ \A r \in Range(run'[d].held) : FoundBy(r, Round(d)'),
         \A k \in Change : apply'[k].at = "write" =>
           \A r \in Range(apply'[k].held) : r.path \in Path /\ <<r.path, r.id>> \in Listing',
         \A k \in Change : apply'[k].at = "totals" => \A r \in Range(apply'[k].held) : MetThen(r.id)
  PROVE  Traced'
  BY DEF Traced, Range, Distinct, FoundBy, Met, MetThen, Passed, PassedThen, Ids

(* A session that goes on with what it holds, or holds nothing any more.   *)
Carries(d) ==
  pc'[d] \in {"tag", "count", "hash", "promote", "units in"} =>
    /\ run'[d].held = run[d].held /\ run'[d].finder = run[d].finder
    /\ pc'[d] = pc[d] \/ (pc[d] = "tag" /\ pc'[d] = "count")

CarriesOn(k) == apply'[k].at \in {"write", "totals"} => apply'[k] = apply[k]

(* What was read from the index is still there, if all is in place.        *)
LEMMA TracedKeep ==
  ASSUME Traced, InPlace, \A d \in Session : Carries(d), \A k \in Change : CarriesOn(k)
  PROVE  Traced'
<1>0. Listing' = Listing /\ \A i : Met(i) => MetThen(i)
  BY InPlaceListing
<1>1. ASSUME NEW d \in Session, pc'[d] \in {"tag", "count", "hash", "promote"}, NEW r \in Range(run'[d].held)
      PROVE  <<r.path, r.id>> \in Listing'
  BY <1>0, <1>1 DEF Carries, Traced
<1>2. ASSUME NEW d \in Session, pc'[d] \in {"tag", "count"}, NEW r \in Range(run'[d].held)
      PROVE  r.path \in Path /\ r.cat = "none" /\ ~r.kept
  BY <1>2 DEF Carries, Traced
<1>3. ASSUME NEW d \in Session, pc'[d] = "hash", NEW r \in Range(run'[d].held) PROVE r.path \in Path
  BY <1>3 DEF Carries, Traced
<1>4. ASSUME NEW d \in Session, pc'[d] = "units in"
      PROVE  /\ Distinct(run'[d].held)
             /\ \A r \in Range(run'[d].held) : FoundBy(r, Round(d)')
  <2>1. pc[d] = "units in" /\ run'[d].held = run[d].held /\ run'[d].finder = run[d].finder
    BY <1>4 DEF Carries
  <2>2. Round(d)' = Round(d)
    BY <1>4, <2>1 DEF Round
  <2> QED BY <2>1, <2>2 DEF Traced
<1>5. ASSUME NEW k \in Change, apply'[k].at = "write", NEW r \in Range(apply'[k].held)
      PROVE  r.path \in Path /\ <<r.path, r.id>> \in Listing'
  BY <1>0, <1>5 DEF CarriesOn, Traced
<1>6. ASSUME NEW k \in Change, apply'[k].at = "totals", NEW r \in Range(apply'[k].held)
      PROVE  MetThen(r.id)
  BY <1>0, <1>6 DEF CarriesOn, Traced
<1> QED BY <1>1, <1>2, <1>3, <1>4, <1>5, <1>6, TracedThen

(* One session moves, and the others have not begun.                       *)
LEMMA Others ==
  ASSUME NEW c \in Session, Typed, FirstScan', SessionStep(c)
  PROVE  /\ \A d \in Session \ {c} : Forth(d) /\ Carries(d)
         /\ \A k \in Change : CarriesOn(k)
<1>1. \A d \in Session \ {c} : pc[d] = "new" /\ pc'[d] = "new"
  BY Alone
<1>2. apply' = apply
  BY Alone
<1> QED BY <1>1, <1>2 DEF Forth, Carries, CarriesOn, Starting, Finding, Grouping, Adding

(* The rest of a step is a matter of the session that takes it.            *)
LEMMA OwnStep ==
  ASSUME NEW c \in Session, Typed, Typed', FirstScan', SessionStep(c), Rows, Traced, InPlace
  PROVE  /\ Forth(c) => Rows'
         /\ Carries(c) => Traced'
<1>1. Listing' = Listing
  BY InPlaceListing
<1> QED BY <1>1, Others, RowsKeep, TracedKeep

(* An index that does not change is in place.                              *)
LEMMA Unmoved == ASSUME index' = index PROVE InPlace
  BY DEF InPlace

-----------------------------------------------------------------------------
(* What a session comes to hold.                                           *)
LEMMA TracedOwn ==
  ASSUME NEW c \in Session, Typed, FirstScan', SessionStep(c), Traced, Lasts,
         pc'[c] \in {"tag", "count", "hash", "promote"} =>
           \A r \in Range(run'[c].held) : <<r.path, r.id>> \in Listing',
         pc'[c] \in {"tag", "count"} => \A r \in Range(run'[c].held) : r.path \in Path /\ r.cat = "none" /\ ~r.kept,
         pc'[c] = "hash" => \A r \in Range(run'[c].held) : r.path \in Path,
         pc'[c] = "units in" =>
           Distinct(run'[c].held) /\ \A r \in Range(run'[c].held) : FoundBy(r, Round(c)')
  PROVE  Traced'
<1>1. \A d \in Session \ {c} : pc'[d] = "new"
  BY Alone
<1>2. apply' = apply
  BY Alone
<1>3. /\ \A k \in Change : apply'[k].at = "write" =>
            \A r \in Range(apply'[k].held) : r.path \in Path /\ <<r.path, r.id>> \in Listing'
      /\ \A k \in Change : apply'[k].at = "totals" => \A r \in Range(apply'[k].held) : MetThen(r.id)
  BY <1>2 DEF Traced, Lasts
<1>4. \A d \in Session : pc'[d] # "new" => d = c
  BY <1>1
<1>5. \A d \in Session : pc'[d] \in {"tag", "count", "hash", "promote"} =>
       \A r \in Range(run'[d].held) : <<r.path, r.id>> \in Listing'
  BY <1>4
<1>6. \A d \in Session : pc'[d] \in {"tag", "count"} =>
       \A r \in Range(run'[d].held) : r.path \in Path /\ r.cat = "none" /\ ~r.kept
  BY <1>4
<1>7. \A d \in Session : pc'[d] = "hash" => \A r \in Range(run'[d].held) : r.path \in Path
  BY <1>4
<1>8. \A d \in Session : pc'[d] = "units in" =>
       Distinct(run'[d].held) /\ \A r \in Range(run'[d].held) : FoundBy(r, Round(d)')
  BY <1>4
<1> QED BY <1>3, <1>5, <1>6, <1>7, <1>8, TracedThen

(* The same of the rows: a step of the one session that has begun.         *)
LEMMA RowsOwn ==
  ASSUME NEW c \in Session, Typed, FirstScan', SessionStep(c),
         Distinct(index)', \A n \in DOMAIN index' : Numbered(index'[n]),
         pc'[c] \notin Starting,
         pc'[c] \in Finding => \A n \in DOMAIN index' : index'[n].path \in Path \ run'[c].todo /\ index'[n].id < run'[c].next,
         pc'[c] \in Grouping => \A n \in DOMAIN index' : index'[n].path \in Path,
         pc'[c] \in Adding => \A n \in DOMAIN index' : index'[n].path \in Path \/ Finder[index'[n].id] < Round(c)'
  PROVE  Rows'
<1>1. pc'[c] # "new" /\ \A d \in Session \ {c} : pc'[d] = "new"
  BY Alone
<1>2. \A d \in Session : pc'[d] \in Finding => d = c
  BY <1>1 DEF Finding
<1>3. \A d \in Session : pc'[d] \in Grouping \cup Adding => d = c
  <2>1. "new" \notin Grouping \cup Adding
    BY DEF Grouping, Adding
  <2> QED BY <1>1, <2>1
<1>4. ~ \A d \in Session : pc'[d] \in Starting \cup {"new"}
  BY <1>1
<1>5. \A d \in Session : pc'[d] \in Finding =>
       \A n \in DOMAIN index' : index'[n].path \in Path \ run'[d].todo /\ index'[n].id < run'[d].next
  BY <1>2
<1>6. \A d \in Session : pc'[d] \in Grouping => \A n \in DOMAIN index' : index'[n].path \in Path
  BY <1>3
<1>7. Distinct(index)' /\ (\A n \in DOMAIN index : Numbered(index[n]))'
  BY DEF Numbered
<1>8. \A d \in Session : pc'[d] \in Adding =>
       \A n \in DOMAIN index' : index'[n].path \in Path \/ Finder[index'[n].id] < Round(d)'
  BY <1>3
<1> QED BY <1>4, <1>5, <1>6, <1>7, <1>8 DEF Rows

(* Before the first session and until its thread starts nothing is found.  *)
LEMMA NothingYet ==
  ASSUME NEW c \in Session, Typed, FirstScan', SessionStep(c), Rows, pc[c] \in Starting
  PROVE  index = <<>>
<1>1. \A d \in Session \ {c} : pc[d] = "new"
  BY Alone
<1>2. \A d \in Session : pc[d] \in Starting \cup {"new"}
  BY <1>1
<1> QED BY <1>2 DEF Rows

(* Rows: starting the thread.                                              *)
LEMMA SpawnRows ==
  ASSUME NEW c \in Session, Typed, Typed', FirstScan', Rows, Traced, Spawn(c)
  PROVE  Rows' /\ Traced' /\ InPlace
<1>1. index' = index /\ pc[c] = "spawn" /\ pc'[c] \in {"end", "dead", "find"}
  BY DEF Spawn, At, Goto, Typed, TypeOK
<1>2. InPlace /\ SessionStep(c)
  BY <1>1, Unmoved DEF SessionStep
<1>3. index' = <<>>
  BY <1>1, <1>2, NothingYet DEF Starting
<1>4. Rows'
  <2>1. Distinct(index)' /\ \A n \in DOMAIN index' : Numbered(index'[n])
    BY <1>2, InPlaceRows
  <2>2. DOMAIN index' = {}
    BY <1>3
  <2>3. pc'[c] \notin Starting /\ pc'[c] \notin Grouping \cup Adding
    BY <1>1 DEF Starting, Grouping, Adding
  <2> QED BY <1>2, <2>1, <2>2, <2>3, RowsOwn
<1>5. Traced'
  BY <1>1, <1>2, OwnStep DEF Carries
<1> QED BY <1>2, <1>4, <1>5

(* The steps that leave the index alone.                                   *)
LEMMA QuietRows ==
  ASSUME NEW c \in Session, Typed, Typed', FirstScan', Rows, Traced,
         Begin(c) \/ TakeToken(c) \/ Count(c) \/ EndFind(c) \/ Recount(c) \/ Store(c) \/ End(c)
  PROVE  Rows' /\ Traced' /\ InPlace
<1>1. SessionStep(c) /\ run \in [Session -> Runs] /\ pc \in [Session -> Places]
  BY DEF SessionStep, Typed, TypeOK
<1>2. index' = index /\ Forth(c) /\ Carries(c)
  <2> USE DEF Forth, Carries, Starting, Finding, Grouping, Adding, At, Goto
  <2>1. CASE Begin(c)
    BY <1>1, <2>1 DEF Begin, data
  <2>2. CASE TakeToken(c)
    BY <1>1, <2>2 DEF TakeToken, data
  <2>3. CASE Count(c)
    BY <1>1, <2>3 DEF Count, Runs
  <2>4. CASE EndFind(c)
    BY <1>1, <2>4 DEF EndFind, data
  <2>5. CASE Recount(c)
    BY <1>1, <2>5 DEF Recount
  <2>6. CASE Store(c)
    BY <1>1, <2>6 DEF Store
  <2>7. CASE End(c)
    BY <1>1, <2>7 DEF End, Close, data
  <2> QED BY <2>1, <2>2, <2>3, <2>4, <2>5, <2>6, <2>7
<1>3. InPlace
  BY <1>2, Unmoved
<1> QED BY <1>1, <1>2, <1>3, OwnStep

(* What the detectors say is written over what the batch inserted.         *)
LEMMA TagRows ==
  ASSUME NEW c \in Session, Typed, Typed', FirstScan', Rows, Traced, Tag(c)
  PROVE  /\ Rows' /\ Traced' /\ InPlace
         /\ \A n \in DOMAIN index :
              \/ index'[n] = index[n] /\ \A r \in Range(Tagged(c)) : r.path # index[n].path
              \/ index'[n] \in Range(Tagged(c))
<1>1. SessionStep(c) /\ pc \in [Session -> Places] /\ pc[c] = "tag" /\ index' = Upsert(index, Tagged(c))
  BY DEF SessionStep, Typed, TypeOK, Tag, At
<1>2. Tagged(c) \in Seq(Records) /\ \A r \in Range(Tagged(c)) : <<r.path, r.id>> \in Listing
  <2>1. \A h \in Range(run[c].held) : <<h.path, h.id>> \in Listing
    BY <1>1 DEF Traced
  <2> QED BY <2>1, TaggedAre
<1>3. InPlace /\ \A n \in DOMAIN index :
              \/ index'[n] = index[n] /\ \A r \in Range(Tagged(c)) : r.path # index[n].path
              \/ index'[n] \in Range(Tagged(c))
  <2>1. Distinct(index)
    BY DEF Rows
  <2> QED BY <1>1, <1>2, <2>1, Patched
<1>4. Forth(c) /\ Carries(c)
  BY <1>1 DEF Tag, Goto, Forth, Carries, Starting, Finding, Grouping, Adding
<1> QED BY <1>1, <1>3, <1>4, OwnStep

(* Rows: writing the duplicates back.                                      *)
LEMMA PromoteRows ==
  ASSUME NEW c \in Session, Typed, Typed', FirstScan', Rows, Traced, Promote(c)
  PROVE  /\ Rows' /\ Traced' /\ InPlace
         /\ \A n \in DOMAIN index :
              \/ index'[n] = index[n] /\ \A r \in Range(run[c].held) : r.path # index[n].path
              \/ index'[n] \in Range(run[c].held)
<1>1. /\ SessionStep(c) /\ pc \in [Session -> Places] /\ pc[c] = "promote"
      /\ index' = Upsert(index, run[c].held) /\ pc'[c] = "recount"
  BY DEF SessionStep, Typed, TypeOK, Promote, At, Goto
<1>2. run[c].held \in Seq(Records) /\ \A r \in Range(run[c].held) : <<r.path, r.id>> \in Listing
  BY <1>1 DEF Traced, Typed, TypeOK, Runs
<1>3. InPlace /\ \A n \in DOMAIN index :
              \/ index'[n] = index[n] /\ \A r \in Range(run[c].held) : r.path # index[n].path
              \/ index'[n] \in Range(run[c].held)
  <2>1. Distinct(index)
    BY DEF Rows
  <2> QED BY <1>1, <1>2, <2>1, Patched
<1>4. Forth(c) /\ Carries(c)
  BY <1>1 DEF Forth, Carries, Starting, Finding, Grouping, Adding
<1> QED BY <1>1, <1>3, <1>4, OwnStep

-----------------------------------------------------------------------------
(* Who is promoted was read with no category, and is a spare copy.         *)
LEMMA PromotableFrom ==
  ASSUME NEW recs \in Seq(Records), NEW groups, NEW r \in Promotable(recs, groups)
  PROVE  /\ r.cat = "duplicates"
         /\ \E g \in groups : r.id \in g.members \ {g.keep}
         /\ \E h \in Range(recs) : /\ h.path = r.path /\ h.id = r.id /\ h.kept = r.kept
                                   /\ h.cat = "none"
<1>1. PICK i \in {j \in UNION {g.members \ {g.keep} : g \in groups} :
                    j \in Ids(recs) /\ LastOf(recs, j).cat = "none"} :
             r = [LastOf(recs, i) EXCEPT !.cat = "duplicates"]
  BY DEF Promotable
<1>2. LastOf(recs, i) \in Range(recs) /\ LastOf(recs, i) \in Records /\ LastOf(recs, i).id = i
  BY <1>1, LastOfIn
<1> DEFINE h == LastOf(recs, i)
<1>3. h.cat = "none" /\ r = [h EXCEPT !.cat = "duplicates"] /\ h \in Range(recs) /\ h \in Records /\ h.id = i
  BY <1>1, <1>2
<1>4. \E g \in groups : i \in g.members \ {g.keep}
  BY <1>1
<1> HIDE DEF h
<1>5. r.cat = "duplicates" /\ r.id = i /\ h.path = r.path /\ h.id = r.id /\ h.kept = r.kept
  BY <1>3 DEF Records
<1> QED BY <1>3, <1>4, <1>5

(* Rows: reading the files to compare.                                     *)
LEMMA SnapshotRows ==
  ASSUME NEW c \in Session, Typed, Typed', FirstScan', Rows, Traced, Snapshot(c)
  PROVE  /\ Rows' /\ Traced' /\ InPlace
         /\ pc'[c] = "hash" => \A r \in Range(run'[c].held) : r \in Range(index) /\ r.path \in Path /\ ~r.kept
<1> DEFINE S == {r \in Records : r.path \in Path /\ ~r.kept}
           files == Those(index, S)
<1>1. /\ SessionStep(c) /\ pc \in [Session -> Places] /\ pc[c] = "snapshot" /\ index' = index
      /\ index \in Seq(Records) /\ run \in [Session -> Runs]
  BY DEF SessionStep, Typed, TypeOK, Snapshot, At, data
<1>2. \/ pc'[c] = "units" /\ run' = run
      \/ pc'[c] = "hash" /\ run' = [run EXCEPT ![c].held = files]
  BY <1>1 DEF Snapshot, Goto
<1>3. \A r \in Range(files) : r \in Range(index) /\ r \in S
  BY <1>1, ThoseAre
<1> HIDE DEF files
<1>4. pc'[c] = "hash" => \A r \in Range(run'[c].held) : r \in Range(index) /\ r.path \in Path /\ ~r.kept
  <2>1. pc'[c] = "hash" => run'[c].held = files
    BY <1>1, <1>2 DEF Runs
  <2> QED BY <1>3, <2>1
<1>5. \A r \in Range(index) : <<r.path, r.id>> \in Listing
  BY DEF Range, Listing
<1>6. InPlace /\ Listing' = Listing /\ Lasts
  BY <1>1, Unmoved, InPlaceListing
<1>7. Forth(c)
  <2>1. run'[c].todo = run[c].todo /\ run'[c].next = run[c].next
    BY <1>1, <1>2 DEF Runs
  <2> QED BY <1>1, <1>2, <2>1 DEF Forth, Starting, Finding, Grouping, Adding
<1>8. Traced'
  BY <1>1, <1>2, <1>4, <1>5, <1>6, TracedOwn
<1> QED BY <1>1, <1>4, <1>6, <1>7, <1>8, OwnStep

(* Rows: grouping by content.                                              *)
LEMMA HashRows ==
  ASSUME NEW c \in Session, Typed, Typed', FirstScan', Rows, Traced, Hash(c)
  PROVE  Rows' /\ Traced' /\ InPlace
<1>1. /\ SessionStep(c) /\ pc \in [Session -> Places] /\ pc[c] = "hash" /\ index' = index
      /\ run \in [Session -> Runs]
  BY DEF SessionStep, Typed, TypeOK, Hash, At, data
<1>2. run[c].held \in Seq(Records)
  BY <1>1 DEF Runs
<1>3. \/ pc'[c] = "units"
      \/ /\ pc'[c] = "promote"
         /\ \E marked \in SUBSET Groups :
              run' = [run EXCEPT ![c].marked = marked, ![c].held = SetToSeq(Promotable(run[c].held, marked))]
  <2>1. \/ Goto(c, "units")
        \/ \E marked \in SUBSET Groups :
             Goto(c, "promote") /\ run' = [run EXCEPT ![c].marked = marked, ![c].held = SetToSeq(Promotable(run[c].held, marked))]
    BY HashMarks
  <2> QED BY <1>1, <2>1 DEF Goto
<1>4. InPlace /\ Listing' = Listing /\ Lasts
  BY <1>1, Unmoved, InPlaceListing
<1>5. \A r \in Range(run[c].held) : <<r.path, r.id>> \in Listing
  BY <1>1 DEF Traced
<1>6. Forth(c)
  BY <1>1, <1>3 DEF Forth, Starting, Finding, Grouping, Adding
<1>7. pc'[c] = "promote" => \A r \in Range(run'[c].held) : <<r.path, r.id>> \in Listing
  <2> SUFFICES ASSUME pc'[c] = "promote", NEW r \in Range(run'[c].held) PROVE <<r.path, r.id>> \in Listing
    OBVIOUS
  <2>1. PICK marked \in SUBSET Groups :
          run' = [run EXCEPT ![c].marked = marked, ![c].held = SetToSeq(Promotable(run[c].held, marked))]
    BY <1>3
  <2>2. run'[c].held = SetToSeq(Promotable(run[c].held, marked))
    BY <1>1, <2>1 DEF Runs
  <2>3. r \in Promotable(run[c].held, marked)
    BY <1>2, <2>2, PromotableIn
  <2> QED BY <1>2, <1>5, <2>3, PromotableFrom
<1>8. Traced'
  BY <1>1, <1>3, <1>4, <1>7, TracedOwn
<1> QED BY <1>1, <1>4, <1>6, <1>8, OwnStep

(* Rows: counting the folder units.                                        *)
LEMMA CountUnitsRows ==
  ASSUME NEW c \in Session, Typed, Typed', FirstScan', Rows, Traced, CountUnits(c)
  PROVE  Rows' /\ Traced' /\ InPlace
<1>1. /\ SessionStep(c) /\ pc \in [Session -> Places] /\ pc[c] = "units" /\ index' = index
      /\ run \in [Session -> Runs]
  BY DEF SessionStep, Typed, TypeOK, CountUnits, At, data
<1>2. \/ pc'[c] = "end"
      \/ /\ pc'[c] \in {"units", "units in"} /\ run'[c].finder = run[c].finder + 1
         /\ \E found \in SUBSET Unit : run'[c].held = UnitsOf(found) /\ \A u \in found : Finder[u] = run[c].finder
  <2>1. CASE Goto(c, "end")
    BY <1>1, <2>1 DEF Goto
  <2>2. ASSUME NEW found \in SUBSET Unit, \A u \in found : Finder[u] = run[c].finder,
               Goto(c, IF found = {} THEN "units" ELSE "units in"),
               run' = [run EXCEPT ![c].held = UnitsOf(found), ![c].finder = run[c].finder + 1]
        PROVE  /\ pc'[c] \in {"units", "units in"} /\ run'[c].finder = run[c].finder + 1
               /\ run'[c].held = UnitsOf(found) /\ \A u \in found : Finder[u] = run[c].finder
    <3>1. pc'[c] \in {"units", "units in"}
      BY <1>1, <2>2 DEF Goto
    <3>2. ASSUME NEW x \in Runs, NEW held, NEW n
          PROVE  [x EXCEPT !.held = held, !.finder = n].held = held /\ [x EXCEPT !.held = held, !.finder = n].finder = n
      BY DEF Runs
    <3>3. run[c] \in Runs /\ run'[c] = [run[c] EXCEPT !.held = UnitsOf(found), !.finder = run[c].finder + 1]
      BY <1>1, <2>2
    <3>4. run'[c].held = UnitsOf(found) /\ run'[c].finder = run[c].finder + 1
      BY <3>2, <3>3
    <3> QED BY <2>2, <3>1, <3>4
  <2> QED BY <2>1, <2>2, CountUnitsShape
<1>3. InPlace /\ Lasts
  BY <1>1, Unmoved, InPlaceListing
<1>4. run[c].finder \in Nat /\ Round(c) = run[c].finder
      /\ (pc'[c] = "units" => Round(c)' = run'[c].finder) /\ (pc'[c] = "units in" => Round(c)' = run'[c].finder - 1)
  BY <1>1, RoundType DEF Round
<1>5. pc'[c] = "units in" =>
        Distinct(run'[c].held) /\ \A r \in Range(run'[c].held) : FoundBy(r, Round(c)')
  <2> SUFFICES ASSUME pc'[c] = "units in"
               PROVE  Distinct(run'[c].held) /\ \A r \in Range(run'[c].held) : FoundBy(r, Round(c)')
    OBVIOUS
  <2>1. PICK found \in SUBSET Unit : run'[c].held = UnitsOf(found) /\ \A u \in found : Finder[u] = run[c].finder
    BY <1>2
  <2>2. Round(c)' = run[c].finder
    <3>1. run'[c].finder = run[c].finder + 1 /\ Round(c)' = run'[c].finder - 1
      BY <1>2, <1>4
    <3>2. Round(c)' = (run[c].finder + 1) - 1
      BY <3>1
    <3> QED BY <1>4, <3>2, Beside, Zenon
  <2>3. Distinct(UnitsOf(found)) /\ \A r \in Range(UnitsOf(found)) : FoundBy(r, run[c].finder)
    BY <2>1, UnitsType DEF Distinct
  <2> QED BY <2>1, <2>2, <2>3
<1>6. Forth(c)
  <2>1. pc'[c] \in {"units", "units in"} => Round(c) <= Round(c)'
    <3>1. CASE pc'[c] = "units"
      <4>1. Round(c) = run[c].finder /\ Round(c)' = run[c].finder + 1
        BY <1>2, <1>4, <3>1
      <4>2. run[c].finder <= run[c].finder + 1
        BY <1>4, Beside, Zenon
      <4> QED BY <4>1, <4>2
    <3>2. CASE pc'[c] = "units in"
      <4>1. Round(c) = run[c].finder /\ Round(c)' = (run[c].finder + 1) - 1
        <5>1. run'[c].finder = run[c].finder + 1 /\ Round(c)' = run'[c].finder - 1
          BY <1>2, <1>4, <3>2
        <5> QED BY <1>4, <5>1
      <4>2. \A n \in Nat : n <= (n + 1) - 1
        OBVIOUS
      <4>3. run[c].finder <= (run[c].finder + 1) - 1
        BY <1>4, <4>2, Zenon
      <4> QED BY <4>1, <4>3
    <3> QED BY <3>1, <3>2
  <2> QED BY <1>1, <1>2, <2>1 DEF Forth, Starting, Finding, Grouping, Adding
<1>7. Traced'
  BY <1>1, <1>2, <1>3, <1>5, TracedOwn
<1> QED BY <1>1, <1>3, <1>6, <1>7, OwnStep

-----------------------------------------------------------------------------
(* A batch has new paths and new ids.                                      *)
LEMMA BatchShape ==
  ASSUME NEW c \in Session, Typed, Typed', Batch(c)
  PROVE  \E batch \in Seq(Records) :
           /\ index' = index \o batch
           /\ run'[c].held = batch /\ pc'[c] = "tag"
           /\ run'[c].todo \subseteq run[c].todo /\ run[c].next <= run'[c].next
           /\ Distinct(batch)
           /\ \A k \in DOMAIN batch :
                /\ batch[k].path \in run[c].todo \ run'[c].todo
                /\ batch[k].id \in Nat /\ run[c].next <= batch[k].id /\ batch[k].id < run'[c].next
                /\ batch[k].cat = "none" /\ ~batch[k].kept
<1>1. PICK new \in SUBSET run[c].todo, order \in SetToSeqs(run[c].todo) :
        LET n     == Cardinality(new)
            batch == [k \in 1 .. n |-> [path |-> order[k], id |-> Number(c, k),
                                        cat |-> "none", kept |-> FALSE]]
        IN
        /\ n \in 1 .. MaxBatch
        /\ new = {order[k] : k \in 1 .. n}
        /\ index' = index \o batch
        /\ run' = [run EXCEPT ![c].todo = @ \ new, ![c].next = @ + n, ![c].held = batch]
  BY DEF Batch
<1> DEFINE todo == run[c].todo
           next == run[c].next
           n == Cardinality(new)
           batch == [k \in 1 .. n |-> [path |-> order[k], id |-> Number(c, k), cat |-> "none", kept |-> FALSE]]
<1>2. todo \in SUBSET Path /\ next \in Nat /\ run \in [Session -> Runs]
  <2>1. run \in [Session -> Runs]
    BY DEF Typed, TypeOK
  <2>2. run[c] \in Runs
    BY <2>1
  <2> QED BY <2>1, <2>2 DEF Runs
<1>3. n \in Nat /\ n <= Cardinality(todo) /\ Cardinality(todo) \in Nat
  <2>1. IsFiniteSet(todo) /\ IsFiniteSet(new) /\ Cardinality(todo) \in Nat /\ n \in Nat
    BY <1>2, Sizes
  <2> QED BY <2>1, FS_Subset
<1>4. \A j, k \in 1 .. n : order[k] \in todo /\ (order[j] = order[k] => j = k)
  <2>1. order \in [1 .. Cardinality(todo) -> todo] /\ \A i, j \in 1 .. Cardinality(todo) : i # j => order[i] # order[j]
    BY DEF SetToSeqs
  <2> HIDE DEF n, todo
  <2> QED BY <1>3, <2>1
<1>5. new = {order[k] : k \in 1 .. n} /\ index' = index \o batch
      /\ run' = [run EXCEPT ![c].todo = todo \ new, ![c].next = next + n, ![c].held = batch]
  BY <1>1
<1>6. \A k \in 1 .. n : /\ batch[k].path = order[k] /\ batch[k].id = next + k - 1
                        /\ batch[k].cat = "none" /\ ~batch[k].kept
  BY DEF Number
<1>7. DOMAIN batch = 1 .. n
  OBVIOUS
<1> HIDE DEF batch, n, todo, next
<1>8. run'[c].held = batch /\ run'[c].todo = todo \ new /\ run'[c].next = next + n
  BY <1>2, <1>5 DEF Runs
<1>9. batch \in Seq(Records)
  BY <1>8 DEF Typed, TypeOK, Runs
<1>10. Distinct(batch)
  BY <1>2, <1>3, <1>4, <1>6, <1>7 DEF Distinct
<1>11. ASSUME NEW k \in DOMAIN batch
       PROVE  /\ batch[k].path \in todo \ run'[c].todo
              /\ batch[k].id \in Nat /\ next <= batch[k].id /\ batch[k].id < run'[c].next
              /\ batch[k].cat = "none" /\ ~batch[k].kept
  <2>1. k \in 1 .. n
    BY <1>7
  <2>2. batch[k].path = order[k] /\ batch[k].id = next + k - 1 /\ batch[k].cat = "none" /\ ~batch[k].kept
    BY <1>6, <2>1
  <2>3. order[k] \in new /\ order[k] \in todo
    BY <1>4, <1>5, <2>1
  <2>4. next + k - 1 \in Nat /\ next <= next + k - 1 /\ next + k - 1 < next + n
    BY <1>2, <1>3, <2>1
  <2> QED BY <1>8, <2>2, <2>3, <2>4
<1>12. pc'[c] = "tag"
  BY DEF Batch, Goto, Typed, TypeOK
<1>13. next <= run'[c].next /\ run'[c].todo \subseteq todo
  BY <1>2, <1>3, <1>8
<1> QED BY <1>5, <1>8, <1>9, <1>10, <1>11, <1>12, <1>13 DEF todo, next

(* New records of new paths and ids come after the old ones.               *)
LEMMA Appended ==
  ASSUME NEW recs \in Seq(Records), NEW new \in Seq(Records), Distinct(recs), Distinct(new),
         \A j \in DOMAIN recs : Numbered(recs[j]), \A k \in DOMAIN new : Numbered(new[k]),
         \A j \in DOMAIN recs, k \in DOMAIN new : recs[j].path # new[k].path /\ recs[j].id # new[k].id
  PROVE  LET out == recs \o new IN
         /\ out \in Seq(Records) /\ Distinct(out) /\ \A n \in DOMAIN out : Numbered(out[n])
         /\ DOMAIN recs \subseteq DOMAIN out
         /\ \A j \in DOMAIN recs : out[j] = recs[j]
         /\ \A k \in DOMAIN new : k + Len(recs) \in DOMAIN out /\ out[k + Len(recs)] = new[k]
         /\ \A n \in DOMAIN out : n \in DOMAIN recs \/ \E k \in DOMAIN new : n = k + Len(recs)
<1> DEFINE out == recs \o new
<1>1. /\ out \in Seq(Records) /\ DOMAIN out = 1 .. Len(recs) + Len(new)
      /\ DOMAIN recs = 1 .. Len(recs) /\ DOMAIN new = 1 .. Len(new) /\ Len(recs) \in Nat /\ Len(new) \in Nat
      /\ \A n \in 1 .. Len(recs) + Len(new) : out[n] = IF n <= Len(recs) THEN recs[n] ELSE new[n - Len(recs)]
  OBVIOUS
<1> HIDE DEF out
<1>2. \A n \in DOMAIN out : \/ n \in DOMAIN recs /\ out[n] = recs[n]
                            \/ n - Len(recs) \in DOMAIN new /\ out[n] = new[n - Len(recs)] /\ n \in Int
  BY <1>1
<1>3. Distinct(out)
  <2> SUFFICES ASSUME NEW j \in DOMAIN out, NEW k \in DOMAIN out, out[j].path = out[k].path \/ out[j].id = out[k].id
               PROVE  j = k
    BY DEF Distinct
  <2>1. CASE j \in DOMAIN recs /\ out[j] = recs[j]
    <3>1. CASE k \in DOMAIN recs /\ out[k] = recs[k]
      BY <2>1, <3>1 DEF Distinct
    <3>2. CASE k - Len(recs) \in DOMAIN new /\ out[k] = new[k - Len(recs)]
      BY <2>1, <3>2
    <3> QED BY <1>2, <3>1, <3>2
  <2>2. CASE j - Len(recs) \in DOMAIN new /\ out[j] = new[j - Len(recs)] /\ j \in Int
    <3>1. CASE k \in DOMAIN recs /\ out[k] = recs[k]
      BY <2>2, <3>1
    <3>2. CASE k - Len(recs) \in DOMAIN new /\ out[k] = new[k - Len(recs)] /\ k \in Int
      <4>1. j - Len(recs) = k - Len(recs)
        BY <2>2, <3>2 DEF Distinct
      <4> QED BY <1>1, <2>2, <3>2, <4>1
    <3> QED BY <1>2, <3>1, <3>2
  <2> QED BY <1>2, <2>1, <2>2
<1>4. \A n \in DOMAIN out : Numbered(out[n])
  BY <1>2
<1>5. DOMAIN recs \subseteq DOMAIN out /\ \A j \in DOMAIN recs : out[j] = recs[j]
  BY <1>1
<1>6. \A k \in DOMAIN new : k + Len(recs) \in DOMAIN out /\ out[k + Len(recs)] = new[k]
  BY <1>1
<1>7. ASSUME NEW n \in DOMAIN out, n \notin DOMAIN recs PROVE \E k \in DOMAIN new : n = k + Len(recs)
  <2>1. n - Len(recs) \in DOMAIN new /\ n = (n - Len(recs)) + Len(recs)
    BY <1>1, <1>2, <1>7
  <2> QED BY <2>1
<1> QED BY <1>1, <1>3, <1>4, <1>5, <1>6, <1>7 DEF out

-----------------------------------------------------------------------------
(* The index grows by new records and keeps those it has, but for units of
   which a later detector has found the folder.                            *)
Grows(new) ==
  /\ \A j \in DOMAIN index :
       /\ j \in DOMAIN index'
       /\ \/ index'[j] = index[j]
          \/ /\ index[j].path \in Folder /\ index'[j].path = index[j].path /\ index'[j] \in Range(new)
             /\ Finder[index[j].id] < Finder[index'[j].id]
  /\ \A n \in DOMAIN index' : n \notin DOMAIN index => index'[n] \in Range(new)
  /\ \A r \in Range(new) : ~Met(r.id) /\ \E n \in DOMAIN index' : index'[n] = r

(* Then files keep their ids, and what is replaced leaves its trace.       *)
LEMMA GrowsLasts ==
  ASSUME NEW new, Grows(new), Rows, \A n \in DOMAIN index' : Numbered(index'[n])
  PROVE  Lasts
<1>1. ASSUME NEW i, NEW p \in Path, <<p, i>> \in Listing PROVE <<p, i>> \in Listing'
  <2>1. PICK n \in DOMAIN index : p = index[n].path /\ i = index[n].id
    BY <1>1 DEF Listing
  <2>2. n \in DOMAIN index' /\ index'[n] = index[n]
    BY <2>1, ConstantsOK DEF Grows
  <2> QED BY <2>1, <2>2 DEF Listing
<1>2. ASSUME NEW j \in DOMAIN index, index'[j] # index[j]
      PROVE  /\ index[j].id \in Unit /\ Lies[index[j].id] = index[j].path /\ index'[j].path = index[j].path
             /\ j \in DOMAIN index' /\ Finder[index[j].id] < Finder[index'[j].id]
             /\ Finder[index[j].id] \in Nat /\ Finder[index'[j].id] \in Nat
  <2>1. /\ j \in DOMAIN index' /\ index[j].path \in Folder /\ index'[j].path = index[j].path
        /\ Finder[index[j].id] < Finder[index'[j].id]
    BY <1>2 DEF Grows
  <2>2. index[j].path \notin Path /\ index[j].id \in Unit /\ index'[j].id \in Unit /\ Lies[index[j].id] = index[j].path
    BY <2>1, ConstantsOK DEF Rows, Numbered
  <2>3. \A u \in Unit : Finder[u] \in Nat
    BY ConstantsOK
  <2> QED BY <2>1, <2>2, <2>3
<1>3. ASSUME NEW i, i \in Ids(index) PROVE MetThen(i)
  <2>1. PICK j \in DOMAIN index : i = index[j].id
    BY <1>3 DEF Ids
  <2>2. CASE index'[j] = index[j]
    BY <2>1, <2>2 DEF MetThen, Ids, Grows
  <2>3. CASE index'[j] # index[j]
    BY <1>2, <2>1, <2>3 DEF MetThen, PassedThen
  <2> QED BY <2>2, <2>3
<1>4. ASSUME NEW i, Passed(i) PROVE PassedThen(i)
  <2>1. PICK j \in DOMAIN index : index[j].path = Lies[i] /\ Finder[i] < Finder[index[j].id]
    BY <1>4 DEF Passed
  <2>2. CASE index'[j] = index[j]
    BY <1>4, <2>1, <2>2 DEF Passed, PassedThen, Grows
  <2>3. CASE index'[j] # index[j]
    <3>1. Finder[i] \in Nat /\ i \in Unit
      BY <1>4, ConstantsOK DEF Passed
    <3> DEFINE a == Finder[i]
               b == Finder[index[j].id]
               d == Finder[index'[j].id]
    <3>2. a \in Nat /\ b \in Nat /\ d \in Nat /\ a < b /\ b < d
      BY <1>2, <2>1, <2>3, <3>1
    <3> HIDE DEF a, b, d
    <3>3. a < d
      BY <3>2
    <3> QED BY <1>2, <2>1, <2>3, <3>1, <3>3 DEF PassedThen, a, d
  <2> QED BY <2>2, <2>3
<1> QED BY <1>1, <1>3, <1>4 DEF Lasts, Met, MetThen

(* What comes with new paths and new numbers extends the index.            *)
LEMMA Growth ==
  ASSUME NEW new \in Seq(Records), Rows, index \in Seq(Records), Distinct(new), index' = index \o new,
         \A k \in DOMAIN new : Numbered(new[k]) /\ new[k].id \in Nat,
         \A j \in DOMAIN index, k \in DOMAIN new : index[j].path # new[k].path /\ index[j].id # new[k].id
  PROVE  /\ Grows(new) /\ Distinct(index') /\ \A n \in DOMAIN index' : Numbered(index'[n])
         /\ \A j \in DOMAIN index : index'[j] = index[j]
<1>0. Distinct(index) /\ \A j \in DOMAIN index : Numbered(index[j])
  BY DEF Rows
<1>1. /\ Distinct(index') /\ \A n \in DOMAIN index' : Numbered(index'[n])
      /\ \A j \in DOMAIN index : j \in DOMAIN index' /\ index'[j] = index[j]
      /\ \A k \in DOMAIN new : k + Len(index) \in DOMAIN index' /\ index'[k + Len(index)] = new[k]
      /\ \A n \in DOMAIN index' : n \in DOMAIN index \/ \E k \in DOMAIN new : n = k + Len(index)
  BY <1>0, Appended
<1>2. \A n \in DOMAIN index' : n \notin DOMAIN index => index'[n] \in Range(new)
  BY <1>1 DEF Range
<1>3. ASSUME NEW r \in Range(new) PROVE ~Met(r.id) /\ \E n \in DOMAIN index' : index'[n] = r
  <2>1. PICK k \in DOMAIN new : r = new[k]
    BY DEF Range
  <2>2. r.id \notin Ids(index) /\ r.id \notin Unit
    BY <2>1, ConstantsOK DEF Ids
  <2>3. index'[k + Len(index)] = r /\ k + Len(index) \in DOMAIN index'
    BY <1>1, <2>1
  <2> QED BY <2>2, <2>3 DEF Met, Passed
<1> QED BY <1>1, <1>2, <1>3 DEF Grows

(* Rows: a batch of files.                                                 *)
LEMMA BatchRows ==
  ASSUME NEW c \in Session, Typed, Typed', FirstScan', Rows, Traced, Batch(c)
  PROVE  /\ Rows' /\ Traced' /\ Lasts /\ Grows(run'[c].held)
         /\ \A j \in DOMAIN index : index'[j] = index[j]
         /\ pc'[c] = "tag" /\ run'[c].held \in Seq(Records) /\ Distinct(run'[c].held)
         /\ \A r \in Range(run'[c].held) : r.path \in Path /\ r.cat = "none" /\ ~r.kept
<1>1. /\ SessionStep(c) /\ index \in Seq(Records) /\ pc[c] = "find" /\ run[c].todo \subseteq Path
      /\ run[c].next \in Nat /\ run'[c].next \in Nat
  <2>1. run[c] \in Runs /\ run'[c] \in Runs /\ index \in Seq(Records)
    BY DEF Typed, TypeOK
  <2>2. run[c].todo \subseteq Path /\ run[c].next \in Nat /\ run'[c].next \in Nat
    BY <2>1, Sizes DEF Runs
  <2> QED BY <2>1, <2>2 DEF SessionStep, Batch, At
<1>2. PICK batch \in Seq(Records) :
        /\ index' = index \o batch
        /\ run'[c].held = batch /\ pc'[c] = "tag"
        /\ run'[c].todo \subseteq run[c].todo /\ run[c].next <= run'[c].next
        /\ Distinct(batch)
        /\ \A k \in DOMAIN batch :
             /\ batch[k].path \in run[c].todo \ run'[c].todo
             /\ batch[k].id \in Nat /\ run[c].next <= batch[k].id /\ batch[k].id < run'[c].next
             /\ batch[k].cat = "none" /\ ~batch[k].kept
  BY BatchShape
<1>3. \A k \in DOMAIN batch : batch[k].path \in Path /\ Numbered(batch[k]) /\ batch[k].id \in Nat
  BY <1>1, <1>2 DEF Numbered
<1>4. \A j \in DOMAIN index : index[j].path \in Path \ run[c].todo /\ index[j].id < run[c].next /\ index[j].id \in Nat
  <2>1. \A j \in DOMAIN index : index[j].path \in Path \ run[c].todo /\ index[j].id < run[c].next
    BY <1>1 DEF Rows, Finding
  <2> QED BY <2>1 DEF Rows, Numbered
<1>5. \A j \in DOMAIN index, k \in DOMAIN batch : index[j].path # batch[k].path /\ index[j].id # batch[k].id
  <2> SUFFICES ASSUME NEW j \in DOMAIN index, NEW k \in DOMAIN batch
               PROVE  index[j].path # batch[k].path /\ index[j].id # batch[k].id
    OBVIOUS
  <2>1. index[j].id < run[c].next /\ run[c].next <= batch[k].id /\ index[j].id \in Nat /\ batch[k].id \in Nat
    BY <1>2, <1>4
  <2>2. index[j].id # batch[k].id
    BY <1>1, <2>1
  <2> QED BY <1>2, <1>4, <2>2
<1>7. /\ Grows(batch) /\ Distinct(index') /\ \A n \in DOMAIN index' : Numbered(index'[n])
      /\ \A j \in DOMAIN index : index'[j] = index[j]
      /\ Lasts
  BY <1>1, <1>2, <1>3, <1>5, Growth, GrowsLasts
<1>8. \A n \in DOMAIN index' : index'[n].path \in Path \ run'[c].todo /\ index'[n].id < run'[c].next
  <2> SUFFICES ASSUME NEW n \in DOMAIN index' PROVE index'[n].path \in Path \ run'[c].todo /\ index'[n].id < run'[c].next
    OBVIOUS
  <2>1. CASE n \in DOMAIN index
    <3>1. index'[n] = index[n] /\ index[n].path \in Path \ run[c].todo /\ index[n].id < run[c].next /\ index[n].id \in Nat
      BY <1>4, <1>7, <2>1
    <3> QED BY <1>1, <1>2, <3>1
  <2>2. CASE n \notin DOMAIN index
    <3>1. PICK k \in DOMAIN batch : index'[n] = batch[k]
      BY <1>7, <2>2 DEF Grows, Range
    <3> QED BY <1>2, <1>3, <3>1
  <2> QED BY <2>1, <2>2
<1>9. Rows'
  <2>1. pc'[c] \notin Starting /\ pc'[c] \notin Grouping \cup Adding
    BY <1>2 DEF Starting, Grouping, Adding
  <2>2. Distinct(index)'
    BY <1>7 DEF Distinct
  <2> QED BY <1>1, <1>7, <1>8, <2>1, <2>2, RowsOwn
<1>10. \A r \in Range(batch) : r.path \in Path /\ r.cat = "none" /\ ~r.kept /\ <<r.path, r.id>> \in Listing'
  <2>1. \A r \in Range(batch) : <<r.path, r.id>> \in Listing'
    BY <1>7 DEF Grows, Listing
  <2> QED BY <1>2, <1>3, <2>1 DEF Range
<1>11. Traced'
  BY <1>1, <1>2, <1>7, <1>10, TracedOwn
<1> QED BY <1>2, <1>7, <1>9, <1>10, <1>11

(* The folder units come after the files, and a later detector's take the
   place of an earlier one's.                                              *)
LEMMA InsertUnitsRows ==
  ASSUME NEW c \in Session, Typed, Typed', FirstScan', Rows, Traced, InsertUnits(c)
  PROVE  /\ Rows' /\ Traced' /\ Lasts /\ Grows(run[c].held) /\ run[c].held \in Seq(Records)
         /\ pc[c] = "units in" /\ pc'[c] = "units"
         /\ \A r \in Range(run[c].held) : FoundBy(r, Round(c))
<1>1. /\ SessionStep(c) /\ index \in Seq(Records) /\ index' \in Seq(Records)
      /\ pc[c] = "units in" /\ pc'[c] = "units" /\ pc \in [Session -> Places]
      /\ run[c].held \in Seq(Records) /\ index' = Upsert(index, run[c].held)
      /\ run'[c].finder = run[c].finder
  BY DEF SessionStep, Typed, TypeOK, Runs, InsertUnits, At, Goto
<1> DEFINE units == run[c].held
           round == Round(c)
<1>2. Distinct(units) /\ \A r \in Range(units) : FoundBy(r, round)
  BY <1>1 DEF Traced
<1>3. Distinct(index) /\ \A j \in DOMAIN index : Numbered(index[j]) /\ (index[j].path \in Path \/ Finder[index[j].id] < round)
  BY <1>1 DEF Rows, Adding
<1>4. round \in Int /\ Round(c)' = round + 1
  <2>1. run[c].finder \in Nat /\ Round(c) \in Int
    BY RoundType
  <2>2. Round(c) = run[c].finder - 1 /\ Round(c)' = run[c].finder
    BY <1>1 DEF Round
  <2>3. (run[c].finder - 1) + 1 = run[c].finder
    BY <2>1, Beside, Zenon
  <2> QED BY <2>1, <2>2, <2>3
<1> HIDE DEF units, round
<1>5. ASSUME NEW r \in Range(units)
      PROVE  /\ r.path \in Folder /\ r.path \notin Path /\ r.id \in Unit /\ r.id \notin Nat
             /\ Lies[r.id] = r.path /\ Finder[r.id] = round /\ Numbered(r)
  BY <1>2, ConstantsOK DEF FoundBy, Numbered
<1>6. ASSUME NEW j \in DOMAIN index, index[j].path \notin Path
      PROVE  index[j].id \in Unit /\ Finder[index[j].id] \in Nat /\ Finder[index[j].id] < round
  BY <1>3, <1>6, ConstantsOK DEF Numbered
<1>7. ASSUME NEW j \in DOMAIN index, NEW r \in Range(units) PROVE index[j].id # r.id
  <2>1. CASE index[j].path \in Path
    BY <1>3, <1>5, <2>1 DEF Numbered
  <2>2. CASE index[j].path \notin Path
    BY <1>4, <1>5, <1>6, <2>2
  <2> QED BY <2>1, <2>2
<1>8. ASSUME NEW k \in DOMAIN units PROVE units[k] \in Range(units)
  BY DEF Range
<1>9. /\ Distinct(index')
      /\ \A j \in DOMAIN index : j \in DOMAIN index' /\ index'[j].path = index[j].path
      /\ \A n \in DOMAIN index' : (n \in DOMAIN index /\ index'[n] = index[n]) \/ index'[n] \in Range(units)
      /\ \A r \in Range(units) : \E n \in DOMAIN index' : index'[n] = r
  <2>1. \A k \in DOMAIN units : \A j \in DOMAIN index : index[j].id # units[k].id
    BY <1>7, <1>8
  <2>2. /\ Distinct(index')
        /\ \A j \in DOMAIN index : j \in DOMAIN index' /\ index'[j].path = index[j].path
        /\ \A n \in DOMAIN index' :
             (n \in DOMAIN index /\ index'[n] = index[n]) \/ \E k \in DOMAIN units : index'[n] = units[k]
        /\ \A k \in DOMAIN units : \E n \in DOMAIN index' : index'[n] = units[k]
    <3>1. index \in Seq(Records) /\ units \in Seq(Records) /\ Distinct(index) /\ Distinct(units) /\ index' = Upsert(index, units)
      BY <1>1, <1>2, <1>3 DEF units
    <3> QED BY <2>1, <3>1, UpsertLays
  <2> QED BY <1>8, <2>2 DEF Range
<1>10. \A n \in DOMAIN index' : Numbered(index'[n])
  BY <1>3, <1>5, <1>9
<1>11. Grows(units)
  <2>1. ASSUME NEW j \in DOMAIN index, index'[j] # index[j]
        PROVE  /\ index[j].path \in Folder /\ index'[j].path = index[j].path /\ index'[j] \in Range(units)
               /\ Finder[index[j].id] < Finder[index'[j].id]
    <3>1. index'[j] \in Range(units) /\ index'[j].path = index[j].path
      BY <1>9, <2>1
    <3> QED BY <1>5, <1>6, <3>1
  <2>2. ASSUME NEW r \in Range(units) PROVE ~Met(r.id)
    <3>1. r.id \notin Ids(index)
      BY <1>7 DEF Ids
    <3>2. ASSUME NEW n \in DOMAIN index, index[n].path = Lies[r.id] PROVE ~(Finder[r.id] < Finder[index[n].id])
      <4>1. index[n].path \notin Path
        BY <1>5, <3>2
      <4> QED BY <1>4, <1>5, <1>6, <4>1
    <3> QED BY <3>1, <3>2 DEF Met, Passed
  <2> QED BY <1>9, <2>1, <2>2 DEF Grows
<1>12. Lasts
  BY <1>10, <1>11, GrowsLasts
<1>13. ASSUME NEW n \in DOMAIN index' PROVE index'[n].path \in Path \/ Finder[index'[n].id] < Round(c)'
  <2>1. CASE index'[n] \in Range(units)
    BY <1>4, <1>5, <2>1
  <2>2. CASE n \in DOMAIN index /\ index'[n] = index[n] /\ index[n].path \notin Path
    BY <1>4, <1>6, <2>2
  <2> QED BY <1>9, <2>1, <2>2
<1>14. Rows'
  <2>1. pc'[c] \notin Starting /\ pc'[c] \notin Grouping /\ pc'[c] \notin Finding
    BY <1>1 DEF Starting, Grouping, Finding
  <2>2. Distinct(index)'
    BY <1>9 DEF Distinct
  <2> QED BY <1>1, <1>10, <1>13, <2>1, <2>2, RowsOwn
<1>15. Traced'
  BY <1>1, <1>12, TracedOwn
<1> QED BY <1>1, <1>2, <1>11, <1>12, <1>14, <1>15 DEF units, round

-----------------------------------------------------------------------------
(* The groups that are stored or about to be.                              *)
Formed == dup \cup UNION {run[c].marked : c \in Session}

(* The members of a group are copies of one file and in no other group.    *)
Sound ==
  /\ \A g \in Formed : g.keep \in g.members
  /\ \A g \in Formed : \A i \in g.members : \E n \in DOMAIN index : index[n].id = i /\ index[n].path \in Path
  /\ \A g \in Formed : \A m, n \in DOMAIN index :
       index[m].id \in g.members /\ index[n].id \in g.members => Same[index[m].path] = Same[index[n].path]
  /\ \A g, h \in Formed : \A i \in g.members : i \in h.members => g = h

-----------------------------------------------------------------------------
(* No session moves.                                                       *)
LEMMA Resting ==
  ASSUME Typed, pc' = pc, run' = run
  PROVE  \A d \in Session : Forth(d) /\ Carries(d)
<1>1. ASSUME NEW d \in Session PROVE Round(d) <= Round(d)'
  <2>1. Round(d)' = Round(d)
    BY DEF Round
  <2>2. Round(d) \in Int
    BY RoundType
  <2>3. \A n \in Int : n <= n
    OBVIOUS
  <2>4. Round(d) <= Round(d)
    BY <2>2, <2>3, Zenon
  <2> QED BY <2>1, <2>4
<1> QED BY <1>1 DEF Forth, Carries

(* What a change comes to hold, while no session moves.                    *)
LEMMA TracedBeside ==
  ASSUME Traced, pc' = pc, run' = run, Listing' = Listing,
         \A k \in Change : apply'[k].at = "write" =>
           \A r \in Range(apply'[k].held) : r.path \in Path /\ <<r.path, r.id>> \in Listing',
         \A k \in Change : apply'[k].at = "totals" => \A r \in Range(apply'[k].held) : MetThen(r.id)
  PROVE  Traced'
<1>1. \A d \in Session : Round(d)' = Round(d)
  BY DEF Round
<1>2. \A d \in Session : pc'[d] = "units in" =>
        Distinct(run'[d].held) /\ \A r \in Range(run'[d].held) : FoundBy(r, Round(d)')
  BY <1>1 DEF Traced
<1> QED BY <1>2, TracedThen DEF Traced

(* What recalculation makes of a record.                                   *)
LEMMA RecategorisedIs ==
  ASSUME NEW s \in Setting, NEW r \in Records
  PROVE  LET out == Recategorised(s, r) IN
         /\ out \in Records /\ out.path = r.path /\ out.id = r.id /\ out.kept = r.kept
         /\ out.cat = "duplicates" => r.cat = "duplicates"
<1>1. Verdict(s, r.path) \in Claim \cup {"none"} /\ Verdict(s, r.path) # "duplicates"
  BY VerdictType DEF Records
<1>2. CASE r.kept \/ (Verdict(s, r.path) = "none" /\ r.cat = "duplicates")
  BY <1>2 DEF Recategorised
<1>3. CASE ~(r.kept \/ (Verdict(s, r.path) = "none" /\ r.cat = "duplicates"))
  <2> DEFINE out == [r EXCEPT !.cat = Verdict(s, r.path)]
  <2>1. Recategorised(s, r) = out
    BY <1>3 DEF Recategorised
  <2>2. out \in Records /\ out.path = r.path /\ out.id = r.id /\ out.kept = r.kept /\ out.cat = Verdict(s, r.path)
    BY <1>1 DEF Records, Category
  <2> HIDE DEF out
  <2> QED BY <1>1, <2>1, <2>2
<1> QED BY <1>2, <1>3

(* Rows: recalculating the categories.                                     *)
LEMMA RecalculateRows ==
  ASSUME NEW k \in Change, Typed, Typed', Rows, Traced, Recalculate(k)
  PROVE  /\ Rows' /\ Traced' /\ InPlace
         /\ \A n \in DOMAIN index : /\ index'[n].kept = index[n].kept
                                    /\ index'[n].cat = "duplicates" => index[n].cat = "duplicates"
<1>1. /\ apply \in [Change -> Applies] /\ index \in Seq(Records) /\ pc' = pc /\ run' = run
      /\ index' = [n \in DOMAIN index |-> Recategorised(apply[k].s, index[n])]
      /\ \A l \in Change \ {k} : apply'[l] = apply[l]
      /\ apply'[k].at = "publish"
  BY DEF Typed, TypeOK, Recalculate, Advance, Applies
<1>2. apply[k].s \in Setting
  BY <1>1 DEF Applies
<1>3. InPlace /\ \A n \in DOMAIN index : /\ index'[n].kept = index[n].kept
                                         /\ index'[n].cat = "duplicates" => index[n].cat = "duplicates"
  <2>1. \A n \in DOMAIN index : index[n] \in Records
    BY <1>1
  <2> QED BY <1>1, <1>2, <2>1, RecategorisedIs DEF InPlace
<1>4. \A l \in Change : CarriesOn(l)
  BY <1>1 DEF CarriesOn
<1> QED BY <1>1, <1>3, <1>4, Resting, InPlaceListing, RowsKeep, TracedKeep

(* Rows: reapplying the groups.                                            *)
LEMMA RewriteRows ==
  ASSUME NEW k \in Change, Typed, Typed', Rows, Traced, Rewrite(k)
  PROVE  /\ Rows' /\ Traced' /\ InPlace
         /\ \A n \in DOMAIN index :
              \/ index'[n] = index[n] /\ \A r \in Range(apply[k].held) : r.path # index[n].path
              \/ index'[n] \in Range(apply[k].held)
<1>1. /\ apply \in [Change -> Applies] /\ pc' = pc /\ run' = run
      /\ index' = Upsert(index, apply[k].held) /\ apply[k].at = "write"
      /\ \A l \in Change \ {k} : apply'[l] = apply[l]
      /\ apply'[k].at = "read"
  BY DEF Typed, TypeOK, Rewrite, Advance, Applies, Applying
<1>2. apply[k].held \in Seq(Records) /\ \A r \in Range(apply[k].held) : <<r.path, r.id>> \in Listing
  <2>1. apply[k].held \in Seq(Records)
    BY <1>1 DEF Applies
  <2> QED BY <1>1, <2>1 DEF Traced
<1>3. InPlace /\ \A n \in DOMAIN index :
              \/ index'[n] = index[n] /\ \A r \in Range(apply[k].held) : r.path # index[n].path
              \/ index'[n] \in Range(apply[k].held)
  <2>1. Distinct(index)
    BY DEF Rows
  <2> QED BY <1>1, <1>2, <2>1, Patched
<1>4. \A l \in Change : CarriesOn(l)
  BY <1>1 DEF CarriesOn
<1> QED BY <1>1, <1>3, <1>4, Resting, InPlaceListing, RowsKeep, TracedKeep

(* What a change reads from the index to write it back.                    *)
LEMMA ReapplyRows ==
  ASSUME NEW k \in Change, Typed, Typed', Rows, Traced, Sound, Reapply(k)
  PROVE  /\ Rows' /\ Traced' /\ InPlace
         /\ \A r \in Range(apply'[k].held) : r \in Promotable(index, dup)
<1>1. /\ apply \in [Change -> Applies] /\ pc' = pc /\ run' = run /\ index' = index /\ index \in Seq(Records)
      /\ apply'[k].held = SetToSeq(Promotable(index, dup)) /\ apply'[k].at = "write"
      /\ \A l \in Change \ {k} : apply'[l] = apply[l]
  BY DEF Typed, TypeOK, Reapply, Advance, Applies, data
<1>2. \A r \in Range(apply'[k].held) : r \in Promotable(index, dup)
  BY <1>1, PromotableIn
<1>3. ASSUME NEW r \in Range(apply'[k].held) PROVE r.path \in Path /\ <<r.path, r.id>> \in Listing
  <2>1. PICK h \in Range(index) : h.path = r.path /\ h.id = r.id
    BY <1>1, <1>2, PromotableFrom
  <2>2. PICK m \in DOMAIN index : h = index[m]
    BY DEF Range
  <2>3. \E g \in dup : r.id \in g.members
    BY <1>1, <1>2, PromotableFrom
  <2>4. PICK n \in DOMAIN index : index[n].id = r.id /\ index[n].path \in Path
    BY <2>3 DEF Sound, Formed
  <2>5. m = n
    BY <2>1, <2>2, <2>4 DEF Rows, Distinct
  <2> QED BY <2>1, <2>2, <2>4, <2>5 DEF Listing
<1>4. InPlace /\ Listing' = Listing /\ \A i : Met(i) => MetThen(i)
  BY <1>1, Unmoved, InPlaceListing
<1>5. Traced'
  <2>1. \A l \in Change : apply'[l].at = "write" =>
          \A r \in Range(apply'[l].held) : r.path \in Path /\ <<r.path, r.id>> \in Listing'
    BY <1>1, <1>3, <1>4 DEF Traced
  <2>2. \A l \in Change : apply'[l].at = "totals" => \A r \in Range(apply'[l].held) : MetThen(r.id)
    BY <1>1, <1>4 DEF Traced
  <2> QED BY <1>1, <1>4, <2>1, <2>2, TracedBeside
<1> QED BY <1>1, <1>2, <1>4, <1>5, Resting, RowsKeep

(* Rows: reading the index for the totals.                                 *)
LEMMA RereadRows ==
  ASSUME NEW k \in Change, Typed, Typed', Rows, Traced, Reread(k)
  PROVE  Rows' /\ Traced' /\ InPlace
<1>1. /\ apply \in [Change -> Applies] /\ pc' = pc /\ run' = run /\ index' = index
      /\ apply'[k].held = index /\ apply'[k].at = "totals"
      /\ \A l \in Change \ {k} : apply'[l] = apply[l]
  BY DEF Typed, TypeOK, Reread, Advance, Applies, data
<1>2. \A r \in Range(apply'[k].held) : MetThen(r.id)
  BY <1>1 DEF Range, MetThen, Ids
<1>3. InPlace /\ Listing' = Listing /\ \A i : Met(i) => MetThen(i)
  BY <1>1, Unmoved, InPlaceListing
<1>4. Traced'
  <2>1. \A l \in Change : apply'[l].at = "write" =>
          \A r \in Range(apply'[l].held) : r.path \in Path /\ <<r.path, r.id>> \in Listing'
    BY <1>1, <1>3 DEF Traced
  <2>2. \A l \in Change : apply'[l].at = "totals" => \A r \in Range(apply'[l].held) : MetThen(r.id)
    BY <1>1, <1>2, <1>3 DEF Traced
  <2> QED BY <1>1, <1>3, <2>1, <2>2, TracedBeside
<1> QED BY <1>1, <1>3, <1>4, Resting, RowsKeep

(* A decision changes the records of one id.                               *)
LEMMA DecideRows ==
  ASSUME Typed, Typed', Rows, Traced, Decide
  PROVE  /\ Rows' /\ Traced' /\ InPlace
         /\ \A n \in DOMAIN index : index'[n].cat = index[n].cat
<1>1. PICK i \in Ids(index), kept \in BOOLEAN : index' = Decided(i, kept)
  BY DEF Decide
<1>2. pc' = pc /\ run' = run /\ apply' = apply /\ index \in Seq(Records)
  BY DEF Decide, Typed, TypeOK
<1>3. ASSUME NEW n \in DOMAIN index
      PROVE  index'[n].path = index[n].path /\ index'[n].id = index[n].id /\ index'[n].cat = index[n].cat
  <2>1. index[n] \in Records
    BY <1>2
  <2>2. index'[n] = index[n] \/ index'[n] = [index[n] EXCEPT !.kept = kept]
    BY <1>1 DEF Decided
  <2> QED BY <2>1, <2>2 DEF Records
<1>4. DOMAIN index' = DOMAIN index
  BY <1>1 DEF Decided
<1>5. InPlace
  BY <1>3, <1>4 DEF InPlace
<1>6. \A l \in Change : CarriesOn(l)
  BY <1>2 DEF CarriesOn
<1> QED BY <1>2, <1>3, <1>5, <1>6, Resting, InPlaceListing, RowsKeep, TracedKeep

(* The steps of changes and the user that leave the index alone.           *)
LEMMA IdleRows ==
  ASSUME Typed, Typed', Rows, Traced,
         \/ \E k \in Change : SetSettings(k) \/ Publish(k) \/ Retotal(k)
         \/ Stop \/ Total
  PROVE  Rows' /\ Traced' /\ InPlace
<1>1. apply \in [Change -> Applies]
  BY DEF Typed, TypeOK
<1>2. index' = index /\ pc' = pc /\ run' = run /\ \A l \in Change : CarriesOn(l)
  <2>1. CASE Stop \/ Total
    BY <2>1 DEF Stop, Total, CarriesOn, data
  <2>2. ASSUME NEW k \in Change, SetSettings(k) \/ Publish(k) \/ Retotal(k)
        PROVE  index' = index /\ pc' = pc /\ run' = run /\ \A l \in Change : CarriesOn(l)
    <3>1. index' = index /\ pc' = pc /\ run' = run
      BY <2>2 DEF SetSettings, Publish, Retotal, data
    <3>2. apply'[k].at \notin {"write", "totals"} /\ \A l \in Change \ {k} : apply'[l] = apply[l]
      BY <1>1, <2>2 DEF SetSettings, Publish, Retotal, Still, Advance, Applies
    <3> QED BY <3>1, <3>2 DEF CarriesOn
  <2> QED BY <2>1, <2>2
<1>3. InPlace
  BY <1>2, Unmoved
<1> QED BY <1>2, <1>3, Resting, InPlaceListing, RowsKeep, TracedKeep

-----------------------------------------------------------------------------
(* Where a thread holds what it will write back.                           *)
Writing == {"tag", "hash", "promote"}

(* These records say the same of who is kept as the index does, unless that
   was decided meanwhile.                                                  *)
Copies(recs) ==
  \A n \in DOMAIN index : \A r \in Range(recs) :
    r.id = index[n].id /\ r.id \notin raced => index[n].kept = r.kept

(* What is written back says the same as the index, and that says what the
   user said.                                                              *)
Wanted ==
  /\ \A c \in Session : pc[c] \in Writing => Copies(run[c].held)
  /\ \A k \in Change : apply[k].at = "write" => Copies(apply[k].held)
  /\ \A i \in Id : wish[i] # "none" => Met(i)
  /\ \A n \in DOMAIN index : index[n].id \notin raced =>
       /\ wish[index[n].id] = "keep" => index[n].kept
       /\ wish[index[n].id] = "free" => ~index[n].kept

(* What is copied after a step: what was before, or records of the index.  *)
Holds(d) == pc'[d] \in Writing => pc[d] \in Writing /\ run'[d].held = run[d].held

CopiesThen(recs) ==
  \A n \in DOMAIN index' : \A r \in Range(recs) :
    r.id = index'[n].id /\ r.id \notin raced' => index'[n].kept = r.kept

(* A step in place keeps the ids.                                          *)
LEMMA InPlaceIds == ASSUME InPlace PROVE Ids(index') = Ids(index)
  BY DEF InPlace, Ids

(* What has to be shown of the decisions after a step.                     *)
LEMMA WantedThen ==
  ASSUME \A d \in Session : pc'[d] \in Writing => CopiesThen(run'[d].held),
         \A k \in Change : apply'[k].at = "write" => CopiesThen(apply'[k].held),
         \A i \in Id : wish'[i] # "none" => MetThen(i),
         \A n \in DOMAIN index' : index'[n].id \notin raced' =>
           /\ wish'[index'[n].id] = "keep" => index'[n].kept
           /\ wish'[index'[n].id] = "free" => ~index'[n].kept
  PROVE  Wanted'
  BY DEF Wanted, Copies, CopiesThen, Ids, Range, Writing, Met, MetThen, Passed, PassedThen

(* What keeps the decisions: copies of what is there, and no other hand.   *)
LEMMA WantedKeep ==
  ASSUME InPlace, Wanted, wish' = wish, raced' = raced,
         \A n \in DOMAIN index : index[n].id \notin raced => index'[n].kept = index[n].kept,
         \A d \in Session : Holds(d) \/ CopiesThen(run'[d].held),
         \A k \in Change : CarriesOn(k) \/ CopiesThen(apply'[k].held)
  PROVE  Wanted'
<1>1. \A recs : Copies(recs) => CopiesThen(recs)
  BY DEF InPlace, Copies, CopiesThen
<1>2. ASSUME NEW d \in Session, pc'[d] \in Writing PROVE CopiesThen(run'[d].held)
  BY <1>1, <1>2 DEF Holds, Wanted
<1>3. ASSUME NEW k \in Change, apply'[k].at = "write" PROVE CopiesThen(apply'[k].held)
  BY <1>1, <1>3 DEF CarriesOn, Wanted
<1>4. \A i \in Id : wish'[i] # "none" => MetThen(i)
  BY InPlaceListing DEF Wanted
<1>5. \A n \in DOMAIN index' : index'[n].id \notin raced' =>
       /\ wish'[index'[n].id] = "keep" => index'[n].kept
       /\ wish'[index'[n].id] = "free" => ~index'[n].kept
  BY DEF Wanted, InPlace
<1> QED BY <1>2, <1>3, <1>4, <1>5, WantedThen

(* Records of the index that are copied say the same, as every id is one's.*)
LEMMA Reading ==
  ASSUME Distinct(index), NEW recs,
         \A r \in Range(recs) : \E h \in Range(index) : h.id = r.id /\ h.kept = r.kept
  PROVE  Copies(recs)
<1>1. ASSUME NEW n \in DOMAIN index, NEW r \in Range(recs), r.id = index[n].id PROVE index[n].kept = r.kept
  <2>1. PICK m \in DOMAIN index : index[m].id = r.id /\ index[m].kept = r.kept
    BY DEF Range
  <2> QED BY <1>1, <2>1 DEF Distinct
<1> QED BY <1>1 DEF Copies

(* What is written over records of the index changes none of the others.   *)
LEMMA Writeback ==
  ASSUME InPlace, NEW recs, NEW copied, Copies(copied),
         \A r \in Range(recs) : \E h \in Range(copied) : h.id = r.id /\ h.kept = r.kept,
         \A n \in DOMAIN index : index'[n] = index[n] \/ index'[n] \in Range(recs)
  PROVE  \A n \in DOMAIN index : index[n].id \notin raced => index'[n].kept = index[n].kept
<1> SUFFICES ASSUME NEW n \in DOMAIN index, index[n].id \notin raced, index'[n] \in Range(recs)
             PROVE  index'[n].kept = index[n].kept
  OBVIOUS
<1>1. PICK h \in Range(copied) : h.id = index'[n].id /\ h.kept = index'[n].kept
  OBVIOUS
<1>2. h.id = index[n].id
  BY <1>1 DEF InPlace
<1> QED BY <1>1, <1>2 DEF Copies

(* A session's step leaves the other threads with what they hold.          *)
LEMMA OthersHold ==
  ASSUME NEW c \in Session, Typed, FirstScan', SessionStep(c)
  PROVE  /\ \A d \in Session \ {c} : Holds(d)
         /\ \A k \in Change : CarriesOn(k)
<1>1. \A d \in Session \ {c} : pc'[d] = "new"
  BY Alone
<1> QED BY <1>1, Others DEF Holds, Writing

(* Decisions: the steps that touch neither records nor copies.             *)
LEMMA WantedQuiet ==
  ASSUME NEW c \in Session, Typed, FirstScan', Wanted,
         \/ Begin(c) \/ TakeToken(c) \/ Spawn(c) \/ Count(c) \/ EndFind(c) \/ Recount(c) \/ Store(c)
         \/ CountUnits(c) \/ End(c)
  PROVE  Wanted'
<1>1. /\ SessionStep(c) /\ index' = index /\ wish' = wish /\ raced' = raced /\ pc'[c] \notin Writing
  <2>1. pc \in [Session -> Places]
    BY DEF Typed, TypeOK
  <2> USE DEF user, Goto, data, Writing
  <2>2. CASE Begin(c) \/ TakeToken(c) \/ Spawn(c) \/ Count(c)
    BY <2>1, <2>2 DEF SessionStep, Begin, TakeToken, Spawn, Count
  <2>3. CASE EndFind(c) \/ Recount(c) \/ Store(c)
    BY <2>1, <2>3 DEF SessionStep, EndFind, Recount, Store
  <2>4. CASE CountUnits(c)
    BY <2>1, <2>4 DEF SessionStep, CountUnits
  <2>5. CASE End(c)
    BY <2>1, <2>5 DEF SessionStep, End, Close
  <2> QED BY <2>2, <2>3, <2>4, <2>5
<1>2. InPlace /\ Holds(c)
  BY <1>1, Unmoved DEF Holds
<1> QED BY <1>1, <1>2, OthersHold, WantedKeep

(* New records bring no decision with them.                                *)
LEMMA WantedGrow ==
  ASSUME NEW c \in Session, Typed, FirstScan', SessionStep(c), Wanted, Traced, Typed', NEW new \in Seq(Records),
         Grows(new), Lasts, wish' = wish, raced' = raced,
         \A r \in Range(new) : ~r.kept,
         pc'[c] \in Writing => run'[c].held = new
  PROVE  Wanted'
<1>1. (\A d \in Session \ {c} : pc'[d] = "new") /\ apply' = apply
  BY Alone
<1>2. \A r \in Range(new) : ~Met(r.id)
  BY DEF Grows
<1>3. ASSUME NEW n \in DOMAIN index'
      PROVE  /\ \/ n \in DOMAIN index /\ index'[n] = index[n] /\ Met(index'[n].id)
                \/ ~Met(index'[n].id) /\ ~index'[n].kept
             /\ index'[n].id \in Id /\ index'[n].kept \in BOOLEAN
  <2>1. (n \in DOMAIN index /\ index'[n] = index[n]) \/ index'[n] \in Range(new)
    BY DEF Grows
  <2>2. index'[n] \in Records
    <3>1. index' \in Seq(Records)
      BY DEF Typed, TypeOK
    <3> QED BY <3>1
  <2>3. n \in DOMAIN index => Met(index[n].id)
    BY DEF Met, Ids
  <2>4. index'[n].id \in Id /\ index'[n].kept \in BOOLEAN
    BY <2>2 DEF Records
  <2> QED BY <1>2, <2>1, <2>3, <2>4
<1>4. ASSUME NEW d \in Session, pc'[d] \in Writing PROVE CopiesThen(run'[d].held)
  <2>1. d = c
    BY <1>1, <1>4 DEF Writing
  <2>2. ASSUME NEW n \in DOMAIN index', NEW r \in Range(new), r.id = index'[n].id PROVE index'[n].kept = r.kept
    <3>1. r.kept \in BOOLEAN
      <4>1. r \in Records
        BY RangeOf
      <4> QED BY <4>1 DEF Records
    <3>2. ~Met(index'[n].id) /\ ~r.kept
      BY <1>2, <2>2
    <3> QED BY <1>3, <3>1, <3>2
  <2> QED BY <1>4, <2>1, <2>2 DEF CopiesThen
<1>5. ASSUME NEW k \in Change, apply'[k].at = "write" PROVE CopiesThen(apply'[k].held)
  <2>1. Copies(apply[k].held) /\ \A r \in Range(apply[k].held) : <<r.path, r.id>> \in Listing
    BY <1>1, <1>5 DEF Wanted, Traced
  <2>2. \A r \in Range(apply[k].held) : Met(r.id)
    BY <2>1 DEF Listing, Ids, Met
  <2> QED BY <1>1, <1>3, <2>1, <2>2 DEF CopiesThen, Copies
<1>6. \A i \in Id : wish'[i] # "none" => MetThen(i)
  BY DEF Wanted, Lasts
<1>7. ASSUME NEW n \in DOMAIN index', index'[n].id \notin raced'
      PROVE  /\ wish'[index'[n].id] = "keep" => index'[n].kept
             /\ wish'[index'[n].id] = "free" => ~index'[n].kept
  <2>1. CASE n \in DOMAIN index /\ index'[n] = index[n]
    BY <1>7, <2>1 DEF Wanted
  <2>2. CASE ~Met(index'[n].id)
    <3>1. wish[index'[n].id] = "none"
      BY <1>3, <2>2 DEF Wanted
    <3> QED BY <3>1
  <2> QED BY <1>3, <2>1, <2>2
<1> QED BY <1>4, <1>5, <1>6, <1>7, WantedThen

-----------------------------------------------------------------------------
(* Decisions: the steps that add records.                                  *)
LEMMA WantedGrows ==
  ASSUME NEW c \in Session, Typed, Typed', FirstScan', Rows, Traced, Wanted, Batch(c) \/ InsertUnits(c)
  PROVE  Wanted'
<1>1. wish' = wish /\ raced' = raced /\ SessionStep(c)
  BY DEF SessionStep, Batch, InsertUnits, user
<1>2. CASE Batch(c)
  BY <1>1, <1>2, BatchRows, WantedGrow
<1>3. CASE InsertUnits(c)
  <2>1. /\ run[c].held \in Seq(Records) /\ pc[c] = "units in" /\ pc'[c] = "units" /\ Grows(run[c].held) /\ Lasts
        /\ \A r \in Range(run[c].held) : FoundBy(r, Round(c))
    BY <1>3, InsertUnitsRows
  <2>2. \A r \in Range(run[c].held) : ~r.kept
    BY <2>1 DEF FoundBy
  <2> QED BY <1>1, <2>1, <2>2, WantedGrow DEF Writing
<1> QED BY <1>2, <1>3

(* Decisions: categorize_batch.                                            *)
LEMMA WantedTag ==
  ASSUME NEW c \in Session, Typed, Typed', FirstScan', Rows, Traced, Wanted, Tag(c)
  PROVE  Wanted'
<1>1. /\ wish' = wish /\ raced' = raced /\ SessionStep(c) /\ pc[c] = "tag" /\ pc'[c] = "count"
  BY DEF SessionStep, Tag, user, At, Goto, Typed, TypeOK
<1>2. /\ InPlace
      /\ \A n \in DOMAIN index : index'[n] = index[n] \/ index'[n] \in Range(Tagged(c))
  BY TagRows
<1>3. Copies(run[c].held)
  BY <1>1 DEF Wanted, Writing
<1>4. \A r \in Range(Tagged(c)) : \E h \in Range(run[c].held) : h.id = r.id /\ h.kept = r.kept
  BY TaggedAre
<1>5. \A n \in DOMAIN index : index[n].id \notin raced => index'[n].kept = index[n].kept
  BY <1>2, <1>3, <1>4, Writeback
<1>6. Holds(c)
  BY <1>1 DEF Holds, Writing
<1> QED BY <1>1, <1>2, <1>5, <1>6, OthersHold, WantedKeep

(* Decisions: writing the duplicates back.                                 *)
LEMMA WantedPromote ==
  ASSUME NEW c \in Session, Typed, Typed', FirstScan', Rows, Traced, Wanted, Promote(c)
  PROVE  Wanted'
<1>1. /\ wish' = wish /\ raced' = raced /\ SessionStep(c) /\ pc[c] = "promote" /\ pc'[c] = "recount"
  BY DEF SessionStep, Promote, user, At, Goto, Typed, TypeOK
<1>2. /\ InPlace
      /\ \A n \in DOMAIN index : index'[n] = index[n] \/ index'[n] \in Range(run[c].held)
  BY PromoteRows
<1>3. Copies(run[c].held)
  BY <1>1 DEF Wanted, Writing
<1>4. \A n \in DOMAIN index : index[n].id \notin raced => index'[n].kept = index[n].kept
  BY <1>2, <1>3, Writeback
<1>5. Holds(c)
  BY <1>1 DEF Holds, Writing
<1> QED BY <1>1, <1>2, <1>4, <1>5, OthersHold, WantedKeep

(* Decisions: reading the files to compare.                                *)
LEMMA WantedSnapshot ==
  ASSUME NEW c \in Session, Typed, Typed', FirstScan', Rows, Traced, Wanted, Snapshot(c)
  PROVE  Wanted'
<1>1. wish' = wish /\ raced' = raced /\ SessionStep(c) /\ index' = index /\ pc'[c] \in {"units", "hash"}
  BY DEF SessionStep, Snapshot, user, data, Goto, Typed, TypeOK
<1>2. /\ InPlace
      /\ pc'[c] = "hash" => \A r \in Range(run'[c].held) : r \in Range(index)
  BY SnapshotRows
<1>3. pc'[c] = "hash" => CopiesThen(run'[c].held)
  <2>1. Distinct(index)
    BY DEF Rows
  <2>2. pc'[c] = "hash" => Copies(run'[c].held)
    BY <1>2, <2>1, Reading
  <2> QED BY <1>1, <2>2 DEF Copies, CopiesThen
<1>4. Holds(c) \/ CopiesThen(run'[c].held)
  BY <1>1, <1>3 DEF Holds, Writing
<1> QED BY <1>1, <1>2, <1>4, OthersHold, WantedKeep

(* Decisions: grouping by content.                                         *)
LEMMA WantedHash ==
  ASSUME NEW c \in Session, Typed, Typed', FirstScan', Rows, Traced, Wanted, Hash(c)
  PROVE  Wanted'
<1>1. /\ wish' = wish /\ raced' = raced /\ SessionStep(c) /\ index' = index /\ pc[c] = "hash"
      /\ pc \in [Session -> Places] /\ run \in [Session -> Runs]
  BY DEF SessionStep, Hash, user, data, At, Typed, TypeOK
<1>2. run[c].held \in Seq(Records) /\ Copies(run[c].held)
  BY <1>1 DEF Runs, Wanted, Writing
<1>3. \/ Goto(c, "units")
      \/ \E marked \in SUBSET Groups :
           /\ Goto(c, "promote")
           /\ run' = [run EXCEPT ![c].marked = marked, ![c].held = SetToSeq(Promotable(run[c].held, marked))]
  BY HashMarks
<1>4. CASE Goto(c, "units")
  <2>1. Holds(c)
    BY <1>1, <1>4 DEF Goto, Holds, Writing
  <2> QED BY <1>1, <2>1, HashRows, OthersHold, WantedKeep
<1>5. ASSUME NEW marked \in SUBSET Groups,
             run' = [run EXCEPT ![c].marked = marked, ![c].held = SetToSeq(Promotable(run[c].held, marked))]
      PROVE  CopiesThen(run'[c].held)
  <2>1. run'[c].held = SetToSeq(Promotable(run[c].held, marked))
    BY <1>1, <1>5 DEF Runs
  <2>2. \A r \in Range(run'[c].held) : r \in Promotable(run[c].held, marked)
    BY <1>2, <2>1, PromotableIn
  <2>3. ASSUME NEW r \in Range(run'[c].held) PROVE \E h \in Range(run[c].held) : h.id = r.id /\ h.kept = r.kept
    BY <1>2, <2>2, PromotableFrom
  <2> QED BY <1>1, <1>2, <2>3 DEF Copies, CopiesThen
<1> QED BY <1>1, <1>3, <1>4, <1>5, HashRows, OthersHold, WantedKeep

(* The steps of a change.                                                  *)
LEMMA WantedApply ==
  ASSUME NEW k \in Change, Typed, Typed', Rows, Traced, Sound, Wanted, ApplyStep(k)
  PROVE  Wanted'
<1>1. /\ wish' = wish /\ raced' = raced /\ pc' = pc /\ run' = run /\ apply \in [Change -> Applies]
      /\ index \in Seq(Records) /\ Distinct(index)
  BY DEF ApplyStep, SetSettings, Recalculate, Publish, Reapply, Rewrite, Reread, Retotal, user, Typed, TypeOK, Rows
<1>2. \A d \in Session : Holds(d)
  BY <1>1 DEF Holds
<1>3. CASE SetSettings(k) \/ Publish(k) \/ Retotal(k)
  <2>1. index' = index /\ InPlace
    BY <1>3, IdleRows DEF SetSettings, Publish, Retotal, data
  <2>2. apply'[k].at \notin {"write", "totals"} /\ \A l \in Change \ {k} : apply'[l] = apply[l]
    BY <1>1, <1>3 DEF SetSettings, Publish, Retotal, Still, Advance, Applies
  <2>3. \A l \in Change : CarriesOn(l)
    BY <2>2 DEF CarriesOn
  <2> QED BY <1>1, <1>2, <2>1, <2>3, WantedKeep
<1>4. CASE Recalculate(k)
  <2>1. apply'[k].at = "publish" /\ \A l \in Change \ {k} : apply'[l] = apply[l]
    BY <1>1, <1>4 DEF Recalculate, Advance, Applies
  <2>2. \A l \in Change : CarriesOn(l)
    BY <2>1 DEF CarriesOn
  <2> QED BY <1>1, <1>2, <1>4, <2>2, RecalculateRows, WantedKeep
<1>5. CASE Rewrite(k)
  <2>1. apply[k].at = "write" /\ apply'[k].at = "read" /\ \A l \in Change \ {k} : apply'[l] = apply[l]
    BY <1>1, <1>5 DEF Rewrite, Applying, Advance, Applies
  <2>2. \A l \in Change : CarriesOn(l)
    BY <2>1 DEF CarriesOn
  <2>3. Copies(apply[k].held)
    BY <2>1 DEF Wanted
  <2>4. InPlace /\ \A n \in DOMAIN index : index'[n] = index[n] \/ index'[n] \in Range(apply[k].held)
    BY <1>5, RewriteRows
  <2>5. \A n \in DOMAIN index : index[n].id \notin raced => index'[n].kept = index[n].kept
    BY <2>3, <2>4, Writeback
  <2> QED BY <1>1, <1>2, <2>2, <2>4, <2>5, WantedKeep
<1>6. CASE Reapply(k)
  <2>1. index' = index /\ \A l \in Change \ {k} : apply'[l] = apply[l]
    BY <1>1, <1>6 DEF Reapply, Advance, Applies, data
  <2>2. InPlace /\ \A r \in Range(apply'[k].held) : r \in Promotable(index, dup)
    BY <1>6, ReapplyRows
  <2>3. ASSUME NEW r \in Range(apply'[k].held) PROVE \E h \in Range(index) : h.id = r.id /\ h.kept = r.kept
    BY <1>1, <2>2, PromotableFrom
  <2>4. Copies(apply'[k].held)
    BY <1>1, <2>3, Reading
  <2>5. CopiesThen(apply'[k].held)
    BY <1>1, <2>1, <2>4 DEF Copies, CopiesThen
  <2>6. \A l \in Change : CarriesOn(l) \/ CopiesThen(apply'[l].held)
    BY <2>1, <2>5 DEF CarriesOn
  <2> QED BY <1>1, <1>2, <2>1, <2>2, <2>6, WantedKeep
<1>7. CASE Reread(k)
  <2>1. index' = index /\ apply'[k].held = index /\ \A l \in Change \ {k} : apply'[l] = apply[l]
    BY <1>1, <1>7 DEF Reread, Advance, Applies, data
  <2>2. InPlace
    BY <2>1, Unmoved
  <2>3. Copies(index)
    BY <1>1, Reading
  <2>4. CopiesThen(apply'[k].held)
    BY <1>1, <2>1, <2>3 DEF Copies, CopiesThen
  <2>5. \A l \in Change : CarriesOn(l) \/ CopiesThen(apply'[l].held)
    BY <2>1, <2>4 DEF CarriesOn
  <2> QED BY <1>1, <1>2, <2>1, <2>2, <2>5, WantedKeep
<1> QED BY <1>3, <1>4, <1>5, <1>6, <1>7 DEF ApplyStep

(* Decisions: the steps that leave the index alone.                        *)
LEMMA WantedIdle ==
  ASSUME Wanted, (Stop \/ Total) \/ UNCHANGED vars PROVE Wanted'
<1>1. wish' = wish /\ raced' = raced /\ pc' = pc /\ run' = run /\ index' = index /\ apply' = apply
  BY DEF Stop, Total, user, data, vars
<1>2. InPlace /\ (\A d \in Session : Holds(d)) /\ (\A k \in Change : CarriesOn(k))
  BY <1>1, Unmoved DEF Holds, CarriesOn
<1> QED BY <1>1, <1>2, WantedKeep

(* A decision about a record that nobody is about to write stands.         *)
LEMMA WantedDecide ==
  ASSUME Typed, Typed', Rows, Traced, Wanted, Decide PROVE Wanted'
<1>1. PICK i \in Ids(index), kept \in BOOLEAN :
        /\ index' = Decided(i, kept)
        /\ wish' = [wish EXCEPT ![i] = IF kept THEN "keep" ELSE "free"]
        /\ raced' = IF Writes(i) THEN raced \cup {i} ELSE raced \ {i}
  BY DEF Decide
<1>2. pc' = pc /\ run' = run /\ apply' = apply /\ index \in Seq(Records) /\ wish \in [Id -> {"none", "keep", "free"}]
  BY DEF Decide, Typed, TypeOK
<1>3. i \in Id
  <2>1. PICK n \in DOMAIN index : i = index[n].id
    BY DEF Ids
  <2>2. index[n] \in Records
    BY <1>2
  <2> QED BY <2>1, <2>2 DEF Records
<1>4. InPlace
  BY DecideRows
<1>5. ASSUME NEW n \in DOMAIN index
      PROVE  IF index[n].id = i THEN index'[n].kept = kept ELSE index'[n] = index[n]
  <2>1. index[n] \in Records
    BY <1>2
  <2> QED BY <1>1, <2>1 DEF Decided, Records
<1>6. \A r : r \notin raced' => (r = i /\ ~Writes(i)) \/ (r # i /\ r \notin raced)
  BY <1>1
<1>7. ASSUME NEW recs, Copies(recs), i \in Ids(recs) => Writes(i)
      PROVE  CopiesThen(recs)
  <2> SUFFICES ASSUME NEW n \in DOMAIN index', NEW r \in Range(recs), r.id = index'[n].id, r.id \notin raced'
               PROVE  index'[n].kept = r.kept
    BY DEF CopiesThen
  <2>1. n \in DOMAIN index /\ r.id = index[n].id
    BY <1>4 DEF InPlace
  <2>2. CASE r.id = i
    BY <1>6, <1>7, <2>2 DEF Ids, Range
  <2>3. CASE r.id # i
    <3>1. index'[n] = index[n] /\ r.id \notin raced
      BY <1>5, <1>6, <2>1, <2>3
    <3> QED BY <1>7, <2>1, <3>1 DEF Copies
  <2> QED BY <2>2, <2>3
<1>8. ASSUME NEW d \in Session, pc'[d] \in Writing PROVE CopiesThen(run'[d].held)
  <2>1. Copies(run[d].held)
    BY <1>2, <1>8 DEF Wanted
  <2>2. i \in Ids(run[d].held) => Writes(i)
    BY <1>2, <1>8 DEF Writes, Writing
  <2> QED BY <1>2, <1>7, <2>1, <2>2
<1>9. ASSUME NEW k \in Change, apply'[k].at = "write" PROVE CopiesThen(apply'[k].held)
  <2>1. Copies(apply[k].held)
    BY <1>2, <1>9 DEF Wanted
  <2>2. i \in Ids(apply[k].held) => Writes(i)
    BY <1>2, <1>9 DEF Writes, Applying
  <2> QED BY <1>2, <1>7, <2>1, <2>2
<1>10. \A j \in Id : wish'[j] # "none" => MetThen(j)
  <2>1. ASSUME NEW j \in Id, wish'[j] # "none" PROVE Met(j)
    <3>1. CASE j = i
      BY <3>1 DEF Met
    <3>2. CASE j # i
      BY <1>1, <1>2, <2>1, <3>2 DEF Wanted
    <3> QED BY <3>1, <3>2
  <2> QED BY <1>4, <2>1, InPlaceListing
<1>11. ASSUME NEW n \in DOMAIN index', index'[n].id \notin raced'
       PROVE  /\ wish'[index'[n].id] = "keep" => index'[n].kept
              /\ wish'[index'[n].id] = "free" => ~index'[n].kept
  <2>1. n \in DOMAIN index /\ index'[n].id = index[n].id
    BY <1>4 DEF InPlace
  <2>2. CASE index[n].id = i
    BY <1>1, <1>2, <1>3, <1>5, <2>1, <2>2
  <2>3. CASE index[n].id # i
    <3>1. index'[n] = index[n] /\ index[n].id \notin raced
      BY <1>5, <1>6, <1>11, <2>1, <2>3
    <3>2. wish'[index[n].id] = wish[index[n].id]
      BY <1>1, <1>2, <2>3
    <3> QED BY <2>1, <3>1, <3>2 DEF Wanted
  <2> QED BY <2>2, <2>3
<1> QED BY <1>8, <1>9, <1>10, <1>11, WantedThen

-----------------------------------------------------------------------------
(* All steps, as long as only one session has begun.                       *)
LEMMA FirstBefore ==
  ASSUME Typed, FirstScan', [Next]_vars
  PROVE  FirstScan
<1>1. ASSUME NEW c \in Session, SessionStep(c) PROVE FirstScan
  BY <1>1, Alone
<1>2. CASE pc' = pc
  BY <1>2 DEF FirstScan
<1>3. ASSUME NEW k \in Change, ApplyStep(k) PROVE pc' = pc
  BY <1>3 DEF ApplyStep, SetSettings, Recalculate, Publish, Reapply, Rewrite, Reread, Retotal
<1>4. (Stop \/ Decide \/ Total \/ UNCHANGED vars) => pc' = pc
  BY DEF Stop, Decide, Total, vars
<1> QED BY <1>1, <1>2, <1>3, <1>4 DEF Next

(* Every step keeps the rows and what is traced to them.                   *)
LEMMA RowsNext ==
  ASSUME Typed, Typed', FirstScan', Rows, Traced, Sound, [Next]_vars
  PROVE  Rows' /\ Traced'
<1>1. ASSUME NEW c \in Session, SessionStep(c) PROVE Rows' /\ Traced'
  BY <1>1, QuietRows, SpawnRows, BatchRows, TagRows, SnapshotRows, HashRows, PromoteRows, CountUnitsRows,
     InsertUnitsRows DEF SessionStep
<1>2. ASSUME NEW k \in Change, ApplyStep(k) PROVE Rows' /\ Traced'
  BY <1>2, IdleRows, RecalculateRows, ReapplyRows, RewriteRows, RereadRows DEF ApplyStep
<1>3. Decide \/ Stop \/ Total => Rows' /\ Traced'
  BY DecideRows, IdleRows
<1>4. CASE UNCHANGED vars
  <2>1. pc' = pc /\ run' = run /\ index' = index /\ apply' = apply
    BY <1>4 DEF vars, data
  <2>2. InPlace /\ \A k \in Change : CarriesOn(k)
    BY <2>1, Unmoved DEF CarriesOn
  <2> QED BY <2>1, <2>2, Resting, InPlaceListing, RowsKeep, TracedKeep
<1> QED BY <1>1, <1>2, <1>3, <1>4 DEF Next

(* Every step keeps the decisions.                                         *)
LEMMA WantedNext ==
  ASSUME Typed, Typed', FirstScan', Rows, Traced, Sound, Wanted, [Next]_vars
  PROVE  Wanted'
<1>1. ASSUME NEW c \in Session, SessionStep(c) PROVE Wanted'
  BY <1>1, WantedQuiet, WantedGrows, WantedTag, WantedSnapshot, WantedHash, WantedPromote DEF SessionStep
<1> QED BY <1>1, WantedApply, WantedIdle, WantedDecide DEF Next

-----------------------------------------------------------------------------
(* A member of a group that it does not keep.                              *)
Spare(i) == \E g \in Formed : i \in g.members \ {g.keep}

(* No group is stored before a session has got so far.                     *)
Early ==
  \/ \E c \in Session : pc[c] \in Starting \cup Finding \cup Grouping
  \/ \A c \in Session : pc[c] = "new"

Marking == {"promote", "recount", "store"}

(* Who is or will be offered as a duplicate is a member of a group other
   than the copy to keep.                                                  *)
Grouped ==
  /\ Early => dup = {}
  /\ \A c \in Session : pc[c] \notin Marking => run[c].marked = {}
  /\ Sound
  /\ \A n \in DOMAIN index : index[n].cat = "duplicates" => Spare(index[n].id)
  /\ \A c \in Session : pc[c] = "promote" => \A r \in Range(run[c].held) : r.cat = "duplicates" /\ Spare(r.id)
  /\ \A k \in Change : apply[k].at = "write" => \A r \in Range(apply[k].held) : r.cat = "duplicates" /\ Spare(r.id)

(* So a duplicate has a copy that is not offered as one.                   *)
LEMMA CopyKept ==
  ASSUME Distinct(index), Grouped
  PROVE  \A k \in DOMAIN index :
           index[k].cat = "duplicates" =>
             \E n \in DOMAIN index :
               /\ index[n].path \in Path \ {index[k].path}
               /\ Same[index[n].path] = Same[index[k].path]
               /\ index[n].cat # "duplicates"
<1> SUFFICES ASSUME NEW k \in DOMAIN index, index[k].cat = "duplicates"
             PROVE  \E n \in DOMAIN index :
                      /\ index[n].path \in Path \ {index[k].path}
                      /\ Same[index[n].path] = Same[index[k].path]
                      /\ index[n].cat # "duplicates"
  OBVIOUS
<1>1. PICK g \in Formed : index[k].id \in g.members \ {g.keep}
  BY DEF Grouped, Spare
<1>2. PICK n \in DOMAIN index : index[n].id = g.keep /\ index[n].path \in Path
  BY DEF Grouped, Sound
<1>3. index[n].cat # "duplicates"
  <2>1. SUFFICES ASSUME index[n].cat = "duplicates" PROVE FALSE
    OBVIOUS
  <2>2. PICK h \in Formed : index[n].id \in h.members \ {h.keep}
    BY <2>1 DEF Grouped, Spare
  <2>3. g.keep \in g.members /\ g = h
    BY <1>2, <2>2 DEF Grouped, Sound
  <2> QED BY <1>2, <2>2, <2>3
<1>4. index[n].path # index[k].path
  BY <1>1, <1>2 DEF Distinct
<1>5. Same[index[n].path] = Same[index[k].path]
  BY <1>1, <1>2 DEF Grouped, Sound
<1> QED BY <1>2, <1>3, <1>4, <1>5

(* Files keep their places, and new records have new ids.                  *)
Keeps ==
  /\ \A n \in DOMAIN index : index[n].path \in Path =>
       n \in DOMAIN index' /\ index'[n].path = index[n].path /\ index'[n].id = index[n].id
  /\ \A n \in DOMAIN index' :
       \/ n \in DOMAIN index /\ index'[n].path = index[n].path /\ index'[n].id = index[n].id
       \/ index'[n].id \notin Ids(index) /\ index'[n].cat # "duplicates"

(* A step in place keeps the records where they are.                       *)
LEMMA InPlaceKeeps == ASSUME InPlace PROVE Keeps
  BY DEF InPlace, Keeps

(* So does one that adds records that are no duplicates.                   *)
LEMMA GrowsKeeps ==
  ASSUME NEW new, Grows(new), \A r \in Range(new) : r.cat # "duplicates"
  PROVE  Keeps /\ \A n \in DOMAIN index : index'[n].cat = "duplicates" => index[n].cat = "duplicates"
<1>1. \A n \in DOMAIN index : index[n].path \in Path => n \in DOMAIN index' /\ index'[n] = index[n]
  BY ConstantsOK DEF Grows
<1>2. \A n \in DOMAIN index' :
        (n \in DOMAIN index /\ index'[n] = index[n]) \/ (index'[n].id \notin Ids(index) /\ index'[n].cat # "duplicates")
  BY DEF Grows, Met
<1>3. \A n \in DOMAIN index : n \in DOMAIN index'
  BY DEF Grows
<1> QED BY <1>1, <1>2, <1>3 DEF Keeps

(* The groups change only where they are stored or marked.                 *)
LEMMA FormedSame ==
  ASSUME dup' = dup, \A d \in Session : run'[d].marked = run[d].marked
  PROVE  Formed' = Formed
<1>1. {run'[c].marked : c \in Session} = {run[c].marked : c \in Session}
  OBVIOUS
<1> QED BY <1>1 DEF Formed

Unwritten(k) == apply'[k].at = "write" => apply'[k] = apply[k]

(* A change that carries on has nothing new to write.                      *)
LEMMA CarriedUnwritten == \A k \in Change : CarriesOn(k) => Unwritten(k)
  BY DEF CarriesOn, Unwritten

Unpromoted(d) == pc'[d] = "promote" => pc[d] = "promote" /\ run'[d].held = run[d].held

(* What keeps the duplicates in their groups while the groups stay.        *)
LEMMA GroupedKeep ==
  ASSUME Grouped, Keeps, Formed' = Formed, Early' => dup' = {},
         \A d \in Session : pc'[d] \notin Marking => run'[d].marked = {},
         \A n \in DOMAIN index : index'[n].cat = "duplicates" => index[n].cat = "duplicates" \/ Spare(index[n].id),
         \A d \in Session : Unpromoted(d),
         \A k \in Change : Unwritten(k) \/ \A r \in Range(apply'[k].held) : r.cat = "duplicates" /\ Spare(r.id)
  PROVE  Grouped'
<1>1. \A i : Spare(i)' <=> Spare(i)
  BY DEF Spare
<1>2. Sound'
  <2>1. \A g \in Formed' : g.keep \in g.members
    BY DEF Grouped, Sound
  <2>2. \A g \in Formed' : \A i \in g.members : \E n \in DOMAIN index' : index'[n].id = i /\ index'[n].path \in Path
    BY DEF Grouped, Sound, Keeps
  <2>3. ASSUME NEW g \in Formed', NEW n \in DOMAIN index', index'[n].id \in g.members
        PROVE  n \in DOMAIN index /\ index[n].id \in g.members /\ index'[n].path = index[n].path
    <3>1. index'[n].id \in Ids(index)
      BY <2>3 DEF Grouped, Sound, Ids
    <3> QED BY <2>3, <3>1 DEF Keeps
  <2>4. \A g \in Formed' : \A m, n \in DOMAIN index' :
       index'[m].id \in g.members /\ index'[n].id \in g.members => Same[index'[m].path] = Same[index'[n].path]
    BY <2>3 DEF Grouped, Sound
  <2>5. \A g, h \in Formed' : \A i \in g.members : i \in h.members => g = h
    BY DEF Grouped, Sound
  <2> QED BY <2>1, <2>2, <2>4, <2>5 DEF Sound
<1>3. ASSUME NEW n \in DOMAIN index', index'[n].cat = "duplicates" PROVE Spare(index'[n].id)
  BY <1>3 DEF Keeps, Grouped
<1>4. ASSUME NEW d \in Session, pc'[d] = "promote", NEW r \in Range(run'[d].held)
      PROVE  r.cat = "duplicates" /\ Spare(r.id)
  BY <1>4 DEF Unpromoted, Grouped
<1>5. ASSUME NEW k \in Change, apply'[k].at = "write", NEW r \in Range(apply'[k].held)
      PROVE  r.cat = "duplicates" /\ Spare(r.id)
  BY <1>5 DEF Unwritten, Grouped
<1> HIDE DEF Formed
<1> QED BY <1>2, <1>3, <1>4, <1>5 DEF Grouped, Spare, Range

-----------------------------------------------------------------------------
(* A session that is early was so before, and stores nothing.              *)
LEMMA EarlyBefore ==
  ASSUME NEW c \in Session, Typed, FirstScan', SessionStep(c), Grouped
  PROVE  Early' => dup' = {}
<1> DEFINE Soon == Starting \cup Finding \cup Grouping
<1>1. (\A d \in Session \ {c} : pc[d] = "new" /\ pc'[d] = "new") /\ pc'[c] # "new" /\ pc \in [Session -> Places]
  BY Alone
<1>2. pc'[c] \in Soon => dup' = dup /\ pc[c] \in Soon \cup {"new"}
  <2> USE <1>1 DEF Starting, Finding, Grouping, Goto, At, data
  <2>1. CASE Begin(c) \/ TakeToken(c) \/ Batch(c) \/ Tag(c) \/ Count(c)
    BY <2>1 DEF Begin, TakeToken, Batch, Tag, Count
  <2>2. CASE Spawn(c)
    BY <2>2 DEF Spawn
  <2>3. CASE EndFind(c) \/ Snapshot(c) \/ Promote(c) \/ Recount(c) \/ Store(c)
    BY <2>3 DEF EndFind, Snapshot, Promote, Recount, Store
  <2>4. CASE Hash(c)
    BY <2>4 DEF Hash
  <2>5. CASE CountUnits(c) \/ InsertUnits(c)
    BY <2>5 DEF CountUnits, InsertUnits
  <2>6. CASE End(c)
    BY <2>6 DEF End
  <2> QED BY <2>1, <2>2, <2>3, <2>4, <2>5, <2>6 DEF SessionStep
<1>3. "new" \notin Soon
  BY DEF Starting, Finding, Grouping
<1>4. Early' => pc'[c] \in Soon
  BY <1>1, <1>3 DEF Early
<1>5. pc[c] \in Soon \cup {"new"} => Early
  BY <1>1 DEF Early
<1> QED BY <1>2, <1>4, <1>5 DEF Grouped

(* The same for the step of a session that forms no group.                 *)
LEMMA GroupedOwn ==
  ASSUME NEW c \in Session, Typed, FirstScan', SessionStep(c), Grouped, Keeps, dup' = dup,
         run'[c].marked = run[c].marked,
         pc[c] \notin Marking \/ pc'[c] \in Marking,
         \A n \in DOMAIN index : index'[n].cat = "duplicates" => index[n].cat = "duplicates" \/ Spare(index[n].id),
         pc'[c] # "promote"
  PROVE  Grouped'
<1>1. \A d \in Session \ {c} : pc'[d] = "new" /\ run'[d] = Clean /\ run[d] = Clean
  BY Alone
<1>2. Formed' = Formed
  BY <1>1, FormedSame
<1>3. \A d \in Session : pc'[d] \notin Marking => run'[d].marked = {}
  BY <1>1 DEF Grouped, Clean
<1>4. \A d \in Session : Unpromoted(d)
  BY <1>1 DEF Unpromoted
<1>5. \A k \in Change : Unwritten(k)
  BY Others, CarriedUnwritten
<1> QED BY <1>2, <1>3, <1>4, <1>5, EarlyBefore, GroupedKeep

(* Groups: the steps that touch neither records nor copies.                *)
LEMMA GroupedQuiet ==
  ASSUME NEW c \in Session, Typed, FirstScan', Grouped,
         \/ Begin(c) \/ TakeToken(c) \/ Spawn(c) \/ Count(c) \/ EndFind(c) \/ Recount(c)
         \/ CountUnits(c) \/ End(c)
  PROVE  Grouped'
<1>1. run \in [Session -> Runs] /\ pc \in [Session -> Places]
  BY DEF Typed, TypeOK
<1>2. SessionStep(c)
  BY DEF SessionStep
<1>3. /\ index' = index /\ dup' = dup
      /\ pc[c] \notin Marking \/ pc'[c] \in Marking
      /\ pc'[c] # "promote"
      /\ run'[c].marked = run[c].marked \/ (run'[c] = Clean /\ pc[c] \notin Marking)
  <2> USE <1>1 DEF Goto, At, data, Marking, Runs
  <2>1. CASE Begin(c) \/ TakeToken(c) \/ Count(c)
    BY <2>1 DEF Begin, TakeToken, Count
  <2>2. CASE Spawn(c)
    BY <2>2 DEF Spawn
  <2>3. CASE EndFind(c) \/ Recount(c)
    BY <2>3 DEF EndFind, Recount
  <2>5. CASE CountUnits(c)
    <3>1. pc[c] = "units" /\ index' = index /\ dup' = dup
      BY <2>5 DEF CountUnits
    <3>2. pc'[c] \in {"end", "units", "units in"} /\ run'[c].marked = run[c].marked
      <4>1. CASE Goto(c, "end") /\ run' = run
        BY <4>1
      <4>2. ASSUME NEW found, Goto(c, IF found = {} THEN "units" ELSE "units in"),
                   run' = [run EXCEPT ![c].held = UnitsOf(found), ![c].finder = run[c].finder + 1]
            PROVE  pc'[c] \in {"end", "units", "units in"} /\ run'[c].marked = run[c].marked
        <5>1. ASSUME NEW x \in Runs, NEW held, NEW n PROVE [x EXCEPT !.held = held, !.finder = n].marked = x.marked
          OBVIOUS
        <5>2. run[c] \in Runs /\ run'[c] = [run[c] EXCEPT !.held = UnitsOf(found), !.finder = run[c].finder + 1]
          BY <4>2
        <5>3. run'[c].marked = run[c].marked
          BY <5>1, <5>2
        <5> QED BY <4>2, <5>3
      <4> QED BY <2>5, <4>1, <4>2, CountUnitsShape
    <3> QED BY <3>1, <3>2
  <2>6. CASE End(c)
    BY <2>6 DEF End, Close
  <2> QED BY <2>1, <2>2, <2>3, <2>5, <2>6
<1>4. run'[c].marked = run[c].marked
  <2>1. Clean.marked = {} /\ (pc[c] \notin Marking => run[c].marked = {})
    BY DEF Grouped, Clean
  <2> QED BY <1>3, <2>1
<1>5. Keeps
  BY <1>3, Unmoved, InPlaceKeeps
<1>6. \A n \in DOMAIN index : index'[n].cat = "duplicates" => index[n].cat = "duplicates" \/ Spare(index[n].id)
  BY <1>3
<1> QED BY <1>2, <1>3, <1>4, <1>5, <1>6, GroupedOwn

(* Groups: the steps that add records.                                     *)
LEMMA GroupedGrows ==
  ASSUME NEW c \in Session, Typed, Typed', FirstScan', Rows, Traced, Grouped, Batch(c) \/ InsertUnits(c)
  PROVE  Grouped'
<1>1. run \in [Session -> Runs] /\ pc \in [Session -> Places] /\ SessionStep(c)
  BY DEF Typed, TypeOK, SessionStep
<1>2. /\ dup' = dup /\ pc[c] \notin Marking /\ pc'[c] # "promote" /\ run'[c].marked = run[c].marked
  <2> USE <1>1 DEF Goto, At, Marking, Runs
  <2>1. CASE Batch(c)
    <3>1. /\ pc[c] = "find" /\ pc' = [pc EXCEPT ![c] = "tag"] /\ dup' = dup
          /\ \E todo, next, held : run' = [run EXCEPT ![c].todo = todo, ![c].next = next, ![c].held = held]
      BY <2>1 DEF Batch
    <3>2. run'[c].marked = run[c].marked
      BY <3>1
    <3> QED BY <3>1, <3>2
  <2>2. CASE InsertUnits(c)
    BY <2>2 DEF InsertUnits
  <2> QED BY <2>1, <2>2
<1>3. Keeps /\ \A n \in DOMAIN index : index'[n].cat = "duplicates" => index[n].cat = "duplicates"
  <2>1. CASE Batch(c)
    <3>1. Grows(run'[c].held) /\ \A r \in Range(run'[c].held) : r.cat = "none"
      BY <2>1, BatchRows
    <3> QED BY <3>1, GrowsKeeps
  <2>2. CASE InsertUnits(c)
    <3>1. Grows(run[c].held) /\ \A r \in Range(run[c].held) : r.cat = "folder"
      BY <2>2, InsertUnitsRows DEF FoundBy
    <3> QED BY <3>1, GrowsKeeps
  <2> QED BY <2>1, <2>2
<1> QED BY <1>1, <1>2, <1>3, GroupedOwn

(* Groups: categorize_batch.                                               *)
LEMMA GroupedTag ==
  ASSUME NEW c \in Session, Typed, Typed', FirstScan', Rows, Traced, Grouped, Tag(c)
  PROVE  Grouped'
<1>1. /\ SessionStep(c) /\ dup' = dup /\ run' = run /\ pc[c] = "tag" /\ pc'[c] = "count"
  BY DEF Typed, TypeOK, SessionStep, Tag, At, Goto
<1>2. /\ InPlace
      /\ \A n \in DOMAIN index : index'[n] = index[n] \/ index'[n] \in Range(Tagged(c))
  BY TagRows
<1>3. \A r \in Range(Tagged(c)) : r.cat # "duplicates"
  BY TaggedAre
<1> QED BY <1>1, <1>2, <1>3, InPlaceKeeps, GroupedOwn DEF Marking

(* Groups: reading the files to compare.                                   *)
LEMMA GroupedSnapshot ==
  ASSUME NEW c \in Session, Typed, Typed', FirstScan', Rows, Traced, Grouped, Snapshot(c)
  PROVE  Grouped'
<1>1. run \in [Session -> Runs] /\ pc \in [Session -> Places] /\ SessionStep(c)
  BY DEF Typed, TypeOK, SessionStep
<1>2. /\ index' = index /\ dup' = dup /\ pc[c] = "snapshot" /\ pc'[c] \in {"units", "hash"}
      /\ run'[c].marked = run[c].marked
  BY <1>1 DEF Snapshot, Goto, At, data, Runs
<1>3. Keeps
  BY <1>2, Unmoved, InPlaceKeeps
<1> QED BY <1>1, <1>2, <1>3, GroupedOwn DEF Marking

(* Groups: writing the duplicates back.                                    *)
LEMMA GroupedPromote ==
  ASSUME NEW c \in Session, Typed, Typed', FirstScan', Rows, Traced, Grouped, Promote(c)
  PROVE  Grouped'
<1>1. run \in [Session -> Runs] /\ pc \in [Session -> Places] /\ SessionStep(c)
  BY DEF Typed, TypeOK, SessionStep
<1>2. /\ dup' = dup /\ pc[c] = "promote" /\ pc'[c] = "recount"
      /\ run'[c].marked = run[c].marked
  BY <1>1 DEF Promote, Goto, At, Runs
<1>3. /\ InPlace
      /\ \A n \in DOMAIN index : index'[n] = index[n] \/ index'[n] \in Range(run[c].held)
  BY PromoteRows
<1>4. \A r \in Range(run[c].held) : Spare(r.id)
  BY <1>2 DEF Grouped
<1>5. \A n \in DOMAIN index : index'[n].cat = "duplicates" => index[n].cat = "duplicates" \/ Spare(index[n].id)
  BY <1>3, <1>4 DEF InPlace
<1> QED BY <1>1, <1>2, <1>3, <1>5, InPlaceKeeps, GroupedOwn DEF Marking

(* The session's groups become those that are stored.                      *)
LEMMA GroupedStore ==
  ASSUME NEW c \in Session, Typed, FirstScan', Grouped, Store(c)
  PROVE  Grouped'
<1>1. run \in [Session -> Runs] /\ pc \in [Session -> Places] /\ SessionStep(c)
  BY DEF Typed, TypeOK, SessionStep
<1>2. /\ index' = index /\ dup' = run[c].marked /\ pc[c] = "store" /\ pc'[c] = "units"
      /\ run'[c].marked = {}
  BY <1>1 DEF Store, Goto, At, Runs
<1>3. \A d \in Session \ {c} : pc'[d] = "new" /\ run'[d] = Clean /\ run[d] = Clean
  BY <1>1, Alone
<1>4. dup = {}
  <2>1. Early
    BY <1>2 DEF Early, Grouping
  <2> QED BY <2>1 DEF Grouped
<1>5. Formed' = Formed
  <2>1. \A d \in Session : run[d].marked # {} => d = c
    BY <1>3 DEF Clean
  <2>2. \A d \in Session : run'[d].marked = {}
    BY <1>2, <1>3 DEF Clean
  <2>3. UNION {run'[d].marked : d \in Session} = {}
    BY <2>2
  <2>4. UNION {run[d].marked : d \in Session} = run[c].marked
    BY <2>1
  <2> QED BY <1>2, <1>4, <2>3, <2>4 DEF Formed
<1>6. Keeps
  BY <1>2, Unmoved, InPlaceKeeps
<1>7. \A d \in Session : pc'[d] \notin Marking => run'[d].marked = {}
  BY <1>2, <1>3 DEF Clean
<1>8. \A d \in Session : Unpromoted(d)
  BY <1>2, <1>3 DEF Unpromoted
<1>9. \A k \in Change : Unwritten(k)
  BY <1>1, Others, CarriedUnwritten
<1> QED BY <1>1, <1>2, <1>5, <1>6, <1>7, <1>8, <1>9, EarlyBefore, GroupedKeep

-----------------------------------------------------------------------------
(* Each group has the files of one content among the hashed ones.          *)
LEMMA AlikeAre ==
  ASSUME NEW recs, NEW hashed
  PROVE  /\ \A g \in Alike(recs, hashed) : \A i \in g :
              i \in hashed /\ g = {j \in hashed : Same[LastOf(recs, j).path] = Same[LastOf(recs, i).path]}
         /\ \A g, h \in Alike(recs, hashed) : \A i \in g : i \in h => g = h
<1> DEFINE content(i) == Same[LastOf(recs, i).path]
<1>1. \A g \in Alike(recs, hashed) : \E i \in hashed : g = {j \in hashed : content(j) = content(i)}
  BY DEF Alike
<1> HIDE DEF content
<1>2. \A g \in Alike(recs, hashed) : \A i \in g : i \in hashed /\ g = {j \in hashed : content(j) = content(i)}
  <2> SUFFICES ASSUME NEW g \in Alike(recs, hashed), NEW i \in g
               PROVE  i \in hashed /\ g = {j \in hashed : content(j) = content(i)}
    OBVIOUS
  <2>1. PICK k \in hashed : g = {j \in hashed : content(j) = content(k)}
    BY <1>1
  <2>2. i \in hashed /\ content(i) = content(k)
    BY <2>1
  <2> QED BY <2>1, <2>2
<1>3. ASSUME NEW g \in Alike(recs, hashed), NEW h \in Alike(recs, hashed), NEW i \in g, i \in h PROVE g = h
  <2>1. g = {j \in hashed : content(j) = content(i)} /\ h = {j \in hashed : content(j) = content(i)}
    BY <1>2, <1>3
  <2> QED BY <2>1
<1> QED BY <1>2, <1>3 DEF content

(* Groups: grouping by content.                                            *)
LEMMA GroupedHash ==
  ASSUME NEW c \in Session, Typed, Typed', FirstScan', Rows, Traced, Grouped, Hash(c)
  PROVE  Grouped'
<1> DEFINE recs == run[c].held
<1>1. /\ run \in [Session -> Runs] /\ pc \in [Session -> Places] /\ SessionStep(c)
      /\ index' = index /\ dup' = dup /\ pc[c] = "hash" /\ index \in Seq(Records)
  BY DEF Typed, TypeOK, SessionStep, Hash, At, data
<1>2. recs \in Seq(Records) /\ \A r \in Range(recs) : r.path \in Path /\ <<r.path, r.id>> \in Listing
  BY <1>1 DEF Traced, Runs
<1> HIDE DEF recs
<1>3. PICK hashed \in SUBSET Ids(recs) :
        \/ Goto(c, "units") /\ run' = [run EXCEPT ![c].held = <<>>]
        \/ \E keep \in [Alike(recs, hashed) -> hashed] : \E marked \in SUBSET Groups :
             /\ marked = {[keep |-> keep[g], members |-> g] : g \in Alike(recs, hashed)}
             /\ \A g \in Alike(recs, hashed) : keep[g] \in g
             /\ Goto(c, "promote")
             /\ run' = [run EXCEPT ![c].marked = marked, ![c].held = SetToSeq(Promotable(recs, marked))]
  BY HashMarks DEF recs
<1>4. CASE Goto(c, "units") /\ run' = [run EXCEPT ![c].held = <<>>]
  <2>1. pc'[c] = "units" /\ run'[c].marked = run[c].marked
    BY <1>1, <1>4 DEF Goto, Runs
  <2> QED BY <1>1, <2>1, Unmoved, InPlaceKeeps, GroupedOwn DEF Marking
<1>5. ASSUME NEW keep \in [Alike(recs, hashed) -> hashed], NEW marked \in SUBSET Groups,
             marked = {[keep |-> keep[g], members |-> g] : g \in Alike(recs, hashed)},
             \A g \in Alike(recs, hashed) : keep[g] \in g,
             Goto(c, "promote"),
             run' = [run EXCEPT ![c].marked = marked, ![c].held = SetToSeq(Promotable(recs, marked))]
      PROVE  Grouped'
  <2>1. pc'[c] = "promote" /\ run'[c].marked = marked /\ run'[c].held = SetToSeq(Promotable(recs, marked))
    BY <1>1, <1>5 DEF Goto, Runs
  <2>2. \A d \in Session \ {c} : pc[d] = "new" /\ pc'[d] = "new" /\ run'[d] = Clean /\ run[d] = Clean
    BY <1>1, Alone
  <2>3. \A d \in Session \ {c} : run'[d].marked = {} /\ run[d].marked = {}
    BY <2>2 DEF Clean
  <2>4. dup = {} /\ run[c].marked = {}
    <3>1. Early /\ pc[c] \notin Marking
      BY <1>1 DEF Early, Grouping, Marking
    <3> QED BY <3>1 DEF Grouped
  <2>5. Formed = {}
    <3>1. \A d \in Session : run[d].marked = {}
      BY <2>3, <2>4
    <3> QED BY <2>4, <3>1 DEF Formed
  <2>6. Formed' = marked
    <3>1. UNION {run'[d].marked : d \in Session} = marked
      BY <2>1, <2>3
    <3> QED BY <1>1, <2>4, <3>1 DEF Formed
  <2>7. /\ \A g \in marked : g.members \in Alike(recs, hashed) /\ g.keep = keep[g.members]
        /\ \A g, h \in marked : g.members = h.members => g = h
    <3> DEFINE Mark(g) == [keep |-> keep[g], members |-> g]
    <3>1. \A g \in marked : \E a \in Alike(recs, hashed) : g = Mark(a)
      BY <1>5
    <3>2. \A a \in Alike(recs, hashed) : Mark(a).members = a /\ Mark(a).keep = keep[a]
      OBVIOUS
    <3> HIDE DEF Mark
    <3> QED BY <3>1, <3>2
  <2>8. \A i \in Ids(recs) : \E n \in DOMAIN index : index[n].id = i /\ index[n].path = LastOf(recs, i).path /\ index[n].path \in Path
    <3> SUFFICES ASSUME NEW i \in Ids(recs)
                 PROVE  \E n \in DOMAIN index : index[n].id = i /\ index[n].path = LastOf(recs, i).path /\ index[n].path \in Path
      OBVIOUS
    <3>1. LastOf(recs, i) \in Range(recs) /\ LastOf(recs, i).id = i
      BY <1>2, LastOfIn
    <3>2. <<LastOf(recs, i).path, LastOf(recs, i).id>> \in Listing /\ LastOf(recs, i).path \in Path
      BY <1>2, <3>1
    <3>3. PICK n \in DOMAIN index : <<LastOf(recs, i).path, LastOf(recs, i).id>> = <<index[n].path, index[n].id>>
      BY <3>2 DEF Listing
    <3> QED BY <3>1, <3>2, <3>3
  <2>9. \A n \in DOMAIN index : index[n].id \in Ids(recs) => index[n].path = LastOf(recs, index[n].id).path
    <3>1. Distinct(index)
      BY DEF Rows
    <3> QED BY <2>8, <3>1 DEF Distinct
  <2>10. \A g \in marked : \A i \in g.members : i \in hashed /\ i \in Ids(recs)
    BY <2>7, AlikeAre
  <2>11. Sound'
    <3>1. \A g \in marked : g.keep \in g.members
      BY <1>5, <2>7
    <3>2. \A g \in marked : \A i \in g.members : \E n \in DOMAIN index : index[n].id = i /\ index[n].path \in Path
      BY <2>8, <2>10
    <3>3. ASSUME NEW g \in marked, NEW m \in DOMAIN index, NEW n \in DOMAIN index,
                 index[m].id \in g.members, index[n].id \in g.members
          PROVE  Same[index[m].path] = Same[index[n].path]
      <4>1. index[m].path = LastOf(recs, index[m].id).path /\ index[n].path = LastOf(recs, index[n].id).path
        BY <2>9, <2>10, <3>3
      <4>2. index[m].id \in {j \in hashed : Same[LastOf(recs, j).path] = Same[LastOf(recs, index[n].id).path]}
        BY <2>7, <3>3, AlikeAre
      <4> QED BY <4>1, <4>2
    <3>4. \A g, h \in marked : \A i \in g.members : i \in h.members => g = h
      BY <2>7, AlikeAre
    <3> QED BY <1>1, <2>6, <3>1, <3>2, <3>3, <3>4 DEF Sound
  <2>12. \A n \in DOMAIN index : index[n].cat # "duplicates"
    BY <2>5 DEF Grouped, Spare
  <2>13. \A r \in Range(run'[c].held) : r.cat = "duplicates" /\ \E g \in marked : r.id \in g.members \ {g.keep}
    <3>1. \A r \in Range(run'[c].held) : r \in Promotable(recs, marked)
      BY <1>2, <2>1, PromotableIn
    <3> QED BY <1>2, <3>1, PromotableFrom
  <2>14. \A k \in Change : apply'[k].at = "write" => \A r \in Range(apply'[k].held) : FALSE
    <3>1. apply' = apply
      BY <1>1, Alone
    <3> QED BY <2>5, <3>1 DEF Grouped, Spare
  <2>15. \A d \in Session : pc'[d] \notin Marking => run'[d].marked = {}
    BY <2>1, <2>3 DEF Marking
  <2>16. \A d \in Session : pc'[d] = "promote" =>
            \A r \in Range(run'[d].held) : r.cat = "duplicates" /\ \E g \in Formed' : r.id \in g.members \ {g.keep}
    BY <2>2, <2>6, <2>13
  <2>17. Early' => dup' = {}
    BY <1>1, EarlyBefore
  <2> HIDE DEF Formed
  <2> QED BY <1>1, <2>11, <2>12, <2>14, <2>15, <2>16, <2>17 DEF Grouped, Spare, Range
<1> QED BY <1>3, <1>4, <1>5

(* A change and the user move no session and form no group.                *)
LEMMA GroupedBeside ==
  ASSUME Typed, Grouped, Keeps, pc' = pc, run' = run, dup' = dup,
         \A n \in DOMAIN index : index'[n].cat = "duplicates" => index[n].cat = "duplicates" \/ Spare(index[n].id),
         \A k \in Change : Unwritten(k) \/ \A r \in Range(apply'[k].held) : r.cat = "duplicates" /\ Spare(r.id)
  PROVE  Grouped'
<1>1. Formed' = Formed
  BY FormedSame
<1>2. Early' => dup' = {}
  BY DEF Early, Grouped
<1>3. \A d \in Session : Unpromoted(d) /\ (pc'[d] \notin Marking => run'[d].marked = {})
  BY DEF Unpromoted, Grouped
<1> QED BY <1>1, <1>2, <1>3, GroupedKeep

(* Groups: the steps of a change.                                          *)
LEMMA GroupedApply ==
  ASSUME NEW k \in Change, Typed, Typed', Rows, Traced, Grouped, ApplyStep(k)
  PROVE  Grouped'
<1>1. /\ pc' = pc /\ run' = run /\ dup' = dup /\ apply \in [Change -> Applies] /\ index \in Seq(Records)
  BY DEF ApplyStep, SetSettings, Recalculate, Publish, Reapply, Rewrite, Reread, Retotal, data, Typed, TypeOK
<1>2. CASE SetSettings(k) \/ Publish(k) \/ Retotal(k) \/ Reread(k) \/ Recalculate(k)
  <2>1. apply'[k].at # "write" /\ \A l \in Change \ {k} : apply'[l] = apply[l]
    BY <1>1, <1>2 DEF SetSettings, Publish, Retotal, Reread, Recalculate, Still, Advance, Applies
  <2>2. Keeps /\ \A n \in DOMAIN index : index'[n].cat = "duplicates" => index[n].cat = "duplicates"
    <3>1. CASE Recalculate(k)
      BY <3>1, RecalculateRows, InPlaceKeeps
    <3>2. CASE SetSettings(k) \/ Publish(k) \/ Retotal(k) \/ Reread(k)
      <4>1. index' = index
        BY <3>2 DEF SetSettings, Publish, Retotal, Reread, data
      <4> QED BY <4>1, Unmoved, InPlaceKeeps
    <3> QED BY <1>2, <3>1, <3>2
  <2>3. \A l \in Change : Unwritten(l)
    BY <2>1 DEF Unwritten
  <2> QED BY <1>1, <2>2, <2>3, GroupedBeside
<1>3. CASE Rewrite(k)
  <2>1. apply[k].at = "write" /\ apply'[k].at = "read" /\ \A l \in Change \ {k} : apply'[l] = apply[l]
    BY <1>1, <1>3 DEF Rewrite, Applying, Advance, Applies
  <2>2. InPlace /\ \A n \in DOMAIN index : index'[n] = index[n] \/ index'[n] \in Range(apply[k].held)
    BY <1>3, RewriteRows
  <2>3. \A r \in Range(apply[k].held) : Spare(r.id)
    BY <2>1 DEF Grouped
  <2>4. \A n \in DOMAIN index : index'[n].cat = "duplicates" => index[n].cat = "duplicates" \/ Spare(index[n].id)
    BY <2>2, <2>3 DEF InPlace
  <2>5. \A l \in Change : Unwritten(l)
    BY <2>1 DEF Unwritten
  <2> QED BY <1>1, <2>2, <2>4, <2>5, InPlaceKeeps, GroupedBeside
<1>4. CASE Reapply(k)
  <2>1. index' = index /\ \A l \in Change \ {k} : apply'[l] = apply[l]
    BY <1>1, <1>4 DEF Reapply, Advance, Applies, data
  <2>2. \A r \in Range(apply'[k].held) : r \in Promotable(index, dup)
    BY <1>4, ReapplyRows DEF Grouped
  <2>3. ASSUME NEW r \in Range(apply'[k].held) PROVE r.cat = "duplicates" /\ Spare(r.id)
    <3>1. r.cat = "duplicates" /\ \E g \in dup : r.id \in g.members \ {g.keep}
      BY <1>1, <2>2, PromotableFrom
    <3> QED BY <3>1 DEF Spare, Formed
  <2>4. \A l \in Change : Unwritten(l) \/ \A r \in Range(apply'[l].held) : r.cat = "duplicates" /\ Spare(r.id)
    BY <2>1, <2>3 DEF Unwritten
  <2> QED BY <1>1, <2>1, <2>4, Unmoved, InPlaceKeeps, GroupedBeside
<1> QED BY <1>2, <1>3, <1>4 DEF ApplyStep

(* Groups: the steps that leave the index alone.                           *)
LEMMA GroupedIdle ==
  ASSUME Typed, Typed', Rows, Traced, Grouped, (Stop \/ Decide \/ Total) \/ UNCHANGED vars PROVE Grouped'
<1>1. pc' = pc /\ run' = run /\ dup' = dup /\ apply' = apply
  BY DEF Stop, Decide, Total, data, vars
<1>2. Keeps /\ \A n \in DOMAIN index : index'[n].cat = index[n].cat
  <2>1. CASE Decide
    BY <2>1, DecideRows, InPlaceKeeps
  <2>2. CASE (Stop \/ Total) \/ UNCHANGED vars
    <3>1. index' = index
      BY <2>2 DEF Stop, Total, data, vars
    <3> QED BY <3>1, Unmoved, InPlaceKeeps
  <2> QED BY <2>1, <2>2
<1>3. \A k \in Change : Unwritten(k)
  BY <1>1 DEF Unwritten
<1> QED BY <1>1, <1>2, <1>3, GroupedBeside

(* Every step keeps the duplicates in their groups.                        *)
LEMMA GroupedNext ==
  ASSUME Typed, Typed', FirstScan', Rows, Traced, Grouped, [Next]_vars
  PROVE  Grouped'
<1>1. ASSUME NEW c \in Session, SessionStep(c) PROVE Grouped'
  BY <1>1, GroupedQuiet, GroupedGrows, GroupedTag, GroupedSnapshot, GroupedHash, GroupedPromote, GroupedStore
     DEF SessionStep
<1> QED BY <1>1, GroupedApply, GroupedIdle DEF Next

(* The invariant of the first scan.                                        *)
Recorded == Typed /\ (FirstScan => Rows /\ Traced /\ Wanted /\ Grouped)

(* The invariant holds at the start.                                       *)
LEMMA RecordedInit == Init => Recorded
<1> SUFFICES ASSUME Init PROVE Recorded
  OBVIOUS
<1>1. Typed
  BY TypedInit
<1>2. /\ index = <<>> /\ DOMAIN index = {} /\ Ids(index) = {} /\ wish = [i \in Id |-> "none"]
      /\ \A c \in Session : pc[c] = "new"
      /\ \A k \in Change : apply[k].at = "new"
      /\ dup = {} /\ \A c \in Session : run[c].marked = {}
  BY DEF Init, Still, Ids, Clean
<1>3. Rows
  BY <1>2 DEF Rows, Distinct, Finding, Grouping, Adding
<1>4. Traced
  BY <1>2 DEF Traced
<1>5. Wanted
  BY <1>2 DEF Wanted, Writing
<1>6. Grouped
  BY <1>2 DEF Grouped, Sound, Formed
<1> QED BY <1>1, <1>3, <1>4, <1>5, <1>6 DEF Recorded

(* Every step keeps the invariant.                                         *)
LEMMA RecordedNext == Recorded /\ [Next]_vars => Recorded'
<1> SUFFICES ASSUME Recorded, [Next]_vars PROVE Recorded'
  OBVIOUS
<1>1. Typed /\ Typed'
  BY TypedNext DEF Recorded
<1>2. CASE FirstScan'
  <2>1. Rows /\ Traced /\ Wanted /\ Grouped
    BY <1>1, <1>2, FirstBefore DEF Recorded
  <2>2. Sound
    BY <2>1 DEF Grouped
  <2> QED BY <1>1, <1>2, <2>1, <2>2, RowsNext, WantedNext, GroupedNext DEF Recorded
<1>3. CASE ~FirstScan'
  BY <1>1, <1>3 DEF Recorded
<1> QED BY <1>2, <1>3

(* What the user decided last stands throughout the first scan, unless a
   thread was about to write the record back.                              *)
THEOREM DecisionsHold == Spec => []DecisionsStand
<1>1. Recorded => DecisionsStand
  BY DEF Recorded, Wanted, DecisionsStand
<1> QED BY <1>1, RecordedInit, RecordedNext, PTL DEF Spec

(* During the first scan, however it is disturbed, every candidate offered
   as a duplicate has a copy elsewhere that is not offered as one.         *)
THEOREM CopyStays == Spec => []OneCopyStays
<1>1. Recorded => OneCopyStays
  BY CopyKept DEF Recorded, Rows, OneCopyStays
<1> QED BY <1>1, RecordedInit, RecordedNext, PTL DEF Spec

-----------------------------------------------------------------------------
(***************************************************************************)
(* What becomes of the live totals during the first scan: once all is      *)
(* quiet they count the candidates of the index, and at most units besides *)
(* of which a later detector has found the folder (TotalsFollow), if one   *)
(* thread at a time has worked on them. Then no thread holds what was      *)
(* decided since it read it (Lone), and the totals differ from the index   *)
(* only by what a thread is about to count, a decision on its way to them  *)
(* and the units replaced (Counted).                                       *)
(***************************************************************************)
-----------------------------------------------------------------------------
(* Where a thread holds what it has read and not yet counted.              *)
Reader == {"tag", "count", "hash", "promote"}
Rereader == {"write", "totals"}

(* The records say the same of who is kept as the index does.              *)
Says(recs) ==
  \A n \in DOMAIN index : \A r \in Range(recs) : r.id = index[n].id => index[n].kept = r.kept

SaysThen(recs) ==
  \A n \in DOMAIN index' : \A r \in Range(recs) : r.id = index'[n].id => index'[n].kept = r.kept

Apart ==
  \A k \in Change : Works(k) =>
    /\ \A c \in Session : ~Busy(c)
    /\ \A other \in Change : Works(other) => k = other

(* Only one thread works on the totals, at most one decision is on its way
   to them, and no thread holds what has been decided since it was read.   *)
Lone ==
  /\ Apart
  /\ \A d, e \in pend : d = e
  /\ \A d \in pend : Met(d.id)
  /\ \A d \in pend : \A n \in DOMAIN index : index[n].id = d.id => index[n].kept = d.kept
  /\ \A c \in Session : pc[c] \in Reader => Says(run[c].held)
  /\ \A k \in Change : apply[k].at \in Rereader => Says(apply[k].held)

(* The same after a step.                                                  *)
LEMMA LoneThen ==
  ASSUME Apart', \A d, e \in pend' : d = e, \A d \in pend' : MetThen(d.id),
         \A d \in pend' : \A n \in DOMAIN index' : index'[n].id = d.id => index'[n].kept = d.kept,
         \A c \in Session : pc'[c] \in Reader => SaysThen(run'[c].held),
         \A k \in Change : apply'[k].at \in Rereader => SaysThen(apply'[k].held)
  PROVE  Lone'
  BY DEF Lone, Says, SaysThen, Range, Reader, Rereader, Met, MetThen, Passed, PassedThen, Ids

(* Every step watches who writes the totals.                               *)
LEMMA Watched ==
  ASSUME Next PROVE Watch
  BY DEF Next, SessionStep, Begin, TakeToken, Spawn, Batch, Tag, Count, EndFind, Snapshot, Hash, Promote, Recount,
         Store, CountUnits, InsertUnits, End, Close, ApplyStep, SetSettings, Recalculate, Publish, Reapply,
         Rewrite, Reread, Retotal, Stop, Decide, Total

(* Where there is at most one, any two are the same.                       *)
LEMMA AtMostOne ==
  ASSUME NEW S, IsFiniteSet(S), ~(Cardinality(S) > 1) PROVE \A d, e \in S : d = e
<1> SUFFICES ASSUME NEW d \in S, NEW e \in S, d # e PROVE FALSE
  OBVIOUS
<1>1. Cardinality({d, e}) = 2 /\ IsFiniteSet({d, e})
  <2>1. IsFiniteSet({e}) /\ Cardinality({e}) = 1
    BY FS_Singleton
  <2>2. Cardinality({e} \cup {d}) = 2 /\ IsFiniteSet({e} \cup {d})
    BY <2>1, FS_AddElement
  <2>3. {d, e} = {e} \cup {d}
    OBVIOUS
  <2> QED BY <2>2, <2>3
<1>2. {d, e} \subseteq S
  OBVIOUS
<1>3. Cardinality({d, e}) <= Cardinality(S) /\ Cardinality(S) \in Nat
  BY <1>2, FS_Subset, FS_CardinalityType
<1> QED BY <1>1, <1>3

(* What a step that leaves the totals to one thread says of it.            *)
LEMMA WatchedOver ==
  ASSUME Typed', Next, ~muddled'
  PROVE  /\ ~muddled /\ Apart' /\ \A d, e \in pend' : d = e
         /\ \A d \in pend' : d \in pend \/ (~Writes(d.id) /\ ~Counts(d.id))
<1>1. /\ ~muddled
      /\ ~(\E k \in Change : Works(k)' /\ \/ \E c \in Session : Busy(c)'
                                          \/ \E other \in Change \ {k} : Works(other)')
      /\ ~(Cardinality(pend') > 1)
      /\ ~(\E d \in pend' \ pend : Writes(d.id) \/ Counts(d.id))
  BY Watched DEF Watch
<1>2. IsFiniteSet(pend')
  BY DEF Typed, Fitting
<1>3. \A d, e \in pend' : d = e
  BY <1>1, <1>2, AtMostOne
<1>4. Apart'
  BY <1>1 DEF Apart
<1> QED BY <1>1, <1>3, <1>4

(* What the index says of who is kept does not change: a record keeps what
   it says, or is one of an id that never had any.                         *)
KeptSame ==
  /\ \A n \in DOMAIN index' :
       \/ n \in DOMAIN index /\ index'[n].id = index[n].id /\ index'[n].kept = index[n].kept
       \/ ~Met(index'[n].id)
  /\ \A i : Met(i) => MetThen(i)

Reads(d) == pc'[d] \in Reader => pc[d] \in Reader /\ run'[d].held = run[d].held
Rereads(k) == apply'[k].at \in Rereader => apply'[k] = apply[k]

(* What keeps the copies in agreement with who is kept.                    *)
LEMMA LoneKeep ==
  ASSUME Lone, Traced, KeptSame, pend' \subseteq pend, Apart',
         \A d \in Session : Reads(d) \/ SaysThen(run'[d].held),
         \A k \in Change : Rereads(k) \/ SaysThen(apply'[k].held)
  PROVE  Lone'
<1>0. \A r : <<r.path, r.id>> \in Listing => Met(r.id)
  BY DEF Listing, Met, Ids
<1>1. ASSUME NEW recs, Says(recs), \A r \in Range(recs) : Met(r.id) PROVE SaysThen(recs)
  BY <1>1 DEF Says, SaysThen, KeptSame
<1>2. ASSUME NEW d \in Session, pc'[d] \in Reader PROVE SaysThen(run'[d].held)
  <2>1. pc[d] \in Reader => Says(run[d].held) /\ \A r \in Range(run[d].held) : Met(r.id)
    BY <1>0 DEF Lone, Traced, Reader
  <2> QED BY <1>1, <1>2, <2>1 DEF Reads
<1>3. ASSUME NEW k \in Change, apply'[k].at \in Rereader PROVE SaysThen(apply'[k].held)
  <2>1. apply[k].at \in Rereader => Says(apply[k].held) /\ \A r \in Range(apply[k].held) : Met(r.id)
    BY <1>0 DEF Lone, Traced, Rereader
  <2> QED BY <1>1, <1>3, <2>1 DEF Rereads
<1>4. \A d, e \in pend' : d = e
  BY DEF Lone
<1>5. \A d \in pend' : MetThen(d.id)
  BY DEF Lone, KeptSame
<1>6. \A d \in pend' : \A n \in DOMAIN index' : index'[n].id = d.id => index'[n].kept = d.kept
  BY DEF Lone, KeptSame
<1> QED BY <1>2, <1>3, <1>4, <1>5, <1>6, LoneThen

(* Copies that were read from records of the index.                        *)
LEMMA SaysRead ==
  ASSUME Distinct(index), NEW recs,
         \A r \in Range(recs) : \E h \in Range(index) : h.id = r.id /\ h.kept = r.kept
  PROVE  Says(recs)
<1>1. ASSUME NEW n \in DOMAIN index, NEW r \in Range(recs), r.id = index[n].id PROVE index[n].kept = r.kept
  <2>1. PICK m \in DOMAIN index : index[m].id = r.id /\ index[m].kept = r.kept
    BY DEF Range
  <2> QED BY <1>1, <2>1 DEF Distinct
<1> QED BY <1>1 DEF Says

(* Copies that agree leave who is kept as it is when they are written back.*)
LEMMA SaysWritten ==
  ASSUME InPlace, NEW recs, NEW read, Says(read),
         \A r \in Range(recs) : \E h \in Range(read) : h.id = r.id /\ h.kept = r.kept,
         \A n \in DOMAIN index : index'[n] = index[n] \/ index'[n] \in Range(recs)
  PROVE  KeptSame
<1>1. ASSUME NEW n \in DOMAIN index, index'[n] \in Range(recs) PROVE index'[n].kept = index[n].kept
  <2>1. PICK h \in Range(read) : h.id = index'[n].id /\ h.kept = index'[n].kept
    BY <1>1
  <2>2. h.id = index[n].id
    BY <2>1 DEF InPlace
  <2> QED BY <2>1, <2>2 DEF Says
<1> QED BY <1>1, InPlaceListing DEF InPlace, KeptSame

(* So does a step that does not touch the index,                           *)
LEMMA KeptUnmoved == ASSUME index' = index PROVE KeptSame
  BY Unmoved, InPlaceListing DEF KeptSame

(* and one that adds records with new ids.                                 *)
LEMMA KeptGrows == ASSUME NEW new, Grows(new), Lasts PROVE KeptSame
<1>1. \A n \in DOMAIN index' : index'[n] \in Range(new) => ~Met(index'[n].id)
  BY DEF Grows
<1>2. \A n \in DOMAIN index' : (n \in DOMAIN index /\ index'[n] = index[n]) \/ index'[n] \in Range(new)
  BY DEF Grows
<1> QED BY <1>1, <1>2 DEF KeptSame, Lasts

(* The others have not begun or have nothing to do.                        *)
LEMMA OthersRead ==
  ASSUME NEW c \in Session, Typed, FirstScan', SessionStep(c)
  PROVE  /\ \A d \in Session \ {c} : Reads(d)
         /\ \A k \in Change : Rereads(k)
<1>1. (\A d \in Session \ {c} : pc'[d] = "new") /\ apply' = apply
  BY Alone
<1> QED BY <1>1 DEF Reads, Rereads, Reader

-----------------------------------------------------------------------------
(* Copies: the steps that touch neither records nor copies.                *)
LEMMA LoneQuiet ==
  ASSUME NEW c \in Session, Typed, FirstScan', Traced, Lone, Apart',
         \/ Begin(c) \/ TakeToken(c) \/ Spawn(c) \/ Count(c) \/ EndFind(c) \/ Recount(c) \/ Store(c)
         \/ CountUnits(c) \/ End(c)
  PROVE  Lone'
<1>1. /\ SessionStep(c) /\ index' = index /\ pend' = pend /\ pc'[c] \notin Reader
  <2>1. pc \in [Session -> Places]
    BY DEF Typed, TypeOK
  <2> USE DEF user, Goto, data, Reader
  <2>2. CASE Begin(c) \/ TakeToken(c) \/ Spawn(c) \/ Count(c)
    BY <2>1, <2>2 DEF SessionStep, Begin, TakeToken, Spawn, Count
  <2>3. CASE EndFind(c) \/ Recount(c) \/ Store(c)
    BY <2>1, <2>3 DEF SessionStep, EndFind, Recount, Store
  <2>4. CASE CountUnits(c)
    BY <2>1, <2>4 DEF SessionStep, CountUnits
  <2>5. CASE End(c)
    BY <2>1, <2>5 DEF SessionStep, End, Close
  <2> QED BY <2>2, <2>3, <2>4, <2>5
<1>2. KeptSame /\ Reads(c)
  BY <1>1, KeptUnmoved DEF Reads
<1> QED BY <1>1, <1>2, OthersRead, LoneKeep

(* Copies: the steps that add records.                                     *)
LEMMA LoneGrows ==
  ASSUME NEW c \in Session, Typed, Typed', FirstScan', Rows, Traced, Lone, Apart', Batch(c) \/ InsertUnits(c)
  PROVE  Lone'
<1>1. pend' = pend /\ SessionStep(c)
  BY DEF SessionStep, Batch, InsertUnits, user
<1>2. CASE Batch(c)
  <2>1. /\ Grows(run'[c].held) /\ Lasts /\ \A r \in Range(run'[c].held) : ~r.kept
        /\ index' \in Seq(Records) /\ run'[c].held \in Seq(Records)
        /\ \A n \in DOMAIN index : index'[n] = index[n]
    BY <1>2, BatchRows DEF Typed, TypeOK
  <2>2. KeptSame
    BY <2>1, KeptGrows
  <2>3. SaysThen(run'[c].held)
    <3> SUFFICES ASSUME NEW n \in DOMAIN index', NEW r \in Range(run'[c].held), r.id = index'[n].id
                 PROVE  index'[n].kept = r.kept
      BY DEF SaysThen
    <3>1. n \notin DOMAIN index
      BY <2>1 DEF Grows, Met, Ids
    <3>2. index'[n] \in Range(run'[c].held)
      BY <2>1, <3>1 DEF Grows
    <3>3. index'[n] \in Records /\ r \in Records
      <4>1. Range(run'[c].held) \subseteq Records
        BY <2>1, RangeOf
      <4> QED BY <3>2, <4>1
    <3>4. ~index'[n].kept /\ ~r.kept
      BY <2>1, <3>2
    <3> QED BY <3>3, <3>4 DEF Records
  <2> QED BY <1>1, <2>2, <2>3, OthersRead, LoneKeep
<1>3. CASE InsertUnits(c)
  <2>1. Grows(run[c].held) /\ Lasts /\ pc'[c] = "units"
    BY <1>3, InsertUnitsRows
  <2>2. KeptSame /\ Reads(c)
    BY <2>1, KeptGrows DEF Reads, Reader
  <2> QED BY <1>1, <2>2, OthersRead, LoneKeep
<1> QED BY <1>2, <1>3

(* Copies: the steps that write copies back.                               *)
LEMMA LoneWrites ==
  ASSUME NEW c \in Session, Typed, Typed', FirstScan', Rows, Traced, Lone, Apart', Tag(c) \/ Promote(c)
  PROVE  Lone'
<1>1. pend' = pend /\ SessionStep(c) /\ pc \in [Session -> Places]
  BY DEF SessionStep, Tag, Promote, user, Typed, TypeOK
<1>2. CASE Tag(c)
  <2>1. pc[c] = "tag" /\ pc'[c] = "count" /\ run' = run
    BY <1>1, <1>2 DEF Tag, At, Goto
  <2>2. InPlace /\ \A n \in DOMAIN index : index'[n] = index[n] \/ index'[n] \in Range(Tagged(c))
    BY <1>2, TagRows
  <2>3. Says(run[c].held) /\ \A r \in Range(Tagged(c)) : \E h \in Range(run[c].held) : h.id = r.id /\ h.kept = r.kept
    BY <2>1, TaggedAre DEF Lone, Reader
  <2>4. KeptSame
    BY <2>2, <2>3, SaysWritten
  <2>5. Reads(c)
    BY <2>1 DEF Reads, Reader
  <2> QED BY <1>1, <2>4, <2>5, OthersRead, LoneKeep
<1>3. CASE Promote(c)
  <2>1. pc[c] = "promote" /\ pc'[c] = "recount"
    BY <1>1, <1>3 DEF Promote, At, Goto
  <2>2. InPlace /\ \A n \in DOMAIN index : index'[n] = index[n] \/ index'[n] \in Range(run[c].held)
    BY <1>3, PromoteRows
  <2>3. Says(run[c].held)
    BY <2>1 DEF Lone, Reader
  <2>4. KeptSame
    BY <2>2, <2>3, SaysWritten
  <2>5. Reads(c)
    BY <2>1 DEF Reads, Reader
  <2> QED BY <1>1, <2>4, <2>5, OthersRead, LoneKeep
<1> QED BY <1>2, <1>3

(* Copies: the steps that read the index.                                  *)
LEMMA LoneReads ==
  ASSUME NEW c \in Session, Typed, Typed', FirstScan', Rows, Traced, Lone, Apart', Snapshot(c) \/ Hash(c)
  PROVE  Lone'
<1>1. /\ pend' = pend /\ SessionStep(c) /\ index' = index /\ KeptSame
      /\ pc \in [Session -> Places] /\ run \in [Session -> Runs]
  BY KeptUnmoved DEF SessionStep, Snapshot, Hash, user, data, Typed, TypeOK
<1>2. CASE Snapshot(c)
  <2>1. pc'[c] \in {"units", "hash"}
    BY <1>1, <1>2 DEF Snapshot, Goto
  <2>2. pc'[c] = "hash" => \A r \in Range(run'[c].held) : r \in Range(index)
    BY <1>2, SnapshotRows
  <2>3. Distinct(index)
    BY DEF Rows
  <2>4. pc'[c] = "hash" => SaysThen(run'[c].held)
    <3>1. pc'[c] = "hash" => Says(run'[c].held)
      BY <2>2, <2>3, SaysRead
    <3> QED BY <1>1, <3>1 DEF Says, SaysThen
  <2>5. Reads(c) \/ SaysThen(run'[c].held)
    BY <2>1, <2>4 DEF Reads, Reader
  <2> QED BY <1>1, <2>5, OthersRead, LoneKeep
<1>3. CASE Hash(c)
  <2>1. pc[c] = "hash" /\ run[c].held \in Seq(Records)
    BY <1>1, <1>3 DEF Hash, At, Runs
  <2>2. Says(run[c].held)
    BY <2>1 DEF Lone, Reader
  <2>3. \/ Goto(c, "units")
        \/ \E marked \in SUBSET Groups :
             run' = [run EXCEPT ![c].marked = marked, ![c].held = SetToSeq(Promotable(run[c].held, marked))]
    BY <1>3, HashMarks
  <2>4. ASSUME NEW marked \in SUBSET Groups,
               run' = [run EXCEPT ![c].marked = marked, ![c].held = SetToSeq(Promotable(run[c].held, marked))]
        PROVE  SaysThen(run'[c].held)
    <3>1. run'[c].held = SetToSeq(Promotable(run[c].held, marked))
      BY <1>1, <2>4 DEF Runs
    <3>2. \A r \in Range(run'[c].held) : r \in Promotable(run[c].held, marked)
      BY <2>1, <3>1, PromotableIn
    <3>3. ASSUME NEW r \in Range(run'[c].held) PROVE \E h \in Range(run[c].held) : h.id = r.id /\ h.kept = r.kept
      BY <2>1, <3>2, PromotableFrom
    <3> QED BY <1>1, <2>2, <3>3 DEF Says, SaysThen
  <2>5. Goto(c, "units") => Reads(c)
    BY <1>1 DEF Goto, Reads, Reader
  <2> QED BY <1>1, <2>3, <2>4, <2>5, OthersRead, LoneKeep
<1> QED BY <1>2, <1>3

(* Copies: the steps of a change.                                          *)
LEMMA LoneApply ==
  ASSUME NEW k \in Change, Typed, Typed', Rows, Traced, Sound, Lone, Apart', ApplyStep(k)
  PROVE  Lone'
<1>1. /\ pend' = pend /\ pc' = pc /\ run' = run /\ apply \in [Change -> Applies]
      /\ index \in Seq(Records) /\ Distinct(index)
  BY DEF ApplyStep, SetSettings, Recalculate, Publish, Reapply, Rewrite, Reread, Retotal, user, Typed, TypeOK, Rows
<1>2. \A d \in Session : Reads(d)
  BY <1>1 DEF Reads
<1>3. CASE SetSettings(k) \/ Publish(k) \/ Retotal(k) \/ Recalculate(k)
  <2>1. apply'[k].at \notin Rereader /\ \A l \in Change \ {k} : apply'[l] = apply[l]
    BY <1>1, <1>3 DEF SetSettings, Publish, Retotal, Recalculate, Still, Advance, Applies, Rereader
  <2>2. KeptSame
    <3>1. CASE Recalculate(k)
      BY <3>1, RecalculateRows, InPlaceListing DEF InPlace, KeptSame
    <3>2. CASE SetSettings(k) \/ Publish(k) \/ Retotal(k)
      BY <3>2, KeptUnmoved DEF SetSettings, Publish, Retotal, data
    <3> QED BY <1>3, <3>1, <3>2
  <2>3. \A l \in Change : Rereads(l)
    BY <2>1 DEF Rereads
  <2> QED BY <1>1, <1>2, <2>2, <2>3, LoneKeep
<1>4. CASE Rewrite(k)
  <2>1. apply[k].at = "write" /\ apply'[k].at = "read" /\ \A l \in Change \ {k} : apply'[l] = apply[l]
    BY <1>1, <1>4 DEF Rewrite, Applying, Advance, Applies
  <2>2. \A l \in Change : Rereads(l)
    BY <2>1 DEF Rereads, Rereader
  <2>3. Says(apply[k].held)
    BY <2>1 DEF Lone, Rereader
  <2>4. InPlace /\ \A n \in DOMAIN index : index'[n] = index[n] \/ index'[n] \in Range(apply[k].held)
    BY <1>4, RewriteRows
  <2>5. KeptSame
    BY <2>3, <2>4, SaysWritten
  <2> QED BY <1>1, <1>2, <2>2, <2>5, LoneKeep
<1>5. CASE Reapply(k) \/ Reread(k)
  <2>1. index' = index /\ \A l \in Change \ {k} : apply'[l] = apply[l]
    BY <1>1, <1>5 DEF Reapply, Reread, Advance, Applies, data
  <2>2. ASSUME NEW r \in Range(apply'[k].held) PROVE \E h \in Range(index) : h.id = r.id /\ h.kept = r.kept
    <3>1. CASE Reapply(k)
      <4>1. r \in Promotable(index, dup)
        BY <2>2, <3>1, ReapplyRows
      <4> QED BY <1>1, <4>1, PromotableFrom
    <3>2. CASE Reread(k)
      <4>1. apply'[k].held = index
        BY <1>1, <3>2 DEF Reread, Advance, Applies
      <4> QED BY <2>2, <4>1
    <3> QED BY <1>5, <3>1, <3>2
  <2>3. Says(apply'[k].held)
    BY <1>1, <2>2, SaysRead
  <2>4. SaysThen(apply'[k].held)
    BY <2>1, <2>3 DEF Says, SaysThen
  <2>5. \A l \in Change : Rereads(l) \/ SaysThen(apply'[l].held)
    BY <2>1, <2>4 DEF Rereads
  <2>6. KeptSame
    BY <2>1, KeptUnmoved
  <2> QED BY <1>1, <1>2, <2>5, <2>6, LoneKeep
<1> QED BY <1>3, <1>4, <1>5 DEF ApplyStep

-----------------------------------------------------------------------------
(* A decision is the only one on its way to the totals. It repeats that one
   or is about an id that no thread holds.                                 *)
LEMMA DecideShape ==
  ASSUME Typed, Lone, Decide, \A d, e \in pend' : d = e,
         \A d \in pend' : d \in pend \/ (~Writes(d.id) /\ ~Counts(d.id))
  PROVE  \E i \in Ids(index), kept \in BOOLEAN :
           /\ index' = Decided(i, kept)
           /\ \A d \in pend' : d.id = i /\ d.kept = kept
           /\ \E d \in pend' : d.id = i
           /\ \A d \in pend : d.id = i
           /\ index' = index \/ (~Writes(i) /\ ~Counts(i))
<1>1. PICK i \in Ids(index), kept \in BOOLEAN :
        /\ index' = Decided(i, kept)
        /\ pend' = pend \cup {[id |-> i, kept |-> kept]}
  BY DEF Decide
<1> DEFINE d == [id |-> i, kept |-> kept]
<1>2. d \in pend' /\ d.id = i /\ d.kept = kept /\ pend \subseteq pend'
  BY <1>1
<1> HIDE DEF d
<1>3. \A e \in pend' : e = d
  BY <1>2
<1>4. CASE d \in pend
  <2>1. \A n \in DOMAIN index : index[n].id = i => index[n].kept = kept
    BY <1>2, <1>4 DEF Lone
  <2>2. index \in Seq(Records) /\ \A n \in DOMAIN index : index[n] \in Records
    BY DEF Typed, TypeOK
  <2>3. \A n \in DOMAIN index : index[n].id = i => [index[n] EXCEPT !.kept = kept] = index[n]
    BY <2>1, <2>2 DEF Records
  <2>4. Decided(i, kept) = [n \in DOMAIN index |-> index[n]]
    BY <2>3 DEF Decided
  <2>5. index' = index
    BY <1>1, <2>2, <2>4
  <2> QED BY <1>1, <1>2, <1>3, <2>5
<1>5. CASE d \notin pend
  BY <1>1, <1>2, <1>3, <1>5
<1> QED BY <1>4, <1>5

(* What a decision makes of the records.                                   *)
LEMMA DecidedIs ==
  ASSUME Typed, NEW i \in Ids(index), NEW kept \in BOOLEAN, index' = Decided(i, kept)
  PROVE  /\ DOMAIN index' = DOMAIN index
         /\ \A n \in DOMAIN index :
              /\ index'[n].id = index[n].id /\ index'[n].path = index[n].path /\ index'[n].cat = index[n].cat
              /\ index[n].id = i => index'[n].kept = kept
              /\ index[n].id # i => index'[n] = index[n]
<1>1. \A n \in DOMAIN index : index[n] \in Records
  BY DEF Typed, TypeOK
<1> QED BY <1>1 DEF Decided, Records

(* Copies: a decision.                                                     *)
LEMMA LoneDecide ==
  ASSUME Typed, Typed', Rows, Traced, Lone, Decide, Apart', \A d, e \in pend' : d = e,
         \A d \in pend' : d \in pend \/ (~Writes(d.id) /\ ~Counts(d.id))
  PROVE  Lone'
<1>1. PICK i \in Ids(index), kept \in BOOLEAN :
        /\ index' = Decided(i, kept)
        /\ \A d \in pend' : d.id = i /\ d.kept = kept
        /\ index' = index \/ (~Writes(i) /\ ~Counts(i))
  BY DecideShape
<1>2. /\ DOMAIN index' = DOMAIN index
      /\ \A n \in DOMAIN index :
           /\ index'[n].id = index[n].id
           /\ index[n].id = i => index'[n].kept = kept
           /\ index[n].id # i => index'[n] = index[n]
  BY <1>1, DecidedIs
<1>3. pc' = pc /\ run' = run /\ apply' = apply
  BY DEF Decide
<1>4. ASSUME NEW recs, Says(recs), i \in Ids(recs) => Writes(i) \/ Counts(i) PROVE SaysThen(recs)
  <2>1. CASE index' = index
    BY <1>4, <2>1 DEF Says, SaysThen
  <2>2. CASE i \notin Ids(recs)
    <3>1. \A r \in Range(recs) : r.id # i
      BY <2>2 DEF Ids, Range
    <3> QED BY <1>2, <1>4, <3>1 DEF Says, SaysThen
  <2> QED BY <1>1, <1>4, <2>1, <2>2
<1>5. ASSUME NEW d \in Session, pc'[d] \in Reader PROVE SaysThen(run'[d].held)
  <2>1. Says(run[d].held)
    BY <1>3, <1>5 DEF Lone
  <2>2. i \in Ids(run[d].held) => Writes(i) \/ Counts(i)
    BY <1>3, <1>5 DEF Writes, Counts, Reader, At
  <2> QED BY <1>3, <1>4, <2>1, <2>2
<1>6. ASSUME NEW k \in Change, apply'[k].at \in Rereader PROVE SaysThen(apply'[k].held)
  <2>1. Says(apply[k].held)
    BY <1>3, <1>6 DEF Lone
  <2>2. i \in Ids(apply[k].held) => Writes(i) \/ Counts(i)
    BY <1>3, <1>6 DEF Writes, Counts, Rereader, Applying
  <2> QED BY <1>3, <1>4, <2>1, <2>2
<1>7. \A d \in pend' : MetThen(d.id)
  BY <1>1, <1>2 DEF MetThen, Ids
<1>8. \A d \in pend' : \A n \in DOMAIN index' : index'[n].id = d.id => index'[n].kept = d.kept
  BY <1>1, <1>2
<1> QED BY <1>5, <1>6, <1>7, <1>8, LoneThen

(* Copies: the steps that leave the index alone.                           *)
LEMMA LoneIdle ==
  ASSUME Traced, Lone, Apart', Stop \/ Total PROVE Lone'
<1>1. pc' = pc /\ run' = run /\ apply' = apply /\ index' = index /\ pend' \subseteq pend
  BY DEF Stop, Total, data, user
<1>2. KeptSame /\ (\A d \in Session : Reads(d)) /\ (\A k \in Change : Rereads(k))
  BY <1>1, KeptUnmoved DEF Reads, Rereads
<1> QED BY <1>1, <1>2, LoneKeep

(* Every step that leaves the totals to one thread keeps this.             *)
LEMMA LoneNext ==
  ASSUME Typed, Typed', FirstScan', Rows, Traced, Sound, Lone, Next, ~muddled'
  PROVE  Lone'
<1>1. Apart' /\ (\A d, e \in pend' : d = e) /\ \A d \in pend' : d \in pend \/ (~Writes(d.id) /\ ~Counts(d.id))
  BY WatchedOver
<1>2. ASSUME NEW c \in Session, SessionStep(c) PROVE Lone'
  BY <1>1, <1>2, LoneQuiet, LoneGrows, LoneWrites, LoneReads DEF SessionStep
<1> QED BY <1>1, <1>2, LoneApply, LoneDecide, LoneIdle DEF Next

-----------------------------------------------------------------------------
(* What the totals say of an id: that a detector claims it, and whether it
   is kept, unless a decision about it is on its way. They say nothing of a
   unit that has been replaced.                                            *)
Claimed(i) == \E n \in DOMAIN index : index[n].id = i /\ index[n].cat # "none"

Agrees(i) ==
  ~Passed(i) =>
    /\ live[i].cats # {} <=> Claimed(i)
    /\ live[i].cats # {} => \A n \in DOMAIN index :
         index[n].id = i => live[i].kept = index[n].kept \/ \E d \in pend : d.id = i

AgreesThen(i) ==
  ~PassedThen(i) =>
    /\ live'[i].cats # {} <=> \E n \in DOMAIN index' : index'[n].id = i /\ index'[n].cat # "none"
    /\ live'[i].cats # {} => \A n \in DOMAIN index' :
         index'[n].id = i => live'[i].kept = index'[n].kept \/ \E d \in pend' : d.id = i

(* Where a session has counted what the index has not yet, or not counted
   what it has.                                                            *)
Uncounted == {"count", "recount", "units in"}

(* The totals follow the index, except for what a thread is about to count.*)
Counted ==
  /\ (/\ \A k \in Change : apply[k].at \in {"new", "done", "recalculate"}
      /\ \A c \in Session : pc[c] \notin Uncounted) => \A i \in Id : Agrees(i)
  /\ \A k \in Change : apply[k].at = "totals" => apply[k].held = index
  /\ \A c \in Session : pc[c] \in {"count", "units in"} => \A i \in Id : i \in Ids(run[c].held) \/ Agrees(i)
  /\ \A c \in Session : pc[c] = "count" => \A r \in Range(run[c].held) :
       /\ live[r.id].cats = {}
       /\ \A n \in DOMAIN index : index[n].id = r.id => index[n].cat = Verdict(run[c].farm, r.path)
  /\ \A c \in Session : pc[c] = "tag" => \A r \in Range(run[c].held) :
       \A n \in DOMAIN index : index[n].id = r.id => index[n].cat = "none"
  /\ \A c \in Session : pc[c] = "units in" => \A r \in Range(run[c].held) :
       live[r.id].cats # {} /\ ~live[r.id].kept
  /\ \A c \in Session : pc[c] = "recount" => \A i \in Id : live[i].cats # {} => Claimed(i)

(* The same after a step of the one session that has begun.                *)
CountedThen(c) ==
  /\ pc'[c] \notin Uncounted => \A i \in Id : AgreesThen(i)
  /\ pc'[c] \in {"count", "units in"} => \A i \in Id : i \in Ids(run'[c].held) \/ AgreesThen(i)
  /\ pc'[c] = "count" => \A r \in Range(run'[c].held) :
       /\ live'[r.id].cats = {}
       /\ \A n \in DOMAIN index' : index'[n].id = r.id => index'[n].cat = Verdict(run'[c].farm, r.path)
  /\ pc'[c] = "tag" => \A r \in Range(run'[c].held) :
       \A n \in DOMAIN index' : index'[n].id = r.id => index'[n].cat = "none"
  /\ pc'[c] = "units in" => \A r \in Range(run'[c].held) : live'[r.id].cats # {} /\ ~live'[r.id].kept
  /\ pc'[c] = "recount" => \A i \in Id : live'[i].cats # {} =>
       \E n \in DOMAIN index' : index'[n].id = i /\ index'[n].cat # "none"

(* A session works while no change does.                                   *)
LEMMA SessionAlone ==
  ASSUME NEW c \in Session, Typed, FirstScan', SessionStep(c), Lone, Apart'
  PROVE  /\ apply' = apply /\ \A k \in Change : apply[k].at \in {"new", "done"}
         /\ \A d \in Session \ {c} : pc[d] = "new" /\ pc'[d] = "new"
<1>1. /\ apply' = apply /\ \A d \in Session \ {c} : pc[d] = "new" /\ pc'[d] = "new"
      /\ pc \in [Session -> Places]
  BY Alone
<1>2. Busy(c) \/ pc'[c] = "token"
  <2>1. CASE Begin(c)
    BY <1>1, <2>1 DEF Begin, Goto
  <2>2. CASE ~Begin(c)
    <3> USE DEF At, Busy, Idle
    <3>1. CASE TakeToken(c) \/ Spawn(c) \/ Batch(c) \/ Tag(c) \/ Count(c) \/ EndFind(c) \/ Snapshot(c)
      BY <3>1 DEF TakeToken, Spawn, Batch, Tag, Count, EndFind, Snapshot
    <3>2. CASE Hash(c) \/ Promote(c) \/ Recount(c) \/ Store(c) \/ CountUnits(c) \/ InsertUnits(c) \/ End(c)
      BY <3>2 DEF Hash, Promote, Recount, Store, CountUnits, InsertUnits, End
    <3> QED BY <2>2, <3>1, <3>2 DEF SessionStep
  <2> QED BY <2>1, <2>2
<1>3. CASE Busy(c)
  BY <1>1, <1>3 DEF Lone, Apart, Works
<1>4. CASE pc'[c] = "token"
  <2>1. \A k \in Change : apply'[k].at \in {"new", "done"}
    BY <1>4 DEF Apart, Works, Busy, Idle
  <2> QED BY <1>1, <2>1
<1> QED BY <1>1, <1>2, <1>3, <1>4

(* What a session's step has to show.                                      *)
LEMMA CountedOwn ==
  ASSUME NEW c \in Session, Typed, FirstScan', SessionStep(c), Lone, Apart', CountedThen(c)
  PROVE  Counted'
<1>1. /\ apply' = apply /\ \A k \in Change : apply[k].at \in {"new", "done"}
      /\ \A d \in Session \ {c} : pc'[d] = "new"
  BY SessionAlone
<1>2. \A k \in Change : apply'[k].at # "totals"
  BY <1>1
<1>3. \A d \in Session : pc'[d] # "new" => d = c
  BY <1>1
<1>4. (\A d \in Session : pc'[d] \notin Uncounted) => \A i \in Id : AgreesThen(i)
  BY DEF CountedThen
<1>5. \A d \in Session : pc'[d] \in {"count", "units in"} => \A i \in Id : i \in Ids(run'[d].held) \/ AgreesThen(i)
  BY <1>3 DEF CountedThen
<1>6. ASSUME NEW d \in Session, pc'[d] = "count", NEW r \in Range(run'[d].held)
      PROVE  /\ live'[r.id].cats = {}
             /\ \A n \in DOMAIN index' : index'[n].id = r.id => index'[n].cat = Verdict(run'[d].farm, r.path)
  <2>1. d = c
    BY <1>3, <1>6
  <2>2. pc'[c] = "count" /\ r \in Range(run'[c].held)
    BY <1>6, <2>1
  <2>3. /\ live'[r.id].cats = {}
        /\ \A n \in DOMAIN index' : index'[n].id = r.id => index'[n].cat = Verdict(run'[c].farm, r.path)
    BY <2>2 DEF CountedThen
  <2> QED BY <2>1, <2>3
<1>7. \A d \in Session : pc'[d] = "tag" => \A r \in Range(run'[d].held) :
       \A n \in DOMAIN index' : index'[n].id = r.id => index'[n].cat = "none"
  BY <1>3 DEF CountedThen
<1>8. \A d \in Session : pc'[d] = "units in" => \A r \in Range(run'[d].held) : live'[r.id].cats # {} /\ ~live'[r.id].kept
  BY <1>3 DEF CountedThen
<1>9. \A d \in Session : pc'[d] = "recount" => \A i \in Id : live'[i].cats # {} =>
       \E n \in DOMAIN index' : index'[n].id = i /\ index'[n].cat # "none"
  BY <1>3 DEF CountedThen
<1> QED BY <1>2, <1>4, <1>5, <1>6, <1>7, <1>8, <1>9 DEF Counted, Agrees, AgreesThen, Claimed, Passed, PassedThen, Ids, Range, Verdict

(* Between its counts a session finds the totals in agreement.             *)
LEMMA AgreedBefore ==
  ASSUME NEW c \in Session, Typed, FirstScan', SessionStep(c), Lone, Apart', Counted
  PROVE  pc[c] \notin Uncounted => \A i \in Id : Agrees(i)
<1>1. /\ \A k \in Change : apply[k].at \in {"new", "done"}
      /\ \A d \in Session \ {c} : pc[d] = "new"
  BY SessionAlone
<1>2. pc[c] \notin Uncounted => \A d \in Session : pc[d] \notin Uncounted
  BY <1>1 DEF Uncounted
<1> QED BY <1>1, <1>2 DEF Counted

(* While a session looks for files and groups them no unit is replaced.    *)
LEMMA NonePassed ==
  ASSUME NEW c \in Session, Rows, pc[c] \in Finding \cup Grouping
  PROVE  \A i : ~Passed(i)
<1>1. \A n \in DOMAIN index : index[n].path \in Path
  BY DEF Rows
<1> SUFFICES ASSUME NEW i \in Unit, NEW n \in DOMAIN index, index[n].path = Lies[i] PROVE FALSE
  BY DEF Passed
<1>2. Lies[i] \in Folder
  BY ConstantsOK
<1> QED BY <1>1, <1>2, ConstantsOK

(* What keeps an id in agreement.                                          *)
LEMMA AgreeKeep ==
  ASSUME NEW i, Agrees(i), Passed(i) => PassedThen(i), live'[i] = live[i], pend' = pend,
         \A n \in DOMAIN index : index[n].id = i =>
           /\ n \in DOMAIN index' /\ index'[n].id = i
           /\ index'[n].kept = index[n].kept
           /\ index'[n].cat = "none" <=> index[n].cat = "none",
         \A n \in DOMAIN index' : index'[n].id = i => n \in DOMAIN index /\ index[n].id = i
  PROVE  AgreesThen(i)
  BY DEF Agrees, AgreesThen, Claimed

(* What counting primary categories makes of an id: nothing, or a claim.   *)
LEMMA PrimaryIs ==
  ASSUME NEW totals, NEW recs \in Seq(Records), NEW i \in Id
  PROVE  LET out == IngestPrimary(totals, recs) IN
         /\ (\A k \in DOMAIN recs : recs[k].id = i => recs[k].cat = "none") => out[i] = totals[i]
         /\ (\E k \in DOMAIN recs : recs[k].id = i /\ recs[k].cat # "none") =>
              /\ out[i].cats # {}
              /\ \E k \in DOMAIN recs : recs[k].id = i /\ out[i].kept = recs[k].kept
<1> DEFINE own == {k \in DOMAIN recs : recs[k].id = i /\ recs[k].cat # "none"}
           cats == totals[i].cats \cup {recs[k].cat : k \in own}
<1>1. IngestPrimary(totals, recs)[i] =
        IF own = {} THEN totals[i] ELSE [cats |-> cats, kept |-> recs[Max(own)].kept]
  BY DEF IngestPrimary
<1>2. own # {} => Max(own) \in own
  <2>1. Len(recs) \in Nat /\ own \subseteq 1 .. Len(recs)
    OBVIOUS
  <2> HIDE DEF own
  <2> QED BY <2>1, MaxIn
<1>3. CASE own = {}
  BY <1>1, <1>3
<1>4. CASE own # {}
  <2>1. PICK k \in own : TRUE
    BY <1>4
  <2>2. recs[k].cat \in cats
    OBVIOUS
  <2>3. Max(own) \in DOMAIN recs /\ recs[Max(own)].id = i
    BY <1>2, <1>4
  <2> HIDE DEF own, cats
  <2>4. IngestPrimary(totals, recs)[i].cats # {} /\ IngestPrimary(totals, recs)[i].kept = recs[Max(own)].kept
    BY <1>1, <1>4, <2>2
  <2>5. \E j \in DOMAIN recs : recs[j].id = i /\ recs[j].cat # "none"
    BY <2>1 DEF own
  <2> QED BY <2>3, <2>4, <2>5
<1> QED BY <1>3, <1>4

(* What the records of an id say of its being kept.                         *)
KeptIn(recs, i) == {recs[l].kept : l \in {k \in DOMAIN recs : recs[k].id = i}}

(* A path has hits where its verdict is a category.                        *)
LEMMA HitsSaid ==
  ASSUME NEW recs \in Seq(Records), NEW s \in Setting, NEW k \in DOMAIN recs
  PROVE  /\ Hits[s][recs[k].path] \in Seq(Claim)
         /\ Hits[s][recs[k].path] # <<>> <=> Verdict(s, recs[k].path) # "none"
<1>1. recs[k] \in Records
  OBVIOUS
<1>2. recs[k].path \in Place
  BY <1>1 DEF Records
<1> QED BY <1>2, VerdictType

(* Counting hits leaves an id alone that has none,                         *)
LEMMA HitsNone ==
  ASSUME NEW totals, NEW recs \in Seq(Records), NEW i \in Id, NEW s \in Setting,
         \A k \in DOMAIN recs : recs[k].id = i => Verdict(s, recs[k].path) = "none"
  PROVE  IngestHits(totals, recs, s)[i] = totals[i]
<1> DEFINE own == {k \in DOMAIN recs : recs[k].id = i /\ Hits[s][recs[k].path] # <<>>}
           cats == totals[i].cats \cup UNION {Range(Hits[s][recs[k].path]) : k \in own}
<1>1. IngestHits(totals, recs, s)[i] =
        IF own = {} THEN totals[i] ELSE [cats |-> cats, kept |-> recs[Max(own)].kept]
  BY DEF IngestHits
<1>2. own = {}
  BY HitsSaid
<1> QED BY <1>1, <1>2

(* and claims the one that has some.                                       *)
LEMMA HitsCount ==
  ASSUME NEW totals, NEW recs \in Seq(Records), NEW i \in Id, NEW s \in Setting,
         NEW j \in DOMAIN recs, recs[j].id = i, Verdict(s, recs[j].path) # "none"
  PROVE  /\ IngestHits(totals, recs, s)[i].cats # {}
         /\ IngestHits(totals, recs, s)[i].kept \in KeptIn(recs, i)
<1> DEFINE own == {k \in DOMAIN recs : recs[k].id = i /\ Hits[s][recs[k].path] # <<>>}
           cats == totals[i].cats \cup UNION {Range(Hits[s][recs[k].path]) : k \in own}
<1>1. IngestHits(totals, recs, s)[i] =
        IF own = {} THEN totals[i] ELSE [cats |-> cats, kept |-> recs[Max(own)].kept]
  BY DEF IngestHits
<1>2. own # {} => Max(own) \in own
  <2>1. Len(recs) \in Nat /\ own \subseteq 1 .. Len(recs)
    OBVIOUS
  <2> HIDE DEF own
  <2> QED BY <2>1, MaxIn
<1>3. Hits[s][recs[j].path] \in Seq(Claim) /\ Hits[s][recs[j].path] # <<>>
  BY HitsSaid
<1>4. j \in own
  BY <1>3
<1>5. 1 \in DOMAIN Hits[s][recs[j].path]
  BY <1>3
<1>6. Hits[s][recs[j].path][1] \in Range(Hits[s][recs[j].path])
  BY <1>5 DEF Range
<1>7. Hits[s][recs[j].path][1] \in cats
  BY <1>4, <1>6
<1>8. Max(own) \in DOMAIN recs /\ recs[Max(own)].id = i
  BY <1>2, <1>4
<1> HIDE DEF own, cats
<1>9. IngestHits(totals, recs, s)[i].cats # {} /\ IngestHits(totals, recs, s)[i].kept = recs[Max(own)].kept
  BY <1>1, <1>4, <1>7
<1> QED BY <1>8, <1>9 DEF KeptIn

-----------------------------------------------------------------------------
(* A step that touches neither index nor totals.                           *)
LEMMA CountedSteady ==
  ASSUME NEW c \in Session, Typed, FirstScan', SessionStep(c), Lone, Apart', Counted,
         pc[c] \notin Uncounted, pc'[c] \notin Uncounted \cup {"tag"},
         index' = index, live' = live, pend' = pend
  PROVE  Counted'
<1>1. \A i \in Id : Agrees(i)
  BY AgreedBefore
<1>2. \A i \in Id : AgreesThen(i)
  BY <1>1, Unmoved, InPlaceListing DEF Agrees, AgreesThen, Claimed
<1>3. CountedThen(c)
  BY <1>2 DEF CountedThen, Uncounted
<1> QED BY <1>3, CountedOwn

(* Totals: the steps that touch neither records nor copies.                *)
LEMMA CountedQuiet ==
  ASSUME NEW c \in Session, Typed, FirstScan', Lone, Apart', Counted,
         Begin(c) \/ TakeToken(c) \/ EndFind(c) \/ Snapshot(c) \/ Hash(c) \/ Store(c) \/ End(c)
  PROVE  Counted'
<1>1. pc \in [Session -> Places] /\ SessionStep(c)
  BY DEF SessionStep, Typed, TypeOK
<1>2. /\ pc[c] \notin Uncounted /\ pc'[c] \notin Uncounted \cup {"tag"}
      /\ index' = index /\ live' = live /\ pend' = pend
  <2> USE <1>1 DEF user, Goto, data, Uncounted, At
  <2>1. CASE Begin(c) \/ TakeToken(c) \/ EndFind(c)
    BY <2>1 DEF Begin, TakeToken, EndFind
  <2>2. CASE Snapshot(c)
    BY <2>2 DEF Snapshot
  <2>3. CASE Hash(c)
    BY <2>3 DEF Hash
  <2>4. CASE Store(c)
    BY <2>4 DEF Store
  <2>5. CASE End(c)
    BY <2>5 DEF End, Close
  <2> QED BY <2>1, <2>2, <2>3, <2>4, <2>5
<1> QED BY <1>1, <1>2, CountedSteady

(* Totals: starting the thread.                                            *)
LEMMA CountedSpawn ==
  ASSUME NEW c \in Session, Typed, Typed', FirstScan', Rows, Lone, Apart', Counted, Spawn(c)
  PROVE  Counted'
<1>1. /\ pc \in [Session -> Places] /\ SessionStep(c) /\ pc[c] = "spawn" /\ index' = index /\ pend' = pend
      /\ \/ live' = live /\ pc'[c] = "end"
         \/ live' = Nothing /\ pc'[c] \in {"dead", "find"}
  BY DEF SessionStep, Typed, TypeOK, Spawn, At, Goto, user
<1>2. CASE live' = live /\ pc'[c] = "end"
  BY <1>1, <1>2, CountedSteady DEF Uncounted
<1>3. CASE live' = Nothing /\ pc'[c] \in {"dead", "find"}
  <2>1. index = <<>>
    BY <1>1, NothingYet DEF Starting
  <2>2. DOMAIN index' = {}
    BY <1>1, <2>1
  <2>3. \A i \in Id : live'[i].cats = {}
    BY <1>3 DEF Nothing, NoShare
  <2>4. \A i \in Id : AgreesThen(i)
    BY <2>2, <2>3 DEF AgreesThen
  <2>5. CountedThen(c)
    BY <1>3, <2>4 DEF CountedThen, Uncounted
  <2> QED BY <1>1, <2>5, CountedOwn
<1> QED BY <1>1, <1>2, <1>3

(* Totals: a batch of files.                                               *)
LEMMA CountedBatch ==
  ASSUME NEW c \in Session, Typed, Typed', FirstScan', Rows, Traced, Lone, Apart', Counted, Batch(c)
  PROVE  Counted'
<1>1. SessionStep(c) /\ pc[c] = "find" /\ live' = live /\ pend' = pend
  BY DEF SessionStep, Batch, At, user
<1>2. \A i \in Id : Agrees(i)
  BY <1>1, AgreedBefore DEF Uncounted
<1>3. /\ Grows(run'[c].held) /\ pc'[c] = "tag"
      /\ \A n \in DOMAIN index : index'[n] = index[n]
      /\ \A r \in Range(run'[c].held) : r.cat = "none"
      /\ \A i : ~Passed(i)
  BY <1>1, BatchRows, NonePassed DEF Finding
<1>4. /\ \A n \in DOMAIN index : n \in DOMAIN index' /\ index'[n] = index[n]
      /\ \A n \in DOMAIN index' : n \in DOMAIN index \/ (index'[n].id \notin Ids(index) /\ index'[n].cat = "none")
  BY <1>3 DEF Grows, Met
<1>5. ASSUME NEW i \in Id PROVE AgreesThen(i)
  <2>1. CASE i \in Ids(index)
    <3>1. \A n \in DOMAIN index' : index'[n].id = i => n \in DOMAIN index /\ index[n].id = i
      BY <1>4, <2>1
    <3> QED BY <1>1, <1>2, <1>3, <1>4, <3>1, AgreeKeep
  <2>2. CASE i \notin Ids(index)
    <3>1. live[i].cats = {}
      BY <1>2, <1>3, <2>2 DEF Agrees, Claimed, Ids
    <3>2. \A n \in DOMAIN index' : index'[n].id = i => index'[n].cat = "none"
      BY <1>4, <2>2 DEF Ids
    <3> QED BY <1>1, <3>1, <3>2 DEF AgreesThen
  <2> QED BY <2>1, <2>2
<1>6. \A r \in Range(run'[c].held) : \A n \in DOMAIN index' : index'[n].id = r.id => index'[n].cat = "none"
  <2>1. \A r \in Range(run'[c].held) : r.id \notin Ids(index)
    BY <1>3 DEF Grows, Met
  <2> QED BY <1>4, <2>1 DEF Ids
<1>7. CountedThen(c)
  BY <1>3, <1>5, <1>6 DEF CountedThen, Uncounted
<1> QED BY <1>1, <1>7, CountedOwn

(* Totals: categorize_batch.                                               *)
LEMMA CountedTag ==
  ASSUME NEW c \in Session, Typed, Typed', FirstScan', Rows, Traced, Lone, Apart', Counted, Tag(c)
  PROVE  Counted'
<1>1. SessionStep(c) /\ pc[c] = "tag" /\ pc'[c] = "count" /\ live' = live /\ pend' = pend /\ run' = run
  BY DEF SessionStep, Tag, At, Goto, user, Typed, TypeOK
<1>2. \A i \in Id : Agrees(i)
  BY <1>1, AgreedBefore DEF Uncounted
<1>3. /\ InPlace
      /\ \A n \in DOMAIN index :
           \/ index'[n] = index[n] /\ \A r \in Range(Tagged(c)) : r.path # index[n].path
           \/ index'[n] \in Range(Tagged(c))
      /\ \A i : ~Passed(i)
  BY <1>1, TagRows, NonePassed DEF Finding
<1>4. /\ \A r \in Range(Tagged(c)) : \E h \in Range(run[c].held) :
           r.path = h.path /\ r.id = h.id /\ r.cat = Verdict(run[c].farm, h.path)
      /\ \A h \in Range(run[c].held) : Verdict(run[c].farm, h.path) # "none" =>
           \E r \in Range(Tagged(c)) : r.path = h.path
  BY TaggedAre
<1> DEFINE held == run[c].held
           farm == run[c].farm
<1>5. \A h \in Range(held) : <<h.path, h.id>> \in Listing /\ h.id \in Id
  <2>1. held \in Seq(Records)
    BY DEF Typed, TypeOK, Runs
  <2>2. Range(held) \subseteq Records
    BY <2>1, RangeOf
  <2> QED BY <1>1, <2>2 DEF Traced, Records
<1>6. \A h \in Range(held) : \A n \in DOMAIN index : index[n].id = h.id => index[n].path = h.path /\ index[n].cat = "none"
  <2>1. ASSUME NEW h \in Range(held), NEW n \in DOMAIN index, index[n].id = h.id PROVE index[n].path = h.path
    <3>1. PICK m \in DOMAIN index : <<h.path, h.id>> = <<index[m].path, index[m].id>>
      BY <1>5 DEF Listing
    <3> QED BY <2>1, <3>1 DEF Rows, Distinct
  <2> QED BY <1>1, <2>1 DEF Counted
<1> HIDE DEF held, farm
<1>7. ASSUME NEW i \in Id, i \notin Ids(held) PROVE AgreesThen(i)
  <2>1. \A h \in Range(held) : h.id # i
    BY <1>7 DEF Ids, Range
  <2>2. \A n \in DOMAIN index : index[n].id = i => index'[n] = index[n]
    BY <1>3, <1>4, <2>1 DEF InPlace, held
  <2>3. \A n \in DOMAIN index' : index'[n].id = i => n \in DOMAIN index /\ index[n].id = i
    BY <1>3 DEF InPlace
  <2> QED BY <1>1, <1>2, <1>3, <2>2, <2>3, AgreeKeep DEF InPlace
<1>8. ASSUME NEW h \in Range(held) PROVE live'[h.id].cats = {}
  BY <1>1, <1>2, <1>3, <1>5, <1>6 DEF Agrees, Claimed
<1>9. ASSUME NEW h \in Range(held), NEW n \in DOMAIN index', index'[n].id = h.id
      PROVE  index'[n].cat = Verdict(farm, h.path)
  <2>1. n \in DOMAIN index /\ index[n].id = h.id /\ index'[n].path = index[n].path
    BY <1>3, <1>9 DEF InPlace
  <2>2. index[n].path = h.path /\ index[n].cat = "none"
    BY <1>6, <2>1
  <2>3. CASE index'[n] \in Range(Tagged(c))
    BY <1>4, <2>1, <2>2, <2>3 DEF farm
  <2>4. CASE index'[n] = index[n] /\ \A r \in Range(Tagged(c)) : r.path # index[n].path
    BY <1>4, <2>2, <2>4 DEF farm, held
  <2> QED BY <1>3, <2>1, <2>3, <2>4
<1>10. CountedThen(c)
  BY <1>1, <1>7, <1>8, <1>9 DEF CountedThen, Uncounted, held, farm
<1> QED BY <1>1, <1>10, CountedOwn

-----------------------------------------------------------------------------
(* Totals: counting a batch.                                               *)
LEMMA CountedCount ==
  ASSUME NEW c \in Session, Typed, Typed', FirstScan', Rows, Traced, Lone, Apart', Counted, Count(c)
  PROVE  Counted'
<1> DEFINE held == run[c].held
           farm == run[c].farm
<1>1. /\ SessionStep(c) /\ pc[c] = "count" /\ pc'[c] = "find" /\ pend' = pend /\ index' = index
      /\ live' = IngestHits(live, held, farm)
  BY DEF SessionStep, Count, At, Goto, user, Typed, TypeOK
<1>2. held \in Seq(Records) /\ farm \in Setting
  BY DEF Typed, TypeOK, Runs
<1>3. /\ \A i \in Id : i \in Ids(held) \/ Agrees(i)
      /\ \A r \in Range(held) :
           /\ live[r.id].cats = {}
           /\ \A n \in DOMAIN index : index[n].id = r.id => index[n].cat = Verdict(farm, r.path)
  BY <1>1 DEF Counted
<1>4. \A r \in Range(held) : <<r.path, r.id>> \in Listing
  BY <1>1 DEF Traced
<1>5. Says(held)
  BY <1>1 DEF Lone, Reader
<1> HIDE DEF held, farm
<1>6. \A k \in DOMAIN held : held[k] \in Range(held)
  BY DEF Range
<1>7. ASSUME NEW i \in Id, i \notin Ids(held) PROVE AgreesThen(i)
  <2>1. \A k \in DOMAIN held : held[k].id # i
    BY <1>7 DEF Ids
  <2>2. live'[i] = live[i]
    BY <1>1, <1>2, <2>1, HitsNone
  <2> QED BY <1>1, <1>3, <1>7, <2>2, Unmoved, InPlaceListing DEF Agrees, AgreesThen, Claimed
<1>8. ASSUME NEW i \in Id, NEW k \in DOMAIN held, held[k].id = i PROVE AgreesThen(i)
  <2>1. PICK m \in DOMAIN index : index[m].id = i
    BY <1>4, <1>6, <1>8 DEF Listing
  <2>2. CASE \E j \in DOMAIN held : held[j].id = i /\ Verdict(farm, held[j].path) # "none"
    <3>1. PICK j \in DOMAIN held : held[j].id = i /\ Verdict(farm, held[j].path) # "none"
      BY <2>2
    <3>2. live'[i].cats # {} /\ live'[i].kept \in KeptIn(held, i)
      BY <1>1, <1>2, <3>1, HitsCount
    <3>3. \A n \in DOMAIN index : index[n].id = i => live'[i].kept = index[n].kept
      BY <1>5, <1>6, <3>2 DEF Says, KeptIn
    <3>4. index[m].cat # "none"
      BY <1>3, <1>6, <2>1, <3>1
    <3> QED BY <1>1, <2>1, <3>2, <3>3, <3>4 DEF AgreesThen
  <2>3. CASE ~ \E j \in DOMAIN held : held[j].id = i /\ Verdict(farm, held[j].path) # "none"
    <3>1. live'[i] = live[i]
      BY <1>1, <1>2, <2>3, HitsNone
    <3>2. live[i].cats = {} /\ \A n \in DOMAIN index : index[n].id = i => index[n].cat = "none"
      BY <1>3, <1>6, <1>8, <2>3
    <3> QED BY <1>1, <3>1, <3>2 DEF AgreesThen
  <2> QED BY <2>2, <2>3
<1>9. \A i \in Id : AgreesThen(i)
  BY <1>7, <1>8 DEF Ids
<1>10. CountedThen(c)
  BY <1>1, <1>9 DEF CountedThen, Uncounted
<1> QED BY <1>1, <1>10, CountedOwn

(* Totals: writing the duplicates back.                                    *)
LEMMA CountedPromote ==
  ASSUME NEW c \in Session, Typed, Typed', FirstScan', Rows, Traced, Grouped, Lone, Apart', Counted, Promote(c)
  PROVE  Counted'
<1>1. SessionStep(c) /\ pc[c] = "promote" /\ pc'[c] = "recount" /\ live' = live
  BY DEF SessionStep, Promote, At, Goto, Typed, TypeOK
<1>2. \A i \in Id : Agrees(i)
  BY <1>1, AgreedBefore DEF Uncounted
<1>3. /\ InPlace
      /\ \A n \in DOMAIN index : index'[n] = index[n] \/ index'[n] \in Range(run[c].held)
      /\ \A i : ~Passed(i)
  BY <1>1, PromoteRows, NonePassed DEF Grouping
<1>4. \A r \in Range(run[c].held) : r.cat = "duplicates"
  BY <1>1 DEF Grouped
<1>5. ASSUME NEW i \in Id, live'[i].cats # {}
      PROVE  \E n \in DOMAIN index' : index'[n].id = i /\ index'[n].cat # "none"
  <2>1. PICK n \in DOMAIN index : index[n].id = i /\ index[n].cat # "none"
    BY <1>1, <1>2, <1>3, <1>5 DEF Agrees, Claimed
  <2> QED BY <1>3, <1>4, <2>1 DEF InPlace
<1>6. CountedThen(c)
  BY <1>1, <1>5 DEF CountedThen, Uncounted
<1> QED BY <1>1, <1>6, CountedOwn

(* Totals: counting the duplicates.                                        *)
LEMMA CountedRecount ==
  ASSUME NEW c \in Session, Typed, Typed', FirstScan', Rows, Lone, Apart', Counted, Recount(c)
  PROVE  Counted'
<1>1. /\ SessionStep(c) /\ pc[c] = "recount" /\ pc'[c] = "store" /\ pend' = pend /\ index' = index
      /\ live' = IngestPrimary(live, index) /\ index \in Seq(Records)
  BY DEF SessionStep, Recount, At, Goto, user, Typed, TypeOK
<1>2. ASSUME NEW i \in Id PROVE AgreesThen(i)
  <2>1. CASE Claimed(i)
    <3>1. live'[i].cats # {} /\ \E k \in DOMAIN index : index[k].id = i /\ live'[i].kept = index[k].kept
      BY <1>1, <2>1, PrimaryIs DEF Claimed
    <3>2. \A n \in DOMAIN index : index[n].id = i => live'[i].kept = index[n].kept
      BY <3>1 DEF Rows, Distinct
    <3> QED BY <1>1, <2>1, <3>1, <3>2 DEF AgreesThen, Claimed
  <2>2. CASE ~Claimed(i)
    <3>1. live'[i] = live[i]
      BY <1>1, <2>2, PrimaryIs DEF Claimed
    <3>2. live[i].cats = {}
      BY <1>1, <2>2 DEF Counted
    <3> QED BY <1>1, <2>2, <3>1, <3>2 DEF AgreesThen, Claimed
  <2> QED BY <2>1, <2>2
<1>3. CountedThen(c)
  BY <1>1, <1>2 DEF CountedThen, Uncounted
<1> QED BY <1>1, <1>3, CountedOwn

(* Totals: counting the units of the next detector of folders.             *)
LEMMA CountedCountUnits ==
  ASSUME NEW c \in Session, Typed, Typed', FirstScan', Lone, Apart', Counted, CountUnits(c)
  PROVE  Counted'
<1>1. /\ SessionStep(c) /\ pc[c] = "units" /\ pend' = pend /\ index' = index
      /\ pc \in [Session -> Places] /\ run \in [Session -> Runs]
  BY DEF SessionStep, CountUnits, At, user, Typed, TypeOK
<1>2. \A i \in Id : Agrees(i)
  BY <1>1, AgreedBefore DEF Uncounted
<1>3. CASE Goto(c, "end") /\ live' = live
  BY <1>1, <1>3, CountedSteady DEF Goto, Uncounted
<1>4. ASSUME NEW found \in SUBSET Unit, \A u \in found : Finder[u] = run[c].finder,
             Goto(c, IF found = {} THEN "units" ELSE "units in"),
             live' = IngestPrimary(live, UnitsOf(found)),
             run' = [run EXCEPT ![c].held = UnitsOf(found), ![c].finder = run[c].finder + 1]
      PROVE  Counted'
  <2> DEFINE units == UnitsOf(found)
  <2>1. run'[c].held = units
    <3>1. ASSUME NEW x \in Runs, NEW held, NEW n PROVE [x EXCEPT !.held = held, !.finder = n].held = held
      BY DEF Runs
    <3>2. run[c] \in Runs /\ run'[c] = [run[c] EXCEPT !.held = UnitsOf(found), !.finder = run[c].finder + 1]
      BY <1>1, <1>4
    <3> QED BY <3>1, <3>2
  <2>2. units \in Seq(Records) /\ \A r \in Range(units) : FoundBy(r, run[c].finder) /\ r.id \in found
    BY <1>4, UnitsType
  <2>3. live' = IngestPrimary(live, units)
    BY <1>4
  <2> HIDE DEF units
  <2>4. \A k \in DOMAIN units : units[k] \in Range(units)
    BY DEF Range
  <2>5. ASSUME NEW i \in Id, i \notin Ids(units) PROVE AgreesThen(i)
    <3>1. \A k \in DOMAIN units : units[k].id # i
      BY <2>5 DEF Ids
    <3>2. live'[i] = live[i]
      BY <2>2, <2>3, <3>1, PrimaryIs
    <3> QED BY <1>1, <1>2, <3>2, Unmoved, InPlaceListing DEF Agrees, AgreesThen, Claimed
  <2>6. ASSUME NEW r \in Range(units) PROVE live'[r.id].cats # {} /\ ~live'[r.id].kept
    <3>1. PICK k \in DOMAIN units : r = units[k]
      BY DEF Range
    <3>2. r.id \in Id /\ r.cat # "none"
      BY <2>2 DEF Id, FoundBy
    <3>3. live'[r.id].cats # {} /\ \E j \in DOMAIN units : units[j].id = r.id /\ live'[r.id].kept = units[j].kept
      BY <2>2, <2>3, <3>1, <3>2, PrimaryIs
    <3> QED BY <2>2, <2>4, <3>3 DEF FoundBy
  <2>7. found = {} => Ids(units) = {}
    BY <2>2, <2>4 DEF Ids
  <2>8. pc'[c] = "units in" \/ (pc'[c] = "units" /\ found = {})
    BY <1>1, <1>4 DEF Goto
  <2>9. CountedThen(c)
    BY <2>1, <2>5, <2>6, <2>7, <2>8 DEF CountedThen, Uncounted
  <2> QED BY <1>1, <2>9, CountedOwn
<1> QED BY <1>3, <1>4, CountUnitsShape

(* Totals: inserting them.                                                 *)
LEMMA CountedInsertUnits ==
  ASSUME NEW c \in Session, Typed, Typed', FirstScan', Rows, Traced, Lone, Apart', Counted, InsertUnits(c)
  PROVE  Counted'
<1> DEFINE held == run[c].held
<1>1. /\ SessionStep(c) /\ pend' = pend /\ live' = live /\ live \in [Id -> Shares] /\ index' \in Seq(Records)
  BY DEF SessionStep, InsertUnits, user, Typed, TypeOK
<1>2. Grows(held) /\ Lasts /\ pc[c] = "units in" /\ pc'[c] = "units"
  BY InsertUnitsRows
<1>3. /\ \A i \in Id : i \in Ids(held) \/ Agrees(i)
      /\ \A r \in Range(held) : live[r.id].cats # {} /\ ~live[r.id].kept
  BY <1>2 DEF Counted
<1>4. \A r \in Range(held) : r.cat = "folder" /\ ~r.kept
  BY <1>2 DEF Traced, FoundBy
<1> HIDE DEF held
<1>5. /\ \A n \in DOMAIN index' : (n \in DOMAIN index /\ index'[n] = index[n]) \/ index'[n] \in Range(held)
      /\ \A r \in Range(held) : r.id \notin Ids(index) /\ \E n \in DOMAIN index' : index'[n] = r
  BY <1>2 DEF Grows, Met
<1>6. ASSUME NEW i \in Id, i \notin Ids(held) PROVE AgreesThen(i)
  <2> SUFFICES ASSUME ~PassedThen(i) PROVE AgreesThen(i)
    BY DEF AgreesThen
  <2>1. \A n \in DOMAIN index' : index'[n].id = i => n \in DOMAIN index /\ index'[n] = index[n]
    BY <1>5, <1>6 DEF Ids, Range
  <2>2. ~Passed(i)
    <3>1. Passed(i) => i \in Ids(index')
      BY <1>2 DEF Lasts, Met, MetThen
    <3>2. i \in Ids(index') => \E n \in DOMAIN index : index[n].id = i
      BY <2>1 DEF Ids
    <3> QED BY <3>1, <3>2, NeverPassed
  <2>3. ASSUME NEW n \in DOMAIN index, index[n].id = i PROVE n \in DOMAIN index' /\ index'[n] = index[n]
    <3>1. SUFFICES ASSUME /\ index[n].path \in Folder /\ index'[n].path = index[n].path /\ n \in DOMAIN index'
                          /\ Finder[index[n].id] < Finder[index'[n].id]
                   PROVE  FALSE
      BY <1>2 DEF Grows
    <3>2. i \in Unit /\ Lies[i] = index[n].path
      BY <2>3, <3>1, ConstantsOK DEF Rows, Numbered
    <3> QED BY <2>3, <3>1, <3>2 DEF PassedThen
  <2> QED BY <1>1, <1>3, <1>6, <2>1, <2>2, <2>3, AgreeKeep
<1>7. ASSUME NEW i \in Id, NEW r \in Range(held), r.id = i PROVE AgreesThen(i)
  <2>1. \E n \in DOMAIN index' : index'[n].id = i /\ index'[n].cat # "none"
    BY <1>4, <1>5, <1>7
  <2>2. ASSUME NEW n \in DOMAIN index', index'[n].id = i PROVE live'[i].kept = index'[n].kept
    <3>1. index'[n] \in Range(held)
      BY <1>5, <1>7, <2>2 DEF Ids
    <3>2. ~index'[n].kept /\ ~live'[i].kept
      BY <1>1, <1>3, <1>4, <1>7, <3>1
    <3>3. index'[n] \in Records /\ live'[i] \in Shares
      BY <1>1
    <3> QED BY <3>2, <3>3 DEF Records, Shares
  <2> QED BY <1>1, <1>3, <1>7, <2>1, <2>2 DEF AgreesThen
<1>8. \A i \in Id : AgreesThen(i)
  BY <1>6, <1>7 DEF Ids, Range
<1>9. CountedThen(c)
  BY <1>2, <1>8 DEF CountedThen, Uncounted
<1> QED BY <1>1, <1>9, CountedOwn

-----------------------------------------------------------------------------
(* No thread moves on from the totals.                                     *)
LEMMA CountedSame ==
  ASSUME Counted, index' = index, live' = live, pend' = pend, pc' = pc, run' = run,
         \A k \in Change : \/ apply'[k] = apply[k]
                           \/ apply[k].at = "new" /\ apply'[k].at # "totals"
  PROVE  Counted'
<1>1. \A i \in Id : Agrees(i) <=> AgreesThen(i)
  BY Unmoved, InPlaceListing DEF Agrees, AgreesThen, Claimed
<1>2. (\A k \in Change : apply'[k].at \in {"new", "done", "recalculate"}) =>
        \A k \in Change : apply[k].at \in {"new", "done", "recalculate"}
  BY Zenon
<1>3. \A k \in Change : apply'[k].at = "totals" => apply'[k].held = index'
  BY DEF Counted
<1>4. (/\ \A k \in Change : apply'[k].at \in {"new", "done", "recalculate"}
       /\ \A c \in Session : pc'[c] \notin Uncounted) => \A i \in Id : AgreesThen(i)
  BY <1>1, <1>2 DEF Counted
<1>5. \A c \in Session : pc'[c] \in {"count", "units in"} => \A i \in Id : i \in Ids(run'[c].held) \/ AgreesThen(i)
  BY <1>1 DEF Counted
<1>6. ASSUME NEW c \in Session, pc'[c] = "count", NEW r \in Range(run'[c].held)
      PROVE  /\ live'[r.id].cats = {}
             /\ \A n \in DOMAIN index' : index'[n].id = r.id => index'[n].cat = Verdict(run'[c].farm, r.path)
  <2>1. pc[c] = "count" /\ r \in Range(run[c].held)
    BY <1>6
  <2> QED BY <2>1 DEF Counted
<1>7. ASSUME NEW c \in Session, pc'[c] = "tag", NEW r \in Range(run'[c].held)
      PROVE  \A n \in DOMAIN index' : index'[n].id = r.id => index'[n].cat = "none"
  <2>1. pc[c] = "tag" /\ r \in Range(run[c].held)
    BY <1>7
  <2> QED BY <2>1 DEF Counted
<1>8. ASSUME NEW c \in Session, pc'[c] = "units in", NEW r \in Range(run'[c].held)
      PROVE  live'[r.id].cats # {} /\ ~live'[r.id].kept
  <2>1. pc[c] = "units in" /\ r \in Range(run[c].held)
    BY <1>8
  <2> QED BY <2>1 DEF Counted
<1>9. ASSUME NEW c \in Session, pc'[c] = "recount", NEW i \in Id, live'[i].cats # {}
      PROVE  \E n \in DOMAIN index' : index'[n].id = i /\ index'[n].cat # "none"
  BY <1>9 DEF Counted, Claimed
<1> QED BY <1>3, <1>4, <1>5, <1>6, <1>7, <1>8, <1>9 DEF Counted, Agrees, AgreesThen, Claimed, Passed, PassedThen, Ids, Range, Verdict

(* No session is at work while a change is.                                *)
LEMMA CountedChange ==
  ASSUME NEW k \in Change, Works(k), Apart, pc' = pc,
         \A l \in Change \ {k} : apply'[l] = apply[l],
         apply'[k].at \in {"new", "done", "recalculate"} => \A i \in Id : AgreesThen(i),
         apply'[k].at = "totals" => apply'[k].held = index'
  PROVE  Counted'
<1>1. \A c \in Session : pc'[c] \in Idle
  BY DEF Apart, Busy
<1>2. \A l \in Change : apply'[l].at = "totals" => apply'[l].held = index'
  <2>1. \A l \in Change \ {k} : apply[l].at \in {"new", "done"}
    BY DEF Apart, Works
  <2> QED BY <2>1
<1>3. \A c \in Session : pc'[c] \notin Uncounted \cup {"tag"}
  BY <1>1 DEF Idle, Uncounted
<1> QED BY <1>2, <1>3 DEF Counted, Agrees, AgreesThen, Claimed, Passed, PassedThen, Uncounted

(* Totals: the steps of a change.                                          *)
LEMMA CountedApply ==
  ASSUME NEW k \in Change, Typed, Typed', Rows, Traced, Lone, Counted, ApplyStep(k)
  PROVE  Counted'
<1>1. /\ apply \in [Change -> Applies] /\ pc' = pc /\ run' = run /\ pend' = pend
      /\ \A l \in Change \ {k} : apply'[l] = apply[l]
  <2>1. apply \in [Change -> Applies]
    BY DEF Typed, TypeOK
  <2>2. CASE SetSettings(k) \/ Recalculate(k) \/ Publish(k)
    BY <2>1, <2>2 DEF SetSettings, Recalculate, Publish, Advance, user
  <2>3. CASE Reapply(k) \/ Rewrite(k) \/ Reread(k) \/ Retotal(k)
    BY <2>1, <2>3 DEF Reapply, Rewrite, Reread, Retotal, Advance, user
  <2> QED BY <2>1, <2>2, <2>3 DEF ApplyStep
<1>2. Apart
  BY DEF Lone
<1>3. CASE SetSettings(k)
  <2>1. apply[k].at = "new" /\ apply'[k].at \in {"done", "recalculate"} /\ index' = index /\ live' = live
    BY <1>1, <1>3 DEF SetSettings, Applying, Still, data
  <2> QED BY <1>1, <2>1, CountedSame
<1>4. CASE Recalculate(k) \/ Publish(k) \/ Reapply(k) \/ Rewrite(k)
  <2>1. Works(k) /\ apply'[k].at \in {"publish", "reapply", "write", "read"}
    <3>1. CASE Recalculate(k) \/ Publish(k)
      BY <1>1, <3>1 DEF Recalculate, Publish, Applying, Advance, Works, Applies
    <3>2. CASE Reapply(k) \/ Rewrite(k)
      BY <1>1, <3>2 DEF Reapply, Rewrite, Applying, Advance, Works, Applies
    <3> QED BY <1>4, <3>1, <3>2
  <2> QED BY <1>1, <1>2, <2>1, CountedChange
<1>5. CASE Reread(k)
  <2>1. Works(k) /\ apply'[k].at = "totals" /\ apply'[k].held = index /\ index' = index
    BY <1>1, <1>5 DEF Reread, Applying, Advance, Works, Applies, data
  <2> QED BY <1>1, <1>2, <2>1, CountedChange
<1>6. CASE Retotal(k)
  <2>1. /\ Works(k) /\ apply[k].at = "totals" /\ apply'[k].at = "done" /\ index' = index
        /\ live' = IngestPrimary(Nothing, apply[k].held)
    BY <1>1, <1>6 DEF Retotal, Applying, Still, Works
  <2>2. live' = IngestPrimary(Nothing, index) /\ index \in Seq(Records)
    BY <2>1 DEF Counted, Typed, TypeOK
  <2>3. ASSUME NEW i \in Id PROVE AgreesThen(i)
    <3>1. CASE Claimed(i)
      <4>1. live'[i].cats # {} /\ \E n \in DOMAIN index : index[n].id = i /\ live'[i].kept = index[n].kept
        BY <2>2, <3>1, PrimaryIs DEF Claimed
      <4>2. \A n \in DOMAIN index : index[n].id = i => live'[i].kept = index[n].kept
        BY <4>1 DEF Rows, Distinct
      <4> QED BY <2>1, <3>1, <4>1, <4>2 DEF AgreesThen, Claimed
    <3>2. CASE ~Claimed(i)
      <4>1. live'[i] = Nothing[i]
        BY <2>2, <3>2, PrimaryIs DEF Claimed
      <4>2. live'[i].cats = {}
        BY <4>1 DEF Nothing, NoShare
      <4> QED BY <2>1, <3>2, <4>2 DEF AgreesThen, Claimed
    <3> QED BY <3>1, <3>2
  <2> QED BY <1>1, <1>2, <2>1, <2>3, CountedChange
<1> QED BY <1>3, <1>4, <1>5, <1>6 DEF ApplyStep

(* The user decides: the totals follow with a step of their own.           *)
LEMMA CountedDecide ==
  ASSUME Typed, Typed', Rows, Traced, Lone, Counted, Decide, \A d, e \in pend' : d = e,
         \A d \in pend' : d \in pend \/ (~Writes(d.id) /\ ~Counts(d.id))
  PROVE  Counted'
<1>1. PICK i \in Ids(index), kept \in BOOLEAN :
        /\ index' = Decided(i, kept)
        /\ \E d \in pend' : d.id = i
        /\ \A d \in pend : d.id = i
        /\ index' = index \/ (~Writes(i) /\ ~Counts(i))
  BY DecideShape
<1>2. /\ DOMAIN index' = DOMAIN index
      /\ \A n \in DOMAIN index :
           /\ index'[n].id = index[n].id /\ index'[n].cat = index[n].cat
           /\ index[n].id # i => index'[n] = index[n]
  BY <1>1, DecidedIs
<1>3. pc' = pc /\ run' = run /\ apply' = apply /\ live' = live /\ \A j : Passed(j) <=> PassedThen(j)
  BY DecideRows, InPlaceListing DEF Decide
<1>4. ASSUME NEW j \in Id, Agrees(j) PROVE AgreesThen(j)
  <2> SUFFICES ASSUME ~Passed(j), ~PassedThen(j) PROVE AgreesThen(j)
    BY <1>3 DEF AgreesThen
  <2>1. live'[j].cats # {} <=> \E n \in DOMAIN index' : index'[n].id = j /\ index'[n].cat # "none"
    BY <1>2, <1>3, <1>4 DEF Agrees, Claimed
  <2>2. CASE j = i
    BY <1>1, <2>1, <2>2 DEF AgreesThen
  <2>3. CASE j # i
    BY <1>1, <1>2, <1>3, <1>4, <2>1, <2>3 DEF Agrees, AgreesThen
  <2> QED BY <2>2, <2>3
<1>5. ASSUME NEW k \in Change, apply'[k].at = "totals" PROVE apply'[k].held = index'
  <2>1. apply[k].at = "totals" /\ apply[k].held = index
    BY <1>3, <1>5 DEF Counted
  <2>2. Counts(i)
    BY <2>1 DEF Counts, Applying
  <2> QED BY <1>1, <1>3, <2>1, <2>2
<1>6. ASSUME NEW c \in Session, pc'[c] = "count", NEW r \in Range(run'[c].held)
      PROVE  /\ live'[r.id].cats = {}
             /\ \A n \in DOMAIN index' : index'[n].id = r.id => index'[n].cat = Verdict(run'[c].farm, r.path)
  <2>1. pc[c] = "count" /\ r \in Range(run[c].held)
    BY <1>3, <1>6
  <2>2. /\ live[r.id].cats = {}
        /\ \A n \in DOMAIN index : index[n].id = r.id => index[n].cat = Verdict(run[c].farm, r.path)
    BY <2>1 DEF Counted
  <2> QED BY <1>2, <1>3, <2>2
<1>7. ASSUME NEW c \in Session, pc'[c] = "tag", NEW r \in Range(run'[c].held)
      PROVE  \A n \in DOMAIN index' : index'[n].id = r.id => index'[n].cat = "none"
  <2>1. pc[c] = "tag" /\ r \in Range(run[c].held)
    BY <1>3, <1>7
  <2>2. \A n \in DOMAIN index : index[n].id = r.id => index[n].cat = "none"
    BY <2>1 DEF Counted
  <2> QED BY <1>2, <2>2
<1>8. ASSUME NEW c \in Session, pc'[c] = "recount", NEW j \in Id, live'[j].cats # {}
      PROVE  \E n \in DOMAIN index' : index'[n].id = j /\ index'[n].cat # "none"
  <2>1. \E n \in DOMAIN index : index[n].id = j /\ index[n].cat # "none"
    BY <1>3, <1>8 DEF Counted, Claimed
  <2> QED BY <1>2, <2>1
<1>9. (/\ \A k \in Change : apply'[k].at \in {"new", "done", "recalculate"}
       /\ \A c \in Session : pc'[c] \notin Uncounted) => \A j \in Id : AgreesThen(j)
  BY <1>3, <1>4 DEF Counted
<1>10. \A c \in Session : pc'[c] \in {"count", "units in"} => \A j \in Id : j \in Ids(run'[c].held) \/ AgreesThen(j)
  BY <1>3, <1>4 DEF Counted
<1>11. \A c \in Session : pc'[c] = "units in" => \A r \in Range(run'[c].held) : live'[r.id].cats # {} /\ ~live'[r.id].kept
  BY <1>3 DEF Counted
<1> QED BY <1>5, <1>6, <1>7, <1>8, <1>9, <1>10, <1>11 DEF Counted, Agrees, AgreesThen, Claimed, Passed, PassedThen, Ids, Range, Verdict

(* What a thread has counted and not yet inserted has had no record yet.   *)
LEMMA UnitsUnmet ==
  ASSUME Rows, NEW round \in Int, NEW r, FoundBy(r, round),
         \A n \in DOMAIN index : index[n].path \in Path \/ Finder[index[n].id] < round
  PROVE  r.id \in Id /\ ~Met(r.id)
<1>3. \A n \in DOMAIN index : Numbered(index[n]) /\ (index[n].path \in Path \/ Finder[index[n].id] < round)
  BY DEF Rows
<1>4. r.id \in Unit /\ r.id \notin Nat /\ Lies[r.id] \in Folder /\ Finder[r.id] = round
  BY ConstantsOK DEF FoundBy
<1>5. ASSUME NEW n \in DOMAIN index, index[n].path \notin Path
      PROVE  Finder[index[n].id] \in Nat /\ Finder[index[n].id] < round
  BY <1>3, <1>5, ConstantsOK DEF Numbered
<1>6. r.id \notin Ids(index)
  <2> SUFFICES ASSUME NEW n \in DOMAIN index, index[n].id = r.id PROVE FALSE
    BY DEF Ids
  <2>1. index[n].path \notin Path
    BY <1>3, <1>4 DEF Numbered
  <2> QED BY <1>4, <1>5, <2>1
<1>7. ~Passed(r.id)
  <2> SUFFICES ASSUME NEW n \in DOMAIN index, index[n].path = Lies[r.id], Finder[r.id] < Finder[index[n].id]
               PROVE  FALSE
    BY DEF Passed
  <2>1. index[n].path \notin Path
    BY <1>4, ConstantsOK
  <2> QED BY <1>4, <1>5, <2>1
<1> QED BY <1>4, <1>6, <1>7 DEF Id, Met

(* Totals: a decision reaching the totals.                                 *)
LEMMA CountedTotal ==
  ASSUME Typed, Typed', Rows, Traced, Lone, Counted, Total
  PROVE  Counted'
<1>1. PICK d \in pend : live' = SetDecision(d) /\ pend' = pend \ {d}
  BY DEF Total
<1>2. /\ index' = index /\ pc' = pc /\ run' = run /\ apply' = apply
      /\ \A j : Passed(j) <=> PassedThen(j)
  BY Unmoved, InPlaceListing DEF Total
<1>3. /\ \A e \in pend : e = d
      /\ Met(d.id) /\ d.id \in Id
      /\ \A n \in DOMAIN index : index[n].id = d.id => index[n].kept = d.kept
      /\ live \in [Id -> Shares]
  BY <1>1 DEF Lone, Typed, TypeOK
<1>4. /\ \A i \in Id : live'[i].cats = live[i].cats /\ (i # d.id => live'[i] = live[i])
      /\ live[d.id].cats # {} => live'[d.id].kept = d.kept
  <2>1. CASE live[d.id] = NoShare
    BY <1>1, <1>3, <2>1 DEF SetDecision, NoShare
  <2>2. CASE live[d.id] # NoShare
    <3>1. live' = [live EXCEPT ![d.id].kept = d.kept]
      BY <1>1, <2>2 DEF SetDecision
    <3> QED BY <1>3, <3>1 DEF Shares
  <2> QED BY <2>1, <2>2
<1>5. ASSUME NEW i \in Id, Agrees(i) PROVE AgreesThen(i)
  <2> SUFFICES ASSUME ~Passed(i), ~PassedThen(i) PROVE AgreesThen(i)
    BY <1>2 DEF AgreesThen
  <2>1. live'[i].cats # {} <=> \E n \in DOMAIN index' : index'[n].id = i /\ index'[n].cat # "none"
    BY <1>2, <1>4, <1>5 DEF Agrees, Claimed
  <2>2. CASE i = d.id
    BY <1>2, <1>3, <1>4, <2>1, <2>2 DEF AgreesThen
  <2>3. CASE i # d.id
    BY <1>2, <1>3, <1>4, <1>5, <2>1, <2>3 DEF Agrees, AgreesThen
  <2> QED BY <2>2, <2>3
<1>6. ASSUME NEW c \in Session, pc'[c] = "count", NEW r \in Range(run'[c].held)
      PROVE  /\ live'[r.id].cats = {}
             /\ \A n \in DOMAIN index' : index'[n].id = r.id => index'[n].cat = Verdict(run'[c].farm, r.path)
  <2>1. r.id \in Id
    <3>1. run[c].held \in Seq(Records)
      BY DEF Typed, TypeOK, Runs
    <3>2. Range(run[c].held) \subseteq Records
      BY <3>1, RangeOf
    <3> QED BY <1>2, <1>6, <3>2 DEF Records
  <2> QED BY <1>2, <1>4, <1>6, <2>1 DEF Counted
<1>7. ASSUME NEW c \in Session, pc'[c] = "units in", NEW r \in Range(run'[c].held)
      PROVE  live'[r.id].cats # {} /\ ~live'[r.id].kept
  <2>1. pc[c] = "units in" /\ r \in Range(run[c].held)
    BY <1>2, <1>7
  <2>2. r.id \in Id /\ ~Met(r.id)
    <3>1. Round(c) \in Int /\ FoundBy(r, Round(c))
      BY <2>1, RoundType DEF Traced
    <3>2. \A n \in DOMAIN index : index[n].path \in Path \/ Finder[index[n].id] < Round(c)
      BY <2>1 DEF Rows, Adding
    <3> QED BY <3>1, <3>2, UnitsUnmet
  <2>3. live[r.id].cats # {} /\ ~live[r.id].kept
    BY <2>1 DEF Counted
  <2> QED BY <1>3, <1>4, <2>2, <2>3
<1>8. \A c \in Session : pc'[c] = "recount" => \A i \in Id : live'[i].cats # {} =>
        \E n \in DOMAIN index' : index'[n].id = i /\ index'[n].cat # "none"
  BY <1>2, <1>4 DEF Counted, Claimed
<1>9. (/\ \A k \in Change : apply'[k].at \in {"new", "done", "recalculate"}
       /\ \A c \in Session : pc'[c] \notin Uncounted) => \A i \in Id : AgreesThen(i)
  BY <1>2, <1>5 DEF Counted
<1>10. \A c \in Session : pc'[c] \in {"count", "units in"} => \A i \in Id : i \in Ids(run'[c].held) \/ AgreesThen(i)
  BY <1>2, <1>5 DEF Counted
<1>11. \A k \in Change : apply'[k].at = "totals" => apply'[k].held = index'
  BY <1>2 DEF Counted
<1>12. \A c \in Session : pc'[c] = "tag" => \A r \in Range(run'[c].held) :
       \A n \in DOMAIN index' : index'[n].id = r.id => index'[n].cat = "none"
  BY <1>2 DEF Counted
<1> QED BY <1>6, <1>7, <1>8, <1>9, <1>10, <1>11, <1>12 DEF Counted, Agrees, AgreesThen, Claimed, Passed, PassedThen, Ids, Range, Verdict

(* Every step that leaves the totals to one thread keeps them in agreement.*)
LEMMA CountedNext ==
  ASSUME Typed, Typed', FirstScan', Rows, Traced, Grouped, Lone, Counted, Next, ~muddled'
  PROVE  Counted'
<1>1. Apart' /\ (\A d, e \in pend' : d = e) /\ \A d \in pend' : d \in pend \/ (~Writes(d.id) /\ ~Counts(d.id))
  BY WatchedOver
<1>2. ASSUME NEW c \in Session, SessionStep(c) PROVE Counted'
  BY <1>1, <1>2, CountedQuiet, CountedSpawn, CountedBatch, CountedTag, CountedCount, CountedPromote,
     CountedRecount, CountedCountUnits, CountedInsertUnits DEF SessionStep
<1>3. CASE Stop
  <2>1. index' = index /\ live' = live /\ pend' = pend /\ pc' = pc /\ run' = run /\ apply' = apply
    BY <1>3 DEF Stop, data, user
  <2> QED BY <2>1, CountedSame
<1> QED BY <1>1, <1>2, <1>3, CountedApply, CountedDecide, CountedTotal DEF Next

(* The invariant of the first scan, with what becomes of duplicates and of
   the totals.                                                             *)
Tallied == Recorded /\ (FirstScan /\ ~muddled => Lone /\ Counted)

(* The invariant holds at the start.                                       *)
LEMMA TalliedInit == Init => Tallied
<1> SUFFICES ASSUME Init PROVE Tallied
  OBVIOUS
<1>1. /\ index = <<>> /\ DOMAIN index = {} /\ Ids(index) = {} /\ pend = {}
      /\ \A c \in Session : pc[c] = "new"
      /\ \A k \in Change : apply[k].at = "new"
      /\ \A i \in Id : live[i].cats = {}
  BY DEF Init, Still, Ids, Nothing, NoShare
<1>2. Lone
  BY <1>1 DEF Lone, Apart, Works, Reader, Rereader
<1>3. Counted
  BY <1>1 DEF Counted, Agrees, Claimed
<1> QED BY <1>2, <1>3, RecordedInit DEF Tallied

(* Every step keeps the invariant.                                         *)
LEMMA TalliedNext == Tallied /\ [Next]_vars => Tallied'
<1> SUFFICES ASSUME Tallied, [Next]_vars PROVE Tallied'
  OBVIOUS
<1>1. Recorded /\ Recorded' /\ Typed /\ Typed'
  BY RecordedNext DEF Tallied, Recorded
<1>2. ASSUME FirstScan', ~muddled' PROVE Lone' /\ Counted'
  <2>1. FirstScan
    BY <1>1, <1>2, FirstBefore
  <2>2. Rows /\ Traced /\ Grouped /\ Sound /\ (~muddled => Lone /\ Counted)
    BY <1>1, <2>1 DEF Recorded, Tallied, Grouped
  <2>3. CASE Next
    <3>1. ~muddled
      BY <1>1, <1>2, <2>3, WatchedOver
    <3> QED BY <1>1, <1>2, <2>2, <2>3, <3>1, LoneNext, CountedNext
  <2>4. CASE UNCHANGED vars
    <3>1. /\ index' = index /\ live' = live /\ pend' = pend /\ pc' = pc /\ run' = run /\ apply' = apply
          /\ muddled' = muddled
      BY <2>4 DEF vars, data, user
    <3>2. Lone => Lone'
      BY <3>1 DEF Lone, Apart, Works, Busy, Says, Ids, Range, Met, Passed
    <3>3. Counted => Counted'
      BY <3>1, CountedSame
    <3> QED BY <1>2, <2>2, <3>1, <3>2, <3>3
  <2> QED BY <2>3, <2>4
<1> QED BY <1>1, <1>2 DEF Tallied

(* T-055: once all is quiet the live totals count the candidates of the
   index, and beyond these at most units of which another detector has found
   the folder, if one thread at a time has worked on them.                 *)
THEOREM TotalsFollow == Spec => []TotalsAgree
<1>1. Tallied => TotalsAgree
  <2> SUFFICES ASSUME Tallied, Quiet, FirstScan, ~muddled
               PROVE  Offered \subseteq Shown /\ Shown \subseteq Offered \cup Displaced
    BY DEF TotalsAgree
  <2>1. Rows /\ Lone /\ Counted /\ Typed
    BY DEF Tallied, Recorded
  <2>2. \A i \in Id : Agrees(i)
    <3>1. \A k \in Change : apply[k].at \in {"new", "done", "recalculate"}
      BY DEF Quiet, Works
    <3>2. \A c \in Session : pc[c] \notin Uncounted
      BY DEF Quiet, Busy, Idle, Uncounted
    <3> QED BY <2>1, <3>1, <3>2 DEF Counted
  <2>3. ASSUME NEW i \in Id, ~Passed(i)
        PROVE  /\ live[i].cats # {} <=> Claimed(i)
               /\ live[i].cats # {} => \A n \in DOMAIN index : index[n].id = i => live[i].kept = index[n].kept
    <3>1. Agrees(i) /\ pend = {}
      BY <2>2 DEF Quiet
    <3> QED BY <2>3, <3>1 DEF Agrees
  <2>4. \A n \in DOMAIN index : index[n].id \in Id /\ ~Passed(index[n].id)
    <3>1. index \in Seq(Records)
      BY <2>1 DEF Typed, TypeOK
    <3>2. \A n \in DOMAIN index : index[n] \in Records
      BY <3>1
    <3> QED BY <2>1, <3>2, NeverPassed DEF Records
  <2>5. ASSUME NEW i \in Shown PROVE i \in Offered \cup Displaced
    <3>1. i \in Id /\ live[i].cats # {} /\ ~live[i].kept
      BY DEF Shown
    <3>2. CASE Passed(i)
      <4>1. PICK n \in DOMAIN index : index[n].path = Lies[i] /\ Finder[i] < Finder[index[n].id]
        BY <3>2 DEF Passed
      <4>2. index[n].id # i
        <5>1. i \in Unit /\ Finder[i] \in Nat
          BY <3>2, ConstantsOK DEF Passed
        <5> QED BY <4>1, <5>1
      <4> QED BY <3>2, <4>1, <4>2 DEF Passed, Displaced
    <3>3. CASE ~Passed(i)
      <4>1. PICK n \in DOMAIN index : index[n].id = i /\ index[n].cat # "none"
        BY <2>3, <3>1, <3>3 DEF Claimed
      <4>2. live[i].kept = index[n].kept
        BY <2>3, <3>1, <3>3, <4>1
      <4> QED BY <3>1, <4>1, <4>2 DEF Offered
    <3> QED BY <3>2, <3>3
  <2>6. ASSUME NEW n \in DOMAIN index, index[n].cat # "none", ~index[n].kept PROVE index[n].id \in Shown
    <3>1. live[index[n].id].cats # {}
      BY <2>3, <2>4, <2>6 DEF Claimed
    <3>2. live[index[n].id].kept = index[n].kept
      BY <2>3, <2>4, <3>1
    <3> QED BY <2>4, <2>6, <3>1, <3>2 DEF Shown
  <2> QED BY <2>5, <2>6 DEF Offered
<1> QED BY <1>1, TalliedInit, TalliedNext, PTL DEF Spec
=============================================================================
