-------------------------- MODULE VolumeScanProofs --------------------------
(***************************************************************************)
(* What a scan delivers, for any disks, any exclusions and any number of   *)
(* threads. The inductive invariant of the session is Delivery: with got   *)
(* the facts delivered so far, got, the batch handed over and the batch    *)
(* being filled tell exactly what the records done with tell, and no path  *)
(* twice.                                                                  *)
(*   - The way from a record to the root is found by rounds that make each *)
(*     way one record longer (Lineage), and never comes back to a record   *)
(*     (ChainApart), for every folder there has a lesser number of rounds. *)
(*   - A path is resolved reference by reference, to the record's own path *)
(*     if it is not too deep, in the file table (TableResolves) and in the *)
(*     entries of a walk (EntriesResolve).                                 *)
(*   - The threads of a walk open every folder shown once (WalkInv): a     *)
(*     folder with an entry waits, in the queue or with a thread, or all   *)
(*     that is shown in it has an entry of its own.                        *)
(* A recursive function is unfolded here by the set of the numbers it can  *)
(* be built up to (Induct), as the rounds of Rounds, Climbs and their      *)
(* like.                                                                   *)
(***************************************************************************)
EXTENDS VolumeScan, SequenceTheorems, FiniteSetTheorems, WellFoundedInduction, TLAPS

-----------------------------------------------------------------------------
(* Induction over the numbers, by their order being well-founded.          *)
LessThan == {ss \in Nat \X Nat : ss[1] < ss[2]}

(* A set of numbers that is not empty has a least one.                     *)
LEMMA Least == ASSUME NEW T, T \subseteq Nat, T # {} PROVE \E n \in T : \A m \in T : n <= m
<1>0. OpToRel(<, Nat) = LessThan
  BY DEF OpToRel, LessThan
<1>1. IsWellFoundedOn(LessThan, Nat)
  BY <1>0, NatLessThanWellFounded
<1>2. \E n \in T : \A m \in T : ~(<<m, n>> \in LessThan)
  BY <1>1, WFMin, Zenon
<1>3. PICK n \in T : \A m \in T : ~(<<m, n>> \in LessThan)
  BY <1>2
<1>4. ASSUME NEW m \in T, m < n PROVE <<m, n>> \in LessThan
  BY <1>4 DEF LessThan
<1>5. ASSUME NEW m \in T PROVE n <= m
  <2>1. ~(m < n)
    BY <1>3, <1>4
  <2> QED BY <2>1
<1> QED BY <1>5

(* What holds of zero and passes on from number to number.                 *)
LEMMA Induct == ASSUME NEW S, 0 \in S, \A n \in Nat : n \in S => n + 1 \in S PROVE Nat \subseteq S
<1>1. SUFFICES ASSUME Nat \ S # {} PROVE FALSE
  OBVIOUS
<1>2. PICK n \in Nat \ S : \A m \in Nat \ S : n <= m
  BY <1>1, Least
<1>3. n # 0 /\ n - 1 \in Nat
  BY <1>2
<1>4. n - 1 \in S
  BY <1>2, <1>3
<1> QED BY <1>2, <1>3, <1>4

(* The disks.                                                              *)

(* all that may stand in a path                                            *)
Words ==
  UNION {DOMAIN w.disk \cup UNION {{w.disk[v][k].name : k \in DOMAIN w.disk[v]} : v \in DOMAIN w.disk} :
           w \in World}

(* A volume of the machine.                                                *)
Disk(v) == world \in World /\ v \in DOMAIN world.disk

(* What is assumed of a disk, apart.                                       *)
LEMMA DiskIs ==
  ASSUME NEW v, Disk(v)
  PROVE  /\ v \in Words /\ Len(Table(v)) \in Nat /\ DOMAIN Table(v) = 1 .. Len(Table(v))
         /\ \A k \in DOMAIN Table(v) :
              /\ Table(v)[k].parent \in Nat /\ Table(v)[k].size \in Nat
              /\ Table(v)[k].used \in Nat /\ Table(v)[k].changed \in Nat
              /\ Table(v)[k].name \in Words
              /\ Table(v)[k].kind \in {"file", "folder", "junction", "cloud", "metafile"}
              /\ Table(v)[k].state \in {"ok", "sealed", "free", "corrupt"}
         /\ \A k, l \in Readable(v) :
              Table(v)[k].parent = Table(v)[l].parent /\ Table(v)[k].name = Table(v)[l].name => k = l
<1> DEFINE T == world.disk[v]
<1>1. T \in Seq(Range(T)) /\ \A k \in DOMAIN T :
         /\ {T[k].parent, T[k].size, T[k].used, T[k].changed} \subseteq Nat
         /\ T[k].kind \in {"file", "folder", "junction", "cloud", "metafile"}
         /\ T[k].state \in {"ok", "sealed", "free", "corrupt"}
  BY WorldOK DEF Disk
<1>2. \A k, l \in {k \in DOMAIN T : T[k].state \in {"ok", "sealed"}} :
        T[k].parent = T[l].parent /\ T[k].name = T[l].name => k = l
  BY WorldOK DEF Disk
<1>3. v \in Words /\ \A k \in DOMAIN T : T[k].name \in Words
  BY DEF Disk, Words
<1>4. Len(T) \in Nat /\ DOMAIN T = 1 .. Len(T)
  BY <1>1
<1>5. \A k \in Readable(v) : k \in DOMAIN T /\ T[k].state \in {"ok", "sealed"}
  BY <1>1 DEF Readable, Table
<1>6. \A k, l \in Readable(v) : T[k].parent = T[l].parent /\ T[k].name = T[l].name => k = l
  BY <1>2, <1>5
<1>7. \A k \in DOMAIN T :
        T[k].parent \in Nat /\ T[k].size \in Nat /\ T[k].used \in Nat /\ T[k].changed \in Nat
  BY <1>1
<1>8. Table(v) = T
  BY DEF Table
<1> HIDE DEF T
<1> QED BY <1>1, <1>3, <1>4, <1>6, <1>7, <1>8

(* A name joined to a path there is.                                       *)
LEMMA BelowIs == ASSUME NEW above, NEW name
                 PROVE  Below(above, name) = IF above = NoPath THEN NoPath ELSE Append(above, name)
<1> DEFINE S == {IF p = NoPath THEN p ELSE Append(p, name) : p \in {above}}
           x == IF above = NoPath THEN above ELSE Append(above, name)
<1>1. S = {x}
  OBVIOUS
<1>2. Below(above, name) = CHOOSE path \in S : TRUE
  BY DEF Below
<1> HIDE DEF S, x
<1>3. (CHOOSE path \in {x} : TRUE) = x
  OBVIOUS
<1>4. Below(above, name) = x
  BY <1>1, <1>2, <1>3
<1> QED BY <1>4 DEF x

(* The way from the root to each record of a table.                        *)

(* One round: from the ways that need n steps to those that need one more. *)
Longer(v, ways, n) ==
  [k \in DOMAIN Table(v) |->
     LET ref == Table(v)[k].parent IN
     IF ref = 0 THEN <<k>>
     ELSE IF n = 0 \/ ref \notin DOMAIN Table(v) THEN <<>>
     ELSE Below(ways[ref], k)]

(* The rounds of Lineage, which are its definition once there is a function
   that makes them.                                                        *)
LEMMA LineageRounds ==
  ASSUME NEW v, Len(Table(v)) \in Nat
  PROVE  \E up : /\ DOMAIN up = 0 .. Len(Table(v))
                 /\ \A n \in 0 .. Len(Table(v)) : up[n] = Longer(v, up[n - 1], n)
                 /\ Lineage(v) = up[Len(Table(v))]
<1> DEFINE N == Len(Table(v))
           Rounds(f, n) == f = [m \in 0 .. n |-> Longer(v, f[m - 1], m)]
           S == {n \in Nat : \E f : Rounds(f, n)}
<1>0. \A f, g : Longer(v, f, 0) = Longer(v, g, 0)
  BY DEF Longer
<1>1. 0 \in S
  <2> DEFINE f == [m \in 0 .. 0 |-> Longer(v, <<>>, 0)]
  <2>1. \A m \in 0 .. 0 : m = 0
    OBVIOUS
  <2>2. f = [m \in 0 .. 0 |-> Longer(v, f[m - 1], m)]
    BY <1>0, <2>1
  <2> QED BY <2>2
<1>2. \A n \in Nat : n \in S => n + 1 \in S
  <2> SUFFICES ASSUME NEW n \in Nat, NEW f, Rounds(f, n) PROVE \E g : Rounds(g, n + 1)
    OBVIOUS
  <2> DEFINE g == [m \in 0 .. n + 1 |-> Longer(v, f[m - 1], m)]
  <2>1. \A m \in 0 .. n : g[m] = f[m]
    OBVIOUS
  <2>2. \A m \in 0 .. n + 1 : Longer(v, g[m - 1], m) = Longer(v, f[m - 1], m)
    <3> SUFFICES ASSUME NEW m \in 0 .. n + 1 PROVE Longer(v, g[m - 1], m) = Longer(v, f[m - 1], m)
      OBVIOUS
    <3> HIDE DEF g
    <3>1. CASE m = 0
      BY <1>0, <3>1
    <3>2. CASE m # 0
      <4>1. m - 1 \in 0 .. n
        BY <3>2
      <4> QED BY <2>1, <4>1
    <3> QED BY <3>1, <3>2
  <2>3. g = [m \in 0 .. n + 1 |-> Longer(v, g[m - 1], m)]
    <3> HIDE DEF g
    <3>1. g = [m \in 0 .. n + 1 |-> Longer(v, f[m - 1], m)]
      BY DEF g
    <3> QED BY <2>2, <3>1
  <2> QED BY <2>3
<1>3. N \in S
  <2> HIDE DEF S
  <2>1. Nat \subseteq S
    BY <1>1, <1>2, Induct
  <2> QED BY <2>1
<1>4. \E f : Rounds(f, N)
  BY <1>3
<1> DEFINE up[n \in 0 .. N] == Longer(v, up[n - 1], n)
<1>5. Rounds(up, N)
  BY <1>4, Zenon
<1>6. Lineage(v) = up[N]
  BY DEF Lineage, Longer
<1> HIDE DEF up
<1>7. DOMAIN up = 0 .. N /\ \A n \in 0 .. N : up[n] = Longer(v, up[n - 1], n)
  BY <1>5, Zenon
<1> QED BY <1>6, <1>7

(* A way from the root: each record is in the folder before it.            *)
Chain(v, w) ==
  /\ w \in Seq(DOMAIN Table(v)) /\ w # <<>>
  /\ Table(v)[w[1]].parent = 0
  /\ \A i \in 1 .. Len(w) - 1 : Table(v)[w[i + 1]].parent = w[i]

(* It never comes back to a record.                                        *)
LEMMA ChainApart ==
  ASSUME NEW v, Disk(v), NEW w, Chain(v, w)
  PROVE  \A i, j \in 1 .. Len(w) : w[i] = w[j] => i = j
<1> DEFINE T == Table(v)
           S == {i \in 1 .. Len(w) : \E j \in 1 .. Len(w) : i < j /\ w[i] = w[j]}
<1>1. Len(w) \in Nat /\ \A i \in 1 .. Len(w) : w[i] \in DOMAIN T /\ w[i] # 0
  BY DiskIs DEF Chain
<1>2. ASSUME S # {} PROVE FALSE
  <2>1. PICK i \in S : \A m \in S : i <= m
    <3>1. S \subseteq Nat
      BY <1>1
    <3> HIDE DEF S
    <3> QED BY <3>1, <1>2, Least
  <2>2. PICK j \in 1 .. Len(w) : i < j /\ w[i] = w[j]
    OBVIOUS
  <2>3. i \in 1 .. Len(w) /\ i \in Nat /\ j \in Nat /\ j - 1 \in 1 .. Len(w) - 1 /\ j - 1 \in 1 .. Len(w)
    BY <1>1, <2>2
  <2>4. T[w[j]].parent = w[j - 1]
    <3>1. T[w[(j - 1) + 1]].parent = w[j - 1]
      BY <2>3 DEF Chain
    <3>2. (j - 1) + 1 = j
      BY <2>3
    <3> QED BY <3>1, <3>2
  <2>5. CASE i = 1
    BY <1>1, <2>2, <2>3, <2>4, <2>5 DEF Chain
  <2>6. CASE i # 1
    <3>1. i - 1 \in 1 .. Len(w) - 1 /\ i - 1 \in 1 .. Len(w) /\ (i - 1) + 1 = i
      BY <1>1, <2>3, <2>6
    <3>2. T[w[i]].parent = w[i - 1]
      BY <3>1 DEF Chain
    <3>3. w[i - 1] = w[j - 1] /\ i - 1 < j - 1
      BY <2>2, <2>3, <2>4, <3>2
    <3>4. i - 1 \in S
      BY <2>3, <3>1, <3>3
    <3> QED BY <2>1, <2>3, <3>4
  <2> QED BY <2>5, <2>6
<1>3. S = {}
  BY <1>2
<1>4. ASSUME NEW i \in 1 .. Len(w), NEW j \in 1 .. Len(w), w[i] = w[j], i # j PROVE FALSE
  <2>1. i < j \/ j < i
    BY <1>1, <1>4
  <2>2. i \in S \/ j \in S
    BY <1>4, <2>1
  <2> QED BY <1>3, <2>2
<1> QED BY <1>4

(* Hence it is not longer than the table.                                  *)
LEMMA ChainShort ==
  ASSUME NEW v, Disk(v), NEW w, Chain(v, w)
  PROVE  Len(w) <= Len(Table(v))
<1> DEFINE N == Len(Table(v)) M == Len(w)
<1>1. N \in Nat /\ M \in Nat /\ w \in [1 .. M -> 1 .. N]
  BY DiskIs DEF Chain
<1>2. w \in Injection(1 .. M, 1 .. N)
  BY <1>1, ChainApart DEF Injection, IsInjective
<1> HIDE DEF N, M
<1>3. IsFiniteSet(1 .. N) /\ Cardinality(1 .. N) = N /\ Cardinality(1 .. M) = M
  <2>1. \A n \in Nat : 1 \in Int /\ n \in Int /\ (IF 1 > n THEN 0 ELSE n - 1 + 1) = n
    OBVIOUS
  <2> QED BY <1>1, <2>1, FS_Interval
<1>4. Cardinality(1 .. M) <= Cardinality(1 .. N)
  BY <1>2, <1>3, FS_Injection
<1> QED BY <1>1, <1>3, <1>4 DEF N, M

(* A way to a record in at most n steps up.                                *)
ChainTo(v, w, k, n) == Chain(v, w) /\ w[Len(w)] = k /\ Len(w) <= n + 1

(* One record more.                                                        *)
LEMMA ChainOne ==
  ASSUME NEW v, Disk(v), NEW k \in DOMAIN Table(v), Table(v)[k].parent = 0, NEW n \in Nat
  PROVE  ChainTo(v, <<k>>, k, n)
BY DEF ChainTo, Chain

(* The way to a record is the way to its folder and the record.            *)
LEMMA ChainMore ==
  ASSUME NEW v, Disk(v), NEW k \in DOMAIN Table(v), NEW n \in Nat,
         NEW w, ChainTo(v, w, Table(v)[k].parent, n)
  PROVE  ChainTo(v, Append(w, k), k, n + 1) /\ Append(w, k) # <<>>
<1> DEFINE T == Table(v) z == Append(w, k)
<1>1. /\ w \in Seq(DOMAIN T) /\ w # <<>> /\ T[w[1]].parent = 0 /\ w[Len(w)] = T[k].parent /\ Len(w) <= n + 1
      /\ \A i \in 1 .. Len(w) - 1 : T[w[i + 1]].parent = w[i]
  BY DEF ChainTo, Chain
<1>2. Len(w) \in Nat /\ Len(w) >= 1
  BY <1>1
<1>3. z \in Seq(DOMAIN T) /\ Len(z) = Len(w) + 1
      /\ z[Len(w) + 1] = k /\ \A i \in 1 .. Len(w) : z[i] = w[i]
  BY <1>1
<1> HIDE DEF T, z
<1>4. z # <<>> /\ z[1] = w[1]
  BY <1>2, <1>3
<1>5. ASSUME NEW i \in 1 .. Len(w) PROVE T[z[i + 1]].parent = z[i]
  <2>1. CASE i = Len(w)
    BY <1>1, <1>3, <2>1
  <2>2. CASE i # Len(w)
    <3>1. i \in 1 .. Len(w) - 1 /\ i + 1 \in 1 .. Len(w)
      BY <1>2, <2>2
    <3> QED BY <1>1, <1>3, <3>1
  <2> QED BY <2>1, <2>2
<1>6. Len(z) - 1 = Len(w) /\ Len(z) <= (n + 1) + 1
  BY <1>1, <1>2, <1>3
<1>7. Chain(v, z)
  BY <1>1, <1>3, <1>4, <1>5, <1>6 DEF Chain, T
<1> QED BY <1>3, <1>4, <1>6, <1>7 DEF ChainTo, z

(* One round, record by record.                                            *)
LEMMA RoundIs ==
  ASSUME NEW v, NEW ways, NEW n \in Nat, NEW k \in DOMAIN Table(v)
  PROVE  /\ Table(v)[k].parent = 0 => Longer(v, ways, n)[k] = <<k>>
         /\ Table(v)[k].parent # 0 /\ (n = 0 \/ Table(v)[k].parent \notin DOMAIN Table(v)) =>
              Longer(v, ways, n)[k] = <<>>
         /\ Table(v)[k].parent # 0 /\ n # 0 /\ Table(v)[k].parent \in DOMAIN Table(v) =>
              Longer(v, ways, n)[k] = Below(ways[Table(v)[k].parent], k)
BY DEF Longer

(* The rounds of Lineage.                                                  *)
Rounds(v, up) == \A n \in 0 .. Len(Table(v)) : up[n] = Longer(v, up[n - 1], n)

(* Each round of the rounds makes the ways one record longer ...           *)
LEMMA NextRound ==
  ASSUME NEW v, Disk(v), NEW up, Rounds(v, up), NEW n \in Nat, n + 1 <= Len(Table(v))
  PROVE  /\ n \in 0 .. Len(Table(v)) /\ n + 1 \in 0 .. Len(Table(v)) /\ n + 1 # 0 /\ n + 1 \in Nat
         /\ up[n + 1] = Longer(v, up[n], n + 1)
<1>1. Len(Table(v)) \in Nat
  BY DiskIs
<1>2. n \in 0 .. Len(Table(v)) /\ n + 1 \in 0 .. Len(Table(v)) /\ n + 1 # 0 /\ n + 1 \in Nat /\ (n + 1) - 1 = n
  BY <1>1
<1> QED BY <1>2 DEF Rounds

(* ... from the first round on.                                            *)
LEMMA FirstRound ==
  ASSUME NEW v, Disk(v), NEW up, Rounds(v, up)
  PROVE  up[0] = Longer(v, up[0 - 1], 0)
<1>1. 0 \in 0 .. Len(Table(v))
  BY DiskIs
<1> QED BY <1>1 DEF Rounds

(* The ways that need at most n steps up.                                  *)
LEMMA RoundsAreChains ==
  ASSUME NEW v, Disk(v), NEW up, Rounds(v, up)
  PROVE  \A n \in 0 .. Len(Table(v)) : \A k \in DOMAIN Table(v) :
           up[n][k] # <<>> => ChainTo(v, up[n][k], k, n)
<1> DEFINE Good(n) == \A k \in DOMAIN Table(v) : up[n][k] # <<>> => ChainTo(v, up[n][k], k, n)
           S == {n \in Nat : n <= Len(Table(v)) => Good(n)}
<1>1. Good(0)
  <2> SUFFICES ASSUME NEW k \in DOMAIN Table(v), up[0][k] # <<>> PROVE ChainTo(v, up[0][k], k, 0)
    OBVIOUS
  <2>1. up[0] = Longer(v, up[0 - 1], 0)
    BY FirstRound
  <2>2. Table(v)[k].parent = 0
    BY <2>1, RoundIs
  <2>3. up[0][k] = <<k>>
    BY <2>1, <2>2, RoundIs
  <2> QED BY <2>2, <2>3, ChainOne
<1>2. ASSUME NEW n \in Nat, n + 1 <= Len(Table(v)), Good(n) PROVE Good(n + 1)
  <2> SUFFICES ASSUME NEW k \in DOMAIN Table(v), up[n + 1][k] # <<>> PROVE ChainTo(v, up[n + 1][k], k, n + 1)
    OBVIOUS
  <2> DEFINE p == Table(v)[k].parent
  <2>1. up[n + 1] = Longer(v, up[n], n + 1) /\ n + 1 # 0 /\ n + 1 \in Nat
    BY <1>2, NextRound
  <2>2. CASE p = 0
    <3>1. up[n + 1][k] = <<k>>
      BY <2>1, <2>2, RoundIs
    <3> QED BY <2>1, <2>2, <3>1, ChainOne
  <2>3. CASE p # 0
    <3>1. p \in DOMAIN Table(v)
      BY <2>1, <2>3, RoundIs
    <3>2. up[n + 1][k] = Below(up[n][p], k)
      BY <2>1, <2>3, <3>1, RoundIs
    <3>3. up[n][p] # <<>> /\ up[n + 1][k] = Append(up[n][p], k)
      BY <3>2, BelowIs DEF NoPath
    <3>4. ChainTo(v, up[n][p], p, n)
      BY <1>2, <3>1, <3>3
    <3> QED BY <3>3, <3>4, ChainMore
  <2> QED BY <2>2, <2>3
<1> HIDE DEF Good
<1>3. \A n \in Nat : n \in S => n + 1 \in S
  <2>1. Len(Table(v)) \in Nat
    BY DiskIs
  <2> QED BY <1>2, <2>1
<1>4. Nat \subseteq S
  <2>1. 0 \in S
    BY <1>1
  <2> HIDE DEF S
  <2> QED BY <2>1, <1>3, Induct
<1>5. \A n \in 0 .. Len(Table(v)) : Good(n)
  <2>1. Len(Table(v)) \in Nat
    BY DiskIs
  <2> QED BY <1>4, <2>1
<1> QED BY <1>5 DEF Good

(* More steps find the same way.                                           *)
LEMMA RoundsAgree ==
  ASSUME NEW v, Disk(v), NEW up, Rounds(v, up)
  PROVE  \A n, m \in 0 .. Len(Table(v)) : \A k \in DOMAIN Table(v) :
           up[n][k] # <<>> /\ Len(up[n][k]) <= m + 1 => up[m][k] = up[n][k]
<1> DEFINE N == Len(Table(v))
           Good(n) == \A m \in 0 .. N : \A k \in DOMAIN Table(v) :
                        up[n][k] # <<>> /\ Len(up[n][k]) <= m + 1 => up[m][k] = up[n][k]
           S == {n \in Nat : n <= N => Good(n)}
<1>0. N \in Nat /\ \A m \in 0 .. N : m \in Nat /\ up[m] = Longer(v, up[m - 1], m)
  BY DiskIs DEF Rounds
<1>1. Good(0)
  <2> SUFFICES ASSUME NEW m \in 0 .. N, NEW k \in DOMAIN Table(v), up[0][k] # <<>> PROVE up[m][k] = up[0][k]
    OBVIOUS
  <2>1. up[0] = Longer(v, up[0 - 1], 0)
    BY FirstRound
  <2>2. Table(v)[k].parent = 0
    BY <2>1, RoundIs
  <2>3. up[0][k] = <<k>>
    BY <2>1, <2>2, RoundIs
  <2> QED BY <1>0, <2>2, <2>3, RoundIs
<1>2. ASSUME NEW n \in Nat, n + 1 <= N, Good(n) PROVE Good(n + 1)
  <2> SUFFICES ASSUME NEW m \in 0 .. N, NEW k \in DOMAIN Table(v),
                      up[n + 1][k] # <<>>, Len(up[n + 1][k]) <= m + 1
               PROVE  up[m][k] = up[n + 1][k]
    OBVIOUS
  <2> DEFINE p == Table(v)[k].parent
  <2>1. up[n + 1] = Longer(v, up[n], n + 1) /\ n + 1 # 0 /\ n + 1 \in Nat /\ n \in 0 .. N
    BY <1>2, NextRound
  <2>2. CASE p = 0
    <3>1. up[n + 1][k] = <<k>>
      BY <2>1, <2>2, RoundIs
    <3> QED BY <1>0, <2>2, <3>1, RoundIs
  <2>3. CASE p # 0
    <3>1. p \in DOMAIN Table(v)
      BY <2>1, <2>3, RoundIs
    <3>2. up[n + 1][k] = Below(up[n][p], k)
      BY <2>1, <2>3, <3>1, RoundIs
    <3>3. up[n][p] # <<>> /\ up[n + 1][k] = Append(up[n][p], k)
      BY <3>2, BelowIs DEF NoPath
    <3>4. ChainTo(v, up[n][p], p, n)
      BY <2>1, <3>1, <3>3, RoundsAreChains
    <3>5. Len(up[n][p]) \in Nat /\ Len(up[n][p]) >= 1 /\ Len(Append(up[n][p], k)) = Len(up[n][p]) + 1
      BY <3>4 DEF ChainTo, Chain
    <3>6. m \in Nat /\ Len(up[n][p]) + 1 <= m + 1
      BY <1>0, <3>3, <3>5
    <3>7. m # 0 /\ m - 1 \in 0 .. N /\ Len(up[n][p]) <= (m - 1) + 1
      BY ONLY <1>0, <3>5, <3>6, m \in 0 .. N
    <3>8. up[m - 1][p] = up[n][p]
      BY <1>2, <3>1, <3>3, <3>7
    <3>9. up[m][k] = Below(up[m - 1][p], k)
      BY <1>0, <2>3, <3>1, <3>7, RoundIs
    <3> QED BY <3>2, <3>8, <3>9
  <2> QED BY <2>2, <2>3
<1> HIDE DEF Good, N
<1>3. \A n \in Nat : n \in S => n + 1 \in S
  BY <1>0, <1>2
<1>4. Nat \subseteq S
  <2>1. 0 \in S
    BY <1>1
  <2> HIDE DEF S
  <2> QED BY <2>1, <1>3, Induct
<1>5. \A n \in 0 .. N : Good(n)
  BY <1>0, <1>4
<1> QED BY <1>5 DEF Good, N

(* Lineage from record to record.                                          *)
LEMMA LineageIs ==
  ASSUME NEW v, Disk(v)
  PROVE  /\ DOMAIN Lineage(v) = DOMAIN Table(v)
         /\ \A k \in DOMAIN Table(v) :
              /\ Lineage(v)[k] \in Seq(DOMAIN Table(v))
              /\ Table(v)[k].parent = 0 => Lineage(v)[k] = <<k>>
              /\ Table(v)[k].parent # 0 /\ Table(v)[k].parent \notin DOMAIN Table(v) => Lineage(v)[k] = <<>>
              /\ Table(v)[k].parent # 0 /\ Table(v)[k].parent \in DOMAIN Table(v) =>
                   Lineage(v)[k] = Below(Lineage(v)[Table(v)[k].parent], k)
<1> DEFINE N == Len(Table(v))
<1>1. N \in Nat /\ DOMAIN Table(v) = 1 .. N
  BY DiskIs
<1>2. PICK up : Rounds(v, up) /\ Lineage(v) = up[N]
  BY <1>1, LineageRounds DEF Rounds
<1>3. N \in 0 .. N /\ up[N] = Longer(v, up[N - 1], N)
  BY <1>1, <1>2 DEF Rounds
<1>4. DOMAIN up[N] = DOMAIN Table(v)
  BY <1>3 DEF Longer
<1>5. ASSUME NEW k \in DOMAIN Table(v) PROVE up[N][k] \in Seq(DOMAIN Table(v))
  <2>1. CASE up[N][k] # <<>>
    BY <1>2, <1>3, <2>1, RoundsAreChains DEF ChainTo, Chain
  <2>2. CASE up[N][k] = <<>>
    <3>1. <<>> \in Seq(DOMAIN Table(v))
      OBVIOUS
    <3> QED BY <2>2, <3>1
  <2> QED BY <2>1, <2>2
<1>6. ASSUME NEW k \in DOMAIN Table(v), Table(v)[k].parent # 0, Table(v)[k].parent \in DOMAIN Table(v)
      PROVE  up[N][k] = Below(up[N][Table(v)[k].parent], k)
  <2> DEFINE p == Table(v)[k].parent
  <2>1. N # 0 /\ N - 1 \in 0 .. N
    BY <1>1
  <2>2. up[N][k] = Below(up[N - 1][p], k)
    BY <1>1, <1>3, <1>6, <2>1, RoundIs
  <2>3. CASE up[N][p] # <<>>
    <3>1. ChainTo(v, up[N][p], p, N)
      BY <1>2, <1>3, <1>6, <2>3, RoundsAreChains
    <3>2. Len(up[N][p]) <= N
      BY <3>1, ChainShort DEF ChainTo
    <3>3. Len(up[N][p]) <= (N - 1) + 1
      BY <1>1, <3>2
    <3>4. up[N - 1][p] = up[N][p]
      BY <1>2, <1>3, <1>6, <2>1, <2>3, <3>3, RoundsAgree
    <3> QED BY <2>2, <3>4
  <2>4. CASE up[N][p] = <<>>
    <3>1. ASSUME up[N - 1][p] # <<>> PROVE FALSE
      <4>1. ChainTo(v, up[N - 1][p], p, N - 1)
        BY <1>2, <1>6, <2>1, <3>1, RoundsAreChains
      <4>2. Len(up[N - 1][p]) \in Nat /\ Len(up[N - 1][p]) <= N
        BY <4>1, ChainShort DEF ChainTo, Chain
      <4>3. Len(up[N - 1][p]) <= N + 1
        BY <1>1, <4>2
      <4>4. up[N][p] = up[N - 1][p]
        <5>1. \A n, m \in 0 .. N : \A i \in DOMAIN Table(v) :
                up[n][i] # <<>> /\ Len(up[n][i]) <= m + 1 => up[m][i] = up[n][i]
          BY <1>2, RoundsAgree
        <5>2. p \in DOMAIN Table(v)
          BY <1>6
        <5> HIDE DEF N, p
        <5> QED BY <1>3, <2>1, <3>1, <4>3, <5>1, <5>2
      <4> QED BY <2>4, <3>1, <4>4
    <3> QED BY <2>2, <2>4, <3>1
  <2> QED BY <2>3, <2>4
<1>7. ASSUME NEW k \in DOMAIN Table(v)
      PROVE  /\ Table(v)[k].parent = 0 => up[N][k] = <<k>>
             /\ Table(v)[k].parent # 0 /\ Table(v)[k].parent \notin DOMAIN Table(v) => up[N][k] = <<>>
  BY <1>1, <1>3, RoundIs
<1> QED BY <1>2, <1>4, <1>5, <1>6, <1>7

(* The records with a way that can be followed, and where it leads.        *)
Reach(v) ==
  {k \in DOMAIN Table(v) :
     Lineage(v)[k] # <<>> /\ \A a \in Range(Front(Lineage(v)[k])) : Passable(v, Table(v)[a])}

(* A record's way from the root, its length, its path and its folder.      *)
Route(v, k) == IF k = 0 THEN <<>> ELSE Lineage(v)[k]

Depth(v, k) == Len(Route(v, k))

PathTo(v, k) == <<v>> \o [n \in DOMAIN Route(v, k) |-> Table(v)[Route(v, k)[n]].name]

Parent(v, k) == Table(v)[k].parent

(* Sequences and their last elements.                                      *)
LEMMA FrontAppend ==
  ASSUME NEW S, NEW s \in Seq(S), NEW e \in S
  PROVE  /\ Front(Append(s, e)) = s /\ Last(Append(s, e)) = e
         /\ Range(Append(s, e)) = Range(s) \cup {e}
         /\ Append(s, e) \in Seq(S) /\ Len(Append(s, e)) = Len(s) + 1 /\ Append(s, e) # <<>>
<1> DEFINE z == Append(s, e)
<1>1. z \in Seq(S) /\ Len(z) = Len(s) + 1 /\ Len(s) \in Nat /\ z # <<>>
      /\ (\A i \in 1 .. Len(s) : z[i] = s[i]) /\ z[Len(s) + 1] = e
      /\ DOMAIN s = 1 .. Len(s) /\ DOMAIN z = 1 .. Len(z)
  BY AppendProperties, LenProperties
<1> HIDE DEF z
<1>2. /\ SubSeq(z, 1, Len(z) - 1) \in Seq(S)
      /\ Len(SubSeq(z, 1, Len(z) - 1)) = IF 1 <= Len(z) - 1 THEN Len(z) - 1 - 1 + 1 ELSE 0
      /\ \A i \in 1 .. Len(z) - 1 - 1 + 1 : SubSeq(z, 1, Len(z) - 1)[i] = z[1 + i - 1]
  <2>1. 1 \in Int /\ Len(z) - 1 \in Int /\ \A i \in 1 .. Len(z) - 1 : z[i] \in S
    BY <1>1
  <2> QED BY <2>1, SubSeqProperties
<1>3. Len(SubSeq(z, 1, Len(z) - 1)) = Len(s) /\ \A i \in 1 .. Len(s) : SubSeq(z, 1, Len(z) - 1)[i] = s[i]
  BY <1>1, <1>2
<1>4. SubSeq(z, 1, Len(z) - 1) = s
  BY <1>2, <1>3, SeqEqual
<1>5. Range(z) = Range(s) \cup {e}
  BY <1>1 DEF Range
<1> QED BY <1>1, <1>4, <1>5 DEF Front, Last, z

(* Reach and paths, from record to record.                                 *)
LEMMA ReachIs ==
  ASSUME NEW v, Disk(v), NEW k \in DOMAIN Table(v)
  PROVE  /\ k \in Reach(v) <=> \/ Parent(v, k) = 0
                               \/ Parent(v, k) \in Reach(v) /\ Passable(v, Table(v)[Parent(v, k)])
         /\ k \in Reach(v) => /\ Route(v, k) = Append(Route(v, Parent(v, k)), k)
                              /\ Route(v, Parent(v, k)) \in Seq(DOMAIN Table(v))
                              /\ Route(v, k) \in Seq(DOMAIN Table(v))
<1> DEFINE p == Parent(v, k) L == Lineage(v)
<1>0. k # 0 /\ 0 \notin DOMAIN Table(v)
  BY DiskIs
<1>1. CASE p = 0
  <2>1. L[k] = <<k>>
    BY <1>1, LineageIs DEF Parent
  <2>2. Front(<<k>>) = <<>> /\ Range(<<>>) = {} /\ <<k>> # <<>>
    BY DEF Front, Range
  <2>3. k \in Reach(v)
    BY <2>1, <2>2 DEF Reach
  <2> QED BY <1>0, <1>1, <2>1, <2>3 DEF Route
<1>2. CASE p # 0 /\ p \notin DOMAIN Table(v)
  <2>1. L[k] = <<>>
    BY <1>2, LineageIs DEF Parent
  <2> QED BY <1>2, <2>1 DEF Reach
<1>3. CASE p # 0 /\ p \in DOMAIN Table(v)
  <2>1. L[k] = Below(L[p], k) /\ L[p] \in Seq(DOMAIN Table(v)) /\ L[k] \in Seq(DOMAIN Table(v))
    BY <1>3, LineageIs DEF Parent
  <2>2. CASE L[p] = <<>>
    <3>1. L[k] = <<>>
      BY <2>1, <2>2, BelowIs DEF NoPath
    <3> QED BY <1>3, <2>2, <3>1 DEF Reach
  <2>3. CASE L[p] # <<>>
    <3>1. L[k] = Append(L[p], k)
      BY <2>1, <2>3, BelowIs DEF NoPath
    <3>2. Front(L[k]) = L[p] /\ L[k] # <<>>
      BY <2>1, <3>1, FrontAppend
    <3>3. \E n \in Nat : ChainTo(v, L[p], p, n)
      <4>1. PICK up : Rounds(v, up) /\ Lineage(v) = up[Len(Table(v))]
        BY DiskIs, LineageRounds DEF Rounds
      <4>2. Len(Table(v)) \in 0 .. Len(Table(v)) /\ Len(Table(v)) \in Nat
        BY DiskIs
      <4> QED BY <1>3, <2>3, <4>1, <4>2, RoundsAreChains
    <3>4. L[p][Len(L[p])] = p /\ Len(L[p]) \in Nat \ {0}
      BY <2>1, <2>3, <3>3, EmptySeq DEF ChainTo
    <3>5. L[p] = Append(Front(L[p]), p)
      <4>1. PICK s \in Seq(DOMAIN Table(v)), e \in DOMAIN Table(v) : L[p] = Append(s, e)
        BY <2>1, <2>3, SequenceEmptyOrAppend
      <4>2. Front(L[p]) = s /\ Last(L[p]) = e
        BY <4>1, FrontAppend
      <4>3. e = p
        BY <3>4, <4>2 DEF Last
      <4> QED BY <4>1, <4>2, <4>3
    <3>6. Range(L[p]) = Range(Front(L[p])) \cup {p}
      <4>1. PICK s \in Seq(DOMAIN Table(v)), e \in DOMAIN Table(v) : L[p] = Append(s, e)
        BY <2>1, <2>3, SequenceEmptyOrAppend
      <4>2. Front(L[p]) = s /\ Last(L[p]) = e /\ Range(L[p]) = Range(s) \cup {e}
        BY <4>1, FrontAppend
      <4>3. e = p
        BY <3>4, <4>2 DEF Last
      <4> QED BY <4>2, <4>3
    <3>7. k \in Reach(v) <=> p \in Reach(v) /\ Passable(v, Table(v)[p])
      BY <1>3, <2>3, <3>2, <3>6 DEF Reach
    <3> QED BY <1>0, <1>3, <2>1, <3>1, <3>7 DEF Route
  <2> QED BY <2>2, <2>3
<1> QED BY <1>1, <1>2, <1>3

(* The root's path is the volume.                                          *)
LEMMA PathToRoot == ASSUME NEW v PROVE PathTo(v, 0) = <<v>> /\ Depth(v, 0) = 0
<1>1. Route(v, 0) = <<>> /\ DOMAIN <<>> = {}
  BY DEF Route
<1>2. [n \in DOMAIN Route(v, 0) |-> Table(v)[Route(v, 0)[n]].name] = <<>>
  BY <1>1
<1>3. <<v>> \o <<>> = <<v>> /\ Len(<<>>) = 0
  <2>1. <<v>> \in Seq({v})
    OBVIOUS
  <2> QED BY <2>1, ConcatEmptySeq
<1> QED BY <1>1, <1>2, <1>3 DEF PathTo, Depth

(* A record's path is its folder's path and its name, one longer.          *)
LEMMA PathToIs ==
  ASSUME NEW v, Disk(v), NEW k \in Reach(v)
  PROVE  /\ PathTo(v, k) = Append(PathTo(v, Parent(v, k)), Table(v)[k].name)
         /\ PathTo(v, Parent(v, k)) \in Seq(Words) /\ PathTo(v, k) \in Seq(Words)
         /\ Depth(v, k) = Depth(v, Parent(v, k)) + 1
         /\ Depth(v, Parent(v, k)) \in Nat
         /\ Len(PathTo(v, k)) = Depth(v, k) + 1
         /\ Len(PathTo(v, Parent(v, k))) = Depth(v, Parent(v, k)) + 1
<1> DEFINE p == Parent(v, k)
           a == Route(v, p) b == Route(v, k)
           f == [n \in DOMAIN a |-> Table(v)[a[n]].name]
           g == [n \in DOMAIN b |-> Table(v)[b[n]].name]
           x == Table(v)[k].name
<1>1. k \in DOMAIN Table(v)
  BY DEF Reach
<1>2. /\ b = Append(a, k) /\ a \in Seq(DOMAIN Table(v)) /\ b \in Seq(DOMAIN Table(v))
  BY <1>1, ReachIs
<1>3. /\ Len(a) \in Nat /\ DOMAIN a = 1 .. Len(a) /\ Len(b) = Len(a) + 1 /\ DOMAIN b = 1 .. Len(b)
      /\ (\A i \in 1 .. Len(a) : b[i] = a[i]) /\ b[Len(a) + 1] = k
      /\ \A i \in 1 .. Len(a) : a[i] \in DOMAIN Table(v)
  BY <1>1, <1>2
<1>4. v \in Words /\ x \in Words /\ \A i \in DOMAIN Table(v) : Table(v)[i].name \in Words
  BY <1>1, DiskIs
<1> HIDE DEF a, b, p, x
<1>5. f \in Seq(Words) /\ Len(f) = Len(a)
  BY <1>3, <1>4
<1>6. g = Append(f, x)
  <2>1. Append(f, x) \in [1 .. Len(a) + 1 -> Words]
    <3> HIDE DEF f
    <3>1. Append(f, x) \in Seq(Words) /\ Len(Append(f, x)) = Len(a) + 1
      BY <1>4, <1>5, AppendProperties
    <3> QED BY <3>1, LenProperties
  <2>2. \A i \in 1 .. Len(a) + 1 : Append(f, x)[i] = IF i <= Len(a) THEN f[i] ELSE x
    <3> HIDE DEF f
    <3>1. \A i \in 1 .. Len(a) + 1 : i <= Len(a) => Append(f, x)[i] = f[i]
      BY <1>3, <1>4, <1>5, AppendProperties
    <3>2. \A i \in 1 .. Len(a) + 1 : ~(i <= Len(a)) => i = Len(a) + 1
      BY <1>3
    <3>3. Append(f, x)[Len(a) + 1] = x
      BY <1>4, <1>5, AppendProperties
    <3> QED BY <3>1, <3>2, <3>3
  <2>3. g \in [1 .. Len(a) + 1 -> Words] /\ \A i \in 1 .. Len(a) + 1 : g[i] = IF i <= Len(a) THEN f[i] ELSE x
    BY <1>1, <1>3, <1>4 DEF x
  <2> HIDE DEF f, g
  <2> QED BY <2>1, <2>2, <2>3
<1> HIDE DEF f, g
<1>7. <<v>> \o g = Append(<<v>> \o f, x) /\ <<v>> \o f \in Seq(Words) /\ Len(<<v>> \o f) = Len(f) + 1
  <2>1. <<v>> \in Seq(Words) /\ Len(<<v>>) = 1 /\ <<x>> \in Seq(Words)
    BY <1>4
  <2>2. g = f \o <<x>>
    BY <1>4, <1>5, <1>6, AppendIsConcat
  <2>3. <<v>> \o f \in Seq(Words) /\ Len(<<v>> \o f) = Len(f) + 1
    BY <1>3, <1>5, <2>1, ConcatProperties
  <2>4. <<v>> \o (f \o <<x>>) = (<<v>> \o f) \o <<x>>
    BY <1>5, <2>1, ConcatAssociative
  <2>5. Append(<<v>> \o f, x) = (<<v>> \o f) \o <<x>>
    BY <1>4, <2>3, AppendIsConcat
  <2> QED BY <2>2, <2>3, <2>4, <2>5
<1>8. PathTo(v, k) = <<v>> \o g /\ PathTo(v, p) = <<v>> \o f
  BY DEF PathTo, f, g, a, b
<1>9. Depth(v, k) = Len(b) /\ Depth(v, p) = Len(a)
  BY DEF Depth, a, b
<1>10. Append(<<v>> \o f, x) \in Seq(Words) /\ Len(Append(<<v>> \o f, x)) = Len(<<v>> \o f) + 1
  BY <1>4, <1>7, AppendProperties
<1> QED BY <1>3, <1>5, <1>7, <1>8, <1>9, <1>10 DEF p, x

(* What passes on from each folder to what lies in it holds everywhere.    *)
LEMMA TreeInduct ==
  ASSUME NEW v, Disk(v), NEW G,
         \A k \in Reach(v) : Parent(v, k) = 0 \/ (Parent(v, k) \in Reach(v) /\ Parent(v, k) \in G) => k \in G
  PROVE  Reach(v) \subseteq G
<1> DEFINE S == {d \in Nat : \E k \in Reach(v) : k \notin G /\ Depth(v, k) = d}
<1>1. SUFFICES ASSUME NEW k \in Reach(v), k \notin G PROVE FALSE
  OBVIOUS
<1>2. \A l \in Reach(v) : Depth(v, l) \in Nat /\ Depth(v, Parent(v, l)) \in Nat /\ Depth(v, l) = Depth(v, Parent(v, l)) + 1
  <2> SUFFICES ASSUME NEW l \in Reach(v)
               PROVE  Depth(v, l) \in Nat /\ Depth(v, Parent(v, l)) \in Nat /\ Depth(v, l) = Depth(v, Parent(v, l)) + 1
    OBVIOUS
  <2>1. Depth(v, l) = Depth(v, Parent(v, l)) + 1 /\ Depth(v, Parent(v, l)) \in Nat
    BY PathToIs
  <2> QED BY <2>1
<1>3. S # {}
  BY <1>1, <1>2
<1>4. PICK d \in S : \A m \in S : d <= m
  <2> HIDE DEF S
  <2>1. S \subseteq Nat
    BY DEF S
  <2> QED BY <1>3, <2>1, Least
<1>5. PICK l \in Reach(v) : l \notin G /\ Depth(v, l) = d
  BY <1>4
<1>6. Parent(v, l) # 0 /\ Parent(v, l) \in Reach(v) /\ Parent(v, l) \notin G
  <2>1. l \in DOMAIN Table(v)
    BY DEF Reach
  <2> QED BY <1>5, <2>1, ReachIs
<1>7. Depth(v, Parent(v, l)) \in S
  BY <1>2, <1>6
<1>8. d <= Depth(v, Parent(v, l))
  BY <1>4, <1>7
<1> HIDE DEF S
<1> QED BY <1>2, <1>5, <1>8

(* The records an intact one lies in are intact themselves.                *)
LEMMA PassableIntact ==
  ASSUME NEW v, Disk(v), NEW k \in DOMAIN Table(v), Passable(v, Table(v)[k])
  PROVE  k \in Readable(v)
BY DiskIs DEF Passable, Readable

(* No two have one path.                                                   *)
Intact(v) == {k \in Reach(v) : k \in Readable(v)}

(* Records whose folders are all there have different paths.               *)
LEMMA PathsApart ==
  ASSUME NEW v, Disk(v), NEW k \in Intact(v) \cup {0}, NEW l \in Intact(v) \cup {0}, PathTo(v, k) = PathTo(v, l)
  PROVE  k = l
<1> DEFINE G == {i \in Intact(v) : \A j \in Intact(v) : PathTo(v, i) = PathTo(v, j) => i = j}
                \cup (Reach(v) \ Readable(v))
<1>0. PathTo(v, 0) = <<v>> /\ Len(<<v>>) = 1
  BY PathToRoot
<1>1. \A i \in Reach(v) : Len(PathTo(v, i)) # 1
  <2> SUFFICES ASSUME NEW i \in Reach(v) PROVE Len(PathTo(v, i)) # 1
    OBVIOUS
  <2>1. /\ Depth(v, i) = Depth(v, Parent(v, i)) + 1 /\ Depth(v, Parent(v, i)) \in Nat
        /\ Len(PathTo(v, i)) = Depth(v, i) + 1
    BY PathToIs
  <2> QED BY <2>1
<1>2. ASSUME NEW i \in Reach(v), Parent(v, i) = 0 \/ (Parent(v, i) \in Reach(v) /\ Parent(v, i) \in G)
      PROVE  i \in G
  <2>1. SUFFICES ASSUME i \in Readable(v), NEW j \in Intact(v), PathTo(v, i) = PathTo(v, j) PROVE i = j
    BY DEF Intact
  <2>2. i \in DOMAIN Table(v) /\ j \in DOMAIN Table(v) /\ j \in Reach(v) /\ j \in Readable(v)
    BY DEF Reach, Intact
  <2> DEFINE a == Parent(v, i) b == Parent(v, j)
  <2>3. /\ PathTo(v, i) = Append(PathTo(v, a), Table(v)[i].name) /\ PathTo(v, a) \in Seq(Words)
        /\ PathTo(v, j) = Append(PathTo(v, b), Table(v)[j].name) /\ PathTo(v, b) \in Seq(Words)
    BY <2>2, PathToIs
  <2>4. Table(v)[i].name \in Words /\ Table(v)[j].name \in Words
    BY <2>2, DiskIs
  <2>5. PathTo(v, a) = PathTo(v, b) /\ Table(v)[i].name = Table(v)[j].name
    <3> HIDE DEF G, a, b
    <3>1. Append(PathTo(v, a), Table(v)[i].name) = Append(PathTo(v, b), Table(v)[j].name)
      BY <2>1, <2>3
    <3> QED BY <2>3, <2>4, <3>1, AppendInjective
  <2>6. a \in Intact(v) \cup {0} /\ b \in Intact(v) \cup {0}
    <3>1. a = 0 \/ (a \in Reach(v) /\ Passable(v, Table(v)[a]))
      BY <2>2, ReachIs
    <3>2. b = 0 \/ (b \in Reach(v) /\ Passable(v, Table(v)[b]))
      BY <2>2, ReachIs
    <3> QED BY <3>1, <3>2, PassableIntact DEF Intact, Reach
  <2>7. a = b
    <3>1. CASE a = 0
      BY <1>0, <1>1, <2>5, <2>6, <3>1 DEF Intact
    <3>2. CASE a # 0
      <4>1. a \in Intact(v) /\ a \in G
        BY <1>2, <2>6, <3>2
      <4>2. b \in Intact(v)
        BY <1>0, <1>1, <2>5, <2>6, <4>1 DEF Intact
      <4> QED BY <2>5, <4>1, <4>2 DEF Intact
    <3> QED BY <3>1, <3>2
  <2>8. i \in Readable(v) /\ j \in Readable(v)
    BY <2>1, <2>2
  <2> QED BY <2>5, <2>7, <2>8, DiskIs DEF Parent
<1>3. Reach(v) \subseteq G
  <2> HIDE DEF G
  <2> QED BY <1>2, TreeInduct
<1>4. \A i, j \in Intact(v) : PathTo(v, i) = PathTo(v, j) => i = j
  BY <1>3 DEF Intact
<1>5. CASE k = 0 \/ l = 0
  <2>1. PathTo(v, k) = <<v>> /\ PathTo(v, l) = <<v>>
    BY <1>0, <1>5
  <2> QED BY <1>0, <1>1, <2>1 DEF Intact
<1>6. CASE k # 0 /\ l # 0
  BY <1>4, <1>6
<1> QED BY <1>5, <1>6

(* What is excluded is so with all that lies below it.                     *)
LEMMA RootsAreSeqs ==
  ASSUME NEW v, world \in World
  PROVE  \A root \in Exclusions(v) : \E S : root \in Seq(S)
<1>1. \A root \in world.excluded : root \in Seq(Range(root))
  BY WorldOK
<1>2. \A f : <<v, f>> \in Seq({v, f})
  OBVIOUS
<1>3. \A root \in Exclusions(v) : root \in world.excluded \/ \E f : root = <<v, f>>
  BY DEF Exclusions
<1> SUFFICES ASSUME NEW root \in Exclusions(v) PROVE \E S : root \in Seq(S)
  OBVIOUS
<1>4. CASE root \in world.excluded
  BY <1>1, <1>4
<1>5. CASE \E f : root = <<v, f>>
  <2>1. PICK f : root = <<v, f>>
    BY <1>5
  <2>2. root \in Seq({v, f})
    BY <1>2, <2>1
  <2> QED BY <2>2
<1> QED BY <1>3, <1>4, <1>5

(* Being below goes on down.                                               *)
LEMMA UnderAppend ==
  ASSUME NEW S, NEW p \in Seq(S), NEW x \in S, NEW R, NEW root \in Seq(R), Under(p, root)
  PROVE  Under(Append(p, x), root)
<1> DEFINE z == Append(p, x) n == Len(root)
<1>1. /\ Len(z) = Len(p) + 1 /\ Len(p) \in Nat /\ z \in Seq(S)
      /\ \A i \in 1 .. Len(p) : z[i] = p[i]
  BY AppendProperties, LenProperties
<1>2. n \in Nat /\ n <= Len(p) /\ SubSeq(root, 1, n) = SubSeq(p, 1, n)
  BY LenProperties DEF Under, IsPrefix
<1>3. SubSeq(p, 1, n) \in Seq(S) /\ SubSeq(z, 1, n) \in Seq(S) /\ Len(SubSeq(p, 1, n)) = n /\ Len(SubSeq(z, 1, n)) = n
      /\ (\A i \in 1 .. n : SubSeq(p, 1, n)[i] = p[i]) /\ \A i \in 1 .. n : SubSeq(z, 1, n)[i] = z[i]
  <2>1. \A i \in 1 .. n : p[i] \in S /\ z[i] \in S /\ z[i] = p[i]
    BY <1>1, <1>2
  <2> HIDE DEF n, z
  <2> QED BY <1>2, <2>1
<1>4. \A i \in 1 .. n : SubSeq(p, 1, n)[i] = SubSeq(z, 1, n)[i]
  <2>1. \A i \in 1 .. n : i \in 1 .. Len(p)
    BY <1>1, <1>2
  <2> QED BY <1>1, <1>3, <2>1
<1>5. SubSeq(z, 1, n) = SubSeq(p, 1, n)
  <2> HIDE DEF n, z
  <2> QED BY <1>3, <1>4, SeqEqual
<1>6. n <= Len(z)
  BY <1>1, <1>2
<1> QED BY <1>2, <1>5, <1>6 DEF Under, IsPrefix

(* What lies in an excluded folder is excluded.                            *)
LEMMA ExcludedDown ==
  ASSUME NEW v, world \in World, NEW S, NEW p \in Seq(S), NEW x \in S, Excluded(p, Exclusions(v))
  PROVE  Excluded(Append(p, x), Exclusions(v))
<1>1. PICK root \in Exclusions(v) : Under(p, root)
  BY DEF Excluded
<1>2. PICK R : root \in Seq(R)
  BY <1>1, RootsAreSeqs
<1>3. Under(Append(p, x), root)
  BY <1>1, <1>2, UnderAppend
<1> QED BY <1>3 DEF Excluded

(* What is to be found, record by record.                                  *)
Sought(v) == {k \in Reach(v) : Visible(v, Table(v)[k]) /\ ~Excluded(PathTo(v, k), Exclusions(v))}

(* What the disk says of a record, as the scan should report it.           *)
Fact(v, k) == [path |-> PathTo(v, k), size |-> Table(v)[k].size, changed |-> Table(v)[k].changed]

(* What there is to find are the records sought, as the disk has them.     *)
LEMMA FindableIs ==
  ASSUME NEW v, Disk(v)
  PROVE  Findable(v) = {Fact(v, k) : k \in Sought(v)}
<1> DEFINE way == Lineage(v)
           file == {k \in DOMAIN way : /\ way[k] # <<>> /\ Visible(v, Table(v)[k])
                                  /\ \A a \in Range(Front(way[k])) : Passable(v, Table(v)[a])}
           fact(k) == [path |-> <<v>> \o [n \in DOMAIN way[k] |-> Table(v)[way[k][n]].name],
                       size |-> Table(v)[k].size, changed |-> Table(v)[k].changed]
<1>1. DOMAIN way = DOMAIN Table(v) /\ 0 \notin DOMAIN Table(v)
  BY LineageIs, DiskIs
<1>2. file = {k \in Reach(v) : Visible(v, Table(v)[k])}
  BY <1>1 DEF Reach
<1>3. \A k \in file : fact(k) = Fact(v, k)
  BY <1>1, <1>2 DEF Fact, PathTo, Route
<1>4. Findable(v) = {f \in {fact(k) : k \in file} : ~Excluded(f.path, Exclusions(v))}
  BY DEF Findable
<1> HIDE DEF file, fact, way
<1>5. \A k : Fact(v, k).path = PathTo(v, k)
  BY DEF Fact
<1>6. ASSUME NEW f PROVE f \in Findable(v) <=> \E k \in Sought(v) : f = Fact(v, k)
  <2>1. f \in Findable(v) <=> \E k \in file : f = fact(k) /\ ~Excluded(f.path, Exclusions(v))
    BY <1>4
  <2>2. \A k \in file : f = fact(k) /\ ~Excluded(f.path, Exclusions(v)) => k \in Sought(v) /\ f = Fact(v, k)
    BY <1>2, <1>3, <1>5 DEF Sought
  <2>3. \A k \in Sought(v) : f = Fact(v, k) => k \in file /\ f = fact(k) /\ ~Excluded(f.path, Exclusions(v))
    BY <1>2, <1>3, <1>5 DEF Sought
  <2> QED BY <2>1, <2>2, <2>3
<1> QED BY <1>6

-----------------------------------------------------------------------------
(* The paths that references resolve to.                                   *)

(* The folders a resolver knows lead from folder to folder up to the root. *)
Refs(folders, ref) == {0, ref} \cup {folders[f].parent : f \in DOMAIN folders}

(* One climb of Resolve from all references of a chain at once, and all
   its climbs.                                                             *)
Climbed(v, folders, above, ways, n) ==
  [r \in above |->
     IF r = 0 THEN <<v>>
     ELSE IF n = 0 \/ r \notin DOMAIN folders THEN NoPath
     ELSE Below(ways[folders[r].parent], folders[r].name)]

Climbs(v, folders, above, up) ==
  \A n \in 0 .. MaxDepth : up[n] = Climbed(v, folders, above, up[n - 1], n)

(* Resolve is what the last of its climbs leaves.                          *)
LEMMA ResolveRounds ==
  ASSUME NEW v, NEW folders, NEW ref
  PROVE  \E up : /\ Climbs(v, folders, Refs(folders, ref), up)
                 /\ Resolve(v, folders, ref) = up[MaxDepth][ref]
<1> DEFINE above == Refs(folders, ref)
           N == MaxDepth
           Rnds(f, n) == f = [m \in 0 .. n |-> Climbed(v, folders, above, f[m - 1], m)]
           S == {n \in Nat : \E f : Rnds(f, n)}
<1>0. \A f, g : Climbed(v, folders, above, f, 0) = Climbed(v, folders, above, g, 0)
  BY DEF Climbed
<1>00. N \in Nat
  BY BoundsOK
<1> HIDE DEF above
<1>1. 0 \in S
  <2> DEFINE f == [m \in 0 .. 0 |-> Climbed(v, folders, above, <<>>, 0)]
  <2>1. \A m \in 0 .. 0 : m = 0
    OBVIOUS
  <2>2. f = [m \in 0 .. 0 |-> Climbed(v, folders, above, f[m - 1], m)]
    BY <1>0, <2>1
  <2> QED BY <2>2
<1>2. \A n \in Nat : n \in S => n + 1 \in S
  <2> SUFFICES ASSUME NEW n \in Nat, NEW f, Rnds(f, n) PROVE \E g : Rnds(g, n + 1)
    OBVIOUS
  <2> DEFINE g == [m \in 0 .. n + 1 |-> Climbed(v, folders, above, f[m - 1], m)]
  <2>1. \A m \in 0 .. n : g[m] = f[m]
    OBVIOUS
  <2>2. \A m \in 0 .. n + 1 : Climbed(v, folders, above, g[m - 1], m) = Climbed(v, folders, above, f[m - 1], m)
    <3> SUFFICES ASSUME NEW m \in 0 .. n + 1
                 PROVE  Climbed(v, folders, above, g[m - 1], m) = Climbed(v, folders, above, f[m - 1], m)
      OBVIOUS
    <3> HIDE DEF g
    <3>1. CASE m = 0
      BY <1>0, <3>1
    <3>2. CASE m # 0
      <4>1. m - 1 \in 0 .. n
        BY <3>2
      <4> QED BY <2>1, <4>1
    <3> QED BY <3>1, <3>2
  <2>3. g = [m \in 0 .. n + 1 |-> Climbed(v, folders, above, g[m - 1], m)]
    <3> HIDE DEF g
    <3>1. g = [m \in 0 .. n + 1 |-> Climbed(v, folders, above, f[m - 1], m)]
      BY DEF g
    <3> QED BY <2>2, <3>1
  <2> QED BY <2>3
<1>3. N \in S
  <2> HIDE DEF S
  <2>1. Nat \subseteq S
    BY <1>1, <1>2, Induct
  <2> QED BY <1>00, <2>1
<1>4. \E f : Rnds(f, N)
  BY <1>3
<1> DEFINE up[n \in 0 .. N] == Climbed(v, folders, above, up[n - 1], n)
<1>5. Rnds(up, N)
  BY <1>4, Zenon
<1>6. Resolve(v, folders, ref) = up[N][ref]
  BY DEF Resolve, Climbed, above, Refs
<1> HIDE DEF up
<1>7. DOMAIN up = 0 .. N /\ \A n \in 0 .. N : up[n] = Climbed(v, folders, above, up[n - 1], n)
  BY <1>5, Zenon
<1> QED BY <1>6, <1>7 DEF Climbs, above

(* C are folders on whose way up nothing is missing, P their paths and h
   their depths; what is not one of them does not lie in one.              *)
Charted(v, folders, C, P, h) ==
  /\ 0 \in C /\ P[0] = <<v>> /\ h[0] = 0
  /\ \A r \in C : h[r] \in Nat /\ P[r] # <<>>
  /\ \A r \in C \ {0} : /\ r \in DOMAIN folders /\ folders[r].parent \in C
                        /\ P[r] = Append(P[folders[r].parent], folders[r].name)
                        /\ h[r] = h[folders[r].parent] + 1
  /\ \A r \in DOMAIN folders : r \notin C => folders[r].parent \notin C

(* What one climb gives a reference: the volume, nothing, or its
   folder's path and its name.                                             *)
LEMMA ClimbIs ==
  ASSUME NEW v, NEW folders, NEW above, NEW ways, NEW n \in Nat, NEW r \in above
  PROVE  /\ r = 0 => Climbed(v, folders, above, ways, n)[r] = <<v>>
         /\ r # 0 /\ (n = 0 \/ r \notin DOMAIN folders) => Climbed(v, folders, above, ways, n)[r] = <<>>
         /\ r # 0 /\ n # 0 /\ r \in DOMAIN folders =>
              Climbed(v, folders, above, ways, n)[r] = Below(ways[folders[r].parent], folders[r].name)
BY DEF Climbed, NoPath

(* With the folders charted, a reference resolves to its path if it is
   not too deep, and to nothing otherwise.                                 *)
LEMMA ResolveIs ==
  ASSUME NEW v, NEW folders, NEW C, NEW P, NEW h, Charted(v, folders, C, P, h), NEW ref
  PROVE  Resolve(v, folders, ref) = IF ref \in C /\ h[ref] <= MaxDepth THEN P[ref] ELSE NoPath
<1> DEFINE above == Refs(folders, ref)
           N == MaxDepth
<1>0. N \in Nat
  BY BoundsOK
<1>1. PICK up : Climbs(v, folders, above, up) /\ Resolve(v, folders, ref) = up[N][ref]
  BY ResolveRounds
<1> DEFINE Good(n) == \A r \in above : up[n][r] = IF r \in C /\ h[r] <= n THEN P[r] ELSE <<>>
           S == {n \in Nat : n <= N => Good(n)}
<1>2. 0 \in C /\ P[0] = <<v>> /\ h[0] = 0 /\ \A r \in C : h[r] \in Nat /\ P[r] # <<>>
  BY DEF Charted
<1>3. \A r \in C \ {0} : /\ r \in DOMAIN folders /\ folders[r].parent \in C
                         /\ P[r] = Append(P[folders[r].parent], folders[r].name)
                         /\ h[r] = h[folders[r].parent] + 1
  BY DEF Charted
<1>4. \A r \in DOMAIN folders : folders[r].parent \in above
  BY DEF Refs
<1>5. ref \in above
  BY DEF Refs
<1>6. \A r \in DOMAIN folders : r \notin C => folders[r].parent \notin C
  BY DEF Charted
<1> HIDE DEF above, N
<1>7. \A n \in 0 .. N : n \in Nat /\ up[n] = Climbed(v, folders, above, up[n - 1], n)
  BY <1>0, <1>1 DEF Climbs, N
<1>8. Good(0)
  <2> SUFFICES ASSUME NEW r \in above PROVE up[0][r] = IF r \in C /\ h[r] <= 0 THEN P[r] ELSE <<>>
    OBVIOUS
  <2>1. up[0] = Climbed(v, folders, above, up[0 - 1], 0)
    BY <1>0, <1>7
  <2>2. CASE r = 0
    BY <1>2, <2>1, <2>2, ClimbIs
  <2>3. CASE r # 0
    <3>1. up[0][r] = <<>>
      BY <2>1, <2>3, ClimbIs
    <3>2. ~(r \in C /\ h[r] <= 0)
      <4> SUFFICES ASSUME r \in C, h[r] <= 0 PROVE FALSE
        OBVIOUS
      <4>1. h[r] = h[folders[r].parent] + 1 /\ h[folders[r].parent] \in Nat
        BY <1>2, <1>3, <2>3
      <4> QED BY <4>1
    <3> QED BY <3>1, <3>2
  <2> QED BY <2>2, <2>3
<1>9. ASSUME NEW n \in Nat, n + 1 <= N, Good(n) PROVE Good(n + 1)
  <2> SUFFICES ASSUME NEW r \in above
               PROVE  up[n + 1][r] = IF r \in C /\ h[r] <= n + 1 THEN P[r] ELSE <<>>
    OBVIOUS
  <2>0. n + 1 \in 0 .. N /\ n + 1 \in Nat /\ n + 1 # 0 /\ (n + 1) - 1 = n
    BY ONLY <1>0, <1>9, n \in Nat, n + 1 <= N
  <2>1. up[n + 1] = Climbed(v, folders, above, up[n], n + 1)
    BY <1>7, <2>0
  <2>2. CASE r = 0
    <3>1. 0 <= n + 1
      BY <2>0
    <3> QED BY <1>2, <2>0, <2>1, <2>2, <3>1, ClimbIs
  <2>3. CASE r \in C /\ r # 0
    <3> DEFINE p == folders[r].parent
    <3>1. r \in DOMAIN folders /\ p \in C /\ P[r] = Append(P[p], folders[r].name) /\ h[r] = h[p] + 1
      BY <1>3, <2>3
    <3>2. up[n + 1][r] = Below(up[n][p], folders[r].name)
      BY <2>0, <2>1, <2>3, <3>1, ClimbIs
    <3>3. up[n][p] = IF h[p] <= n THEN P[p] ELSE <<>>
      BY <1>4, <1>9, <3>1
    <3>4. h[p] \in Nat /\ P[p] # <<>>
      BY <1>2, <3>1
    <3>5. h[r] <= n + 1 <=> h[p] <= n
      BY ONLY <3>1, <3>4, n \in Nat
    <3>6. CASE h[p] <= n
      BY <2>3, <3>1, <3>2, <3>3, <3>4, <3>5, <3>6, BelowIs DEF NoPath
    <3>7. CASE ~(h[p] <= n)
      BY <2>3, <3>2, <3>3, <3>5, <3>7, BelowIs DEF NoPath
    <3> QED BY <3>6, <3>7
  <2>4. CASE r \notin C
    <3>1. r # 0
      BY <1>2, <2>4
    <3>2. CASE r \notin DOMAIN folders
      BY <2>0, <2>1, <2>4, <3>1, <3>2, ClimbIs
    <3>3. CASE r \in DOMAIN folders
      <4>1. up[n + 1][r] = Below(up[n][folders[r].parent], folders[r].name)
        BY <2>0, <2>1, <3>1, <3>3, ClimbIs
      <4>2. up[n][folders[r].parent] = <<>>
        BY <1>4, <1>6, <1>9, <2>4, <3>3
      <4> QED BY <2>4, <4>1, <4>2, BelowIs DEF NoPath
    <3> QED BY <3>2, <3>3
  <2> QED BY <2>2, <2>3, <2>4
<1> HIDE DEF Good
<1>10. \A n \in Nat : n \in S => n + 1 \in S
  BY <1>0, <1>9
<1>11. Nat \subseteq S
  <2>1. 0 \in S
    BY <1>8
  <2> HIDE DEF S
  <2> QED BY <2>1, <1>10, Induct
<1>12. Good(N)
  BY <1>0, <1>11 DEF S
<1> QED BY <1>1, <1>5, <1>12 DEF Good, N, NoPath

(* A table: its resolver finds the way of every record within reach, as
   far as MaxDepth.                                                        *)
Entered(v) == {k \in Reach(v) : Passable(v, Table(v)[k])}

(* So do the records of a file table: the first pass finds the path of
   each folder that is not too deep.                                       *)
LEMMA TableResolves ==
  ASSUME NEW v, Disk(v), ByTable(v), NEW ref
  PROVE  Resolve(v, FolderRecords(v), ref) =
           IF ref \in {0} \cup Entered(v) /\ Depth(v, ref) <= MaxDepth THEN PathTo(v, ref) ELSE NoPath
<1> DEFINE C == {0} \cup Entered(v)
           P == [r \in C |-> PathTo(v, r)]
           h == [r \in C |-> Depth(v, r)]
           F == FolderRecords(v)
<1>1. 0 \in C /\ P[0] = <<v>> /\ h[0] = 0 /\ <<v>> # <<>>
  BY PathToRoot
<1>2. \A r \in Readable(v) : r \in DOMAIN Table(v) /\ Table(v)[r].state \notin {"free", "corrupt"}
  BY DEF Readable
<1>3. DOMAIN F = {r \in Readable(v) : Table(v)[r].kind \in Directories} /\ \A r \in DOMAIN F : F[r] = Table(v)[r]
  BY DEF FolderRecords
<1>4. \A r \in DOMAIN Table(v) : Passable(v, Table(v)[r]) <=> r \in DOMAIN F
  BY <1>2, <1>3 DEF Passable, Readable
<1>5. \A r \in C \ {0} : r \in Reach(v) /\ r \in DOMAIN Table(v) /\ r \in DOMAIN F
  BY <1>4 DEF Entered, Reach
<1>6. ASSUME NEW r \in C \ {0}
      PROVE  /\ r \in DOMAIN F /\ F[r].parent \in C
             /\ P[r] = Append(P[F[r].parent], F[r].name) /\ h[r] = h[F[r].parent] + 1
             /\ h[r] \in Nat /\ P[r] # <<>>
  <2>1. r \in Reach(v) /\ r \in DOMAIN Table(v) /\ F[r] = Table(v)[r] /\ r \in DOMAIN F
    BY <1>3, <1>5
  <2>2. F[r].parent = Parent(v, r)
    BY <2>1 DEF Parent
  <2>3. Parent(v, r) \in C
    BY <2>1, ReachIs DEF Entered
  <2>4. /\ PathTo(v, r) = Append(PathTo(v, Parent(v, r)), Table(v)[r].name)
        /\ PathTo(v, r) \in Seq(Words)
        /\ Depth(v, r) = Depth(v, Parent(v, r)) + 1
        /\ Depth(v, Parent(v, r)) \in Nat
        /\ Len(PathTo(v, r)) = Depth(v, r) + 1
    BY <2>1, PathToIs
  <2>5. PathTo(v, r) # <<>>
    <3>1. Len(PathTo(v, r)) # 0
      BY <2>4
    <3> QED BY <3>1, EmptySeq
  <2> HIDE DEF F
  <2> QED BY <2>1, <2>2, <2>3, <2>4, <2>5
<1>7. ASSUME NEW r \in DOMAIN F, r \notin C PROVE F[r].parent \notin C
  <2>1. r \in DOMAIN Table(v) /\ F[r] = Table(v)[r] /\ Passable(v, Table(v)[r])
    BY <1>2, <1>3, <1>4
  <2>2. r \notin Reach(v)
    BY <1>7, <2>1 DEF Entered
  <2>3. Parent(v, r) \notin C
    BY <2>1, <2>2, ReachIs DEF Entered
  <2> QED BY <2>1, <2>3 DEF Parent
<1>8. \A r \in C : P[r] = PathTo(v, r) /\ h[r] = Depth(v, r)
  OBVIOUS
<1> HIDE DEF C, P, h, F
<1>9. ASSUME NEW r \in C PROVE h[r] \in Nat /\ P[r] # <<>>
  <2>1. CASE r = 0
    <3>1. h[r] = 0 /\ P[r] = <<v>> /\ <<v>> # <<>>
      BY <1>1, <2>1
    <3> QED BY <3>1
  <2>2. CASE r # 0
    BY <1>6, <2>2
  <2> QED BY <2>1, <2>2
<1>10. Charted(v, F, C, P, h)
  BY <1>1, <1>6, <1>7, <1>9 DEF Charted
<1>11. Resolve(v, F, ref) = IF ref \in C /\ h[ref] <= MaxDepth THEN P[ref] ELSE NoPath
  BY <1>10, ResolveIs
<1>12. C = {0} \cup Entered(v) /\ F = FolderRecords(v)
  BY DEF C, F
<1> QED BY <1>8, <1>11, <1>12

(* The members of a sequence that are in a set.                            *)
Chosen(s, S, before, n) ==
  IF n = 0 THEN <<>> ELSE IF s[n] \in S THEN Append(before, s[n]) ELSE before

(* Only goes through the sequence element by element.                      *)
LEMMA OnlyRounds ==
  ASSUME NEW s, NEW S, Len(s) \in Nat
  PROVE  \E up : /\ up[0] = <<>>
                 /\ \A n \in 1 .. Len(s) : up[n] = IF s[n] \in S THEN Append(up[n - 1], s[n]) ELSE up[n - 1]
                 /\ Only(s, S) = up[Len(s)]
<1> DEFINE N == Len(s)
           Rnds(f, n) == f = [m \in 0 .. n |-> Chosen(s, S, f[m - 1], m)]
           Q == {n \in Nat : \E f : Rnds(f, n)}
<1>0. \A f, g : Chosen(s, S, f, 0) = Chosen(s, S, g, 0)
  BY DEF Chosen
<1> HIDE DEF N
<1>1. 0 \in Q
  <2> DEFINE f == [m \in 0 .. 0 |-> Chosen(s, S, <<>>, 0)]
  <2>1. \A m \in 0 .. 0 : m = 0
    OBVIOUS
  <2>2. f = [m \in 0 .. 0 |-> Chosen(s, S, f[m - 1], m)]
    BY <1>0, <2>1
  <2> QED BY <2>2
<1>2. \A n \in Nat : n \in Q => n + 1 \in Q
  <2> SUFFICES ASSUME NEW n \in Nat, NEW f, Rnds(f, n) PROVE \E g : Rnds(g, n + 1)
    OBVIOUS
  <2> DEFINE g == [m \in 0 .. n + 1 |-> Chosen(s, S, f[m - 1], m)]
  <2>1. \A m \in 0 .. n : g[m] = f[m]
    OBVIOUS
  <2>2. \A m \in 0 .. n + 1 : Chosen(s, S, g[m - 1], m) = Chosen(s, S, f[m - 1], m)
    <3> SUFFICES ASSUME NEW m \in 0 .. n + 1
                 PROVE  Chosen(s, S, g[m - 1], m) = Chosen(s, S, f[m - 1], m)
      OBVIOUS
    <3> HIDE DEF g
    <3>1. CASE m = 0
      BY <1>0, <3>1
    <3>2. CASE m # 0
      <4>1. m - 1 \in 0 .. n
        BY <3>2
      <4> QED BY <2>1, <4>1
    <3> QED BY <3>1, <3>2
  <2>3. g = [m \in 0 .. n + 1 |-> Chosen(s, S, g[m - 1], m)]
    <3> HIDE DEF g
    <3>1. g = [m \in 0 .. n + 1 |-> Chosen(s, S, f[m - 1], m)]
      BY DEF g
    <3> QED BY <2>2, <3>1
  <2> QED BY <2>3
<1>3. N \in Q
  <2> HIDE DEF Q
  <2>1. Nat \subseteq Q
    BY <1>1, <1>2, Induct
  <2> QED BY <2>1 DEF N
<1>4. \E f : Rnds(f, N)
  BY <1>3
<1> DEFINE up[n \in 0 .. N] == Chosen(s, S, up[n - 1], n)
<1>5. Rnds(up, N)
  BY <1>4, Zenon
<1>6. Only(s, S) = up[N]
  BY DEF Only, Chosen, N
<1> HIDE DEF up
<1>7. DOMAIN up = 0 .. N /\ \A n \in 0 .. N : up[n] = Chosen(s, S, up[n - 1], n)
  BY <1>5, Zenon
<1>8. up[0] = <<>>
  <2>1. 0 \in 0 .. N
    BY DEF N
  <2> QED BY <1>7, <2>1 DEF Chosen
<1>9. \A n \in 1 .. N : n \in 0 .. N /\ n # 0
  BY DEF N
<1>10. \A n \in 1 .. N : up[n] = IF s[n] \in S THEN Append(up[n - 1], s[n]) ELSE up[n - 1]
  BY <1>7, <1>9 DEF Chosen
<1> QED BY <1>6, <1>8, <1>10 DEF N

(* A sequence in which nothing comes twice.                                *)
Apart(s) == \A i, j \in DOMAIN s : s[i] = s[j] => i = j

(* A new element behind different ones leaves them different.              *)
LEMMA ApartAppend ==
  ASSUME NEW X, NEW s \in Seq(X), NEW e \in X, e \notin Range(s), Apart(s)
  PROVE  Apart(Append(s, e))
<1> DEFINE z == Append(s, e)
<1>1. /\ DOMAIN z = 1 .. Len(s) + 1 /\ DOMAIN s = 1 .. Len(s) /\ Len(s) \in Nat
      /\ (\A i \in 1 .. Len(s) : z[i] = s[i]) /\ z[Len(s) + 1] = e
  BY AppendProperties, LenProperties
<1>2. \A i \in 1 .. Len(s) : s[i] # e
  BY <1>1 DEF Range
<1> HIDE DEF z
<1>3. \A i \in DOMAIN z : i \in 1 .. Len(s) \/ i = Len(s) + 1
  BY <1>1
<1>4. \A i \in 1 .. Len(s) : i # Len(s) + 1
  BY <1>1
<1>5. \A i, j \in DOMAIN z : z[i] = z[j] => i = j
  BY <1>1, <1>2, <1>3 DEF Apart
<1> QED BY <1>5 DEF Apart, z

(* Only keeps the elements of the set, each as often as it was there.      *)
LEMMA OnlyIs ==
  ASSUME NEW X, NEW s \in Seq(X), NEW S
  PROVE  /\ Only(s, S) \in Seq(X) /\ Len(Only(s, S)) <= Len(s)
         /\ Range(Only(s, S)) = Range(s) \cap S
         /\ Apart(s) => Apart(Only(s, S))
<1> DEFINE N == Len(s)
<1>1. N \in Nat /\ DOMAIN s = 1 .. N /\ \A n \in 1 .. N : s[n] \in X
  OBVIOUS
<1>2. PICK up : /\ up[0] = <<>>
                /\ \A n \in 1 .. N : up[n] = IF s[n] \in S THEN Append(up[n - 1], s[n]) ELSE up[n - 1]
                /\ Only(s, S) = up[N]
  BY <1>1, OnlyRounds
<1> DEFINE Upto(n) == {s[i] : i \in 1 .. n}
           Good(n) == /\ up[n] \in Seq(X) /\ Len(up[n]) <= n
                      /\ Range(up[n]) = Upto(n) \cap S
                      /\ Apart(s) => Apart(up[n])
           Q == {n \in Nat : n <= N => Good(n)}
<1> HIDE DEF N
<1>3. Good(0)
  <2>1. Range(up[0]) = {} /\ Upto(0) = {}
    BY <1>2 DEF Range
  <2>2. up[0] \in Seq(X) /\ Len(up[0]) = 0 /\ DOMAIN up[0] = {}
    BY <1>2
  <2> QED BY <2>1, <2>2 DEF Apart
<1>4. ASSUME NEW n \in Nat, n + 1 <= N, Good(n) PROVE Good(n + 1)
  <2>1. n + 1 \in 1 .. N /\ (n + 1) - 1 = n /\ s[n + 1] \in X
    BY <1>1, <1>4
  <2>2. Upto(n + 1) = Upto(n) \cup {s[n + 1]}
    <3>1. 1 .. n + 1 = (1 .. n) \cup {n + 1}
      OBVIOUS
    <3> QED BY <3>1
  <2>3. CASE s[n + 1] \in S
    <3>1. up[n + 1] = Append(up[n], s[n + 1])
      BY <1>2, <2>1, <2>3
    <3>2. up[n + 1] \in Seq(X) /\ Len(up[n + 1]) = Len(up[n]) + 1 /\ Range(up[n + 1]) = Range(up[n]) \cup {s[n + 1]}
      BY <1>4, <2>1, <3>1, FrontAppend
    <3>3. Len(up[n]) \in Nat
      BY <1>4
    <3>4. Apart(s) => s[n + 1] \notin Upto(n)
      <4>1. ASSUME Apart(s), NEW i \in 1 .. n, s[i] = s[n + 1] PROVE FALSE
        <5>1. i \in 1 .. N /\ i # n + 1
          BY <1>1, <1>4
        <5> QED BY <1>1, <2>1, <4>1, <5>1 DEF Apart
      <4> QED BY <4>1
    <3>5. Apart(s) => Apart(up[n + 1])
      <4>1. SUFFICES ASSUME Apart(s) PROVE Apart(up[n + 1])
        OBVIOUS
      <4>2. s[n + 1] \notin Range(up[n])
        BY <1>4, <3>4, <4>1
      <4> QED BY <1>4, <2>1, <3>1, <4>1, <4>2, ApartAppend
    <3>6. Range(up[n + 1]) = Upto(n + 1) \cap S
      <4> HIDE DEF Upto
      <4> QED BY <1>4, <2>2, <2>3, <3>2
    <3>7. Len(up[n + 1]) <= n + 1
      BY <1>4, <3>2, <3>3
    <3> QED BY <3>2, <3>5, <3>6, <3>7
  <2>4. CASE s[n + 1] \notin S
    <3>1. up[n + 1] = up[n]
      BY <1>2, <2>1, <2>4
    <3>2. Range(up[n + 1]) = Upto(n + 1) \cap S
      <4> HIDE DEF Upto
      <4> QED BY <1>4, <2>2, <2>4, <3>1
    <3>3. Len(up[n + 1]) <= n + 1
      BY <1>4, <3>1
    <3> QED BY <1>4, <3>1, <3>2, <3>3
  <2> QED BY <2>3, <2>4
<1> HIDE DEF Good
<1>5. \A n \in Nat : n \in Q => n + 1 \in Q
  BY <1>1, <1>4
<1>6. Nat \subseteq Q
  <2>1. 0 \in Q
    BY <1>3
  <2> HIDE DEF Q
  <2> QED BY <2>1, <1>5, Induct
<1>7. Good(N)
  BY <1>1, <1>6 DEF Q
<1>8. Upto(N) = Range(s)
  BY <1>1 DEF Range
<1> QED BY <1>2, <1>7, <1>8 DEF Good, N

-----------------------------------------------------------------------------
(* The walk and its threads.                                               *)

(* The disks do not change.                                                *)
LEMMA SameWorld ==
  ASSUME world' = world, NEW v
  PROVE  /\ Table(v)' = Table(v) /\ ByTable(v)' = ByTable(v) /\ Exclusions(v)' = Exclusions(v)
         /\ Readable(v)' = Readable(v) /\ Reach(v)' = Reach(v) /\ Intact(v)' = Intact(v)
         /\ Sought(v)' = Sought(v) /\ FolderRecords(v)' = FolderRecords(v)
         /\ \A k : /\ PathTo(v, k)' = PathTo(v, k) /\ Parent(v, k)' = Parent(v, k)
                   /\ Depth(v, k)' = Depth(v, k) /\ Fact(v, k)' = Fact(v, k)
<1>1. Table(v)' = Table(v) /\ ByTable(v)' = ByTable(v) /\ Exclusions(v)' = Exclusions(v)
  BY DEF Table, ByTable, Exclusions
<1>2. Lineage(v)' = Lineage(v)
  BY DEF Lineage, Table, Below
<1>3. Readable(v)' = Readable(v)
  BY DEF Readable, Table
<1>4. \A f : Passable(v, f)' = Passable(v, f) /\ Visible(v, f)' = Visible(v, f)
  BY DEF Passable, Visible, ByTable
<1>5. Reach(v)' = Reach(v)
  BY <1>1, <1>2, <1>4 DEF Reach
<1>6. \A k : Route(v, k)' = Route(v, k)
  BY <1>2 DEF Route
<1>7. \A k : PathTo(v, k)' = PathTo(v, k) /\ Parent(v, k)' = Parent(v, k) /\ Depth(v, k)' = Depth(v, k)
  BY <1>1, <1>6 DEF PathTo, Parent, Depth
<1>8. \A k : Fact(v, k)' = Fact(v, k)
  BY <1>1, <1>7 DEF Fact
<1>9. Sought(v)' = Sought(v) /\ Intact(v)' = Intact(v)
  BY <1>1, <1>3, <1>4, <1>5, <1>7 DEF Sought, Intact
<1>10. FolderRecords(v)' = FolderRecords(v)
  BY <1>1, <1>3 DEF FolderRecords
<1> QED BY <1>1, <1>3, <1>5, <1>7, <1>8, <1>9, <1>10

(* A walk.                                                                 *)

(* What can be an entry: an intact record within reach that is not
   excluded.                                                               *)
Shown(v) == {k \in Intact(v) : Table(v)[k].kind # "metafile" /\ ~Excluded(PathTo(v, k), Exclusions(v))}

(* What a folder shows is what can be an entry and lies in it.             *)
LEMMA ListedIs ==
  ASSUME NEW v, Disk(v), ~ByTable(v), NEW item, item.path = PathTo(v, item.node),
         item.node = 0 \/ (item.node \in Intact(v) /\ Table(v)[item.node].kind = "folder")
  PROVE  /\ Listed(v, item) \in Seq(DOMAIN Table(v)) /\ Apart(Listed(v, item))
         /\ Range(Listed(v, item)) = {k \in Shown(v) : Parent(v, k) = item.node}
         /\ \A k \in Shown(v) : Parent(v, k) = item.node => PathTo(v, k) = Append(item.path, Table(v)[k].name)
<1> DEFINE D == DOMAIN Table(v)
           all == [k \in D |-> k]
           kids == {k \in Readable(v) : Table(v)[k].parent = item.node /\ Table(v)[k].kind # "metafile"}
           shown == {k \in Readable(v) : ~Excluded(Append(item.path, Table(v)[k].name), Exclusions(v))}
           C == Children(v, item.node)
           L == Listed(v, item)
<1>0. Len(Table(v)) \in Nat /\ D = 1 .. Len(Table(v)) /\ 0 \notin D /\ world \in World
  BY DiskIs DEF Disk
<1>1. all \in Seq(D) /\ Range(all) = D /\ Apart(all)
  <2>1. \E n \in Nat : D = 1 .. n
    BY <1>0
  <2> HIDE DEF D
  <2>2. all \in Seq(D)
    BY <2>1
  <2>3. Range(all) = D /\ Apart(all)
    BY DEF Range, Apart
  <2> QED BY <2>2, <2>3
<1>2. C = Only(all, kids)
  BY DEF Children
<1>3. Readable(v) \subseteq D
  BY DEF Readable
<1>4. C \in Seq(D) /\ Range(C) = kids /\ Apart(C)
  <2> HIDE DEF all, C, D
  <2>1. C \in Seq(D) /\ Range(C) = D \cap kids /\ Apart(C)
    BY <1>1, <1>2, OnlyIs
  <2> QED BY <1>3, <2>1
<1>5. Excluded(item.path, Exclusions(v)) \/ Sealed(v, item.node) => L = <<>>
  BY DEF Listed
<1>6. ~(Excluded(item.path, Exclusions(v)) \/ Sealed(v, item.node)) => L = Only(C, shown)
  BY DEF Listed
<1>7. L \in Seq(D) /\ Apart(L) /\ (Excluded(item.path, Exclusions(v)) \/ Sealed(v, item.node) => Range(L) = {})
      /\ (~(Excluded(item.path, Exclusions(v)) \/ Sealed(v, item.node)) => Range(L) = kids \cap shown)
  <2>1. CASE Excluded(item.path, Exclusions(v)) \/ Sealed(v, item.node)
    <3>1. L = <<>>
      BY <1>5, <2>1
    <3>2. <<>> \in Seq(D) /\ Apart(<<>>) /\ Range(<<>>) = {}
      BY DEF Apart, Range
    <3> HIDE DEF L
    <3> QED BY <2>1, <3>1, <3>2
  <2>2. CASE ~(Excluded(item.path, Exclusions(v)) \/ Sealed(v, item.node))
    <3>1. L = Only(C, shown)
      BY <1>6, <2>2
    <3> HIDE DEF L, C, kids, shown, D
    <3> QED BY <1>4, <2>2, <3>1, OnlyIs
  <2> QED BY <2>1, <2>2
<1>8. ASSUME NEW k \in Readable(v), Table(v)[k].parent = item.node, k \in Reach(v)
      PROVE  PathTo(v, k) = Append(item.path, Table(v)[k].name)
  BY <1>8, PathToIs DEF Parent
<1>9. ASSUME NEW k \in kids \cap shown, ~Sealed(v, item.node)
      PROVE  k \in Shown(v) /\ Parent(v, k) = item.node
  <2>1. k \in Readable(v) /\ k \in D /\ Parent(v, k) = item.node /\ Table(v)[k].kind # "metafile"
        /\ ~Excluded(Append(item.path, Table(v)[k].name), Exclusions(v))
    BY <1>3 DEF Parent
  <2>2. CASE item.node = 0
    <3>1. k \in Reach(v)
      BY <2>1, <2>2, ReachIs
    <3> QED BY <1>8, <2>1, <3>1 DEF Shown, Intact, Parent
  <2>3. CASE item.node # 0
    <3>1. item.node \in Reach(v) /\ item.node \in Readable(v) /\ item.node \in D /\ Table(v)[item.node].kind = "folder"
      BY <1>3, <2>3 DEF Intact
    <3>2. Table(v)[item.node].state = "ok"
      BY <1>9, <2>3, <3>1, DiskIs DEF Sealed, Readable
    <3>3. Passable(v, Table(v)[item.node])
      BY <3>1, <3>2 DEF Passable
    <3>4. k \in Reach(v)
      BY <2>1, <3>1, <3>3, ReachIs
    <3> QED BY <1>8, <2>1, <3>4 DEF Shown, Intact, Parent
  <2> QED BY <2>2, <2>3
<1>10. ASSUME NEW k \in Shown(v), Parent(v, k) = item.node
       PROVE  /\ k \in kids \cap shown /\ ~Excluded(item.path, Exclusions(v)) /\ ~Sealed(v, item.node)
              /\ PathTo(v, k) = Append(item.path, Table(v)[k].name)
  <2>1. k \in Readable(v) /\ k \in Reach(v) /\ k \in D /\ Table(v)[k].parent = item.node /\ Table(v)[k].kind # "metafile"
        /\ ~Excluded(PathTo(v, k), Exclusions(v))
    BY <1>3, <1>10 DEF Shown, Intact, Parent
  <2>2. PathTo(v, k) = Append(item.path, Table(v)[k].name)
    BY <1>8, <2>1
  <2>3. k \in kids \cap shown
    BY <2>1, <2>2
  <2>4. ~Excluded(item.path, Exclusions(v))
    <3>1. item.path \in Seq(Words) /\ Table(v)[k].name \in Words
      BY <1>10, <2>1, DiskIs, PathToIs
    <3> QED BY <1>0, <2>1, <2>2, <3>1, ExcludedDown
  <2>5. ~Sealed(v, item.node)
    <3>1. item.node # 0 => Passable(v, Table(v)[item.node])
      BY <1>10, <2>1, ReachIs
    <3> QED BY <3>1 DEF Passable, Sealed
  <2> QED BY <2>2, <2>3, <2>4, <2>5
<1> HIDE DEF L, kids, shown, D
<1>11. Range(L) = {k \in Shown(v) : Parent(v, k) = item.node}
  BY <1>7, <1>9, <1>10
<1> QED BY <1>7, <1>10, <1>11 DEF L, D

(* The values of the queue, the entries and the threads of the walk.       *)
ItemSet == [path : Seq(Words), ref : Nat, node : Nat]

EntrySet ==
  [ref : Nat, parent : Nat, name : Words \cup {""}, dir : BOOLEAN, size : Nat, used : Nat, changed : Nat]

ThreadSet ==
  [at : {"idle", "taken", "read", "shared", "gone"}, local : Seq(ItemSet), item : ItemSet, new : Seq(ItemSet)]

WalkTypes ==
  /\ queue \in Seq(ItemSet) /\ entries \in Seq(EntrySet)
  /\ worker \in [Worker -> ThreadSet]

(* What a thread has yet to open, and what nobody has opened.              *)
Holds(w) ==
  Range(worker[w].local) \cup Range(worker[w].new)
    \cup IF worker[w].at = "taken" THEN {worker[w].item} ELSE {}

(* The folders that wait, in the queue or with a thread.                   *)
Pending == Range(queue) \cup UNION {Holds(w) : w \in Worker}

(* The numbers of the entries so far.                                      *)
Given == 0 .. Len(entries) - 1

(* Each entry stands for the record node says, which none other stands for,
   and lies in the entry of its folder, which has come before it.          *)
EntryStands(v, node, r) ==
  LET e == entries[r + 1] k == node[r] IN
  /\ k \in Shown(v)
  /\ e.parent \in 0 .. r - 1 /\ node[e.parent] = Parent(v, k)
  /\ e = EntryOf([ref |-> e.parent], Table(v)[k], r)

(* The entries are a picture of the disk: each stands for a record of
   its own, node[r] for entry r.                                           *)
Tree(v, node) ==
  /\ 0 \in Given => entries[1] = Root /\ node[0] = 0
  /\ \A r \in Given \ {0} : EntryStands(v, node, r)
  /\ \A r, q \in Given : node[r] = node[q] => r = q

(* The entries that are entered, each as it is passed on.                  *)
Plain(v, node) == {r \in Given : r = 0 \/ Table(v)[node[r]].kind = "folder"}

(* The folder of an entry as a work item.                                  *)
Spot(v, node, r) == [path |-> PathTo(v, node[r]), ref |-> r, node |-> node[r]]

Spots(v, node) == {Spot(v, node, r) : r \in Plain(v, node)}

(* Nothing waits in two places.                                            *)
Once ==
  /\ Apart(queue)
  /\ \A w \in Worker :
       /\ Apart(worker[w].local) /\ Apart(worker[w].new)
       /\ Range(worker[w].local) \cap Range(worker[w].new) = {}
       /\ worker[w].at = "taken" => worker[w].item \notin Range(worker[w].local) \cup Range(worker[w].new)
       /\ Holds(w) \cap Range(queue) = {}
  /\ \A w, x \in Worker : w # x => Holds(w) \cap Holds(x) = {}

(* Nothing that waits has been opened, and everything else has.            *)
Fresh == \A it \in Pending : \A r \in Given \ {0} : entries[r + 1].parent # it.ref

(* Once a folder is opened, all that is shown in it has an entry.          *)
Opened(v, node, r) == \A k \in Shown(v) : Parent(v, k) = node[r] => \E q \in Given : node[q] = k

(* Every folder with an entry waits or is opened.                          *)
Covered(v, node) == \A r \in Plain(v, node) : Spot(v, node, r) \in Pending \/ Opened(v, node, r)

(* What a thread can hold where it stands; a thread goes only once
   nothing is left for it.                                                 *)
Threads ==
  /\ \A w \in Worker : /\ worker[w].at # "read" => worker[w].new = <<>>
                       /\ worker[w].at = "gone" => worker[w].local = <<>>
  /\ (\A w \in Worker : worker[w].at = "gone") => queue = <<>>

(* The inductive invariant of the walk.                                    *)
WalkInv(v, node) ==
  /\ 0 \in Given /\ Tree(v, node) /\ Pending \subseteq Spots(v, node)
  /\ Once /\ Fresh /\ Covered(v, node) /\ Threads

(* All of it found.                                                        *)
Complete(v, node) == \A k \in Shown(v) : \E q \in Given : node[q] = k

(* The numbers given are those of the entries.                             *)
LEMMA GivenIs ==
  ASSUME WalkTypes
  PROVE  /\ Len(entries) \in Nat /\ DOMAIN entries = 1 .. Len(entries)
         /\ \A r \in Given : r \in Nat /\ r + 1 \in 1 .. Len(entries) /\ entries[r + 1] \in EntrySet
         /\ Given \subseteq Nat
<1>1. Len(entries) \in Nat /\ DOMAIN entries = 1 .. Len(entries) /\ entries \in Seq(EntrySet)
  BY DEF WalkTypes
<1> QED BY <1>1 DEF Given

(* What waits keeps to the entries as long as none comes or goes.          *)
LEMMA Moved ==
  ASSUME NEW v, NEW node, WalkInv(v, node), world' = world, entries' = entries, Pending' = Pending,
         Once', Threads'
  PROVE  WalkInv(v, node)'
<1>1. Given' = Given
  BY DEF Given
<1>2. /\ Table(v)' = Table(v) /\ Shown(v)' = Shown(v)
      /\ \A k : PathTo(v, k)' = PathTo(v, k) /\ Parent(v, k)' = Parent(v, k)
  BY SameWorld DEF Shown
<1>3. Plain(v, node)' = Plain(v, node)
  BY <1>1, <1>2 DEF Plain
<1>4. \A r : Spot(v, node, r)' = Spot(v, node, r)
  BY <1>2 DEF Spot
<1>5. Spots(v, node)' = Spots(v, node)
  BY <1>3, <1>4 DEF Spots
<1>6. \A r : EntryStands(v, node, r)' = EntryStands(v, node, r)
  BY <1>2 DEF EntryStands
<1>7. Tree(v, node)' = Tree(v, node)
  BY <1>1, <1>6 DEF Tree
<1>8. Fresh' = Fresh
  BY <1>1 DEF Fresh
<1>9. \A r : Opened(v, node, r)' = Opened(v, node, r)
  BY <1>1, <1>2 DEF Opened
<1>10. Covered(v, node)' = Covered(v, node)
  BY <1>3, <1>4, <1>9 DEF Covered
<1> QED BY <1>1, <1>5, <1>7, <1>8, <1>10 DEF WalkInv

(* All but one thread keep what they have.                                 *)
LEMMA OthersHold ==
  ASSUME NEW w \in Worker, NEW x, worker \in [Worker -> ThreadSet], worker' = [worker EXCEPT ![w] = x]
  PROVE  /\ worker'[w] = x /\ \A u \in Worker \ {w} : worker'[u] = worker[u] /\ Holds(u)' = Holds(u)
         /\ Holds(w)' = Range(x.local) \cup Range(x.new) \cup IF x.at = "taken" THEN {x.item} ELSE {}
<1>1. worker'[w] = x /\ \A u \in Worker \ {w} : worker'[u] = worker[u]
  OBVIOUS
<1>2. \A u \in Worker \ {w} : Holds(u)' = Holds(u)
  BY <1>1 DEF Holds
<1>3. Holds(w)' = Range(x.local) \cup Range(x.new) \cup IF x.at = "taken" THEN {x.item} ELSE {}
  BY <1>1 DEF Holds
<1> QED BY <1>1, <1>2, <1>3

(* A sequence taken apart.                                                 *)
LEMMA LastApart ==
  ASSUME NEW X, NEW s \in Seq(X), s # <<>>, Apart(s)
  PROVE  /\ Front(s) \in Seq(X) /\ Last(s) \in X /\ Apart(Front(s))
         /\ Range(s) = Range(Front(s)) \cup {Last(s)} /\ Last(s) \notin Range(Front(s))
<1>1. PICK t \in Seq(X), e \in X : s = Append(t, e)
  BY SequenceEmptyOrAppend
<1>2. Front(s) = t /\ Last(s) = e /\ Range(s) = Range(t) \cup {e}
  BY <1>1, FrontAppend
<1>3. /\ Len(t) \in Nat /\ DOMAIN t = 1 .. Len(t) /\ DOMAIN s = 1 .. Len(t) + 1
      /\ (\A i \in 1 .. Len(t) : s[i] = t[i]) /\ s[Len(t) + 1] = e
  BY <1>1, AppendProperties, LenProperties
<1>4. \A i \in 1 .. Len(t) : i \in DOMAIN s /\ i # Len(t) + 1 /\ Len(t) + 1 \in DOMAIN s
  BY <1>3
<1>5. Apart(t)
  BY <1>3, <1>4 DEF Apart
<1>6. e \notin Range(t)
  BY <1>3, <1>4 DEF Apart, Range
<1> QED BY <1>2, <1>5, <1>6

(* Taking the first of different elements leaves the others.               *)
LEMMA HeadApart ==
  ASSUME NEW X, NEW s \in Seq(X), s # <<>>, Apart(s)
  PROVE  /\ Tail(s) \in Seq(X) /\ Head(s) \in X /\ Apart(Tail(s))
         /\ Range(s) = Range(Tail(s)) \cup {Head(s)} /\ Head(s) \notin Range(Tail(s))
<1>1. /\ Head(s) \in X /\ Tail(s) \in Seq(X) /\ Len(Tail(s)) = Len(s) - 1
      /\ \A i \in 1 .. Len(Tail(s)) : Tail(s)[i] = s[i + 1]
  BY HeadTailProperties
<1>2. Len(s) \in Nat \ {0} /\ DOMAIN s = 1 .. Len(s) /\ DOMAIN Tail(s) = 1 .. Len(s) - 1 /\ Head(s) = s[1]
  BY <1>1, EmptySeq
<1> DEFINE t == Tail(s)
<1>3. \A i \in DOMAIN t : t[i] = s[i + 1] /\ i + 1 \in DOMAIN s /\ i \in Nat /\ i + 1 # 1
  BY <1>1, <1>2
<1>4. 1 \in DOMAIN s
  BY <1>2
<1> HIDE DEF t
<1>5. Apart(t)
  BY <1>3 DEF Apart
<1>6. s[1] \notin Range(t)
  BY <1>3, <1>4 DEF Apart, Range
<1>7. Range(s) = Range(t) \cup {s[1]}
  <2>1. \A i \in DOMAIN s : i = 1 \/ (i - 1 \in DOMAIN t /\ (i - 1) + 1 = i)
    BY <1>2 DEF t
  <2> QED BY <1>3, <1>4, <2>1 DEF Range
<1> QED BY <1>1, <1>2, <1>5, <1>6, <1>7 DEF t

(* A thread that takes a folder keeps the invariant of the walk.           *)
LEMMA TakeWalks ==
  ASSUME NEW v, NEW node, WalkTypes, WalkInv(v, node), NEW w \in Worker, Take(w)
  PROVE  WalkTypes' /\ WalkInv(v, node)'
<1>0. world' = world /\ entries' = entries /\ worker[w].at = "idle" /\ worker[w] \in ThreadSet
      /\ worker[w].new = <<>>
  BY DEF Take, Walks, WalkTypes, WalkInv, Threads
<1>00. /\ Apart(queue) /\ queue \in Seq(ItemSet) /\ worker[w].local \in Seq(ItemSet) /\ Apart(worker[w].local)
       /\ worker[w].new \in Seq(ItemSet)
  BY <1>0 DEF WalkInv, Once, WalkTypes, ThreadSet
<1>01. Holds(w) = Range(worker[w].local) \cup Range(worker[w].new)
  BY <1>0 DEF Holds
<1>02. Range(<<>>) = {}
  BY DEF Range
<1>1. CASE worker[w].local # <<>> /\ UNCHANGED queue /\
           worker' = [worker EXCEPT ![w].at = "taken", ![w].item = Last(worker[w].local), ![w].local = Front(@)]
  <2> DEFINE x == [worker[w] EXCEPT !.at = "taken", !.item = Last(worker[w].local), !.local = Front(@)]
  <2>1. worker' = [worker EXCEPT ![w] = x] /\ worker \in [Worker -> ThreadSet]
    BY <1>1 DEF WalkTypes
  <2>2. /\ x.at = "taken" /\ x.item = Last(worker[w].local) /\ x.local = Front(worker[w].local) /\ x.new = worker[w].new
    BY <1>0 DEF ThreadSet
  <2>3. /\ Front(worker[w].local) \in Seq(ItemSet) /\ Last(worker[w].local) \in ItemSet
        /\ Apart(Front(worker[w].local))
        /\ Range(worker[w].local) = Range(Front(worker[w].local)) \cup {Last(worker[w].local)}
        /\ Last(worker[w].local) \notin Range(Front(worker[w].local))
    BY <1>00, <1>1, LastApart
  <2>4. x \in ThreadSet
    BY <1>0, <2>2, <2>3 DEF ThreadSet
  <2> HIDE DEF x
  <2>5. WalkTypes'
    BY <1>0, <1>1, <2>1, <2>4 DEF WalkTypes
  <2>6. /\ worker'[w] = x /\ \A u \in Worker \ {w} : worker'[u] = worker[u] /\ Holds(u)' = Holds(u)
        /\ Holds(w)' = Range(x.local) \cup Range(x.new) \cup {x.item}
    BY <2>1, <2>2, OthersHold
  <2>7. Holds(w)' = Holds(w)
    BY <1>01, <2>2, <2>3, <2>6
  <2>8. Pending' = Pending
    BY <1>1, <2>6, <2>7 DEF Pending
  <2>9. Once'
    <3>1. Range(x.local) \cap Range(x.new) = {} /\ x.item \notin Range(x.local) \cup Range(x.new)
          /\ Apart(x.local) /\ Apart(x.new)
      BY <1>0, <1>00, <1>02, <2>2, <2>3 DEF WalkInv, Once
    <3>2. \A u \in Worker : Holds(u)' = Holds(u)
      BY <2>6, <2>7
    <3> QED BY <1>1, <2>6, <3>1, <3>2 DEF WalkInv, Once
  <2>10. Threads'
    <3>1. \A u \in Worker \ {w} : /\ worker'[u].at # "read" => worker'[u].new = <<>>
                                  /\ worker'[u].at = "gone" => worker'[u].local = <<>>
      BY <2>6 DEF WalkInv, Threads
    <3>2. worker'[w].at = "taken" /\ worker'[w].new = <<>>
      BY <1>0, <2>2, <2>6
    <3> QED BY <3>1, <3>2 DEF Threads
  <2> QED BY <1>0, <2>5, <2>8, <2>9, <2>10, Moved
<1>2. CASE worker[w].local = <<>> /\ queue # <<>> /\ queue' = Tail(queue) /\
           worker' = [worker EXCEPT ![w].at = "taken", ![w].item = Head(queue)]
  <2> DEFINE x == [worker[w] EXCEPT !.at = "taken", !.item = Head(queue)]
  <2>1. worker' = [worker EXCEPT ![w] = x] /\ worker \in [Worker -> ThreadSet]
    BY <1>2 DEF WalkTypes
  <2>2. /\ x.at = "taken" /\ x.item = Head(queue) /\ x.local = worker[w].local /\ x.new = worker[w].new
    BY <1>0 DEF ThreadSet
  <2>3. /\ Tail(queue) \in Seq(ItemSet) /\ Head(queue) \in ItemSet
        /\ Apart(Tail(queue)) /\ Range(queue) = Range(Tail(queue)) \cup {Head(queue)}
        /\ Head(queue) \notin Range(Tail(queue))
    BY <1>00, <1>2, HeadApart
  <2>4. x \in ThreadSet
    BY <1>0, <2>2, <2>3 DEF ThreadSet
  <2> HIDE DEF x
  <2>5. WalkTypes'
    BY <1>0, <1>2, <2>1, <2>3, <2>4 DEF WalkTypes
  <2>6. /\ worker'[w] = x /\ \A u \in Worker \ {w} : worker'[u] = worker[u] /\ Holds(u)' = Holds(u)
        /\ Holds(w)' = Range(x.local) \cup Range(x.new) \cup {x.item}
    BY <2>1, <2>2, OthersHold
  <2>7. Holds(w)' = {Head(queue)} /\ Holds(w) = {}
    BY <1>0, <1>01, <1>02, <1>2, <2>2, <2>6
  <2>8. Pending' = Pending
    BY <1>2, <2>3, <2>6, <2>7 DEF Pending
  <2>9. Once'
    <3>1. Range(x.local) = {} /\ Range(x.new) = {} /\ Apart(x.local) /\ Apart(x.new)
      BY <1>0, <1>00, <1>02, <1>2, <2>2
    <3>2. \A u \in Worker \ {w} : Head(queue) \notin Holds(u) /\ Holds(u) \cap Range(Tail(queue)) = {}
      BY <2>3 DEF WalkInv, Once
    <3>3. Apart(queue')
      BY <1>2, <2>3
    <3>4. \A u \in Worker :
            /\ Apart(worker'[u].local) /\ Apart(worker'[u].new)
            /\ Range(worker'[u].local) \cap Range(worker'[u].new) = {}
            /\ worker'[u].at = "taken" => worker'[u].item \notin Range(worker'[u].local) \cup Range(worker'[u].new)
            /\ Holds(u)' \cap Range(queue') = {}
      <4> SUFFICES ASSUME NEW u \in Worker
                   PROVE  /\ Apart(worker'[u].local) /\ Apart(worker'[u].new)
                          /\ Range(worker'[u].local) \cap Range(worker'[u].new) = {}
                          /\ worker'[u].at = "taken" => worker'[u].item \notin Range(worker'[u].local) \cup Range(worker'[u].new)
                          /\ Holds(u)' \cap Range(queue') = {}
        OBVIOUS
      <4>1. CASE u = w
        BY <1>2, <2>2, <2>3, <2>6, <2>7, <3>1, <4>1
      <4>2. CASE u # w
        BY <1>2, <2>6, <3>2, <4>2 DEF WalkInv, Once
      <4> QED BY <4>1, <4>2
    <3>5. \A u, y \in Worker : u # y => Holds(u)' \cap Holds(y)' = {}
      BY <2>6, <2>7, <3>2 DEF WalkInv, Once
    <3> QED BY <3>3, <3>4, <3>5 DEF Once
  <2>10. Threads'
    BY <1>0, <1>2, <2>2, <2>6 DEF WalkInv, Threads
  <2> QED BY <1>0, <2>5, <2>8, <2>9, <2>10, Moved
<1> QED BY <1>1, <1>2 DEF Take

(* An entry made of a record is an entry.                                  *)
LEMMA EntryOfIs ==
  ASSUME NEW v, Disk(v), NEW k \in DOMAIN Table(v), NEW item, item.ref \in Nat, NEW ref \in Nat
  PROVE  EntryOf(item, Table(v)[k], ref) \in EntrySet
<1> DEFINE f == Table(v)[k]
<1>1. /\ f.size \in Nat /\ f.used \in Nat /\ f.changed \in Nat /\ f.name \in Words
      /\ (f.kind \in {"folder", "cloud"}) \in BOOLEAN
  BY DiskIs
<1> HIDE DEF f
<1>2. EntryOf(item, f, ref) \in EntrySet
  BY <1>1 DEF EntryOf, EntrySet
<1> QED BY <1>2 DEF f

(* A thread that opens a folder keeps it, with the new entries standing
   for the records found.                                                  *)
LEMMA OpenWalks ==
  ASSUME Disk(Letter), ~ByTable(Letter), NEW node, WalkTypes, WalkInv(Letter, node), NEW w \in Worker, Open(w)
  PROVE  WalkTypes' /\ \E after : WalkInv(Letter, after)'
<1>0. PICK v : v = Letter
  OBVIOUS
<1> DEFINE item == worker[w].item
           n == Len(entries)
           L == Listed(Letter, item)
           more == [i \in DOMAIN L |-> EntryOf(item, Table(Letter)[L[i]], n + i - 1)]
           found == [i \in DOMAIN L |->
                       [path |-> Append(item.path, Table(Letter)[L[i]].name), ref |-> n + i - 1, node |-> L[i]]]
           new == Only(found, {x \in Range(found) : Table(Letter)[x.node].kind = "folder"})
           after == [r \in 0 .. n + Len(L) - 1 |-> IF r < n THEN node[r] ELSE L[r - n + 1]]
(* what the step does *)
<1>1. /\ worker[w].at = "taken" /\ world' = world /\ queue' = queue /\ volumes' = volumes /\ volume' = volume
      /\ entries' = entries \o more
      /\ worker' = [worker EXCEPT ![w].at = "read", ![w].new = new]
  BY DEF Open, Walks
<1>2. Letter' = v /\ Disk(v) /\ ~ByTable(v) /\ WalkInv(v, node)
  BY <1>0, <1>1 DEF Letter
<1>3. /\ worker \in [Worker -> ThreadSet] /\ worker[w] \in ThreadSet /\ worker[w].new = <<>>
      /\ item \in ItemSet /\ item \in Holds(w) /\ item \in Pending
  BY <1>1, <1>2 DEF WalkTypes, WalkInv, Threads, ThreadSet, Holds, Pending
(* the folder that is opened *)
<1>4. PICK r0 \in Plain(v, node) : item = Spot(v, node, r0)
  BY <1>2, <1>3 DEF WalkInv, Spots
<1>5. /\ item.ref = r0 /\ item.node = node[r0] /\ item.path = PathTo(v, item.node)
      /\ r0 \in Given /\ r0 \in Nat /\ r0 < n /\ n \in Nat /\ 0 \in Given
      /\ \A r \in Given : r \in Nat /\ r < n
      /\ \A r \in Nat : r < n => r \in Given
  <2>1. r0 \in Given /\ 0 \in Given
    BY <1>2 DEF Plain, WalkInv
  <2>2. n \in Nat /\ Given = 0 .. n - 1
    BY GivenIs DEF Given
  <2>3. item.ref = r0 /\ item.node = node[r0] /\ item.path = PathTo(v, item.node)
    BY <1>4 DEF Spot
  <2> HIDE DEF n, item
  <2> QED BY <2>1, <2>2, <2>3
<1>6. item.node = 0 \/ (item.node \in Intact(v) /\ Table(v)[item.node].kind = "folder")
  <2>1. CASE r0 = 0
    BY <1>2, <1>5, <2>1 DEF WalkInv, Tree
  <2>2. CASE r0 # 0
    <3>1. node[r0] \in Shown(v) /\ Table(v)[node[r0]].kind = "folder"
      BY <1>2, <1>4, <1>5, <2>2 DEF WalkInv, Tree, EntryStands, Plain
    <3> QED BY <1>5, <3>1 DEF Shown
  <2> QED BY <2>1, <2>2
(* what it shows *)
<1>7. /\ L \in Seq(DOMAIN Table(v)) /\ Apart(L)
      /\ Range(L) = {k \in Shown(v) : Parent(v, k) = item.node}
      /\ \A k \in Shown(v) : Parent(v, k) = item.node => PathTo(v, k) = Append(item.path, Table(v)[k].name)
  <2> HIDE DEF item
  <2>1. L = Listed(v, item)
    BY <1>0
  <2> HIDE DEF L
  <2> QED BY <1>2, <1>5, <1>6, <2>1, ListedIs
<1>8. /\ Len(L) \in Nat /\ DOMAIN L = 1 .. Len(L) /\ DOMAIN more = 1 .. Len(L) /\ DOMAIN found = 1 .. Len(L)
      /\ \A i \in 1 .. Len(L) : /\ L[i] \in DOMAIN Table(v) /\ L[i] \in Shown(v) /\ Parent(v, L[i]) = item.node
                                /\ L[i] # 0
                                /\ PathTo(v, L[i]) = Append(item.path, Table(v)[L[i]].name)
                                /\ n + i - 1 \in Nat /\ n + i - 1 >= n
  <2> HIDE DEF L, n, item
  <2>1. Len(L) \in Nat /\ DOMAIN L = 1 .. Len(L) /\ \A i \in 1 .. Len(L) : L[i] \in DOMAIN Table(v) /\ L[i] \in Range(L)
    BY <1>7 DEF Range
  <2>2. 0 \notin DOMAIN Table(v)
    BY <1>2, DiskIs
  <2>3. \A i \in 1 .. Len(L) : n + i - 1 \in Nat /\ n + i - 1 >= n
    BY <1>5, <2>1
  <2>4. \A i \in 1 .. Len(L) : L[i] \in Shown(v) /\ Parent(v, L[i]) = item.node
    BY <1>7, <2>1
  <2> QED BY <1>7, <2>1, <2>2, <2>3, <2>4
<1>9. /\ \A i \in 1 .. Len(L) : Table(v)[L[i]].name \in Words
      /\ item.path \in Seq(Words) /\ item.ref \in Nat
  BY <1>2, <1>3, <1>8, DiskIs DEF ItemSet
<1>10. more \in Seq(EntrySet) /\ Len(more) = Len(L)
       /\ \A i \in 1 .. Len(L) : more[i] = EntryOf(item, Table(v)[L[i]], n + i - 1)
  <2> HIDE DEF L, n, item
  <2>1. ASSUME NEW i \in 1 .. Len(L) PROVE EntryOf(item, Table(v)[L[i]], n + i - 1) \in EntrySet
    BY <1>2, <1>8, <1>9, EntryOfIs
  <2> QED BY <1>0, <1>8, <2>1
<1>11. found \in Seq(ItemSet) /\ \A i \in 1 .. Len(L) : found[i] = Spot(v, after, n + i - 1) /\ found[i].ref = n + i - 1
                                                        /\ found[i].node = L[i]
  <2>1. ASSUME NEW i \in 1 .. Len(L) PROVE found[i] \in ItemSet /\ found[i].ref = n + i - 1 /\ found[i].node = L[i]
                                           /\ found[i] = [path |-> PathTo(v, L[i]), ref |-> n + i - 1, node |-> L[i]]
    <3>1. found[i] = [path |-> Append(item.path, Table(v)[L[i]].name), ref |-> n + i - 1, node |-> L[i]]
      BY <1>0, <1>8
    <3>2. L[i] \in Nat /\ Append(item.path, Table(v)[L[i]].name) \in Seq(Words) /\ n + i - 1 \in Nat
      <4>1. L[i] \in DOMAIN Table(v) /\ Table(v)[L[i]].name \in Words /\ n + i - 1 \in Nat
        BY <1>8, <1>9
      <4>2. DOMAIN Table(v) \subseteq Nat
        BY <1>2, DiskIs
      <4> HIDE DEF L, item
      <4> QED BY <1>9, <4>1, <4>2
    <3>3. PathTo(v, L[i]) = Append(item.path, Table(v)[L[i]].name)
      BY <1>8
    <3> DEFINE p == Append(item.path, Table(v)[L[i]].name) m == n + i - 1 k == L[i]
    <3> HIDE DEF p, m, k
    <3>4. found[i] = [path |-> p, ref |-> m, node |-> k] /\ k \in Nat /\ p \in Seq(Words) /\ m \in Nat
          /\ PathTo(v, k) = p
      BY <3>1, <3>2, <3>3 DEF p, m, k
    <3> HIDE DEF found, L, n, item
    <3>5. found[i] \in ItemSet /\ found[i].ref = m /\ found[i].node = k
          /\ found[i] = [path |-> PathTo(v, k), ref |-> m, node |-> k]
      BY <3>4 DEF ItemSet
    <3> QED BY <3>5 DEF m, k
  <2>2. found \in Seq(ItemSet)
    <3> HIDE DEF L, n, item
    <3>1. \A i \in DOMAIN found : found[i] \in ItemSet
      BY <1>8, <2>1
    <3>2. found = [i \in 1 .. Len(L) |-> found[i]]
      BY <1>8
    <3> HIDE DEF found
    <3>3. found \in [1 .. Len(L) -> ItemSet]
      BY <1>8, <3>1, <3>2
    <3> QED BY <1>8, <3>3, SeqDef
  <2>3. ASSUME NEW i \in 1 .. Len(L) PROVE after[n + i - 1] = L[i]
    <3> HIDE DEF L, n
    <3>1. n + i - 1 \in 0 .. n + Len(L) - 1 /\ ~(n + i - 1 < n) /\ (n + i - 1) - n + 1 = i
      BY <1>5, <1>8
    <3> QED BY <3>1
  <2> HIDE DEF found, after, L, n
  <2> QED BY <2>1, <2>2, <2>3 DEF Spot
<1>12. /\ \A r \in Given : after[r] = node[r]
       /\ \A i \in 1 .. Len(L) : after[n + i - 1] = L[i]
  <2>1. ASSUME NEW i \in 1 .. Len(L) PROVE after[n + i - 1] = L[i]
    <3> HIDE DEF L, n
    <3>1. n + i - 1 \in 0 .. n + Len(L) - 1 /\ ~(n + i - 1 < n) /\ (n + i - 1) - n + 1 = i
      BY <1>5, <1>8
    <3> QED BY <3>1
  <2>2. ASSUME NEW r \in Given PROVE after[r] = node[r]
    <3> HIDE DEF L, n
    <3>1. r \in 0 .. n + Len(L) - 1 /\ r < n
      BY <1>5, <1>8
    <3> QED BY <3>1
  <2> QED BY <2>1, <2>2
<1> HIDE DEF after, more, found, L
<1>13. /\ new \in Seq(ItemSet) /\ Apart(new)
       /\ \A x \in Range(new) : \E i \in 1 .. Len(L) : x = found[i] /\ Table(v)[L[i]].kind = "folder"
       /\ \A i \in 1 .. Len(L) : Table(v)[L[i]].kind = "folder" => found[i] \in Range(new)
  <2> DEFINE F == {x \in Range(found) : Table(v)[x.node].kind = "folder"}
  <2>1. Apart(found)
    <3>1. \A i, j \in 1 .. Len(L) : n + i - 1 = n + j - 1 => i = j
      BY <1>5, <1>8
    <3> HIDE DEF n
    <3>2. \A i \in 1 .. Len(L) : found[i].ref = n + i - 1
      BY <1>11
    <3>3. \A i, j \in 1 .. Len(L) : found[i] = found[j] => i = j
      BY <3>1, <3>2
    <3> QED BY <1>8, <3>3 DEF Apart
  <2>2. Range(found) = {found[i] : i \in 1 .. Len(L)}
    BY <1>8 DEF Range
  <2>3. new = Only(found, F)
    BY <1>0
  <2> HIDE DEF F, new
  <2>4. new \in Seq(ItemSet) /\ Range(new) = Range(found) \cap F /\ Apart(new)
    BY <1>11, <2>1, <2>3, OnlyIs
  <2>5. \A i \in 1 .. Len(L) : found[i].node = L[i]
    BY <1>11
  <2> QED BY <2>2, <2>4, <2>5 DEF F
<1> HIDE DEF new
(* the entries, old and new *)
<1>14. /\ entries' \in Seq(EntrySet) /\ Len(entries') = n + Len(L)
       /\ Given' = Given \cup {n + i - 1 : i \in 1 .. Len(L)}
       /\ \A r \in Given : entries'[r + 1] = entries[r + 1]
       /\ \A i \in 1 .. Len(L) : entries'[(n + i - 1) + 1] = EntryOf(item, Table(v)[L[i]], n + i - 1)
  <2>1. entries \in Seq(EntrySet)
    BY DEF WalkTypes
  <2>2. /\ entries \o more \in Seq(EntrySet) /\ Len(entries \o more) = n + Len(L)
        /\ \A i \in 1 .. n + Len(L) : (entries \o more)[i] = IF i <= n THEN entries[i] ELSE more[i - n]
    BY <1>10, <2>1, ConcatProperties
  <2>3. Given' = 0 .. n + Len(L) - 1
    BY <1>1, <2>2 DEF Given
  <2>4. ASSUME NEW i \in 1 .. Len(L)
        PROVE  /\ (n + i - 1) + 1 \in 1 .. n + Len(L) /\ ~((n + i - 1) + 1 <= n) /\ ((n + i - 1) + 1) - n = i
               /\ n + i - 1 \in 0 .. n + Len(L) - 1
    <3> HIDE DEF n
    <3> QED BY <1>5, <1>8
  <2>5. ASSUME NEW r \in Given PROVE r + 1 \in 1 .. n + Len(L) /\ r + 1 <= n /\ r \in 0 .. n + Len(L) - 1
    <3> HIDE DEF n
    <3> QED BY <1>5, <1>8
  <2>6. ASSUME NEW r \in 0 .. n + Len(L) - 1, r \notin Given
        PROVE  r - n + 1 \in 1 .. Len(L) /\ r = n + (r - n + 1) - 1
    <3> HIDE DEF n
    <3> QED BY <1>5, <1>8, <2>6
  <2>7. Given' = Given \cup {n + i - 1 : i \in 1 .. Len(L)}
    <3> HIDE DEF n
    <3> QED BY <2>3, <2>4, <2>5, <2>6
  <2>8. \A i \in 1 .. Len(L) : entries'[(n + i - 1) + 1] = EntryOf(item, Table(v)[L[i]], n + i - 1)
    <3> HIDE DEF n, item
    <3> QED BY <1>1, <1>10, <2>2, <2>4
  <2>9. \A r \in Given : entries'[r + 1] = entries[r + 1]
    <3> HIDE DEF n
    <3> QED BY <1>1, <2>2, <2>5
  <2> QED BY <1>1, <2>2, <2>7, <2>8, <2>9
<1>15. /\ Table(v)' = Table(v) /\ Shown(v)' = Shown(v)
       /\ \A k : PathTo(v, k)' = PathTo(v, k) /\ Parent(v, k)' = Parent(v, k)
  BY <1>1, SameWorld DEF Shown
<1>16. PICK a : a = after
  OBVIOUS
<1>161. PICK num : num = [i \in 1 .. Len(L) |-> n + i - 1]
  OBVIOUS
<1>162. \A i \in 1 .. Len(L) : num[i] = n + i - 1
  BY <1>161
<1>160. /\ Given' = Given \cup {num[i] : i \in 1 .. Len(L)}
        /\ \A i \in 1 .. Len(L) :
             /\ num[i] \in Nat /\ num[i] >= n /\ num[i] \notin Given /\ item.ref \in 0 .. num[i] - 1
             /\ entries'[num[i] + 1] = EntryOf(item, Table(v)[L[i]], num[i])
             /\ a[num[i]] = L[i] /\ found[i] = Spot(v, a, num[i]) /\ found[i].ref = num[i]
        /\ n >= 1
  <2> HIDE DEF n, item
  <2>1. Given' = Given \cup {num[i] : i \in 1 .. Len(L)}
    BY <1>14, <1>162
  <2>2. \A i \in 1 .. Len(L) : a[num[i]] = L[i] /\ entries'[num[i] + 1] = EntryOf(item, Table(v)[L[i]], num[i])
    BY <1>12, <1>14, <1>16, <1>162
  <2>3. \A i \in 1 .. Len(L) : found[i] = Spot(v, a, num[i]) /\ found[i].ref = num[i]
    BY <1>11, <1>16, <1>162
  <2>4. \A i \in 1 .. Len(L) : num[i] \in Nat /\ num[i] >= n
    BY <1>8, <1>162
  <2>5. n >= 1
    BY <1>5
  <2>6. \A i \in 1 .. Len(L) : num[i] \notin Given /\ item.ref \in 0 .. num[i] - 1
    BY <1>5, <2>4
  <2> QED BY <2>1, <2>2, <2>3, <2>4, <2>5, <2>6
<1> HIDE DEF n, item
<1>17. \A r \in Given : a[r] = node[r]
  BY <1>12, <1>16
<1>18. /\ \A r \in Given' : r \in Given \/ \E i \in 1 .. Len(L) : r = num[i]
       /\ Given \subseteq Given' /\ \A i \in 1 .. Len(L) : num[i] \in Given' /\ num[i] # 0
  BY <1>5, <1>160
<1>19. Tree(v, node)
  BY <1>2 DEF WalkInv
<1>20. Tree(v, a)'
  <2>1. entries'[1] = Root /\ a[0] = 0
    BY <1>5, <1>14, <1>17, <1>19 DEF Tree
  <2>2. ASSUME NEW r \in Given \ {0} PROVE EntryStands(v, a, r)'
    <3>1. EntryStands(v, node, r)
      BY <1>19 DEF Tree
    <3>2. entries[r + 1].parent \in Given
      <4>1. entries[r + 1].parent \in 0 .. r - 1 /\ r \in Nat /\ r < n
        BY <1>5, <3>1 DEF EntryStands
      <4> QED BY <1>5, <4>1
    <3>3. a[r] = node[r] /\ a[entries[r + 1].parent] = node[entries[r + 1].parent] /\ entries'[r + 1] = entries[r + 1]
      BY <1>14, <1>17, <3>2
    <3> QED BY <1>15, <3>1, <3>3 DEF EntryStands
  <2>3. ASSUME NEW i \in 1 .. Len(L) PROVE EntryStands(v, a, num[i])'
    <3>0. PICK r : r = num[i]
      OBVIOUS
    <3>1. entries'[r + 1] = EntryOf(item, Table(v)[L[i]], r) /\ a[r] = L[i]
      BY <1>160, <3>0
    <3>2. entries'[r + 1].parent = item.ref /\ EntryOf(item, Table(v)[L[i]], r) = EntryOf([ref |-> item.ref], Table(v)[L[i]], r)
      BY <3>1 DEF EntryOf
    <3>3. item.ref \in 0 .. r - 1
      BY <1>160, <3>0
    <3>4. a[item.ref] = Parent(v, L[i]) /\ L[i] \in Shown(v)
      BY <1>5, <1>8, <1>17
    <3>5. EntryStands(v, a, r)'
      BY <1>15, <3>1, <3>2, <3>3, <3>4 DEF EntryStands
    <3> QED BY <3>0, <3>5
  <2>4. ASSUME NEW q \in Given, NEW i \in 1 .. Len(L), node[q] = L[i] PROVE FALSE
    <3>1. q # 0
      BY <1>5, <1>8, <1>19, <2>4 DEF Tree
    <3>2. EntryStands(v, node, q) /\ q \in Nat /\ q < n
      BY <1>5, <1>19, <3>1 DEF Tree
    <3>3. entries[q + 1].parent \in Given
      <4>1. entries[q + 1].parent \in 0 .. q - 1
        BY <3>2 DEF EntryStands
      <4> QED BY <1>5, <3>2, <4>1
    <3>4. node[entries[q + 1].parent] = node[item.ref]
      BY <1>5, <1>8, <2>4, <3>2 DEF EntryStands
    <3>5. entries[q + 1].parent = item.ref
      BY <1>5, <1>19, <3>3, <3>4 DEF Tree
    <3> QED BY <1>2, <1>3, <3>1, <3>5 DEF WalkInv, Fresh
  <2>5. ASSUME NEW r \in Given', NEW q \in Given', a[r] = a[q] PROVE r = q
    <3>1. CASE r \in Given /\ q \in Given
      BY <1>17, <1>19, <2>5, <3>1 DEF Tree
    <3>2. CASE r \notin Given /\ q \notin Given
      <4>1. PICK i \in 1 .. Len(L), j \in 1 .. Len(L) : r = num[i] /\ q = num[j]
        BY <1>18, <3>2
      <4>2. L[i] = L[j]
        BY <1>160, <2>5, <4>1
      <4>3. i = j
        BY <1>7, <1>8, <4>2 DEF Apart
      <4> QED BY <4>1, <4>3
    <3>3. CASE r \in Given /\ q \notin Given
      <4>1. PICK j \in 1 .. Len(L) : q = num[j]
        BY <1>18, <3>3
      <4>2. node[r] = L[j]
        BY <1>17, <1>160, <2>5, <3>3, <4>1
      <4> QED BY <2>4, <3>3, <4>2
    <3>4. CASE r \notin Given /\ q \in Given
      <4>1. PICK j \in 1 .. Len(L) : r = num[j]
        BY <1>18, <3>4
      <4>2. node[q] = L[j]
        BY <1>17, <1>160, <2>5, <3>4, <4>1
      <4> QED BY <2>4, <3>4, <4>2
    <3> QED BY <3>1, <3>2, <3>3, <3>4
  <2>6. \A r \in Given' \ {0} : EntryStands(v, a, r)'
    BY <1>18, <2>2, <2>3
  <2> QED BY <2>1, <2>5, <2>6 DEF Tree
(* what waits now *)
<1>21. PICK x : x = [worker[w] EXCEPT !.at = "read", !.new = new]
  OBVIOUS
<1>22. /\ x \in ThreadSet /\ x.at = "read" /\ x.local = worker[w].local /\ x.new = new /\ x.item = item
       /\ worker' = [worker EXCEPT ![w] = x]
  <2>1. worker' = [worker EXCEPT ![w] = x]
    BY <1>1, <1>3, <1>21
  <2> QED BY <1>3, <1>13, <1>21, <2>1 DEF ThreadSet, item
<1>23. /\ worker'[w] = x /\ \A u \in Worker \ {w} : worker'[u] = worker[u] /\ Holds(u)' = Holds(u)
       /\ Holds(w)' = Range(worker[w].local) \cup Range(new)
  <2>1. /\ worker'[w] = x /\ \A u \in Worker \ {w} : worker'[u] = worker[u] /\ Holds(u)' = Holds(u)
        /\ Holds(w)' = Range(x.local) \cup Range(x.new) \cup IF x.at = "taken" THEN {x.item} ELSE {}
    BY <1>3, <1>22, OthersHold
  <2> QED BY <1>22, <2>1
<1>24. Holds(w) = Range(worker[w].local) \cup {item} /\ item \notin Range(worker[w].local)
       /\ item \notin Range(queue) /\ \A u \in Worker \ {w} : item \notin Holds(u)
  <2>1. Holds(w) = Range(worker[w].local) \cup {item}
    <3>1. Range(<<>>) = {}
      BY DEF Range
    <3> QED BY <1>1, <1>3, <3>1 DEF Holds, item
  <2> QED BY <1>1, <1>2, <1>3, <2>1 DEF WalkInv, Once, item
<1>25. Pending' = (Pending \ {item}) \cup Range(new)
  <2>1. Pending' = Range(queue) \cup Holds(w)' \cup UNION {Holds(u) : u \in Worker \ {w}}
    <3>1. UNION {Holds(u)' : u \in Worker} = Holds(w)' \cup UNION {Holds(u) : u \in Worker \ {w}}
      BY <1>23
    <3> QED BY <1>1, <3>1 DEF Pending
  <2>2. Pending = Range(queue) \cup Holds(w) \cup UNION {Holds(u) : u \in Worker \ {w}}
    <3>1. UNION {Holds(u) : u \in Worker} = Holds(w) \cup UNION {Holds(u) : u \in Worker \ {w}}
      OBVIOUS
    <3> QED BY <3>1 DEF Pending
  <2>3. item \notin UNION {Holds(u) : u \in Worker \ {w}}
    BY <1>24
  <2> QED BY <1>23, <1>24, <2>1, <2>2, <2>3
<1>26. Pending \subseteq Spots(v, node)
  BY <1>2 DEF WalkInv
<1>27. \A it \in Pending : it.ref \in Given /\ it = Spot(v, node, it.ref) /\ it.ref \in Plain(v, node)
  BY <1>26 DEF Spots, Spot, Plain
<1>28. \A r \in Given : Spot(v, a, r)' = Spot(v, node, r) /\ (r \in Plain(v, a)' <=> r \in Plain(v, node))
  BY <1>15, <1>17, <1>18 DEF Spot, Plain
<1>29. \A i \in 1 .. Len(L) : /\ Spot(v, a, num[i])' = found[i]
                              /\ num[i] \in Plain(v, a)' <=> Table(v)[L[i]].kind = "folder"
  <2>1. \A r : Spot(v, a, r)' = Spot(v, a, r)
    BY <1>15 DEF Spot
  <2> QED BY <1>15, <1>160, <1>18, <2>1 DEF Plain
<1>30. Pending' \subseteq Spots(v, a)'
  <2>1. ASSUME NEW it \in Pending PROVE it \in Spots(v, a)'
    BY <1>27, <1>28 DEF Spots
  <2>2. ASSUME NEW it \in Range(new) PROVE it \in Spots(v, a)'
    BY <1>13, <1>29 DEF Spots
  <2> QED BY <1>25, <2>1, <2>2
<1>31. \A it \in Range(new) : it.ref \notin Given /\ it.ref \in Nat /\ it.ref >= n
  <2>1. \A i \in 1 .. Len(L) : found[i].ref = num[i] /\ num[i] \notin Given /\ num[i] >= n /\ num[i] \in Nat
    BY <1>160
  <2> QED BY <1>13, <2>1
<1>32. Range(new) \cap Pending = {}
  BY <1>27, <1>31
<1>33. Once'
  <2>1. \A u \in Worker \ {w} : Holds(u) \cap Range(new) = {} /\ Holds(u) \cap Range(worker[w].local) = {}
    BY <1>2, <1>24, <1>32 DEF Pending, WalkInv, Once
  <2>2. Range(queue) \cap Range(new) = {} /\ Range(worker[w].local) \cap Range(new) = {}
    BY <1>24, <1>32 DEF Pending
  <2>3. Range(queue) \cap Range(worker[w].local) = {} /\ Apart(worker[w].local) /\ Apart(queue)
    BY <1>2, <1>24 DEF WalkInv, Once
  <2>4. ASSUME NEW u \in Worker
        PROVE  /\ Apart(worker'[u].local) /\ Apart(worker'[u].new)
               /\ Range(worker'[u].local) \cap Range(worker'[u].new) = {}
               /\ worker'[u].at = "taken" => worker'[u].item \notin Range(worker'[u].local) \cup Range(worker'[u].new)
               /\ Holds(u)' \cap Range(queue') = {}
    <3>1. CASE u = w
      BY <1>1, <1>13, <1>22, <1>23, <2>2, <2>3, <3>1
    <3>2. CASE u # w
      BY <1>1, <1>2, <1>23, <3>2 DEF WalkInv, Once
    <3> QED BY <3>1, <3>2
  <2>5. \A u, y \in Worker : u # y => Holds(u)' \cap Holds(y)' = {}
    BY <1>2, <1>23, <2>1 DEF WalkInv, Once
  <2> QED BY <1>1, <2>3, <2>4, <2>5 DEF Once
<1>34. Fresh'
  <2>1. ASSUME NEW it \in Pending', NEW r \in Given \ {0} PROVE entries'[r + 1].parent # it.ref
    <3>1. entries'[r + 1] = entries[r + 1]
      BY <1>14
    <3>2. CASE it \in Pending
      BY <1>2, <3>1, <3>2 DEF WalkInv, Fresh
    <3>3. CASE it \in Range(new)
      <4>1. entries[r + 1].parent \in 0 .. r - 1 /\ r \in Nat /\ r < n
        BY <1>5, <1>19 DEF Tree, EntryStands
      <4>2. entries[r + 1].parent \in Given
        BY <1>5, <4>1
      <4> QED BY <1>31, <3>1, <3>3, <4>2
    <3> QED BY <1>25, <3>2, <3>3
  <2>2. ASSUME NEW it \in Pending', NEW i \in 1 .. Len(L) PROVE entries'[(num[i]) + 1].parent # it.ref
    <3>1. entries'[(num[i]) + 1].parent = item.ref
      <4>1. entries'[num[i] + 1] = EntryOf(item, Table(v)[L[i]], num[i])
        BY <1>160
      <4>2. \A f, r : EntryOf(item, f, r).parent = item.ref
        BY DEF EntryOf
      <4> QED BY <4>1, <4>2
    <3>2. CASE it \in Pending /\ it # item
      BY <1>4, <1>5, <1>27, <3>1, <3>2
    <3>3. CASE it \in Range(new)
      BY <1>5, <1>31, <3>1, <3>3
    <3> QED BY <1>25, <3>2, <3>3
  <2>3. \A it \in Pending' : \A r \in Given' \ {0} : entries'[r + 1].parent # it.ref
    BY <1>18, <2>1, <2>2
  <2> QED BY <2>3 DEF Fresh
<1>35. Covered(v, a)'
  <2>1. ASSUME NEW r \in Plain(v, node) PROVE Spot(v, a, r)' \in Pending' \/ Opened(v, a, r)'
    <3>0. r \in Given
      BY DEF Plain
    <3>1. CASE r = r0
      <4>1. ASSUME NEW k \in Shown(v), Parent(v, k) = a[r] PROVE \E q \in Given' : a[q] = k
        <5>1. k \in Range(L)
          BY <1>5, <1>7, <1>17, <3>1, <4>1
        <5>2. PICK i \in 1 .. Len(L) : L[i] = k
          BY <1>8, <5>1 DEF Range
        <5> QED BY <1>160, <1>18, <5>2
      <4> QED BY <1>15, <4>1 DEF Opened
    <3>2. CASE r # r0 /\ Spot(v, node, r) \in Pending
      <4>1. Spot(v, node, r) # item
        BY <1>5, <3>2 DEF Spot
      <4> QED BY <1>25, <1>28, <3>0, <3>2, <4>1
    <3>3. CASE Opened(v, node, r)
      BY <1>15, <1>17, <1>18, <3>0, <3>3 DEF Opened
    <3> QED BY <1>2, <3>1, <3>2, <3>3 DEF WalkInv, Covered
  <2>2. ASSUME NEW i \in 1 .. Len(L), num[i] \in Plain(v, a)' PROVE Spot(v, a, num[i])' \in Pending'
    BY <1>13, <1>25, <1>29, <2>2
  <2>3. \A r \in Plain(v, a)' : r \in Plain(v, node) \/ \E i \in 1 .. Len(L) : r = num[i]
    <3>1. \A r \in Plain(v, a)' : r \in Given'
      BY DEF Plain
    <3> QED BY <1>18, <1>28, <3>1
  <2> QED BY <2>1, <2>2, <2>3 DEF Covered
<1>36. Threads'
  BY <1>1, <1>2, <1>22, <1>23 DEF WalkInv, Threads
<1>37. WalkInv(v, a)'
  BY <1>5, <1>18, <1>20, <1>30, <1>33, <1>34, <1>35, <1>36 DEF WalkInv
<1>38. WalkTypes'
  BY <1>1, <1>3, <1>14, <1>22 DEF WalkTypes
<1> QED BY <1>2, <1>37, <1>38

(* Halves.                                                                 *)
LEMMA HalfIs ==
  ASSUME NEW X, NEW s \in Seq(X), Apart(s)
  PROVE  /\ Half(s).mine \in Seq(X) /\ Half(s).theirs \in Seq(X)
         /\ Apart(Half(s).mine) /\ Apart(Half(s).theirs)
         /\ Range(Half(s).mine) \cap Range(Half(s).theirs) = {}
         /\ Range(s) = Range(Half(s).mine) \cup Range(Half(s).theirs)
<1> DEFINE h == Len(s) \div 2
           a == SubSeq(s, 1, h)
           b == SubSeq(s, h + 1, Len(s))
<1>1. Len(s) \in Nat /\ DOMAIN s = 1 .. Len(s) /\ \A i \in 1 .. Len(s) : s[i] \in X
  OBVIOUS
<1>2. h \in Nat /\ h <= Len(s)
  BY <1>1
<1>3. Half(s).mine = a /\ Half(s).theirs = b
  BY DEF Half
<1> HIDE DEF h
<1>4. /\ a \in Seq(X) /\ Len(a) = h /\ \A i \in 1 .. h : a[i] = s[i]
  <2>1. \A i \in 1 .. h : s[i] \in X
    BY <1>1, <1>2
  <2>2. /\ SubSeq(s, 1, h) \in Seq(X) /\ Len(SubSeq(s, 1, h)) = IF 1 <= h THEN h - 1 + 1 ELSE 0
        /\ \A i \in 1 .. h - 1 + 1 : SubSeq(s, 1, h)[i] = s[1 + i - 1]
    BY <1>2, <2>1, SubSeqProperties
  <2> QED BY <1>2, <2>2
<1>5. /\ b \in Seq(X) /\ Len(b) = Len(s) - h /\ \A i \in 1 .. Len(s) - h : b[i] = s[h + i]
  <2>1. \A i \in h + 1 .. Len(s) : s[i] \in X
    BY <1>1, <1>2
  <2>2. h + 1 \in Int /\ Len(s) \in Int
    BY <1>1, <1>2
  <2>3. /\ SubSeq(s, h + 1, Len(s)) \in Seq(X)
        /\ Len(SubSeq(s, h + 1, Len(s))) = IF h + 1 <= Len(s) THEN Len(s) - (h + 1) + 1 ELSE 0
        /\ \A i \in 1 .. Len(s) - (h + 1) + 1 : SubSeq(s, h + 1, Len(s))[i] = s[(h + 1) + i - 1]
    BY <2>1, <2>2, SubSeqProperties
  <2>4. Len(s) - (h + 1) + 1 = Len(s) - h /\ (~(h + 1 <= Len(s)) => Len(s) - h = 0)
        /\ \A i \in 1 .. Len(s) - h : (h + 1) + i - 1 = h + i
    <3>1. PICK n \in Nat : n = Len(s)
      BY <1>1
    <3>2. PICK c \in Nat : c = h
      BY <1>2
    <3>3. /\ n - (c + 1) + 1 = n - c /\ \A i \in 1 .. n - c : (c + 1) + i - 1 = c + i
          /\ c <= n /\ ~(c + 1 <= n) => n - c = 0
      OBVIOUS
    <3> QED BY <1>2, <3>1, <3>2, <3>3
  <2>5. Len(b) = Len(s) - h /\ b \in Seq(X)
    BY <2>3, <2>4
  <2>6. ASSUME NEW i \in 1 .. Len(s) - h PROVE b[i] = s[h + i]
    <3>1. (h + 1) + i - 1 = h + i /\ i \in 1 .. Len(s) - (h + 1) + 1
      BY <2>4
    <3>2. b[i] = s[(h + 1) + i - 1]
      BY <2>3, <3>1
    <3> QED BY <3>1, <3>2
  <2> HIDE DEF b
  <2> QED BY <2>5, <2>6
<1>6. DOMAIN a = 1 .. h /\ DOMAIN b = 1 .. Len(s) - h
  BY <1>4, <1>5
<1> HIDE DEF a, b
<1>7. /\ \A i \in 1 .. h : i \in 1 .. Len(s)
      /\ \A i \in 1 .. Len(s) - h : h + i \in 1 .. Len(s) /\ h + i \notin 1 .. h
      /\ \A i \in 1 .. Len(s) : i \in 1 .. h \/ (i - h \in 1 .. Len(s) - h /\ h + (i - h) = i)
      /\ \A i, j \in 1 .. Len(s) - h : h + i = h + j => i = j
  BY <1>1, <1>2
<1>8. Apart(a)
  BY <1>1, <1>4, <1>6, <1>7 DEF Apart
<1>9. Apart(b)
  BY <1>1, <1>5, <1>6, <1>7 DEF Apart
<1>10. Range(a) \cap Range(b) = {}
  BY <1>1, <1>4, <1>5, <1>6, <1>7 DEF Apart, Range
<1>11. Range(s) = Range(a) \cup Range(b)
  BY <1>1, <1>4, <1>5, <1>6, <1>7 DEF Range
<1> QED BY <1>3, <1>4, <1>5, <1>8, <1>9, <1>10, <1>11

(* Reverse keeps the elements.                                             *)
LEMMA ReverseIs ==
  ASSUME NEW X, NEW s \in Seq(X), Apart(s)
  PROVE  Reverse(s) \in Seq(X) /\ Apart(Reverse(s)) /\ Range(Reverse(s)) = Range(s)
<1> DEFINE z == [i \in 1 .. Len(s) |-> s[(Len(s) - i) + 1]]
<1>1. Len(s) \in Nat /\ DOMAIN s = 1 .. Len(s) /\ \A i \in 1 .. Len(s) : s[i] \in X
  OBVIOUS
<1>2. /\ \A i \in 1 .. Len(s) : (Len(s) - i) + 1 \in 1 .. Len(s) /\ (Len(s) - ((Len(s) - i) + 1)) + 1 = i
      /\ \A i, j \in 1 .. Len(s) : (Len(s) - i) + 1 = (Len(s) - j) + 1 => i = j
  BY <1>1
<1>3. z \in Seq(X) /\ DOMAIN z = 1 .. Len(s) /\ \A i \in 1 .. Len(s) : z[i] = s[(Len(s) - i) + 1]
  BY <1>1, <1>2
<1> HIDE DEF z
<1>4. Apart(z)
  BY <1>1, <1>2, <1>3 DEF Apart
<1>5. Range(z) = Range(s)
  <2>1. PICK m : m = [i \in 1 .. Len(s) |-> (Len(s) - i) + 1]
    OBVIOUS
  <2>2. \A i \in DOMAIN s : m[i] \in DOMAIN s /\ m[m[i]] = i /\ z[i] = s[m[i]]
    BY <1>1, <1>2, <1>3, <2>1
  <2>3. DOMAIN z = DOMAIN s
    BY <1>1, <1>3
  <2> QED BY <2>2, <2>3 DEF Range
<1>6. Reverse(s) = z
  BY DEF Reverse, z
<1> QED BY <1>3, <1>4, <1>5, <1>6

(* Two sequences with nothing in common, one behind the other.             *)
LEMMA ConcatApart ==
  ASSUME NEW X, NEW s \in Seq(X), NEW t \in Seq(X), Apart(s), Apart(t), Range(s) \cap Range(t) = {}
  PROVE  s \o t \in Seq(X) /\ Apart(s \o t) /\ Range(s \o t) = Range(s) \cup Range(t)
<1> DEFINE z == s \o t
<1>1. /\ z \in Seq(X) /\ Len(z) = Len(s) + Len(t)
      /\ \A i \in 1 .. Len(s) + Len(t) : z[i] = IF i <= Len(s) THEN s[i] ELSE t[i - Len(s)]
  BY ConcatProperties
<1>2. /\ Len(s) \in Nat /\ DOMAIN s = 1 .. Len(s) /\ Len(t) \in Nat /\ DOMAIN t = 1 .. Len(t)
      /\ DOMAIN z = 1 .. Len(s) + Len(t)
  BY <1>1, LenProperties
<1>3. Range(z) = Range(s) \cup Range(t)
  BY RangeConcatenation
<1> HIDE DEF z
<1>4. \A i \in DOMAIN z : \/ i \in DOMAIN s /\ z[i] = s[i]
                          \/ i - Len(s) \in DOMAIN t /\ z[i] = t[i - Len(s)]
  BY <1>1, <1>2
<1>5. \A i, j \in DOMAIN z : i - Len(s) = j - Len(s) => i = j
  BY <1>2
<1>6. ASSUME NEW i \in DOMAIN z, NEW j \in DOMAIN z, z[i] = z[j] PROVE i = j
  <2>1. CASE i \in DOMAIN s /\ z[i] = s[i] /\ j \in DOMAIN s /\ z[j] = s[j]
    BY <1>6, <2>1 DEF Apart
  <2>2. CASE i - Len(s) \in DOMAIN t /\ z[i] = t[i - Len(s)] /\ j - Len(s) \in DOMAIN t /\ z[j] = t[j - Len(s)]
    <3>1. i - Len(s) = j - Len(s)
      BY <1>6, <2>2 DEF Apart
    <3> QED BY <1>5, <3>1
  <2>3. ASSUME NEW k \in DOMAIN s, NEW l \in DOMAIN t, s[k] = t[l] PROVE FALSE
    BY <2>3 DEF Range
  <2> QED BY <1>4, <1>6, <2>1, <2>2, <2>3
<1>7. Apart(z)
  BY <1>6 DEF Apart
<1> QED BY <1>1, <1>3, <1>7 DEF z

(* A thread that shares what it found keeps it.                            *)
LEMMA ShareWalks ==
  ASSUME NEW v, NEW node, WalkTypes, WalkInv(v, node), NEW w \in Worker, Share(w)
  PROVE  WalkTypes' /\ WalkInv(v, node)'
<1> DEFINE s == worker[w].new
           half == Half(s)
           mine == Reverse(half.mine)
           x == [worker[w] EXCEPT !.at = "shared", !.new = <<>>, !.local = @ \o mine]
<1>1. /\ world' = world /\ entries' = entries /\ worker[w].at = "read" /\ queue' = queue \o half.theirs
      /\ worker' = [worker EXCEPT ![w].at = "shared", ![w].new = <<>>, ![w].local = @ \o mine]
  BY DEF Share, Walks
<1>2. /\ worker \in [Worker -> ThreadSet] /\ worker[w] \in ThreadSet /\ queue \in Seq(ItemSet)
      /\ worker[w].local \in Seq(ItemSet) /\ s \in Seq(ItemSet)
  BY DEF WalkTypes, ThreadSet
<1>3. /\ Apart(queue) /\ Apart(worker[w].local) /\ Apart(s) /\ Range(worker[w].local) \cap Range(s) = {}
      /\ Holds(w) \cap Range(queue) = {} /\ Holds(w) = Range(worker[w].local) \cup Range(s)
  BY <1>1 DEF WalkInv, Once, Holds
<1> HIDE DEF s
<1>4. /\ half.mine \in Seq(ItemSet) /\ half.theirs \in Seq(ItemSet) /\ Apart(half.mine) /\ Apart(half.theirs)
      /\ Range(half.mine) \cap Range(half.theirs) = {}
      /\ Range(s) = Range(half.mine) \cup Range(half.theirs)
  BY <1>2, <1>3, HalfIs
<1> HIDE DEF half
<1>5. mine \in Seq(ItemSet) /\ Apart(mine) /\ Range(mine) = Range(half.mine)
  BY <1>4, ReverseIs
<1> HIDE DEF mine
<1>6. /\ worker[w].local \o mine \in Seq(ItemSet) /\ Apart(worker[w].local \o mine)
      /\ Range(worker[w].local \o mine) = Range(worker[w].local) \cup Range(mine)
  BY <1>2, <1>3, <1>4, <1>5, ConcatApart
<1>7. /\ queue \o half.theirs \in Seq(ItemSet) /\ Apart(queue \o half.theirs)
      /\ Range(queue \o half.theirs) = Range(queue) \cup Range(half.theirs)
  BY <1>2, <1>3, <1>4, ConcatApart
<1>8. worker' = [worker EXCEPT ![w] = x]
  BY <1>1, <1>2
<1>9. x \in ThreadSet /\ x.at = "shared" /\ x.new = <<>> /\ x.local = worker[w].local \o mine
  <2>1. PICK after : after = worker[w].local \o mine
    OBVIOUS
  <2>2. after \in Seq(ItemSet) /\ <<>> \in Seq(ItemSet)
    BY <1>6, <2>1
  <2>3. x = [worker[w] EXCEPT !.at = "shared", !.new = <<>>, !.local = after]
    BY <1>2, <2>1 DEF ThreadSet
  <2>4. x \in ThreadSet /\ x.at = "shared" /\ x.new = <<>> /\ x.local = after
    BY <1>2, <2>2, <2>3 DEF ThreadSet
  <2> QED BY <2>1, <2>4
<1> HIDE DEF x
<1>10. Range(<<>>) = {} /\ Apart(<<>>)
  BY DEF Range, Apart
<1>11. /\ worker'[w] = x /\ \A u \in Worker \ {w} : worker'[u] = worker[u] /\ Holds(u)' = Holds(u)
       /\ Holds(w)' = Range(worker[w].local) \cup Range(mine)
  <2>1. /\ worker'[w] = x /\ \A u \in Worker \ {w} : worker'[u] = worker[u] /\ Holds(u)' = Holds(u)
        /\ Holds(w)' = Range(x.local) \cup Range(x.new) \cup IF x.at = "taken" THEN {x.item} ELSE {}
    BY <1>2, <1>8, OthersHold
  <2> QED BY <1>6, <1>9, <1>10, <2>1
<1>12. WalkTypes'
  BY <1>1, <1>2, <1>7, <1>8, <1>9 DEF WalkTypes
<1>13. Pending' = Pending
  <2>1. UNION {Holds(u)' : u \in Worker} = Holds(w)' \cup UNION {Holds(u) : u \in Worker \ {w}}
    BY <1>11
  <2>2. UNION {Holds(u) : u \in Worker} = Holds(w) \cup UNION {Holds(u) : u \in Worker \ {w}}
    OBVIOUS
  <2> QED BY <1>1, <1>3, <1>4, <1>5, <1>7, <1>11, <2>1, <2>2 DEF Pending
<1>14. Once'
  <2>1. \A u \in Worker \ {w} : Holds(u) \cap Range(s) = {} /\ Holds(u) \cap Range(worker[w].local) = {}
                                /\ Holds(u) \cap Range(queue) = {}
    BY <1>3 DEF WalkInv, Once
  <2>2. /\ Range(worker[w].local) \cap Range(half.theirs) = {} /\ Range(mine) \cap Range(half.theirs) = {}
        /\ Range(worker[w].local) \cap Range(queue) = {} /\ Range(mine) \cap Range(queue) = {}
    BY <1>3, <1>4, <1>5
  <2>3. \A u \in Worker \ {w} : Holds(u) \cap Range(half.theirs) = {} /\ Holds(u) \cap Range(mine) = {}
    BY <1>4, <1>5, <2>1
  <2>4. ASSUME NEW u \in Worker
        PROVE  /\ Apart(worker'[u].local) /\ Apart(worker'[u].new)
               /\ Range(worker'[u].local) \cap Range(worker'[u].new) = {}
               /\ worker'[u].at = "taken" => worker'[u].item \notin Range(worker'[u].local) \cup Range(worker'[u].new)
               /\ Holds(u)' \cap Range(queue') = {}
    <3>1. CASE u = w
      BY <1>1, <1>6, <1>7, <1>9, <1>10, <1>11, <2>2, <3>1
    <3>2. CASE u # w
      <4>1. worker'[u] = worker[u] /\ Holds(u)' = Holds(u)
        BY <1>11, <3>2
      <4>2. Holds(u) \cap Range(queue') = {}
        BY <1>1, <1>7, <2>1, <2>3, <3>2
      <4>3. /\ Apart(worker[u].local) /\ Apart(worker[u].new)
            /\ Range(worker[u].local) \cap Range(worker[u].new) = {}
            /\ worker[u].at = "taken" => worker[u].item \notin Range(worker[u].local) \cup Range(worker[u].new)
        BY DEF WalkInv, Once
      <4> QED BY <4>1, <4>2, <4>3
    <3> QED BY <3>1, <3>2
  <2>5. \A u, y \in Worker : u # y => Holds(u)' \cap Holds(y)' = {}
    BY <1>11, <2>1, <2>3 DEF WalkInv, Once
  <2> QED BY <1>1, <1>7, <2>4, <2>5 DEF Once
<1>15. Threads'
  BY <1>1, <1>9, <1>11 DEF WalkInv, Threads
<1> QED BY <1>1, <1>12, <1>13, <1>14, <1>15, Moved

(* A thread that has nothing in hand and changes only its place.           *)
LEMMA RestWalks ==
  ASSUME NEW v, NEW node, WalkTypes, WalkInv(v, node), NEW w \in Worker, Leave(w) \/ GoHome(w)
  PROVE  WalkTypes' /\ WalkInv(v, node)'
<1>0. worker \in [Worker -> ThreadSet] /\ worker[w] \in ThreadSet
  BY DEF WalkTypes
<1>1. PICK x : /\ x \in ThreadSet /\ worker' = [worker EXCEPT ![w] = x]
               /\ x.local = worker[w].local /\ x.new = worker[w].new /\ x.at \in {"idle", "gone"}
               /\ x.at = "gone" => worker[w].local = <<>> /\ queue = <<>>
  <2>1. CASE Leave(w)
    <3> DEFINE x == [worker[w] EXCEPT !.at = "idle", !.item = Nowhere]
    <3>1. Nowhere \in ItemSet
      BY DEF Nowhere, ItemSet, NoPath
    <3>2. worker' = [worker EXCEPT ![w] = x]
      BY <1>0, <2>1 DEF Leave
    <3>3. x \in ThreadSet /\ x.local = worker[w].local /\ x.new = worker[w].new /\ x.at = "idle"
      BY <1>0, <3>1 DEF ThreadSet
    <3> QED BY <3>2, <3>3
  <2>2. CASE GoHome(w)
    <3> DEFINE x == [worker[w] EXCEPT !.at = "gone"]
    <3>2. worker' = [worker EXCEPT ![w] = x]
      BY <1>0, <2>2 DEF GoHome
    <3>3. x \in ThreadSet /\ x.local = worker[w].local /\ x.new = worker[w].new /\ x.at = "gone"
      BY <1>0 DEF ThreadSet
    <3> QED BY <2>2, <3>2, <3>3 DEF GoHome
  <2> QED BY <2>1, <2>2
<1>2. /\ world' = world /\ entries' = entries /\ queue' = queue /\ worker[w].at \in {"shared", "idle"}
  BY DEF Leave, GoHome, Walks
<1>3. /\ worker'[w] = x /\ \A u \in Worker \ {w} : worker'[u] = worker[u] /\ Holds(u)' = Holds(u)
      /\ Holds(w)' = Range(x.local) \cup Range(x.new)
  <2>1. /\ worker'[w] = x /\ \A u \in Worker \ {w} : worker'[u] = worker[u] /\ Holds(u)' = Holds(u)
        /\ Holds(w)' = Range(x.local) \cup Range(x.new) \cup IF x.at = "taken" THEN {x.item} ELSE {}
    BY <1>0, <1>1, OthersHold
  <2> QED BY <1>1, <2>1
<1>4. \A u \in Worker : Holds(u)' = Holds(u)
  BY <1>1, <1>2, <1>3 DEF Holds
<1>5. Pending' = Pending
  BY <1>2, <1>4 DEF Pending
<1>6. Once'
  <2>1. ASSUME NEW u \in Worker
        PROVE  /\ Apart(worker'[u].local) /\ Apart(worker'[u].new)
               /\ Range(worker'[u].local) \cap Range(worker'[u].new) = {}
               /\ worker'[u].at = "taken" => worker'[u].item \notin Range(worker'[u].local) \cup Range(worker'[u].new)
    <3>1. CASE u = w
      BY <1>1, <1>3, <3>1 DEF WalkInv, Once
    <3>2. CASE u # w
      BY <1>3, <3>2 DEF WalkInv, Once
    <3> QED BY <3>1, <3>2
  <2>2. \A u \in Worker : Holds(u)' \cap Range(queue') = {}
    BY <1>2, <1>4 DEF WalkInv, Once
  <2>3. \A u, y \in Worker : u # y => Holds(u)' \cap Holds(y)' = {}
    BY <1>4 DEF WalkInv, Once
  <2>4. Apart(queue')
    BY <1>2 DEF WalkInv, Once
  <2> QED BY <2>1, <2>2, <2>3, <2>4 DEF Once
<1>7. Threads'
  BY <1>1, <1>2, <1>3 DEF WalkInv, Threads
<1>8. WalkTypes'
  BY <1>0, <1>1, <1>2 DEF WalkTypes
<1> QED BY <1>2, <1>5, <1>6, <1>7, <1>8, Moved

(* When all have gone home everything has been found.                      *)
LEMMA HomeComplete ==
  ASSUME NEW v, Disk(v), ~ByTable(v), NEW node, WalkTypes, WalkInv(v, node), \A w \in Worker : worker[w].at = "gone"
  PROVE  Complete(v, node)
<1>1. Pending = {}
  <2>1. \A w \in Worker : Holds(w) = {}
    BY DEF WalkInv, Threads, Holds, Range
  <2>2. Range(queue) = {}
    BY DEF WalkInv, Threads, Range
  <2> QED BY <2>1, <2>2 DEF Pending
<1> DEFINE G == (Reach(v) \ Shown(v)) \cup {k \in Shown(v) : \E q \in Given : node[q] = k}
<1>2. ASSUME NEW k \in Reach(v), Parent(v, k) = 0 \/ (Parent(v, k) \in Reach(v) /\ Parent(v, k) \in G)
      PROVE  k \in G
  <2>1. SUFFICES ASSUME k \in Shown(v) PROVE \E q \in Given : node[q] = k
    OBVIOUS
  <2>2. PICK r \in Plain(v, node) : node[r] = Parent(v, k)
    <3>1. CASE Parent(v, k) = 0
      BY <3>1 DEF WalkInv, Tree, Plain
    <3>2. CASE Parent(v, k) # 0
      <4> DEFINE p == Parent(v, k)
      <4>1. k \in DOMAIN Table(v) /\ p \in Reach(v) /\ p \in DOMAIN Table(v)
        BY <1>2, <3>2 DEF Reach
      <4>2. Passable(v, Table(v)[p])
        BY <3>2, <4>1, ReachIs
      <4>3. Table(v)[p].kind = "folder" /\ p \in Intact(v)
        BY <4>1, <4>2, PassableIntact DEF Passable, Intact
      <4>4. ~Excluded(PathTo(v, p), Exclusions(v))
        <5>1. PathTo(v, k) = Append(PathTo(v, p), Table(v)[k].name) /\ PathTo(v, p) \in Seq(Words)
          BY PathToIs
        <5>2. Table(v)[k].name \in Words /\ world \in World
          BY <4>1, DiskIs DEF Disk
        <5>3. ~Excluded(PathTo(v, k), Exclusions(v))
          BY <2>1 DEF Shown
        <5> QED BY <5>1, <5>2, <5>3, ExcludedDown
      <4>5. p \in Shown(v)
        BY <4>3, <4>4 DEF Shown
      <4>6. PICK q \in Given : node[q] = p
        BY <1>2, <3>2, <4>5
      <4>7. q \in Plain(v, node)
        BY <4>3, <4>6 DEF Plain
      <4> QED BY <4>6, <4>7
    <3> QED BY <3>1, <3>2
  <2>3. Opened(v, node, r)
    BY <1>1 DEF WalkInv, Covered
  <2> QED BY <2>1, <2>2, <2>3 DEF Opened
<1>3. Reach(v) \subseteq G
  <2> HIDE DEF G
  <2> QED BY <1>2, TreeInduct
<1>4. Shown(v) \subseteq Reach(v)
  BY DEF Shown, Intact
<1> QED BY <1>3, <1>4 DEF Complete

(* A walk begins with its root.                                            *)
LEMMA WalkBegins ==
  ASSUME NEW v, Disk(v),
         worker' = [w \in Worker |-> Idle], queue' = <<[path |-> <<v>>, ref |-> 0, node |-> 0]>>,
         entries' = <<Root>>, world' = world
  PROVE  WalkTypes' /\ \E node : WalkInv(v, node)'
<1>1. PICK node : node = [r \in {0} |-> 0]
  OBVIOUS
<1>2. PICK it : it = [path |-> <<v>>, ref |-> 0, node |-> 0]
  OBVIOUS
<1>3. queue' = <<it>> /\ it \in ItemSet /\ Range(<<it>>) = {it} /\ Apart(<<it>>) /\ <<it>> \in Seq(ItemSet)
  <2>1. v \in Words
    BY DiskIs
  <2>2. it \in ItemSet
    BY <1>2, <2>1 DEF ItemSet
  <2>3. Range(<<it>>) = {it} /\ Apart(<<it>>)
    BY DEF Range, Apart
  <2> QED BY <1>2, <2>2, <2>3
<1>4. Idle \in ThreadSet /\ Idle.local = <<>> /\ Idle.new = <<>> /\ Idle.at = "idle" /\ Range(<<>>) = {} /\ Apart(<<>>)
  <2>1. Nowhere \in ItemSet
    BY DEF Nowhere, ItemSet, NoPath
  <2> QED BY <2>1 DEF Idle, ThreadSet, Range, Apart
<1>5. Root \in EntrySet /\ Len(<<Root>>) = 1 /\ <<Root>>[1] = Root /\ <<Root>> \in Seq(EntrySet)
  <2>1. Root \in EntrySet
    BY DEF Root, EntrySet
  <2> HIDE DEF Root
  <2> QED BY <2>1
<1>6. WalkTypes'
  BY <1>3, <1>4, <1>5 DEF WalkTypes
<1>7. Given' = {0}
  BY <1>5 DEF Given
<1>8. \A w \in Worker : worker'[w] = Idle /\ Holds(w)' = {}
  BY <1>4 DEF Holds
<1>9. Pending' = {it}
  BY <1>3, <1>8 DEF Pending
<1>10. Tree(v, node)'
  BY <1>1, <1>5, <1>7 DEF Tree
<1>11. Plain(v, node)' = {0}
  BY <1>7 DEF Plain
<1>12. Spot(v, node, 0)' = it
  <2>1. PathTo(v, 0)' = <<v>>
    BY SameWorld, PathToRoot
  <2> QED BY <1>1, <1>2, <2>1 DEF Spot
<1>13. Spots(v, node)' = {it}
  BY <1>11, <1>12 DEF Spots
<1>14. Once'
  BY <1>3, <1>4, <1>8 DEF Once
<1>15. Fresh'
  BY <1>7 DEF Fresh
<1>16. Covered(v, node)'
  BY <1>9, <1>11, <1>12 DEF Covered
<1>17. Threads'
  <2>1. \E w : w \in Worker
    BY BoundsOK
  <2> QED BY <1>4, <1>8, <2>1 DEF Threads
<1>18. WalkInv(v, node)'
  BY <1>7, <1>9, <1>10, <1>13, <1>14, <1>15, <1>16, <1>17 DEF WalkInv
<1> QED BY <1>6, <1>18

-----------------------------------------------------------------------------
(* What the entries of a walk resolve to, and the volumes joined.          *)

(* The folders among the entries of a finished walk, by their numbers: the
   resolver takes each entry to where its record is.                       *)
Folders == {r \in Given : entries[r + 1].dir}

(* The first entry is the root and a folder.                               *)
LEMMA RootFields == Root.ref = 0 /\ Root.dir
BY DEF Root

(* An entry has its number, its record's name and its record's kind.       *)
LEMMA EntryFields ==
  ASSUME NEW item, NEW f, NEW r
  PROVE  /\ EntryOf(item, f, r).ref = r /\ EntryOf(item, f, r).name = f.name
         /\ f.kind \in {"folder", "cloud"} <=> EntryOf(item, f, r).dir
BY DEF EntryOf

(* The entry of the root, and those of records.                            *)
LEMMA TreeIs ==
  ASSUME NEW v, NEW node, Tree(v, node), 0 \in Given
  PROVE  /\ entries[0 + 1] = Root /\ node[0] = 0
         /\ \A r \in Given \ {0} :
              /\ EntryStands(v, node, r)
              /\ entries[r + 1] = EntryOf([ref |-> entries[r + 1].parent], Table(v)[node[r]], r)
<1>1. 0 + 1 = 1
  OBVIOUS
<1> QED BY <1>1 DEF Tree, EntryStands

(* The folder entries by number are the entries at their places.           *)
LEMMA FolderEntriesIs ==
  ASSUME NEW v, Disk(v), NEW node, WalkTypes, Tree(v, node), 0 \in Given
  PROVE  /\ \A r \in Given : entries[r + 1].ref = r
         /\ DOMAIN FolderEntries = Folders /\ \A r \in Folders : FolderEntries[r] = entries[r + 1]
<1>1. /\ Len(entries) \in Nat /\ DOMAIN entries = 1 .. Len(entries)
      /\ \A r \in Given : r \in Nat /\ r + 1 \in 1 .. Len(entries)
  BY GivenIs
<1>2. ASSUME NEW r \in Given PROVE entries[r + 1].ref = r
  <2>1. CASE r = 0
    BY <2>1, TreeIs, RootFields
  <2>2. CASE r # 0
    <3>1. PICK e : e = entries[r + 1]
      OBVIOUS
    <3>2. e = EntryOf([ref |-> e.parent], Table(v)[node[r]], r)
      BY <2>2, <3>1, TreeIs
    <3>3. e.ref = r
      BY ONLY <3>2, EntryFields
    <3> QED BY <3>1, <3>3
  <2> QED BY <2>1, <2>2
<1>3. \A i \in DOMAIN entries : i - 1 \in Given /\ (i - 1) + 1 = i
  BY <1>1 DEF Given
<1> DEFINE D == {e \in Range(entries) : e.dir}
<1>4. D = {entries[r + 1] : r \in Folders}
  BY <1>1, <1>3 DEF Range, Folders
<1>5. {e.ref : e \in D} = Folders
  BY <1>2, <1>4 DEF Folders
<1>6. ASSUME NEW r \in Folders PROVE (CHOOSE e \in D : e.ref = r) = entries[r + 1]
  <2>1. entries[r + 1] \in D /\ entries[r + 1].ref = r
    BY <1>2, <1>4, <1>6 DEF Folders
  <2>2. \A e \in D : e.ref = r => e = entries[r + 1]
    BY <1>2, <1>4 DEF Folders
  <2> HIDE DEF D
  <2> QED BY <2>1, <2>2
<1>7. FolderEntries = [r \in Folders |-> CHOOSE e \in D : e.ref = r]
  BY <1>5 DEF FolderEntries
<1> HIDE DEF D
<1> QED BY <1>2, <1>6, <1>7

(* An entry other than the root lies in a folder that has an entry.         *)
LEMMA EntryIn ==
  ASSUME NEW v, Disk(v), ~ByTable(v), NEW node, WalkTypes, Tree(v, node), 0 \in Given, NEW r \in Given \ {0}
  PROVE  /\ node[r] \in Shown(v) /\ node[r] \in Reach(v)
         /\ entries[r + 1].parent \in Folders /\ entries[r + 1].parent < r
         /\ node[entries[r + 1].parent] = Parent(v, node[r])
         /\ entries[r + 1].name = Table(v)[node[r]].name
<1>1. EntryStands(v, node, r)
  BY DEF Tree
<1> DEFINE k == node[r]
           p == entries[r + 1].parent
<1>2. /\ k \in Shown(v) /\ p \in 0 .. r - 1 /\ node[p] = Parent(v, k) /\ entries[r + 1].name = Table(v)[k].name
  BY <1>1 DEF EntryStands, EntryOf
<1>3. k \in Reach(v) /\ k \in DOMAIN Table(v)
  BY <1>2 DEF Shown, Intact, Reach
<1>4. p \in Given /\ p < r /\ p \in Nat
  <2>1. r \in Given /\ r \in Nat /\ Len(entries) \in Nat
    BY GivenIs
  <2>2. r <= Len(entries) - 1
    BY <2>1 DEF Given
  <2> HIDE DEF p
  <2> QED BY <1>2, <2>1, <2>2 DEF Given
<1>5. entries[p + 1].dir
  <2>1. CASE p = 0
    BY <2>1, TreeIs, RootFields
  <2>2. CASE p # 0
    <3>1. node[p] # 0
      BY <1>4, <2>2 DEF Tree
    <3>2. Parent(v, k) # 0
      BY <1>2, <3>1
    <3>3. Passable(v, Table(v)[Parent(v, k)])
      BY <1>3, <3>2, ReachIs
    <3>4. Table(v)[node[p]].kind = "folder"
      BY <1>2, <3>3 DEF Passable
    <3>5. entries[p + 1] = EntryOf([ref |-> entries[p + 1].parent], Table(v)[node[p]], p)
      BY <1>4, <2>2, TreeIs
    <3> QED BY <3>4, <3>5, EntryFields
  <2> QED BY <2>1, <2>2
<1> QED BY <1>2, <1>3, <1>4, <1>5 DEF Folders

(* An entry resolves to its record's path if its folder is not too deep.   *)
LEMMA EntriesResolve ==
  ASSUME NEW v, Disk(v), ~ByTable(v), NEW node, WalkTypes, Tree(v, node), 0 \in Given
  PROVE  \A r \in Given \ {0} :
           FullPath(v, FolderEntries, entries[r + 1]) =
             IF Depth(v, Parent(v, node[r])) <= MaxDepth THEN PathTo(v, node[r]) ELSE NoPath
<1>1. PICK P : P = [r \in Given |-> PathTo(v, node[r])]
  OBVIOUS
<1>2. PICK h : h = [r \in Given |-> Depth(v, node[r])]
  OBVIOUS
<1>3. /\ DOMAIN FolderEntries = Folders /\ \A r \in Folders : FolderEntries[r] = entries[r + 1]
  BY FolderEntriesIs
<1>4. Folders \subseteq Given /\ \A r \in Given : P[r] = PathTo(v, node[r]) /\ h[r] = Depth(v, node[r])
  BY <1>1, <1>2 DEF Folders
<1>5. 0 \in Folders /\ node[0] = 0
  BY TreeIs, RootFields DEF Folders
<1>6. P[0] = <<v>> /\ h[0] = 0
  BY <1>4, <1>5, PathToRoot
<1>7. ASSUME NEW r \in Folders \ {0}
      PROVE  /\ FolderEntries[r].parent \in Folders
             /\ P[r] = Append(P[FolderEntries[r].parent], FolderEntries[r].name)
             /\ h[r] = h[FolderEntries[r].parent] + 1 /\ h[r] \in Nat /\ P[r] # <<>>
  <2>1. /\ r \in Given \ {0} /\ FolderEntries[r] = entries[r + 1]
    BY <1>3, <1>4
  <2>2. /\ node[r] \in Reach(v)
        /\ entries[r + 1].parent \in Folders
        /\ node[entries[r + 1].parent] = Parent(v, node[r])
        /\ entries[r + 1].name = Table(v)[node[r]].name
    BY <2>1, EntryIn
  <2>3. /\ PathTo(v, node[r]) = Append(PathTo(v, Parent(v, node[r])), Table(v)[node[r]].name)
        /\ Depth(v, node[r]) = Depth(v, Parent(v, node[r])) + 1 /\ Depth(v, Parent(v, node[r])) \in Nat
        /\ Len(PathTo(v, node[r])) = Depth(v, node[r]) + 1
    BY <2>2, PathToIs
  <2>4. PathTo(v, node[r]) # <<>> /\ Depth(v, node[r]) \in Nat
    <3>1. PICK d \in Nat : d = Depth(v, Parent(v, node[r]))
      BY <2>3
    <3>2. Depth(v, node[r]) \in Nat /\ Len(PathTo(v, node[r])) # 0
      BY <2>3, <3>1
    <3>3. PathTo(v, node[r]) = <<>> => Len(PathTo(v, node[r])) = 0
      OBVIOUS
    <3> QED BY <3>2, <3>3
  <2> QED BY <1>4, <2>1, <2>2, <2>3, <2>4
<1>8. Charted(v, FolderEntries, Folders, P, h)
  <2>1. P[0] # <<>> /\ h[0] \in Nat
    BY <1>6
  <2> QED BY <1>3, <1>5, <1>6, <1>7, <2>1 DEF Charted
<1>9. ASSUME NEW r \in Given \ {0}
      PROVE  FullPath(v, FolderEntries, entries[r + 1]) =
               IF Depth(v, Parent(v, node[r])) <= MaxDepth THEN PathTo(v, node[r]) ELSE NoPath
  <2>1. /\ node[r] \in Reach(v)
        /\ entries[r + 1].parent \in Folders
        /\ node[entries[r + 1].parent] = Parent(v, node[r])
        /\ entries[r + 1].name = Table(v)[node[r]].name
    BY EntryIn
  <2>2. PICK p \in Folders : p = entries[r + 1].parent
    BY <2>1
  <2>3. Resolve(v, FolderEntries, p) = IF h[p] <= MaxDepth THEN P[p] ELSE NoPath
    BY <1>8, ResolveIs
  <2>4. h[p] = Depth(v, Parent(v, node[r])) /\ P[p] = PathTo(v, Parent(v, node[r]))
    BY <1>4, <2>1, <2>2
  <2>5. PathTo(v, node[r]) = Append(PathTo(v, Parent(v, node[r])), Table(v)[node[r]].name)
        /\ P[p] # NoPath
    <3>1. P[p] # <<>>
      BY <1>6, <1>7, <2>2
    <3> QED BY <2>1, <3>1, PathToIs DEF NoPath
  <2>6. FullPath(v, FolderEntries, entries[r + 1]) = Below(Resolve(v, FolderEntries, p), Table(v)[node[r]].name)
    BY <2>1, <2>2 DEF FullPath
  <2> QED BY <2>3, <2>4, <2>5, <2>6, BelowIs
<1> QED BY <1>9

(* The volumes of a session: those asked for, one by one.                  *)
JoinedTo(before, n) == IF n = 0 THEN <<>> ELSE Joining(before, world.asked[n])

(* The volumes asked for are joined one by one.                            *)
LEMMA ResolvedRounds ==
  ASSUME Len(world.asked) \in Nat
  PROVE  \E up : /\ up[0] = <<>>
                 /\ \A n \in 1 .. Len(world.asked) : up[n] = Joining(up[n - 1], world.asked[n])
                 /\ Resolved = up[Len(world.asked)]
<1> DEFINE N == Len(world.asked)
           Rnds(f, n) == f = [m \in 0 .. n |-> JoinedTo(f[m - 1], m)]
           Q == {n \in Nat : \E f : Rnds(f, n)}
<1>0. \A f, g : JoinedTo(f, 0) = JoinedTo(g, 0)
  BY DEF JoinedTo
<1> HIDE DEF N
<1>1. 0 \in Q
  <2> DEFINE f == [m \in 0 .. 0 |-> JoinedTo(<<>>, 0)]
  <2>1. \A m \in 0 .. 0 : m = 0
    OBVIOUS
  <2>2. f = [m \in 0 .. 0 |-> JoinedTo(f[m - 1], m)]
    BY <1>0, <2>1
  <2> QED BY <2>2
<1>2. \A n \in Nat : n \in Q => n + 1 \in Q
  <2> SUFFICES ASSUME NEW n \in Nat, NEW f, Rnds(f, n) PROVE \E g : Rnds(g, n + 1)
    OBVIOUS
  <2> DEFINE g == [m \in 0 .. n + 1 |-> JoinedTo(f[m - 1], m)]
  <2>1. \A m \in 0 .. n : g[m] = f[m]
    OBVIOUS
  <2>2. \A m \in 0 .. n + 1 : JoinedTo(g[m - 1], m) = JoinedTo(f[m - 1], m)
    <3> SUFFICES ASSUME NEW m \in 0 .. n + 1
                 PROVE  JoinedTo(g[m - 1], m) = JoinedTo(f[m - 1], m)
      OBVIOUS
    <3> HIDE DEF g
    <3>1. CASE m = 0
      BY <1>0, <3>1
    <3>2. CASE m # 0
      <4>1. m - 1 \in 0 .. n
        BY <3>2
      <4> QED BY <2>1, <4>1
    <3> QED BY <3>1, <3>2
  <2>3. g = [m \in 0 .. n + 1 |-> JoinedTo(g[m - 1], m)]
    <3> HIDE DEF g
    <3>1. g = [m \in 0 .. n + 1 |-> JoinedTo(f[m - 1], m)]
      BY DEF g
    <3> QED BY <2>2, <3>1
  <2> QED BY <2>3
<1>3. N \in Q
  <2> HIDE DEF Q
  <2>1. Nat \subseteq Q
    BY <1>1, <1>2, Induct
  <2> QED BY <2>1 DEF N
<1>4. \E f : Rnds(f, N)
  BY <1>3
<1> DEFINE up[n \in 0 .. N] == JoinedTo(up[n - 1], n)
<1>5. Rnds(up, N)
  BY <1>4, Zenon
<1>6. Resolved = up[N]
  BY DEF Resolved, JoinedTo, N
<1> HIDE DEF up
<1>7. DOMAIN up = 0 .. N /\ \A n \in 0 .. N : up[n] = JoinedTo(up[n - 1], n)
  BY <1>5, Zenon
<1>8. up[0] = <<>>
  <2>1. 0 \in 0 .. N
    BY DEF N
  <2> QED BY <1>7, <2>1 DEF JoinedTo
<1>9. \A n \in 1 .. N : n \in 0 .. N /\ n # 0
  BY DEF N
<1>10. \A n \in 1 .. N : up[n] = Joining(up[n - 1], world.asked[n])
  BY <1>7, <1>9 DEF JoinedTo
<1> QED BY <1>6, <1>8, <1>10 DEF N

(* Each is on a disk, and none comes twice.                                *)
LEMMA ResolvedIs ==
  ASSUME world \in World
  PROVE  Resolved \in Seq(DOMAIN world.disk) /\ Apart(Resolved)
<1> DEFINE N == Len(world.asked)
           D == DOMAIN world.disk
<1>1. /\ world.asked \in Seq(Range(world.asked)) /\ Range(world.asked) \ world.barred \subseteq D
  BY WorldOK
<1>2. N \in Nat /\ \A n \in 1 .. N : world.asked[n] \in Range(world.asked)
  BY <1>1, LenProperties
<1> HIDE DEF D
<1>3. PICK up : /\ up[0] = <<>> /\ Resolved = up[N]
                /\ \A n \in 1 .. N : up[n] = Joining(up[n - 1], world.asked[n])
  BY <1>2, ResolvedRounds
<1> HIDE DEF N
<1> DEFINE Good(n) == up[n] \in Seq(D) /\ Apart(up[n])
           Q == {n \in Nat : n <= N => Good(n)}
<1>4. Good(0)
  BY <1>3 DEF Apart
<1>5. ASSUME NEW n \in Nat, n + 1 <= N, Good(n) PROVE Good(n + 1)
  <2>1. n + 1 \in 1 .. N /\ (n + 1) - 1 = n
    BY <1>2, <1>5
  <2>2. up[n + 1] = Joining(up[n], world.asked[n + 1])
    BY <1>3, <2>1
  <2>3. PICK c : c = world.asked[n + 1]
    OBVIOUS
  <2>4. PICK s \in Seq(D) : s = up[n] /\ Apart(s)
    BY <1>5
  <2>5. CASE c \in Range(s) \cup world.barred
    BY <2>2, <2>3, <2>4, <2>5 DEF Joining
  <2>6. CASE c \notin Range(s) \cup world.barred
    <3>1. c \in D
      BY <1>1, <1>2, <2>1, <2>3, <2>6
    <3>2. up[n + 1] = Append(s, c)
      BY <2>2, <2>3, <2>4, <2>6 DEF Joining
    <3>3. Append(s, c) \in Seq(D) /\ Apart(Append(s, c))
      BY <2>4, <2>6, <3>1, ApartAppend, AppendProperties
    <3> QED BY <3>2, <3>3
  <2> QED BY <2>5, <2>6
<1> HIDE DEF Good
<1>6. \A n \in Nat : n \in Q => n + 1 \in Q
  <2> SUFFICES ASSUME NEW n \in Nat, n \in Q, n + 1 <= N PROVE Good(n + 1)
    OBVIOUS
  <2>1. n <= N
    BY <1>2
  <2> QED BY <1>5, <2>1
<1>7. 0 \in Q
  BY <1>4
<1>8. N \in Q
  <2> HIDE DEF Q
  <2>1. Nat \subseteq Q
    BY <1>6, <1>7, Induct
  <2> QED BY <1>2, <2>1
<1>9. Good(N)
  BY <1>2, <1>8
<1> QED BY <1>3, <1>9 DEF Good, D

-----------------------------------------------------------------------------
(* The session: what is delivered.                                         *)

(* What is asked of a session: of a volume what is to be found no deeper
   than paths are followed, and of the volumes before the nth all of it.   *)
Seen(v) == {k \in Reach(v) : Visible(v, Table(v)[k]) /\ Depth(v, Parent(v, k)) <= MaxDepth}

(* What a volume shows and does not exclude, and what the scan reports
   of it.                                                                  *)
Near(v) == {k \in Seen(v) : ~Excluded(PathTo(v, k), Exclusions(v))}

(* What the scan reports of some records, and of a volume in whole.        *)
Facts(v, these) == {Fact(v, k) : k \in Near(v) \cap these}

Within(v) == Facts(v, Near(v))

(* What the scan reports of the volumes before the n-th.                   *)
Earlier(n) == UNION {Within(volumes[j]) : j \in {i \in DOMAIN volumes : i < n}}

(* The file records of the scan.                                           *)
RecordSet ==
  [id : {"file"} \X Nat, path : Seq(Words), size : Nat, used : Nat, changed : Nat,
   unit : {"file"}, cat : {"none"}, safety : {"review"}, decision : {"undecided"}]

(* What a record, and a sequence of records, tells of the disk.            *)
Told(r) == [path |-> r.path, size |-> r.size, changed |-> r.changed]

Tale(recs) == {Told(r) : r \in Range(recs)}

(* The records of the volume that have been looked at.                     *)
Done(node) ==
  IF at = "pass 2" THEN 1 .. cursor
  ELSE IF at = "sift" THEN {node[r] : r \in {q \in Given : q < cursor}}
  ELSE {}

(* Where the session is at work on a volume.                               *)
Working == {"pass 1", "pass 2", "walk", "sift", "close"}

(* Where the session is, v its volume and node the records of a walk.      *)
SessionTypes ==
  /\ world \in World /\ stopped \in BOOLEAN /\ cut \in BOOLEAN
  /\ volumes \in Seq(DOMAIN world.disk) /\ Apart(volumes) /\ volume \in Nat \ {0}
  /\ at \in Working \cup {"next", "ended", "failed", "refused"}
  /\ cursor \in Nat /\ own \in Nat
  /\ batch \in Seq(RecordSet) /\ hand \in Seq(RecordSet)

(* The volume, the cursor and the place of the session agree.              *)
Placed(v) ==
  /\ at \in Working => volume <= Len(volumes) /\ v = volumes[volume]
  /\ at \in {"pass 1", "pass 2"} => ByTable(v) /\ cursor <= Len(Table(v))
  /\ at \in {"walk", "sift"} => ~ByTable(v)
  /\ at = "walk" => cursor = 0
  /\ at = "sift" => cursor <= Len(entries)
  /\ at = "ended" /\ ~cut => volume > Len(volumes)
  /\ at = "refused" => volumes = <<>>

(* When a batch is being filled and when it is handed over.                *)
Handed ==
  /\ at \notin {"pass 2", "sift", "failed"} => batch = <<>>
  /\ hand # <<>> => at \in {"pass 2", "sift", "close"}

(* The walk's invariant while it runs, and what it leaves.                 *)
Walked(v, node) ==
  /\ at = "walk" => WalkTypes /\ WalkInv(v, node)
  /\ at = "sift" => WalkTypes /\ Tree(v, node) /\ Complete(v, node)

(* What has been handed over (got), is being handed over or waits is what
   has been found so far, each once.                                       *)
Waiting(v) == {f \in Tale(batch) : ~Excluded(f.path, Exclusions(v))}

(* What was delivered, is being handed over or waits in the batch is
   exactly what the records done with tell.                                *)
Exact(v, node, got) ==
  /\ at \in {"next", "pass 1", "walk", "pass 2", "sift"} =>
       got \cup Tale(hand) \cup Waiting(v) = Earlier(volume) \cup Facts(v, Done(node))
  /\ at = "close" /\ ~stopped => got \cup Tale(hand) = Earlier(volume + 1)
  /\ got \cup Tale(hand) \subseteq Earlier(volume + 1)
  /\ at = "ended" /\ ~cut => got = Earlier(volume)

(* The batch holds records of the disk.                                    *)
Stacked(v, node) ==
  at \in {"pass 2", "sift"} =>
    \A r \in Range(batch) : \E k \in Done(node) \cap Seen(v) : Told(r) = Fact(v, k)

(* a walk finds nothing excluded                                           *)
Clean(v) == at = "sift" => \A r \in Range(batch) : ~Excluded(r.path, Exclusions(v))

(* No two records of a sequence have one path.                             *)
OnePathEach(recs) == \A i, j \in DOMAIN recs : recs[i].path = recs[j].path => i = j

(* No path is delivered twice.                                             *)
EachOnce(got) ==
  /\ OnePathEach(hand) /\ OnePathEach(batch)
  /\ \A r \in Range(hand) \cup Range(batch) : \A f \in got : f.path # r.path
  /\ \A r \in Range(hand), s \in Range(batch) : r.path # s.path

(* The inductive invariant of the scan: got is what it has delivered so
   far.                                                                    *)
Delivery(v, node, got) ==
  /\ SessionTypes /\ Placed(v) /\ Handed /\ Walked(v, node)
  /\ Exact(v, node, got) /\ Stacked(v, node) /\ Clean(v) /\ EachOnce(got)

(* At work, the session has a volume of the machine.                       *)
LEMMA AtWork ==
  ASSUME NEW v, SessionTypes, Placed(v), at \in Working
  PROVE  Disk(v) /\ v = Letter /\ volume \in DOMAIN volumes
<1>1. DOMAIN volumes = 1 .. Len(volumes) /\ Len(volumes) \in Nat
  BY DEF SessionTypes
<1>2. volume \in DOMAIN volumes /\ v = volumes[volume]
  <2>1. volume \in Nat \ {0}
    BY DEF SessionTypes
  <2>2. volume <= Len(volumes) /\ v = volumes[volume]
    BY DEF Placed
  <2> QED BY <1>1, <2>1, <2>2
<1>3. volumes[volume] \in DOMAIN world.disk
  <2>1. volumes \in Seq(DOMAIN world.disk)
    BY DEF SessionTypes
  <2> QED BY <1>1, <1>2, <2>1, ElementOfSeq
<1> QED BY <1>2, <1>3 DEF Disk, Letter, SessionTypes

(* The records of one volume, and those of two, have different paths.      *)
LEMMA FirstName ==
  ASSUME NEW v, Disk(v), NEW k \in Reach(v)
  PROVE  PathTo(v, k)[1] = v
<1> DEFINE s == [n \in DOMAIN Route(v, k) |-> Table(v)[Route(v, k)[n]].name]
<1>1. k \in DOMAIN Table(v)
  BY DEF Reach
<1>2. Route(v, k) \in Seq(DOMAIN Table(v))
  BY <1>1, ReachIs
<1>3. \A i \in DOMAIN Table(v) : Table(v)[i].name \in Words
  BY DiskIs
<1>4. /\ DOMAIN Route(v, k) = 1 .. Len(Route(v, k)) /\ Len(Route(v, k)) \in Nat
      /\ \A i \in 1 .. Len(Route(v, k)) : Route(v, k)[i] \in DOMAIN Table(v)
  BY <1>2
<1>5. s \in Seq(Words)
  BY <1>3, <1>4
<1> HIDE DEF s
<1>6. v \in Words
  BY DiskIs
<1>7. <<v>> \in Seq(Words) /\ Len(<<v>>) = 1 /\ <<v>>[1] = v
  BY <1>6
<1>8. (<<v>> \o s)[1] = v
  <2>1. PICK t : t = <<v>>
    OBVIOUS
  <2>2. t \in Seq(Words) /\ Len(t) = 1 /\ t[1] = v /\ Len(s) \in Nat
    BY <1>5, <1>7, <2>1
  <2>3. (t \o s)[1] = t[1]
    BY <1>5, <2>2
  <2> QED BY <2>1, <2>2, <2>3
<1> QED BY <1>8 DEF PathTo, s

(* What the walk or the table shows has all its folders.                   *)
LEMMA SeenIs ==
  ASSUME NEW v, Disk(v)
  PROVE  /\ Seen(v) \subseteq Intact(v) /\ Seen(v) \subseteq Reach(v) /\ Near(v) \subseteq Seen(v)
         /\ Seen(v) \subseteq DOMAIN Table(v)
BY DEF Seen, Near, Intact, Visible, Reach, Readable

(* Two records shown, of one volume or of two, have different paths.       *)
LEMMA SeenApart ==
  ASSUME NEW v, Disk(v), NEW w, Disk(w), NEW k \in Seen(v), NEW l \in Seen(w), PathTo(v, k) = PathTo(w, l)
  PROVE  v = w /\ k = l
<1>1. v = w
  BY SeenIs, FirstName
<1>2. k \in Intact(v) /\ l \in Intact(v)
  BY <1>1, SeenIs
<1> QED BY <1>1, <1>2, PathsApart

(* The empty sequence tells nothing.                                       *)
LEMMA NoneTold == Tale(<<>>) = {} /\ Range(<<>>) = {} /\ OnePathEach(<<>>)
BY DEF Tale, Range, OnePathEach

(* What has been found before is of other volumes.                         *)
LEMMA EarlierApart ==
  ASSUME SessionTypes, volume \in DOMAIN volumes,
         NEW f \in Earlier(volume), NEW k \in Seen(volumes[volume])
  PROVE  f.path # PathTo(volumes[volume], k)
<1>1. PICK j \in DOMAIN volumes : j < volume /\ f \in Within(volumes[j])
  BY DEF Earlier
<1>2. PICK l \in Near(volumes[j]) : f = Fact(volumes[j], l)
  BY <1>1 DEF Within, Facts
<1>3. Disk(volumes[j]) /\ Disk(volumes[volume])
  <2>1. volumes \in Seq(DOMAIN world.disk)
    BY DEF SessionTypes
  <2> QED BY <2>1 DEF Disk, SessionTypes
<1>4. f.path = PathTo(volumes[j], l)
  BY <1>2 DEF Fact
<1>5. volumes[j] # volumes[volume]
  BY <1>1 DEF SessionTypes, Apart
<1> QED BY <1>3, <1>4, <1>5, SeenApart, SeenIs

(* One volume more adds what it tells ...                                  *)
LEMMA EarlierNext ==
  ASSUME SessionTypes, volume \in DOMAIN volumes
  PROVE  Earlier(volume + 1) = Earlier(volume) \cup Within(volumes[volume])
<1>1. DOMAIN volumes \subseteq Nat /\ volume \in Nat
  BY DEF SessionTypes
<1>2. \A j \in DOMAIN volumes : j < volume + 1 <=> j < volume \/ j = volume
  BY <1>1
<1> QED BY <1>2 DEF Earlier

(* ... and takes nothing away.                                             *)
LEMMA EarlierMore == SessionTypes => Earlier(volume) \subseteq Earlier(volume + 1)
<1> SUFFICES ASSUME SessionTypes PROVE Earlier(volume) \subseteq Earlier(volume + 1)
  OBVIOUS
<1>1. DOMAIN volumes \subseteq Nat /\ volume \in Nat
  BY DEF SessionTypes
<1>2. \A j \in DOMAIN volumes : j < volume => j < volume + 1
  BY <1>1
<1> QED BY <1>2 DEF Earlier

(* None of this changes with the disks as they are.                        *)
LEMMA SameFacts ==
  ASSUME world' = world, volumes' = volumes
  PROVE  /\ \A v : /\ Seen(v)' = Seen(v) /\ Near(v)' = Near(v) /\ Disk(v)' = Disk(v)
                   /\ \A T : Facts(v, T)' = Facts(v, T)
         /\ \A n : Earlier(n)' = Earlier(n)
<1>1. ASSUME NEW v PROVE Seen(v)' = Seen(v) /\ Near(v)' = Near(v) /\ Disk(v)' = Disk(v)
  <2>1. \A f : Visible(v, f)' = Visible(v, f)
    BY DEF Visible, ByTable
  <2>2. Seen(v)' = Seen(v)
    BY <2>1, SameWorld DEF Seen
  <2>3. Near(v)' = Near(v)
    BY <2>2, SameWorld DEF Near
  <2> QED BY <2>2, <2>3 DEF Disk
<1>2. ASSUME NEW v PROVE \A T : Facts(v, T)' = Facts(v, T)
  BY <1>1, SameWorld DEF Facts
<1>3. \A v : Within(v)' = Within(v)
  BY <1>1, <1>2 DEF Within
<1>4. \A n : Earlier(n)' = Earlier(n)
  BY <1>3 DEF Earlier
<1> QED BY <1>1, <1>2, <1>4

(* One record of a table: what is skipped was not to be found, what is
   taken has the path it has on the disk.                                  *)
LEMMA PushPath ==
  ASSUME NEW v, Disk(v), ByTable(v), NEW k \in DOMAIN Table(v), NEW path,
         path = FullPath(v, FolderRecords(v), Table(v)[k])
  PROVE  /\ (\/ k \notin Readable(v) \/ Table(v)[k].kind \in Directories
             \/ path = NoPath \/ Excluded(path, {<<v, Service>>})) => k \notin Near(v)
         /\ ~(\/ k \notin Readable(v) \/ Table(v)[k].kind \in Directories
              \/ path = NoPath \/ Excluded(path, {<<v, Service>>})) => k \in Seen(v) /\ path = PathTo(v, k)
<1> DEFINE p == Parent(v, k)
<1>1. path = Below(Resolve(v, FolderRecords(v), p), Table(v)[k].name)
  BY DEF FullPath, Parent
<1>2. Resolve(v, FolderRecords(v), p) =
        IF p \in {0} \cup Entered(v) /\ Depth(v, p) <= MaxDepth THEN PathTo(v, p) ELSE NoPath
  BY TableResolves
<1>3. k \in Reach(v) <=> p \in {0} \cup Entered(v)
  BY ReachIs DEF Entered
<1>4. k \in Reach(v) => PathTo(v, k) = Append(PathTo(v, p), Table(v)[k].name) /\ PathTo(v, p) # NoPath /\ PathTo(v, k) # NoPath
  <2> SUFFICES ASSUME k \in Reach(v)
               PROVE  PathTo(v, k) = Append(PathTo(v, p), Table(v)[k].name) /\ PathTo(v, p) # NoPath /\ PathTo(v, k) # NoPath
    OBVIOUS
  <2>1. /\ PathTo(v, k) = Append(PathTo(v, p), Table(v)[k].name)
        /\ Depth(v, k) = Depth(v, p) + 1 /\ Depth(v, p) \in Nat
        /\ Len(PathTo(v, k)) = Depth(v, k) + 1 /\ Len(PathTo(v, p)) = Depth(v, p) + 1
    BY PathToIs
  <2>2. Len(PathTo(v, k)) # 0 /\ Len(PathTo(v, p)) # 0
    <3>1. PICK d \in Nat : d = Depth(v, p)
      BY <2>1
    <3>2. Depth(v, k) = d + 1 /\ Len(PathTo(v, k)) = (d + 1) + 1 /\ Len(PathTo(v, p)) = d + 1
      BY <2>1, <3>1
    <3> QED BY <3>2
  <2>3. \A s : Len(s) # 0 => s # <<>>
    OBVIOUS
  <2> QED BY <2>1, <2>2, <2>3 DEF NoPath
<1> HIDE DEF p
<1>5. path = IF k \in Reach(v) /\ Depth(v, p) <= MaxDepth THEN PathTo(v, k) ELSE NoPath
  BY <1>1, <1>2, <1>3, <1>4, BelowIs
<1>6. <<v, Service>> \in Exclusions(v)
  BY DEF Exclusions
<1>7. Excluded(path, {<<v, Service>>}) => Excluded(path, Exclusions(v))
  BY <1>6 DEF Excluded
<1>8. Visible(v, Table(v)[k]) <=> k \in Readable(v) /\ Table(v)[k].kind \notin Directories
  BY DEF Visible, Readable
<1>9. k \in Seen(v) <=> k \in Reach(v) /\ Visible(v, Table(v)[k]) /\ Depth(v, p) <= MaxDepth
  BY DEF Seen, p
<1>10. k \in Near(v) => k \in Seen(v) /\ ~Excluded(PathTo(v, k), Exclusions(v))
  BY DEF Near
<1> QED BY <1>4, <1>5, <1>7, <1>8, <1>9, <1>10

(* A file's record tells its path, size and time.                          *)
LEMMA FileRecordIs ==
  ASSUME NEW path \in Seq(Words), NEW e, {e.size, e.used, e.changed} \subseteq Nat, NEW n \in Nat
  PROVE  /\ FileRecord(path, e, n) \in RecordSet
         /\ Told(FileRecord(path, e, n)) = [path |-> path, size |-> e.size, changed |-> e.changed]
<1>1. PICK s \in Nat, u \in Nat, c \in Nat : s = e.size /\ u = e.used /\ c = e.changed
  OBVIOUS
<1>2. FileRecord(path, e, n) =
        [id |-> <<"file", n>>, path |-> path, size |-> s, used |-> u, changed |-> c,
         unit |-> "file", cat |-> "none", safety |-> "review", decision |-> "undecided"]
  BY <1>1 DEF FileRecord
<1>3. <<"file", n>> \in {"file"} \X Nat
  OBVIOUS
<1> QED BY <1>1, <1>2, <1>3 DEF RecordSet, Told

(* Leaving records out.                                                    *)
LEMMA NotExcludedIs ==
  ASSUME NEW v, NEW recs \in Seq(RecordSet), OnePathEach(recs)
  PROVE  /\ NotExcluded(v, recs) \in Seq(RecordSet) /\ OnePathEach(NotExcluded(v, recs))
         /\ Range(NotExcluded(v, recs)) = {r \in Range(recs) : ~Excluded(r.path, Exclusions(v))}
<1> DEFINE S == {r \in Range(recs) : ~Excluded(r.path, Exclusions(v))}
           few == Only(recs, S)
<1>1. Apart(recs)
  BY DEF Apart, OnePathEach
<1>2. few \in Seq(RecordSet) /\ Range(few) = Range(recs) \cap S /\ Apart(few)
  BY <1>1, OnlyIs
<1>3. NotExcluded(v, recs) = few
  BY DEF NotExcluded
<1>4. S \subseteq Range(recs)
  OBVIOUS
<1> HIDE DEF few, S
<1>5. ASSUME NEW i \in DOMAIN few, NEW j \in DOMAIN few, few[i].path = few[j].path PROVE i = j
  <2>1. few[i] \in Range(recs) /\ few[j] \in Range(recs)
    BY <1>2 DEF Range
  <2>2. few[i] = few[j]
    BY <1>5, <2>1 DEF Range, OnePathEach
  <2> QED BY <1>2, <2>2 DEF Apart
<1> QED BY <1>2, <1>3, <1>4, <1>5 DEF OnePathEach, S

(* A sequence with one element more.                                       *)
LEMMA Appended ==
  ASSUME NEW X, NEW s \in Seq(X), NEW e \in X
  PROVE  /\ Append(s, e) \in Seq(X) /\ Range(Append(s, e)) = Range(s) \cup {e}
         /\ \E n \in Nat :
              /\ n = Len(s) /\ DOMAIN s = 1 .. n /\ DOMAIN Append(s, e) = 1 .. n + 1
              /\ (\A i \in 1 .. n : Append(s, e)[i] = s[i]) /\ Append(s, e)[n + 1] = e
              /\ \A i \in 1 .. n + 1 : i \in 1 .. n \/ i = n + 1
<1>1. PICK n \in Nat : n = Len(s) /\ DOMAIN s = 1 .. n
  BY LenProperties
<1>2. /\ DOMAIN Append(s, e) = 1 .. n + 1
      /\ (\A i \in 1 .. n : Append(s, e)[i] = s[i]) /\ Append(s, e)[n + 1] = e
  BY <1>1, AppendProperties, LenProperties
<1>3. \A i \in 1 .. n + 1 : i \in 1 .. n \/ i = n + 1
  OBVIOUS
<1>4. Append(s, e) \in Seq(X) /\ Range(Append(s, e)) = Range(s) \cup {e}
  BY FrontAppend
<1> QED BY <1>1, <1>2, <1>3, <1>4

(* Where the records are gone through, and the batch with one more.        *)
Finding == at \in {"pass 2", "sift"}

Grown(full, r) == full = Append(batch, r)

(* One record more.                                                        *)
LEMMA OneMore ==
  ASSUME NEW v, NEW node, NEW got, Delivery(v, node, got), Finding, NEW k \in Seen(v), k \notin Done(node), NEW r \in RecordSet, Told(r) = Fact(v, k),
         NEW full, Grown(full, r)
  PROVE  /\ full \in Seq(RecordSet) /\ OnePathEach(full)
         /\ Range(full) = Range(batch) \cup {r}
         /\ Tale(full) = Tale(batch) \cup {Fact(v, k)}
         /\ \A x \in Range(full) : \A f \in got : f.path # x.path
<1>1. batch \in Seq(RecordSet) /\ Disk(v) /\ v = volumes[volume] /\ volume \in DOMAIN volumes
  BY AtWork DEF Delivery, SessionTypes, Working, Letter, Finding
<1>2. full = Append(batch, r)
  BY DEF Grown
<1>29. PICK b \in Seq(RecordSet) : b = batch
  BY <1>1
<1>28. /\ Append(b, r) \in Seq(RecordSet) /\ Range(Append(b, r)) = Range(b) \cup {r}
       /\ \E n \in Nat :
              /\ n = Len(b) /\ DOMAIN b = 1 .. n /\ DOMAIN Append(b, r) = 1 .. n + 1
              /\ (\A i \in 1 .. n : Append(b, r)[i] = b[i]) /\ Append(b, r)[n + 1] = r
              /\ \A i \in 1 .. n + 1 : i \in 1 .. n \/ i = n + 1
  <2>1. b \in Seq(RecordSet) /\ r \in RecordSet
    OBVIOUS
  <2> QED BY ONLY <2>1, Appended
<1>27. full = Append(b, r)
  BY <1>2, <1>29
<1>30. full \in Seq(RecordSet) /\ Range(full) = Range(batch) \cup {r}
  BY <1>27, <1>28, <1>29, Zenon
<1>31. PICK n \in Nat :
         /\ n = Len(batch) /\ DOMAIN batch = 1 .. n /\ DOMAIN full = 1 .. n + 1
         /\ (\A i \in 1 .. n : full[i] = batch[i]) /\ full[n + 1] = r
         /\ \A i \in 1 .. n + 1 : i \in 1 .. n \/ i = n + 1
  BY <1>27, <1>28, <1>29, Zenon
<1>3. full \in Seq(RecordSet) /\ Range(full) = Range(batch) \cup {r}
  BY <1>30
<1>4. r.path = PathTo(v, k)
  BY DEF Told, Fact
<1>5. \A x \in Range(batch) : x.path # r.path
  <2> SUFFICES ASSUME NEW x \in Range(batch), x.path = r.path PROVE FALSE
    OBVIOUS
  <2>1. PICK l \in Done(node) \cap Seen(v) : Told(x) = Fact(v, l)
    BY DEF Delivery, Stacked, Finding
  <2>2. PathTo(v, l) = PathTo(v, k)
    BY <1>4, <2>1 DEF Told, Fact
  <2> QED BY <1>1, <2>1, <2>2, SeenApart
<1>6. \A f \in got : f.path # r.path
  <2> SUFFICES ASSUME NEW f \in got, f.path = r.path PROVE FALSE
    OBVIOUS
  <2>1. f \in Earlier(volume) \cup Facts(v, Done(node))
    BY DEF Delivery, Exact, Finding
  <2>2. CASE f \in Earlier(volume)
    BY <1>1, <1>4, <2>2, EarlierApart DEF Delivery
  <2>3. CASE f \in Facts(v, Done(node))
    <3>1. PICK l \in Near(v) \cap Done(node) : f = Fact(v, l)
      BY <2>3 DEF Facts
    <3>2. PathTo(v, l) = PathTo(v, k)
      BY <1>4, <3>1 DEF Fact
    <3> QED BY <1>1, <3>1, <3>2, SeenApart, SeenIs
  <2> QED BY <2>1, <2>2, <2>3
<1>7. OnePathEach(full)
  <2>1. \A i \in 1 .. n : batch[i] \in Range(batch)
    BY <1>31 DEF Range
  <2>3. \A i, j \in 1 .. n : batch[i].path = batch[j].path => i = j
    BY <1>31 DEF Delivery, EachOnce, OnePathEach
  <2> SUFFICES ASSUME NEW i \in 1 .. n + 1, NEW j \in 1 .. n + 1, full[i].path = full[j].path PROVE i = j
    BY <1>31 DEF OnePathEach
  <2>4. CASE i \in 1 .. n /\ j \in 1 .. n
    BY <1>31, <2>3, <2>4
  <2>5. CASE i = n + 1 /\ j = n + 1
    BY <2>5
  <2>6. CASE i \in 1 .. n /\ j = n + 1
    BY <1>31, <1>5, <2>1, <2>6
  <2>7. CASE i = n + 1 /\ j \in 1 .. n
    BY <1>31, <1>5, <2>1, <2>7
  <2> QED BY <1>31, <2>4, <2>5, <2>6, <2>7
<1>8. Tale(full) = Tale(batch) \cup {Fact(v, k)}
  <2>1. PICK f : f = Fact(v, k)
    OBVIOUS
  <2>2. Range(full) = Range(b) \cup {r} /\ Told(r) = f
    BY <1>3, <1>29, <2>1
  <2>3. \A t : t \in Tale(full) <=> t \in Tale(b) \/ t = f
    BY <2>2 DEF Tale
  <2>4. Tale(full) = Tale(b) \cup {f}
    BY ONLY <2>3
  <2> QED BY <1>29, <2>1, <2>4
<1>9. \A x \in Range(full) : \A f \in got : f.path # x.path
  BY <1>3, <1>6 DEF Delivery, EachOnce
<1> QED BY <1>2, <1>3, <1>7, <1>8, <1>9

(* A record that is not excluded adds its fact, another adds nothing.      *)
LEMMA FactsMore ==
  ASSUME NEW v, NEW T, NEW k
  PROVE  /\ k \in Near(v) => Facts(v, T \cup {k}) = Facts(v, T) \cup {Fact(v, k)}
         /\ k \notin Near(v) => Facts(v, T \cup {k}) = Facts(v, T)
         /\ Facts(v, T) \subseteq Within(v) /\ Facts(v, {}) = {}
BY DEF Facts, Within

(* What is left of records without the excluded ones.                      *)
Spared(v, told) == {f \in told : ~Excluded(f.path, Exclusions(v))}

(* Leaving out the excluded records leaves out what they tell.             *)
LEMMA TaleOf ==
  ASSUME NEW v, NEW recs, NEW few, Range(few) = {x \in Range(recs) : ~Excluded(x.path, Exclusions(v))}
  PROVE  Tale(few) = Spared(v, Tale(recs))
<1>1. \A r : Told(r).path = r.path
  BY DEF Told
<1> QED BY <1>1 DEF Tale, Spared

(* The same when one fact is added.                                        *)
LEMMA OpenMore ==
  ASSUME NEW v, NEW told, NEW k \in Seen(v)
  PROVE  /\ k \in Near(v) => Spared(v, told \cup {Fact(v, k)}) = Spared(v, told) \cup {Fact(v, k)}
         /\ k \notin Near(v) => Spared(v, told \cup {Fact(v, k)}) = Spared(v, told)
BY DEF Spared, Near, Fact

(* The batch is empty.                                                     *)
Emptied == batch = <<>>

(* Nothing is told by a hand or a batch that is empty.                     *)
LEMMA NoneWaits == /\ ~Called => Tale(hand) = {} /\ Range(hand) = {} /\ OnePathEach(hand)
                   /\ Emptied => Tale(batch) = {} /\ Range(batch) = {} /\ OnePathEach(batch)
                   /\ Emptied => batch \in Seq(RecordSet)
<1>1. ~Called => Tale(hand) = {} /\ Range(hand) = {} /\ OnePathEach(hand)
  BY NoneTold DEF Called
<1>2. Emptied => Tale(batch) = {} /\ Range(batch) = {} /\ OnePathEach(batch)
  BY NoneTold DEF Emptied
<1>3. Emptied => batch \in Seq(RecordSet)
  BY EmptySeq, Zenon DEF Emptied
<1> QED BY <1>1, <1>2, <1>3

(* One record of the disk more has been looked at.                         *)
LEMMA Collecting ==
  ASSUME NEW v, NEW node, NEW got, NEW k, Delivery(v, node, got), Finding, ~Called,
         world' = world, volumes' = volumes, volume' = volume, at' = at, stopped' = stopped, cut' = cut,
         k \notin Done(node), Done(node)' = Done(node) \cup {k},
         \/ k \notin Near(v) /\ batch' = batch /\ hand' = hand
         \/ \E r \in RecordSet :
              /\ k \in Seen(v) /\ Told(r) = Fact(v, k)
              /\ \/ batch' = Append(batch, r) /\ hand' = hand
                 \/ /\ Emptied' /\ hand' \in Seq(RecordSet) /\ OnePathEach(hand)'
                    /\ Range(hand') = {x \in Range(Append(batch, r)) : ~Excluded(x.path, Exclusions(v))}
  PROVE  /\ batch' \in Seq(RecordSet) /\ hand' \in Seq(RecordSet)
         /\ Handed' /\ Exact(v, node, got)' /\ Stacked(v, node)' /\ EachOnce(got)'
<1>1. PICK D : D = Done(node)
  OBVIOUS
<1>2. Done(node)' = D \cup {k} /\ k \notin D
  BY <1>1
<1>3. PICK n : n = volume
  OBVIOUS
<1>4. /\ \A m : Earlier(m)' = Earlier(m)
      /\ \A T : Facts(v, T)' = Facts(v, T)
      /\ Near(v)' = Near(v) /\ Seen(v)' = Seen(v) /\ \A l : Fact(v, l)' = Fact(v, l)
      /\ Exclusions(v)' = Exclusions(v)
  BY SameFacts, SameWorld
<1>5. /\ got \cup Spared(v, Tale(batch)) = Earlier(n) \cup Facts(v, D)
      /\ batch \in Seq(RecordSet) /\ hand \in Seq(RecordSet)
  BY <1>1, <1>3, NoneWaits DEF Delivery, Exact, Waiting, Spared, SessionTypes, Finding
<1>6. Earlier(volume + 1) = Earlier(n) \cup Within(v)
  <2>1. v = volumes[volume] /\ volume \in DOMAIN volumes
    BY AtWork DEF Delivery, Working, Letter, Finding
  <2> QED BY <1>3, <2>1, EarlierNext DEF Delivery
<1>7. PICK e : e = volume + 1
  OBVIOUS
<1>8. Earlier(e)' = Earlier(n) \cup Within(v) /\ e = volume' + 1
  BY <1>4, <1>6, <1>7
<1>9. \A T : Spared(v, T)' = Spared(v, T)
  BY <1>4 DEF Spared
<1>10. ASSUME got \cup Tale(hand)' \cup Spared(v, Tale(batch)') = Earlier(n) \cup Facts(v, D \cup {k})
       PROVE  Exact(v, node, got)'
  <2>1. Facts(v, D \cup {k}) \subseteq Within(v)
    BY FactsMore
  <2>2. got \cup Tale(hand)' \subseteq Earlier(e)'
    BY <1>8, <1>10, <2>1
  <2>3. Waiting(v)' = Spared(v, Tale(batch)')
    BY <1>4 DEF Waiting, Spared
  <2>4. Earlier(volume)' = Earlier(n)
    BY <1>3, <1>4
  <2>5. Facts(v, Done(node))' = Facts(v, D \cup {k})
    BY <1>2, <1>4
  <2>6. Earlier(volume + 1)' = Earlier(e)'
    BY <1>8
  <2> QED BY <1>10, <2>2, <2>3, <2>4, <2>5, <2>6 DEF Exact, Finding
<1>14. /\ k \in Near(v) => Facts(v, D \cup {k}) = Facts(v, D) \cup {Fact(v, k)}
       /\ k \notin Near(v) => Facts(v, D \cup {k}) = Facts(v, D)
  BY ONLY FactsMore
<1>11. Handed'
  BY DEF Handed, Delivery, Called, Finding
<1>12. CASE k \notin Near(v) /\ batch' = batch /\ hand' = hand
  <2>1. got \cup Tale(hand)' \cup Spared(v, Tale(batch)') = Earlier(n) \cup Facts(v, D \cup {k})
    <3>1. Tale(hand)' = {} /\ Tale(batch)' = Tale(batch)
      BY <1>12, NoneWaits
    <3>2. Facts(v, D \cup {k}) = Facts(v, D)
      BY ONLY <1>12, <1>14
    <3> QED BY <1>5, <3>1, <3>2
  <2>2. Stacked(v, node)'
    BY <1>1, <1>2, <1>4, <1>12 DEF Delivery, Stacked, Finding
  <2>3. EachOnce(got)'
    BY <1>12 DEF Delivery, EachOnce, OnePathEach
  <2> QED BY <1>5, <1>10, <1>11, <1>12, <2>1, <2>2, <2>3
<1>13. ASSUME NEW r \in RecordSet, k \in Seen(v), Told(r) = Fact(v, k),
              \/ batch' = Append(batch, r) /\ hand' = hand
              \/ /\ Emptied' /\ hand' \in Seq(RecordSet) /\ OnePathEach(hand)'
                 /\ Range(hand') = {x \in Range(Append(batch, r)) : ~Excluded(x.path, Exclusions(v))}
       PROVE  /\ batch' \in Seq(RecordSet) /\ hand' \in Seq(RecordSet)
              /\ Exact(v, node, got)' /\ Stacked(v, node)' /\ EachOnce(got)'
  <2>1. PICK full : full = Append(batch, r)
    OBVIOUS
  <2>2. /\ full \in Seq(RecordSet) /\ OnePathEach(full) /\ Range(full) = Range(batch) \cup {r}
        /\ Tale(full) = Tale(batch) \cup {Fact(v, k)}
        /\ \A x \in Range(full) : \A f \in got : f.path # x.path
    <3>1. /\ Delivery(v, node, got) /\ Finding
          /\ k \in Seen(v) /\ k \notin Done(node) /\ r \in RecordSet /\ Told(r) = Fact(v, k)
          /\ Grown(full, r)
      BY <1>13, <2>1 DEF Grown
    <3> QED BY ONLY <3>1, OneMore
  <2>3. got \cup Spared(v, Tale(full)) = Earlier(n) \cup Facts(v, D \cup {k})
    <3>1. PICK told : told = Tale(batch)
      OBVIOUS
    <3>2. CASE k \in Near(v)
      <4>1. Spared(v, told \cup {Fact(v, k)}) = Spared(v, told) \cup {Fact(v, k)}
        BY ONLY <1>13, <3>2, OpenMore
      <4>2. Facts(v, D \cup {k}) = Facts(v, D) \cup {Fact(v, k)}
        BY ONLY <3>2, <1>14
      <4> QED BY ONLY <1>5, <2>2, <3>1, <4>1, <4>2
    <3>3. CASE k \notin Near(v)
      <4>1. Spared(v, told \cup {Fact(v, k)}) = Spared(v, told)
        BY ONLY <1>13, <3>3, OpenMore
      <4>2. Facts(v, D \cup {k}) = Facts(v, D)
        BY ONLY <3>3, <1>14
      <4> QED BY ONLY <1>5, <2>2, <3>1, <4>1, <4>2
    <3> QED BY <3>2, <3>3
  <2>4. CASE batch' = full /\ hand' = hand
    <3>1. Tale(hand)' = {} /\ Tale(batch)' = Tale(full) /\ Range(hand') = {} /\ OnePathEach(hand)' /\ Range(batch') = Range(full)
      BY <2>4, NoneWaits
    <3>2. Exact(v, node, got)'
      BY <1>10, <2>3, <3>1
    <3>3. Stacked(v, node)'
      <4>1. \A x \in Range(batch) : \E l \in D \cap Seen(v) : Told(x) = Fact(v, l)
        BY <1>1 DEF Delivery, Stacked, Finding
      <4>2. \A x \in Range(full) : \E l \in (D \cup {k}) \cap Seen(v) : Told(x) = Fact(v, l)
        BY <1>13, <2>2, <4>1
      <4> QED BY <1>2, <1>4, <3>1, <4>2 DEF Stacked
    <3>4. EachOnce(got)'
      BY <2>2, <2>4, <3>1 DEF EachOnce, OnePathEach
    <3> QED BY <1>5, <2>2, <2>4, <3>2, <3>3, <3>4
  <2>5. CASE /\ Emptied' /\ hand' \in Seq(RecordSet) /\ OnePathEach(hand)'
             /\ Range(hand') = {x \in Range(full) : ~Excluded(x.path, Exclusions(v))}
    <3>1. Tale(batch)' = {} /\ Range(batch') = {} /\ OnePathEach(batch)'
      <4>1. (Emptied => Tale(batch) = {} /\ Range(batch) = {} /\ OnePathEach(batch))'
        BY NoneWaits, PTL
      <4> QED BY <2>5, <4>1
    <3>2. Tale(hand)' = Spared(v, Tale(full))
      <4>1. PICK few : few = hand'
        OBVIOUS
      <4>2. Range(few) = {x \in Range(full) : ~Excluded(x.path, Exclusions(v))}
        BY <2>5, <4>1
      <4>3. Tale(few) = Spared(v, Tale(full))
        BY <4>2, TaleOf
      <4> QED BY <4>1, <4>3
    <3>3. Spared(v, {}) = {}
      BY DEF Spared
    <3>4. Exact(v, node, got)'
      BY <1>10, <2>3, <3>1, <3>2, <3>3
    <3>5. Stacked(v, node)'
      BY <3>1 DEF Stacked
    <3>6. EachOnce(got)'
      BY <2>2, <2>5, <3>1 DEF EachOnce
    <3>7. batch' \in Seq(RecordSet)
      <4>1. (Emptied => batch \in Seq(RecordSet))'
        BY NoneWaits, PTL
      <4> QED BY <2>5, <4>1
    <3> QED BY ONLY <2>5, <3>4, <3>5, <3>6, <3>7
  <2> QED BY <1>13, <2>1, <2>4, <2>5
<1> QED BY <1>11, <1>12, <1>13

(* What no step of a session touches.                                      *)
Steady == world' = world /\ volumes' = volumes

(* While the disk and the volumes stay, so does all that is said of
   them.                                                                   *)
LEMMA SteadyIs ==
  ASSUME Steady
  PROVE  /\ \A v : /\ Seen(v)' = Seen(v) /\ Near(v)' = Near(v) /\ Disk(v)' = Disk(v)
                   /\ Table(v)' = Table(v) /\ ByTable(v)' = ByTable(v) /\ Exclusions(v)' = Exclusions(v)
                   /\ \A T : Facts(v, T)' = Facts(v, T)
                   /\ \A k : Fact(v, k)' = Fact(v, k) /\ PathTo(v, k)' = PathTo(v, k)
         /\ \A n : Earlier(n)' = Earlier(n)
BY SameFacts, SameWorld DEF Steady

(* The types, when each variable keeps its own.                            *)
LEMMA TypesStay ==
  ASSUME SessionTypes, Steady, stopped' \in BOOLEAN, cut' \in BOOLEAN, volume' \in Nat \ {0},
         at' \in Working \cup {"next", "ended", "failed", "refused"}, cursor' \in Nat, own' \in Nat,
         batch' \in Seq(RecordSet), hand' \in Seq(RecordSet)
  PROVE  SessionTypes'
BY DEF SessionTypes, Steady, Apart

(* The walk's invariant when nothing of the walk changes.                  *)
LEMMA WalkStays ==
  ASSUME NEW v, NEW node, Walked(v, node), world' = world, at' = at,
         queue' = queue, entries' = entries, worker' = worker
  PROVE  Walked(v, node)'
<1>1. Given' = Given /\ Pending' = Pending
  BY DEF Given, Pending, Holds
<1>2. /\ Table(v)' = Table(v) /\ Shown(v)' = Shown(v)
      /\ \A k : PathTo(v, k)' = PathTo(v, k) /\ Parent(v, k)' = Parent(v, k)
  BY SameWorld DEF Shown
<1>3. WalkTypes => WalkTypes'
  BY DEF WalkTypes
<1>4. \A r : EntryStands(v, node, r)' = EntryStands(v, node, r)
  BY <1>2 DEF EntryStands
<1>5. Tree(v, node)' = Tree(v, node) /\ Complete(v, node)' = Complete(v, node)
  BY <1>1, <1>2, <1>4 DEF Tree, Complete
<1>6. WalkInv(v, node) => WalkInv(v, node)'
  <2> SUFFICES ASSUME WalkInv(v, node) PROVE WalkInv(v, node)'
    OBVIOUS
  <2>0. \A u \in Worker : Holds(u)' = Holds(u)
    BY DEF Holds
  <2>1. Once'
    <3>1. Once
      BY DEF WalkInv
    <3> QED BY <2>0, <3>1 DEF Once
  <2>2. Threads'
    BY DEF WalkInv, Threads
  <2> QED BY <1>1, <2>1, <2>2, Moved
<1> QED BY <1>3, <1>5, <1>6 DEF Walked

(* No path twice, when neither batch changes.                              *)
LEMMA OnceStays ==
  ASSUME NEW got, EachOnce(got), hand' = hand, batch' = batch
  PROVE  EachOnce(got)'
BY DEF EachOnce, OnePathEach

(* Away from where records are looked for, nothing is said of them.        *)
LEMMA Away ==
  ASSUME NEW v, NEW node, at' \notin {"walk", "sift", "pass 2"}
  PROVE  Walked(v, node)' /\ Stacked(v, node)' /\ Clean(v)' /\ Done(node)' = {}
BY DEF Walked, Stacked, Clean, Done

(* Where a record is neither looked for nor handed over, what has been is
   all there was.                                                          *)
LEMMA BetweenIs ==
  ASSUME NEW v, NEW node, NEW got, Delivery(v, node, got), at \in {"next", "pass 1", "walk"}
  PROVE  got = Earlier(volume) /\ hand = <<>> /\ batch = <<>>
<1>1. hand = <<>> /\ batch = <<>>
  BY DEF Delivery, Handed
<1>2. Tale(hand) = {} /\ Waiting(v) = {}
  BY <1>1, NoneTold DEF Waiting
<1>3. Facts(v, Done(node)) = {}
  BY DEF Facts, Done
<1> QED BY <1>1, <1>2, <1>3 DEF Delivery, Exact

(* Begun, given up, or ended.                                              *)
LEMMA StopDelivers ==
  ASSUME NEW v, NEW node, NEW got, Delivery(v, node, got), Stop
  PROVE  Delivery(v, node, got)'
<1>1. /\ Steady /\ stopped' = TRUE /\ UNCHANGED <<faults, volumes, at, volume, cut, queue, inflight, entries, worker>>
      /\ UNCHANGED <<cursor, own, batch, hand, dirs>> /\ world' = world
  BY DEF Stop, walk, find, Steady
<1>2. SessionTypes'
  BY <1>1, TypesStay DEF Delivery, SessionTypes
<1>3. Placed(v)'
  BY <1>1, SteadyIs DEF Delivery, Placed
<1>4. Handed'
  BY <1>1 DEF Delivery, Handed
<1>5. Walked(v, node)'
  BY <1>1, WalkStays DEF Delivery
<1>6. Done(node)' = Done(node)
  BY <1>1 DEF Done, Given
<1>7. Exact(v, node, got)'
  <2>1. Tale(hand)' = Tale(hand) /\ Tale(batch)' = Tale(batch) /\ Exclusions(v)' = Exclusions(v)
    BY <1>1, SteadyIs DEF Tale
  <2>2. Waiting(v)' = Waiting(v)
    BY <2>1 DEF Waiting
  <2>3. Earlier(volume)' = Earlier(volume) /\ Earlier(volume + 1)' = Earlier(volume + 1)
    BY <1>1, SteadyIs
  <2>4. Facts(v, Done(node))' = Facts(v, Done(node))
    BY <1>1, <1>6, SteadyIs
  <2> QED BY <1>1, <2>1, <2>2, <2>3, <2>4 DEF Delivery, Exact
<1>8. Stacked(v, node)' /\ Clean(v)' /\ EachOnce(got)'
  BY <1>1, <1>6, SteadyIs, OnceStays DEF Delivery, Stacked, Clean
<1> QED BY <1>2, <1>3, <1>4, <1>5, <1>7, <1>8 DEF Delivery

(* The volume at work has an end of its own.                               *)
LEMMA FailDelivers ==
  ASSUME NEW v, NEW node, NEW got, Delivery(v, node, got), VolumeFails \/ ReadFails
  PROVE  Delivery(v, node, got)'
<1>1. /\ Steady /\ at' = "failed" /\ UNCHANGED <<stopped, volume, cut, cursor, own, batch, hand>> /\ hand = <<>>
      /\ volumes' = volumes
  <2>1. CASE VolumeFails
    BY <2>1 DEF VolumeFails, Fails, find, Steady, Delivery, Handed
  <2>2. CASE ReadFails
    BY <2>2 DEF ReadFails, Fails, find, Steady, Called
  <2> QED BY <2>1, <2>2
<1>2. SessionTypes'
  BY <1>1, TypesStay DEF Delivery, SessionTypes
<1>3. Placed(v)' /\ Handed'
  BY <1>1 DEF Placed, Handed, Working
<1>4. Exact(v, node, got)'
  BY <1>1, SteadyIs DEF Delivery, Exact, Tale
<1>5. EachOnce(got)'
  BY <1>1, OnceStays DEF Delivery
<1> QED BY <1>1, <1>2, <1>3, <1>4, <1>5, Away DEF Delivery

(* The end of a volume keeps the scan's invariant.                         *)
LEMMA EndDelivers ==
  ASSUME NEW v, NEW node, NEW got, Delivery(v, node, got), EndVolume
  PROVE  Delivery(v, node, got)'
<1>1. /\ Steady /\ UNCHANGED <<stopped, cursor, own, batch, hand>> /\ hand = <<>> /\ batch = <<>> /\ at = "close"
      /\ cut' = (cut \/ stopped) /\ volumes' = volumes
      /\ \/ cut' = TRUE /\ at' = "ended" /\ volume' = volume
         \/ cut' = FALSE /\ ~stopped /\ at' = "next" /\ volume' = volume + 1
  BY DEF EndVolume, Goto, find, Steady, Called, Delivery, Handed, SessionTypes
<1>2. volume' \in Nat \ {0}
  <2>1. volume \in Nat \ {0}
    BY DEF Delivery, SessionTypes
  <2> QED BY <1>1, <2>1
<1>3. SessionTypes'
  BY <1>1, <1>2, TypesStay DEF Delivery, SessionTypes
<1>4. Placed(v)' /\ Handed'
  BY <1>1 DEF Placed, Handed, Working
<1>5. Exact(v, node, got)'
  <2>1. CASE at' = "ended" /\ volume' = volume /\ cut' = TRUE
    BY <1>1, <2>1, SteadyIs DEF Delivery, Exact, Tale
  <2>2. CASE ~stopped /\ at' = "next" /\ volume' = volume + 1 /\ cut' = FALSE
    <3>1. PICK m : m = volume + 1
      OBVIOUS
    <3>2. got = Earlier(m)
      BY <1>1, <2>2, <3>1, NoneTold DEF Delivery, Exact
    <3>3. Earlier(volume)' = Earlier(m)
      BY <1>1, <2>2, <3>1, SteadyIs
    <3>4. Earlier(volume)' \subseteq Earlier(volume + 1)'
      <4>1. (SessionTypes => Earlier(volume) \subseteq Earlier(volume + 1))'
        BY EarlierMore, PTL
      <4> QED BY <1>3, <4>1
    <3>5. Tale(hand)' = {} /\ Waiting(v)' = {}
      BY <1>1, NoneTold DEF Waiting
    <3>6. Facts(v, Done(node))' = {}
      BY <2>2 DEF Facts, Done
    <3> QED BY <2>2, <3>2, <3>3, <3>4, <3>5, <3>6 DEF Exact
  <2> QED BY <1>1, <2>1, <2>2
<1>6. EachOnce(got)'
  BY <1>1, OnceStays DEF Delivery
<1> QED BY <1>1, <1>3, <1>4, <1>5, <1>6, Away DEF Delivery

(* The first pass over the file table keeps it.                            *)
LEMMA PassOneDelivers ==
  ASSUME NEW v, NEW node, NEW got, Delivery(v, node, got), PassOne
  PROVE  Delivery(v, node, got)'
<1>1. /\ Steady /\ at = "pass 1" /\ UNCHANGED <<stopped, volume, cut, own, batch, hand>>
      /\ \/ at' = "close" /\ stopped /\ cursor' = cursor
         \/ at' = "pass 1" /\ cursor < Total /\ cursor' = Min({cursor + Chunk, Total})
         \/ at' = "pass 2" /\ cursor' = 0
      /\ volumes' = volumes /\ world' = world
  BY DEF PassOne, Goto, walk, Steady, Between
<1>2. got = Earlier(volume) /\ hand = <<>> /\ batch = <<>>
  BY <1>1, BetweenIs
<1>3. v = Letter /\ Disk(v)
  BY <1>1, AtWork DEF Delivery, Working
<1>4. Total \in Nat /\ Total = Len(Table(v)) /\ cursor \in Nat /\ Chunk \in Nat
  BY <1>3, DiskIs, BoundsOK DEF Total, Delivery, SessionTypes
<1>5. cursor' \in Nat /\ (at' = "close" \/ cursor' <= Total)
  <2>1. \A a, b \in Nat : Min({a, b}) \in Nat /\ Min({a, b}) <= b
    <3> SUFFICES ASSUME NEW a \in Nat, NEW b \in Nat PROVE Min({a, b}) \in Nat /\ Min({a, b}) <= b
      OBVIOUS
    <3>1. \E x \in {a, b} : \A y \in {a, b} : x <= y
      <4>1. CASE a <= b
        BY <4>1
      <4>2. CASE ~(a <= b)
        BY <4>2
      <4> QED BY <4>1, <4>2
    <3>2. Min({a, b}) \in {a, b} /\ \A y \in {a, b} : Min({a, b}) <= y
      BY <3>1 DEF Min
    <3> QED BY <3>2
  <2>2. cursor + Chunk \in Nat
    BY <1>4
  <2>3. PICK c \in Nat : c = cursor + Chunk
    BY <2>2
  <2>4. PICK t \in Nat : t = Total
    BY <1>4
  <2>5. Min({c, t}) \in Nat /\ Min({c, t}) <= t
    BY <2>1
  <2>6. CASE at' = "close" /\ cursor' = cursor
    BY <1>4, <2>6
  <2>7. CASE cursor' = Min({c, t})
    BY <2>4, <2>5, <2>7
  <2>8. CASE cursor' = 0
    BY <2>4, <2>8
  <2> QED BY <1>1, <2>3, <2>4, <2>6, <2>7, <2>8
<1>6. SessionTypes'
  BY <1>1, <1>5, TypesStay DEF Delivery, SessionTypes, Working
<1>7. Placed(v)'
  BY <1>1, <1>4, <1>5, SteadyIs DEF Delivery, Placed, Working
<1>8. Handed'
  BY <1>1, <1>2 DEF Handed
<1>9. Done(node)' = {}
  <2>1. 1 .. 0 = {}
    OBVIOUS
  <2> QED BY <1>1, <2>1 DEF Done
<1>10. Tale(hand)' = {} /\ Waiting(v)' = {} /\ Facts(v, Done(node))' = {}
  BY <1>1, <1>2, <1>9, NoneTold DEF Waiting, Facts
<1>11. Exact(v, node, got)'
  <2>1. Earlier(volume)' = Earlier(volume)
    BY <1>1, SteadyIs
  <2>2. got \subseteq Earlier(volume + 1)'
    BY <1>1, <1>2, EarlierMore, SteadyIs DEF Delivery
  <2> QED BY <1>1, <1>2, <1>10, <2>1, <2>2 DEF Exact
<1>12. Stacked(v, node)' /\ Clean(v)'
  BY <1>1, <1>2, NoneTold DEF Stacked, Clean
<1>13. Walked(v, node)'
  BY <1>1 DEF Walked
<1>14. EachOnce(got)'
  BY <1>1, OnceStays DEF Delivery
<1> QED BY <1>6, <1>7, <1>8, <1>11, <1>12, <1>13, <1>14 DEF Delivery

(* What is called for is handed over.                                      *)
LEMMA ReturnDelivers ==
  ASSUME NEW v, NEW node, NEW got, NEW more, Delivery(v, node, got), Return, more = got \cup Tale(hand)
  PROVE  Delivery(v, node, more)'
<1>1. /\ Steady /\ UNCHANGED <<stopped, volume, cut, cursor, own, batch, at, entries, queue, worker>>
      /\ world' = world /\ volumes' = volumes /\ hand' = <<>>
  BY DEF Return, walk, Steady
<1>2. SessionTypes'
  <2>1. hand' \in Seq(RecordSet)
    BY <1>1, EmptySeq, Zenon
  <2> QED BY <1>1, <2>1, TypesStay DEF Delivery, SessionTypes
<1>3. Placed(v)' /\ Handed'
  BY <1>1, SteadyIs DEF Delivery, Placed, Handed
<1>4. Walked(v, node)'
  BY <1>1, WalkStays DEF Delivery
<1>5. Done(node)' = Done(node)
  BY <1>1 DEF Done, Given
<1>6. Tale(hand)' = {} /\ Range(hand') = {} /\ OnePathEach(hand)'
  BY <1>1, NoneTold
<1>7. Waiting(v)' = Waiting(v)
  BY <1>1, SteadyIs DEF Waiting, Tale
<1>8. at = "ended" => Tale(hand) = {}
  BY NoneTold DEF Delivery, Handed
<1>9. Exact(v, node, more)'
  <2>1. /\ Facts(v, Done(node))' = Facts(v, Done(node)) /\ Earlier(volume)' = Earlier(volume)
        /\ Earlier(volume + 1)' = Earlier(volume + 1)
    BY <1>1, <1>5, SteadyIs
  <2>2. PICK t : t = Tale(hand)
    OBVIOUS
  <2>3. Exact(v, node, got)
    BY DEF Delivery
  <2> QED BY <1>1, <1>6, <1>7, <1>8, <2>1, <2>2, <2>3 DEF Exact
<1>10. Stacked(v, node)' /\ Clean(v)'
  BY <1>1, <1>5, SteadyIs DEF Delivery, Stacked, Clean
<1>11. EachOnce(more)'
  <2>1. \A r \in Range(batch) : \A f \in more : f.path # r.path
    <3>1. \A r \in Range(hand) : Told(r).path = r.path
      BY DEF Told
    <3> QED BY <3>1 DEF Delivery, EachOnce, Tale
  <2> QED BY <1>1, <1>6, <2>1 DEF Delivery, EachOnce, OnePathEach
<1> QED BY <1>2, <1>3, <1>4, <1>9, <1>10, <1>11 DEF Delivery

(* An excluded root leaves nothing to be found.                            *)
LEMMA RootExcluded ==
  ASSUME NEW v, Disk(v), Excluded(<<v>>, Exclusions(v))
  PROVE  Shown(v) = {}
<1> DEFINE G == {k \in Reach(v) : Excluded(PathTo(v, k), Exclusions(v))}
<1>1. world \in World
  BY DEF Disk
<1>2. ASSUME NEW k \in Reach(v), Parent(v, k) = 0 \/ (Parent(v, k) \in Reach(v) /\ Parent(v, k) \in G)
      PROVE  k \in G
  <2>1. Excluded(PathTo(v, Parent(v, k)), Exclusions(v))
    BY <1>2, PathToRoot
  <2>2. /\ PathTo(v, k) = Append(PathTo(v, Parent(v, k)), Table(v)[k].name) /\ PathTo(v, Parent(v, k)) \in Seq(Words)
    BY PathToIs
  <2>3. Table(v)[k].name \in Words
    BY DiskIs DEF Reach
  <2> QED BY <1>1, <2>1, <2>2, <2>3, ExcludedDown
<1>3. Reach(v) \subseteq G
  <2> HIDE DEF G
  <2> QED BY <1>2, TreeInduct
<1> QED BY <1>3 DEF Shown, Intact

(* Going on to the next volume keeps it.                                   *)
LEMMA NextDelivers ==
  ASSUME NEW v, NEW node, NEW got, Delivery(v, node, got), NextVolume
  PROVE  \E w, a : Delivery(w, a, got)'
<1>1. /\ Steady /\ at = "next" /\ UNCHANGED <<stopped, volume, batch, hand>> /\ world' = world /\ volumes' = volumes
  BY DEF NextVolume, Steady
<1>2. got = Earlier(volume) /\ hand = <<>> /\ batch = <<>>
  BY <1>1, BetweenIs
<1>3. SessionTypes /\ EachOnce(got) /\ got \subseteq Earlier(volume + 1)
  BY <1>2, EarlierMore DEF Delivery
<1>4. /\ Earlier(volume)' = got /\ got \subseteq Earlier(volume + 1)' /\ EachOnce(got)'
  BY <1>1, <1>2, <1>3, SteadyIs, OnceStays
<1>5. Tale(hand)' = {} /\ \A w : Waiting(w)' = {}
  BY <1>1, <1>2, NoneTold DEF Waiting
<1>6. Handed'
  BY <1>1, <1>2 DEF Handed
<1>7. CASE at' = "ended" /\ cut' = (volume <= Len(volumes)) /\ UNCHANGED <<own, cursor>>
  <2>1. cut' \in BOOLEAN
    BY <1>7
  <2>2. SessionTypes'
    BY <1>1, <1>3, <1>7, <2>1, TypesStay DEF SessionTypes
  <2>3. Placed(v)'
    <3>1. volume \in Nat /\ Len(volumes) \in Nat
      BY <1>3 DEF SessionTypes
    <3>2. ~cut' => volume > Len(volumes)
      <4>1. ~cut' => ~(volume <= Len(volumes))
        BY <1>7, Zenon
      <4> QED BY ONLY <3>1, <4>1
    <3> QED BY <1>1, <1>7, <3>2 DEF Placed, Working
  <2>4. Exact(v, node, got)'
    BY <1>4, <1>5, <1>7 DEF Exact
  <2> QED BY <1>4, <1>6, <1>7, <2>2, <2>3, <2>4, Away DEF Delivery
<1>8. ASSUME volume <= Len(volumes), cursor' = 0, own' = 0, cut' = cut, ByTable(Letter), at' = "pass 1"
      PROVE  \E w, a : Delivery(w, a, got)'
  <2>1. SessionTypes'
    BY <1>1, <1>3, <1>8, TypesStay DEF SessionTypes, Working
  <2>2. PICK w : w = volumes[volume]
    OBVIOUS
  <2>3. Placed(w)'
    <3>1. ByTable(w)' /\ Len(Table(w))' \in Nat
      <4>1. ByTable(w)
        BY <1>8, <2>2 DEF Letter
      <4>2. w \in DOMAIN world.disk
        <5>0. volumes \in Seq(DOMAIN world.disk) /\ volume \in Nat \ {0}
          BY <1>3 DEF SessionTypes
        <5>1. volumes \in Seq(DOMAIN world.disk) /\ volume \in 1 .. Len(volumes)
          <6>1. volume <= Len(volumes)
            BY <1>8
          <6>2. Len(volumes) \in Nat
            BY <5>0, LenProperties
          <6> QED BY ONLY <5>0, <6>1, <6>2
        <5> QED BY <2>2, <5>1, ElementOfSeq
      <4>3. Len(Table(w)) \in Nat
        BY <1>3, <4>2, DiskIs DEF Disk, SessionTypes
      <4> QED BY <1>1, <4>1, <4>3, SteadyIs
    <3>2. 0 <= Len(Table(w))'
      BY <3>1
    <3> QED BY <1>1, <1>8, <2>2, <3>1, <3>2 DEF Placed
  <2>4. Exact(w, node, got)'
    <3>1. Facts(w, Done(node))' = {}
      BY <1>8, Away DEF Facts
    <3> QED BY <1>4, <1>5, <1>8, <3>1 DEF Exact
  <2>5. Delivery(w, node, got)'
    BY <1>4, <1>6, <1>8, <2>1, <2>3, <2>4, Away DEF Delivery
  <2> QED BY <2>5
<1>9. ASSUME volume <= Len(volumes), cursor' = 0, own' = 0, cut' = cut, ~ByTable(Letter),
             worker' = [x \in Worker |-> Idle],
             \/ /\ Excluded(<<Letter>>, Exclusions(Letter))
                /\ at' = "sift" /\ queue' = <<>> /\ entries' = <<>>
             \/ /\ at' = "walk" /\ queue' = <<[path |-> <<Letter>>, ref |-> 0, node |-> 0]>> /\ entries' = <<Root>>
      PROVE  \E w, a : Delivery(w, a, got)'
  <2>1. SessionTypes'
    BY <1>1, <1>3, <1>9, TypesStay DEF SessionTypes, Working
  <2>2. PICK w : w = Letter
    OBVIOUS
  <2>20. w = volumes[volume] /\ Disk(w)
    <3>1. volumes \in Seq(DOMAIN world.disk) /\ volume \in 1 .. Len(volumes)
      BY <1>3, <1>9 DEF SessionTypes
    <3> QED BY <1>3, <2>2, <3>1, ElementOfSeq DEF Letter, Disk, SessionTypes
  <2>3. Placed(w)'
    <3>1. ~ByTable(w)'
      BY <1>1, <1>9, <2>2, SteadyIs
    <3>2. at' = "sift" => 0 <= Len(entries')
      BY <1>9
    <3> QED BY <1>1, <1>9, <2>20, <3>1, <3>2 DEF Placed
  <2>4. \A a : Exact(w, a, got)'
    <3> SUFFICES ASSUME NEW a PROVE Exact(w, a, got)'
      OBVIOUS
    <3>1. Done(a)' = {}
      <4>1. \A q \in Given' : ~(q < 0)
        BY DEF Given
      <4> QED BY <1>9, <4>1 DEF Done
    <3>2. Facts(w, Done(a))' = {}
      BY <3>1 DEF Facts
    <3> QED BY <1>4, <1>5, <1>9, <3>2 DEF Exact
  <2>5. \A a : Stacked(w, a)' /\ Clean(w)'
    BY <1>1, <1>2, NoneTold DEF Stacked, Clean
  <2>6. \E a : Walked(w, a)'
    <3>1. CASE /\ Excluded(<<Letter>>, Exclusions(Letter))
               /\ at' = "sift" /\ queue' = <<>> /\ entries' = <<>>
      <4>1. Shown(w) = {}
        BY <2>2, <2>20, <3>1, RootExcluded
      <4>2. Shown(w)' = {}
        BY <1>1, <4>1, SameWorld DEF Shown
      <4>3. Given' = {}
        <5>1. Len(entries') = 0 /\ 0 .. 0 - 1 = {}
          BY <3>1
        <5> QED BY <5>1 DEF Given
      <4>4. WalkTypes'
        <5>1. queue' \in Seq(ItemSet) /\ entries' \in Seq(EntrySet)
          BY <3>1, EmptySeq, Zenon
        <5>2. Idle \in ThreadSet
          <6>1. Nowhere \in ItemSet
            BY DEF Nowhere, ItemSet, NoPath
          <6> QED BY <6>1 DEF Idle, ThreadSet
        <5>3. worker' \in [Worker -> ThreadSet]
          BY <1>9, <5>2
        <5> QED BY <5>1, <5>3 DEF WalkTypes
      <4>5. Tree(w, node)' /\ Complete(w, node)'
        BY <4>2, <4>3 DEF Tree, Complete
      <4> QED BY <3>1, <4>4, <4>5 DEF Walked
    <3>2. CASE at' = "walk" /\ queue' = <<[path |-> <<Letter>>, ref |-> 0, node |-> 0]>> /\ entries' = <<Root>>
      <4>1. WalkTypes' /\ \E a : WalkInv(w, a)'
        BY <1>1, <1>9, <2>2, <2>20, <3>2, WalkBegins
      <4> QED BY <3>2, <4>1 DEF Walked
    <3> QED BY <1>9, <3>1, <3>2
  <2> QED BY <1>4, <1>6, <2>1, <2>3, <2>4, <2>5, <2>6 DEF Delivery
<1> QED BY <1>7, <1>8, <1>9 DEF NextVolume, Goto, walk

(* The threads of a walk.                                                  *)
LEMMA WalkerDelivers ==
  ASSUME NEW v, NEW node, NEW got, Delivery(v, node, got), NEW w \in Worker, WorkerStep(w)
  PROVE  \E a : Delivery(v, a, got)'
<1>1. /\ Steady /\ at = "walk" /\ at' = at /\ UNCHANGED <<stopped, volume, cut, cursor, own, batch, hand>>
      /\ world' = world /\ volumes' = volumes
  BY DEF WorkerStep, Take, Open, Share, Leave, GoHome, Walks, Steady, find
<1>2. got = Earlier(volume) /\ hand = <<>> /\ batch = <<>>
  BY <1>1, BetweenIs
<1>3. Disk(v) /\ v = Letter /\ ~ByTable(v) /\ WalkTypes /\ WalkInv(v, node)
  BY <1>1, AtWork DEF Delivery, Placed, Walked, Working
<1>4. WalkTypes' /\ \E a : WalkInv(v, a)'
  <2>1. CASE Take(w)
    BY <1>3, <2>1, TakeWalks
  <2>2. CASE Open(w)
    <3>1. Disk(Letter) /\ ~ByTable(Letter) /\ WalkInv(Letter, node) /\ WalkTypes
      BY <1>3
    <3>2. Letter' = v
      BY <1>1, <1>3 DEF Letter
    <3>3. WalkTypes' /\ \E a : WalkInv(Letter, a)'
      BY <2>2, <3>1, OpenWalks
    <3> QED BY <3>2, <3>3
  <2>3. CASE Share(w)
    BY <1>3, <2>3, ShareWalks
  <2>4. CASE Leave(w) \/ GoHome(w)
    BY <1>3, <2>4, RestWalks
  <2> QED BY <2>1, <2>2, <2>3, <2>4 DEF WorkerStep
<1>5. PICK a : WalkInv(v, a)'
  BY <1>4
<1>6. SessionTypes'
  BY <1>1, TypesStay DEF Delivery, SessionTypes
<1>7. Placed(v)' /\ Handed'
  BY <1>1, SteadyIs DEF Delivery, Placed, Handed
<1>8. Walked(v, a)'
  BY <1>1, <1>4, <1>5 DEF Walked
<1>9. Exact(v, a, got)'
  <2>1. Facts(v, Done(a))' = {} /\ Tale(hand)' = {} /\ Waiting(v)' = {}
    BY <1>1, <1>2, NoneTold DEF Facts, Done, Waiting
  <2>2. Earlier(volume)' = got /\ got \subseteq Earlier(volume + 1)'
    BY <1>1, <1>2, EarlierMore, SteadyIs DEF Delivery
  <2> QED BY <1>1, <2>1, <2>2 DEF Exact
<1>10. Stacked(v, a)' /\ Clean(v)' /\ EachOnce(got)'
  BY <1>1, OnceStays DEF Stacked, Clean, Delivery
<1>11. Delivery(v, a, got)'
  BY <1>6, <1>7, <1>8, <1>9, <1>10 DEF Delivery
<1> QED BY <1>11

(* Joining the threads keeps it: a walk that is over has entries for all
   there is.                                                               *)
LEMMA JoinedDelivers ==
  ASSUME NEW v, NEW node, NEW got, Delivery(v, node, got), Joined
  PROVE  Delivery(v, node, got)'
<1>1. /\ Steady /\ at = "walk" /\ at' = "sift" /\ UNCHANGED <<stopped, volume, cut, cursor, own, batch, hand>>
      /\ world' = world /\ volumes' = volumes /\ UNCHANGED <<queue, entries, worker>>
      /\ \A w \in Worker : worker[w].at = "gone"
  BY DEF Joined, Goto, Steady, find, walk
<1>2. got = Earlier(volume) /\ hand = <<>> /\ batch = <<>>
  BY <1>1, BetweenIs
<1>3. Disk(v) /\ v = Letter /\ ~ByTable(v) /\ WalkTypes /\ WalkInv(v, node) /\ cursor = 0
  BY <1>1, AtWork DEF Delivery, Placed, Walked, Working
<1>4. Tree(v, node) /\ Complete(v, node)
  BY <1>1, <1>3, HomeComplete DEF WalkInv
<1>5. SessionTypes'
  BY <1>1, TypesStay DEF Delivery, SessionTypes, Working
<1>6. Placed(v)' /\ Handed'
  <2>1. 0 <= Len(entries)'
    <3>1. Len(entries) \in Nat
      BY <1>3, GivenIs
    <3> QED BY <1>1, <3>1
  <2> QED BY <1>1, <1>2, <1>3, <2>1, SteadyIs DEF Delivery, Placed, Handed, Working
<1>7. Walked(v, node)'
  <2>1. Given' = Given /\ Shown(v)' = Shown(v) /\ \A r : EntryStands(v, node, r)' = EntryStands(v, node, r)
    BY <1>1, SameWorld DEF Given, Shown, EntryStands
  <2>2. Tree(v, node)' /\ Complete(v, node)'
    BY <1>1, <1>4, <2>1 DEF Tree, Complete
  <2> QED BY <1>1, <1>3, <2>2 DEF Walked, WalkTypes
<1>8. Done(node)' = {}
  <2>1. \A q \in Given' : ~(q < 0)
    BY DEF Given
  <2> QED BY <1>1, <1>3, <2>1 DEF Done
<1>9. Exact(v, node, got)'
  <2>1. Facts(v, Done(node))' = {} /\ Tale(hand)' = {} /\ Waiting(v)' = {}
    BY <1>1, <1>2, <1>8, NoneTold DEF Facts, Waiting
  <2>2. Earlier(volume)' = got /\ got \subseteq Earlier(volume + 1)'
    BY <1>1, <1>2, EarlierMore, SteadyIs DEF Delivery
  <2> QED BY <1>1, <2>1, <2>2 DEF Exact
<1>10. Stacked(v, node)' /\ Clean(v)'
  BY <1>1, <1>2, NoneTold DEF Stacked, Clean
<1>11. EachOnce(got)'
  BY <1>1, OnceStays DEF Delivery
<1> QED BY <1>5, <1>6, <1>7, <1>9, <1>10, <1>11 DEF Delivery

(* What is left goes out, and unless the scan was stopped that is all.     *)
LEMMA ClosingDelivers ==
  ASSUME NEW v, NEW node, NEW got, Delivery(v, node, got), Finding, ~Called, at' = "close",
         Steady, UNCHANGED <<stopped, volume, cut, cursor, own>>,
         Emptied', hand' \in Seq(RecordSet), OnePathEach(hand)',
         Range(hand') = {x \in Range(batch) : ~Excluded(x.path, Exclusions(v))},
         ~stopped => Near(v) \subseteq Done(node)
  PROVE  Delivery(v, node, got)'
<1>1. /\ Tale(batch)' = {} /\ Range(batch') = {} /\ OnePathEach(batch)' /\ batch' \in Seq(RecordSet)
  <2>1. (/\ Emptied => Tale(batch) = {} /\ Range(batch) = {} /\ OnePathEach(batch)
         /\ Emptied => batch \in Seq(RecordSet))'
    BY NoneWaits, PTL
  <2> QED BY <2>1
<1>2. v = volumes[volume] /\ volume \in DOMAIN volumes
  BY AtWork DEF Delivery, Working, Letter, Finding
<1>3. SessionTypes'
  BY <1>1, TypesStay DEF Delivery, SessionTypes, Working
<1>4. Placed(v)'
  BY SteadyIs DEF Delivery, Placed, Working, Finding, Steady
<1>5. Handed'
  BY DEF Handed, Emptied
<1>6. Tale(hand)' = Waiting(v)
  <2>1. PICK few : few = hand'
    OBVIOUS
  <2>2. PICK b : b = batch
    OBVIOUS
  <2>3. Range(few) = {x \in Range(b) : ~Excluded(x.path, Exclusions(v))}
    BY <2>1, <2>2
  <2>4. Tale(few) = Spared(v, Tale(b))
    BY ONLY <2>3, TaleOf
  <2> QED BY <2>1, <2>2, <2>4 DEF Waiting, Spared
<1>7. got \cup Waiting(v) = Earlier(volume) \cup Facts(v, Done(node))
  <2>1. Tale(hand) = {}
    BY NoneWaits
  <2> QED BY <2>1 DEF Delivery, Exact, Finding
<1>8. PICK m : m = volume + 1
  OBVIOUS
<1>9. Earlier(m) = Earlier(volume) \cup Within(v) /\ Earlier(m)' = Earlier(m)
  BY <1>2, <1>8, EarlierNext, SteadyIs DEF Delivery
<1>10. Facts(v, Done(node)) \subseteq Within(v)
  BY FactsMore
<1>11. ~stopped => Facts(v, Done(node)) = Within(v)
  BY DEF Facts, Within
<1>12. Exact(v, node, got)'
  <2>1. got \cup Tale(hand)' \subseteq Earlier(m)'
    BY <1>6, <1>7, <1>9, <1>10
  <2>2. ~stopped => got \cup Tale(hand)' = Earlier(m)'
    BY <1>6, <1>7, <1>9, <1>11
  <2>3. m = volume' + 1
    BY <1>8
  <2> QED BY <2>1, <2>2, <2>3 DEF Exact
<1>13. EachOnce(got)'
  <2>1. \A r \in Range(hand') : \A f \in got : f.path # r.path
    BY DEF Delivery, EachOnce
  <2> QED BY <1>1, <2>1 DEF EachOnce
<1> QED BY <1>3, <1>4, <1>5, <1>12, <1>13, Away DEF Delivery

(* The end of the entries keeps it.                                        *)
LEMMA EndSiftDelivers ==
  ASSUME NEW v, NEW node, NEW got, Delivery(v, node, got), EndSift
  PROVE  Delivery(v, node, got)'
<1>1. /\ Steady /\ at = "sift" /\ at' = "close" /\ UNCHANGED <<stopped, volume, cut, cursor, own>> /\ ~Called
      /\ stopped \/ cursor = Len(entries)
      /\ hand' = batch /\ batch' = <<>>
  BY DEF EndSift, Goto, Steady, Call
<1>2. Disk(v) /\ ~ByTable(v) /\ WalkTypes /\ Tree(v, node) /\ Complete(v, node) /\ Finding
  BY <1>1, AtWork DEF Delivery, Placed, Walked, Working, Finding
<1>3. ~stopped => Near(v) \subseteq Done(node)
  <2> SUFFICES ASSUME cursor = Len(entries), NEW k \in Near(v) PROVE k \in Done(node)
    BY <1>1
  <2>1. k \in Shown(v)
    BY <1>2 DEF Near, Seen, Shown, Visible, Intact, Readable, Reach
  <2>2. PICK q \in Given : node[q] = k
    BY <1>2, <2>1 DEF Complete
  <2>3. q < cursor
    BY <1>2, GivenIs DEF Given
  <2> QED BY <1>1, <2>2, <2>3 DEF Done
<1>4. hand' \in Seq(RecordSet) /\ OnePathEach(hand)'
  BY <1>1 DEF Delivery, SessionTypes, EachOnce, OnePathEach
<1>5. Range(hand') = {x \in Range(batch) : ~Excluded(x.path, Exclusions(v))}
  BY <1>1 DEF Delivery, Clean
<1> QED BY <1>1, <1>2, <1>3, <1>4, <1>5, ClosingDelivers DEF Emptied

(* The end of the session keeps it.                                        *)
LEMMA FinishDelivers ==
  ASSUME NEW v, NEW node, NEW got, Delivery(v, node, got), Finish
  PROVE  Delivery(v, node, got)'
<1>1. /\ Steady /\ at = "pass 2" /\ at' = "close" /\ UNCHANGED <<stopped, volume, cut, cursor, own>> /\ ~Called
      /\ cursor = Total \/ stopped
      /\ hand' = NotExcluded(Letter, batch) /\ batch' = <<>>
  BY DEF Finish, Goto, Steady, Call
<1>2. Disk(v) /\ v = Letter /\ Finding
  BY <1>1, AtWork DEF Delivery, Working, Finding
<1>3. ~stopped => Near(v) \subseteq Done(node)
  <2> SUFFICES ASSUME cursor = Total PROVE Near(v) \subseteq Done(node)
    BY <1>1
  <2>1. DOMAIN Table(v) = 1 .. Len(Table(v)) /\ Total = Len(Table(v))
    BY <1>2, DiskIs DEF Total
  <2>2. Near(v) \subseteq DOMAIN Table(v)
    BY <1>2, SeenIs
  <2> QED BY <1>1, <2>1, <2>2 DEF Done
<1>4. PICK b \in Seq(RecordSet) : b = batch /\ OnePathEach(b)
  BY DEF Delivery, SessionTypes, EachOnce
<1>5. PICK few : few = NotExcluded(v, b)
  OBVIOUS
<1>6. /\ few \in Seq(RecordSet) /\ OnePathEach(few)
      /\ Range(few) = {r \in Range(b) : ~Excluded(r.path, Exclusions(v))}
  BY <1>4, <1>5, NotExcludedIs
<1>7. hand' = few
  BY <1>1, <1>2, <1>4, <1>5
<1>8. hand' \in Seq(RecordSet) /\ OnePathEach(hand)'
      /\ Range(hand') = {r \in Range(batch) : ~Excluded(r.path, Exclusions(v))}
  BY <1>4, <1>6, <1>7 DEF OnePathEach
<1> QED BY <1>1, <1>2, <1>3, <1>8, ClosingDelivers DEF Emptied

(* One record more looked at, in the table or among the entries of a walk. *)
LEMMA LookedAt ==
  ASSUME NEW v, NEW node, NEW got, NEW k, Delivery(v, node, got), Finding, ~Called, Steady,
         UNCHANGED <<at, volume, stopped, cut, queue, entries, worker>>,
         cursor' \in Nat, own' \in Nat, Placed(v)', Clean(v)',
         k \notin Done(node), Done(node)' = Done(node) \cup {k},
         \/ k \notin Near(v) /\ batch' = batch /\ hand' = hand
         \/ \E r \in RecordSet :
              /\ k \in Seen(v) /\ Told(r) = Fact(v, k)
              /\ \/ batch' = Append(batch, r) /\ hand' = hand
                 \/ /\ Emptied' /\ hand' \in Seq(RecordSet) /\ OnePathEach(hand)'
                    /\ Range(hand') = {x \in Range(Append(batch, r)) : ~Excluded(x.path, Exclusions(v))}
  PROVE  Delivery(v, node, got)'
<1>1. world' = world /\ volumes' = volumes /\ at' = at /\ queue' = queue /\ entries' = entries /\ worker' = worker
      /\ stopped' = stopped /\ cut' = cut /\ volume' = volume
  BY DEF Steady
<1>2. /\ batch' \in Seq(RecordSet) /\ hand' \in Seq(RecordSet)
      /\ Handed' /\ Exact(v, node, got)' /\ Stacked(v, node)' /\ EachOnce(got)'
  BY <1>1, Collecting
<1>3. Walked(v, node)'
  BY <1>1, WalkStays DEF Delivery
<1>4. SessionTypes'
  <2>1. SessionTypes
    BY DEF Delivery
  <2>2. /\ stopped' \in BOOLEAN /\ cut' \in BOOLEAN /\ volume' \in Nat \ {0}
        /\ at' \in Working \cup {"next", "ended", "failed", "refused"}
    BY <1>1, <2>1 DEF SessionTypes
  <2>3. Steady /\ cursor' \in Nat /\ own' \in Nat
    OBVIOUS
  <2> QED BY ONLY <1>2, <2>1, <2>2, <2>3, TypesStay
<1>5. Placed(v)' /\ Clean(v)'
  OBVIOUS
<1> QED BY ONLY <1>2, <1>3, <1>4, <1>5 DEF Delivery

(* A batch is kept or, when it is full, handed over.                       *)
LEMMA CollectIs ==
  ASSUME NEW recs, Collect(recs)
  PROVE  (batch' = recs /\ hand' = hand) \/ (Emptied' /\ hand' = recs)
BY DEF Collect, Call, Emptied

(* The numbers up to the next one.                                         *)
LEMMA NextOne == ASSUME NEW c \in Nat PROVE 1 .. c + 1 = (1 .. c) \cup {c + 1} /\ c + 1 \notin 1 .. c
OBVIOUS

(* A record of the file table, put into the batch or passed over, keeps
   it.                                                                     *)
LEMMA PushDelivers ==
  ASSUME NEW v, NEW node, NEW got, Delivery(v, node, got), Push
  PROVE  Delivery(v, node, got)'
<1>1. /\ at = "pass 2" /\ ~Called /\ cursor < Total /\ cursor' = cursor + 1
      /\ world' = world /\ volumes' = volumes /\ UNCHANGED <<at, volume, stopped, cut, queue, entries, worker>>
  BY DEF Push, walk
<1>2. Disk(v) /\ v = Letter /\ ByTable(v) /\ Finding /\ cursor \in Nat /\ own \in Nat
  BY <1>1, AtWork DEF Delivery, Placed, Working, Finding, SessionTypes
<1>3. DOMAIN Table(v) = 1 .. Len(Table(v)) /\ Total = Len(Table(v)) /\ Len(Table(v)) \in Nat
  BY <1>2, DiskIs DEF Total
<1>4. PICK c \in Nat : c = cursor
  BY <1>2
<1>5. PICK k : k = c + 1
  OBVIOUS
<1>6. /\ k \in DOMAIN Table(v) /\ k \in Nat /\ cursor' = k /\ k <= Len(Table(v))
      /\ 1 .. k = (1 .. c) \cup {k} /\ k \notin 1 .. c
  <2>1. PICK m \in Nat : m = Len(Table(v))
    BY <1>3
  <2>2. c < m /\ DOMAIN Table(v) = 1 .. m
    BY <1>1, <1>3, <1>4, <2>1
  <2>3. c + 1 \in 1 .. m /\ c + 1 \in Nat /\ c + 1 <= m
    BY <2>2
  <2> QED BY <1>1, <1>4, <1>5, <2>1, <2>2, <2>3, NextOne
<1>7. k \notin Done(node) /\ Done(node)' = Done(node) \cup {k}
  BY <1>1, <1>4, <1>6 DEF Done
<1>8. PICK path : /\ path = FullPath(v, FolderRecords(v), Table(v)[k])
                  /\ IF \/ k \notin Readable(v) \/ Table(v)[k].kind \in Directories
                        \/ path = NoPath \/ Excluded(path, {<<v, Service>>})
                     THEN UNCHANGED <<own, batch, hand>>
                     ELSE LET full == Append(batch, FileRecord(path, Table(v)[k], own)) IN
                          /\ own' = own + 1
                          /\ IF Len(full) < Batch THEN batch' = full /\ UNCHANGED hand
                             ELSE Call(NotExcluded(v, full))
  BY <1>2, <1>4, <1>5 DEF Push
<1> DEFINE skip == \/ k \notin Readable(v) \/ Table(v)[k].kind \in Directories
                   \/ path = NoPath \/ Excluded(path, {<<v, Service>>})
<1>9. (skip => k \notin Near(v)) /\ (~skip => k \in Seen(v) /\ path = PathTo(v, k))
  BY <1>2, <1>6, <1>8, PushPath
<1>10. Placed(v)' /\ Clean(v)'
  <2>1. ByTable(v)' /\ Len(Table(v))' = Len(Table(v))
    BY <1>1, <1>2, SteadyIs DEF Steady
  <2> QED BY <1>1, <1>6, <1>2, <2>1 DEF Delivery, Placed, Clean
<1>11. Steady
  BY <1>1 DEF Steady
<1>12. own' \in Nat
  <2>1. own + 1 \in Nat
    BY <1>2
  <2> QED BY <1>2, <1>8, <2>1
<1>13. CASE skip
  <2>1. k \notin Near(v) /\ batch' = batch /\ hand' = hand
    BY <1>8, <1>9, <1>13
  <2> QED BY <1>1, <1>2, <1>6, <1>7, <1>10, <1>11, <1>12, <2>1, LookedAt
<1>14. CASE ~skip
  <2>1. PICK r : r = FileRecord(path, Table(v)[k], own)
    OBVIOUS
  <2>2. k \in Seen(v) /\ path = PathTo(v, k)
    BY <1>9, <1>14
  <2>3. path \in Seq(Words)
    BY <1>2, <2>2, PathToIs, SeenIs
  <2>4. {Table(v)[k].size, Table(v)[k].used, Table(v)[k].changed} \subseteq Nat
    BY <1>2, <1>6, DiskIs
  <2>5. r \in RecordSet /\ Told(r) = Fact(v, k)
    BY <1>2, <2>1, <2>2, <2>3, <2>4, FileRecordIs DEF Fact
  <2>6. PICK full : full = Append(batch, r)
    OBVIOUS
  <2>7. full \in Seq(RecordSet) /\ OnePathEach(full)
    <3>1. Grown(full, r)
      BY <2>6 DEF Grown
    <3> QED BY <1>2, <1>7, <2>2, <2>5, <3>1, OneMore
  <2>8. PICK few : few = NotExcluded(v, full)
    OBVIOUS
  <2>9. few \in Seq(RecordSet) /\ OnePathEach(few) /\ Range(few) = {x \in Range(full) : ~Excluded(x.path, Exclusions(v))}
    BY <2>7, <2>8, NotExcludedIs
  <2>10. (batch' = full /\ hand' = hand) \/ (hand' = few /\ Emptied')
    BY <1>8, <1>14, <2>1, <2>6, <2>8 DEF Call, Emptied
  <2>11. \/ batch' = Append(batch, r) /\ hand' = hand
         \/ /\ Emptied' /\ hand' \in Seq(RecordSet) /\ OnePathEach(hand)'
            /\ Range(hand') = {x \in Range(Append(batch, r)) : ~Excluded(x.path, Exclusions(v))}
    <3>1. CASE batch' = full /\ hand' = hand
      BY <2>6, <3>1
    <3>2. CASE hand' = few /\ Emptied'
      <4>1. OnePathEach(hand)' /\ hand' \in Seq(RecordSet) /\ Range(hand') = Range(few)
        BY <2>9, <3>2 DEF OnePathEach
      <4> QED BY ONLY <2>6, <2>9, <3>2, <4>1
    <3> QED BY <2>10, <3>1, <3>2
  <2>12. /\ Delivery(v, node, got) /\ Finding /\ ~Called /\ Steady
         /\ UNCHANGED <<at, volume, stopped, cut, queue, entries, worker>>
         /\ cursor' \in Nat /\ own' \in Nat /\ Placed(v)' /\ Clean(v)'
         /\ k \notin Done(node) /\ Done(node)' = Done(node) \cup {k}
    BY <1>1, <1>2, <1>6, <1>7, <1>10, <1>11, <1>12
  <2> QED BY ONLY <2>2, <2>5, <2>11, <2>12, LookedAt
<1> QED BY <1>13, <1>14

(* An entry that is a folder or too deep is not to be found, another is.   *)
LEMMA SiftPath ==
  ASSUME NEW v, Disk(v), ~ByTable(v), NEW node, WalkTypes, Tree(v, node), 0 \in Given, NEW c \in Given,
         NEW path, path = IF entries[c + 1].ref = 0 THEN <<v>> ELSE FullPath(v, FolderEntries, entries[c + 1])
  PROVE  /\ entries[c + 1].dir \/ path = NoPath => node[c] \notin Near(v)
         /\ ~(entries[c + 1].dir \/ path = NoPath) =>
              /\ node[c] \in Seen(v) /\ path = PathTo(v, node[c]) /\ ~Excluded(path, Exclusions(v))
              /\ entries[c + 1].size = Table(v)[node[c]].size /\ entries[c + 1].used = Table(v)[node[c]].used
              /\ entries[c + 1].changed = Table(v)[node[c]].changed
<1>0. 0 \notin DOMAIN Table(v)
  BY DiskIs
<1>1. CASE c = 0
  <2>1. entries[c + 1].dir /\ node[c] = 0
    BY <1>1, TreeIs, RootFields
  <2> QED BY <1>0, <2>1, SeenIs
<1>2. CASE c # 0
  <2>1. PICK e : e = entries[c + 1]
    OBVIOUS
  <2>2. PICK k : k = node[c]
    OBVIOUS
  <2>3. /\ k \in Shown(v) /\ k \in Reach(v) /\ e = EntryOf([ref |-> e.parent], Table(v)[k], c)
    BY <1>2, <2>1, <2>2, EntryIn, TreeIs
  <2>4. e.ref = c
    BY ONLY <2>3, EntryFields
  <2>5. path = IF Depth(v, Parent(v, k)) <= MaxDepth THEN PathTo(v, k) ELSE NoPath
    BY <1>2, <2>1, <2>2, <2>4, EntriesResolve
  <2>6. PathTo(v, k) # NoPath
    <3>1. Depth(v, Parent(v, k)) \in Nat /\ Depth(v, k) = Depth(v, Parent(v, k)) + 1 /\ Len(PathTo(v, k)) = Depth(v, k) + 1
      BY <2>3, PathToIs
    <3>2. Len(PathTo(v, k)) # 0
      <4>1. PICK d \in Nat : d = Depth(v, Parent(v, k))
        BY <3>1
      <4> QED BY <3>1, <4>1
    <3>3. Len(<<>>) = 0
      OBVIOUS
    <3> QED BY <3>2, <3>3 DEF NoPath
  <2>7. e.dir <=> Table(v)[k].kind \in {"folder", "cloud"}
    BY ONLY <2>3, EntryFields
  <2>8. e.size = Table(v)[k].size /\ e.used = Table(v)[k].used /\ e.changed = Table(v)[k].changed
    <3>1. PICK f : f = Table(v)[k]
      OBVIOUS
    <3>2. e = EntryOf([ref |-> e.parent], f, c)
      BY <2>3, <3>1
    <3>3. e.size = f.size /\ e.used = f.used /\ e.changed = f.changed
      BY ONLY <3>2 DEF EntryOf
    <3> QED BY <3>1, <3>3
  <2>9. /\ Table(v)[k].kind # "metafile" /\ k \in Readable(v) /\ ~Excluded(PathTo(v, k), Exclusions(v))
    BY <2>3 DEF Shown, Intact
  <2>10. Visible(v, Table(v)[k]) <=> ~e.dir
    BY <2>7, <2>9 DEF Visible, Readable
  <2>11. k \in Seen(v) <=> ~e.dir /\ Depth(v, Parent(v, k)) <= MaxDepth
    BY <2>3, <2>10 DEF Seen
  <2>12. k \in Near(v) => k \in Seen(v)
    BY SeenIs
  <2> QED BY <2>1, <2>2, <2>5, <2>6, <2>8, <2>9, <2>11, <2>12
<1> QED BY <1>1, <1>2

(* The numbers below the next one.                                         *)
LEMMA GivenBelow == ASSUME NEW n \in Nat, NEW c \in Nat, c < n
                    PROVE  c \in 0 .. n - 1 /\ \A q \in 0 .. n - 1 : q < c + 1 <=> q < c \/ q = c
OBVIOUS

(* An entry of the walk, put into the batch or passed over, keeps it.      *)
LEMMA SiftDelivers ==
  ASSUME NEW v, NEW node, NEW got, Delivery(v, node, got), Sift
  PROVE  Delivery(v, node, got)'
<1>1. /\ at = "sift" /\ ~Called /\ cursor < Len(entries) /\ cursor' = cursor + 1
      /\ world' = world /\ volumes' = volumes /\ UNCHANGED <<at, volume, stopped, cut, queue, entries, worker>>
  BY DEF Sift, walk
<1>2. Disk(v) /\ v = Letter /\ ~ByTable(v) /\ Finding /\ cursor \in Nat /\ own \in Nat
      /\ WalkTypes /\ Tree(v, node) /\ Complete(v, node)
  BY <1>1, AtWork DEF Delivery, Placed, Walked, Working, Finding, SessionTypes
<1>3. PICK n \in Nat : n = Len(entries)
  BY <1>2, GivenIs
<1>4. PICK c \in Nat : c = cursor
  BY <1>2
<1>5. /\ c \in Given /\ 0 \in Given /\ Given = 0 .. n - 1
      /\ \A q \in Given : q < c + 1 <=> q < c \/ q = c
  <2>1. Given = 0 .. n - 1 /\ c < n
    BY <1>1, <1>3, <1>4 DEF Given
  <2>2. 0 \in 0 .. n - 1
    BY <2>1
  <2> QED BY <2>1, <2>2, GivenBelow
<1>6. PICK k : k = node[c]
  OBVIOUS
<1>7. k \notin Done(node) /\ Done(node)' = Done(node) \cup {k}
  <2>1. Given' = Given /\ cursor' = c + 1
    BY <1>1, <1>4 DEF Given
  <2>2. Done(node) = {node[r] : r \in {q \in Given : q < c}}
    BY <1>1, <1>4 DEF Done
  <2>3. Done(node)' = {node[r] : r \in {q \in Given : q < c + 1}}
    BY <1>1, <2>1 DEF Done
  <2>4. \A r \in Given : node[r] = node[c] => r = c
    BY <1>2, <1>5 DEF Tree
  <2>5. ~(c < c)
    OBVIOUS
  <2>6. k \notin Done(node)
    BY <1>6, <2>2, <2>4, <2>5
  <2>7. {q \in Given : q < c + 1} = {q \in Given : q < c} \cup {c}
    BY <1>5
  <2>8. Done(node)' = Done(node) \cup {k}
    BY <1>6, <2>2, <2>3, <2>7
  <2> QED BY <2>6, <2>8
<1>8. PICK path : /\ path = IF entries[c + 1].ref = 0 THEN <<v>> ELSE FullPath(v, FolderEntries, entries[c + 1])
                  /\ \/ /\ entries[c + 1].dir
                        /\ UNCHANGED <<own, batch, hand>>
                     \/ /\ ~entries[c + 1].dir
                        /\ IF path = NoPath THEN UNCHANGED <<own, batch, hand>>
                           ELSE own' = own + 1 /\ Collect(Append(batch, FileRecord(path, entries[c + 1], own)))
  BY <1>2, <1>4 DEF Sift
<1> DEFINE e == entries[c + 1]
           skip == e.dir \/ path = NoPath
<1>9. /\ skip => k \notin Near(v)
      /\ ~skip => /\ k \in Seen(v) /\ path = PathTo(v, k) /\ ~Excluded(path, Exclusions(v))
                  /\ e.size = Table(v)[k].size /\ e.used = Table(v)[k].used /\ e.changed = Table(v)[k].changed
  <2>1. /\ Disk(v) /\ ~ByTable(v) /\ WalkTypes /\ Tree(v, node) /\ 0 \in Given /\ c \in Given
        /\ path = IF entries[c + 1].ref = 0 THEN <<v>> ELSE FullPath(v, FolderEntries, entries[c + 1])
    BY <1>2, <1>5, <1>8
  <2>2. /\ e.dir \/ path = NoPath => node[c] \notin Near(v)
        /\ ~(e.dir \/ path = NoPath) =>
              /\ node[c] \in Seen(v) /\ path = PathTo(v, node[c]) /\ ~Excluded(path, Exclusions(v))
              /\ e.size = Table(v)[node[c]].size /\ e.used = Table(v)[node[c]].used
              /\ e.changed = Table(v)[node[c]].changed
    BY ONLY <2>1, SiftPath
  <2> QED BY <1>6, <2>2
<1>11. Steady
  BY <1>1 DEF Steady
<1>12. cursor' \in Nat /\ own' \in Nat
  <2>1. c + 1 \in Nat /\ own + 1 \in Nat
    BY <1>2
  <2> QED BY <1>1, <1>2, <1>4, <1>8, <2>1
<1>10. Placed(v)'
  <2>1. ByTable(v)' = ByTable(v)
    BY <1>11, SteadyIs
  <2>2. c + 1 <= n
    BY <1>1, <1>3, <1>4
  <2>3. cursor' <= Len(entries)'
    BY <1>1, <1>3, <1>4, <2>2
  <2> QED BY <1>1, <1>2, <2>1, <2>3 DEF Delivery, Placed
<1>20. Exclusions(v)' = Exclusions(v)
  BY <1>11, SteadyIs
<1>13. CASE skip
  <2>1. k \notin Near(v) /\ batch' = batch /\ hand' = hand
    BY <1>8, <1>9, <1>13
  <2>2. Clean(v)'
    BY <1>1, <1>20, <2>1 DEF Delivery, Clean
  <2> QED BY <1>1, <1>2, <1>7, <1>10, <1>11, <1>12, <2>1, <2>2, LookedAt
<1>14. CASE ~skip
  <2>1. PICK r : r = FileRecord(path, e, own)
    OBVIOUS
  <2>2. k \in Seen(v) /\ path = PathTo(v, k) /\ ~Excluded(path, Exclusions(v))
    BY <1>9, <1>14
  <2>3. path \in Seq(Words) /\ k \in DOMAIN Table(v)
    BY <1>2, <2>2, PathToIs, SeenIs
  <2>4. {e.size, e.used, e.changed} \subseteq Nat
    BY <1>2, <1>9, <1>14, <2>3, DiskIs
  <2>5. r \in RecordSet /\ Told(r) = Fact(v, k)
    <3>1. PICK x : x = e
      OBVIOUS
    <3>2. {x.size, x.used, x.changed} \subseteq Nat /\ r = FileRecord(path, x, own)
      BY <2>1, <2>4, <3>1
    <3>3. r \in RecordSet /\ Told(r) = [path |-> path, size |-> x.size, changed |-> x.changed]
      BY ONLY <1>2, <2>3, <3>2, FileRecordIs
    <3>4. x.size = Table(v)[k].size /\ x.changed = Table(v)[k].changed
      BY <1>9, <1>14, <3>1
    <3> QED BY <2>2, <3>3, <3>4 DEF Fact
  <2>6. PICK full : full = Append(batch, r)
    OBVIOUS
  <2>7. full \in Seq(RecordSet) /\ OnePathEach(full) /\ Range(full) = Range(batch) \cup {r}
    <3>1. Grown(full, r)
      BY <2>6 DEF Grown
    <3> QED BY <1>2, <1>7, <2>2, <2>5, <3>1, OneMore
  <2>8. r.path = path
    BY <2>2, <2>5 DEF Told, Fact
  <2>9. \A x \in Range(full) : ~Excluded(x.path, Exclusions(v))
    BY <1>1, <2>2, <2>7, <2>8 DEF Delivery, Clean
  <2>10. (batch' = full /\ hand' = hand) \/ (hand' = full /\ Emptied')
    <3>1. Collect(full)
      BY <1>8, <1>14, <2>1, <2>6
    <3> QED BY ONLY <3>1, CollectIs
  <2>11. \/ batch' = Append(batch, r) /\ hand' = hand
         \/ /\ Emptied' /\ hand' \in Seq(RecordSet) /\ OnePathEach(hand)'
            /\ Range(hand') = {x \in Range(Append(batch, r)) : ~Excluded(x.path, Exclusions(v))}
    <3>1. CASE batch' = full /\ hand' = hand
      BY <2>6, <3>1
    <3>2. CASE hand' = full /\ Emptied'
      <4>1. OnePathEach(hand)' /\ hand' \in Seq(RecordSet) /\ Range(hand') = Range(full)
        BY <2>7, <3>2 DEF OnePathEach
      <4>2. Range(full) = {x \in Range(full) : ~Excluded(x.path, Exclusions(v))}
        BY <2>9
      <4> QED BY ONLY <2>6, <3>2, <4>1, <4>2
    <3> QED BY <2>10, <3>1, <3>2
  <2>13. Clean(v)'
    <3>1. CASE batch' = full
      BY <1>20, <2>9, <3>1 DEF Clean
    <3>2. CASE Emptied'
      <4>1. (Emptied => Range(batch) = {})'
        BY NoneWaits, PTL
      <4> QED BY <3>2, <4>1 DEF Clean
    <3> QED BY <2>10, <3>1, <3>2
  <2>12. /\ Delivery(v, node, got) /\ Finding /\ ~Called /\ Steady
         /\ UNCHANGED <<at, volume, stopped, cut, queue, entries, worker>>
         /\ cursor' \in Nat /\ own' \in Nat /\ Placed(v)' /\ Clean(v)'
         /\ k \notin Done(node) /\ Done(node)' = Done(node) \cup {k}
    BY <1>1, <1>2, <1>7, <1>10, <1>11, <1>12, <2>13
  <2> QED BY ONLY <2>2, <2>5, <2>11, <2>12, LookedAt
<1> QED BY <1>13, <1>14

(* Every step of a session.                                                *)
LEMMA StepDelivers ==
  ASSUME NEW v, NEW node, NEW got, Delivery(v, node, got),
         SessionStep \/ Stop \/ \E w \in Worker : WorkerStep(w)
  PROVE  \E u, a : Delivery(u, a, got)'
<1>1. CASE Stop
  BY <1>1, StopDelivers
<1>2. CASE \E w \in Worker : WorkerStep(w)
  BY <1>2, WalkerDelivers
<1>3. CASE NextVolume
  BY <1>3, NextDelivers
<1>4. CASE VolumeFails \/ ReadFails
  BY <1>4, FailDelivers
<1>5. CASE EndVolume
  BY <1>5, EndDelivers
<1>6. CASE Joined
  BY <1>6, JoinedDelivers
<1>7. CASE Sift
  BY <1>7, SiftDelivers
<1>8. CASE EndSift
  BY <1>8, EndSiftDelivers
<1>9. CASE PassOne
  BY <1>9, PassOneDelivers
<1>10. CASE Push
  BY <1>10, PushDelivers
<1>11. CASE Finish
  BY <1>11, FinishDelivers
<1> QED BY <1>1, <1>2, <1>3, <1>4, <1>5, <1>6, <1>7, <1>8, <1>9, <1>10, <1>11 DEF SessionStep

(* At first nothing is delivered and nothing is done.                      *)
LEMMA InitDelivers ==
  ASSUME ScanInit
  PROVE  \E v, a : Delivery(v, a, {})
<1>1. /\ world \in World /\ stopped = FALSE /\ volume = 1 /\ cut = FALSE /\ volumes = Resolved
      /\ at = IF volumes = <<>> THEN "refused" ELSE "next"
      /\ cursor = 0 /\ own = 0 /\ batch = <<>> /\ hand = <<>>
  BY DEF ScanInit
<1>2. volumes \in Seq(DOMAIN world.disk) /\ Apart(volumes)
  BY <1>1, ResolvedIs
<1>3. batch \in Seq(RecordSet) /\ hand \in Seq(RecordSet)
  BY <1>1, EmptySeq, Zenon
<1>4. SessionTypes
  <2>1. /\ world \in World /\ stopped \in BOOLEAN /\ cut \in BOOLEAN /\ volume \in Nat \ {0}
        /\ cursor \in Nat /\ own \in Nat
    <3>1. world \in World /\ stopped = FALSE /\ volume = 1 /\ cut = FALSE /\ cursor = 0 /\ own = 0
      BY <1>1, Zenon
    <3>2. stopped \in BOOLEAN /\ cut \in BOOLEAN
      BY <3>1, Zenon
    <3>3. volume \in Nat \ {0}
      BY ONLY <3>1
    <3>4. cursor \in Nat /\ own \in Nat
      BY ONLY <3>1
    <3> QED BY ONLY <3>1, <3>2, <3>3, <3>4
  <2>2. at = "refused" \/ at = "next"
    BY <1>1, Zenon
  <2> QED BY ONLY <1>2, <1>3, <2>1, <2>2 DEF SessionTypes
<1>5. at \in {"next", "refused"} /\ at \notin Working
  <2>1. at = "refused" \/ at = "next"
    BY <1>1, Zenon
  <2> QED BY ONLY <2>1 DEF Working
<1>6. Tale(hand) = {} /\ Tale(batch) = {} /\ Range(hand) = {} /\ Range(batch) = {} /\ OnePathEach(hand) /\ OnePathEach(batch)
  BY <1>1, NoneTold
<1>7. Earlier(1) = {}
  <2>1. \A j \in DOMAIN volumes : ~(j < 1)
    BY <1>2
  <2> QED BY <2>1 DEF Earlier
<1>8. PICK v : v = 0
  OBVIOUS
<1>9. Placed(v) /\ Handed /\ Walked(v, v) /\ Stacked(v, v) /\ Clean(v) /\ EachOnce({})
  BY <1>1, <1>5, <1>6 DEF Placed, Handed, Walked, Stacked, Clean, EachOnce
<1>10. Exact(v, v, {})
  BY <1>1, <1>5, <1>6, <1>7 DEF Exact, Waiting, Facts, Done
<1> QED BY <1>4, <1>9, <1>10 DEF Delivery
=============================================================================
