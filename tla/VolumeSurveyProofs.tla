------------------------- MODULE VolumeSurveyProofs -------------------------
(***************************************************************************)
(* The index, its categories and the totals during a survey, for any       *)
(* disks, settings and decisions.                                          *)
(*   - What the scan delivers the index has (ScanDeliversAlways): the      *)
(*     survey's invariant Surveyed is the scan's Delivery, that the index  *)
(*     covers what was delivered, and that it is sound, with one record    *)
(*     for a path and for a name.                                          *)
(*   - Every record has the category that is due (CategoriesFollowAlways): *)
(*     the detectors of the units that are yet to be published differ from *)
(*     those of the units published (Unpublished), so that a unit never    *)
(*     takes the place of one that the user decided on.                    *)
(*   - The totals count the candidates (TotalsTrueAlways): an entry of the *)
(*     totals that has no record any more is of a record that a unit has   *)
(*     replaced (Accounted).                                               *)
(*   - Units tell the truth and lie apart (UnitsTrueAlways): a folder is   *)
(*     listed only with the folder it lies in (Closed), the folder of all  *)
(*     that is reported is listed (Mapped), so that what a folder is       *)
(*     charged with is all that lies below it, and what the units promise  *)
(*     when they are formed (Honest) nothing takes back (Promises).        *)
(***************************************************************************)
EXTENDS VolumeSurvey, VolumeScanProofs

-----------------------------------------------------------------------------
(* A record of the index, in one piece and in two.                         *)
Whole(r) ==
  /\ r = [id |-> r.id, path |-> r.path, size |-> r.size, used |-> r.used, changed |-> r.changed,
          unit |-> r.unit, cat |-> r.cat, safety |-> r.safety, decision |-> r.decision]
  /\ r.path \in Seq(Words) /\ r.path # <<>>

(* A stored record whose folder and name are in the tables.                *)
Lies(idx, c) ==
  /\ c = Packed(c, c.folder, c.name)
  /\ c.folder \in DOMAIN idx.folders /\ c.name \in DOMAIN idx.names

(* The index as its operations leave it.                                   *)
Sound(idx) ==
  /\ idx = [folders |-> idx.folders, names |-> idx.names, recs |-> idx.recs]
  /\ idx.folders \in Seq(Seq(Words)) /\ Apart(idx.folders)
  /\ idx.names \in Seq(Words) /\ Apart(idx.names)
  /\ idx.recs \in Seq(Range(idx.recs))
  /\ \A k \in DOMAIN idx.recs : Lies(idx, idx.recs[k])

(* A path is its folder and its name ...                                   *)
LEMMA SplitPath ==
  ASSUME NEW p \in Seq(Words), p # <<>>
  PROVE  /\ Folder(p) \in Seq(Words) /\ Name(p) \in Words /\ p = Append(Folder(p), Name(p))
         /\ Len(Folder(p)) = Len(p) - 1
<1>1. PICK s \in Seq(Words), e \in Words : p = Append(s, e)
  BY SequenceEmptyOrAppend
<1>2. Front(p) = s /\ Last(p) = e /\ Len(p) = Len(s) + 1
  BY <1>1, FrontAppend
<1>3. Len(s) \in Nat
  OBVIOUS
<1> QED BY <1>1, <1>2, <1>3 DEF Folder, Name

(* ... and a folder and a name are a path.                                 *)
LEMMA JoinPath ==
  ASSUME NEW s \in Seq(Words), NEW e \in Words
  PROVE  Append(s, e) \in Seq(Words) /\ Append(s, e) # <<>> /\ Folder(Append(s, e)) = s /\ Name(Append(s, e)) = e
BY FrontAppend DEF Folder, Name

(* Interning gives a string a number and changes that of no other.         *)
LEMMA InternIs ==
  ASSUME NEW X, NEW table \in Seq(X), Apart(table), NEW s \in X
  PROVE  /\ Intern(table, s) \in Seq(X) /\ Apart(Intern(table, s))
         /\ DOMAIN table \subseteq DOMAIN Intern(table, s)
         /\ \A k \in DOMAIN table : Intern(table, s)[k] = table[k]
         /\ NumberOf(Intern(table, s), s) \in DOMAIN Intern(table, s)
         /\ Intern(table, s)[NumberOf(Intern(table, s), s)] = s
<1>1. CASE s \in Range(table)
  <2>1. \E k \in DOMAIN table : table[k] = s
    BY <1>1 DEF Range
  <2> QED BY <1>1, <2>1 DEF Intern, NumberOf
<1>2. CASE s \notin Range(table)
  <2>1. PICK z : z = Append(table, s)
    OBVIOUS
  <2>2. z \in Seq(X) /\ Range(z) = Range(table) \cup {s} /\ Apart(z)
    BY <1>2, <2>1, ApartAppend, FrontAppend
  <2>3. /\ Len(table) \in Nat /\ DOMAIN table = 1 .. Len(table) /\ DOMAIN z = 1 .. Len(table) + 1
        /\ \A i \in 1 .. Len(table) : z[i] = table[i]
    BY <2>1, AppendProperties, LenProperties
  <2>4. DOMAIN table \subseteq DOMAIN z
    BY <2>3
  <2>5. \E k \in DOMAIN z : z[k] = s
    BY <2>2 DEF Range
  <2>6. NumberOf(z, s) \in DOMAIN z /\ z[NumberOf(z, s)] = s
    BY <2>5 DEF NumberOf
  <2> QED BY <1>2, <2>1, <2>2, <2>3, <2>4, <2>6 DEF Intern
<1> QED BY <1>1, <1>2

(* What the index answers is its stored records, unpacked, at their
   places.                                                                 *)
LEMMA GetAllIs ==
  ASSUME NEW idx, Sound(idx)
  PROVE  /\ DOMAIN GetAll(idx) = DOMAIN idx.recs /\ DOMAIN idx.recs = 1 .. Len(idx.recs) /\ Len(idx.recs) \in Nat
         /\ \A k \in DOMAIN idx.recs :
              /\ GetAll(idx)[k] = Unpacked(idx, idx.recs[k]) /\ Whole(GetAll(idx)[k])
              /\ PathAt(idx, idx.recs[k]) = GetAll(idx)[k].path
         /\ GetAll(idx) \in Seq(Range(GetAll(idx))) /\ Len(GetAll(idx)) = Len(idx.recs)
<1>1. DOMAIN idx.recs = 1 .. Len(idx.recs) /\ Len(idx.recs) \in Nat
  BY LenProperties DEF Sound
<1>2. DOMAIN GetAll(idx) = DOMAIN idx.recs /\ \A k \in DOMAIN idx.recs : GetAll(idx)[k] = Unpacked(idx, idx.recs[k])
  BY DEF GetAll
<1>3. ASSUME NEW k \in DOMAIN idx.recs
      PROVE  Whole(Unpacked(idx, idx.recs[k])) /\ PathAt(idx, idx.recs[k]) = Unpacked(idx, idx.recs[k]).path
  <2>1. PICK c : c = idx.recs[k]
    OBVIOUS
  <2>2. c.folder \in DOMAIN idx.folders /\ c.name \in DOMAIN idx.names
    BY <2>1 DEF Sound, Lies
  <2>3. idx.folders[c.folder] \in Seq(Words) /\ idx.names[c.name] \in Words
    BY <2>2, ElementOfSeq DEF Sound
  <2>4. PICK p : p = PathAt(idx, c)
    OBVIOUS
  <2>5. p \in Seq(Words) /\ p # <<>>
    BY <2>3, <2>4, JoinPath DEF PathAt
  <2>6. Unpacked(idx, c) =
          [id |-> c.id, path |-> p, size |-> c.size, used |-> c.used,
           changed |-> c.changed, unit |-> c.unit, cat |-> c.cat, safety |-> c.safety,
           decision |-> c.decision]
    BY <2>4 DEF Unpacked
  <2>7. Whole(Unpacked(idx, c)) /\ Unpacked(idx, c).path = p
    BY <2>5, <2>6 DEF Whole
  <2> QED BY <2>1, <2>4, <2>7
<1>4. GetAll(idx) \in Seq(Range(GetAll(idx))) /\ Len(GetAll(idx)) = Len(idx.recs)
  <2>1. PICK g : g = GetAll(idx)
    OBVIOUS
  <2>2. g = [k \in DOMAIN g |-> g[k]] /\ DOMAIN g = 1 .. Len(idx.recs) /\ \A k \in DOMAIN g : g[k] \in Range(g)
    BY <1>1, <1>2, <2>1 DEF GetAll, Range
  <2>3. g \in Seq(Range(g)) /\ Len(g) = Len(idx.recs)
    BY <1>1, <2>2
  <2> QED BY <2>1, <2>3
<1> QED BY <1>1, <1>2, <1>3, <1>4

(* Strings interned leave every record as it was, and give a new one its
   numbers.                                                                *)
LEMMA InternedIs ==
  ASSUME NEW idx, Sound(idx), NEW r, Whole(r), NEW n, n = Interned(idx, r.path)
  PROVE  /\ Sound(n) /\ n.recs = idx.recs /\ GetAll(n) = GetAll(idx)
         /\ Lies(n, PackedIn(n, r)) /\ Unpacked(n, PackedIn(n, r)) = r
<1>1. Folder(r.path) \in Seq(Words) /\ Name(r.path) \in Words /\ r.path = Append(Folder(r.path), Name(r.path))
  BY SplitPath DEF Whole
<1>2. PICK F : F = Intern(idx.folders, Folder(r.path))
  OBVIOUS
<1>3. PICK N : N = Intern(idx.names, Name(r.path))
  OBVIOUS
<1>4. n = [folders |-> F, names |-> N, recs |-> idx.recs]
  BY <1>2, <1>3 DEF Interned, Sound
<1>5. /\ F \in Seq(Seq(Words)) /\ Apart(F) /\ DOMAIN idx.folders \subseteq DOMAIN F
      /\ \A k \in DOMAIN idx.folders : F[k] = idx.folders[k]
      /\ NumberOf(F, Folder(r.path)) \in DOMAIN F /\ F[NumberOf(F, Folder(r.path))] = Folder(r.path)
  <2>1. PICK t : t = idx.folders
    OBVIOUS
  <2>2. PICK s : s = Folder(r.path)
    OBVIOUS
  <2>3. t \in Seq(Seq(Words)) /\ Apart(t) /\ s \in Seq(Words) /\ F = Intern(t, s)
    BY <1>1, <1>2, <2>1, <2>2 DEF Sound
  <2>5. PICK W : W = Seq(Words)
    OBVIOUS
  <2>6. t \in Seq(W) /\ Apart(t) /\ s \in W
    BY <2>3, <2>5
  <2>7. /\ Intern(t, s) \in Seq(W) /\ Apart(Intern(t, s))
        /\ DOMAIN t \subseteq DOMAIN Intern(t, s)
        /\ \A k \in DOMAIN t : Intern(t, s)[k] = t[k]
        /\ NumberOf(Intern(t, s), s) \in DOMAIN Intern(t, s)
        /\ Intern(t, s)[NumberOf(Intern(t, s), s)] = s
    <3>1. Intern(t, s) \in Seq(W) /\ Apart(Intern(t, s))
      BY ONLY <2>6, InternIs
    <3>2. DOMAIN t \subseteq DOMAIN Intern(t, s)
      BY ONLY <2>6, InternIs
    <3>3. \A k \in DOMAIN t : Intern(t, s)[k] = t[k]
      BY ONLY <2>6, InternIs
    <3>4. NumberOf(Intern(t, s), s) \in DOMAIN Intern(t, s)
      BY ONLY <2>6, InternIs
    <3>5. Intern(t, s)[NumberOf(Intern(t, s), s)] = s
      BY ONLY <2>6, InternIs
    <3> QED BY ONLY <3>1, <3>2, <3>3, <3>4, <3>5
  <2>4. /\ F \in Seq(Seq(Words)) /\ Apart(F) /\ DOMAIN t \subseteq DOMAIN F
        /\ \A k \in DOMAIN t : F[k] = t[k]
        /\ NumberOf(F, s) \in DOMAIN F /\ F[NumberOf(F, s)] = s
    BY ONLY <2>3, <2>5, <2>7
  <2> QED BY <2>1, <2>2, <2>4
<1>6. /\ N \in Seq(Words) /\ Apart(N) /\ DOMAIN idx.names \subseteq DOMAIN N
      /\ \A k \in DOMAIN idx.names : N[k] = idx.names[k]
      /\ NumberOf(N, Name(r.path)) \in DOMAIN N /\ N[NumberOf(N, Name(r.path))] = Name(r.path)
  <2>1. PICK t : t = idx.names
    OBVIOUS
  <2>2. PICK s : s = Name(r.path)
    OBVIOUS
  <2>3. t \in Seq(Words) /\ Apart(t) /\ s \in Words /\ N = Intern(t, s)
    BY <1>1, <1>3, <2>1, <2>2 DEF Sound
  <2>5. PICK W : W = Words
    OBVIOUS
  <2>6. t \in Seq(W) /\ Apart(t) /\ s \in W
    BY <2>3, <2>5
  <2>7. /\ Intern(t, s) \in Seq(W) /\ Apart(Intern(t, s))
        /\ DOMAIN t \subseteq DOMAIN Intern(t, s)
        /\ \A k \in DOMAIN t : Intern(t, s)[k] = t[k]
        /\ NumberOf(Intern(t, s), s) \in DOMAIN Intern(t, s)
        /\ Intern(t, s)[NumberOf(Intern(t, s), s)] = s
    <3>1. Intern(t, s) \in Seq(W) /\ Apart(Intern(t, s))
      BY ONLY <2>6, InternIs
    <3>2. DOMAIN t \subseteq DOMAIN Intern(t, s)
      BY ONLY <2>6, InternIs
    <3>3. \A k \in DOMAIN t : Intern(t, s)[k] = t[k]
      BY ONLY <2>6, InternIs
    <3>4. NumberOf(Intern(t, s), s) \in DOMAIN Intern(t, s)
      BY ONLY <2>6, InternIs
    <3>5. Intern(t, s)[NumberOf(Intern(t, s), s)] = s
      BY ONLY <2>6, InternIs
    <3> QED BY ONLY <3>1, <3>2, <3>3, <3>4, <3>5
  <2>4. /\ N \in Seq(Words) /\ Apart(N) /\ DOMAIN t \subseteq DOMAIN N
        /\ \A k \in DOMAIN t : N[k] = t[k]
        /\ NumberOf(N, s) \in DOMAIN N /\ N[NumberOf(N, s)] = s
    BY ONLY <2>3, <2>5, <2>7
  <2> QED BY <2>1, <2>2, <2>4
<1>7. n.folders = F /\ n.names = N /\ n.recs = idx.recs
  BY <1>4
<1>8. \A k \in DOMAIN idx.recs : Lies(idx, idx.recs[k])
  BY DEF Sound
<1>9. ASSUME NEW k \in DOMAIN idx.recs
      PROVE  Lies(n, idx.recs[k]) /\ Unpacked(n, idx.recs[k]) = Unpacked(idx, idx.recs[k])
  <2>1. PICK c : c = idx.recs[k]
    OBVIOUS
  <2>2. c = Packed(c, c.folder, c.name) /\ c.folder \in DOMAIN idx.folders /\ c.name \in DOMAIN idx.names
    BY <1>8, <2>1 DEF Lies
  <2>3. Lies(n, c)
    BY <1>5, <1>6, <1>7, <2>2 DEF Lies
  <2>4. n.folders[c.folder] = idx.folders[c.folder] /\ n.names[c.name] = idx.names[c.name]
    BY <1>5, <1>6, <1>7, <2>2
  <2>5. PathAt(n, c) = PathAt(idx, c)
    BY <2>4 DEF PathAt
  <2>6. Unpacked(n, c) = Unpacked(idx, c)
    BY <2>5 DEF Unpacked
  <2> QED BY <2>1, <2>3, <2>6
<1>10. Sound(n)
  <2>1. \A k \in DOMAIN n.recs : Lies(n, n.recs[k])
    BY <1>7, <1>9
  <2>2. n = [folders |-> n.folders, names |-> n.names, recs |-> n.recs]
    BY <1>4
  <2>3. n.recs \in Seq(Range(n.recs))
    BY <1>7 DEF Sound
  <2> QED BY <1>5, <1>6, <1>7, <2>1, <2>2, <2>3 DEF Sound
<1>11. GetAll(n) = GetAll(idx)
  BY <1>7, <1>9 DEF GetAll
<1>12. PICK a \in DOMAIN F : a = NumberOf(F, Folder(r.path)) /\ F[a] = Folder(r.path)
  BY <1>5
<1>13. PICK b \in DOMAIN N : b = NumberOf(N, Name(r.path)) /\ N[b] = Name(r.path)
  BY <1>6
<1>14. PICK c : c = Packed(r, a, b)
  OBVIOUS
<1>15. PackedIn(n, r) = c
  BY <1>7, <1>12, <1>13, <1>14 DEF PackedIn
<1>16. /\ c.folder = a /\ c.name = b /\ c = Packed(c, a, b)
       /\ c.id = r.id /\ c.size = r.size /\ c.used = r.used /\ c.changed = r.changed /\ c.unit = r.unit
       /\ c.cat = r.cat /\ c.safety = r.safety /\ c.decision = r.decision
  BY <1>14 DEF Packed
<1>17. Lies(n, c)
  BY <1>7, <1>16 DEF Lies
<1>18. PathAt(n, c) = r.path
  BY <1>1, <1>7, <1>12, <1>13, <1>16 DEF PathAt
<1>19. Unpacked(n, c) = r
  <2>1. Unpacked(n, c) = [id |-> r.id, path |-> r.path, size |-> r.size, used |-> r.used, changed |-> r.changed,
          unit |-> r.unit, cat |-> r.cat, safety |-> r.safety, decision |-> r.decision]
    BY <1>16, <1>18 DEF Unpacked
  <2> QED BY <2>1 DEF Whole
<1> QED BY <1>7, <1>10, <1>11, <1>15, <1>17, <1>19

(* The one element of a set.                                               *)
LEMMA Single == ASSUME NEW x PROVE (CHOOSE y \in {x} : TRUE) = x
OBVIOUS

(* A record put at the end.                                                *)
LEMMA AddedIs ==
  ASSUME NEW n, Sound(n), NEW c, Lies(n, c), NEW a, a = Added(n, c)
  PROVE  /\ Sound(a) /\ a.recs = Append(n.recs, c) /\ \A d : Unpacked(a, d) = Unpacked(n, d)
         /\ \A k \in DOMAIN n.recs : GetAll(a)[k] = GetAll(n)[k]
         /\ GetAll(a)[Len(n.recs) + 1] = Unpacked(n, c)
<1>1. PICK R : R = n.recs
  OBVIOUS
<1>2. PICK z : z = Append(R, c)
  OBVIOUS
<1>3. a = [folders |-> n.folders, names |-> n.names, recs |-> z]
  BY <1>1, <1>2 DEF Added, Sound
<1>4. a.folders = n.folders /\ a.names = n.names /\ a.recs = z
  BY <1>3
<1>5. R \in Seq(Range(R) \cup {c})
  <2>1. R \in Seq(Range(R))
    BY <1>1 DEF Sound
  <2> QED BY <2>1, SeqMonotonic
<1>6. /\ z \in Seq(Range(R) \cup {c}) /\ Range(z) = Range(R) \cup {c}
      /\ Len(R) \in Nat /\ DOMAIN R = 1 .. Len(R) /\ DOMAIN z = 1 .. Len(R) + 1
      /\ (\A i \in 1 .. Len(R) : z[i] = R[i]) /\ z[Len(R) + 1] = c
  <2>1. c \in Range(R) \cup {c}
    OBVIOUS
  <2>2. z \in Seq(Range(R) \cup {c}) /\ Range(z) = Range(R) \cup {c}
    BY ONLY <1>2, <1>5, <2>1, FrontAppend
  <2>3. /\ Len(R) \in Nat /\ DOMAIN R = 1 .. Len(R) /\ DOMAIN z = 1 .. Len(R) + 1
        /\ (\A i \in 1 .. Len(R) : z[i] = R[i]) /\ z[Len(R) + 1] = c
    BY ONLY <1>2, <1>5, <2>1, AppendProperties, LenProperties
  <2> QED BY <2>2, <2>3
<1>7. \A d : PathAt(a, d) = PathAt(n, d)
  BY <1>4 DEF PathAt
<1>8. \A d : Unpacked(a, d) = Unpacked(n, d)
  BY <1>7 DEF Unpacked
<1>9. \A d : Lies(a, d) <=> Lies(n, d)
  BY <1>4 DEF Lies
<1>10. \A k \in DOMAIN z : Lies(n, z[k])
  <2>1. \A k \in 1 .. Len(R) + 1 : k \in 1 .. Len(R) \/ k = Len(R) + 1
    BY <1>6
  <2>2. \A k \in 1 .. Len(R) : Lies(n, R[k])
    BY <1>1, <1>6 DEF Sound
  <2> QED BY <1>6, <2>1, <2>2
<1>11. Sound(a)
  <2>1. a.recs \in Seq(Range(a.recs))
    BY <1>4, <1>6
  <2>2. \A k \in DOMAIN a.recs : Lies(a, a.recs[k])
    BY <1>4, <1>9, <1>10
  <2>3. a = [folders |-> a.folders, names |-> a.names, recs |-> a.recs]
    BY <1>3
  <2> QED BY <1>4, <2>1, <2>2, <2>3 DEF Sound
<1>12. \A k \in DOMAIN z : GetAll(a)[k] = Unpacked(n, z[k])
  BY <1>4, <1>8 DEF GetAll
<1>13. \A k \in DOMAIN R : GetAll(n)[k] = Unpacked(n, R[k])
  BY <1>1 DEF GetAll
<1>14. /\ \A k \in DOMAIN R : k \in DOMAIN z /\ z[k] = R[k]
       /\ Len(R) + 1 \in DOMAIN z
  <2>1. PICK m \in Nat : m = Len(R)
    BY <1>6
  <2>2. (\A k \in 1 .. m : k \in 1 .. m + 1) /\ m + 1 \in 1 .. m + 1
    OBVIOUS
  <2> QED BY <1>6, <2>1, <2>2
<1> QED BY <1>1, <1>2, <1>4, <1>6, <1>8, <1>11, <1>12, <1>13, <1>14

(* Where two records have one path they have its two numbers, and the other
   way about.                                                              *)
LEMMA PlaceIs ==
  ASSUME NEW n, Sound(n), NEW c, Lies(n, c)
  PROVE  Place(n, c) = {k \in DOMAIN n.recs : GetAll(n)[k].path = Unpacked(n, c).path}
<1>1. ASSUME NEW k \in DOMAIN n.recs
      PROVE  n.recs[k].folder = c.folder /\ n.recs[k].name = c.name <=> GetAll(n)[k].path = Unpacked(n, c).path
  <2>1. PICK d : d = n.recs[k]
    OBVIOUS
  <2>2. Lies(n, d)
    BY <2>1 DEF Sound
  <2>3. GetAll(n)[k].path = PathAt(n, d) /\ Unpacked(n, c).path = PathAt(n, c)
    BY <2>1 DEF GetAll, Unpacked
  <2>4. PICK F, N : F = n.folders /\ N = n.names
    OBVIOUS
  <2>5. /\ F \in Seq(Seq(Words)) /\ Apart(F) /\ N \in Seq(Words) /\ Apart(N)
        /\ d.folder \in DOMAIN F /\ c.folder \in DOMAIN F /\ d.name \in DOMAIN N /\ c.name \in DOMAIN N
    BY <2>2, <2>4 DEF Sound, Lies
  <2>6. /\ F[d.folder] \in Seq(Words) /\ F[c.folder] \in Seq(Words) /\ N[d.name] \in Words /\ N[c.name] \in Words
    BY ONLY <2>5, ElementOfSeq
  <2>7. PathAt(n, d) = Append(F[d.folder], N[d.name]) /\ PathAt(n, c) = Append(F[c.folder], N[c.name])
    BY <2>4 DEF PathAt
  <2>8. PathAt(n, d) = PathAt(n, c) => F[d.folder] = F[c.folder] /\ N[d.name] = N[c.name]
    <3>1. PICK s \in Seq(Words), t \in Seq(Words), x \in Words, y \in Words :
            s = F[d.folder] /\ t = F[c.folder] /\ x = N[d.name] /\ y = N[c.name]
      BY <2>6
    <3>2. Append(s, x) = Append(t, y) => s = t /\ x = y
      BY ONLY AppendInjective
    <3> QED BY <2>7, <3>1, <3>2
  <2>9. PathAt(n, d) = PathAt(n, c) => d.folder = c.folder /\ d.name = c.name
    BY ONLY <2>5, <2>8 DEF Apart
  <2>10. d.folder = c.folder /\ d.name = c.name => PathAt(n, d) = PathAt(n, c)
    BY DEF PathAt
  <2> QED BY <2>1, <2>3, <2>9, <2>10
<1> QED BY <1>1 DEF Place

(* One record of s changed or one more, which is r, and none had or has its
   path but the one in its place.                                          *)
Stored(s, r, t) ==
  \E p : /\ DOMAIN t = DOMAIN s \cup {p} /\ t[p] = r
         /\ \A k \in DOMAIN s \ {p} : t[k] = s[k] /\ s[k].path # r.path
         /\ p \in DOMAIN s => s[p].path = r.path

(* Putting a record replaces the one with its path or adds it.             *)
LEMMA PutIs ==
  ASSUME NEW n, Sound(n), OnePathEach(GetAll(n)), NEW c, Lies(n, c), NEW a, a = Put(n, c)
  PROVE  Sound(a) /\ Stored(GetAll(n), Unpacked(n, c), GetAll(a))
<1>1. Place(n, c) = {k \in DOMAIN n.recs : GetAll(n)[k].path = Unpacked(n, c).path}
  BY PlaceIs
<1>2. /\ DOMAIN GetAll(n) = DOMAIN n.recs /\ DOMAIN n.recs = 1 .. Len(n.recs) /\ Len(n.recs) \in Nat
  BY GetAllIs
<1>3. CASE Place(n, c) = {}
  <2>1. a = Added(n, c)
    BY <1>3 DEF Put
  <2>2. /\ Sound(a) /\ a.recs = Append(n.recs, c)
        /\ \A k \in DOMAIN n.recs : GetAll(a)[k] = GetAll(n)[k]
        /\ GetAll(a)[Len(n.recs) + 1] = Unpacked(n, c)
    BY <2>1, AddedIs
  <2>3. PICK p : p = Len(n.recs) + 1
    OBVIOUS
  <2>4. DOMAIN GetAll(a) = DOMAIN GetAll(n) \cup {p}
    <3>1. DOMAIN GetAll(a) = 1 .. Len(a.recs)
      BY <2>2, GetAllIs
    <3>2. Len(a.recs) = Len(n.recs) + 1
      <4>1. PICK R : R = n.recs
        OBVIOUS
      <4>2. R \in Seq(Range(R) \cup {c}) /\ c \in Range(R) \cup {c}
        <5>1. R \in Seq(Range(R))
          BY <4>1 DEF Sound
        <5> QED BY <5>1, SeqMonotonic
      <4>3. Len(Append(R, c)) = Len(R) + 1
        BY ONLY <4>2, AppendProperties
      <4> QED BY <2>2, <4>1, <4>3
    <3>3. PICK m \in Nat : m = Len(n.recs)
      BY <1>2
    <3>4. 1 .. m + 1 = (1 .. m) \cup {m + 1}
      OBVIOUS
    <3> QED BY <1>2, <2>3, <3>1, <3>2, <3>3, <3>4
  <2>5. p \notin DOMAIN GetAll(n)
    <3>1. PICK m \in Nat : m = Len(n.recs)
      BY <1>2
    <3>2. m + 1 \notin 1 .. m
      OBVIOUS
    <3> QED BY <1>2, <2>3, <3>1, <3>2
  <2>6. \A k \in DOMAIN GetAll(n) : GetAll(n)[k].path # Unpacked(n, c).path
    BY <1>1, <1>2, <1>3
  <2> QED BY <1>2, <2>2, <2>3, <2>4, <2>5, <2>6 DEF Stored
<1>4. CASE Place(n, c) # {}
  <2>1. PICK p : p \in Place(n, c)
    BY <1>4
  <2>2. \A k \in Place(n, c) : k = p
    BY <1>1, <1>2, <2>1 DEF OnePathEach
  <2>3. p \in DOMAIN n.recs /\ p \in Nat /\ GetAll(n)[p].path = Unpacked(n, c).path
    BY <1>1, <1>2, <2>1
  <2>4. Max(Place(n, c)) = p
    <3>1. Place(n, c) = {p}
      BY <2>1, <2>2
    <3>2. p <= p
      BY <2>3
    <3> QED BY <3>1, <3>2 DEF Max
  <2>5. PICK R : R = n.recs
    OBVIOUS
  <2>6. PICK z : z = [R EXCEPT ![p] = c]
    OBVIOUS
  <2>7. a = [folders |-> n.folders, names |-> n.names, recs |-> z]
    BY <1>4, <2>4, <2>5, <2>6 DEF Put, Sound
  <2>8. /\ R \in Seq(Range(R)) /\ DOMAIN R = 1 .. Len(n.recs) /\ p \in DOMAIN R
    BY <1>2, <2>3, <2>5 DEF Sound
  <2>9. DOMAIN z = DOMAIN R /\ z[p] = c /\ \A k \in DOMAIN R \ {p} : z[k] = R[k]
    BY ONLY <2>6, <2>8
  <2>10. z \in Seq(Range(z))
    <3>1. z = [k \in 1 .. Len(n.recs) |-> z[k]]
      BY ONLY <2>6, <2>8, <2>9
    <3>2. \A k \in 1 .. Len(n.recs) : z[k] \in Range(z)
      BY <2>8, <2>9 DEF Range
    <3> QED BY <1>2, <3>1, <3>2
  <2>11. a.folders = n.folders /\ a.names = n.names /\ a.recs = z
    BY <2>7
  <2>12. \A d : PathAt(a, d) = PathAt(n, d)
    BY <2>11 DEF PathAt
  <2>13. \A d : Unpacked(a, d) = Unpacked(n, d)
    BY <2>12 DEF Unpacked
  <2>14. \A d : Lies(a, d) <=> Lies(n, d)
    BY <2>11 DEF Lies
  <2>15. Sound(a)
    <3>1. \A k \in DOMAIN z : Lies(n, z[k])
      BY <2>5, <2>9 DEF Sound
    <3>2. a = [folders |-> a.folders, names |-> a.names, recs |-> a.recs]
      BY <2>7
    <3> QED BY <2>10, <2>11, <2>14, <3>1, <3>2 DEF Sound
  <2>16. DOMAIN GetAll(a) = DOMAIN z /\ \A k \in DOMAIN z : GetAll(a)[k] = Unpacked(n, z[k])
    BY <2>11, <2>13 DEF GetAll
  <2>17. \A k \in DOMAIN R : GetAll(n)[k] = Unpacked(n, R[k])
    BY <2>5 DEF GetAll
  <2>18. \A k \in DOMAIN GetAll(n) \ {p} : GetAll(a)[k] = GetAll(n)[k] /\ GetAll(n)[k].path # Unpacked(n, c).path
    BY <1>1, <1>2, <2>2, <2>5, <2>9, <2>16, <2>17
  <2>19. DOMAIN GetAll(a) = DOMAIN GetAll(n) \cup {p} /\ GetAll(a)[p] = Unpacked(n, c)
    BY <1>2, <2>5, <2>8, <2>9, <2>16
  <2> QED BY <2>3, <2>15, <2>18, <2>19 DEF Stored
<1> QED BY <1>3, <1>4

(* One record inserted, one upserted.                                      *)
LEMMA InsertOneIs ==
  ASSUME NEW idx, Sound(idx), NEW r, Whole(r), NEW a, a = InsertOne(idx, r)
  PROVE  /\ Sound(a) /\ Len(a.recs) = Len(idx.recs) + 1
         /\ \A k \in DOMAIN idx.recs : GetAll(a)[k] = GetAll(idx)[k]
         /\ GetAll(a)[Len(idx.recs) + 1] = r
<1>1. PICK n : n = Interned(idx, r.path)
  OBVIOUS
<1>2. /\ Sound(n) /\ n.recs = idx.recs /\ GetAll(n) = GetAll(idx)
      /\ Lies(n, PackedIn(n, r)) /\ Unpacked(n, PackedIn(n, r)) = r
  BY <1>1, InternedIs
<1>3. PICK c : c = PackedIn(n, r)
  OBVIOUS
<1>4. a = Added(n, c)
  <2>1. {Added(m, PackedIn(m, r)) : m \in {Interned(idx, r.path)}} = {Added(n, c)}
    BY <1>1, <1>3
  <2>2. a = CHOOSE y \in {Added(n, c)} : TRUE
    BY <2>1 DEF InsertOne
  <2> QED BY ONLY <2>2, Single
<1>5. /\ Sound(a) /\ a.recs = Append(n.recs, c)
      /\ \A k \in DOMAIN n.recs : GetAll(a)[k] = GetAll(n)[k]
      /\ GetAll(a)[Len(n.recs) + 1] = Unpacked(n, c)
  BY <1>2, <1>3, <1>4, AddedIs
<1>6. Len(a.recs) = Len(idx.recs) + 1
  <2>1. PICK R : R = idx.recs
    OBVIOUS
  <2>2. R \in Seq(Range(R) \cup {c}) /\ c \in Range(R) \cup {c}
    <3>1. R \in Seq(Range(R))
      BY <2>1 DEF Sound
    <3> QED BY <3>1, SeqMonotonic
  <2>3. Len(Append(R, c)) = Len(R) + 1
    BY ONLY <2>2, AppendProperties
  <2> QED BY <1>2, <1>5, <2>1, <2>3
<1> QED BY <1>2, <1>3, <1>5, <1>6

(* So does an upsert, which packs the record first.                        *)
LEMMA UpsertOneIs ==
  ASSUME NEW idx, Sound(idx), OnePathEach(GetAll(idx)), NEW r, Whole(r), NEW a, a = UpsertOne(idx, r)
  PROVE  Sound(a) /\ Stored(GetAll(idx), r, GetAll(a))
<1>1. PICK n : n = Interned(idx, r.path)
  OBVIOUS
<1>2. /\ Sound(n) /\ n.recs = idx.recs /\ GetAll(n) = GetAll(idx)
      /\ Lies(n, PackedIn(n, r)) /\ Unpacked(n, PackedIn(n, r)) = r
  BY <1>1, InternedIs
<1>3. PICK c : c = PackedIn(n, r)
  OBVIOUS
<1>4. a = Put(n, c)
  <2>1. {Put(m, PackedIn(m, r)) : m \in {Interned(idx, r.path)}} = {Put(n, c)}
    BY <1>1, <1>3
  <2>2. a = CHOOSE y \in {Put(n, c)} : TRUE
    BY <2>1 DEF UpsertOne
  <2> QED BY ONLY <2>2, Single
<1>5. OnePathEach(GetAll(n))
  BY <1>2
<1>6. Sound(a) /\ Stored(GetAll(n), Unpacked(n, c), GetAll(a))
  BY <1>2, <1>3, <1>4, <1>5, PutIs
<1> QED BY <1>2, <1>3, <1>6

(* A batch, record by record: inserted or else upserted.                   *)
Turn(inserted, idx, batch1, before, n) ==
  IF n = 0 THEN idx ELSE IF inserted THEN InsertOne(before, batch1[n]) ELSE UpsertOne(before, batch1[n])

(* A batch is stored record by record.                                     *)
LEMMA BatchRounds ==
  ASSUME NEW inserted \in BOOLEAN, NEW idx, NEW recs, Len(recs) \in Nat
  PROVE  \E up : /\ up[0] = idx
                 /\ \A n \in 1 .. Len(recs) :
                      up[n] = IF inserted THEN InsertOne(up[n - 1], recs[n]) ELSE UpsertOne(up[n - 1], recs[n])
                 /\ (IF inserted THEN InsertBatch(idx, recs) ELSE UpsertBatch(idx, recs)) = up[Len(recs)]
<1> DEFINE N == Len(recs)
           Rnds(f, n) == f = [m \in 0 .. n |-> Turn(inserted, idx, recs, f[m - 1], m)]
           Q == {n \in Nat : \E f : Rnds(f, n)}
<1>0. \A f, g : Turn(inserted, idx, recs, f, 0) = Turn(inserted, idx, recs, g, 0)
  BY DEF Turn
<1> HIDE DEF N
<1>1. 0 \in Q
  <2> DEFINE f == [m \in 0 .. 0 |-> Turn(inserted, idx, recs, <<>>, 0)]
  <2>1. \A m \in 0 .. 0 : m = 0
    OBVIOUS
  <2>2. f = [m \in 0 .. 0 |-> Turn(inserted, idx, recs, f[m - 1], m)]
    BY <1>0, <2>1
  <2> QED BY <2>2
<1>2. \A n \in Nat : n \in Q => n + 1 \in Q
  <2> SUFFICES ASSUME NEW n \in Nat, NEW f, Rnds(f, n) PROVE \E g : Rnds(g, n + 1)
    OBVIOUS
  <2> DEFINE g == [m \in 0 .. n + 1 |-> Turn(inserted, idx, recs, f[m - 1], m)]
  <2>1. \A m \in 0 .. n : g[m] = f[m]
    OBVIOUS
  <2>2. \A m \in 0 .. n + 1 : Turn(inserted, idx, recs, g[m - 1], m) = Turn(inserted, idx, recs, f[m - 1], m)
    <3> SUFFICES ASSUME NEW m \in 0 .. n + 1
                 PROVE  Turn(inserted, idx, recs, g[m - 1], m) = Turn(inserted, idx, recs, f[m - 1], m)
      OBVIOUS
    <3> HIDE DEF g
    <3>1. CASE m = 0
      BY <1>0, <3>1
    <3>2. CASE m # 0
      <4>1. m - 1 \in 0 .. n
        BY <3>2
      <4> QED BY <2>1, <4>1
    <3> QED BY <3>1, <3>2
  <2>3. g = [m \in 0 .. n + 1 |-> Turn(inserted, idx, recs, g[m - 1], m)]
    <3> HIDE DEF g
    <3>1. g = [m \in 0 .. n + 1 |-> Turn(inserted, idx, recs, f[m - 1], m)]
      BY DEF g
    <3> QED BY <2>2, <3>1
  <2> QED BY <2>3
<1>3. N \in Q
  <2> HIDE DEF Q
  <2>1. Nat \subseteq Q
    BY <1>1, <1>2, Induct
  <2> QED BY <2>1 DEF N
<1>4. \E f : Rnds(f, N)
  BY <1>3
<1> DEFINE up[n \in 0 .. N] == Turn(inserted, idx, recs, up[n - 1], n)
<1>5. Rnds(up, N)
  BY <1>4, Zenon
<1>6. (IF inserted THEN InsertBatch(idx, recs) ELSE UpsertBatch(idx, recs)) = up[N]
  BY DEF InsertBatch, UpsertBatch, Turn, N
<1>7. PICK f : f = up
  OBVIOUS
<1>8. f = [m \in 0 .. N |-> Turn(inserted, idx, recs, f[m - 1], m)] /\ up[N] = f[N]
  BY <1>5, <1>7
<1> HIDE DEF up
<1>9. N \in Nat
  BY DEF N
<1>10. f[0] = idx
  <2>1. 0 \in 0 .. N
    BY <1>9
  <2>2. f[0] = Turn(inserted, idx, recs, f[0 - 1], 0)
    BY <1>8, <2>1
  <2> QED BY <2>2 DEF Turn
<1>11. \A n \in 1 .. N : f[n] = IF inserted THEN InsertOne(f[n - 1], recs[n]) ELSE UpsertOne(f[n - 1], recs[n])
  <2> SUFFICES ASSUME NEW n \in 1 .. N
               PROVE  f[n] = IF inserted THEN InsertOne(f[n - 1], recs[n]) ELSE UpsertOne(f[n - 1], recs[n])
    OBVIOUS
  <2>1. n \in 0 .. N /\ n # 0
    BY <1>9
  <2>2. f[n] = Turn(inserted, idx, recs, f[n - 1], n)
    BY <1>8, <2>1
  <2> QED BY <2>1, <2>2 DEF Turn
<1> QED BY <1>6, <1>8, <1>10, <1>11 DEF N

(* The records R merged into s: each is where the record of its path was,
   or new; what was there keeps its place and its path.                    *)
Merged(s, R, t) ==
  /\ DOMAIN s \subseteq DOMAIN t /\ R \subseteq Range(t)
  /\ \A k \in DOMAIN t : t[k] \in R \/ (k \in DOMAIN s /\ t[k] = s[k])
  /\ \A k \in DOMAIN s : /\ t[k].path = s[k].path
                         /\ (\E r \in R : r.path = s[k].path) => t[k] \in R

(* Nothing merged is nothing changed.                                      *)
LEMMA MergedNone == ASSUME NEW s PROVE Merged(s, {}, s)
BY DEF Merged

(* One record more, with a path of its own, after those merged.            *)
LEMMA MergedMore ==
  ASSUME NEW s, NEW R, NEW t, Merged(s, R, t), NEW r, NEW u, Stored(t, r, u), \A x \in R : x.path # r.path
  PROVE  Merged(s, R \cup {r}, u)
<1>1. PICK p : /\ DOMAIN u = DOMAIN t \cup {p} /\ u[p] = r
               /\ \A k \in DOMAIN t \ {p} : u[k] = t[k] /\ t[k].path # r.path
               /\ p \in DOMAIN t => t[p].path = r.path
  BY DEF Stored
<1>2. DOMAIN s \subseteq DOMAIN u
  BY <1>1 DEF Merged
<1>3. R \cup {r} \subseteq Range(u)
  <2>1. r \in Range(u)
    BY <1>1 DEF Range
  <2>2. ASSUME NEW x \in R PROVE x \in Range(u)
    <3>1. PICK k \in DOMAIN t : t[k] = x
      BY DEF Merged, Range
    <3>2. k # p
      BY <1>1, <3>1
    <3> QED BY <1>1, <3>1, <3>2 DEF Range
  <2> QED BY <2>1, <2>2
<1>4. \A k \in DOMAIN u : u[k] \in R \cup {r} \/ (k \in DOMAIN s /\ u[k] = s[k])
  BY <1>1 DEF Merged
<1>5. ASSUME NEW k \in DOMAIN s
      PROVE  /\ u[k].path = s[k].path
             /\ (\E x \in R \cup {r} : x.path = s[k].path) => u[k] \in R \cup {r}
  <2>1. k \in DOMAIN t /\ t[k].path = s[k].path /\ ((\E x \in R : x.path = s[k].path) => t[k] \in R)
    BY DEF Merged
  <2>2. CASE k = p
    BY <1>1, <2>1, <2>2
  <2>3. CASE k # p
    BY <1>1, <2>1, <2>3
  <2> QED BY <2>2, <2>3
<1> QED BY <1>2, <1>3, <1>4, <1>5 DEF Merged

(* A record stored leaves each path one record.                            *)
LEMMA StoredApart ==
  ASSUME NEW s, OnePathEach(s), NEW r, NEW t, Stored(s, r, t)
  PROVE  OnePathEach(t)
<1>1. PICK p : /\ DOMAIN t = DOMAIN s \cup {p} /\ t[p] = r
               /\ \A k \in DOMAIN s \ {p} : t[k] = s[k] /\ s[k].path # r.path
  BY DEF Stored
<1> SUFFICES ASSUME NEW i \in DOMAIN t, NEW j \in DOMAIN t, t[i].path = t[j].path PROVE i = j
  BY DEF OnePathEach
<1>2. i \in DOMAIN s /\ j \in DOMAIN s => (s[i].path = s[j].path => i = j)
  BY DEF OnePathEach
<1> QED BY <1>1, <1>2

(* The first n records of a batch.                                         *)
Upto(recs, n) == {recs[j] : j \in 1 .. n}

(* The first n + 1 are the first n and the next one.                       *)
LEMMA UptoIs ==
  ASSUME NEW recs
  PROVE  Upto(recs, 0) = {} /\ \A n \in Nat : Upto(recs, n + 1) = Upto(recs, n) \cup {recs[n + 1]}
<1>1. Upto(recs, 0) = {}
  BY DEF Upto
<1>2. ASSUME NEW n \in Nat PROVE Upto(recs, n + 1) = Upto(recs, n) \cup {recs[n + 1]}
  <2>1. 1 .. n + 1 = (1 .. n) \cup {n + 1}
    OBVIOUS
  <2> QED BY <2>1 DEF Upto
<1> QED BY <1>1, <1>2

(* Places in a sequence that grows by n and one more.                      *)
LEMMA FurtherOn ==
  ASSUME NEW l \in Nat, NEW n \in Nat
  PROVE  /\ (l + n) + 1 = l + (n + 1) /\ \A k \in 1 .. l : k \in 1 .. l + n
         /\ \A j \in 1 .. n + 1 : (j \in 1 .. n /\ l + j \in 1 .. l + n) \/ j = n + 1
OBVIOUS

(* A batch of different paths upserted is merged with what was there.      *)
LEMMA UpsertBatchIs ==
  ASSUME NEW idx, Sound(idx), OnePathEach(GetAll(idx)), NEW recs, Len(recs) \in Nat,
         \A j \in 1 .. Len(recs) : Whole(recs[j]),
         \A i, j \in 1 .. Len(recs) : recs[i].path = recs[j].path => i = j,
         NEW a, a = UpsertBatch(idx, recs)
  PROVE  Sound(a) /\ OnePathEach(GetAll(a)) /\ Merged(GetAll(idx), Upto(recs, Len(recs)), GetAll(a))
<1>1. PICK N \in Nat : N = Len(recs)
  OBVIOUS
<1>2. PICK up : /\ up[0] = idx
                /\ \A n \in 1 .. N : up[n] = UpsertOne(up[n - 1], recs[n])
                /\ UpsertBatch(idx, recs) = up[N]
  <2>0. PICK w \in BOOLEAN : w = FALSE
    OBVIOUS
  <2>1. \E up : /\ up[0] = idx
                /\ \A n \in 1 .. Len(recs) :
                     up[n] = IF w THEN InsertOne(up[n - 1], recs[n]) ELSE UpsertOne(up[n - 1], recs[n])
                /\ (IF w THEN InsertBatch(idx, recs) ELSE UpsertBatch(idx, recs)) = up[Len(recs)]
    BY BatchRounds
  <2> QED BY <1>1, <2>0, <2>1
<1> DEFINE Good(n) == Sound(up[n]) /\ OnePathEach(GetAll(up[n])) /\ Merged(GetAll(idx), Upto(recs, n), GetAll(up[n]))
           Q == {n \in Nat : n <= N => Good(n)}
<1>3. Good(0)
  BY <1>2, UptoIs, MergedNone
<1>4. ASSUME NEW n \in Nat, n + 1 <= N, Good(n) PROVE Good(n + 1)
  <2>1. n + 1 \in 1 .. N /\ (n + 1) - 1 = n
    BY <1>4
  <2>2. PICK m : m = n + 1
    OBVIOUS
  <2>3. PICK b : b = up[n]
    OBVIOUS
  <2>4. PICK c : c = up[m]
    OBVIOUS
  <2>5. PICK r : r = recs[m]
    OBVIOUS
  <2>6. Whole(r) /\ c = UpsertOne(b, r)
    BY <1>1, <1>2, <2>1, <2>2, <2>3, <2>4, <2>5
  <2>7. Sound(b) /\ OnePathEach(GetAll(b)) /\ Merged(GetAll(idx), Upto(recs, n), GetAll(b))
    BY <1>4, <2>3
  <2>8. Sound(c) /\ Stored(GetAll(b), r, GetAll(c))
    BY <2>6, <2>7, UpsertOneIs
  <2>9. OnePathEach(GetAll(c))
    BY <2>7, <2>8, StoredApart
  <2>10. \A x \in Upto(recs, n) : x.path # r.path
    <3> SUFFICES ASSUME NEW j \in 1 .. n, recs[j].path = recs[m].path PROVE FALSE
      BY <2>5 DEF Upto
    <3>1. j \in 1 .. N /\ m \in 1 .. N /\ j # m
      BY <2>1, <2>2
    <3> QED BY <1>1, <3>1
  <2>11. Merged(GetAll(idx), Upto(recs, n) \cup {r}, GetAll(c))
    BY <2>7, <2>8, <2>10, MergedMore
  <2>12. Upto(recs, m) = Upto(recs, n) \cup {r}
    BY <2>2, <2>5, UptoIs
  <2> QED BY <2>2, <2>4, <2>8, <2>9, <2>11, <2>12
<1>5. N \in Q
  <2> HIDE DEF Good
  <2>1. 0 \in Q
    BY <1>3
  <2>2. ASSUME NEW n \in Nat, n \in Q PROVE n + 1 \in Q
    <3>1. n + 1 <= N => n <= N
      OBVIOUS
    <3> QED BY <1>4, <2>2, <3>1
  <2> HIDE DEF Q
  <2>3. Nat \subseteq Q
    BY <2>1, <2>2, Induct
  <2> QED BY <2>3
<1> QED BY <1>1, <1>2, <1>5

(* The batch stands behind the first l records.                            *)
Behind(t, l, recs) == \A j \in 1 .. Len(recs) : t[l + j] = recs[j]

(* A batch inserted stands behind what was there, which stays.             *)
LEMMA InsertBatchIs ==
  ASSUME NEW idx, Sound(idx), NEW recs, Len(recs) \in Nat,
         \A j \in 1 .. Len(recs) : Whole(recs[j]),
         NEW a, a = InsertBatch(idx, recs), NEW l \in Nat, l = Len(idx.recs)
  PROVE  /\ Sound(a) /\ Len(a.recs) = l + Len(recs)
         /\ \A k \in 1 .. l : GetAll(a)[k] = GetAll(idx)[k]
         /\ Behind(GetAll(a), l, recs)
<1>1. PICK N \in Nat : N = Len(recs)
  OBVIOUS
<1>2. PICK up : /\ up[0] = idx
                /\ \A n \in 1 .. N : up[n] = InsertOne(up[n - 1], recs[n])
                /\ InsertBatch(idx, recs) = up[N]
  <2>0. PICK w \in BOOLEAN : w = TRUE
    OBVIOUS
  <2>1. \E up : /\ up[0] = idx
                /\ \A n \in 1 .. Len(recs) :
                     up[n] = IF w THEN InsertOne(up[n - 1], recs[n]) ELSE UpsertOne(up[n - 1], recs[n])
                /\ (IF w THEN InsertBatch(idx, recs) ELSE UpsertBatch(idx, recs)) = up[Len(recs)]
    BY BatchRounds
  <2> QED BY <1>1, <2>0, <2>1
<1> DEFINE Good(n) == /\ Sound(up[n]) /\ Len(up[n].recs) = l + n
                      /\ \A k \in 1 .. l : GetAll(up[n])[k] = GetAll(idx)[k]
                      /\ \A j \in 1 .. n : GetAll(up[n])[l + j] = recs[j]
           Q == {n \in Nat : n <= N => Good(n)}
<1>3. Good(0)
  BY <1>2
<1>4. ASSUME NEW n \in Nat, n + 1 <= N, Good(n) PROVE Good(n + 1)
  <2>1. n + 1 \in 1 .. N /\ (n + 1) - 1 = n
    BY <1>4
  <2>2. PICK m : m = n + 1
    OBVIOUS
  <2>3. PICK b : b = up[n]
    OBVIOUS
  <2>4. PICK c : c = up[m]
    OBVIOUS
  <2>5. PICK r : r = recs[m]
    OBVIOUS
  <2>6. Whole(r) /\ c = InsertOne(b, r)
    BY <1>1, <1>2, <2>1, <2>2, <2>3, <2>4, <2>5
  <2>7. /\ Sound(b) /\ Len(b.recs) = l + n
        /\ \A k \in 1 .. l : GetAll(b)[k] = GetAll(idx)[k]
        /\ \A j \in 1 .. n : GetAll(b)[l + j] = recs[j]
    BY <1>4, <2>3
  <2>8. /\ Sound(c) /\ Len(c.recs) = Len(b.recs) + 1
        /\ \A k \in DOMAIN b.recs : GetAll(c)[k] = GetAll(b)[k]
        /\ GetAll(c)[Len(b.recs) + 1] = r
    <3>1. Sound(b) /\ Whole(r) /\ c = InsertOne(b, r)
      BY <2>6, <2>7
    <3>2. Sound(c) /\ Len(c.recs) = Len(b.recs) + 1
      BY ONLY <3>1, InsertOneIs
    <3>3. \A k \in DOMAIN b.recs : GetAll(c)[k] = GetAll(b)[k]
      BY ONLY <3>1, InsertOneIs
    <3>4. GetAll(c)[Len(b.recs) + 1] = r
      BY ONLY <3>1, InsertOneIs
    <3> QED BY <3>2, <3>3, <3>4
  <2>9. DOMAIN b.recs = 1 .. l + n
    BY <2>7, GetAllIs
  <2>10. (l + n) + 1 = l + m /\ \A k \in 1 .. l : k \in 1 .. l + n
    BY <2>2, FurtherOn
  <2>11. \A j \in 1 .. m : (j \in 1 .. n /\ l + j \in 1 .. l + n) \/ j = m
    BY <2>2, FurtherOn
  <2>12. \A k \in 1 .. l : GetAll(c)[k] = GetAll(idx)[k]
    BY <2>7, <2>8, <2>9, <2>10
  <2>13. GetAll(c)[l + m] = recs[m]
    BY <2>5, <2>7, <2>8, <2>10
  <2>14. \A j \in 1 .. m : GetAll(c)[l + j] = recs[j]
    BY <2>7, <2>8, <2>9, <2>11, <2>13
  <2>15. Len(c.recs) = l + m
    BY <2>7, <2>8, <2>10
  <2> QED BY <2>2, <2>4, <2>8, <2>12, <2>14, <2>15
<1>5. N \in Q
  <2> HIDE DEF Good
  <2>1. 0 \in Q
    BY <1>3
  <2>2. ASSUME NEW n \in Nat, n \in Q PROVE n + 1 \in Q
    <3>1. n + 1 <= N => n <= N
      OBVIOUS
    <3> QED BY <1>4, <2>2, <3>1
  <2> HIDE DEF Q
  <2>3. Nat \subseteq Q
    BY <2>1, <2>2, Induct
  <2> QED BY <2>3
<1> QED BY <1>1, <1>2, <1>5 DEF Behind

(* Every record changed by a function that leaves paths alone.             *)
LEMMA ForEachIs ==
  ASSUME NEW idx, Sound(idx), NEW change,
         \A x \in Range(GetAll(idx)) : Whole(change[x]) /\ change[x].path = x.path,
         NEW a, a = ForEach(idx, change)
  PROVE  /\ Sound(a) /\ DOMAIN GetAll(a) = DOMAIN GetAll(idx)
         /\ \A k \in DOMAIN GetAll(idx) : GetAll(a)[k] = change[GetAll(idx)[k]]
<1>1. PICK R : R = idx.recs
  OBVIOUS
<1>2. PICK z : z = [k \in DOMAIN R |-> Packed(change[Unpacked(idx, R[k])], R[k].folder, R[k].name)]
  OBVIOUS
<1>3. a = [folders |-> idx.folders, names |-> idx.names, recs |-> z]
  BY <1>1, <1>2 DEF ForEach, Sound
<1>4. a.folders = idx.folders /\ a.names = idx.names /\ a.recs = z
  BY <1>3
<1>5. /\ DOMAIN GetAll(idx) = DOMAIN R /\ DOMAIN R = 1 .. Len(R) /\ Len(R) \in Nat
      /\ \A k \in DOMAIN R : GetAll(idx)[k] = Unpacked(idx, R[k]) /\ PathAt(idx, R[k]) = GetAll(idx)[k].path
  BY <1>1, GetAllIs
<1>6. ASSUME NEW k \in DOMAIN R
      PROVE  Lies(a, z[k]) /\ Unpacked(a, z[k]) = change[GetAll(idx)[k]]
  <2>1. PICK x : x = GetAll(idx)[k]
    OBVIOUS
  <2>2. PICK y : y = change[x]
    OBVIOUS
  <2>3. Whole(y) /\ y.path = x.path
    BY <1>5, <2>1, <2>2 DEF Range
  <2>4. PICK c : c = R[k]
    OBVIOUS
  <2>5. PICK d : d = Packed(y, c.folder, c.name)
    OBVIOUS
  <2>6. z[k] = d
    BY <1>2, <1>5, <2>1, <2>2, <2>4, <2>5
  <2>7. c.folder \in DOMAIN idx.folders /\ c.name \in DOMAIN idx.names
    BY <1>1, <2>4 DEF Sound, Lies
  <2>8. /\ d.folder = c.folder /\ d.name = c.name /\ d = Packed(d, d.folder, d.name)
        /\ d.id = y.id /\ d.size = y.size /\ d.used = y.used /\ d.changed = y.changed /\ d.unit = y.unit
        /\ d.cat = y.cat /\ d.safety = y.safety /\ d.decision = y.decision
    BY <2>5 DEF Packed
  <2>9. Lies(a, d)
    BY <1>4, <2>7, <2>8 DEF Lies
  <2>10. PathAt(a, d) = PathAt(idx, c)
    BY <1>4, <2>8 DEF PathAt
  <2>11. PathAt(a, d) = y.path
    BY <1>5, <2>1, <2>3, <2>4, <2>10
  <2>12. Unpacked(a, d) = y
    <3>1. Unpacked(a, d) = [id |-> y.id, path |-> y.path, size |-> y.size, used |-> y.used, changed |-> y.changed,
          unit |-> y.unit, cat |-> y.cat, safety |-> y.safety, decision |-> y.decision]
      BY <2>8, <2>11 DEF Unpacked
    <3> QED BY <2>3, <3>1 DEF Whole
  <2> QED BY <2>1, <2>2, <2>6, <2>9, <2>12
<1>7. Sound(a)
  <2>1. z \in Seq(Range(z))
    <3>1. z = [k \in 1 .. Len(R) |-> z[k]]
      BY <1>2, <1>5
    <3>2. \A k \in 1 .. Len(R) : z[k] \in Range(z)
      BY <1>2, <1>5 DEF Range
    <3> QED BY <1>5, <3>1, <3>2
  <2>2. \A k \in DOMAIN z : Lies(a, z[k])
    BY <1>2, <1>6
  <2>3. a = [folders |-> a.folders, names |-> a.names, recs |-> a.recs]
    BY <1>3
  <2> QED BY <1>4, <2>1, <2>2, <2>3 DEF Sound
<1>8. DOMAIN GetAll(a) = DOMAIN R /\ \A k \in DOMAIN R : GetAll(a)[k] = Unpacked(a, z[k])
  BY <1>2, <1>4 DEF GetAll
<1> QED BY <1>5, <1>6, <1>7, <1>8

(* Judging changes what a record is filed under and nothing else.          *)
LEMMA JudgedIs ==
  ASSUME NEW s, NEW r, Whole(r), NEW clear, NEW j, j = Judged(s, r, clear)
  PROVE  /\ Whole(j) /\ j.path = r.path /\ j.id = r.id /\ j.size = r.size /\ j.used = r.used
         /\ j.changed = r.changed /\ j.unit = r.unit /\ j.decision = r.decision
         /\ r.decision = "keep" => j = r
<1>1. \/ j = r
      \/ r.decision # "keep" /\ \E c, f : j = [r EXCEPT !.cat = c, !.safety = f]
  BY DEF Judged, Primary, Cleared
<1>2. ASSUME NEW c, NEW f, j = [r EXCEPT !.cat = c, !.safety = f]
      PROVE  /\ Whole(j) /\ j.path = r.path /\ j.id = r.id /\ j.size = r.size /\ j.used = r.used
             /\ j.changed = r.changed /\ j.unit = r.unit /\ j.decision = r.decision
  <2>1. j = [id |-> r.id, path |-> r.path, size |-> r.size, used |-> r.used, changed |-> r.changed,
             unit |-> r.unit, cat |-> c, safety |-> f, decision |-> r.decision]
    BY <1>2 DEF Whole
  <2> QED BY <2>1 DEF Whole
<1> QED BY <1>1, <1>2

(* A sequence of whole records.                                            *)
WholeAll(recs) == /\ Len(recs) \in Nat /\ DOMAIN recs = 1 .. Len(recs)
                  /\ recs \in Seq(Range(recs))
                  /\ \A j \in 1 .. Len(recs) : Whole(recs[j])

(* What categorising makes of a record.                                    *)
Filed(s, r) == Judged(s, r, FALSE)

(* The detectors' answers to a batch: the records they file, filed, with
   different paths.                                                        *)
LEMMA CategorisedIs ==
  ASSUME NEW s, NEW recs, WholeAll(recs), OnePathEach(recs), NEW c, c = Categorised(s, recs)
  PROVE  /\ WholeAll(c) /\ OnePathEach(c)
         /\ \A j \in DOMAIN c : \E k \in DOMAIN recs : c[j] = Filed(s, recs[k])
         /\ \A k \in DOMAIN recs : Filed(s, recs[k]) # recs[k] => Filed(s, recs[k]) \in Range(c)
<1>1. PICK J : J = [k \in DOMAIN recs |-> Filed(s, recs[k])]
  OBVIOUS
<1>2. c = Only(J, Range(J) \ Range(recs))
  BY <1>1 DEF Categorised, Filed
<1>3. DOMAIN J = DOMAIN recs /\ \A k \in DOMAIN recs : J[k] = Filed(s, recs[k])
  BY <1>1
<1>4. ASSUME NEW k \in DOMAIN recs
      PROVE  Whole(J[k]) /\ J[k].path = recs[k].path
  <2>1. PICK r : r = recs[k]
    OBVIOUS
  <2>2. PICK j : j = Filed(s, r)
    OBVIOUS
  <2>3. Whole(r)
    BY <2>1 DEF WholeAll
  <2>4. Whole(j) /\ j.path = r.path
    <3>1. PICK w : w = FALSE
      OBVIOUS
    <3>2. j = Judged(s, r, w)
      BY <2>2, <3>1 DEF Filed
    <3> QED BY ONLY <2>3, <3>2, JudgedIs
  <2> QED BY <1>3, <2>1, <2>2, <2>4
<1>5. J \in Seq(Range(J))
  <2>1. DOMAIN J = 1 .. Len(recs) /\ Len(recs) \in Nat /\ \A k \in 1 .. Len(recs) : J[k] \in Range(J)
    BY <1>3 DEF WholeAll, Range
  <2>2. J = [k \in 1 .. Len(recs) |-> J[k]]
    BY <1>1, <2>1
  <2> QED BY <2>1, <2>2
<1>6. OnePathEach(J)
  BY <1>3, <1>4 DEF OnePathEach
<1>7. Apart(J)
  BY <1>6 DEF Apart, OnePathEach
<1>8. PICK S : S = Range(J) \ Range(recs)
  OBVIOUS
<1>9. c \in Seq(Range(J)) /\ Range(c) = Range(J) \cap S /\ Apart(c)
  <2>1. c = Only(J, S)
    BY <1>2, <1>8
  <2> QED BY <1>5, <1>7, <2>1, OnlyIs
<1>10. Len(c) \in Nat /\ DOMAIN c = 1 .. Len(c)
  BY <1>9, LenProperties
<1>11. \A j \in DOMAIN c : c[j] \in Range(c)
  BY DEF Range
<1>12. \A j \in DOMAIN c : \E k \in DOMAIN recs : c[j] = J[k]
  BY <1>3, <1>9, <1>11 DEF Range
<1>13. c \in Seq(Range(c))
  <2>1. c = [j \in 1 .. Len(c) |-> c[j]]
    BY <1>9, <1>10
  <2> QED BY <1>10, <1>11, <2>1
<1>14. WholeAll(c)
  <2>1. \A j \in 1 .. Len(c) : Whole(c[j])
    BY <1>4, <1>10, <1>12
  <2> QED BY <1>10, <1>13, <2>1 DEF WholeAll
<1>15. OnePathEach(c)
  <2> SUFFICES ASSUME NEW i \in DOMAIN c, NEW j \in DOMAIN c, c[i].path = c[j].path PROVE i = j
    BY DEF OnePathEach
  <2>1. PICK k \in DOMAIN recs : c[i] = J[k]
    BY <1>12
  <2>2. PICK l \in DOMAIN recs : c[j] = J[l]
    BY <1>12
  <2>3. k = l
    BY <1>3, <1>6, <2>1, <2>2 DEF OnePathEach
  <2> QED BY <1>9, <2>1, <2>2, <2>3 DEF Apart
<1>16. ASSUME NEW k \in DOMAIN recs, J[k] # recs[k] PROVE J[k] \in Range(c)
  <2>1. J[k] \notin Range(recs)
    <3> SUFFICES ASSUME NEW l \in DOMAIN recs, J[k] = recs[l] PROVE FALSE
      BY DEF Range
    <3>1. recs[l].path = recs[k].path
      BY <1>4
    <3> QED BY <1>16, <3>1 DEF OnePathEach
  <2>2. J[k] \in Range(J)
    BY <1>3 DEF Range
  <2> QED BY <1>8, <1>9, <2>1, <2>2
<1> QED BY <1>3, <1>12, <1>14, <1>15, <1>16

(* A place among l + n is among the first l or one of the n behind ...     *)
LEMMA TwoParts ==
  ASSUME NEW l \in Nat, NEW n \in Nat, NEW k \in 1 .. l + n
  PROVE  k \in 1 .. l \/ \E j \in 1 .. n : k = l + j
<1>1. CASE k > l
  <2>1. k - l \in 1 .. n /\ k = l + (k - l)
    BY <1>1
  <2> QED BY <2>1
<1>2. CASE ~(k > l)
  BY <1>2
<1> QED BY <1>1, <1>2

(* ... and these are not among the first l, and different.                 *)
LEMMA PartsIn ==
  ASSUME NEW l \in Nat, NEW n \in Nat
  PROVE  /\ \A k \in 1 .. l : k \in 1 .. l + n
         /\ \A j \in 1 .. n : l + j \in 1 .. l + n /\ l + j \notin 1 .. l
         /\ \A i, j \in 1 .. n : l + i = l + j => i = j
OBVIOUS

(* The batch behind the first l records, filed; a sequence of m; the
   first l unchanged.                                                      *)
FiledAt(w, recs, l, n, t) == \A j \in 1 .. n : t[l + j] = Filed(w, recs[j])

Holding(t, m) == DOMAIN t = 1 .. m

InPlace(s, l, t) == \A k \in 1 .. l : t[k] = s[k]

(* A batch inserted and then what was judged upserted: the judged records
   at the end.                                                             *)
LEMMA BatchTaken ==
  ASSUME NEW idx, Sound(idx), OnePathEach(GetAll(idx)), NEW recs, WholeAll(recs), OnePathEach(recs),
         \A k \in DOMAIN GetAll(idx) : \A j \in DOMAIN recs : GetAll(idx)[k].path # recs[j].path,
         NEW s, NEW a, a = UpsertBatch(InsertBatch(idx, recs), Categorised(s, recs)),
         NEW l \in Nat, l = Len(idx.recs), NEW n \in Nat, n = Len(recs)
  PROVE  /\ Sound(a) /\ OnePathEach(GetAll(a)) /\ Holding(GetAll(a), l + n)
         /\ InPlace(GetAll(idx), l, GetAll(a))
         /\ FiledAt(s, recs, l, n, GetAll(a))
<1>1. PICK b : b = InsertBatch(idx, recs)
  OBVIOUS
<1>2. PICK c : c = Categorised(s, recs)
  OBVIOUS
<1>3. PICK g : g = GetAll(idx)
  OBVIOUS
<1>4. PICK h : h = GetAll(b)
  OBVIOUS
<1>5. PICK t : t = GetAll(a)
  OBVIOUS
<1>6. PICK J : J = [j \in 1 .. n |-> Filed(s, recs[j])]
  OBVIOUS
<1>7. /\ WholeAll(recs) /\ DOMAIN recs = 1 .. n /\ Len(recs) = n
      /\ \A j \in 1 .. n : Whole(recs[j]) /\ J[j] = Filed(s, recs[j])
  BY <1>6 DEF WholeAll
<1>8. DOMAIN g = 1 .. l
  BY <1>3, GetAllIs
<1>9. /\ Sound(b) /\ Len(b.recs) = l + n
      /\ \A k \in 1 .. l : h[k] = g[k]
      /\ \A j \in 1 .. n : h[l + j] = recs[j]
  <2>1. /\ Sound(idx) /\ Len(recs) \in Nat /\ (\A j \in 1 .. Len(recs) : Whole(recs[j]))
        /\ b = InsertBatch(idx, recs) /\ l = Len(idx.recs)
    BY <1>1, <1>7
  <2>2. Sound(b)
    BY ONLY <2>1, InsertBatchIs
  <2>3. Len(b.recs) = l + Len(recs)
    BY ONLY <2>1, InsertBatchIs
  <2>4. \A k \in 1 .. l : GetAll(b)[k] = GetAll(idx)[k]
    BY ONLY <2>1, InsertBatchIs
  <2>5. \A j \in 1 .. Len(recs) : GetAll(b)[l + j] = recs[j]
    <3>1. Behind(GetAll(b), l, recs)
      BY ONLY <2>1, InsertBatchIs
    <3> QED BY <3>1 DEF Behind
  <2> QED BY <1>3, <1>4, <1>7, <2>2, <2>3, <2>4, <2>5
<1>10. DOMAIN h = 1 .. l + n
  <2>1. DOMAIN h = 1 .. Len(b.recs)
    BY <1>4, <1>9, GetAllIs
  <2> QED BY <1>9, <2>1
<1>11. /\ \A k \in 1 .. l + n : k \in 1 .. l \/ \E j \in 1 .. n : k = l + j
       /\ \A k \in 1 .. l : k \in 1 .. l + n
       /\ \A j \in 1 .. n : l + j \in 1 .. l + n /\ l + j \notin 1 .. l
  BY ONLY TwoParts, PartsIn
<1>12. \A k \in 1 .. l : \A j \in 1 .. n : g[k].path # recs[j].path
  BY <1>3, <1>7, <1>8
<1>13. OnePathEach(h)
  <2> SUFFICES ASSUME NEW i \in 1 .. l + n, NEW j \in 1 .. l + n, h[i].path = h[j].path PROVE i = j
    BY <1>10 DEF OnePathEach
  <2>1. \A x, y \in 1 .. l : g[x].path = g[y].path => x = y
    BY <1>3, <1>8 DEF OnePathEach
  <2>2. \A x, y \in 1 .. n : recs[x].path = recs[y].path => x = y
    BY <1>7 DEF OnePathEach
  <2>3. CASE i \in 1 .. l /\ j \in 1 .. l
    BY <1>9, <2>1, <2>3
  <2>4. ASSUME NEW x \in 1 .. n, i = l + x, NEW y \in 1 .. n, j = l + y PROVE i = j
    BY <1>9, <2>2, <2>4
  <2>5. ASSUME i \in 1 .. l, NEW y \in 1 .. n, j = l + y PROVE i = j
    BY <1>9, <1>12, <2>5
  <2>6. ASSUME j \in 1 .. l, NEW x \in 1 .. n, i = l + x PROVE i = j
    BY <1>9, <1>12, <2>6
  <2>7. /\ i \in 1 .. l \/ \E x \in 1 .. n : i = l + x
        /\ j \in 1 .. l \/ \E y \in 1 .. n : j = l + y
    BY <1>11
  <2>8. CASE i \in 1 .. l
    BY <2>3, <2>5, <2>7, <2>8
  <2>9. CASE \E x \in 1 .. n : i = l + x
    BY <2>4, <2>6, <2>7, <2>9
  <2> QED BY <2>7, <2>8, <2>9
<1>14. /\ WholeAll(c) /\ OnePathEach(c)
       /\ \A j \in DOMAIN c : \E k \in 1 .. n : c[j] = J[k]
       /\ \A k \in 1 .. n : J[k] # recs[k] => J[k] \in Range(c)
  <2>0. PICK w : w = FALSE
    OBVIOUS
  <2>1. WholeAll(recs) /\ OnePathEach(recs) /\ c = Categorised(s, recs)
    BY <1>2
  <2>2. /\ WholeAll(c) /\ OnePathEach(c)
    BY ONLY <2>1, CategorisedIs
  <2>3. \A j \in DOMAIN c : \E k \in DOMAIN recs : c[j] = Filed(s, recs[k])
    BY ONLY <2>1, CategorisedIs
  <2>4. \A k \in DOMAIN recs : Filed(s, recs[k]) # recs[k] => Filed(s, recs[k]) \in Range(c)
    BY <2>1, CategorisedIs, Zenon
  <2> QED BY <1>7, <2>2, <2>3, <2>4
<1>15. /\ Sound(a) /\ OnePathEach(t) /\ Merged(h, Upto(c, Len(c)), t)
  <2>1. /\ Len(c) \in Nat /\ (\A j \in 1 .. Len(c) : Whole(c[j]))
        /\ \A i, j \in 1 .. Len(c) : c[i].path = c[j].path => i = j
    BY <1>14 DEF WholeAll, OnePathEach
  <2>2. OnePathEach(GetAll(b)) /\ Sound(b) /\ a = UpsertBatch(b, c)
    BY <1>1, <1>2, <1>4, <1>9, <1>13
  <2>3. Sound(a) /\ OnePathEach(GetAll(a)) /\ Merged(GetAll(b), Upto(c, Len(c)), GetAll(a))
    BY ONLY <2>1, <2>2, UpsertBatchIs
  <2> QED BY <1>4, <1>5, <2>3
<1>16. PICK C : C = Upto(c, Len(c))
  OBVIOUS
<1>17. C = Range(c)
  BY <1>14, <1>16 DEF Upto, Range, WholeAll
<1>18. \A x \in C : \E k \in 1 .. n : x = J[k]
  BY <1>14, <1>17 DEF Range
<1>19. \A k \in 1 .. n : J[k].path = recs[k].path
  <2> SUFFICES ASSUME NEW k \in 1 .. n PROVE J[k].path = recs[k].path
    OBVIOUS
  <2>1. PICK w : w = FALSE
    OBVIOUS
  <2>2. PICK r, j : r = recs[k] /\ j = Filed(s, r)
    OBVIOUS
  <2>3. Whole(r)
    BY <1>7, <2>2
  <2>4. j.path = r.path
    <3>1. j = Judged(s, r, w)
      BY <2>1, <2>2 DEF Filed
    <3> QED BY ONLY <3>1, <2>3, JudgedIs
  <2> QED BY <1>7, <2>1, <2>2, <2>4
<1>20. Merged(h, C, t)
  BY <1>15, <1>16
<1>21. \A x \in C : \A k \in 1 .. n : x.path = recs[k].path => x = J[k]
  <2> SUFFICES ASSUME NEW x \in C, NEW k \in 1 .. n, x.path = recs[k].path PROVE x = J[k]
    OBVIOUS
  <2>1. PICK i \in 1 .. n : x = J[i]
    BY <1>18
  <2>2. recs[i].path = recs[k].path
    BY <1>19, <2>1
  <2> QED BY <1>7, <2>1, <2>2 DEF OnePathEach
<1>22. \A k \in DOMAIN h : k \in DOMAIN t /\ t[k].path = h[k].path
  BY <1>20 DEF Merged
<1>23. ASSUME NEW k \in 1 .. l PROVE t[k] = g[k]
  <2>1. k \in DOMAIN h /\ h[k] = g[k]
    BY <1>9, <1>10, <1>11
  <2>2. t[k] \notin C
    BY <1>12, <1>18, <1>19, <1>22, <2>1
  <2> QED BY <1>20, <1>22, <2>1, <2>2 DEF Merged
<1>24. ASSUME NEW j \in 1 .. n PROVE t[l + j] = J[j]
  <2>1. PICK k : k = l + j
    OBVIOUS
  <2>2. k \in DOMAIN h /\ h[k] = recs[j]
    BY <1>9, <1>10, <1>11, <2>1
  <2>3. t[k].path = recs[j].path /\ k \in DOMAIN t
    BY <1>22, <2>2
  <2>4. CASE t[k] \in C
    BY <1>21, <2>1, <2>3, <2>4
  <2>5. CASE t[k] \notin C
    <3>1. t[k] = recs[j]
      BY <1>20, <2>2, <2>3, <2>5 DEF Merged
    <3>2. J[j] \notin C
      <4>1. J[j] \in C => t[k] \in C
        BY <1>19, <1>20, <2>2 DEF Merged
      <4> QED BY <2>5, <4>1
    <3>3. J[j] = recs[j]
      BY <1>14, <1>17, <3>2
    <3> QED BY <2>1, <3>1, <3>3
  <2> QED BY <2>4, <2>5
<1>25. DOMAIN t = 1 .. l + n
  <2>1. ASSUME NEW k \in DOMAIN t PROVE k \in DOMAIN h
    <3>1. CASE t[k] \in C
      <4>1. PICK j \in 1 .. n : t[k] = J[j]
        BY <1>18, <3>1
      <4>2. PICK m : m = l + j
        OBVIOUS
      <4>3. m \in DOMAIN h /\ h[m] = recs[j]
        BY <1>9, <1>10, <1>11, <4>2
      <4>4. m \in DOMAIN t /\ t[m].path = t[k].path
        BY <1>19, <1>22, <4>1, <4>3
      <4>5. m = k
        BY <1>15, <4>4 DEF OnePathEach
      <4> QED BY <4>3, <4>5
    <3>2. CASE t[k] \notin C
      BY <1>20, <3>2 DEF Merged
    <3> QED BY <3>1, <3>2
  <2> QED BY <1>10, <1>22, <2>1
<1> QED BY <1>3, <1>5, <1>7, <1>15, <1>23, <1>24, <1>25 DEF FiledAt, InPlace, Holding

-----------------------------------------------------------------------------
(* The folders collected and the groups of units.                          *)

(* The paths.                                                              *)
PathSet == {p \in Seq(Words) : p # <<>>}

(* The image of a finite set is finite.                                    *)
LEMMA FiniteImage ==
  ASSUME NEW S, IsFiniteSet(S), NEW h
  PROVE  IsFiniteSet({h[x] : x \in S})
<1> DEFINE T == {h[x] : x \in S}
           g == [x \in S |-> h[x]]
<1>1. g \in [S -> T] /\ \A y \in T : \E x \in S : g[x] = y
  OBVIOUS
<1>2. g \in Surjection(S, T)
  BY <1>1 DEF Surjection
<1> QED BY <1>2, FS_Surjection

(* The folders collected are finitely many paths.                          *)
DirsOK == IsFiniteSet(dirs) /\ dirs \subseteq PathSet

(* A record's path is a path.                                              *)
LEMMA PathToIn ==
  ASSUME NEW v, Disk(v), NEW k \in Reach(v) \cup {0}
  PROVE  PathTo(v, k) \in PathSet
<1>1. CASE k = 0
  <2>1. PathTo(v, k) = <<v>> /\ v \in Words
    BY <1>1, PathToRoot, DiskIs
  <2>2. <<v>> \in Seq(Words) /\ <<v>> # <<>>
    BY <2>1
  <2> QED BY <2>1, <2>2 DEF PathSet
<1>2. CASE k \in Reach(v)
  <2>1. PathTo(v, k) = Append(PathTo(v, Parent(v, k)), Table(v)[k].name) /\ PathTo(v, Parent(v, k)) \in Seq(Words) /\ PathTo(v, k) \in Seq(Words)
    BY <1>2, PathToIs
  <2>2. PICK p, x : p \in Seq(Words) /\ PathTo(v, k) = Append(p, x)
    BY <2>1
  <2>3. Append(p, x) # <<>>
    BY <2>2
  <2> QED BY <2>1, <2>2, <2>3 DEF PathSet
<1> QED BY <1>1, <1>2

(* The folders of a file table are finitely many paths.                    *)
LEMMA TableFoldersIs ==
  ASSUME NEW v, Disk(v), ByTable(v)
  PROVE  IsFiniteSet(TableFolders(v)) /\ TableFolders(v) \subseteq PathSet
<1>1. PICK g : g = FolderRecords(v)
  OBVIOUS
<1>2. PICK K : K = DOMAIN g
  OBVIOUS
<1>3. K \subseteq DOMAIN Table(v) /\ \A k \in K : g[k] = Table(v)[k]
  BY <1>1, <1>2 DEF FolderRecords, Readable
<1>4. IsFiniteSet(K)
  <2>1. PICK n \in Nat : DOMAIN Table(v) = 1 .. n
    BY DiskIs
  <2>2. IsFiniteSet(1 .. n)
    <3>1. 1 \in Int /\ n \in Int
      OBVIOUS
    <3> QED BY <3>1, FS_Interval
  <2> QED BY <1>3, <2>1, <2>2, FS_Subset
<1>5. PICK h : h = [k \in K |-> FullPath(v, g, g[k])]
  OBVIOUS
<1>6. TableFolders(v) = ({<<v>>} \cup {h[k] : k \in K}) \ {NoPath}
  BY <1>1, <1>2, <1>5 DEF TableFolders
<1>7. IsFiniteSet(TableFolders(v))
  <2>1. IsFiniteSet({h[k] : k \in K})
    BY <1>4, FiniteImage
  <2>2. IsFiniteSet({<<v>>} \cup {h[k] : k \in K})
    BY <2>1, FS_Singleton, FS_Union
  <2> QED BY <1>6, <2>2, FS_Subset
<1>8. ASSUME NEW k \in K, h[k] # NoPath PROVE h[k] \in PathSet
  <2>1. PICK ref, p, x : ref = Table(v)[k].parent /\ p = Resolve(v, g, ref) /\ x = Table(v)[k].name
    OBVIOUS
  <2>2. h[k] = Below(p, x) /\ x \in Words
    BY <1>3, <1>5, <2>1, DiskIs DEF FullPath
  <2>3. p # NoPath /\ h[k] = Append(p, x)
    BY <1>8, <2>2, BelowIs
  <2>4. p = PathTo(v, ref) /\ ref \in {0} \cup Entered(v)
    BY <1>1, <2>1, <2>3, TableResolves
  <2>5. p \in PathSet
    BY <2>4, PathToIn DEF Entered
  <2> QED BY <2>2, <2>3, <2>5, JoinPath DEF PathSet
<1>9. <<v>> \in PathSet
  BY PathToRoot, PathToIn
<1> QED BY <1>6, <1>7, <1>8, <1>9

(* Collecting finitely many paths keeps DirsOK.                            *)
LEMMA DirsMore ==
  ASSUME DirsOK, NEW v, NEW S, IsFiniteSet(S), S \subseteq PathSet, dirs' = dirs \cup Collected(v, S)
  PROVE  DirsOK'
<1>1. Collected(v, S) \subseteq S
  BY DEF Collected
<1>2. IsFiniteSet(Collected(v, S))
  BY <1>1, FS_Subset
<1>3. IsFiniteSet(dirs \cup Collected(v, S)) /\ dirs \cup Collected(v, S) \subseteq PathSet
  BY <1>1, <1>2, FS_Union DEF DirsOK
<1>4. PathSet' = PathSet
  BY DEF PathSet
<1> QED BY <1>3 DEF DirsOK

(* What an entry resolves to is a path.                                    *)
LEMMA SiftPathIn ==
  ASSUME NEW v, Disk(v), ~ByTable(v), NEW node, WalkTypes, Tree(v, node), 0 \in Given, NEW c \in Given,
         NEW path, path = IF entries[c + 1].ref = 0 THEN <<v>> ELSE FullPath(v, FolderEntries, entries[c + 1]),
         path # NoPath
  PROVE  path \in PathSet
<1>1. PathTo(v, 0) = <<v>>
  BY PathToRoot
<1>2. CASE entries[c + 1].ref = 0
  BY <1>1, <1>2, PathToIn
<1>3. CASE entries[c + 1].ref # 0
  <2>1. c # 0
    <3>1. entries[0 + 1] = Root
      BY TreeIs
    <3> QED BY <1>3, <3>1, RootFields
  <2>2. path = IF Depth(v, Parent(v, node[c])) <= MaxDepth THEN PathTo(v, node[c]) ELSE NoPath
    BY <1>3, <2>1, EntriesResolve
  <2>3. node[c] \in Reach(v)
    BY <2>1, EntryIn
  <2> QED BY <2>2, <2>3, PathToIn
<1> QED BY <1>2, <1>3

(* An entry of the walk keeps the folders finitely many paths.             *)
LEMMA SiftDirs ==
  ASSUME NEW v, NEW node, NEW got, Delivery(v, node, got), DirsOK, Sift
  PROVE  DirsOK'
<1>1. at = "sift" /\ cursor < Len(entries)
  BY DEF Sift
<1>2. Disk(v) /\ v = Letter /\ ~ByTable(v) /\ cursor \in Nat /\ WalkTypes /\ Tree(v, node)
  BY <1>1, AtWork DEF Delivery, Placed, Walked, Working, SessionTypes
<1>3. PICK n \in Nat : n = Len(entries)
  BY <1>2, GivenIs
<1>4. PICK c \in Nat : c = cursor
  BY <1>2
<1>5. c \in Given /\ 0 \in Given
  <2>1. Given = 0 .. n - 1 /\ c < n
    BY <1>1, <1>3, <1>4 DEF Given
  <2>2. 0 \in 0 .. n - 1
    BY <2>1
  <2> QED BY <2>1, <2>2, GivenBelow
<1>6. PICK path : /\ path = IF entries[c + 1].ref = 0 THEN <<v>> ELSE FullPath(v, FolderEntries, entries[c + 1])
                  /\ dirs' = dirs \/ dirs' = dirs \cup Collected(v, {path} \ {NoPath})
  BY <1>2, <1>4 DEF Sift
<1>7. CASE dirs' = dirs
  BY <1>7 DEF DirsOK, PathSet
<1>8. CASE dirs' = dirs \cup Collected(v, {path} \ {NoPath})
  <2>1. PICK S : S = {path} \ {NoPath}
    OBVIOUS
  <2>2. S = {} \/ (S = {path} /\ path # NoPath)
    BY <2>1
  <2>3. IsFiniteSet(S)
    BY <2>2, FS_EmptySet, FS_Singleton
  <2>4. S \subseteq PathSet
    BY <1>2, <1>5, <1>6, <2>2, SiftPathIn
  <2> QED BY <1>8, <2>1, <2>3, <2>4, DirsMore
<1> QED BY <1>6, <1>7, <1>8

(* So does the first pass over a file table ...                            *)
LEMMA PassOneDirs ==
  ASSUME NEW v, NEW node, NEW got, Delivery(v, node, got), DirsOK, PassOne
  PROVE  DirsOK'
<1>1. at = "pass 1" /\ (dirs' = dirs \/ dirs' = dirs \cup Collected(Letter, TableFolders(Letter)))
  BY DEF PassOne
<1>2. Disk(v) /\ v = Letter /\ ByTable(v)
  BY <1>1, AtWork DEF Delivery, Placed, Working
<1>3. CASE dirs' = dirs
  BY <1>3 DEF DirsOK, PathSet
<1>4. CASE dirs' = dirs \cup Collected(v, TableFolders(v))
  <2>1. PICK S : S = TableFolders(v)
    OBVIOUS
  <2> QED BY <1>2, <1>4, <2>1, TableFoldersIs, DirsMore
<1> QED BY <1>1, <1>2, <1>3, <1>4

(* ... and every step of the scan.                                         *)
LEMMA StepDirs ==
  ASSUME NEW v, NEW node, NEW got, Delivery(v, node, got), DirsOK,
         SessionStep \/ Stop \/ \E w \in Worker : WorkerStep(w)
  PROVE  DirsOK'
<1>1. CASE Sift
  BY <1>1, SiftDirs
<1>2. CASE PassOne
  BY <1>2, PassOneDirs
<1>3. CASE dirs' = dirs
  BY <1>3 DEF DirsOK, PathSet
<1>4. CASE Stop
  BY <1>3, <1>4 DEF Stop, find
<1>5. CASE \E w \in Worker : WorkerStep(w)
  BY <1>3, <1>5 DEF WorkerStep, Take, Open, Share, Leave, GoHome, find
<1>6. CASE NextVolume \/ VolumeFails \/ EndVolume \/ Joined
  BY <1>3, <1>6 DEF NextVolume, VolumeFails, EndVolume, Joined, find, Fails
<1>7. CASE EndSift \/ Push \/ Finish \/ ReadFails
  BY <1>3, <1>7 DEF EndSift, Push, Finish, ReadFails, find, Fails
<1> QED BY <1>1, <1>2, <1>4, <1>5, <1>6, <1>7 DEF SessionStep

(* The outermost folder of a name on a path is a path or none.             *)
LEMMA OutermostIs ==
  ASSUME NEW p \in Seq(Words), NEW names
  PROVE  Outermost(p, names) \in PathSet \cup {NoPath}
<1> DEFINE T == {k \in 2 .. Len(p) : p[k] \in names}
<1>1. CASE T = {}
  BY <1>1 DEF Outermost
<1>2. CASE T # {}
  <2>1. T \subseteq Nat
    OBVIOUS
  <2>2. PICK n \in T : \A m \in T : n <= m
    BY <1>2, <2>1, Least
  <2>3. Min(T) \in T
    BY <2>2 DEF Min
  <2>4. PICK m \in 2 .. Len(p) : m = Min(T)
    BY <2>3
  <2>5. Outermost(p, names) = SubSeq(p, 1, m)
    BY <1>2, <2>4 DEF Outermost
  <2>6. SubSeq(p, 1, m) \in Seq(Words) /\ Len(SubSeq(p, 1, m)) = m
    BY SubSeqProperties
  <2>7. SubSeq(p, 1, m) # <<>>
    BY <2>6
  <2> QED BY <2>5, <2>6, <2>7 DEF PathSet
<1> QED BY <1>1, <1>2

(* So is what the detectors of folders confirm.                            *)
LEMMA RootsIn ==
  ASSUME NEW p \in Seq(Words), NEW paths
  PROVE  /\ ModulesRoot(paths, p) \in PathSet \cup {NoPath}
         /\ BuildRoot(paths, p) \in PathSet \cup {NoPath}
         /\ UnityRoot(paths, p) \in PathSet \cup {NoPath}
BY OutermostIs DEF ModulesRoot, BuildRoot, UnityRoot

(* The category a folder detector's units have.                            *)
Promised(ns) == IF ns \in DOMAIN CategoryOf THEN CategoryOf[ns] ELSE "dev_artifacts"

(* A unit of folders as it is offered.                                     *)
Unitary(u) ==
  /\ Whole(u) /\ u.unit = "folder" /\ u.decision = "undecided"
  /\ u.id = <<u.id[1], u.path>> /\ u.cat = Promised(u.id[1])

(* Folder units of some detectors, one for a path.                         *)
Group(U, N) ==
  /\ IsFiniteSet(U)
  /\ \A u \in U : Unitary(u) /\ u.id[1] \in N
  /\ \A u, w \in U : u.path = w.path => u = w

(* A unit is a folder record of its detector and path.                     *)
LEMMA UnitIs ==
  ASSUME NEW ns, NEW path \in PathSet, NEW size, NEW safety, NEW u, u = Unit(ns, path, size, Promised(ns), safety)
  PROVE  Unitary(u) /\ u.id[1] = ns /\ u.path = path
<1>1. PICK cat : cat = Promised(ns)
  OBVIOUS
<1>2. u = [id |-> <<ns, path>>, path |-> path, size |-> size, used |-> 0, changed |-> 0,
           unit |-> "folder", cat |-> cat, safety |-> safety, decision |-> "undecided"]
  BY <1>1 DEF Unit
<1>3. u.id = <<ns, path>> /\ u.path = path /\ u.unit = "folder" /\ u.decision = "undecided" /\ u.cat = cat
  BY ONLY <1>2
<1>4. u.id[1] = ns
  BY <1>3
<1>5. Whole(u)
  BY <1>2 DEF Whole, PathSet
<1> QED BY <1>1, <1>3, <1>4, <1>5 DEF Unitary

(* One unit per path of a finite set.                                      *)
LEMMA GroupIs ==
  ASSUME NEW D, IsFiniteSet(D), NEW h, NEW N,
         \A d \in D : Unitary(h[d]) /\ h[d].id[1] \in N /\ h[d].path = d
  PROVE  Group({h[d] : d \in D}, N)
BY FiniteImage DEF Group

(* The folder detectors give a group of units.                             *)
LEMMA DetectedIs ==
  ASSUME NEW D, IsFiniteSet(D), D \subseteq PathSet, NEW recs, NEW s
  PROVE  Group(DetectFolderUnits(D, recs, s), DOMAIN CategoryOf)
<1> DEFINE class == [d \in D |-> Class(D, recs, s, d)]
           top(d) == Folder(d) \in D => class[Folder(d)] # class[d]
           S == {d \in D : class[d] # "none" /\ top(d)}
           h == [d \in S |-> Unit(class[d], d, TotalSize(recs, Held(D, recs, d)), CategoryOf[class[d]], "review")]
<1>1. DetectFolderUnits(D, recs, s) = {h[d] : d \in S}
  BY DEF DetectFolderUnits
<1>2. IsFiniteSet(S) /\ S \subseteq D
  BY FS_Subset
<1>3. ASSUME NEW d \in S PROVE Unitary(h[d]) /\ h[d].id[1] \in DOMAIN CategoryOf /\ h[d].path = d
  <2>1. PICK c : c = class[d]
    OBVIOUS
  <2>2. c \in {"empty", "sparse", "deep"}
    BY <2>1 DEF Class
  <2>3. c \in DOMAIN CategoryOf
    BY <2>2 DEF CategoryOf
  <2>4. Promised(c) = CategoryOf[c]
    BY <2>3 DEF Promised
  <2>5. PICK size : size = TotalSize(recs, Held(D, recs, d))
    OBVIOUS
  <2>6. PICK u : u = h[d]
    OBVIOUS
  <2>7. PICK w : w = "review"
    OBVIOUS
  <2>8. u = Unit(c, d, size, Promised(c), w)
    BY <2>1, <2>4, <2>5, <2>6, <2>7
  <2>9. d \in PathSet
    BY <1>2
  <2>10. Unitary(u) /\ u.id[1] = c /\ u.path = d
    BY ONLY <2>8, <2>9, UnitIs
  <2> QED BY <2>3, <2>6, <2>10
<1> HIDE DEF h, S
<1> QED BY <1>1, <1>2, <1>3, GroupIs

(* So does a detector that sums up the files of a folder.                  *)
LEMMA AggregateIs ==
  ASSUME NEW recs, NEW n \in Nat, DOMAIN recs = 1 .. n, NEW confirmed,
         \A k \in DOMAIN recs : confirmed[recs[k].path] \in PathSet \cup {NoPath},
         NEW ns, Promised(ns) = "dev_artifacts"
  PROVE  Group(AggregateUnits(ns, confirmed, recs), {ns})
<1> DEFINE counted == {k \in DOMAIN recs : /\ IsFile(recs[k]) /\ recs[k].decision # "keep"
                                           /\ confirmed[recs[k].path] # NoPath}
           root == [k \in counted |-> confirmed[recs[k].path]]
           h == [f \in Range(root) |-> Unit(ns, f, TotalSize(recs, {k \in counted : root[k] = f}), "dev_artifacts",
                                             IF IsActive(Folder(f), recs) THEN "review" ELSE "safe")]
<1>1. AggregateUnits(ns, confirmed, recs) = {h[f] : f \in Range(root)}
  BY DEF AggregateUnits
<1>2. IsFiniteSet(counted)
  <2>1. IsFiniteSet(1 .. n)
    <3>1. 1 \in Int /\ n \in Int
      OBVIOUS
    <3> QED BY <3>1, FS_Interval
  <2> QED BY <2>1, FS_Subset
<1>3. Range(root) = {root[k] : k \in counted}
  BY DEF Range
<1>4. IsFiniteSet(Range(root))
  <2> HIDE DEF root, counted
  <2> QED BY <1>2, <1>3, FiniteImage
<1>5. Range(root) \subseteq PathSet
  BY <1>3
<1>6. ASSUME NEW f \in Range(root) PROVE Unitary(h[f]) /\ h[f].id[1] \in {ns} /\ h[f].path = f
  <2>1. PICK size : size = TotalSize(recs, {k \in counted : root[k] = f})
    OBVIOUS
  <2>2. PICK w : w = IF IsActive(Folder(f), recs) THEN "review" ELSE "safe"
    OBVIOUS
  <2>3. PICK u : u = h[f]
    OBVIOUS
  <2>4. u = Unit(ns, f, size, Promised(ns), w)
    <3>1. u = Unit(ns, f, size, "dev_artifacts", w)
      <4> HIDE DEF root, counted
      <4> QED BY <2>1, <2>2, <2>3
    <3> QED BY <3>1
  <2>5. f \in PathSet
    BY <1>5
  <2>6. Unitary(u) /\ u.id[1] = ns /\ u.path = f
    BY ONLY <2>4, <2>5, UnitIs
  <2> QED BY <2>3, <2>6
<1> HIDE DEF h, root, counted
<1> QED BY <1>1, <1>4, <1>6, GroupIs

(* Folder units, one for a path.                                           *)
Lawful(U) ==
  /\ IsFiniteSet(U)
  /\ \A u \in U : Unitary(u) /\ u.id[1] # "file"
  /\ \A u, w \in U : u.path = w.path => u = w

(* The groups that wait to be published.                                   *)
Offers(g) ==
  /\ g \in Seq(Range(g)) /\ \A U \in Range(g) : Lawful(U)
  /\ \A i, j \in DOMAIN g : \A u \in g[i], w \in g[j] : u.id[1] = w.id[1] => i = j

(* A group is lawful whichever its detectors.                              *)
LEMMA LawfulIs == ASSUME NEW U, NEW N, Group(U, N), "file" \notin N PROVE Lawful(U)
BY DEF Group, Lawful

(* One lawful group can be published.                                      *)
LEMMA OneOffer == ASSUME NEW a, Lawful(a) PROVE Offers(<<a>>)
<1>1. PICK g : g = <<a>>
  OBVIOUS
<1>2. DOMAIN g = {1} /\ g[1] = a
  BY <1>1
<1>3. a \in Range(g) /\ \A U \in Range(g) : U = a
  BY <1>2 DEF Range
<1>4. g \in Seq(Range(g))
  BY <1>1, <1>3
<1> QED BY <1>1, <1>2, <1>3, <1>4 DEF Offers

(* So can four groups of different detectors.                              *)
LEMMA FourOffers ==
  ASSUME NEW N1, NEW N2, NEW N3, NEW N4,
         NEW a, Group(a, N1), NEW b, Group(b, N2), NEW c, Group(c, N3), NEW d, Group(d, N4),
         \A x \in N1 : x \notin N2 /\ x \notin N3 /\ x \notin N4 /\ x # "file",
         \A x \in N2 : x \notin N3 /\ x \notin N4 /\ x # "file", \A x \in N3 : x \notin N4 /\ x # "file",
         \A x \in N4 : x # "file"
  PROVE  Offers(<<a, b, c, d>>)
<1>1. PICK g : g = <<a, b, c, d>>
  OBVIOUS
<1>2. DOMAIN g = 1 .. 4 /\ g[1] = a /\ g[2] = b /\ g[3] = c /\ g[4] = d
  BY <1>1
<1>3. \A i \in 1 .. 4 : i = 1 \/ i = 2 \/ i = 3 \/ i = 4
  OBVIOUS
<1>4. \A U \in Range(g) : U = a \/ U = b \/ U = c \/ U = d
  BY <1>2, <1>3 DEF Range
<1>5. g \in Seq(Range(g))
  <2>1. a \in Range(g) /\ b \in Range(g) /\ c \in Range(g) /\ d \in Range(g)
    BY <1>2, <1>3 DEF Range
  <2> QED BY <1>1, <2>1
<1>6. Lawful(a) /\ Lawful(b) /\ Lawful(c) /\ Lawful(d)
  BY LawfulIs
<1>7. /\ \A u \in a : u.id[1] \in N1
      /\ \A u \in b : u.id[1] \in N2
      /\ \A u \in c : u.id[1] \in N3
      /\ \A u \in d : u.id[1] \in N4
  BY DEF Group
<1>8. ASSUME NEW i \in DOMAIN g, NEW j \in DOMAIN g, NEW u \in g[i], NEW w \in g[j], u.id[1] = w.id[1]
      PROVE  i = j
  <2>1. PICK x : x = u.id[1] /\ x = w.id[1]
    BY <1>8
  <2>2. /\ i = 1 => x \in N1
        /\ i = 2 => x \in N2
        /\ i = 3 => x \in N3
        /\ i = 4 => x \in N4
    BY <1>2, <1>7, <2>1
  <2>3. /\ j = 1 => x \in N1
        /\ j = 2 => x \in N2
        /\ j = 3 => x \in N3
        /\ j = 4 => x \in N4
    BY <1>2, <1>7, <2>1
  <2> QED BY <1>2, <1>3, <2>2, <2>3
<1> QED BY <1>1, <1>4, <1>5, <1>6, <1>8 DEF Offers

(* So can the groups the analysis forms of the folders and the records.    *)
LEMMA FolderGroupsIs ==
  ASSUME NEW D, IsFiniteSet(D), D \subseteq PathSet, NEW recs, NEW n \in Nat, DOMAIN recs = 1 .. n,
         \A k \in DOMAIN recs : Whole(recs[k]), NEW s
  PROVE  Offers(FolderGroups(D, recs, s))
<1> DEFINE paths == {recs[k].path : k \in DOMAIN recs}
<1>1. PICK a : a = DetectFolderUnits(D, recs, s)
  OBVIOUS
<1>2. PICK b : b = AggregateUnits("node_modules", [p \in paths |-> ModulesRoot(paths, p)], recs)
  OBVIOUS
<1>3. PICK c : c = AggregateUnits("build", [p \in paths |-> BuildRoot(paths, p)], recs)
  OBVIOUS
<1>4. PICK d : d = AggregateUnits("unity", [p \in paths |-> UnityRoot(paths, p)], recs)
  OBVIOUS
<1>6. FolderGroups(D, recs, s) = <<a>> \/ FolderGroups(D, recs, s) = <<a, b, c, d>>
  BY <1>1, <1>2, <1>3, <1>4, Zenon DEF FolderGroups
<1>7. DOMAIN CategoryOf = {"empty", "sparse", "deep"}
  BY DEF CategoryOf
<1>8. Group(a, {"empty", "sparse", "deep"})
  BY <1>1, <1>7, DetectedIs
<1>9. \A k \in DOMAIN recs : recs[k].path \in Seq(Words) /\ recs[k].path \in paths
  BY DEF Whole
<1>10. PICK P : P = paths
  OBVIOUS
<1>11. ASSUME NEW ns \in {"node_modules", "build", "unity"} PROVE Promised(ns) = "dev_artifacts"
  BY <1>7 DEF Promised
<1>12. Group(b, {"node_modules"})
  <2>1. PICK m : m = [p \in P |-> ModulesRoot(P, p)]
    OBVIOUS
  <2>2. \A k \in DOMAIN recs : m[recs[k].path] \in PathSet \cup {NoPath}
    BY <1>9, <1>10, <2>1, RootsIn
  <2> HIDE DEF paths
  <2> QED BY <1>2, <1>10, <1>11, <2>1, <2>2, AggregateIs
<1>13. Group(c, {"build"})
  <2>1. PICK m : m = [p \in P |-> BuildRoot(P, p)]
    OBVIOUS
  <2>2. \A k \in DOMAIN recs : m[recs[k].path] \in PathSet \cup {NoPath}
    BY <1>9, <1>10, <2>1, RootsIn
  <2> HIDE DEF paths
  <2> QED BY <1>3, <1>10, <1>11, <2>1, <2>2, AggregateIs
<1>14. Group(d, {"unity"})
  <2>1. PICK m : m = [p \in P |-> UnityRoot(P, p)]
    OBVIOUS
  <2>2. \A k \in DOMAIN recs : m[recs[k].path] \in PathSet \cup {NoPath}
    BY <1>9, <1>10, <2>1, RootsIn
  <2> HIDE DEF paths
  <2> QED BY <1>4, <1>10, <1>11, <2>1, <2>2, AggregateIs
<1>15. Lawful(a)
  BY <1>8, LawfulIs
<1>16. Offers(<<a, b, c, d>>)
  BY <1>8, <1>12, <1>13, <1>14, FourOffers
<1> QED BY <1>6, <1>15, <1>16, OneOffer

(* A finite set as a sequence has each element once.                       *)
LEMMA SetToSeqIs ==
  ASSUME NEW S, IsFiniteSet(S)
  PROVE  /\ SetToSeq(S) \in Seq(S) /\ Len(SetToSeq(S)) \in Nat /\ DOMAIN SetToSeq(S) = 1 .. Len(SetToSeq(S))
         /\ Apart(SetToSeq(S)) /\ Range(SetToSeq(S)) = S
<1>1. PICK n \in Nat : n = Cardinality(S)
  BY FS_CardinalityType
<1>2. \E f \in [1 .. n -> S] : IsInjective(f)
  <2>1. PICK f \in [1 .. n -> S] : f \in Bijection(1 .. n, S)
    BY <1>1, FS_NatBijection, FS_CountingElements DEF ExistsBijection, Bijection, Injection
  <2> QED BY <2>1 DEF Bijection, Injection, IsInjective
<1>3. PICK q : q = SetToSeq(S)
  OBVIOUS
<1>4. q \in [1 .. n -> S] /\ IsInjective(q)
  BY <1>1, <1>2, <1>3, Zenon DEF SetToSeq
<1>5. q \in Injection(1 .. n, S)
  BY <1>4 DEF Injection, IsInjective
<1>6. q \in Surjection(1 .. n, S)
  <2>1. IsFiniteSet(1 .. n) /\ Cardinality(1 .. n) = n
    <3>1. 1 \in Int /\ n \in Int
      OBVIOUS
    <3>2. IsFiniteSet(1 .. n) /\ Cardinality(1 .. n) = IF 1 > n THEN 0 ELSE n - 1 + 1
      BY <3>1, FS_Interval
    <3> QED BY <3>2
  <2> QED BY <1>1, <1>5, <2>1, FS_Injection
<1>7. q \in Seq(S) /\ Len(q) = n /\ DOMAIN q = 1 .. n
  BY <1>4
<1>8. Apart(q)
  BY <1>4, <1>7 DEF Apart, IsInjective
<1>9. Range(q) = S
  BY <1>6, <1>7 DEF Range, Surjection
<1> QED BY <1>3, <1>7, <1>8, <1>9

-----------------------------------------------------------------------------
(* Batches and their numbers.                                              *)

(* A record just found, with the number n.                                 *)
NewFile(r, x, n) ==
  /\ Whole(r) /\ r.unit = "file" /\ r.id = <<"file", n>> /\ r.decision = "undecided" /\ r.cat = "none"
  /\ r.path = x.path /\ Told(r) = Told(x)

(* A record of the scan with its number is a new file of the index.        *)
LEMMA NewFileIs ==
  ASSUME NEW x \in RecordSet, x.path # <<>>, NEW n, NEW r, r = [x EXCEPT !.id = <<"file", n>>]
  PROVE  NewFile(r, x, n)
<1>1. r = [id |-> <<"file", n>>, path |-> x.path, size |-> x.size, used |-> x.used, changed |-> x.changed,
           unit |-> x.unit, cat |-> x.cat, safety |-> x.safety, decision |-> x.decision]
  BY DEF RecordSet
<1>2. x.path \in Seq(Words) /\ x.unit = "file" /\ x.cat = "none" /\ x.decision = "undecided"
  BY DEF RecordSet
<1>3. /\ r.id = <<"file", n>> /\ r.path = x.path /\ r.size = x.size /\ r.used = x.used /\ r.changed = x.changed
      /\ r.unit = x.unit /\ r.cat = x.cat /\ r.safety = x.safety /\ r.decision = x.decision
  BY ONLY <1>1
<1>4. Whole(r)
  BY <1>1, <1>2, <1>3 DEF Whole
<1> QED BY <1>2, <1>3, <1>4 DEF NewFile, Told

(* A batch with its numbers, from m on.                                    *)
Numbering(h, m) == [k \in DOMAIN h |-> [h[k] EXCEPT !.id = <<"file", m + k - 1>>]]

(* It is whole and each of its records a new file.                         *)
LEMMA NumberedIs ==
  ASSUME NEW h \in Seq(RecordSet), \A k \in DOMAIN h : h[k].path # <<>>, OnePathEach(h),
         NEW m \in Nat, NEW recs, recs = Numbering(h, m)
  PROVE  /\ WholeAll(recs) /\ OnePathEach(recs) /\ Len(recs) = Len(h) /\ Len(h) \in Nat /\ DOMAIN h = 1 .. Len(h)
         /\ \A k \in 1 .. Len(h) : NewFile(recs[k], h[k], m + k - 1)
<1>1. PICK n \in Nat : n = Len(h) /\ DOMAIN h = 1 .. n
  BY LenProperties
<1>2. DOMAIN recs = 1 .. n /\ \A k \in 1 .. n : recs[k] = [h[k] EXCEPT !.id = <<"file", m + k - 1>>]
  BY <1>1 DEF Numbering
<1>3. ASSUME NEW k \in 1 .. n PROVE NewFile(recs[k], h[k], m + k - 1)
  <2>1. PICK c : c = m + k - 1
    OBVIOUS
  <2>2. PICK x, r : x = h[k] /\ r = recs[k]
    OBVIOUS
  <2>3. x \in RecordSet /\ x.path # <<>> /\ r = [x EXCEPT !.id = <<"file", c>>]
    BY <1>1, <1>2, <2>1, <2>2
  <2>4. NewFile(r, x, c)
    BY ONLY <2>3, NewFileIs
  <2> QED BY <2>1, <2>2, <2>4
<1>4. recs \in Seq(Range(recs)) /\ Len(recs) = n
  <2>1. \A k \in 1 .. n : recs[k] \in Range(recs)
    BY <1>2 DEF Range
  <2>2. recs = [k \in 1 .. n |-> recs[k]]
    BY <1>1, <1>2 DEF Numbering
  <2>3. PICK R : R = Range(recs)
    OBVIOUS
  <2>4. recs \in [1 .. n -> R]
    BY ONLY <2>1, <2>2, <2>3
  <2> QED BY <2>3, <2>4, LenProperties
<1>5. WholeAll(recs)
  BY <1>2, <1>3, <1>4 DEF WholeAll, NewFile
<1>6. OnePathEach(recs)
  <2>1. \A k \in 1 .. n : recs[k].path = h[k].path
    BY <1>3 DEF NewFile
  <2> QED BY <1>1, <1>2, <2>1 DEF OnePathEach
<1> QED BY <1>1, <1>3, <1>4, <1>5, <1>6

(* What the scan tells has a path ...                                      *)
LEMMA FactPath ==
  ASSUME SessionTypes, NEW n, NEW f \in Earlier(n)
  PROVE  f.path \in PathSet
<1>1. PICK j \in DOMAIN volumes : f \in Within(volumes[j])
  BY DEF Earlier
<1>2. Disk(volumes[j])
  BY <1>1, LenProperties DEF Disk, SessionTypes
<1>3. PICK k \in Near(volumes[j]) : f = Fact(volumes[j], k)
  BY <1>1 DEF Within, Facts
<1>4. k \in Reach(volumes[j])
  BY <1>2, <1>3, SeenIs
<1>5. f.path = PathTo(volumes[j], k)
  BY <1>3 DEF Fact
<1> QED BY <1>2, <1>4, <1>5, PathToIn

(* ... and so has each record it hands over.                               *)
LEMMA HandPaths ==
  ASSUME NEW v, NEW node, NEW got, Delivery(v, node, got)
  PROVE  \A k \in DOMAIN hand : hand[k].path # <<>>
<1> SUFFICES ASSUME NEW k \in DOMAIN hand PROVE hand[k].path # <<>>
  OBVIOUS
<1>1. PICK r : r = hand[k]
  OBVIOUS
<1>2. Told(r) \in Tale(hand)
  BY <1>1 DEF Tale, Range
<1>3. SessionTypes /\ Tale(hand) \subseteq Earlier(volume + 1)
  BY DEF Delivery, Exact
<1>4. Told(r).path \in PathSet
  BY <1>2, <1>3, FactPath
<1>5. r.path \in PathSet
  BY <1>4 DEF Told
<1> QED BY <1>1, <1>5 DEF PathSet

(* A file's name in the index.                                             *)
FileId(n) == <<"file", n>>

(* Files of different numbers, and files and units, have different
   names.                                                                  *)
LEMMA FileIds == /\ \A a, b : FileId(a) = FileId(b) => a = b
                 /\ \A a, x, p : FileId(a) = <<x, p>> => x = "file"
BY DEF FileId

(* The id of a record: of a file the number it was given, which was less
   than n, of folders a namespace and their path.                          *)
FileTag(r, n) == r.unit = "file" /\ \E m \in Nat : m < n /\ r.id = FileId(m)

(* A unit's name is its detector and its path.                             *)
FolderTag(r) == r.unit = "folder" /\ r.id = <<r.id[1], r.path>> /\ r.id[1] # "file"

(* Each record is a file of a number given or a unit, and each has a
   name of its own.                                                        *)
Catalogue(t, n) ==
  /\ \A k \in DOMAIN t : FileTag(t[k], n) \/ FolderTag(t[k])
  /\ \A i, j \in DOMAIN t : t[i].id = t[j].id => i = j

(* got is what a session has found: the files of the index are of it, and
   every path of it is in the index.                                       *)
Covers(t, got) ==
  /\ \A k \in DOMAIN t : t[k].unit = "file" => Told(t[k]) \in got
  /\ \A f \in got : \E k \in DOMAIN t : t[k].path = f.path

(* There is no unit yet.                                                   *)
OnlyFiles(t) == \A k \in DOMAIN t : t[k].unit = "file"

(* The numbers of a batch are new and different.                           *)
LEMMA NumbersApart ==
  ASSUME NEW m \in Nat, NEW n \in Nat
  PROVE  /\ \A j \in 1 .. n : m + j - 1 \in Nat /\ m + j - 1 < m + n /\ ~(m + j - 1 < m)
         /\ \A i, j \in 1 .. n : m + i - 1 = m + j - 1 => i = j
         /\ \A a \in Nat : a < m => a < m + n
OBVIOUS

(* A batch with new numbers keeps the catalogue.                           *)
LEMMA BatchCatalogue ==
  ASSUME NEW s, NEW l \in Nat, DOMAIN s = 1 .. l, NEW m \in Nat, Catalogue(s, m), NEW n \in Nat,
         NEW t, DOMAIN t = 1 .. l + n, \A k \in 1 .. l : t[k] = s[k],
         \A j \in 1 .. n : t[l + j].unit = "file" /\ t[l + j].id = FileId(m + j - 1)
  PROVE  Catalogue(t, m + n)
<1>1. /\ \A k \in 1 .. l + n : k \in 1 .. l \/ \E j \in 1 .. n : k = l + j
      /\ \A k \in 1 .. l : k \in 1 .. l + n
      /\ \A j \in 1 .. n : l + j \in 1 .. l + n /\ l + j \notin 1 .. l
  BY ONLY TwoParts, PartsIn
<1>2. PICK num : num = [j \in 1 .. n |-> m + j - 1]
  OBVIOUS
<1>3. PICK top : top = m + n
  OBVIOUS
<1>4. /\ \A j \in 1 .. n : num[j] \in Nat /\ num[j] < top /\ ~(num[j] < m)
      /\ \A i, j \in 1 .. n : num[i] = num[j] => i = j
      /\ \A a \in Nat : a < m => a < top
  BY <1>2, <1>3, NumbersApart
<1>5. PICK pos : pos = [j \in 1 .. n |-> l + j]
  OBVIOUS
<1>6. /\ \A k \in DOMAIN t : k \in 1 .. l \/ \E j \in 1 .. n : k = pos[j]
      /\ \A j \in 1 .. n : t[pos[j]].unit = "file" /\ t[pos[j]].id = FileId(num[j])
  BY <1>1, <1>2, <1>5
<1>7. ASSUME NEW k \in DOMAIN t PROVE FileTag(t[k], top) \/ FolderTag(t[k])
  <2>1. CASE k \in 1 .. l
    BY <1>4, <2>1 DEF Catalogue, FileTag
  <2>2. ASSUME NEW j \in 1 .. n, k = pos[j] PROVE FileTag(t[k], top)
    BY <1>4, <1>6, <2>2 DEF FileTag
  <2> QED BY <1>6, <2>1, <2>2
<1>8. ASSUME NEW k \in 1 .. l, NEW j \in 1 .. n, t[k].id = t[pos[j]].id PROVE FALSE
  <2>1. t[k].id = FileId(num[j]) /\ t[k] = s[k]
    BY <1>6, <1>8
  <2>2. CASE FolderTag(s[k])
    <3>1. FileId(num[j]) = <<t[k].id[1], t[k].path>> /\ t[k].id[1] # "file"
      BY <2>1, <2>2 DEF FolderTag
    <3> QED BY <3>1, FileIds
  <2>3. CASE FileTag(s[k], m)
    <3>1. PICK a \in Nat : a < m /\ t[k].id = FileId(a)
      BY <2>1, <2>3 DEF FileTag
    <3>2. a = num[j]
      BY <2>1, <3>1, FileIds
    <3> QED BY <1>4, <3>1, <3>2
  <2> QED BY <2>2, <2>3 DEF Catalogue
<1>9. ASSUME NEW i \in DOMAIN t, NEW j \in DOMAIN t, t[i].id = t[j].id PROVE i = j
  <2>1. CASE i \in 1 .. l /\ j \in 1 .. l
    BY <1>9, <2>1 DEF Catalogue
  <2>2. ASSUME NEW x \in 1 .. n, i = pos[x], NEW y \in 1 .. n, j = pos[y] PROVE i = j
    <3>1. FileId(num[x]) = FileId(num[y])
      BY <1>6, <1>9, <2>2
    <3> QED BY <1>4, <2>2, <3>1, FileIds
  <2>3. ASSUME i \in 1 .. l, NEW y \in 1 .. n, j = pos[y] PROVE FALSE
    BY <1>8, <1>9, <2>3
  <2>4. ASSUME j \in 1 .. l, NEW y \in 1 .. n, i = pos[y] PROVE FALSE
    BY <1>8, <1>9, <2>4
  <2> QED BY <1>6, <2>1, <2>2, <2>3, <2>4
<1> QED BY <1>3, <1>7, <1>9 DEF Catalogue

(* Units merged keep it: a unit that replaces a record of its path
   brings its own name.                                                    *)
LEMMA UnitsCatalogue ==
  ASSUME NEW s, NEW m, Catalogue(s, m), NEW R, \A u \in R : Unitary(u) /\ u.id[1] # "file",
         NEW t, Merged(s, R, t), OnePathEach(t)
  PROVE  Catalogue(t, m)
<1>1. ASSUME NEW u \in R PROVE FolderTag(u)
  BY <1>1 DEF Unitary, FolderTag
<1>2. \A k \in DOMAIN t : t[k] \in R \/ (k \in DOMAIN s /\ t[k] = s[k])
  BY DEF Merged
<1>3. \A k \in DOMAIN t : FileTag(t[k], m) \/ FolderTag(t[k])
  BY <1>1, <1>2 DEF Catalogue
<1>4. ASSUME NEW i \in DOMAIN t, NEW j \in DOMAIN t, t[i].id = t[j].id, t[i] \in R PROVE i = j
  <2>1. FolderTag(t[i])
    BY <1>1, <1>4
  <2>2. FolderTag(t[j])
    <3>1. SUFFICES ASSUME FileTag(t[j], m) PROVE FALSE
      BY <1>3
    <3>2. PICK a : t[j].id = FileId(a)
      BY <3>1 DEF FileTag
    <3>3. FileId(a) = <<t[i].id[1], t[i].path>> /\ t[i].id[1] # "file"
      BY <1>4, <2>1, <3>2 DEF FolderTag
    <3> QED BY <3>3, FileIds
  <2>3. <<t[i].id[1], t[i].path>> = <<t[j].id[1], t[j].path>>
    BY <1>4, <2>1, <2>2 DEF FolderTag
  <2>4. t[i].path = t[j].path
    BY <2>3
  <2> QED BY <2>4 DEF OnePathEach
<1>5. ASSUME NEW i \in DOMAIN t, NEW j \in DOMAIN t, t[i].id = t[j].id PROVE i = j
  <2>1. CASE t[i] \in R
    BY <1>4, <1>5, <2>1
  <2>2. CASE t[j] \in R
    BY <1>4, <1>5, <2>2
  <2>3. CASE t[i] \notin R /\ t[j] \notin R
    BY <1>2, <1>5, <2>3 DEF Catalogue
  <2> QED BY <2>1, <2>2, <2>3
<1> QED BY <1>3, <1>5 DEF Catalogue

(* Units merged leave every fact covered, by a file or by the unit with
   its path.                                                               *)
LEMMA UnitsCover ==
  ASSUME NEW s, NEW got, Covers(s, got), NEW R, \A u \in R : Unitary(u), NEW t, Merged(s, R, t)
  PROVE  Covers(t, got)
<1>1. \A k \in DOMAIN t : t[k] \in R \/ (k \in DOMAIN s /\ t[k] = s[k])
  BY DEF Merged
<1>2. \A u \in R : u.unit # "file"
  BY DEF Unitary
<1>3. \A k \in DOMAIN s : k \in DOMAIN t /\ t[k].path = s[k].path
  BY DEF Merged
<1> QED BY <1>1, <1>2, <1>3 DEF Covers

(* records that differ only in what they are filed under and decided       *)
Alike(r, x) == r.id = x.id /\ r.path = x.path /\ r.unit = x.unit /\ r.size = x.size /\ r.changed = x.changed

(* Records that keep name, path and unit keep all that is said of these.   *)
LEMMA AlikeStays ==
  ASSUME NEW s, NEW t, DOMAIN t = DOMAIN s, \A k \in DOMAIN s : Alike(t[k], s[k])
  PROVE  /\ \A m : Catalogue(s, m) => Catalogue(t, m)
         /\ \A got : Covers(s, got) => Covers(t, got)
         /\ OnePathEach(s) => OnePathEach(t)
         /\ OnlyFiles(s) => OnlyFiles(t)
<1>1. ASSUME NEW m, Catalogue(s, m) PROVE Catalogue(t, m)
  BY <1>1 DEF Catalogue, Alike, FileTag, FolderTag
<1>2. ASSUME NEW got, Covers(s, got) PROVE Covers(t, got)
  <2>1. \A k \in DOMAIN s : Told(t[k]) = Told(s[k])
    BY DEF Told, Alike
  <2> QED BY <1>2, <2>1 DEF Covers, Alike
<1>3. ASSUME OnePathEach(s) PROVE OnePathEach(t)
  BY <1>3 DEF OnePathEach, Alike
<1>4. ASSUME OnlyFiles(s) PROVE OnlyFiles(t)
  BY <1>4 DEF OnlyFiles, Alike
<1> QED BY <1>1, <1>2, <1>3, <1>4

(* What the index answers.                                                 *)
Records == GetAll(index)

(* What it answers after the step.                                         *)
LEMMA RecordsAfter == Records' = GetAll(index')
BY DEF Records

(* The invariant of the index.                                             *)
Recorded ==
  /\ Sound(index) /\ OnePathEach(Records) /\ next \in Nat /\ Catalogue(Records, next)
  /\ DirsOK

(* The invariant of the survey's course.                                   *)
Progress ==
  /\ phase \in {"scanning", "publishing", "done", "judged again"} /\ Offers(groups)
  /\ phase = "scanning" => OnlyFiles(Records)
  /\ phase # "scanning" => at \in {"ended", "failed", "refused"}

(* The inductive invariant of the survey: the scan's, and the index
   covers what it delivered.                                               *)
Surveyed(v, node, got) == Delivery(v, node, got) /\ Covers(Records, got) /\ Recorded /\ Progress

(* What a batch makes of the records.                                      *)
Taken(recs, l, n, s, t) ==
  /\ DOMAIN s = 1 .. l /\ DOMAIN t = 1 .. l + n /\ DOMAIN recs = 1 .. n
  /\ \A k \in 1 .. l : t[k] = s[k]
  /\ \A j \in 1 .. n : NewFile(recs[j], hand[j], next + j - 1) /\ t[l + j] = Filed(farm, recs[j])

(* A batch handed over brings new paths, while there are only files.       *)
LEMMA BatchComes ==
  ASSUME NEW v, NEW node, NEW got, Surveyed(v, node, got), OnBatch
  PROVE  /\ OnlyFiles(Records)
         /\ \A k \in DOMAIN Records : \A j \in DOMAIN hand : Records[k].path # hand[j].path
         /\ hand \in Seq(RecordSet) /\ (\A k \in DOMAIN hand : hand[k].path # <<>>) /\ OnePathEach(hand)
<1>1. at \in {"pass 2", "sift", "close"}
  BY DEF OnBatch, Called, Surveyed, Delivery, Handed
<1>2. OnlyFiles(Records)
  BY <1>1 DEF Surveyed, Progress
<1>3. hand \in Seq(RecordSet) /\ (\A k \in DOMAIN hand : hand[k].path # <<>>) /\ OnePathEach(hand)
  BY HandPaths DEF Surveyed, Delivery, SessionTypes, EachOnce
<1>4. ASSUME NEW k \in DOMAIN Records, NEW j \in DOMAIN hand PROVE Records[k].path # hand[j].path
  <2>1. Told(Records[k]) \in got
    BY <1>2 DEF Surveyed, Covers, OnlyFiles
  <2>2. hand[j] \in Range(hand)
    BY DEF Range
  <2>3. \A f \in got : f.path # hand[j].path
    BY <2>2 DEF Surveyed, Delivery, EachOnce
  <2>4. Told(Records[k]).path = Records[k].path
    BY DEF Told
  <2> QED BY <2>1, <2>3, <2>4
<1> QED BY <1>2, <1>3, <1>4

(* The index after a batch: its records behind the others, filed where a
   detector answers.                                                       *)
LEMMA BatchIs ==
  ASSUME NEW v, NEW node, NEW got, Surveyed(v, node, got), OnBatch
  PROVE  /\ Sound(index') /\ OnePathEach(Records')
         /\ \E recs, l, n : /\ l \in Nat /\ n \in Nat /\ n = Len(hand) /\ recs = Numbered(hand)
                            /\ Taken(recs, l, n, Records, Records')
<1>1. PICK recs : /\ recs = Numbered(hand)
                  /\ index' = UpsertBatch(InsertBatch(index, recs), Categorised(farm, recs))
  BY DEF OnBatch
<1>2. PICK h, m, idx, s, a, f : h = hand /\ m = next /\ idx = index /\ s = Records /\ a = index' /\ f = farm
  OBVIOUS
<1>3. recs = Numbering(h, m)
  BY <1>1, <1>2 DEF Numbered, Numbering
<1>4. /\ h \in Seq(RecordSet) /\ (\A k \in DOMAIN h : h[k].path # <<>>) /\ OnePathEach(h)
      /\ \A k \in DOMAIN s : \A j \in DOMAIN h : s[k].path # h[j].path
  BY <1>2, BatchComes
<1>5. m \in Nat /\ Sound(idx) /\ s = GetAll(idx) /\ OnePathEach(s)
  BY <1>2 DEF Surveyed, Recorded, Records
<1>6. /\ WholeAll(recs) /\ OnePathEach(recs) /\ Len(recs) = Len(h) /\ Len(h) \in Nat /\ DOMAIN h = 1 .. Len(h)
      /\ \A k \in 1 .. Len(h) : NewFile(recs[k], h[k], m + k - 1)
  BY ONLY <1>3, <1>4, <1>5, NumberedIs
<1>7. PICK n \in Nat : n = Len(h)
  BY <1>6
<1>8. PICK l \in Nat : l = Len(idx.recs) /\ DOMAIN s = 1 .. l
  BY <1>5, GetAllIs
<1>9. DOMAIN recs = 1 .. n /\ n = Len(recs)
  BY <1>6, <1>7 DEF WholeAll
<1>10. \A k \in DOMAIN GetAll(idx) : \A j \in DOMAIN recs : GetAll(idx)[k].path # recs[j].path
  BY <1>4, <1>5, <1>6, <1>7, <1>9 DEF NewFile
<1>11. a = UpsertBatch(InsertBatch(idx, recs), Categorised(f, recs))
  BY <1>1, <1>2
<1>12. /\ Sound(a) /\ OnePathEach(GetAll(a)) /\ Holding(GetAll(a), l + n)
       /\ InPlace(GetAll(idx), l, GetAll(a))
       /\ FiledAt(f, recs, l, n, GetAll(a))
  <2>1. /\ Sound(idx) /\ OnePathEach(GetAll(idx)) /\ WholeAll(recs) /\ OnePathEach(recs)
        /\ \A k \in DOMAIN GetAll(idx) : \A j \in DOMAIN recs : GetAll(idx)[k].path # recs[j].path
        /\ a = UpsertBatch(InsertBatch(idx, recs), Categorised(f, recs))
        /\ l = Len(idx.recs) /\ n = Len(recs)
    BY <1>5, <1>6, <1>8, <1>9, <1>10, <1>11
  <2>2. Sound(a) /\ OnePathEach(GetAll(a)) /\ Holding(GetAll(a), l + n)
    BY ONLY <2>1, BatchTaken
  <2>3. InPlace(GetAll(idx), l, GetAll(a))
    BY ONLY <2>1, BatchTaken
  <2>4. FiledAt(f, recs, l, n, GetAll(a))
    BY ONLY <2>1, BatchTaken
  <2> QED BY <2>2, <2>3, <2>4
<1>13. Records' = GetAll(a)
  BY <1>2, RecordsAfter
<1>14. \A k \in 1 .. n : NewFile(recs[k], hand[k], next + k - 1)
  BY <1>2, <1>6, <1>7
<1>15. Taken(recs, l, n, Records, Records')
  BY <1>2, <1>5, <1>8, <1>9, <1>12, <1>13, <1>14 DEF Taken, FiledAt, InPlace, Holding
<1> QED BY <1>1, <1>2, <1>7, <1>12, <1>13, <1>15

(* A record filed is as whole as before and of one name, path and
   decision.                                                               *)
LEMMA FiledIs ==
  ASSUME NEW s, NEW r, Whole(r), NEW j, j = Filed(s, r)
  PROVE  Alike(j, r) /\ Whole(j) /\ j.decision = r.decision /\ Told(j) = Told(r)
<1>1. PICK w : w = FALSE
  OBVIOUS
<1>2. j = Judged(s, r, w)
  BY <1>1 DEF Filed
<1>3. /\ Whole(j) /\ j.path = r.path /\ j.id = r.id /\ j.size = r.size
      /\ j.changed = r.changed /\ j.unit = r.unit /\ j.decision = r.decision
  BY ONLY <1>2, Whole(r), JudgedIs
<1> QED BY <1>3 DEF Alike, Told

(* Where the new records are, as numbers of their own.                     *)
Joins(recs, n, s, t, pos) ==
  /\ \A k \in DOMAIN t : k \in DOMAIN s \/ \E j \in 1 .. n : k = pos[j]
  /\ DOMAIN s \subseteq DOMAIN t /\ \A k \in DOMAIN s : t[k] = s[k]
  /\ \A j \in 1 .. n : /\ pos[j] \in DOMAIN t /\ pos[j] \notin DOMAIN s
                       /\ NewFile(recs[j], hand[j], next + j - 1)
                       /\ t[pos[j]] = Filed(farm, recs[j]) /\ Alike(t[pos[j]], recs[j])
                       /\ Told(t[pos[j]]) = Told(hand[j])
                       /\ t[pos[j]].decision = "undecided"
  /\ DOMAIN recs = 1 .. n

(* Each record of a batch has its place in the index.                      *)
LEMMA TakenIs ==
  ASSUME NEW recs, NEW l \in Nat, NEW n \in Nat, NEW s, NEW t, Taken(recs, l, n, s, t)
  PROVE  \E pos : Joins(recs, n, s, t, pos)
<1>1. PICK pos : pos = [j \in 1 .. n |-> l + j]
  OBVIOUS
<1>2. /\ \A k \in 1 .. l + n : k \in 1 .. l \/ \E j \in 1 .. n : k = l + j
      /\ \A k \in 1 .. l : k \in 1 .. l + n
      /\ \A j \in 1 .. n : l + j \in 1 .. l + n /\ l + j \notin 1 .. l
  BY ONLY TwoParts, PartsIn
<1>3. /\ DOMAIN s = 1 .. l /\ DOMAIN t = 1 .. l + n /\ DOMAIN recs = 1 .. n
      /\ \A k \in 1 .. l : t[k] = s[k]
  BY DEF Taken
<1>4. \A k \in DOMAIN t : k \in DOMAIN s \/ \E j \in 1 .. n : k = pos[j]
  BY <1>1, <1>2, <1>3
<1>5. \A j \in 1 .. n : pos[j] \in DOMAIN t /\ pos[j] \notin DOMAIN s
  BY <1>1, <1>2, <1>3
<1>6. ASSUME NEW j \in 1 .. n
      PROVE  /\ NewFile(recs[j], hand[j], next + j - 1)
             /\ t[pos[j]] = Filed(farm, recs[j]) /\ Alike(t[pos[j]], recs[j])
             /\ Told(t[pos[j]]) = Told(hand[j]) /\ t[pos[j]].decision = "undecided"
  <2>1. PICK r, x, c, z : r = recs[j] /\ x = hand[j] /\ c = next + j - 1 /\ z = t[pos[j]]
    OBVIOUS
  <2>2. NewFile(r, x, c) /\ z = Filed(farm, r)
    BY <1>1, <2>1 DEF Taken
  <2>3. Whole(r) /\ r.decision = "undecided" /\ Told(r) = Told(x)
    BY <2>2 DEF NewFile
  <2>4. PICK w : w = farm
    OBVIOUS
  <2>5. Alike(z, r) /\ z.decision = r.decision /\ Told(z) = Told(r)
    BY <2>2, <2>3, <2>4, FiledIs
  <2> QED BY <2>1, <2>2, <2>3, <2>5
<1>7. DOMAIN s \subseteq DOMAIN t /\ \A k \in DOMAIN s : t[k] = s[k]
  BY <1>2, <1>3
<1> QED BY <1>3, <1>4, <1>5, <1>6, <1>7 DEF Joins

(* The index covers what the batch tells, too.                             *)
LEMMA BatchCovers ==
  ASSUME NEW recs, NEW l \in Nat, NEW n \in Nat, NEW s, NEW t, Taken(recs, l, n, s, t), DOMAIN hand = 1 .. n,
         NEW got, Covers(s, got), NEW more, more = got \cup Tale(hand)
  PROVE  Covers(t, more)
<1>0. PICK pos : Joins(recs, n, s, t, pos)
  BY TakenIs
<1>1. /\ \A k \in DOMAIN t : k \in DOMAIN s \/ \E j \in 1 .. n : k = pos[j]
      /\ DOMAIN s \subseteq DOMAIN t /\ \A k \in DOMAIN s : t[k] = s[k]
      /\ \A j \in 1 .. n : pos[j] \in DOMAIN t /\ Told(t[pos[j]]) = Told(hand[j])
  BY <1>0 DEF Joins
<1>2. Tale(hand) = {Told(hand[j]) : j \in 1 .. n}
  BY DEF Tale, Range
<1>3. ASSUME NEW k \in DOMAIN t, t[k].unit = "file" PROVE Told(t[k]) \in more
  BY <1>1, <1>2, <1>3 DEF Covers
<1>4. ASSUME NEW f \in more PROVE \E k \in DOMAIN t : t[k].path = f.path
  <2>1. CASE f \in got
    BY <1>1, <2>1 DEF Covers
  <2>2. ASSUME NEW j \in 1 .. n, f = Told(hand[j]) PROVE \E k \in DOMAIN t : t[k].path = f.path
    <3>1. f = Told(t[pos[j]]) /\ pos[j] \in DOMAIN t
      BY <1>1, <2>2
    <3>2. f.path = t[pos[j]].path
      BY <3>1 DEF Told
    <3> QED BY <3>1, <3>2
  <2> QED BY <1>2, <2>1, <2>2
<1> QED BY <1>3, <1>4 DEF Covers

(* A batch keeps the survey's invariant.                                   *)
LEMMA BatchSurveyed ==
  ASSUME NEW v, NEW node, NEW got, Surveyed(v, node, got), OnBatch
  PROVE  \E more : Surveyed(v, node, more)'
<1>1. PICK recs, l, n : /\ l \in Nat /\ n \in Nat /\ n = Len(hand)
                        /\ Taken(recs, l, n, Records, Records')
  BY BatchIs
<1>2. PICK more : more = got \cup Tale(hand)
  OBVIOUS
<1>3. Delivery(v, node, more)'
  BY <1>2, ReturnDelivers DEF OnBatch, Surveyed
<1>4. DOMAIN hand = 1 .. n
  BY <1>1, BatchComes, LenProperties
<1>5. PICK s, t, m : s = Records /\ t = Records' /\ m = next
  OBVIOUS
<1>6. Covers(t, more)
  <2>1. Taken(recs, l, n, s, t) /\ Covers(s, got)
    BY <1>1, <1>5 DEF Surveyed
  <2> QED BY <1>1, <1>2, <1>4, <2>1, BatchCovers
<1>7. m \in Nat /\ next' = m + n /\ Catalogue(s, m)
  BY <1>1, <1>5 DEF OnBatch, Surveyed, Recorded
<1>8. Catalogue(t, m + n)
  <2>1. /\ DOMAIN s = 1 .. l /\ DOMAIN t = 1 .. l + n /\ \A k \in 1 .. l : t[k] = s[k]
        /\ \A j \in 1 .. n : NewFile(recs[j], hand[j], m + j - 1) /\ t[l + j] = Filed(farm, recs[j])
    BY <1>1, <1>5 DEF Taken
  <2>2. ASSUME NEW j \in 1 .. n PROVE t[l + j].unit = "file" /\ t[l + j].id = FileId(m + j - 1)
    <3>1. PICK z, r, w : z = t[l + j] /\ r = recs[j] /\ w = farm
      OBVIOUS
    <3>2. Whole(r) /\ z = Filed(w, r) /\ r.unit = "file" /\ r.id = FileId(m + j - 1)
      BY <2>1, <3>1 DEF NewFile, FileId
    <3>3. Alike(z, r)
      BY <3>2, FiledIs
    <3> QED BY <3>1, <3>2, <3>3 DEF Alike
  <2> QED BY ONLY <1>1, <1>7, <2>1, <2>2, BatchCatalogue
<1>9. DirsOK'
  BY DEF OnBatch, Return, Surveyed, Recorded, DirsOK, PathSet
<1>10. Recorded'
  <2>1. Sound(index') /\ OnePathEach(Records')
    BY BatchIs
  <2>2. next' \in Nat /\ Catalogue(Records', next')
    BY <1>1, <1>5, <1>7, <1>8
  <2> QED BY <1>9, <2>1, <2>2 DEF Recorded
<1>11. Progress'
  <2>1. phase' = phase /\ groups' = groups /\ at' = at
    BY DEF OnBatch, Return
  <2>2. OnlyFiles(Records')
    <3>0. PICK pos : Joins(recs, n, s, t, pos)
      <4>1. Taken(recs, l, n, s, t)
        BY <1>1, <1>5
      <4> QED BY <1>1, <4>1, TakenIs
    <3>1. /\ \A k \in DOMAIN t : k \in DOMAIN s \/ \E j \in 1 .. n : k = pos[j]
          /\ \A k \in DOMAIN s : t[k] = s[k]
          /\ \A j \in 1 .. n : NewFile(recs[j], hand[j], next + j - 1) /\ Alike(t[pos[j]], recs[j])
      BY <3>0 DEF Joins
    <3>2. OnlyFiles(s)
      BY <1>5, BatchComes
    <3>3. \A j \in 1 .. n : t[pos[j]].unit = "file"
      BY <3>1 DEF NewFile, Alike
    <3> QED BY <1>5, <3>1, <3>2, <3>3 DEF OnlyFiles
  <2> QED BY <2>1, <2>2 DEF Surveyed, Progress
<1>12. Covers(Records', more)
  BY <1>5, <1>6
<1> QED BY <1>3, <1>10, <1>11, <1>12 DEF Surveyed

-----------------------------------------------------------------------------
(* Every step of the survey.                                               *)

(* What does not touch the scan keeps the scan's invariant.                *)
LEMMA IdleDelivers ==
  ASSUME NEW v, NEW node, NEW got, Delivery(v, node, got), UNCHANGED scanVars
  PROVE  Delivery(v, node, got)'
<1>1. /\ Steady /\ UNCHANGED <<stopped, faults, volumes, at, volume, cut, queue, inflight, entries, worker>>
      /\ UNCHANGED <<cursor, own, batch, hand, dirs>> /\ world' = world
  BY DEF scanVars, walk, find, Steady
<1>2. SessionTypes'
  BY <1>1, TypesStay DEF Delivery, SessionTypes
<1>3. Placed(v)'
  BY <1>1, SteadyIs DEF Delivery, Placed
<1>4. Handed'
  BY <1>1 DEF Delivery, Handed
<1>5. Walked(v, node)'
  BY <1>1, WalkStays DEF Delivery
<1>6. Done(node)' = Done(node)
  BY <1>1 DEF Done, Given
<1>7. Exact(v, node, got)'
  <2>1. Tale(hand)' = Tale(hand) /\ Tale(batch)' = Tale(batch) /\ Exclusions(v)' = Exclusions(v)
    BY <1>1, SteadyIs DEF Tale
  <2>2. Waiting(v)' = Waiting(v)
    BY <2>1 DEF Waiting
  <2>3. Earlier(volume)' = Earlier(volume) /\ Earlier(volume + 1)' = Earlier(volume + 1)
    BY <1>1, SteadyIs
  <2>4. Facts(v, Done(node))' = Facts(v, Done(node))
    BY <1>1, <1>6, SteadyIs
  <2> QED BY <1>1, <2>1, <2>2, <2>3, <2>4 DEF Delivery, Exact
<1>8. Stacked(v, node)' /\ Clean(v)' /\ EachOnce(got)'
  BY <1>1, <1>6, SteadyIs, OnceStays DEF Delivery, Stacked, Clean
<1> QED BY <1>2, <1>3, <1>4, <1>5, <1>7, <1>8 DEF Delivery

(* A scan that is over stays so.                                           *)
LEMMA OverStays ==
  ASSUME at \in {"ended", "failed", "refused"}, SessionStep \/ Stop \/ \E w \in Worker : WorkerStep(w)
  PROVE  at' = at
<1>1. at \notin {"next", "close", "walk", "sift", "pass 1", "pass 2"}
  OBVIOUS
<1>2. CASE Stop
  BY <1>2 DEF Stop
<1>3. CASE SessionStep
  BY <1>1, <1>3 DEF SessionStep, NextVolume, VolumeFails, EndVolume, Joined, Sift, EndSift, PassOne, Push, Finish, ReadFails
<1>4. CASE \E w \in Worker : WorkerStep(w)
  BY <1>1, <1>4 DEF WorkerStep, Take, Open, Share, Leave, GoHome, Walks
<1> QED BY <1>2, <1>3, <1>4

(* A step of the scan keeps the survey's invariant.                        *)
LEMMA ScannerSurveyed ==
  ASSUME NEW v, NEW node, NEW got, Surveyed(v, node, got), Scanner \/ (Stop /\ UNCHANGED survey)
  PROVE  \E u, a : Surveyed(u, a, got)'
<1>1. (SessionStep \/ Stop \/ \E w \in Worker : WorkerStep(w)) /\ UNCHANGED survey
  BY DEF Scanner
<1>2. PICK u, a : Delivery(u, a, got)'
  BY <1>1, StepDelivers DEF Surveyed
<1>3. index' = index /\ next' = next /\ phase' = phase /\ groups' = groups
  BY <1>1 DEF survey
<1>4. Records' = Records
  BY <1>3 DEF Records
<1>5. DirsOK'
  BY <1>1, StepDirs DEF Surveyed, Recorded
<1>6. Recorded'
  BY <1>3, <1>4, <1>5 DEF Surveyed, Recorded
<1>7. Progress'
  BY <1>1, <1>3, <1>4, OverStays DEF Surveyed, Progress
<1>8. Covers(Records, got)'
  BY <1>4 DEF Surveyed
<1> QED BY <1>2, <1>6, <1>7, <1>8 DEF Surveyed

(* So do the folders when the scan stands still.                           *)
LEMMA DirsStay == ASSUME DirsOK, UNCHANGED scanVars PROVE DirsOK'
BY DEF DirsOK, PathSet, scanVars, find

(* The analysis keeps it.                                                  *)
LEMMA AnalyseSurveyed ==
  ASSUME NEW v, NEW node, NEW got, Surveyed(v, node, got), Analyse
  PROVE  Surveyed(v, node, got)'
<1>1. UNCHANGED scanVars /\ index' = index /\ next' = next
  BY DEF Analyse
<1>2. Records' = Records /\ at' = at
  BY <1>1 DEF Records, scanVars
<1>3. Delivery(v, node, got)'
  BY <1>1, IdleDelivers DEF Surveyed
<1>4. Recorded'
  BY <1>1, <1>2, DirsStay DEF Surveyed, Recorded
<1>5. Offers(groups')
  <2>1. CASE groups' = groups
    BY <2>1 DEF Surveyed, Progress
  <2>2. CASE groups' = FolderGroups(dirs, GetAll(index), farm)
    <3>0. Sound(index)
      BY DEF Surveyed, Recorded
    <3>1. PICK D, s, recs, n : n \in Nat /\ D = dirs /\ s = farm /\ recs = GetAll(index) /\ n = Len(index.recs)
      BY <3>0, GetAllIs
    <3>2. DOMAIN recs = 1 .. n /\ \A k \in DOMAIN recs : Whole(recs[k])
      BY <3>1, GetAllIs DEF Surveyed, Recorded
    <3>3. IsFiniteSet(D) /\ D \subseteq PathSet
      BY <3>1 DEF Surveyed, Recorded, DirsOK
    <3>4. Offers(FolderGroups(D, recs, s))
      BY <3>1, <3>2, <3>3, FolderGroupsIs
    <3> QED BY <2>2, <3>1, <3>4
  <2> QED BY <2>1, <2>2 DEF Analyse
<1>6. phase' \in {"done", "publishing"} /\ at' \in {"ended", "failed", "refused"}
  BY <1>2 DEF Analyse, Over
<1>7. Progress'
  BY <1>5, <1>6 DEF Progress
<1> QED BY <1>2, <1>3, <1>4, <1>7 DEF Surveyed

(* The groups that are left can be published, too.                         *)
LEMMA TailOffers ==
  ASSUME NEW g, Offers(g), g # <<>>
  PROVE  Lawful(Head(g)) /\ Offers(Tail(g))
<1>1. PICK S : S = Range(g) /\ g \in Seq(S)
  BY DEF Offers
<1>2. PICK n \in Nat : n = Len(Tail(g)) /\ DOMAIN Tail(g) = 1 .. n /\ DOMAIN g = 1 .. n + 1
                       /\ Tail(g) \in Seq(S) /\ \A i \in 1 .. n : Tail(g)[i] = g[i + 1]
  <2>1. g \in Seq(S) /\ g # <<>>
    BY <1>1
  <2>2. Tail(g) \in Seq(S) /\ Len(Tail(g)) \in Nat /\ Len(Tail(g)) = Len(g) - 1 /\ Len(g) \in Nat
        /\ \A i \in 1 .. Len(Tail(g)) : Tail(g)[i] = g[i + 1]
    BY ONLY <2>1, HeadTailProperties, LenProperties
  <2>3. Len(g) = Len(Tail(g)) + 1
    BY <2>2
  <2> QED BY <2>1, <2>2, <2>3, LenProperties
<1>3. PICK h : h = Tail(g)
  OBVIOUS
<1>4. \A i \in 1 .. n : i + 1 \in DOMAIN g
  BY <1>2
<1>5. h \in Seq(Range(h))
  <2>1. \A i \in 1 .. n : h[i] \in Range(h)
    BY <1>2, <1>3 DEF Range
  <2>2. h = [i \in 1 .. n |-> h[i]]
    <3>1. h \in [1 .. n -> S]
      BY <1>2, <1>3, LenProperties
    <3> QED BY <3>1
  <2> QED BY <2>1, <2>2
<1>6. \A U \in Range(h) : U \in Range(g)
  BY <1>2, <1>3, <1>4 DEF Range
<1>7. ASSUME NEW i \in DOMAIN h, NEW j \in DOMAIN h, NEW u \in h[i], NEW w \in h[j], u.id[1] = w.id[1]
      PROVE  i = j
  <2>1. i \in 1 .. n /\ j \in 1 .. n /\ u \in g[i + 1] /\ w \in g[j + 1]
    BY <1>2, <1>3
  <2>2. i + 1 = j + 1
    BY <1>4, <1>7, <2>1 DEF Offers
  <2> QED BY <2>1, <2>2
<1>8. Head(g) \in Range(g)
  <2>1. Head(g) = g[1] /\ 1 \in DOMAIN g
    BY <1>1, <1>2
  <2> QED BY <2>1 DEF Range
<1> QED BY <1>3, <1>5, <1>6, <1>7, <1>8 DEF Offers

(* The units of a group upserted are merged with the index.                *)
LEMMA UnitsPut ==
  ASSUME NEW idx, Sound(idx), OnePathEach(GetAll(idx)), NEW U, Lawful(U), NEW units, units = SetToSeq(U),
         NEW a, a = UpsertBatch(idx, units)
  PROVE  Sound(a) /\ OnePathEach(GetAll(a)) /\ Merged(GetAll(idx), U, GetAll(a))
<1>1. /\ Len(units) \in Nat /\ DOMAIN units = 1 .. Len(units)
      /\ Apart(units) /\ Range(units) = U
  <2>1. IsFiniteSet(U)
    BY DEF Lawful
  <2> QED BY <2>1, SetToSeqIs
<1>2. \A j \in 1 .. Len(units) : units[j] \in U
  BY <1>1 DEF Range
<1>3. \A j \in 1 .. Len(units) : Whole(units[j])
  BY <1>2 DEF Lawful, Unitary
<1>4. \A i, j \in 1 .. Len(units) : units[i].path = units[j].path => i = j
  BY <1>1, <1>2 DEF Lawful, Apart
<1>5. Sound(a) /\ OnePathEach(GetAll(a)) /\ Merged(GetAll(idx), Upto(units, Len(units)), GetAll(a))
  BY ONLY Sound(idx), OnePathEach(GetAll(idx)), <1>1, <1>3, <1>4, a = UpsertBatch(idx, units), UpsertBatchIs
<1>6. Upto(units, Len(units)) = U
  BY <1>1 DEF Upto, Range
<1> QED BY <1>5, <1>6

(* Publishing a group puts its units into the index.                       *)
LEMMA PublishIs ==
  ASSUME Recorded, Progress, Publish, groups # <<>>
  PROVE  \E U, units : /\ U = Head(groups) /\ units = SetToSeq(U) /\ Lawful(U) /\ live' = IngestPrimary(live, units)
                       /\ Sound(index') /\ OnePathEach(Records') /\ Merged(Records, U, Records')
                       /\ groups' = Tail(groups) /\ Offers(groups') /\ phase' = phase
<1>1. PICK units : /\ units = SetToSeq(Head(groups)) /\ index' = UpsertBatch(index, units)
                   /\ live' = IngestPrimary(live, units) /\ groups' = Tail(groups) /\ phase' = phase
  BY DEF Publish
<1>2. PICK idx, a, U : idx = index /\ a = index' /\ U = Head(groups)
  OBVIOUS
<1>3. Lawful(U) /\ Offers(groups')
  BY <1>1, <1>2, TailOffers DEF Progress
<1>4. Sound(idx) /\ OnePathEach(GetAll(idx)) /\ units = SetToSeq(U) /\ a = UpsertBatch(idx, units)
  BY <1>1, <1>2 DEF Recorded, Records
<1>5. Sound(a) /\ OnePathEach(GetAll(a)) /\ Merged(GetAll(idx), U, GetAll(a))
  BY ONLY <1>3, <1>4, UnitsPut
<1>6. Records = GetAll(idx) /\ Records' = GetAll(a)
  BY <1>2, RecordsAfter DEF Records
<1> QED BY <1>1, <1>2, <1>3, <1>4, <1>5, <1>6

(* Publishing a group keeps the survey's invariant.                        *)
LEMMA PublishSurveyed ==
  ASSUME NEW v, NEW node, NEW got, Surveyed(v, node, got), Publish
  PROVE  Surveyed(v, node, got)'
<1>1. UNCHANGED scanVars /\ next' = next
  BY DEF Publish
<1>2. at' = at
  BY <1>1 DEF scanVars
<1>3. Delivery(v, node, got)' /\ DirsOK'
  BY <1>1, IdleDelivers, DirsStay DEF Surveyed, Recorded
<1>4. phase = "publishing"
  BY DEF Publish
<1>5. CASE groups # <<>>
  <2>1. PICK U : /\ Lawful(U) /\ Sound(index') /\ OnePathEach(Records') /\ Merged(Records, U, Records')
                 /\ Offers(groups') /\ phase' = phase
    BY <1>5, PublishIs DEF Surveyed
  <2>2. PICK s, t, m : s = Records /\ t = Records' /\ m = next
    OBVIOUS
  <2>3. (\A u \in U : Unitary(u) /\ u.id[1] # "file") /\ Merged(s, U, t) /\ OnePathEach(t)
    BY <2>1, <2>2 DEF Lawful
  <2>4. Catalogue(s, m) /\ Covers(s, got)
    BY <2>2 DEF Surveyed, Recorded
  <2>5. Catalogue(t, m)
    BY <2>3, <2>4, UnitsCatalogue
  <2>6. Covers(t, got)
    BY <2>3, <2>4, UnitsCover
  <2>7. Recorded'
    BY <1>1, <1>3, <2>1, <2>2, <2>5 DEF Surveyed, Recorded
  <2>8. Progress'
    BY <1>2, <1>4, <2>1 DEF Surveyed, Progress
  <2>9. Covers(Records, got)'
    BY <2>2, <2>6
  <2> QED BY <1>3, <2>7, <2>8, <2>9 DEF Surveyed
<1>6. CASE groups = <<>>
  <2>1. phase' = "done" /\ index' = index /\ groups' = groups
    BY <1>6 DEF Publish
  <2>2. Records' = Records
    BY <2>1 DEF Records
  <2>3. Recorded'
    BY <1>1, <1>3, <2>1, <2>2 DEF Surveyed, Recorded
  <2>4. Progress'
    BY <1>2, <1>4, <2>1, <2>2 DEF Surveyed, Progress
  <2>5. Covers(Records, got)'
    BY <2>2 DEF Surveyed
  <2> QED BY <1>3, <2>3, <2>4, <2>5 DEF Surveyed
<1> QED BY <1>5, <1>6

(* Changing the records one by one.                                        *)
LEMMA ChangeSurveyed ==
  ASSUME NEW v, NEW node, NEW got, Surveyed(v, node, got), UNCHANGED scanVars,
         next' = next, phase' = phase \/ (phase = "done" /\ phase' = "judged again"), groups' = groups,
         Sound(index'), DOMAIN Records' = DOMAIN Records, \A k \in DOMAIN Records : Alike(Records'[k], Records[k])
  PROVE  Surveyed(v, node, got)'
<1>1. PICK s, t, m : s = Records /\ t = Records' /\ m = next
  OBVIOUS
<1>2. Catalogue(s, m) /\ Covers(s, got) /\ OnePathEach(s) /\ (phase = "scanning" => OnlyFiles(s))
  BY <1>1 DEF Surveyed, Recorded, Progress
<1>3. DOMAIN t = DOMAIN s /\ \A k \in DOMAIN s : Alike(t[k], s[k])
  BY <1>1
<1>4. Catalogue(t, m) /\ Covers(t, got) /\ OnePathEach(t) /\ (phase = "scanning" => OnlyFiles(t))
  BY <1>2, <1>3, AlikeStays
<1>5. Delivery(v, node, got)' /\ DirsOK' /\ at' = at
  BY IdleDelivers, DirsStay DEF Surveyed, Recorded, scanVars
<1>6. Recorded'
  BY <1>1, <1>4, <1>5 DEF Surveyed, Recorded
<1>7. Progress'
  <2>1. Offers(groups') /\ (phase' = "scanning" => OnlyFiles(Records'))
    BY <1>1, <1>4 DEF Surveyed, Progress
  <2>2. phase' \in {"scanning", "publishing", "done", "judged again"}
    BY DEF Surveyed, Progress
  <2>3. phase' # "scanning" => at' \in {"ended", "failed", "refused"}
    BY <1>5 DEF Surveyed, Progress
  <2> QED BY <2>1, <2>2, <2>3 DEF Progress
<1>8. Covers(Records, got)'
  BY <1>1, <1>4
<1> QED BY <1>5, <1>6, <1>7, <1>8 DEF Surveyed

(* A record after the decision to keep the record id.                      *)
KeptAs(x, id) == IF x.id = id THEN [x EXCEPT !.decision = "keep"] ELSE x

(* It is as before but for its decision.                                   *)
LEMMA KeptAsIs ==
  ASSUME NEW x, Whole(x), NEW id, NEW y, y = KeptAs(x, id)
  PROVE  /\ Whole(y) /\ Alike(y, x) /\ y.cat = x.cat
         /\ x.id = id => y.decision = "keep"
         /\ x.id # id => y = x
         /\ x.decision = "keep" => y = x
<1>1. CASE x.id = id
  <2>1. x = [id |-> x.id, path |-> x.path, size |-> x.size, used |-> x.used, changed |-> x.changed,
             unit |-> x.unit, cat |-> x.cat, safety |-> x.safety, decision |-> x.decision]
    BY DEF Whole
  <2>2. y = [id |-> x.id, path |-> x.path, size |-> x.size, used |-> x.used, changed |-> x.changed,
             unit |-> x.unit, cat |-> x.cat, safety |-> x.safety, decision |-> "keep"]
    BY <1>1, <2>1 DEF KeptAs
  <2>3. /\ y.id = x.id /\ y.path = x.path /\ y.size = x.size /\ y.used = x.used /\ y.changed = x.changed
        /\ y.unit = x.unit /\ y.cat = x.cat /\ y.safety = x.safety /\ y.decision = "keep"
    BY ONLY <2>2
  <2>4. Whole(y)
    BY <2>2, <2>3 DEF Whole
  <2>5. x.decision = "keep" => y = x
    BY <2>1, <2>2
  <2> QED BY <1>1, <2>3, <2>4, <2>5 DEF Alike
<1>2. CASE x.id # id
  BY <1>2 DEF KeptAs, Alike
<1> QED BY <1>1, <1>2

(* A function applied to every record.                                     *)
LEMMA ChangedIs ==
  ASSUME Recorded, NEW change, index' = ForEach(index, change),
         \A x \in Range(Records) : Whole(change[x]) /\ Alike(change[x], x)
  PROVE  /\ Sound(index') /\ DOMAIN Records' = DOMAIN Records
         /\ \A k \in DOMAIN Records : Records'[k] = change[Records[k]] /\ Alike(Records'[k], Records[k])
                                      /\ Whole(Records[k])
<1>1. PICK idx, a : idx = index /\ a = index'
  OBVIOUS
<1>2. Sound(idx) /\ a = ForEach(idx, change) /\ GetAll(idx) = Records /\ GetAll(a) = Records'
  BY <1>1, RecordsAfter DEF Recorded, Records
<1>3. \A x \in Range(GetAll(idx)) : Whole(change[x]) /\ change[x].path = x.path
  BY <1>2 DEF Alike
<1>4. /\ Sound(a) /\ DOMAIN GetAll(a) = DOMAIN GetAll(idx)
      /\ \A k \in DOMAIN GetAll(idx) : GetAll(a)[k] = change[GetAll(idx)[k]]
  BY ONLY <1>2, <1>3, ForEachIs
<1>5. \A k \in DOMAIN Records : Records[k] \in Range(Records) /\ Whole(Records[k])
  BY <1>2, GetAllIs DEF Range
<1> QED BY <1>1, <1>2, <1>4, <1>5

(* A decision changes the records of one name and nothing else.            *)
LEMMA KeepIs ==
  ASSUME Recorded, Keep
  PROVE  \E r \in Range(Records) :
           /\ r.cat # "none" /\ Decide(r) /\ Sound(index') /\ DOMAIN Records' = DOMAIN Records
           /\ \A k \in DOMAIN Records : /\ Records'[k] = KeptAs(Records[k], r.id)
                                        /\ Alike(Records'[k], Records[k]) /\ Whole(Records[k])
<1>1. PICK r \in Range(Records) : r.cat # "none" /\ Decide(r)
  BY DEF Keep, Records
<1>2. PICK id : id = r.id
  OBVIOUS
<1>3. PICK change : change = [x \in Range(Records) |-> KeptAs(x, id)]
  OBVIOUS
<1>4. index' = ForEach(index, change)
  BY <1>1, <1>2, <1>3 DEF Decide, Kept, KeptAs, Records
<1>5. \A x \in Range(Records) : Whole(x)
  BY GetAllIs DEF Recorded, Records, Range
<1>6. \A x \in Range(Records) : Whole(change[x]) /\ Alike(change[x], x)
  BY <1>3, <1>5, KeptAsIs
<1>7. /\ Sound(index') /\ DOMAIN Records' = DOMAIN Records
      /\ \A k \in DOMAIN Records : Records'[k] = change[Records[k]] /\ Alike(Records'[k], Records[k])
                                   /\ Whole(Records[k])
  BY <1>4, <1>6, ChangedIs
<1>8. \A k \in DOMAIN Records : change[Records[k]] = KeptAs(Records[k], id)
  BY <1>3 DEF Range
<1> QED BY <1>1, <1>2, <1>7, <1>8

(* A record judged anew.                                                   *)
Cleaned(s, r) == Judged(s, r, TRUE)

(* It is as before but for its category and its safety, and all as
   before if it is to be kept.                                             *)
LEMMA CleanedIs ==
  ASSUME NEW s, NEW r, Whole(r), NEW j, j = Cleaned(s, r)
  PROVE  Alike(j, r) /\ Whole(j) /\ j.decision = r.decision /\ (r.decision = "keep" => j = r)
<1>1. PICK w : w = TRUE
  OBVIOUS
<1>2. j = Judged(s, r, w)
  BY <1>1 DEF Cleaned
<1>3. /\ Whole(j) /\ j.path = r.path /\ j.id = r.id /\ j.size = r.size
      /\ j.changed = r.changed /\ j.unit = r.unit /\ j.decision = r.decision
      /\ r.decision = "keep" => j = r
  BY ONLY <1>2, Whole(r), JudgedIs
<1> QED BY <1>3 DEF Alike

(* New settings judge every record and count the totals anew.              *)
LEMMA SettingsAre ==
  ASSUME Recorded, ApplySettings
  PROVE  /\ farm' \in world.later /\ live' = IngestPrimary(<<>>, Records')
         /\ Sound(index') /\ DOMAIN Records' = DOMAIN Records
         /\ \A k \in DOMAIN Records : /\ Records'[k] = Cleaned(farm', Records[k])
                                      /\ Alike(Records'[k], Records[k]) /\ Whole(Records[k])
<1>1. PICK s \in world.later : /\ farm' = s
                               /\ index' = ForEach(index, [r \in Range(GetAll(index)) |-> Judged(s, r, TRUE)])
  BY DEF ApplySettings
<1>2. PICK change : change = [x \in Range(Records) |-> Cleaned(s, x)]
  OBVIOUS
<1>3. index' = ForEach(index, change)
  BY <1>1, <1>2 DEF Cleaned, Records
<1>4. \A x \in Range(Records) : Whole(x)
  BY GetAllIs DEF Recorded, Records, Range
<1>5. \A x \in Range(Records) : Whole(change[x]) /\ Alike(change[x], x)
  BY <1>2, <1>4, CleanedIs
<1>6. /\ Sound(index') /\ DOMAIN Records' = DOMAIN Records
      /\ \A k \in DOMAIN Records : Records'[k] = change[Records[k]] /\ Alike(Records'[k], Records[k])
                                   /\ Whole(Records[k])
  BY <1>3, <1>5, ChangedIs
<1>7. \A k \in DOMAIN Records : change[Records[k]] = Cleaned(s, Records[k])
  BY <1>2 DEF Range
<1>8. live' = IngestPrimary(<<>>, Records')
  BY RecordsAfter DEF ApplySettings
<1> QED BY <1>1, <1>6, <1>7, <1>8

(* The inductive invariant of the specification.                           *)
SurveyInv == \E v, node, got : Surveyed(v, node, got)

(* A decision and new settings keep the survey's invariant.                *)
LEMMA KeepSurveyed ==
  ASSUME NEW v, NEW node, NEW got, Surveyed(v, node, got), Keep \/ ApplySettings
  PROVE  Surveyed(v, node, got)'
<1>1. /\ UNCHANGED scanVars /\ next' = next /\ groups' = groups
      /\ phase' = phase \/ (phase = "done" /\ phase' = "judged again")
  BY DEF Keep, ApplySettings
<1>2. Recorded
  BY DEF Surveyed
<1>3. /\ Sound(index') /\ DOMAIN Records' = DOMAIN Records
      /\ \A k \in DOMAIN Records : Alike(Records'[k], Records[k])
  <2>1. CASE Keep
    BY <1>2, <2>1, KeepIs
  <2>2. CASE ApplySettings
    BY <1>2, <2>2, SettingsAre
  <2> QED BY <2>1, <2>2
<1> QED BY <1>1, <1>3, ChangeSurveyed

(* An empty index is sound.                                                *)
LEMMA EmptyIs == Sound(EmptyIndex) /\ DOMAIN GetAll(EmptyIndex) = {}
<1>1. PICK e : e = EmptyIndex
  OBVIOUS
<1>2. e = [folders |-> <<>>, names |-> <<>>, recs |-> <<>>]
  BY <1>1 DEF EmptyIndex
<1>3. e.folders = <<>> /\ e.names = <<>> /\ e.recs = <<>>
  BY <1>2
<1>4. DOMAIN e.recs = {} /\ DOMAIN e.folders = {} /\ DOMAIN e.names = {}
  BY <1>3
<1>5. e.folders \in Seq(Seq(Words)) /\ e.names \in Seq(Words) /\ e.recs \in Seq(Range(e.recs))
  BY <1>3, EmptySeq
<1>6. e = [folders |-> e.folders, names |-> e.names, recs |-> e.recs]
  BY <1>2, <1>3
<1>7. Sound(e)
  BY <1>4, <1>5, <1>6 DEF Sound, Apart
<1>8. DOMAIN GetAll(e) = {}
  BY <1>4 DEF GetAll
<1> QED BY <1>1, <1>7, <1>8

(* The survey's invariant holds at first.                                  *)
LEMMA InitSurveyed == Init => SurveyInv
<1> SUFFICES ASSUME Init PROVE SurveyInv
  OBVIOUS
<1>1. PICK v, a : Delivery(v, a, {})
  BY InitDelivers DEF Init
<1>2. Sound(index) /\ DOMAIN Records = {}
  BY EmptyIs DEF Init, Records
<1>3. OnePathEach(Records) /\ (\A n : Catalogue(Records, n)) /\ Covers(Records, {}) /\ OnlyFiles(Records)
  BY <1>2 DEF OnePathEach, Catalogue, Covers, OnlyFiles
<1>4. DirsOK
  BY FS_EmptySet DEF Init, ScanInit, DirsOK
<1>5. next \in Nat
  BY DEF Init
<1>6. Recorded
  BY <1>2, <1>3, <1>4, <1>5 DEF Recorded
<1>7. Offers(groups)
  <2>1. groups = <<>>
    BY DEF Init
  <2>2. DOMAIN groups = {} /\ Range(groups) = {}
    BY <2>1 DEF Range
  <2>3. groups \in Seq(Range(groups))
    BY <2>1, EmptySeq
  <2> QED BY <2>2, <2>3 DEF Offers
<1>8. phase \in {"scanning", "done"} /\ (phase # "scanning" => at = "refused")
  BY DEF Init
<1>9. Progress
  BY <1>3, <1>7, <1>8 DEF Progress
<1> QED BY <1>1, <1>3, <1>6, <1>9 DEF SurveyInv, Surveyed

(* A step that changes nothing keeps it.                                   *)
LEMMA IdleSurveyed ==
  ASSUME NEW v, NEW node, NEW got, Surveyed(v, node, got), UNCHANGED vars
  PROVE  Surveyed(v, node, got)'
<1>1. UNCHANGED scanVars /\ index' = index /\ next' = next /\ phase' = phase /\ groups' = groups
  BY DEF vars, survey
<1>2. Records' = Records
  BY <1>1 DEF Records
<1>3. DOMAIN Records' = DOMAIN Records /\ Sound(index') /\ \A k \in DOMAIN Records : Alike(Records'[k], Records[k])
  BY <1>1, <1>2 DEF Alike, Surveyed, Recorded
<1> QED BY <1>1, <1>3, ChangeSurveyed

(* Every step keeps it.                                                    *)
LEMMA NextSurveyed == SurveyInv /\ [Next]_vars => SurveyInv'
<1> SUFFICES ASSUME NEW v, NEW node, NEW got, Surveyed(v, node, got), [Next]_vars
             PROVE  \E u, a, more : Surveyed(u, a, more)'
  BY DEF SurveyInv
<1>1. CASE Scanner \/ (Stop /\ UNCHANGED survey)
  BY <1>1, ScannerSurveyed
<1>2. CASE OnBatch
  BY <1>2, BatchSurveyed
<1>3. CASE Analyse
  BY <1>3, AnalyseSurveyed
<1>4. CASE Publish
  BY <1>4, PublishSurveyed
<1>5. CASE Keep \/ ApplySettings
  BY <1>5, KeepSurveyed
<1>6. CASE UNCHANGED vars
  BY <1>6, IdleSurveyed
<1> QED BY <1>1, <1>2, <1>3, <1>4, <1>5, <1>6 DEF Next, User

(* The index of the survey is sound all the way: every stored record
   lies in the tables, no path and no name is there twice, what the scan
   has delivered is there as a file or under a unit of its path
   (MemoryIndex::insert_batch, upsert_batch; the survey of
   scan_runtime).                                                          *)
THEOREM SurveyInvariant == Spec => []SurveyInv
BY InitSurveyed, NextSurveyed, PTL DEF Spec

(* What there is to find and not too deep, and the rest of what
   ScanDelivers says.                                                      *)
Reached == {f \in All : Len(f.path) <= MaxDepth + 2}

NothingElse ==
  /\ \A k, l \in DOMAIN index.recs : k # l =>
       index.recs[k].id # index.recs[l].id /\ PathAt(index, index.recs[k]) # PathAt(index, index.recs[l])
  /\ {[path |-> r.path, size |-> r.size, changed |-> r.changed] : r \in Files} \subseteq All

(* What the scan reports of a volume is there to find, and all of it
   that is not too deep is reported.                                       *)
LEMMA WithinFindable ==
  ASSUME NEW v, Disk(v)
  PROVE  /\ Within(v) \subseteq Findable(v)
         /\ \A f \in Findable(v) : Len(f.path) <= MaxDepth + 2 => f \in Within(v)
<1>1. Findable(v) = {Fact(v, k) : k \in Sought(v)}
  BY FindableIs
<1>2. Within(v) = {Fact(v, k) : k \in Near(v)}
  BY DEF Within, Facts
<1>3. Near(v) \subseteq Sought(v)
  BY DEF Near, Seen, Sought
<1>4. ASSUME NEW k \in Sought(v), Len(Fact(v, k).path) <= MaxDepth + 2 PROVE k \in Near(v)
  <2>1. k \in Reach(v)
    BY DEF Sought
  <2>2. PICK d : d = Depth(v, Parent(v, k))
    OBVIOUS
  <2>3. d \in Nat /\ Depth(v, k) = d + 1 /\ Len(PathTo(v, k)) = Depth(v, k) + 1
    BY <2>1, <2>2, PathToIs
  <2>4. d <= MaxDepth
    <3>1. Fact(v, k).path = PathTo(v, k)
      BY DEF Fact
    <3>2. MaxDepth \in Nat /\ d + 1 + 1 <= MaxDepth + 2
      BY <1>4, <2>3, <3>1, BoundsOK
    <3> QED BY <2>3, <3>2
  <2> QED BY <2>2, <2>4 DEF Near, Seen, Sought
<1> QED BY <1>1, <1>2, <1>3, <1>4

(* Once every volume is done with, all that is not too deep is reported.   *)
LEMMA EarlierAll ==
  ASSUME SessionTypes
  PROVE  /\ \A n : Earlier(n) \subseteq All
         /\ volume > Len(volumes) => Reached \subseteq Earlier(volume)
<1>1. \A j \in DOMAIN volumes : Disk(volumes[j]) /\ volumes[j] \in Range(volumes)
  BY LenProperties DEF Disk, SessionTypes, Range
<1>2. ASSUME NEW n PROVE Earlier(n) \subseteq All
  BY <1>1, WithinFindable DEF Earlier, All
<1>3. ASSUME volume > Len(volumes), NEW f \in Reached PROVE f \in Earlier(volume)
  <2>1. PICK j \in DOMAIN volumes : f \in Findable(volumes[j])
    BY DEF Reached, All, Range
  <2>2. Len(f.path) <= MaxDepth + 2
    BY DEF Reached
  <2>3. f \in Within(volumes[j])
    BY <1>1, <1>3, <2>1, <2>2, WithinFindable
  <2>4. j < volume
    <3>1. PICK n \in Nat : n = Len(volumes) /\ DOMAIN volumes = 1 .. n
      BY LenProperties DEF SessionTypes
    <3>2. PICK c \in Nat : c = volume
      BY DEF SessionTypes
    <3> QED BY <1>3, <3>1, <3>2
  <2> QED BY <2>3, <2>4 DEF Earlier
<1> QED BY <1>2, <1>3

(* The survey's invariant gives ScanDelivers.                              *)
LEMMA SurveyDelivers == SurveyInv => ScanDelivers
<1> SUFFICES ASSUME NEW v, NEW node, NEW got, Surveyed(v, node, got)
             PROVE  ScanDelivers
  BY DEF SurveyInv
<1>1. /\ DOMAIN Records = DOMAIN index.recs
      /\ \A k \in DOMAIN index.recs : /\ Records[k] = Unpacked(index, index.recs[k])
                                      /\ PathAt(index, index.recs[k]) = Records[k].path
  BY GetAllIs DEF Surveyed, Recorded, Records
<1>2. \A k \in DOMAIN index.recs : Records[k].id = index.recs[k].id
  <2> SUFFICES ASSUME NEW k \in DOMAIN index.recs PROVE Records[k].id = index.recs[k].id
    OBVIOUS
  <2>1. PICK i, c, x : i = index /\ c = index.recs[k] /\ x = Records[k]
    OBVIOUS
  <2>2. x = Unpacked(i, c)
    BY <1>1, <2>1
  <2>3. x.id = c.id
    BY ONLY <2>2 DEF Unpacked
  <2> QED BY <2>1, <2>3
<1>3. ASSUME NEW k \in DOMAIN index.recs, NEW l \in DOMAIN index.recs, k # l
      PROVE  index.recs[k].id # index.recs[l].id /\ PathAt(index, index.recs[k]) # PathAt(index, index.recs[l])
  BY <1>1, <1>2, <1>3 DEF Surveyed, Recorded, Catalogue, OnePathEach
<1>4. Covers(Records, got) /\ SessionTypes
  BY DEF Surveyed, Delivery
<1>5. got \subseteq Earlier(volume + 1)
  BY DEF Surveyed, Delivery, Exact
<1>6. got \subseteq All
  BY <1>4, <1>5, EarlierAll
<1>7. \A r \in Files : Told(r) \in got
  BY <1>4 DEF Files, Records, Range, IsFile, Covers
<1>8. NothingElse
  BY <1>3, <1>6, <1>7 DEF NothingElse, Told
<1>9. ASSUME at = "ended", ~cut
      PROVE  {f.path : f \in Reached} \subseteq {r.path : r \in Range(GetAll(index))}
  <2>1. got = Earlier(volume) /\ volume > Len(volumes)
    BY <1>9 DEF Surveyed, Delivery, Exact, Placed
  <2>2. Reached \subseteq got
    BY <1>4, <1>9, <2>1, EarlierAll
  <2>3. \A f \in got : \E r \in Range(Records) : r.path = f.path
    BY <1>4 DEF Covers, Range
  <2> QED BY <2>2, <2>3 DEF Records
<1> QED BY <1>8, <1>9 DEF NothingElse, ScanDelivers, Over, Reached

(* The scan loses no file and invents none: in every state each record
   of the index has a name and a path of its own and every file there is
   truly on the disk, and after a session that was not cut short every
   file that is neither excluded nor too deep is in the index, as itself
   or in a unit that replaced it.                                          *)
THEOREM ScanDeliversAlways == Spec => []ScanDelivers
BY SurveyInvariant, SurveyDelivers, PTL

-----------------------------------------------------------------------------
(* What records are filed as.                                              *)

(* The categories of the detectors of files.                               *)
Named == {"large_files", "old_files", "forgotten_videos", "archives", "installers", "temp_files", "app_caches"}

(* What the detectors say a record is.                                     *)
Answer(s, r) == IF Hits(s, r) = <<>> THEN "none" ELSE Head(Hits(s, r))

(* The detectors that find a record are those on duty whose condition it
   meets.                                                                  *)
LEMMA HitsIs ==
  ASSUME NEW s, NEW r
  PROVE  /\ Hits(s, r) = Only(Farm, {d \in s.enabled : Finds(s, r)[d]})
         /\ Range(Hits(s, r)) \subseteq Named
         /\ Hits(s, r) # <<>> => Head(Hits(s, r)) \in Named
         /\ Hits(s, r) = <<>> <=> Range(Hits(s, r)) = {}
<1>1. PICK S : S = {d \in s.enabled : Finds(s, r)[d]}
  OBVIOUS
<1>2. PICK h : h = Hits(s, r)
  OBVIOUS
<1>3. h = Only(Farm, S)
  BY <1>1, <1>2 DEF Hits
<1>4. Farm \in Seq(Named)
  BY DEF Farm, Named
<1>5. PICK X : X = Named
  OBVIOUS
<1>6. PICK g : g = Farm /\ g \in Seq(X)
  BY <1>4, <1>5
<1>7. h \in Seq(X)
  BY <1>3, <1>6, OnlyIs
<1>8. \A i \in DOMAIN h : h[i] \in X
  BY <1>7
<1>9. h # <<>> => Head(h) \in X /\ 1 \in DOMAIN h
  BY <1>7
<1>10. h = <<>> => DOMAIN h = {}
  OBVIOUS
<1> QED BY <1>1, <1>2, <1>3, <1>5, <1>8, <1>9, <1>10 DEF Range

(* A record is judged by what does not depend on how it is filed.          *)
LEMMA HitsAlike ==
  ASSUME NEW s, NEW r, NEW x, x.unit = r.unit, x.size = r.size, x.used = r.used, x.changed = r.changed,
         x.path = r.path
  PROVE  Hits(s, x) = Hits(s, r) /\ Answer(s, x) = Answer(s, r)
<1>1. IsFile(x) <=> IsFile(r)
  BY DEF IsFile
<1>2. Date(x) = Date(r)
  BY DEF Date
<1>3. Finds(s, x) = Finds(s, r)
  BY <1>1, <1>2 DEF Finds, LargeFiles, OldFiles, ForgottenVideos, Archives, Installers, TempFiles, AppCaches, OlderThan
<1>4. Hits(s, x) = Hits(s, r)
  BY <1>3 DEF Hits
<1> QED BY <1>4 DEF Answer

(* Their answer is a category of theirs, or none if none of them finds
   it.                                                                     *)
LEMMA AnswerIs ==
  ASSUME NEW s, NEW r
  PROVE  Answer(s, r) \in Named \cup {"none"} /\ (Answer(s, r) = "none" <=> Range(Hits(s, r)) = {})
<1>1. "none" \notin Named
  BY DEF Named
<1> QED BY <1>1, HitsIs DEF Answer

(* A record judged from a clean start has the answer as its category.      *)
LEMMA JudgedAnswer ==
  ASSUME NEW s, NEW r, Whole(r), r.decision # "keep", NEW clear,
         r.cat = "none" \/ (clear /\ r.cat # "duplicates"), NEW j, j = Judged(s, r, clear)
  PROVE  j.cat = Answer(s, j)
<1>1. j.path = r.path /\ j.size = r.size /\ j.used = r.used /\ j.changed = r.changed /\ j.unit = r.unit
  BY JudgedIs
<1>2. Answer(s, j) = Answer(s, r)
  BY <1>1, HitsAlike
<1>3. PICK h : h = Hits(s, r)
  OBVIOUS
<1>4. r = [id |-> r.id, path |-> r.path, size |-> r.size, used |-> r.used, changed |-> r.changed,
           unit |-> r.unit, cat |-> r.cat, safety |-> r.safety, decision |-> r.decision]
  BY DEF Whole
<1>5. \A c, f : [r EXCEPT !.cat = c, !.safety = f].cat = c
  BY <1>4
<1>6. CASE h # <<>>
  <2>1. PICK d : d = Head(h)
    OBVIOUS
  <2>2. j = Primary(r, d)
    BY <1>3, <1>6, <2>1 DEF Judged
  <2>3. j.cat = d
    BY <1>5, <2>2 DEF Primary
  <2> QED BY <1>2, <1>3, <1>6, <2>1, <2>3 DEF Answer
<1>7. CASE h = <<>>
  <2>1. Answer(s, r) = "none"
    BY <1>3, <1>7 DEF Answer
  <2>2. CASE r.cat = "none"
    <3>1. j = r
      BY <1>3, <1>7, <2>2 DEF Judged
    <3> QED BY <1>2, <2>1, <2>2, <3>1
  <2>3. CASE r.cat # "none"
    <3>1. j = Cleared(r)
      BY <1>3, <1>7, <2>3 DEF Judged
    <3> QED BY <1>2, <1>5, <2>1, <3>1 DEF Cleared
  <2> QED BY <2>2, <2>3
<1> QED BY <1>6, <1>7

(* So has a new record once filed ...                                      *)
LEMMA FiledAnswer ==
  ASSUME NEW s, NEW r, Whole(r), r.decision # "keep", r.cat = "none", NEW j, j = Filed(s, r)
  PROVE  j.cat = Answer(s, j) /\ Answer(s, j) = Answer(s, r)
<1>1. PICK w : w = FALSE
  OBVIOUS
<1>2. j = Judged(s, r, w)
  BY <1>1 DEF Filed
<1>3. j.path = r.path /\ j.size = r.size /\ j.used = r.used /\ j.changed = r.changed /\ j.unit = r.unit
  BY ONLY <1>2, Whole(r), JudgedIs
<1> QED BY <1>2, <1>3, JudgedAnswer, HitsAlike

(* ... and a record judged anew.                                           *)
LEMMA CleanedAnswer ==
  ASSUME NEW s, NEW r, Whole(r), r.decision # "keep", r.cat # "duplicates", NEW j, j = Cleaned(s, r)
  PROVE  j.cat = Answer(s, j)
<1>1. PICK w : w = TRUE
  OBVIOUS
<1>2. j = Judged(s, r, w) /\ w
  BY <1>1 DEF Cleaned
<1> QED BY <1>2, JudgedAnswer

(* What is due under the settings z, when the session has got to a.        *)
DueAt(a, z, r) == IF IsFile(r) \/ a = "judged again" THEN Answer(z, r) ELSE Promised(r.id[1])

(* The categories of units.                                                *)
LEMMA PromisedIs ==
  ASSUME NEW ns
  PROVE  Promised(ns) \in {"empty_folders", "sparse_folders", "deep_paths", "dev_artifacts"}
BY DEF Promised, CategoryOf

(* Every record is filed as is due, and no folder in the index is of a kind
   that is yet to be published.                                            *)
Suited == \A k \in DOMAIN Records : Records[k].decision # "keep" => Records[k].cat = DueAt(phase, farm, Records[k])

(* The detectors of the units in the index, and of those yet to be
   published.                                                              *)
Kinds(t) == {t[k].id[1] : k \in {l \in DOMAIN t : FolderTag(t[l])}}

(* The detectors of the groups' units.                                     *)
KindsOf(g) == UNION {{u.id[1] : u \in U} : U \in Range(g)}

(* No unit of a detector is in the index before its group is published.    *)
Unpublished == Kinds(Records) \cap KindsOf(groups) = {}

(* What is to be kept stays as it is.                                      *)
KeptStay == \A k \in DOMAIN Records :
              Records[k].decision = "keep" /\ Records'[k].id = Records[k].id => Records'[k] = Records[k]

(* Records, settings and phase that stay keep every category due.          *)
LEMMA SameFiling ==
  ASSUME Suited, Records' = Records, farm' = farm, phase' = "judged again" <=> phase = "judged again"
  PROVE  Suited' /\ KeptStay
<1>1. ASSUME NEW r PROVE DueAt(phase', farm', r) = DueAt(phase, farm, r)
  BY DEF DueAt
<1> QED BY <1>1 DEF Suited, KeptStay

(* A batch comes with the categories due.                                  *)
LEMMA BatchSuited ==
  ASSUME NEW v, NEW node, NEW got, Surveyed(v, node, got), OnBatch, Suited
  PROVE  Suited' /\ KeptStay
<1>1. PICK recs, l, n : l \in Nat /\ n \in Nat /\ Taken(recs, l, n, Records, Records')
  BY BatchIs
<1>2. PICK s, t, z, a : s = Records /\ t = Records' /\ z = farm /\ a = phase
  OBVIOUS
<1>3. farm' = z /\ phase' = a
  BY <1>2 DEF OnBatch
<1>4. PICK pos : Joins(recs, n, s, t, pos)
  <2>1. Taken(recs, l, n, s, t)
    BY <1>1, <1>2
  <2> QED BY <1>1, <2>1, TakenIs
<1>5. /\ \A k \in DOMAIN t : k \in DOMAIN s \/ \E j \in 1 .. n : k = pos[j]
      /\ DOMAIN s \subseteq DOMAIN t /\ \A k \in DOMAIN s : t[k] = s[k]
      /\ \A j \in 1 .. n : /\ NewFile(recs[j], hand[j], next + j - 1)
                           /\ t[pos[j]] = Filed(z, recs[j]) /\ Alike(t[pos[j]], recs[j])
  BY <1>2, <1>4 DEF Joins
<1>6. ASSUME NEW j \in 1 .. n PROVE t[pos[j]].cat = DueAt(a, z, t[pos[j]])
  <2>1. PICK r, x : r = recs[j] /\ x = t[pos[j]]
    OBVIOUS
  <2>2. Whole(r) /\ r.decision # "keep" /\ r.cat = "none" /\ r.unit = "file"
    BY <1>5, <2>1 DEF NewFile
  <2>3. x = Filed(z, r) /\ x.unit = r.unit
    BY <1>5, <2>1 DEF Alike
  <2>4. x.cat = Answer(z, x)
    BY <2>2, <2>3, FiledAnswer
  <2>5. IsFile(x)
    BY <2>2, <2>3 DEF IsFile
  <2> QED BY <2>1, <2>4, <2>5 DEF DueAt
<1>7. \A k \in DOMAIN s : s[k].decision # "keep" => s[k].cat = DueAt(a, z, s[k])
  BY <1>2 DEF Suited
<1>8. \A k \in DOMAIN t : t[k].decision # "keep" => t[k].cat = DueAt(a, z, t[k])
  BY <1>5, <1>6, <1>7
<1>9. Suited'
  BY <1>2, <1>3, <1>8 DEF Suited
<1> QED BY <1>2, <1>5, <1>9 DEF KeptStay

(* A unit has the category due until settings change.                      *)
LEMMA UnitDue ==
  ASSUME NEW u, Unitary(u), NEW a, a # "judged again", NEW z
  PROVE  u.cat = DueAt(a, z, u)
BY DEF Unitary, DueAt, IsFile

(* Published units have the categories due and replace no unit that is
   to be kept.                                                             *)
LEMMA PublishSuited ==
  ASSUME NEW v, NEW node, NEW got, Surveyed(v, node, got), Publish, Suited, Unpublished
  PROVE  Suited' /\ KeptStay /\ Unpublished'
<1>1. farm' = farm /\ phase # "judged again" /\ phase' # "judged again"
  BY DEF Publish
<1>2. CASE groups = <<>>
  <2>1. Records' = Records /\ groups' = groups
    BY <1>2 DEF Publish, Records
  <2>2. Unpublished'
    BY <2>1 DEF Unpublished
  <2> QED BY <1>1, <2>1, <2>2, SameFiling
<1>3. CASE groups # <<>>
  <2>1. PICK U : /\ U = Head(groups) /\ Lawful(U) /\ Sound(index') /\ OnePathEach(Records')
                 /\ Merged(Records, U, Records') /\ groups' = Tail(groups)
    BY <1>3, PublishIs DEF Surveyed
  <2>2. PICK s, t, z, a, g, b : s = Records /\ t = Records' /\ z = farm /\ a = phase /\ g = groups /\ b = phase'
    OBVIOUS
  <2>3. /\ \A k \in DOMAIN t : t[k] \in U \/ (k \in DOMAIN s /\ t[k] = s[k])
        /\ \A k \in DOMAIN s : t[k].path = s[k].path
    BY <2>1, <2>2 DEF Merged
  <2>4. \A u \in U : Unitary(u) /\ u.id[1] # "file" /\ u.cat = DueAt(b, z, u)
    BY <1>1, <2>1, <2>2, UnitDue DEF Lawful
  <2>5. \A k \in DOMAIN s : s[k].decision # "keep" => s[k].cat = DueAt(a, z, s[k])
    BY <2>2 DEF Suited
  <2>6. \A r : DueAt(b, z, r) = DueAt(a, z, r)
    BY <1>1, <2>2 DEF DueAt
  <2>7. \A k \in DOMAIN t : t[k].decision # "keep" => t[k].cat = DueAt(b, z, t[k])
    BY <2>3, <2>4, <2>5, <2>6
  <2>8. Suited'
    BY <1>1, <2>2, <2>7 DEF Suited
  <2>9. Offers(g) /\ g # <<>> /\ Kinds(s) \cap KindsOf(g) = {}
    BY <1>3, <2>2 DEF Surveyed, Progress, Unpublished
  <2>10. /\ U = g[1] /\ 1 \in DOMAIN g
         /\ \A i \in DOMAIN Tail(g) : i + 1 \in DOMAIN g /\ i + 1 # 1 /\ Tail(g)[i] = g[i + 1]
    <3>1. PICK S : g \in Seq(S)
      BY <2>9 DEF Offers
    <3>2. U = Head(g)
      BY <2>1, <2>2
    <3>3. PICK m \in Nat : /\ m = Len(Tail(g)) /\ DOMAIN Tail(g) = 1 .. m /\ Len(g) = m + 1 /\ DOMAIN g = 1 .. m + 1
                          /\ \A i \in 1 .. m : Tail(g)[i] = g[i + 1]
      <4>1. Tail(g) \in Seq(S) /\ Len(Tail(g)) \in Nat /\ Len(Tail(g)) = Len(g) - 1 /\ Len(g) \in Nat
            /\ \A i \in 1 .. Len(Tail(g)) : Tail(g)[i] = g[i + 1]
        BY ONLY <2>9, <3>1, HeadTailProperties, LenProperties
      <4>2. Len(g) = Len(Tail(g)) + 1
        BY <4>1
      <4> QED BY <3>1, <4>1, <4>2, LenProperties
    <3>4. Head(g) = g[1]
      BY <3>1
    <3>5. 1 \in 1 .. m + 1 /\ \A i \in 1 .. m : i + 1 \in 1 .. m + 1 /\ i + 1 # 1
      OBVIOUS
    <3>6. \A i \in DOMAIN Tail(g) : i + 1 \in DOMAIN g /\ i + 1 # 1 /\ Tail(g)[i] = g[i + 1]
      <4> SUFFICES ASSUME NEW i \in 1 .. m PROVE i + 1 \in DOMAIN g /\ i + 1 # 1 /\ Tail(g)[i] = g[i + 1]
        BY <3>3, Zenon
      <4> QED BY <3>3, <3>5
    <3> QED BY <3>2, <3>3, <3>4, <3>5, <3>6
  <2>11. U \in Range(g)
    BY <2>10 DEF Range
  <2>12. \A u \in U : u.id[1] \in KindsOf(g)
    BY <2>11 DEF KindsOf
  <2>13. ASSUME NEW k \in DOMAIN s, s[k].decision = "keep", t[k].id = s[k].id PROVE t[k] = s[k]
    <3> SUFFICES ASSUME t[k] \in U PROVE FALSE
      <4>1. k \in DOMAIN t
        BY <2>1, <2>2 DEF Merged
      <4> QED BY <2>3, <4>1
    <3>1. PICK u \in U : u = t[k]
      OBVIOUS
    <3>2. s[k].id[1] = u.id[1]
      BY <2>13, <3>1
    <3>3. PICK m : FileTag(s[k], m) \/ FolderTag(s[k])
      BY <2>2 DEF Surveyed, Recorded, Catalogue
    <3>4. CASE FolderTag(s[k])
      <4>1. u.id[1] \in Kinds(s)
        BY <3>2, <3>4 DEF Kinds
      <4> QED BY <2>9, <2>12, <4>1
    <3>5. CASE FileTag(s[k], m)
      <4>1. PICK c : s[k].id = FileId(c)
        BY <3>5 DEF FileTag
      <4>2. u.id[1] = "file"
        BY <3>2, <4>1 DEF FileId
      <4> QED BY <2>4, <4>2
    <3> QED BY <3>3, <3>4, <3>5
  <2>14. KeptStay
    BY <2>2, <2>13 DEF KeptStay
  <2>15. Kinds(t) \subseteq Kinds(s) \cup {u.id[1] : u \in U}
    BY <2>3 DEF Kinds
  <2>16. KindsOf(Tail(g)) \subseteq KindsOf(g)
    BY <2>10 DEF KindsOf, Range
  <2>17. ASSUME NEW x \in KindsOf(Tail(g)), NEW u \in U, x = u.id[1] PROVE FALSE
    <3>1. PICK i \in DOMAIN Tail(g) : \E w \in Tail(g)[i] : x = w.id[1]
      BY DEF KindsOf, Range
    <3>4. PICK w \in Tail(g)[i] : x = w.id[1]
      BY <3>1
    <3>2. i + 1 \in DOMAIN g /\ w \in g[i + 1] /\ i + 1 # 1
      BY <2>10, <3>4
    <3>3. i + 1 = 1
      BY <2>9, <2>10, <2>17, <3>4, <3>2 DEF Offers
    <3> QED BY <3>2, <3>3
  <2>18. Kinds(t) \cap KindsOf(Tail(g)) = {}
    BY <2>9, <2>15, <2>16, <2>17
  <2>19. Unpublished'
    BY <2>1, <2>2, <2>18 DEF Unpublished
  <2> QED BY <2>8, <2>14, <2>19
<1> QED BY <1>2, <1>3

(* Records that keep their names keep the detectors.                       *)
LEMMA KindsAlike ==
  ASSUME NEW s, NEW t, DOMAIN t = DOMAIN s, \A k \in DOMAIN s : Alike(t[k], s[k])
  PROVE  Kinds(t) = Kinds(s)
BY DEF Kinds, Alike, FolderTag

(* A decision leaves the categories due.                                   *)
LEMMA KeepSuited ==
  ASSUME Recorded, Keep, Suited
  PROVE  Suited' /\ KeptStay
<1>1. PICK r : \A k \in DOMAIN Records : Records'[k] = KeptAs(Records[k], r.id) /\ Whole(Records[k])
  BY KeepIs
<1>2. DOMAIN Records' = DOMAIN Records
  BY KeepIs
<1>3. PICK s, t, id : s = Records /\ t = Records' /\ id = r.id
  OBVIOUS
<1>4. farm' = farm /\ phase' = phase
  BY DEF Keep, Decide
<1>5. ASSUME NEW k \in DOMAIN s
      PROVE  (s[k].decision = "keep" => t[k] = s[k]) /\ (t[k].decision # "keep" => t[k] = s[k])
  <2>1. Whole(s[k]) /\ t[k] = KeptAs(s[k], id)
    BY <1>1, <1>3
  <2> QED BY <2>1, KeptAsIs
<1>6. Suited'
  BY <1>2, <1>3, <1>4, <1>5 DEF Suited
<1> QED BY <1>3, <1>5, <1>6 DEF KeptStay

(* New settings bring the categories due.                                  *)
LEMMA SettingsSuited ==
  ASSUME Recorded, ApplySettings, Suited
  PROVE  Suited' /\ KeptStay
<1>1. PICK s, t, z, w, a : s = Records /\ t = Records' /\ z = farm' /\ w = farm /\ a = phase
  OBVIOUS
<1>2. /\ DOMAIN t = DOMAIN s
      /\ \A k \in DOMAIN s : t[k] = Cleaned(z, s[k]) /\ Whole(s[k])
  BY <1>1, SettingsAre
<1>3. phase' = "judged again" /\ a # "judged again"
  BY <1>1 DEF ApplySettings
<1>4. ASSUME NEW k \in DOMAIN s
      PROVE  /\ s[k].decision = "keep" => t[k] = s[k]
             /\ t[k].decision # "keep" => t[k].cat = DueAt("judged again", z, t[k])
  <2>1. PICK x, y : x = s[k] /\ y = t[k]
    OBVIOUS
  <2>2. Whole(x) /\ y = Cleaned(z, x)
    BY <1>2, <2>1
  <2>3. y.decision = x.decision /\ (x.decision = "keep" => y = x)
    BY <2>2, CleanedIs
  <2>4. ASSUME x.decision # "keep" PROVE y.cat = Answer(z, y)
    <3>1. x.cat = DueAt(a, w, x)
      BY <1>1, <2>1, <2>4 DEF Suited
    <3>2. x.cat # "duplicates"
      BY <3>1, AnswerIs, PromisedIs DEF DueAt, Named
    <3> QED BY <2>2, <2>4, <3>2, CleanedAnswer
  <2> QED BY <2>1, <2>3, <2>4 DEF DueAt
<1>5. Suited'
  BY <1>1, <1>2, <1>3, <1>4 DEF Suited
<1> QED BY <1>1, <1>4, <1>5 DEF KeptStay

(* The analysis leaves them, and its units are of new detectors.           *)
LEMMA AnalyseSuited ==
  ASSUME NEW v, NEW node, NEW got, Surveyed(v, node, got), Analyse, Suited
  PROVE  Suited' /\ KeptStay /\ Unpublished'
<1>1. Records' = Records /\ farm' = farm /\ phase = "scanning" /\ phase' # "judged again"
  BY DEF Analyse, Records
<1>2. Kinds(Records) = {}
  BY <1>1 DEF Surveyed, Progress, OnlyFiles, Kinds, FolderTag
<1>3. Unpublished'
  BY <1>1, <1>2 DEF Unpublished
<1> QED BY <1>1, <1>3, SameFiling

(* The inductive invariant of CategoriesFollow.                            *)
FilingInv == SurveyInv /\ Suited /\ Unpublished

(* It holds at first.                                                      *)
LEMMA InitFiled == Init => FilingInv
<1> SUFFICES ASSUME Init PROVE FilingInv
  OBVIOUS
<1>1. DOMAIN Records = {}
  BY EmptyIs DEF Init, Records
<1>2. Suited
  BY <1>1 DEF Suited
<1>3. Kinds(Records) = {}
  BY <1>1 DEF Kinds
<1> QED BY <1>2, <1>3, InitSurveyed DEF FilingInv, Unpublished

(* Every step keeps it, and what is to be kept.                            *)
LEMMA StepFiled ==
  ASSUME FilingInv, [Next]_vars
  PROVE  FilingInv' /\ KeptStay
<1>1. SurveyInv'
  BY NextSurveyed DEF FilingInv
<1>2. PICK v, node, got : Surveyed(v, node, got)
  BY DEF FilingInv, SurveyInv
<1>3. Suited /\ Unpublished /\ Recorded
  BY <1>2 DEF FilingInv, Surveyed
<1>4. CASE Scanner \/ (Stop /\ UNCHANGED survey) \/ UNCHANGED vars
  <2>1. Records' = Records /\ farm' = farm /\ phase' = phase /\ groups' = groups
    BY <1>4 DEF Scanner, survey, vars, Records
  <2>2. Unpublished'
    BY <1>3, <2>1 DEF Unpublished
  <2> QED BY <1>1, <1>3, <2>1, <2>2, SameFiling DEF FilingInv
<1>5. CASE OnBatch
  <2>1. groups' = groups /\ OnlyFiles(Records')
    <3>1. groups' = groups /\ phase' = phase
      BY <1>5 DEF OnBatch
    <3>2. phase = "scanning"
      <4>1. at \in {"pass 2", "sift", "close"}
        BY <1>2, <1>5 DEF OnBatch, Called, Surveyed, Delivery, Handed
      <4> QED BY <1>2, <4>1 DEF Surveyed, Progress
    <3>3. Progress'
      BY <1>1 DEF SurveyInv, Surveyed
    <3> QED BY <3>1, <3>2, <3>3 DEF Progress
  <2>2. Kinds(Records') = {}
    BY <2>1 DEF OnlyFiles, Kinds, FolderTag
  <2>3. Unpublished'
    BY <2>2 DEF Unpublished
  <2> QED BY <1>1, <1>2, <1>3, <1>5, <2>3, BatchSuited DEF FilingInv
<1>6. CASE Analyse
  BY <1>1, <1>2, <1>3, <1>6, AnalyseSuited DEF FilingInv
<1>7. CASE Publish
  BY <1>1, <1>2, <1>3, <1>7, PublishSuited DEF FilingInv
<1>8. CASE Keep \/ ApplySettings
  <2>1. PICK s, t : s = Records /\ t = Records'
    OBVIOUS
  <2>2. DOMAIN t = DOMAIN s /\ \A k \in DOMAIN s : Alike(t[k], s[k])
    BY <1>3, <1>8, <2>1, KeepIs, SettingsAre
  <2>3. Kinds(t) = Kinds(s)
    BY <2>2, KindsAlike
  <2>4. groups' = groups
    BY <1>8 DEF Keep, ApplySettings
  <2>5. Unpublished'
    BY <1>3, <2>1, <2>3, <2>4 DEF Unpublished
  <2> QED BY <1>1, <1>3, <1>8, <2>5, KeepSuited, SettingsSuited DEF FilingInv
<1> QED BY <1>4, <1>5, <1>6, <1>7, <1>8 DEF Next, User

(* What CategoriesFollow says of a step.                                   *)
Filing ==
  /\ \A r \in Range(GetAll(index))' : r.decision # "keep" => r.cat = Due(r)'
  /\ \A k \in DOMAIN GetAll(index) :
       LET old == GetAll(index)[k] new == GetAll(index)'[k] IN
       old.decision = "keep" /\ new.id = old.id => new = old

(* The inductive invariant gives it.                                       *)
LEMMA StepFollows ==
  ASSUME FilingInv', KeptStay
  PROVE  Filing
<1>1. ASSUME NEW k \in DOMAIN GetAll(index),
             GetAll(index)[k].decision = "keep" /\ GetAll(index)'[k].id = GetAll(index)[k].id
      PROVE  GetAll(index)'[k] = GetAll(index)[k]
  BY <1>1 DEF KeptStay, Records
<1>2. ASSUME NEW r \in Range(Records'), r.decision # "keep" PROVE r.cat = Due(r)'
  <2>1. PICK k \in DOMAIN Records' : r = Records'[k]
    BY DEF Range
  <2>2. r.cat = DueAt(phase', farm', r)
    BY <1>2, <2>1 DEF FilingInv, Suited
  <2> QED BY <2>2 DEF DueAt, Due, Answer, Promised
<1> QED BY <1>1, <1>2 DEF Filing, Records

(* After every step each record that is not to be kept has the category
   that the detectors on duty give it, and a record to be kept stays as
   it was (DetectorSet::evaluate, apply_settings).                         *)
THEOREM CategoriesFollowAlways == Spec => CategoriesFollow
<1>1. FilingInv /\ [Next]_vars => FilingInv' /\ [Filing]_vars
  BY StepFiled, StepFollows
<1> QED BY <1>1, InitFiled, PTL DEF Spec, CategoriesFollow, Filing

-----------------------------------------------------------------------------
(* What the totals count.                                                  *)

(* An entry of the totals, and totals of such entries.                     *)
Entry(e) == e = [cats |-> e.cats, size |-> e.size, decision |-> e.decision]

Tallies(L) == \A id \in DOMAIN L : Entry(L[id])

(* The totals M are L with the records of R entered.                       *)
Counted(L, R, M) ==
  /\ DOMAIN M = DOMAIN L \cup {r.id : r \in R}
  /\ \A r \in R : M[r.id].size = r.size /\ M[r.id].decision = r.decision /\ Entry(M[r.id])
  /\ \A id \in DOMAIN L : (\A r \in R : r.id # id) => M[id] = L[id]

(* Ingesting records enters those with a category, and nothing else.       *)
LEMMA IngestIs ==
  ASSUME NEW L, NEW recs, NEW cats, \A r, x \in Range(recs) : r.id = x.id => r = x
  PROVE  Counted(L, {r \in Range(recs) : cats[r] # {}}, Ingest(L, recs, cats))
<1> DEFINE R == {r \in Range(recs) : cats[r] # {}}
           D == DOMAIN L \cup {r.id : r \in R}
           h == [id \in D |->
                  IF \A r \in R : r.id # id THEN L[id]
                  ELSE LET r == CHOOSE x \in R : x.id = id IN
                       [cats |-> cats[r] \cup IF id \in DOMAIN L THEN L[id].cats ELSE {},
                        size |-> r.size, decision |-> r.decision]]
<1>1. Ingest(L, recs, cats) = h
  BY DEF Ingest
<1>2. DOMAIN h = D
  OBVIOUS
<1>3. ASSUME NEW r \in R PROVE h[r.id].size = r.size /\ h[r.id].decision = r.decision /\ Entry(h[r.id])
  <2>1. (CHOOSE x \in R : x.id = r.id) = r
    OBVIOUS
  <2>2. r.id \in D /\ ~ \A x \in R : x.id # r.id
    OBVIOUS
  <2>3. PICK c, x : c = (cats[r] \cup IF r.id \in DOMAIN L THEN L[r.id].cats ELSE {}) /\ x = h[r.id]
    OBVIOUS
  <2>4. x = [cats |-> c, size |-> r.size, decision |-> r.decision]
    BY <2>1, <2>2, <2>3
  <2>5. x.size = r.size /\ x.decision = r.decision /\ Entry(x)
    BY ONLY <2>4 DEF Entry
  <2> QED BY <2>3, <2>5
<1>4. ASSUME NEW id \in DOMAIN L, \A r \in R : r.id # id PROVE h[id] = L[id]
  BY <1>4
<1> HIDE DEF h, R
<1> QED BY <1>1, <1>2, <1>3, <1>4 DEF Counted, R

(* A record is a candidate; the totals show one.                           *)
Offered(r) == r.cat # "none" /\ r.decision # "keep"

OnScreen(L, id) == id \in DOMAIN L /\ L[id].decision # "keep"

(* The totals show the records that are offered.                           *)
Matches(t, L) ==
  \A k \in DOMAIN t : /\ Offered(t[k]) <=> OnScreen(L, t[k].id)
                      /\ Offered(t[k]) => L[t[k].id].size = t[k].size

(* In the place of the candidate there is a folder.                        *)
Displaced(A, t, id) ==
  \E j \in DOMAIN t : /\ t[j].unit # "file"
                      /\ IF id[1] = "file" THEN \E f \in A : f.path = t[j].path ELSE id[2] = t[j].path

(* Every entry of the totals is of a record or of one that a unit has
   replaced.                                                               *)
Accounted(A, t, L) ==
  \A id \in DOMAIN L : (\E k \in DOMAIN t : t[k].id = id) \/ Displaced(A, t, id)

(* The totals know no number that is yet to be given.                      *)
Numbers(L, n) ==
  \A id \in DOMAIN L : (\E m \in Nat : m < n /\ id = FileId(m)) \/ (\E ns, p : ns # "file" /\ id = <<ns, p>>)

(* Totals with records entered are totals.                                 *)
LEMMA TallyStays == ASSUME NEW L, NEW R, NEW M, Counted(L, R, M), Tallies(L) PROVE Tallies(M)
<1> SUFFICES ASSUME NEW id \in DOMAIN M PROVE Entry(M[id])
  BY DEF Tallies
<1>1. CASE \E r \in R : r.id = id
  BY <1>1 DEF Counted
<1>2. CASE \A r \in R : r.id # id
  BY <1>2 DEF Counted, Tallies
<1> QED BY <1>1, <1>2

(* one record more or less                                                 *)
LEMMA ShownOne ==
  ASSUME NEW L, NEW R, NEW M, Counted(L, R, M)
  PROVE  /\ \A id : (\A r \in R : r.id # id) => (OnScreen(M, id) <=> OnScreen(L, id)) /\ (id \in DOMAIN L => M[id] = L[id])
         /\ \A r \in R : (OnScreen(M, r.id) <=> r.decision # "keep") /\ M[r.id].size = r.size
<1>1. ASSUME NEW id, \A r \in R : r.id # id PROVE id \in DOMAIN M <=> id \in DOMAIN L
  BY <1>1 DEF Counted
<1> QED BY <1>1 DEF Counted, OnScreen

(* A number not given yet is in no record and not in the totals.           *)
LEMMA LateNumber ==
  ASSUME NEW m \in Nat, NEW c \in Nat, ~(c < m)
  PROVE  /\ \A r : FileTag(r, m) \/ FolderTag(r) => r.id # FileId(c)
         /\ \A L : Numbers(L, m) => FileId(c) \notin DOMAIN L
<1>1. ASSUME NEW r, FileTag(r, m) PROVE r.id # FileId(c)
  <2>1. PICK a \in Nat : a < m /\ r.id = FileId(a)
    BY <1>1 DEF FileTag
  <2> QED BY <2>1, FileIds
<1>2. ASSUME NEW r, FolderTag(r) PROVE r.id # FileId(c)
  BY <1>2, FileIds DEF FolderTag
<1>3. ASSUME NEW L, Numbers(L, m), FileId(c) \in DOMAIN L PROVE FALSE
  <2>1. PICK x : x = FileId(c)
    OBVIOUS
  <2>2. CASE \E a \in Nat : a < m /\ x = FileId(a)
    BY <2>1, <2>2, FileIds
  <2>3. CASE \E ns, p : ns # "file" /\ x = <<ns, p>>
    BY <2>1, <2>3, FileIds
  <2> QED BY <1>3, <2>1, <2>2, <2>3 DEF Numbers
<1> QED BY <1>1, <1>2, <1>3

(* those of the records that have an answer                                *)
Answered(z, recs, n) == {recs[j] : j \in {i \in 1 .. n : Answer(z, recs[i]) # "none"}}

(* The index after a batch: the records before, and new ones at the
   places pos.                                                             *)
Replaced(s, t, n, pos) ==
  /\ \A k \in DOMAIN t : k \in DOMAIN s \/ \E j \in 1 .. n : k = pos[j]
  /\ \A k \in DOMAIN s : k \in DOMAIN t /\ t[k] = s[k]

(* The numbers of a batch.                                                 *)
Arrived(num, m, n) ==
  /\ \A j \in 1 .. n : num[j] \in Nat /\ ~(num[j] < m) /\ num[j] < m + n
  /\ \A i, j \in 1 .. n : num[i] = num[j] => i = j

(* The new records at their places, filed.                                 *)
Come(z, recs, n, num, pos, t) ==
  \A j \in 1 .. n : /\ pos[j] \in DOMAIN t /\ recs[j].id = FileId(num[j]) /\ recs[j].decision = "undecided"
                    /\ t[pos[j]].id = recs[j].id /\ t[pos[j]].size = recs[j].size
                    /\ t[pos[j]].decision = "undecided" /\ t[pos[j]].cat = Answer(z, recs[j])

(* What a batch is to the totals, the numbers in num.                      *)
LEMMA BatchTotals ==
  ASSUME NEW s, NEW t, NEW m \in Nat, NEW n \in Nat, NEW pos, NEW num, NEW recs, NEW z, NEW A,
         Catalogue(s, m),
         Replaced(s, t, n, pos), Arrived(num, m, n), Come(z, recs, n, num, pos, t),
         NEW L, NEW M, Counted(L, Answered(z, recs, n), M),
         Matches(s, L), Accounted(A, s, L), Numbers(L, m)
  PROVE  Matches(t, M) /\ Accounted(A, t, M) /\ Numbers(M, m + n)
<1>0. /\ \A k \in DOMAIN t : k \in DOMAIN s \/ \E j \in 1 .. n : k = pos[j]
      /\ \A k \in DOMAIN s : k \in DOMAIN t /\ t[k] = s[k]
      /\ \A j \in 1 .. n : num[j] \in Nat /\ ~(num[j] < m) /\ num[j] < m + n
      /\ \A i, j \in 1 .. n : num[i] = num[j] => i = j
      /\ \A j \in 1 .. n : /\ pos[j] \in DOMAIN t /\ recs[j].id = FileId(num[j]) /\ recs[j].decision = "undecided"
                           /\ t[pos[j]].id = recs[j].id /\ t[pos[j]].size = recs[j].size
                           /\ t[pos[j]].decision = "undecided" /\ t[pos[j]].cat = Answer(z, recs[j])
  BY DEF Replaced, Arrived, Come
<1> USE <1>0
<1>1. PICK R : R = {recs[j] : j \in {i \in 1 .. n : Answer(z, recs[i]) # "none"}}
  OBVIOUS
<1>2. Counted(L, R, M)
  BY <1>1 DEF Answered
<1>3. \A r \in R : \E j \in 1 .. n : r = recs[j] /\ Answer(z, recs[j]) # "none"
  BY <1>1
<1>4. ASSUME NEW k \in DOMAIN s
      PROVE  (Offered(t[k]) <=> OnScreen(M, t[k].id)) /\ (Offered(t[k]) => M[t[k].id].size = t[k].size)
  <2>1. t[k] = s[k]
    OBVIOUS
  <2>2. \A r \in R : r.id # s[k].id
    <3> SUFFICES ASSUME NEW j \in 1 .. n, recs[j].id = s[k].id PROVE FALSE
      BY <1>3
    <3>1. FileTag(s[k], m) \/ FolderTag(s[k])
      BY DEF Catalogue
    <3>2. s[k].id # FileId(num[j])
      BY <3>1, LateNumber
    <3> QED BY <3>2
  <2>3. (OnScreen(M, s[k].id) <=> OnScreen(L, s[k].id)) /\ (s[k].id \in DOMAIN L => M[s[k].id] = L[s[k].id])
    BY <1>2, <2>2, ShownOne
  <2>4. (Offered(s[k]) <=> OnScreen(L, s[k].id)) /\ (Offered(s[k]) => L[s[k].id].size = s[k].size)
    BY DEF Matches
  <2> QED BY <2>1, <2>3, <2>4 DEF OnScreen
<1>5. ASSUME NEW j \in 1 .. n
      PROVE  /\ Offered(t[pos[j]]) <=> OnScreen(M, t[pos[j]].id)
             /\ Offered(t[pos[j]]) => M[t[pos[j]].id].size = t[pos[j]].size
  <2>1. PICK r, x : r = recs[j] /\ x = t[pos[j]]
    OBVIOUS
  <2>2. /\ x.id = r.id /\ x.size = r.size /\ x.decision = "undecided" /\ x.cat = Answer(z, r)
        /\ r.decision = "undecided" /\ r.id = FileId(num[j])
    BY <2>1
  <2>3. CASE Answer(z, r) # "none"
    <3>1. r \in R
      BY <1>1, <2>1, <2>3
    <3>2. OnScreen(M, r.id) /\ M[r.id].size = r.size
      BY <1>2, <2>2, <3>1, ShownOne
    <3> QED BY <2>1, <2>2, <2>3, <3>2 DEF Offered
  <2>4. CASE Answer(z, r) = "none"
    <3>1. \A y \in R : y.id # r.id
      <4> SUFFICES ASSUME NEW i \in 1 .. n, Answer(z, recs[i]) # "none", recs[i].id = r.id PROVE FALSE
        BY <1>3
      <4>1. FileId(num[i]) = FileId(num[j])
        BY <2>2
      <4>2. num[i] = num[j]
        BY <4>1, FileIds
      <4> QED BY <2>1, <2>4, <4>2
    <3>2. r.id \notin DOMAIN L
      BY <2>2, LateNumber
    <3>3. ~OnScreen(M, r.id)
      BY <1>2, <3>1, <3>2, ShownOne DEF OnScreen
    <3> QED BY <2>1, <2>2, <2>4, <3>3 DEF Offered
  <2> QED BY <2>3, <2>4
<1>6. Matches(t, M)
  BY <1>4, <1>5 DEF Matches
<1>7. \A id \in DOMAIN M : id \in DOMAIN L \/ \E j \in 1 .. n : id = recs[j].id
  BY <1>2, <1>3 DEF Counted
<1>8. Accounted(A, t, M)
  <2> SUFFICES ASSUME NEW id \in DOMAIN M PROVE (\E k \in DOMAIN t : t[k].id = id) \/ Displaced(A, t, id)
    BY DEF Accounted
  <2>1. CASE id \in DOMAIN L
    <3>1. (\E k \in DOMAIN s : s[k].id = id) \/ Displaced(A, s, id)
      BY <2>1 DEF Accounted
    <3>2. Displaced(A, s, id) => Displaced(A, t, id)
      BY DEF Displaced
    <3> QED BY <3>1, <3>2
  <2>2. ASSUME NEW j \in 1 .. n, id = recs[j].id PROVE \E k \in DOMAIN t : t[k].id = id
    BY <2>2
  <2> QED BY <1>7, <2>1, <2>2
<1>9. Numbers(M, m + n)
  <2>1. PICK top : top = m + n
    OBVIOUS
  <2>2. \A a \in Nat : a < m => a < top
    BY <2>1
  <2>3. \A j \in 1 .. n : num[j] \in Nat /\ num[j] < top
    BY <2>1
  <2>4. \A j \in 1 .. n : recs[j].id = FileId(num[j])
    OBVIOUS
  <2>5. Numbers(M, top)
    BY <1>7, <2>2, <2>3, <2>4 DEF Numbers
  <2> QED BY <2>1, <2>5
<1> QED BY <1>6, <1>8, <1>9

(* Units put in place of records, and into the totals.                     *)
LEMMA UnitsTotals ==
  ASSUME NEW s, NEW t, NEW m, NEW U, NEW A, NEW L, NEW M,
         Catalogue(s, m), Catalogue(t, m), Merged(s, U, t), Counted(L, U, M),
         \A u \in U : Unitary(u) /\ u.id[1] # "file",
         \A k \in DOMAIN s : s[k].unit = "file" => \E f \in A : f.path = s[k].path,
         Matches(s, L), Accounted(A, s, L), Numbers(L, m)
  PROVE  Matches(t, M) /\ Accounted(A, t, M) /\ Numbers(M, m)
<1>1. /\ U \subseteq Range(t) /\ \A k \in DOMAIN t : t[k] \in U \/ (k \in DOMAIN s /\ t[k] = s[k])
      /\ \A k \in DOMAIN s : k \in DOMAIN t /\ t[k].path = s[k].path
  BY DEF Merged
<1>2. ASSUME NEW k \in DOMAIN t
      PROVE  (Offered(t[k]) <=> OnScreen(M, t[k].id)) /\ (Offered(t[k]) => M[t[k].id].size = t[k].size)
  <2>1. CASE t[k] \in U
    <3>1. (OnScreen(M, t[k].id) <=> t[k].decision # "keep") /\ M[t[k].id].size = t[k].size
      BY <2>1, ShownOne
    <3>2. t[k].decision = "undecided" /\ t[k].cat # "none"
      BY <2>1, PromisedIs DEF Unitary
    <3> QED BY <3>1, <3>2 DEF Offered
  <2>2. CASE t[k] \notin U
    <3>1. k \in DOMAIN s /\ t[k] = s[k]
      BY <1>1, <2>2
    <3>2. \A u \in U : u.id # t[k].id
      <4> SUFFICES ASSUME NEW u \in U, u.id = t[k].id PROVE FALSE
        OBVIOUS
      <4>1. PICK i \in DOMAIN t : t[i] = u
        BY <1>1 DEF Range
      <4>2. i = k
        BY <4>1 DEF Catalogue
      <4> QED BY <2>2, <4>1, <4>2
    <3>3. (OnScreen(M, t[k].id) <=> OnScreen(L, t[k].id)) /\ (t[k].id \in DOMAIN L => M[t[k].id] = L[t[k].id])
      BY <3>2, ShownOne
    <3>4. (Offered(s[k]) <=> OnScreen(L, s[k].id)) /\ (Offered(s[k]) => L[s[k].id].size = s[k].size)
      BY <3>1 DEF Matches
    <3> QED BY <3>1, <3>3, <3>4 DEF OnScreen
  <2> QED BY <2>1, <2>2
<1>3. Matches(t, M)
  BY <1>2 DEF Matches
<1>4. \A id \in DOMAIN M : id \in DOMAIN L \/ \E u \in U : id = u.id
  BY DEF Counted
<1>5. \A u \in U : u.unit # "file"
  BY DEF Unitary
<1>6. ASSUME NEW id, Displaced(A, s, id) PROVE Displaced(A, t, id)
  <2>1. PICK j \in DOMAIN s : /\ s[j].unit # "file"
                              /\ IF id[1] = "file" THEN \E f \in A : f.path = s[j].path ELSE id[2] = s[j].path
    BY <1>6 DEF Displaced
  <2>2. j \in DOMAIN t /\ t[j].path = s[j].path /\ t[j].unit # "file"
    BY <1>1, <1>5, <2>1
  <2> QED BY <2>1, <2>2 DEF Displaced
<1>7. ASSUME NEW k \in DOMAIN s, t[k] # s[k] PROVE Displaced(A, t, s[k].id)
  <2>1. k \in DOMAIN t /\ t[k] \in U /\ t[k].path = s[k].path
    BY <1>1, <1>7
  <2>2. CASE FileTag(s[k], m)
    <3>1. PICK c : s[k].id = FileId(c) /\ s[k].unit = "file"
      BY <2>2 DEF FileTag
    <3>2. s[k].id[1] = "file"
      BY <3>1 DEF FileId
    <3>3. \E f \in A : f.path = t[k].path
      BY <2>1, <3>1
    <3> QED BY <1>5, <2>1, <3>2, <3>3 DEF Displaced
  <2>3. CASE FolderTag(s[k])
    <3>1. s[k].id[1] # "file" /\ s[k].id[2] = s[k].path
      <4>1. PICK ns, p : s[k].id = <<ns, p>> /\ p = s[k].path
        BY <2>3 DEF FolderTag
      <4> QED BY <2>3, <4>1 DEF FolderTag
    <3> QED BY <1>5, <2>1, <3>1 DEF Displaced
  <2> QED BY <2>2, <2>3 DEF Catalogue
<1>8. Accounted(A, t, M)
  <2> SUFFICES ASSUME NEW id \in DOMAIN M PROVE (\E k \in DOMAIN t : t[k].id = id) \/ Displaced(A, t, id)
    BY DEF Accounted
  <2>1. CASE id \in DOMAIN L
    BY <1>1, <1>6, <1>7, <2>1 DEF Accounted
  <2>2. ASSUME NEW u \in U, id = u.id PROVE \E k \in DOMAIN t : t[k].id = id
    BY <1>1, <2>2 DEF Range
  <2> QED BY <1>4, <2>1, <2>2
<1>9. Numbers(M, m)
  <2>1. \A u \in U : \E ns, p : ns # "file" /\ u.id = <<ns, p>>
    BY DEF Unitary
  <2> QED BY <1>4, <2>1 DEF Numbers
<1> QED BY <1>3, <1>8, <1>9

(* A candidate kept, in the records and in the totals.                     *)
LEMMA KeepTotals ==
  ASSUME NEW s, NEW t, NEW id, NEW A, NEW L, NEW M, NEW m,
         DOMAIN t = DOMAIN s,
         \A k \in DOMAIN s : t[k] = KeptAs(s[k], id) /\ Whole(s[k]),
         M = [x \in DOMAIN L |-> IF x = id THEN [L[x] EXCEPT !.decision = "keep"] ELSE L[x]],
         Tallies(L), Matches(s, L), Accounted(A, s, L), Numbers(L, m)
  PROVE  Matches(t, M) /\ Accounted(A, t, M) /\ Numbers(M, m) /\ Tallies(M)
<1>1. \A k \in DOMAIN s : /\ Alike(t[k], s[k]) /\ t[k].cat = s[k].cat
                          /\ s[k].id = id => t[k].decision = "keep"
                          /\ s[k].id # id => t[k] = s[k]
  BY KeptAsIs
<1>2. DOMAIN M = DOMAIN L /\ \A x \in DOMAIN L : x # id => M[x] = L[x]
  OBVIOUS
<1>3. ASSUME id \in DOMAIN L PROVE M[id].decision = "keep" /\ Entry(M[id])
  <2>1. PICK e, x : e = L[id] /\ x = M[id]
    OBVIOUS
  <2>2. e = [cats |-> e.cats, size |-> e.size, decision |-> e.decision]
    BY <1>3, <2>1 DEF Tallies, Entry
  <2>3. x = [e EXCEPT !.decision = "keep"]
    BY <1>3, <2>1
  <2>4. x = [cats |-> e.cats, size |-> e.size, decision |-> "keep"]
    BY <2>2, <2>3
  <2>5. x.decision = "keep" /\ Entry(x)
    BY ONLY <2>4 DEF Entry
  <2> QED BY <2>1, <2>5
<1>4. ASSUME NEW k \in DOMAIN s
      PROVE  (Offered(t[k]) <=> OnScreen(M, t[k].id)) /\ (Offered(t[k]) => M[t[k].id].size = t[k].size)
  <2>1. CASE s[k].id = id
    BY <1>1, <1>2, <1>3, <2>1 DEF Offered, OnScreen, Alike
  <2>2. CASE s[k].id # id
    <3>1. t[k] = s[k] /\ (OnScreen(M, s[k].id) <=> OnScreen(L, s[k].id)) /\ (s[k].id \in DOMAIN L => M[s[k].id] = L[s[k].id])
      BY <1>1, <1>2, <2>2 DEF OnScreen
    <3>2. (Offered(s[k]) <=> OnScreen(L, s[k].id)) /\ (Offered(s[k]) => L[s[k].id].size = s[k].size)
      BY DEF Matches
    <3> QED BY <3>1, <3>2 DEF OnScreen
  <2> QED BY <2>1, <2>2
<1>5. Matches(t, M)
  BY <1>4 DEF Matches
<1>6. Accounted(A, t, M)
  BY <1>1, <1>2 DEF Accounted, Displaced, Alike
<1>7. Numbers(M, m)
  BY <1>2 DEF Numbers
<1>8. Tallies(M)
  BY <1>2, <1>3 DEF Tallies
<1> QED BY <1>5, <1>6, <1>7, <1>8

(* The totals drawn up anew from the records.                              *)
LEMMA FreshTotals ==
  ASSUME NEW t, NEW m, Catalogue(t, m), NEW A, NEW L, DOMAIN L = {}, NEW M,
         Counted(L, {r \in Range(t) : r.cat # "none"}, M)
  PROVE  Matches(t, M) /\ Accounted(A, t, M) /\ Numbers(M, m)
<1>1. PICK R : R = {r \in Range(t) : r.cat # "none"}
  OBVIOUS
<1>2. Counted(L, R, M)
  BY <1>1
<1>3. \A r \in R : \E k \in DOMAIN t : r = t[k] /\ t[k].cat # "none"
  BY <1>1 DEF Range
<1>4. ASSUME NEW k \in DOMAIN t
      PROVE  (Offered(t[k]) <=> OnScreen(M, t[k].id)) /\ (Offered(t[k]) => M[t[k].id].size = t[k].size)
  <2>1. CASE t[k].cat # "none"
    <3>1. t[k] \in R
      BY <1>1, <2>1 DEF Range
    <3> QED BY <1>2, <2>1, <3>1, ShownOne DEF Offered
  <2>2. CASE t[k].cat = "none"
    <3>1. \A r \in R : r.id # t[k].id
      BY <1>3, <2>2 DEF Catalogue
    <3>2. ~OnScreen(M, t[k].id)
      BY <1>2, <3>1, ShownOne DEF OnScreen
    <3> QED BY <2>2, <3>2 DEF Offered
  <2> QED BY <2>1, <2>2
<1>5. \A id \in DOMAIN M : \E k \in DOMAIN t : id = t[k].id
  <2>1. DOMAIN M = {r.id : r \in R}
    BY <1>2 DEF Counted
  <2> QED BY <1>3, <2>1
<1>6. Numbers(M, m)
  <2>1. ASSUME NEW k \in DOMAIN t
        PROVE  (\E c \in Nat : c < m /\ t[k].id = FileId(c)) \/ (\E ns, p : ns # "file" /\ t[k].id = <<ns, p>>)
    BY DEF Catalogue, FileTag, FolderTag
  <2> SUFFICES ASSUME NEW id \in DOMAIN M
               PROVE  (\E c \in Nat : c < m /\ id = FileId(c)) \/ (\E ns, p : ns # "file" /\ id = <<ns, p>>)
    BY DEF Numbers
  <2>2. PICK k \in DOMAIN t : id = t[k].id
    BY <1>5
  <2> QED BY <2>1, <2>2
<1> QED BY <1>4, <1>5, <1>6 DEF Matches, Accounted

(* The totals match the records.                                           *)
Totalled ==
  Matches(Records, live) /\ Accounted(All, Records, live) /\ Numbers(live, next) /\ Tallies(live)

(* The inductive invariant of TotalsTrue.                                  *)
TotalsInv == SurveyInv /\ Totalled

(* What there is to find stays with the disk and the volumes.              *)
LEMMA AllStays == ASSUME world' = world, volumes' = volumes PROVE All' = All
BY DEF All, Findable, Lineage, Passable, Visible, ByTable, Exclusions, Table

(* A batch counted keeps the totals true.                                  *)
LEMMA BatchTotalled ==
  ASSUME NEW v, NEW node, NEW got, Surveyed(v, node, got), OnBatch, Totalled
  PROVE  Totalled'
<1>1. PICK recs, l, n : /\ l \in Nat /\ n \in Nat /\ n = Len(hand) /\ recs = Numbered(hand)
                        /\ Taken(recs, l, n, Records, Records')
  BY BatchIs
<1>2. PICK s, t, z, m, L, M, A : /\ s = Records /\ t = Records' /\ z = farm /\ m = next
                                 /\ L = live /\ M = live' /\ A = All
  OBVIOUS
<1>3. next' = m + n /\ All' = A /\ m \in Nat /\ Catalogue(s, m)
  <2>1. next' = next + Len(hand) /\ world' = world /\ volumes' = volumes
    BY DEF OnBatch, Return
  <2> QED BY <1>1, <1>2, <2>1, AllStays DEF Surveyed, Recorded
<1>4. PICK pos : Joins(recs, n, s, t, pos)
  <2>1. Taken(recs, l, n, s, t)
    BY <1>1, <1>2
  <2> QED BY <1>1, <2>1, TakenIs
<1>5. PICK num : num = [j \in 1 .. n |-> m + j - 1]
  OBVIOUS
<1>6. Arrived(num, m, n)
  BY <1>1, <1>3, <1>5, NumbersApart DEF Arrived
<1>7. /\ \A k \in DOMAIN t : k \in DOMAIN s \/ \E j \in 1 .. n : k = pos[j]
      /\ \A k \in DOMAIN s : k \in DOMAIN t /\ t[k] = s[k]
      /\ DOMAIN recs = 1 .. n
  BY <1>4 DEF Joins
<1>8. ASSUME NEW j \in 1 .. n
      PROVE  /\ pos[j] \in DOMAIN t /\ recs[j].id = FileId(num[j]) /\ recs[j].decision = "undecided"
             /\ t[pos[j]].id = recs[j].id /\ t[pos[j]].size = recs[j].size
             /\ t[pos[j]].decision = "undecided" /\ t[pos[j]].cat = Answer(z, recs[j])
  <2>1. PICK r, x, c : r = recs[j] /\ x = t[pos[j]] /\ c = num[j]
    OBVIOUS
  <2>2. NewFile(r, hand[j], c) /\ x = Filed(z, r) /\ Alike(x, r) /\ pos[j] \in DOMAIN t /\ x.decision = "undecided"
    BY <1>2, <1>4, <1>5, <2>1 DEF Joins
  <2>3. Whole(r) /\ r.decision = "undecided" /\ r.cat = "none" /\ r.id = FileId(c)
    BY <2>2 DEF NewFile, FileId
  <2>4. x.cat = Answer(z, x) /\ Answer(z, x) = Answer(z, r)
    BY <2>2, <2>3, FiledAnswer
  <2> QED BY <2>1, <2>2, <2>3, <2>4 DEF Alike
<1>10. Counted(L, Answered(z, recs, n), M)
  <2>1. PICK cats : cats = [r \in Range(recs) |-> Range(Hits(z, r))]
    OBVIOUS
  <2>2. M = Ingest(L, recs, cats)
    BY <1>1, <1>2, <2>1 DEF OnBatch, IngestHits
  <2>3. \A r, x \in Range(recs) : r.id = x.id => r = x
    <3> SUFFICES ASSUME NEW i \in 1 .. n, NEW j \in 1 .. n, recs[i].id = recs[j].id PROVE recs[i] = recs[j]
      BY <1>7 DEF Range
    <3>1. FileId(num[i]) = FileId(num[j])
      BY <1>8
    <3> QED BY <1>6, <3>1, FileIds DEF Arrived
  <2>4. Counted(L, {r \in Range(recs) : cats[r] # {}}, M)
    BY ONLY <2>2, <2>3, IngestIs
  <2>5. \A j \in 1 .. n : recs[j] \in Range(recs) /\ (cats[recs[j]] # {} <=> Answer(z, recs[j]) # "none")
    <3> SUFFICES ASSUME NEW j \in 1 .. n
                 PROVE  recs[j] \in Range(recs) /\ (cats[recs[j]] # {} <=> Answer(z, recs[j]) # "none")
      OBVIOUS
    <3>1. recs[j] \in Range(recs)
      BY <1>7 DEF Range
    <3>2. cats[recs[j]] = Range(Hits(z, recs[j]))
      BY <2>1, <3>1
    <3>3. Answer(z, recs[j]) = "none" <=> Range(Hits(z, recs[j])) = {}
      BY AnswerIs
    <3> QED BY <3>1, <3>2, <3>3
  <2>6. {r \in Range(recs) : cats[r] # {}} = Answered(z, recs, n)
    BY <1>7, <2>5 DEF Range, Answered
  <2> QED BY <2>4, <2>6
<1>11. Matches(s, L) /\ Accounted(A, s, L) /\ Numbers(L, m) /\ Tallies(L)
  BY <1>2 DEF Totalled
<1>12. Matches(t, M) /\ Accounted(A, t, M) /\ Numbers(M, m + n)
  <2>1. n \in Nat /\ m \in Nat /\ Catalogue(s, m)
    BY <1>1, <1>3
  <2>2. Replaced(s, t, n, pos)
    BY <1>7 DEF Replaced
  <2>3. Come(z, recs, n, num, pos, t)
    BY <1>8 DEF Come
  <2> QED BY ONLY <1>6, <1>10, <1>11, <2>1, <2>2, <2>3, BatchTotals
<1>13. Tallies(M)
  BY <1>10, <1>11, TallyStays
<1> QED BY <1>2, <1>3, <1>12, <1>13 DEF Totalled

(* So does a group published: what its units replaced is still counted,
   and known to be replaced.                                               *)
LEMMA PublishTotalled ==
  ASSUME NEW v, NEW node, NEW got, Surveyed(v, node, got), Publish, Totalled
  PROVE  Totalled'
<1>1. next' = next /\ All' = All
  BY AllStays DEF Publish, scanVars
<1>2. CASE groups = <<>>
  <2>1. Records' = Records /\ live' = live
    BY <1>2 DEF Publish, Records
  <2> QED BY <1>1, <2>1 DEF Totalled
<1>3. CASE groups # <<>>
  <2>1. PICK U, units : /\ units = SetToSeq(U) /\ Lawful(U) /\ live' = IngestPrimary(live, units)
                        /\ Merged(Records, U, Records')
    BY <1>3, PublishIs DEF Surveyed
  <2>2. PICK s, t, m, L, M, A : /\ s = Records /\ t = Records' /\ m = next /\ L = live /\ M = live' /\ A = All
    OBVIOUS
  <2>3. Range(units) = U
    BY <2>1, SetToSeqIs DEF Lawful
  <2>4. \A u \in U : Unitary(u) /\ u.id[1] # "file"
    BY <2>1 DEF Lawful
  <2>5. \A u, w \in U : u.id = w.id => u = w
    <3> SUFFICES ASSUME NEW u \in U, NEW w \in U, u.id = w.id PROVE u = w
      OBVIOUS
    <3>1. <<u.id[1], u.path>> = <<w.id[1], w.path>>
      BY <2>4 DEF Unitary
    <3>2. u.path = w.path
      BY <3>1
    <3> QED BY <2>1, <3>2 DEF Lawful
  <2>6. Counted(L, U, M)
    <3>1. PICK cats : cats = [r \in Range(units) |-> {r.cat} \ {"none"}]
      OBVIOUS
    <3>2. M = Ingest(L, units, cats)
      BY <2>1, <2>2, <3>1 DEF IngestPrimary
    <3>3. Counted(L, {r \in Range(units) : cats[r] # {}}, M)
      BY <2>3, <2>5, <3>2, IngestIs
    <3>4. \A u \in U : cats[u] # {}
      BY <2>3, <2>4, <3>1, PromisedIs DEF Unitary
    <3> QED BY <2>3, <3>3, <3>4
  <2>7. Catalogue(s, m) /\ Catalogue(t, m)
    <3>1. Recorded'
      BY PublishSurveyed DEF Surveyed
    <3> QED BY <1>1, <2>2, <3>1 DEF Surveyed, Recorded
  <2>8. \A k \in DOMAIN s : s[k].unit = "file" => \E f \in A : f.path = s[k].path
    <3>1. got \subseteq A
      <4>1. got \subseteq Earlier(volume + 1) /\ SessionTypes
        BY DEF Surveyed, Delivery, Exact
      <4> QED BY <2>2, <4>1, EarlierAll
    <3>2. \A k \in DOMAIN s : s[k].unit = "file" => Told(s[k]) \in got
      BY <2>2 DEF Surveyed, Covers
    <3>3. \A k \in DOMAIN s : Told(s[k]).path = s[k].path
      BY DEF Told
    <3> QED BY <3>1, <3>2, <3>3
  <2>9. Matches(s, L) /\ Accounted(A, s, L) /\ Numbers(L, m) /\ Tallies(L)
    BY <2>2 DEF Totalled
  <2>10. Matches(t, M) /\ Accounted(A, t, M) /\ Numbers(M, m)
    <3>1. Merged(s, U, t)
      BY <2>1, <2>2
    <3> QED BY ONLY <2>4, <2>6, <2>7, <2>8, <2>9, <3>1, UnitsTotals
  <2>11. Tallies(M)
    BY <2>6, <2>9, TallyStays
  <2> QED BY <1>1, <2>2, <2>10, <2>11 DEF Totalled
<1> QED BY <1>2, <1>3

(* So does a decision.                                                     *)
LEMMA KeepTotalled ==
  ASSUME Recorded, Keep, Totalled
  PROVE  Totalled'
<1>1. PICK r : /\ Decide(r) /\ DOMAIN Records' = DOMAIN Records
               /\ \A k \in DOMAIN Records : Records'[k] = KeptAs(Records[k], r.id) /\ Whole(Records[k])
  BY KeepIs
<1>2. next' = next /\ All' = All
  BY AllStays DEF Keep, scanVars
<1>3. PICK s, t, m, L, M, A, id : /\ s = Records /\ t = Records' /\ m = next /\ L = live /\ M = live' /\ A = All
                                  /\ id = r.id
  OBVIOUS
<1>4. M = [x \in DOMAIN L |-> IF x = id THEN [L[x] EXCEPT !.decision = "keep"] ELSE L[x]]
  BY <1>1, <1>3 DEF Decide
<1>5. DOMAIN t = DOMAIN s /\ \A k \in DOMAIN s : t[k] = KeptAs(s[k], id) /\ Whole(s[k])
  BY <1>1, <1>3
<1>6. Matches(s, L) /\ Accounted(A, s, L) /\ Numbers(L, m) /\ Tallies(L)
  BY <1>3 DEF Totalled
<1>7. Matches(t, M) /\ Accounted(A, t, M) /\ Numbers(M, m) /\ Tallies(M)
  BY ONLY <1>4, <1>5, <1>6, KeepTotals
<1> QED BY <1>2, <1>3, <1>7 DEF Totalled

(* So do new settings, which count anew.                                   *)
LEMMA SettingsTotalled ==
  ASSUME NEW v, NEW node, NEW got, Surveyed(v, node, got), ApplySettings
  PROVE  Totalled'
<1>1. next' = next /\ live' = IngestPrimary(<<>>, Records')
  BY SettingsAre DEF ApplySettings, Surveyed
<1>2. Surveyed(v, node, got)'
  BY KeepSurveyed
<1>3. PICK t, m, L, M, A : t = Records' /\ m = next' /\ L = <<>> /\ M = live' /\ A = All'
  OBVIOUS
<1>4. Catalogue(t, m)
  BY <1>2, <1>3 DEF Surveyed, Recorded
<1>5. DOMAIN L = {}
  BY <1>3
<1>6. PICK cats : cats = [r \in Range(t) |-> {r.cat} \ {"none"}]
  OBVIOUS
<1>7. M = Ingest(L, t, cats)
  BY <1>1, <1>3, <1>6 DEF IngestPrimary
<1>8. \A r, x \in Range(t) : r.id = x.id => r = x
  BY <1>4 DEF Catalogue, Range
<1>9. Counted(L, {r \in Range(t) : cats[r] # {}}, M)
  BY ONLY <1>7, <1>8, IngestIs
<1>10. {r \in Range(t) : cats[r] # {}} = {r \in Range(t) : r.cat # "none"}
  BY <1>6
<1>11. Counted(L, {r \in Range(t) : r.cat # "none"}, M)
  BY <1>9, <1>10
<1>12. Matches(t, M) /\ Accounted(A, t, M) /\ Numbers(M, m)
  BY <1>4, <1>5, <1>11, FreshTotals
<1>13. Tallies(M)
  <2>1. Tallies(L)
    BY <1>5 DEF Tallies
  <2> QED BY <1>9, <2>1, TallyStays
<1> QED BY <1>3, <1>12, <1>13 DEF Totalled

(* The totals are true at first.                                           *)
LEMMA InitTotalled == Init => TotalsInv
<1> SUFFICES ASSUME Init PROVE Totalled
  BY InitSurveyed DEF TotalsInv
<1>1. DOMAIN Records = {}
  BY EmptyIs DEF Init, Records
<1>2. DOMAIN live = {}
  <2>1. live = <<>>
    BY DEF Init
  <2> QED BY <2>1
<1> QED BY <1>1, <1>2 DEF Totalled, Matches, Accounted, Numbers, Tallies

(* Every step keeps them so.                                               *)
LEMMA StepTotalled ==
  ASSUME TotalsInv, [Next]_vars
  PROVE  TotalsInv'
<1>1. SurveyInv'
  BY NextSurveyed DEF TotalsInv
<1>2. PICK v, node, got : Surveyed(v, node, got)
  BY DEF TotalsInv, SurveyInv
<1>3. Totalled /\ Recorded
  BY <1>2 DEF TotalsInv, Surveyed
<1>4. CASE Scanner \/ (Stop /\ UNCHANGED survey) \/ UNCHANGED vars
  <2>1. Records' = Records /\ live' = live /\ next' = next
    BY <1>4 DEF Scanner, survey, vars, Records
  <2>2. world' = world /\ volumes' = volumes
    <3>1. CASE UNCHANGED vars
      BY <3>1 DEF vars, scanVars
    <3>2. CASE Stop
      BY <3>2 DEF Stop
    <3>3. CASE SessionStep
      BY <3>3 DEF SessionStep, NextVolume, VolumeFails, EndVolume, Joined, Sift, EndSift, PassOne, Push, Finish,
                  ReadFails, Fails
    <3>4. CASE \E w \in Worker : WorkerStep(w)
      BY <3>4 DEF WorkerStep, Take, Open, Share, Leave, GoHome
    <3> QED BY <1>4, <3>1, <3>2, <3>3, <3>4 DEF Scanner
  <2> QED BY <1>1, <1>3, <2>1, <2>2, AllStays DEF Totalled, TotalsInv
<1>5. CASE OnBatch
  BY <1>1, <1>2, <1>3, <1>5, BatchTotalled DEF TotalsInv
<1>6. CASE Analyse
  <2>1. Records' = Records /\ live' = live /\ next' = next /\ All' = All
    BY <1>6, AllStays DEF Analyse, Records, scanVars
  <2> QED BY <1>1, <1>3, <2>1 DEF Totalled, TotalsInv
<1>7. CASE Publish
  BY <1>1, <1>2, <1>3, <1>7, PublishTotalled DEF TotalsInv
<1>8. CASE Keep
  BY <1>1, <1>3, <1>8, KeepTotalled DEF TotalsInv
<1>9. CASE ApplySettings
  BY <1>1, <1>2, <1>9, SettingsTotalled DEF TotalsInv
<1> QED BY <1>4, <1>5, <1>6, <1>7, <1>8, <1>9 DEF Next, User

(* The inductive invariant gives TotalsTrue.                               *)
LEMMA TotalsAreTrue == TotalsInv => TotalsTrue
<1> SUFFICES ASSUME TotalsInv PROVE TotalsTrue
  OBVIOUS
<1> DEFINE shown   == {id \in DOMAIN live : live[id].decision # "keep"}
           offered == {r \in Range(GetAll(index)) : r.cat # "none" /\ r.decision # "keep"}
           ids     == {r.id : r \in Range(GetAll(index))}
           covered == {u.path : u \in Units}
           displaced == {id \in DOMAIN live \ ids :
                           IF id[1] = "file" THEN covered \cap {f.path : f \in All} # {}
                           ELSE id[2] \in covered}
<1>1. PICK s, L, A : s = Records /\ L = live /\ A = All
  OBVIOUS
<1>2. Matches(s, L) /\ Accounted(A, s, L)
  BY <1>1 DEF TotalsInv, Totalled
<1>3. Range(GetAll(index)) = {s[k] : k \in DOMAIN s}
  BY <1>1 DEF Records, Range
<1>4. ASSUME NEW r \in offered PROVE r.id \in shown /\ live[r.id].size = r.size
  <2>1. PICK k \in DOMAIN s : r = s[k]
    BY <1>3
  <2>2. Offered(s[k])
    BY <2>1 DEF Offered
  <2>3. OnScreen(L, s[k].id) /\ L[s[k].id].size = s[k].size
    BY <1>2, <2>2 DEF Matches
  <2> QED BY <1>1, <2>1, <2>3 DEF OnScreen
<1>5. ASSUME NEW id \in shown PROVE id \in {r.id : r \in offered} \cup displaced
  <2>1. OnScreen(L, id) /\ id \in DOMAIN L
    BY <1>1 DEF OnScreen
  <2>2. CASE \E k \in DOMAIN s : s[k].id = id
    <3>1. PICK k \in DOMAIN s : s[k].id = id
      BY <2>2
    <3>2. Offered(s[k])
      BY <1>2, <2>1, <3>1 DEF Matches
    <3>3. s[k] \in offered
      BY <1>3, <3>2 DEF Offered
    <3> QED BY <3>1, <3>3
  <2>3. CASE ~ \E k \in DOMAIN s : s[k].id = id
    <3>1. Displaced(A, s, id)
      BY <1>2, <2>1, <2>3 DEF Accounted
    <3>2. PICK j \in DOMAIN s : /\ s[j].unit # "file"
                                /\ IF id[1] = "file" THEN \E f \in A : f.path = s[j].path ELSE id[2] = s[j].path
      BY <3>1 DEF Displaced
    <3>3. s[j].path \in covered
      BY <1>3, <3>2 DEF Units, Files, IsFile
    <3>4. id \notin ids
      BY <1>3, <2>3
    <3>5. IF id[1] = "file" THEN covered \cap {f.path : f \in All} # {} ELSE id[2] \in covered
      <4> HIDE DEF covered
      <4> QED BY <1>1, <3>2, <3>3
    <3> QED BY <1>1, <2>1, <3>4, <3>5
  <2> QED BY <2>2, <2>3
<1> QED BY <1>4, <1>5 DEF TotalsTrue

(* The live totals count each candidate of the index once, with its
   size, and besides them at most files that a unit has replaced since
   they were counted (LiveTotals::ingest, ScanRuntime's analysis).         *)
THEOREM TotalsTrueAlways == Spec => []TotalsTrue
BY InitTotalled, StepTotalled, TotalsAreTrue, PTL DEF Spec

-----------------------------------------------------------------------------
(* Paths that lie below one another.                                       *)

(* The first n names of a path.                                            *)
LEMMA FirstNames ==
  ASSUME NEW S, NEW p \in Seq(S), NEW n \in Nat, n <= Len(p)
  PROVE  /\ SubSeq(p, 1, n) \in Seq(S) /\ Len(SubSeq(p, 1, n)) = n
         /\ \A i \in 1 .. n : SubSeq(p, 1, n)[i] = p[i]
<1>1. Len(p) \in Nat /\ \A i \in 1 .. n : p[i] \in S
  BY LenProperties
<1> QED BY <1>1

(* Under, name by name.                                                    *)
LEMMA UnderIs ==
  ASSUME NEW S, NEW p \in Seq(S), NEW q \in Seq(S)
  PROVE  Under(p, q) <=> Len(q) <= Len(p) /\ \A i \in 1 .. Len(q) : p[i] = q[i]
<1>1. PICK n \in Nat : n = Len(q)
  BY LenProperties
<1>2. Under(p, q) <=> n <= Len(p) /\ SubSeq(q, 1, n) = SubSeq(p, 1, n)
  BY <1>1 DEF Under, IsPrefix
<1>3. ASSUME n <= Len(p)
      PROVE  SubSeq(q, 1, n) = SubSeq(p, 1, n) <=> \A i \in 1 .. n : p[i] = q[i]
  <2>1. PICK a, b : a = SubSeq(p, 1, n) /\ b = SubSeq(q, 1, n)
    OBVIOUS
  <2>2. n <= Len(q)
    BY <1>1
  <2>3. a \in Seq(S) /\ Len(a) = n /\ \A i \in 1 .. n : a[i] = p[i]
    BY <1>3, <2>1, FirstNames
  <2>4. b \in Seq(S) /\ Len(b) = n /\ \A i \in 1 .. n : b[i] = q[i]
    BY <2>1, <2>2, FirstNames
  <2>5. a = b <=> \A i \in 1 .. n : a[i] = b[i]
    BY <2>3, <2>4, SeqEqual
  <2> QED BY <2>1, <2>3, <2>4, <2>5
<1> QED BY <1>1, <1>2, <1>3

(* A folder, name by name.                                                 *)
LEMMA FolderIs ==
  ASSUME NEW p \in PathSet
  PROVE  /\ Folder(p) \in Seq(Words) /\ Len(p) \in Nat \ {0} /\ Len(Folder(p)) = Len(p) - 1
         /\ \A i \in 1 .. Len(p) - 1 : Folder(p)[i] = p[i]
         /\ Folder(p) = SubSeq(p, 1, Len(p) - 1)
<1>1. p \in Seq(Words) /\ p # <<>>
  BY DEF PathSet
<1>2. Len(p) \in Nat /\ Len(p) # 0
  BY <1>1, EmptySeq, LenProperties
<1>3. PICK n \in Nat : n = Len(p) - 1
  BY <1>2
<1>4. Folder(p) = SubSeq(p, 1, n)
  BY <1>3 DEF Folder, Front
<1>5. n <= Len(p)
  BY <1>2, <1>3
<1> QED BY <1>1, <1>2, <1>3, <1>4, <1>5, FirstNames

(* Being below is transitive, and what is below a path but not the path
   lies in a folder that is.                                               *)
LEMMA UnderThrough ==
  ASSUME NEW p \in Seq(Words), NEW q \in Seq(Words), NEW r \in Seq(Words), Under(p, q), Under(q, r)
  PROVE  Under(p, r)
<1>1. Len(q) \in Nat /\ Len(r) \in Nat /\ Len(p) \in Nat
  BY LenProperties
<1>2. Len(q) <= Len(p) /\ \A i \in 1 .. Len(q) : p[i] = q[i]
  BY UnderIs
<1>3. Len(r) <= Len(q) /\ \A i \in 1 .. Len(r) : q[i] = r[i]
  BY UnderIs
<1>4. \A i \in 1 .. Len(r) : i \in 1 .. Len(q)
  BY <1>1, <1>3
<1>5. Len(r) <= Len(p) /\ \A i \in 1 .. Len(r) : p[i] = r[i]
  BY <1>1, <1>2, <1>3, <1>4
<1> QED BY <1>5, UnderIs

(* What lies below a path, and is not the path, has its folder there.      *)
LEMMA UnderFolder ==
  ASSUME NEW p \in PathSet, NEW q \in Seq(Words), Under(p, q), p # q
  PROVE  Under(Folder(p), q) /\ Len(q) <= Len(p) - 1
<1>1. p \in Seq(Words)
  BY DEF PathSet
<1>2. Len(q) \in Nat /\ Len(p) \in Nat \ {0}
  BY FolderIs, LenProperties
<1>3. Len(q) <= Len(p) /\ \A i \in 1 .. Len(q) : p[i] = q[i]
  BY <1>1, UnderIs
<1>4. Len(q) # Len(p)
  <2> SUFFICES ASSUME Len(q) = Len(p) PROVE p = q
    OBVIOUS
  <2> QED BY <1>1, <1>3, SeqEqual
<1>5. Len(q) <= Len(p) - 1
  BY <1>2, <1>3, <1>4
<1>6. \A i \in 1 .. Len(q) : i \in 1 .. Len(p) - 1
  BY <1>2, <1>5
<1>7. Folder(p) \in Seq(Words) /\ Len(Folder(p)) = Len(p) - 1 /\ \A i \in 1 .. Len(p) - 1 : Folder(p)[i] = p[i]
  BY FolderIs
<1>8. Len(q) <= Len(Folder(p)) /\ \A i \in 1 .. Len(q) : Folder(p)[i] = q[i]
  BY <1>3, <1>5, <1>6, <1>7
<1> QED BY <1>5, <1>7, <1>8, UnderIs

-----------------------------------------------------------------------------
(* Folders with the folders they lie in.                                   *)

(* Every folder but a volume has its own folder listed.                    *)
Closed(D) == \A d \in D : Len(d) > 1 => Folder(d) \in D

(* Then all the folders on the way down to one are listed.                 *)
LEMMA ClosedUp ==
  ASSUME NEW D, D \subseteq PathSet, Closed(D), NEW q \in D
  PROVE  \A n \in 1 .. Len(q) : SubSeq(q, 1, n) \in D
<1>1. PICK N \in Nat \ {0} : N = Len(q)
  BY FolderIs
<1>0. q \in Seq(Words)
  BY DEF PathSet
<1> DEFINE G == {m \in Nat : m < N => SubSeq(q, 1, N - m) \in D}
<1>2. 0 \in G
  <2>1. SubSeq(q, 1, N) = q
    <3>1. PICK a : a = SubSeq(q, 1, N)
      OBVIOUS
    <3>2. a \in Seq(Words) /\ Len(a) = N /\ \A i \in 1 .. N : a[i] = q[i]
      BY <1>0, <1>1, <3>1, FirstNames
    <3>3. a = q
      BY <1>0, <1>1, <3>2, SeqEqual
    <3> QED BY <3>1, <3>3
  <2>2. N - 0 = N
    OBVIOUS
  <2> QED BY <2>1, <2>2
<1>3. ASSUME NEW m \in Nat, m \in G PROVE m + 1 \in G
  <2> SUFFICES ASSUME m + 1 < N PROVE SubSeq(q, 1, N - (m + 1)) \in D
    OBVIOUS
  <2>1. PICK n \in Nat : n = N - m
    OBVIOUS
  <2>2. n <= N /\ n > 1 /\ n - 1 = N - (m + 1) /\ n - 1 \in Nat
    BY <2>1
  <2>3. PICK a : a = SubSeq(q, 1, n)
    OBVIOUS
  <2>4. a \in D /\ a \in PathSet
    BY <1>3, <2>1, <2>3
  <2>5. a \in Seq(Words) /\ Len(a) = n /\ \A i \in 1 .. n : a[i] = q[i]
    BY <1>0, <1>1, <2>2, <2>3, FirstNames
  <2>6. Folder(a) \in D
    BY <2>2, <2>4, <2>5 DEF Closed
  <2>7. Folder(a) \in Seq(Words) /\ Len(Folder(a)) = n - 1 /\ \A i \in 1 .. n - 1 : Folder(a)[i] = a[i]
    BY <2>4, <2>5, FolderIs
  <2>8. PICK b : b = SubSeq(q, 1, n - 1)
    OBVIOUS
  <2>9. b \in Seq(Words) /\ Len(b) = n - 1 /\ \A i \in 1 .. n - 1 : b[i] = q[i]
    <3>1. n - 1 <= Len(q)
      BY <1>1, <2>2
    <3> QED BY <1>0, <2>2, <2>8, <3>1, FirstNames
  <2>10. \A i \in 1 .. n - 1 : Folder(a)[i] = b[i]
    BY <2>2, <2>5, <2>7, <2>9
  <2>11. Folder(a) = b
    BY <2>7, <2>9, <2>10, SeqEqual
  <2> QED BY <2>2, <2>6, <2>8, <2>11
<1>4. Nat \subseteq G
  <2> HIDE DEF G
  <2> QED BY <1>2, <1>3, Induct
<1>5. ASSUME NEW n \in 1 .. Len(q) PROVE SubSeq(q, 1, n) \in D
  <2>0. n \in 1 .. N
    BY <1>1
  <2>1. PICK m \in Nat : m = N - n
    <3>1. N - n \in Nat
      BY <2>0
    <3> QED BY <3>1
  <2>2. m < N /\ N - m = n
    BY <2>0, <2>1
  <2>3. m \in G
    BY <1>4
  <2> QED BY <2>2, <2>3
<1> QED BY <1>5

(* Listed folders are an upward closed tree: one listed with another has
   the way to it listed.                                                   *)
LEMMA WayListed ==
  ASSUME NEW D, D \subseteq PathSet, Closed(D), NEW q \in D, NEW d, Len(d) \in Nat
  PROVE  Way(d, q) \subseteq D
<1>1. Len(q) \in Nat
  BY FolderIs
<1>2. \A n \in Len(d) + 1 .. Len(q) : n \in 1 .. Len(q)
  BY <1>1
<1> QED BY <1>2, ClosedUp DEF Way

-----------------------------------------------------------------------------
(* The folders collected, from a table ...                                 *)

(* What lies in no excluded folder lies in none that lies in one.          *)
LEMMA SparedUp ==
  ASSUME NEW v, world \in World, NEW p \in PathSet, ~Excluded(p, Exclusions(v))
  PROVE  ~Excluded(Folder(p), Exclusions(v))
<1>1. Folder(p) \in Seq(Words) /\ Name(p) \in Words /\ p = Append(Folder(p), Name(p))
  BY SplitPath DEF PathSet
<1>2. PICK f, x : f = Folder(p) /\ x = Name(p)
  OBVIOUS
<1>3. f \in Seq(Words) /\ x \in Words /\ p = Append(f, x)
  BY <1>1, <1>2
<1> QED BY <1>2, <1>3, ExcludedDown

(* A record's path is its folder's path and its name.                      *)
LEMMA FolderOfPath ==
  ASSUME NEW v, Disk(v), NEW k \in Reach(v)
  PROVE  /\ Folder(PathTo(v, k)) = PathTo(v, Parent(v, k)) /\ PathTo(v, k) \in PathSet
         /\ Parent(v, k) \in {0} \cup Entered(v)
         /\ Depth(v, Parent(v, k)) \in Nat /\ Depth(v, k) = Depth(v, Parent(v, k)) + 1
<1>1. k \in DOMAIN Table(v)
  BY DEF Reach
<1>2. /\ PathTo(v, k) = Append(PathTo(v, Parent(v, k)), Table(v)[k].name)
      /\ PathTo(v, Parent(v, k)) \in Seq(Words)
      /\ Depth(v, Parent(v, k)) \in Nat /\ Depth(v, k) = Depth(v, Parent(v, k)) + 1
  BY PathToIs
<1>3. Table(v)[k].name \in Words
  BY <1>1, DiskIs
<1>4. Parent(v, k) \in {0} \cup Entered(v)
  BY <1>1, ReachIs DEF Entered
<1> QED BY <1>2, <1>3, <1>4, JoinPath, PathToIn

(* The first pass lists every folder that is entered and not too deep ...  *)
LEMMA TableLists ==
  ASSUME NEW v, Disk(v), ByTable(v), NEW r \in {0} \cup Entered(v), Depth(v, r) <= MaxDepth
  PROVE  PathTo(v, r) \in TableFolders(v)
<1>1. CASE r = 0
  <2>1. PathTo(v, r) = <<v>>
    BY <1>1, PathToRoot
  <2>2. <<v>> # NoPath
    BY DEF NoPath
  <2> QED BY <2>1, <2>2 DEF TableFolders
<1>2. CASE r \in Entered(v)
  <2>1. r \in Reach(v) /\ r \in DOMAIN Table(v) /\ Passable(v, Table(v)[r])
    BY <1>2 DEF Entered, Reach
  <2>2. r \in Readable(v) /\ Table(v)[r].kind \in Directories
    BY <2>1, PassableIntact DEF Passable
  <2>3. PICK known : known = FolderRecords(v)
    OBVIOUS
  <2>4. r \in DOMAIN known /\ known[r] = Table(v)[r]
    BY <2>2, <2>3 DEF FolderRecords
  <2>5. PICK q : q = Parent(v, r)
    OBVIOUS
  <2>6. q \in {0} \cup Entered(v) /\ Depth(v, q) <= MaxDepth
    <3>1. q \in {0} \cup Entered(v) /\ Depth(v, q) \in Nat /\ Depth(v, r) = Depth(v, q) + 1
      BY <2>1, <2>5, FolderOfPath
    <3> QED BY <3>1, BoundsOK
  <2>7. Resolve(v, known, q) = PathTo(v, q)
    BY <2>3, <2>6, TableResolves
  <2>8. PathTo(v, r) = Append(PathTo(v, q), Table(v)[r].name) /\ PathTo(v, q) \in PathSet
    <3>1. q \in {0} \cup Reach(v)
      BY <2>6 DEF Entered
    <3> QED BY <2>1, <2>5, <3>1, PathToIs, PathToIn
  <2>9. PathTo(v, q) # NoPath
    BY <2>8 DEF PathSet, NoPath
  <2>10. FullPath(v, known, known[r]) = PathTo(v, r)
    <3>1. PICK e : e = known[r]
      OBVIOUS
    <3>2. e.parent = q /\ e.name = Table(v)[r].name
      BY <2>4, <2>5, <3>1 DEF Parent
    <3>3. FullPath(v, known, e) = Below(PathTo(v, q), Table(v)[r].name)
      BY <2>7, <3>2 DEF FullPath
    <3> QED BY <2>8, <2>9, <3>1, <3>3, BelowIs
  <2>11. PathTo(v, r) # NoPath
    <3>1. PathTo(v, r) \in PathSet
      BY <2>1, PathToIn
    <3> QED BY <3>1 DEF PathSet, NoPath
  <2> QED BY <2>3, <2>4, <2>10, <2>11 DEF TableFolders
<1> QED BY <1>1, <1>2

(* ... and nothing but the root and folders that lie in such a folder.     *)
LEMMA TableListed ==
  ASSUME NEW v, Disk(v), ByTable(v), NEW p \in TableFolders(v)
  PROVE  \/ p = <<v>>
         \/ \E k \in Intact(v) : /\ Table(v)[k].kind \in Directories /\ p = PathTo(v, k)
                                 /\ Depth(v, Parent(v, k)) <= MaxDepth
<1>1. PICK known : known = FolderRecords(v)
  OBVIOUS
<1>2. p = <<v>> \/ \E k \in DOMAIN known : p = FullPath(v, known, known[k]) /\ p # NoPath
  BY <1>1 DEF TableFolders
<1>3. ASSUME NEW k \in DOMAIN known, p = FullPath(v, known, known[k]), p # NoPath
      PROVE  k \in Intact(v) /\ Table(v)[k].kind \in Directories /\ p = PathTo(v, k) /\ Depth(v, Parent(v, k)) <= MaxDepth
  <2>1. k \in Readable(v) /\ k \in DOMAIN Table(v) /\ Table(v)[k].kind \in Directories /\ known[k] = Table(v)[k]
    BY <1>1 DEF FolderRecords, Readable
  <2>2. PICK q, a, x : q = Parent(v, k) /\ a = Resolve(v, known, q) /\ x = Table(v)[k].name
    OBVIOUS
  <2>3. p = Below(a, x)
    <3>1. PICK e : e = known[k]
      OBVIOUS
    <3>2. e.parent = q /\ e.name = x
      BY <2>1, <2>2, <3>1 DEF Parent
    <3> QED BY <1>3, <2>2, <3>1, <3>2 DEF FullPath
  <2>4. a # NoPath /\ p = Append(a, x)
    BY <1>3, <2>3, BelowIs
  <2>5. a = PathTo(v, q) /\ q \in {0} \cup Entered(v) /\ Depth(v, q) <= MaxDepth
    BY <1>1, <2>2, <2>4, TableResolves
  <2>6. k \in Reach(v)
    BY <2>1, <2>2, <2>5, ReachIs DEF Entered
  <2>7. p = PathTo(v, k)
    BY <2>2, <2>4, <2>5, <2>6, PathToIs
  <2> QED BY <2>1, <2>2, <2>5, <2>6, <2>7 DEF Intact
<1> QED BY <1>2, <1>3

(* Listed folders stand for folders on the disks, never for a file.        *)
Stands(d) == \E w, k : /\ Disk(w) /\ k \in {0} \cup Intact(w) /\ d = PathTo(w, k)
                       /\ k # 0 => ~Visible(w, Table(w)[k])

(* What the first pass adds is closed, holds the folder of all that will
   be reported, and is folders.                                            *)
LEMMA TableCharts ==
  ASSUME NEW v, Disk(v), ByTable(v), NEW C, C = Collected(v, TableFolders(v))
  PROVE  /\ Closed(C) /\ \A d \in C : Stands(d)
         /\ \A f \in Within(v) : Folder(f.path) \in C
<1>0. world \in World
  BY DEF Disk
<1>1. ASSUME NEW d \in C PROVE Stands(d) /\ (Len(d) > 1 => Folder(d) \in C)
  <2>1. d \in TableFolders(v) /\ ~Excluded(d, Exclusions(v))
    BY <1>1 DEF Collected
  <2>2. CASE d = <<v>>
    <3>1. Len(d) = 1
      BY <2>2
    <3> QED BY <2>2, <3>1, PathToRoot DEF Stands
  <2>3. ASSUME NEW k \in Intact(v), Table(v)[k].kind \in Directories, d = PathTo(v, k),
               Depth(v, Parent(v, k)) <= MaxDepth
        PROVE  Stands(d) /\ Folder(d) \in C
    <3>1. k \in Reach(v)
      BY DEF Intact
    <3>2. Folder(d) = PathTo(v, Parent(v, k)) /\ d \in PathSet /\ Parent(v, k) \in {0} \cup Entered(v)
      BY <2>3, <3>1, FolderOfPath
    <3>3. Folder(d) \in TableFolders(v)
      BY <2>3, <3>2, TableLists
    <3>4. ~Excluded(Folder(d), Exclusions(v))
      BY <1>0, <2>1, <3>2, SparedUp
    <3>5. ~Visible(v, Table(v)[k])
      BY <2>3 DEF Visible
    <3> QED BY <2>3, <3>3, <3>4, <3>5 DEF Collected, Stands
  <2> QED BY <2>1, <2>2, <2>3, TableListed
<1>2. ASSUME NEW f \in Within(v) PROVE Folder(f.path) \in C
  <2>1. PICK k \in Near(v) : f = Fact(v, k)
    BY DEF Within, Facts
  <2>2. k \in Reach(v) /\ Depth(v, Parent(v, k)) <= MaxDepth /\ ~Excluded(PathTo(v, k), Exclusions(v))
    BY DEF Near, Seen
  <2>3. f.path = PathTo(v, k)
    BY <2>1 DEF Fact
  <2>4. Folder(f.path) = PathTo(v, Parent(v, k)) /\ f.path \in PathSet /\ Parent(v, k) \in {0} \cup Entered(v)
    BY <2>2, <2>3, FolderOfPath
  <2>5. Folder(f.path) \in TableFolders(v)
    BY <2>2, <2>4, TableLists
  <2>6. ~Excluded(Folder(f.path), Exclusions(v))
    BY <1>0, <2>2, <2>3, <2>4, SparedUp
  <2> QED BY <2>5, <2>6 DEF Collected
<1> QED BY <1>1, <1>2 DEF Closed

-----------------------------------------------------------------------------
(* ... and from a walk.                                                    *)

(* The folder of everything reported is listed.                            *)
Mapped(F) == \A f \in F : Folder(f.path) \in dirs

(* The path a walk's entry stands for, and the folders gone through that
   are not excluded have theirs listed.                                    *)
EntryPath(v, c) == IF entries[c + 1].ref = 0 THEN <<v>> ELSE FullPath(v, FolderEntries, entries[c + 1])

ListedOr(v, p) == p = NoPath \/ Excluded(p, Exclusions(v)) \/ p \in dirs

Sifted(v) == \A c \in Folders : c < cursor => ListedOr(v, EntryPath(v, c))

(* The invariant of the folders collected (dirs).                          *)
Charts ==
  /\ Closed(dirs) /\ \A d \in dirs : Stands(d)
  /\ Mapped(Earlier(volume))
  /\ at = "pass 2" => Mapped(Within(Letter))
  /\ at = "sift" => Sifted(Letter)
  /\ at = "close" /\ ~stopped => Mapped(Within(Letter))

(* The folders' disks do not change.                                       *)
LEMMA StandsStays == ASSUME world' = world, NEW d, Stands(d) PROVE Stands(d)'
<1>1. PICK w, k : /\ Disk(w) /\ k \in {0} \cup Intact(w) /\ d = PathTo(w, k)
                  /\ k # 0 => ~Visible(w, Table(w)[k])
  BY DEF Stands
<1>2. /\ Disk(w)' = Disk(w) /\ Intact(w)' = Intact(w) /\ PathTo(w, k)' = PathTo(w, k)
      /\ Table(w)' = Table(w) /\ ByTable(w)' = ByTable(w)
  BY SameWorld DEF Disk
<1>3. Visible(w, Table(w)[k])' = Visible(w, Table(w)[k])
  BY <1>2 DEF Visible
<1> QED BY <1>1, <1>2, <1>3 DEF Stands

(* A step that stays with its volume keeps what is said of the others.     *)
LEMMA ChartsGrow ==
  ASSUME Charts, Steady, volume' = volume, dirs \subseteq dirs', Closed(dirs'), \A d \in dirs' \ dirs : Stands(d),
         at' = "pass 2" \/ (at' = "close" /\ ~stopped') => \A f \in Within(Letter) : Folder(f.path) \in dirs',
         at' = "sift" => Sifted(Letter)'
  PROVE  Charts'
<1>1. world' = world /\ volumes' = volumes
  BY DEF Steady
<1>2. Letter' = Letter
  BY <1>1 DEF Letter
<1>3. Earlier(volume)' = Earlier(volume)
  BY <1>1, SameFacts
<1>4. Within(Letter)' = Within(Letter)
  <2>1. PICK v : v = Letter
    OBVIOUS
  <2>2. Within(v)' = Within(v)
    <3>1. Near(v)' = Near(v) /\ \A T : Facts(v, T)' = Facts(v, T)
      BY <1>1, SameFacts
    <3> QED BY <3>1 DEF Within
  <2> QED BY <1>2, <2>1, <2>2
<1>5. \A d \in dirs' : Stands(d)'
  <2>1. \A d \in dirs' : Stands(d)
    BY DEF Charts
  <2> QED BY <1>1, <2>1, StandsStays
<1>6. Mapped(Earlier(volume))'
  BY <1>3 DEF Charts, Mapped
<1>7. (at = "pass 2")' \/ (at = "close" /\ ~stopped)' => Mapped(Within(Letter))'
  BY <1>4 DEF Mapped
<1> QED BY <1>5, <1>6, <1>7 DEF Charts

(* What an entry stands for.                                               *)
LEMMA EntryPathIs ==
  ASSUME NEW v, Disk(v), ~ByTable(v), NEW node, WalkTypes, Tree(v, node), 0 \in Given, NEW c \in Given
  PROVE  /\ c = 0 => EntryPath(v, c) = <<v>>
         /\ c # 0 => EntryPath(v, c) = IF Depth(v, Parent(v, node[c])) <= MaxDepth THEN PathTo(v, node[c]) ELSE NoPath
<1>1. CASE c = 0
  <2>1. entries[c + 1].ref = 0
    BY <1>1, TreeIs, RootFields
  <2> QED BY <1>1, <2>1 DEF EntryPath
<1>2. CASE c # 0
  <2>1. entries[c + 1].ref = c
    BY FolderEntriesIs
  <2>2. EntryPath(v, c) = FullPath(v, FolderEntries, entries[c + 1])
    BY <1>2, <2>1 DEF EntryPath
  <2> QED BY <1>2, <2>2, EntriesResolve
<1> QED BY <1>1, <1>2

(* The folder an entry lies in is gone through before it, and listed if
   the entry is not excluded.                                              *)
LEMMA EntryFolder ==
  ASSUME NEW v, Disk(v), ~ByTable(v), NEW node, WalkTypes, Tree(v, node), 0 \in Given, NEW c \in Given \ {0},
         c <= cursor, cursor \in Nat, Sifted(v), NEW p, p = PathTo(v, node[c]), ~Excluded(p, Exclusions(v)),
         Depth(v, Parent(v, node[c])) <= MaxDepth
  PROVE  Folder(p) \in dirs
<1>1. PICK k, q : k = node[c] /\ q = entries[c + 1].parent
  OBVIOUS
<1>2. k \in Reach(v) /\ q \in Folders /\ q < c /\ node[q] = Parent(v, k)
  BY <1>1, EntryIn
<1>3. q \in Given /\ q \in Nat /\ c \in Nat
  BY <1>2, GivenIs DEF Folders
<1>4. /\ Folder(p) = PathTo(v, node[q]) /\ p \in PathSet /\ Parent(v, k) \in {0} \cup Entered(v)
      /\ Depth(v, node[q]) <= MaxDepth
  BY <1>1, <1>2, FolderOfPath
<1>5. EntryPath(v, q) = Folder(p)
  <2>1. CASE q = 0
    <3>1. node[q] = 0
      BY <2>1, TreeIs
    <3> QED BY <1>3, <1>4, <2>1, <3>1, EntryPathIs, PathToRoot
  <2>2. CASE q # 0
    <3>1. node[q] \in Reach(v)
      BY <1>3, <2>2, EntryIn
    <3>2. Depth(v, Parent(v, node[q])) \in Nat /\ Depth(v, node[q]) = Depth(v, Parent(v, node[q])) + 1
      BY <3>1, FolderOfPath
    <3>3. Depth(v, Parent(v, node[q])) <= MaxDepth
      BY <1>4, <3>2, BoundsOK
    <3> QED BY <1>3, <1>4, <2>2, <3>3, EntryPathIs
  <2> QED BY <2>1, <2>2
<1>6. ListedOr(v, Folder(p))
  <2>1. q < cursor
    BY <1>2, <1>3
  <2> QED BY <1>2, <1>5, <2>1 DEF Sifted
<1>7. ~Excluded(Folder(p), Exclusions(v))
  BY <1>4, SparedUp DEF Disk
<1>8. Folder(p) # NoPath
  <2>1. Parent(v, k) \in {0} \cup Reach(v)
    BY <1>4 DEF Entered
  <2>2. Folder(p) \in PathSet
    BY <1>1, <1>2, <1>4, <2>1, PathToIn
  <2> QED BY <2>2 DEF PathSet, NoPath
<1> QED BY <1>6, <1>7, <1>8 DEF ListedOr

(* One more entry gone through.                                            *)
LEMMA SiftCharts ==
  ASSUME NEW v, NEW node, NEW got, Delivery(v, node, got), Charts, Sift
  PROVE  Charts'
<1>1. /\ at = "sift" /\ cursor < Len(entries) /\ cursor' = cursor + 1 /\ at' = "sift"
      /\ Steady /\ volume' = volume /\ entries' = entries
  BY DEF Sift, Steady, walk
<1>2. Disk(v) /\ v = Letter /\ ~ByTable(v) /\ cursor \in Nat /\ WalkTypes /\ Tree(v, node)
  BY <1>1, AtWork DEF Delivery, Placed, Walked, Working, SessionTypes
<1>3. PICK n \in Nat : n = Len(entries)
  BY <1>2, GivenIs
<1>4. PICK c \in Nat : c = cursor
  BY <1>2
<1>5. c \in Given /\ 0 \in Given
  <2>1. Given = 0 .. n - 1 /\ c < n
    BY <1>1, <1>3, <1>4 DEF Given
  <2>2. 0 \in 0 .. n - 1
    BY <2>1
  <2> QED BY <2>1, <2>2, GivenBelow
<1>6. PICK path : /\ path = EntryPath(v, c)
                  /\ entries[c + 1].dir => dirs' = dirs \cup Collected(v, {path} \ {NoPath})
                  /\ ~entries[c + 1].dir => dirs' = dirs
  BY <1>2, <1>4 DEF Sift, EntryPath
<1>7. Sifted(v)
  BY <1>1, <1>2 DEF Charts
<1>8. ASSUME NEW d \in dirs' \ dirs PROVE Stands(d) /\ (Len(d) > 1 => Folder(d) \in dirs)
  <2>1. d = path /\ path # NoPath /\ ~Excluded(path, Exclusions(v)) /\ entries[c + 1].dir
    BY <1>6, <1>8 DEF Collected
  <2>2. CASE c = 0
    <3>1. d = <<v>>
      BY <1>2, <1>5, <1>6, <2>1, <2>2, EntryPathIs
    <3>2. Len(d) = 1
      BY <3>1
    <3> QED BY <1>2, <3>1, <3>2, PathToRoot DEF Stands
  <2>3. CASE c # 0
    <3>1. c \in Given \ {0}
      BY <1>5, <2>3
    <3>2. Depth(v, Parent(v, node[c])) <= MaxDepth /\ path = PathTo(v, node[c])
      BY <1>2, <1>5, <1>6, <2>1, <2>3, EntryPathIs
    <3>3. Folder(d) \in dirs
      BY <1>2, <1>4, <1>5, <1>7, <2>1, <3>1, <3>2, EntryFolder
    <3>4. node[c] \in Intact(v)
      BY <1>2, <1>5, <3>1, EntryIn DEF Shown
    <3>5. ~Visible(v, Table(v)[node[c]])
      <4>1. entries[c + 1] = EntryOf([ref |-> entries[c + 1].parent], Table(v)[node[c]], c)
        BY <1>5, <1>2, <3>1, TreeIs
      <4>2. Table(v)[node[c]].kind \in {"folder", "cloud"}
        BY <2>1, <4>1, EntryFields
      <4> QED BY <1>2, <4>2 DEF Visible
    <3> QED BY <1>2, <2>1, <3>2, <3>3, <3>4, <3>5 DEF Stands
  <2> QED BY <2>2, <2>3
<1>9. dirs \subseteq dirs'
  BY <1>6
<1>10. Closed(dirs')
  BY <1>8, <1>9 DEF Closed, Charts
<1>11. ListedOr(v, path)' \/ ~entries[c + 1].dir
  <2>1. Exclusions(v)' = Exclusions(v)
    BY <1>1, SameWorld DEF Steady
  <2> QED BY <1>6, <2>1 DEF ListedOr, Collected
<1>12. Sifted(v)'
  <2>1. Given' = Given /\ Folders' = Folders /\ FolderEntries' = FolderEntries
    BY <1>1 DEF Given, Folders, FolderEntries
  <2>2. \A b : EntryPath(v, b)' = EntryPath(v, b)
    BY <1>1, <2>1 DEF EntryPath
  <2>3. Exclusions(v)' = Exclusions(v)
    BY <1>1, SameWorld DEF Steady
  <2>4. ASSUME NEW b \in Folders, b < c + 1 PROVE ListedOr(v, EntryPath(v, b))'
    <3>1. b \in Nat /\ entries[b + 1].dir
      BY <1>2, GivenIs DEF Folders
    <3>2. CASE b = c
      BY <1>6, <1>11, <2>2, <3>1, <3>2 DEF ListedOr
    <3>3. CASE b < c
      <4>1. ListedOr(v, EntryPath(v, b))
        BY <1>4, <1>7, <3>3 DEF Sifted
      <4> QED BY <1>9, <2>2, <2>3, <4>1 DEF ListedOr
    <3>4. b = c \/ b < c
      BY <2>4, <3>1
    <3> QED BY <3>2, <3>3, <3>4
  <2> QED BY <1>1, <1>4, <2>1, <2>4 DEF Sifted
<1>13. Sifted(Letter)'
  <2>1. Letter' = v
    BY <1>1, <1>2 DEF Letter, Steady
  <2> QED BY <1>12, <2>1
<1> QED BY <1>1, <1>8, <1>9, <1>10, <1>13, ChartsGrow

(* A walk done with has the folder of everything it reports.               *)
LEMMA WalkMapped ==
  ASSUME NEW v, Disk(v), ~ByTable(v), NEW node, WalkTypes, Tree(v, node), Complete(v, node), Sifted(v),
         cursor = Len(entries)
  PROVE  \A f \in Within(v) : Folder(f.path) \in dirs
<1> SUFFICES ASSUME NEW f \in Within(v) PROVE Folder(f.path) \in dirs
  OBVIOUS
<1>1. PICK k \in Near(v) : f = Fact(v, k)
  BY DEF Within, Facts
<1>2. k \in Seen(v) /\ k \in Intact(v) /\ k \in Reach(v) /\ Depth(v, Parent(v, k)) <= MaxDepth
      /\ ~Excluded(PathTo(v, k), Exclusions(v)) /\ Visible(v, Table(v)[k])
  BY SeenIs DEF Near, Seen
<1>3. f.path = PathTo(v, k)
  BY <1>1 DEF Fact
<1>4. k \in Shown(v)
  BY <1>2 DEF Shown, Visible
<1>5. PICK q \in Given : node[q] = k
  BY <1>4 DEF Complete
<1>6. PICK n \in Nat : n = Len(entries) /\ Given = 0 .. n - 1
  BY GivenIs DEF Given
<1>7. 0 \in Given /\ q < n /\ q \in Nat
  BY <1>6
<1>8. q # 0
  <2>1. k # 0
    BY <1>2, DiskIs DEF Reach
  <2>2. node[0] = 0
    BY <1>7, TreeIs
  <2> QED BY <1>5, <2>1, <2>2
<1>9. q <= cursor /\ cursor \in Nat
  BY <1>6, <1>7
<1> QED BY <1>2, <1>3, <1>5, <1>7, <1>8, <1>9, EntryFolder

(* The first pass.                                                         *)
LEMMA PassOneCharts ==
  ASSUME NEW v, NEW node, NEW got, Delivery(v, node, got), Charts, PassOne
  PROVE  Charts'
<1>1. /\ at = "pass 1" /\ Steady /\ volume' = volume /\ stopped' = stopped
      /\ \/ at' = "close" /\ stopped /\ dirs' = dirs
         \/ at' = "pass 1" /\ dirs' = dirs
         \/ at' = "pass 2" /\ dirs' = dirs \cup Collected(Letter, TableFolders(Letter))
  BY DEF PassOne, Goto, Steady
<1>2. Disk(v) /\ v = Letter /\ ByTable(v)
  BY <1>1, AtWork DEF Delivery, Placed, Working
<1>3. PICK C : C = Collected(v, TableFolders(v))
  OBVIOUS
<1>4. CASE dirs' = dirs /\ at' # "pass 2"
  <2>1. Closed(dirs')
    BY <1>4 DEF Charts
  <2> QED BY <1>1, <1>4, <2>1, ChartsGrow
<1>5. CASE at' = "pass 2" /\ dirs' = dirs \cup C
  <2>1. Closed(C) /\ (\A d \in C : Stands(d)) /\ \A f \in Within(v) : Folder(f.path) \in C
    BY <1>2, <1>3, TableCharts
  <2>2. Closed(dirs')
    BY <1>5, <2>1 DEF Charts, Closed
  <2> QED BY <1>1, <1>2, <1>5, <2>1, <2>2, ChartsGrow
<1> QED BY <1>1, <1>2, <1>3, <1>4, <1>5

(* The end of a volume.                                                    *)
LEMMA EndCharts ==
  ASSUME NEW v, NEW node, NEW got, Delivery(v, node, got), Charts, EndVolume
  PROVE  Charts'
<1>1. /\ at = "close" /\ Steady /\ dirs' = dirs /\ cut' = (cut \/ stopped)
      /\ \/ at' = "ended" /\ volume' = volume
         \/ at' = "next" /\ volume' = volume + 1 /\ ~cut'
  BY DEF EndVolume, Goto, Steady, find
<1>2. CASE volume' = volume /\ at' = "ended"
  <2>1. Closed(dirs')
    BY <1>1 DEF Charts
  <2> QED BY <1>1, <1>2, <2>1, ChartsGrow
<1>3. CASE volume' = volume + 1 /\ at' = "next" /\ ~cut'
  <2>1. world' = world /\ volumes' = volumes
    BY <1>1 DEF Steady
  <2>2. SessionTypes /\ volume \in DOMAIN volumes
    BY <1>1, AtWork DEF Delivery, Working
  <2>3. Earlier(volume + 1) = Earlier(volume) \cup Within(Letter)
    BY <2>2, EarlierNext DEF Letter
  <2>4. Earlier(volume)' = Earlier(volume + 1)
    BY <1>3, <2>1, SameFacts
  <2>5. Mapped(Within(Letter))
    BY <1>1, <1>3 DEF Charts
  <2>6. Mapped(Earlier(volume))'
    BY <1>1, <2>3, <2>4, <2>5 DEF Charts, Mapped
  <2>7. \A d \in dirs' : Stands(d)'
    BY <1>1, <2>1, StandsStays DEF Charts
  <2>8. Closed(dirs')
    BY <1>1 DEF Charts
  <2> QED BY <1>3, <2>6, <2>7, <2>8 DEF Charts
<1> QED BY <1>1, <1>2, <1>3

(* The end of a walk's entries.                                            *)
LEMMA EndSiftCharts ==
  ASSUME NEW v, NEW node, NEW got, Delivery(v, node, got), Charts, EndSift
  PROVE  Charts'
<1>1. /\ at = "sift" /\ at' = "close" /\ Steady /\ volume' = volume /\ stopped' = stopped /\ dirs' = dirs
      /\ stopped \/ cursor = Len(entries)
  BY DEF EndSift, Goto, Steady
<1>2. Disk(v) /\ v = Letter /\ ~ByTable(v) /\ WalkTypes /\ Tree(v, node) /\ Complete(v, node) /\ Sifted(v)
  BY <1>1, AtWork DEF Delivery, Placed, Walked, Working, Charts
<1>3. ~stopped => \A f \in Within(Letter) : Folder(f.path) \in dirs
  BY <1>1, <1>2, WalkMapped
<1>4. Closed(dirs')
  BY <1>1 DEF Charts
<1> QED BY <1>1, <1>3, <1>4, ChartsGrow

(* Steps that collect nothing.                                             *)
LEMMA OtherCharts ==
  ASSUME NEW v, NEW node, NEW got, Delivery(v, node, got), Charts, Steady, volume' = volume, dirs' = dirs,
         at' = "pass 2" => at = "pass 2",
         at' = "close" /\ ~stopped' => at = "pass 2" \/ (at = "close" /\ ~stopped),
         at' = "sift" => Sifted(Letter)'
  PROVE  Charts'
<1>1. Closed(dirs')
  BY DEF Charts
<1>2. at' = "pass 2" \/ (at' = "close" /\ ~stopped') => \A f \in Within(Letter) : Folder(f.path) \in dirs'
  BY DEF Charts, Mapped
<1> QED BY <1>1, <1>2, ChartsGrow

(* Nothing has been gone through before the first entry.                   *)
LEMMA NoneSifted ==
  ASSUME NEW v, cursor = 0, Len(entries) \in Nat
  PROVE  Sifted(v)
<1>1. \A c \in Given : c \in Nat
  BY DEF Given
<1>2. \A c \in Given : ~(c < 0)
  BY <1>1
<1> QED BY <1>2 DEF Sifted, Folders

(* The walk's entries stay while they are gone through.                    *)
LEMMA SiftedStays ==
  ASSUME NEW v, Sifted(v), world' = world, cursor' = cursor, entries' = entries, dirs' = dirs
  PROVE  Sifted(v)'
<1>1. Given' = Given /\ Folders' = Folders /\ FolderEntries' = FolderEntries
  BY DEF Given, Folders, FolderEntries
<1>2. \A b : EntryPath(v, b)' = EntryPath(v, b)
  BY <1>1 DEF EntryPath
<1>3. Exclusions(v)' = Exclusions(v)
  BY SameWorld
<1> QED BY <1>1, <1>2, <1>3 DEF Sifted, ListedOr

(* The session goes on to a volume.                                        *)
LEMMA NextCharts ==
  ASSUME NEW v, NEW node, NEW got, Delivery(v, node, got), Charts, NextVolume
  PROVE  Charts'
<1>1. /\ at = "next" /\ Steady /\ volume' = volume /\ dirs' = dirs
      /\ at' \in {"ended", "pass 1", "walk", "sift"}
      /\ at' = "sift" => cursor' = 0 /\ entries' = <<>>
  BY DEF NextVolume, Goto, Steady
<1>2. at' = "sift" => Sifted(Letter)'
  <2> SUFFICES ASSUME at' = "sift" PROVE Sifted(Letter)'
    OBVIOUS
  <2>1. entries' = <<>>
    BY <1>1
  <2>2. Given' = {}
    <3>1. Len(entries') = 0
      BY <2>1
    <3> QED BY <3>1 DEF Given
  <2> QED BY <2>2 DEF Sifted, Folders
<1> QED BY <1>1, <1>2, OtherCharts

(* The threads of a walk are done.                                         *)
LEMMA JoinedCharts ==
  ASSUME NEW v, NEW node, NEW got, Delivery(v, node, got), Charts, Joined
  PROVE  Charts'
<1>1. at = "walk" /\ Steady /\ volume' = volume /\ dirs' = dirs /\ at' = "sift" /\ cursor' = cursor /\ entries' = entries
  BY DEF Joined, Goto, Steady, find, walk
<1>2. cursor = 0 /\ Len(entries) \in Nat
  BY <1>1, GivenIs DEF Delivery, Placed, Walked
<1>3. Sifted(Letter)
  BY <1>2, NoneSifted
<1>4. Sifted(Letter)'
  <2>1. PICK u : u = Letter
    OBVIOUS
  <2>2. Sifted(u)'
    BY <1>1, <1>3, <2>1, SiftedStays DEF Steady
  <2>3. Letter' = u
    BY <1>1, <2>1 DEF Letter, Steady
  <2> QED BY <2>2, <2>3
<1> QED BY <1>1, <1>4, OtherCharts

(* Every step of the scan keeps it.                                        *)
LEMMA StepCharts ==
  ASSUME NEW v, NEW node, NEW got, Delivery(v, node, got), Charts,
         SessionStep \/ Stop \/ Return \/ \E w \in Worker : WorkerStep(w)
  PROVE  Charts'
<1>1. CASE NextVolume
  BY <1>1, NextCharts
<1>2. CASE VolumeFails \/ ReadFails
  <2>1. Steady /\ volume' = volume /\ dirs' = dirs /\ at' = "failed"
    BY <1>2 DEF VolumeFails, ReadFails, Fails, Steady, find
  <2> QED BY <2>1, OtherCharts
<1>3. CASE EndVolume
  BY <1>3, EndCharts
<1>4. CASE Joined
  BY <1>4, JoinedCharts
<1>5. CASE Sift
  BY <1>5, SiftCharts
<1>6. CASE EndSift
  BY <1>6, EndSiftCharts
<1>7. CASE PassOne
  BY <1>7, PassOneCharts
<1>8. CASE Push
  <2>1. Steady /\ volume' = volume /\ dirs' = dirs /\ at' = "pass 2" /\ at = "pass 2"
    BY <1>8 DEF Push, Steady
  <2> QED BY <2>1, OtherCharts
<1>9. CASE Finish
  <2>1. Steady /\ volume' = volume /\ dirs' = dirs /\ at' = "close" /\ at = "pass 2"
    BY <1>9 DEF Finish, Goto, Steady
  <2> QED BY <2>1, OtherCharts
<1>10. CASE Stop \/ Return
  <2>1. /\ Steady /\ volume' = volume /\ dirs' = dirs /\ at' = at /\ cursor' = cursor /\ entries' = entries
    BY <1>10 DEF Stop, Return, Steady, find, walk
  <2>0. ~stopped' => ~stopped
    <3>1. stopped' = stopped \/ stopped' = TRUE
      BY <1>10 DEF Stop, Return
    <3> QED BY <3>1
  <2>4. at' = "pass 2" => at = "pass 2"
    BY <2>1
  <2>5. at' = "close" /\ ~stopped' => at = "pass 2" \/ (at = "close" /\ ~stopped)
    BY <2>1, <2>0
  <2>2. at' = "sift" => Sifted(Letter)'
    <3> SUFFICES ASSUME at = "sift" PROVE Sifted(Letter)'
      BY <2>1
    <3>1. PICK u : u = Letter
      OBVIOUS
    <3>2. Sifted(u)'
      BY <2>1, <3>1, SiftedStays DEF Steady, Charts
    <3>3. Letter' = u
      BY <2>1, <3>1 DEF Letter, Steady
    <3> QED BY <3>2, <3>3
  <2> QED BY <2>1, <2>2, <2>4, <2>5, OtherCharts
<1>11. CASE \E w \in Worker : WorkerStep(w)
  <2>1. Steady /\ volume' = volume /\ dirs' = dirs /\ at = "walk" /\ at' = "walk"
    BY <1>11 DEF WorkerStep, Take, Open, Share, Leave, GoHome, Walks, Steady, find
  <2> QED BY <2>1, OtherCharts
<1> QED BY <1>1, <1>2, <1>3, <1>4, <1>5, <1>6, <1>7, <1>8, <1>9, <1>10, <1>11 DEF SessionStep

(* Steps that leave the scan alone do too.                                 *)
LEMMA IdleCharts ==
  ASSUME NEW v, NEW node, NEW got, Delivery(v, node, got), Charts, UNCHANGED scanVars
  PROVE  Charts'
<1>1. /\ Steady /\ volume' = volume /\ dirs' = dirs /\ at' = at /\ cursor' = cursor /\ entries' = entries
      /\ stopped' = stopped
  BY DEF scanVars, walk, find, Steady
<1>2. at' = "sift" => Sifted(Letter)'
  <2> SUFFICES ASSUME at = "sift" PROVE Sifted(Letter)'
    BY <1>1
  <2>1. PICK u : u = Letter
    OBVIOUS
  <2>2. Sifted(u)'
    BY <1>1, <2>1, SiftedStays DEF Steady, Charts
  <2>3. Letter' = u
    BY <1>1, <2>1 DEF Letter, Steady
  <2> QED BY <2>2, <2>3
<1> QED BY <1>1, <1>2, OtherCharts

(* At first there are no folders.                                          *)
LEMMA InitCharts == ScanInit => Charts
<1> SUFFICES ASSUME ScanInit PROVE Charts
  OBVIOUS
<1>1. dirs = {} /\ volume = 1 /\ at \in {"refused", "next"}
  BY DEF ScanInit
<1>2. volumes \in Seq(DOMAIN world.disk)
  BY ResolvedIs DEF ScanInit
<1>3. Earlier(volume) = {}
  <2>1. \A i \in DOMAIN volumes : ~(i < 1)
    <3>1. PICK n \in Nat : DOMAIN volumes = 1 .. n
      BY <1>2, LenProperties
    <3> QED BY <3>1
  <2> QED BY <1>1, <2>1 DEF Earlier
<1> QED BY <1>1, <1>3 DEF Charts, Closed, Mapped

-----------------------------------------------------------------------------
(* The units of the folder detectors.                                      *)

(* What lies below a path begins as the path does.                         *)
LEMMA SameStart ==
  ASSUME NEW p \in Seq(Words), NEW q \in Seq(Words), Under(p, q), NEW n \in Nat, n <= Len(q)
  PROVE  SubSeq(p, 1, n) = SubSeq(q, 1, n)
<1>1. Len(p) \in Nat /\ Len(q) \in Nat
  BY LenProperties
<1>2. Len(q) <= Len(p) /\ \A i \in 1 .. Len(q) : p[i] = q[i]
  BY UnderIs
<1>3. n <= Len(p) /\ \A i \in 1 .. n : i \in 1 .. Len(q)
  BY <1>1, <1>2
<1>4. PICK a, b : a = SubSeq(p, 1, n) /\ b = SubSeq(q, 1, n)
  OBVIOUS
<1>5. a \in Seq(Words) /\ Len(a) = n /\ \A i \in 1 .. n : a[i] = p[i]
  BY <1>3, <1>4, FirstNames
<1>6. b \in Seq(Words) /\ Len(b) = n /\ \A i \in 1 .. n : b[i] = q[i]
  BY <1>4, FirstNames
<1>7. \A i \in 1 .. n : a[i] = b[i]
  BY <1>2, <1>3, <1>5, <1>6
<1>8. a = b
  BY <1>5, <1>6, <1>7, SeqEqual
<1> QED BY <1>4, <1>8

(* A folder is charged with all that the folders below it are.             *)
LEMMA HeldUp ==
  ASSUME NEW D, D \subseteq PathSet, Closed(D), NEW recs, \A k \in DOMAIN recs : Whole(recs[k]),
         NEW x \in D, NEW d \in D, Under(x, d)
  PROVE  Held(D, recs, x) \subseteq Held(D, recs, d)
<1> SUFFICES ASSUME NEW k \in Held(D, recs, x) PROVE k \in Held(D, recs, d)
  OBVIOUS
<1>1. PICK F : F = Folder(recs[k].path)
  OBVIOUS
<1>2. /\ k \in DOMAIN recs /\ IsFile(recs[k]) /\ Name(recs[k].path) \notin Ignorable
      /\ Under(F, x) /\ Way(x, F) \subseteq D
  BY <1>1 DEF Held
<1>3. x \in Seq(Words) /\ d \in Seq(Words)
  BY DEF PathSet
<1>4. F \in Seq(Words)
  <2>1. recs[k].path \in Seq(Words) /\ recs[k].path # <<>>
    BY <1>2 DEF Whole
  <2> QED BY <1>1, <2>1, SplitPath
<1>5. Under(F, d)
  BY <1>2, <1>3, <1>4, UnderThrough
<1>6. Len(x) \in Nat /\ Len(d) \in Nat /\ Len(F) \in Nat
  BY <1>3, <1>4, LenProperties
<1>7. ASSUME NEW n \in Len(d) + 1 .. Len(F) PROVE SubSeq(F, 1, n) \in D
  <2>1. CASE n <= Len(x)
    <3>1. n \in Nat /\ n \in 1 .. Len(x)
      BY <1>6, <2>1
    <3>2. SubSeq(F, 1, n) = SubSeq(x, 1, n)
      BY <1>2, <1>3, <1>4, <2>1, <3>1, SameStart
    <3> QED BY <3>1, <3>2, ClosedUp
  <2>2. CASE ~(n <= Len(x))
    <3>1. n \in Len(x) + 1 .. Len(F)
      BY <1>6, <2>2
    <3>2. SubSeq(F, 1, n) \in Way(x, F)
      BY <3>1 DEF Way
    <3> QED BY <1>2, <3>2
  <2> QED BY <2>1, <2>2
<1>8. Way(d, F) \subseteq D
  BY <1>7 DEF Way
<1> QED BY <1>1, <1>2, <1>5, <1>8 DEF Held

(* How many files that are.                                                *)
LEMMA HeldFinite ==
  ASSUME NEW recs, NEW n \in Nat, DOMAIN recs = 1 .. n, NEW D, NEW d
  PROVE  IsFiniteSet(Held(D, recs, d)) /\ Cardinality(Held(D, recs, d)) \in Nat
<1>1. IsFiniteSet(1 .. n)
  <2>1. 1 \in Int /\ n \in Int
    OBVIOUS
  <2> QED BY <2>1, FS_Interval
<1>2. Held(D, recs, d) \subseteq 1 .. n
  BY DEF Held
<1>3. IsFiniteSet(Held(D, recs, d))
  BY <1>1, <1>2, FS_Subset
<1> QED BY <1>3, FS_CardinalityType

(* A unit of the folder detectors is of its folder's class, and its folder
   does not lie in one of the same class.                                  *)
LEMMA DetectedOne ==
  ASSUME NEW D, NEW recs, NEW s, NEW u \in DetectFolderUnits(D, recs, s)
  PROVE  /\ u.path \in D /\ u.id[1] = Class(D, recs, s, u.path) /\ u.id[1] \in {"empty", "sparse", "deep"}
         /\ u.cat = CategoryOf[u.id[1]] /\ u.safety = "review"
         /\ Folder(u.path) \in D => Class(D, recs, s, Folder(u.path)) # u.id[1]
<1> DEFINE class == [d \in D |-> Class(D, recs, s, d)]
<1>1. PICK d \in D : /\ class[d] # "none" /\ (Folder(d) \in D => class[Folder(d)] # class[d])
                     /\ u = Unit(class[d], d, TotalSize(recs, Held(D, recs, d)), CategoryOf[class[d]], "review")
  BY DEF DetectFolderUnits
<1>2. PICK c, size, cat : c = class[d] /\ size = TotalSize(recs, Held(D, recs, d)) /\ cat = CategoryOf[c]
  OBVIOUS
<1>3. c = Class(D, recs, s, d)
  BY <1>2
<1>4. u = [id |-> <<c, d>>, path |-> d, size |-> size, used |-> 0, changed |-> 0,
           unit |-> "folder", cat |-> cat, safety |-> "review", decision |-> "undecided"]
  BY <1>1, <1>2 DEF Unit
<1>5. u.path = d /\ u.id = <<c, d>> /\ u.cat = cat /\ u.safety = "review"
  BY ONLY <1>4
<1>6. u.id[1] = c
  BY <1>5
<1>7. c \in {"empty", "sparse", "deep"}
  BY <1>1, <1>2, <1>3 DEF Class
<1>8. Folder(d) \in D => Class(D, recs, s, Folder(d)) # c
  BY <1>1, <1>2
<1> HIDE DEF class
<1> QED BY <1>2, <1>3, <1>5, <1>6, <1>7, <1>8

(* A folder offered as empty is charged with nothing.                      *)
LEMMA EmptyHolds ==
  ASSUME NEW D, D \subseteq PathSet, Closed(D), NEW recs, NEW n \in Nat, DOMAIN recs = 1 .. n,
         \A k \in DOMAIN recs : Whole(recs[k]), NEW s,
         NEW u \in DetectFolderUnits(D, recs, s), u.cat = "empty_folders",
         NEW k \in DOMAIN recs, IsFile(recs[k]), Under(recs[k].path, u.path), recs[k].path # u.path,
         Folder(recs[k].path) \in D
  PROVE  Name(recs[k].path) \in Ignorable
<1>1. PICK d : d = u.path
  OBVIOUS
<1>2. d \in D /\ Class(D, recs, s, d) = "empty"
  <2>1. u.path \in D /\ u.id[1] = Class(D, recs, s, u.path) /\ u.id[1] \in {"empty", "sparse", "deep"}
        /\ u.cat = CategoryOf[u.id[1]]
    BY DetectedOne
  <2>2. u.id[1] = "empty"
    BY <2>1 DEF CategoryOf
  <2> QED BY <1>1, <2>1, <2>2
<1>3. Cardinality(Held(D, recs, d)) = 0
  BY <1>2 DEF Class
<1>4. Held(D, recs, d) = {}
  BY <1>3, HeldFinite, FS_EmptySet
<1>5. PICK p, F : p = recs[k].path /\ F = Folder(p)
  OBVIOUS
<1>6. p \in PathSet /\ d \in Seq(Words)
  BY <1>2, <1>5 DEF Whole, PathSet
<1>7. Under(F, d)
  BY <1>1, <1>5, <1>6, UnderFolder
<1>8. Way(d, F) \subseteq D
  <2>1. Len(d) \in Nat
    BY <1>6, LenProperties
  <2> QED BY <1>5, <2>1, WayListed
<1> QED BY <1>4, <1>5, <1>7, <1>8 DEF Held

(* The class of a folder by how many files it holds and how deep it lies.  *)
Graded(files, len, few, far) ==
  IF len = 1 THEN "none" ELSE IF files = 0 THEN "empty"
  ELSE IF files <= few THEN "sparse" ELSE IF len - 1 > far THEN "deep" ELSE "none"

(* Units of one of these detectors do not lie in one another.              *)
LEMMA DetectedApart ==
  ASSUME NEW D, D \subseteq PathSet, Closed(D), NEW recs, NEW n \in Nat, DOMAIN recs = 1 .. n,
         \A k \in DOMAIN recs : Whole(recs[k]), NEW s, s.sparse \in Nat, s.deep \in Nat,
         NEW u \in DetectFolderUnits(D, recs, s), NEW w \in DetectFolderUnits(D, recs, s),
         u.id[1] = w.id[1], Under(w.path, u.path)
  PROVE  w.path = u.path
<1> SUFFICES ASSUME w.path # u.path PROVE FALSE
  OBVIOUS
<1>1. PICK d, e, x, c : d = u.path /\ e = w.path /\ x = Folder(e) /\ c = u.id[1]
  OBVIOUS
<1>2. d \in D /\ c = Class(D, recs, s, d) /\ c \in {"empty", "sparse", "deep"}
  BY <1>1, DetectedOne
<1>3. e \in D /\ c = Class(D, recs, s, e) /\ (x \in D => Class(D, recs, s, x) # c)
  <2>1. e \in D /\ w.id[1] = Class(D, recs, s, e) /\ (x \in D => Class(D, recs, s, x) # w.id[1])
    BY <1>1, DetectedOne
  <2> QED BY <1>1, <2>1
<1>4. d \in PathSet /\ e \in PathSet /\ d \in Seq(Words) /\ e \in Seq(Words)
  BY <1>2, <1>3 DEF PathSet
<1>5. Under(x, d) /\ x \in Seq(Words) /\ Len(x) = Len(e) - 1 /\ Len(d) <= Len(e) - 1
      /\ Len(d) \in Nat \ {0} /\ Len(e) \in Nat \ {0}
  BY <1>1, <1>4, UnderFolder, FolderIs
<1>6. ~IsVolume(d) /\ Len(d) # 1
  BY <1>2 DEF Class, IsVolume
<1>7. x \in D
  <2>1. Len(e) > 1
    BY <1>5, <1>6
  <2> QED BY <1>1, <1>3, <2>1 DEF Closed
<1>8. Under(e, x)
  <2>1. \A i \in 1 .. Len(x) : e[i] = x[i]
    BY <1>1, <1>4, <1>5, FolderIs
  <2>2. Len(x) <= Len(e)
    BY <1>5
  <2> QED BY <1>4, <1>5, <2>1, <2>2, UnderIs
<1>9. Held(D, recs, e) \subseteq Held(D, recs, x) /\ Held(D, recs, x) \subseteq Held(D, recs, d)
  BY <1>2, <1>3, <1>5, <1>7, <1>8, HeldUp
<1>10. PICK i, j, k : /\ i = Cardinality(Held(D, recs, e)) /\ j = Cardinality(Held(D, recs, x))
                      /\ k = Cardinality(Held(D, recs, d))
  OBVIOUS
<1>11. i \in Nat /\ j \in Nat /\ k \in Nat
  BY <1>10, HeldFinite
<1>12. i <= j /\ j <= k
  BY <1>9, <1>10, HeldFinite, FS_Subset
<1>13. PICK l, m, o : l = Len(e) /\ m = Len(x) /\ o = Len(d)
  OBVIOUS
<1>14. l \in Nat /\ m \in Nat /\ o \in Nat /\ o <= m /\ m <= l /\ o > 1
  BY <1>5, <1>6, <1>13
<1>15. PICK p \in Nat, q \in Nat : p = AtLeastOne(s.sparse) /\ q = AtLeastOne(s.deep)
  BY DEF AtLeastOne
<1>16. /\ Class(D, recs, s, e) = Graded(i, l, p, q)
       /\ Class(D, recs, s, x) = Graded(j, m, p, q)
       /\ Class(D, recs, s, d) = Graded(k, o, p, q)
  BY <1>10, <1>13, <1>15 DEF Class, IsVolume, Graded
<1>17. Graded(i, l, p, q) = Graded(k, o, p, q) /\ Graded(k, o, p, q) # "none"
  BY <1>2, <1>3, <1>16
<1>18. Graded(j, m, p, q) = Graded(k, o, p, q)
  <2>1. m # 1 /\ l # 1 /\ o # 1
    BY <1>14
  <2>2. CASE k = 0
    <3>1. j = 0
      BY <1>11, <1>12, <2>2
    <3> QED BY <2>1, <2>2, <3>1 DEF Graded
  <2>3. CASE k # 0 /\ k <= p
    <3>1. i # 0
      BY <1>17, <2>1, <2>3 DEF Graded
    <3>2. j # 0 /\ j <= p
      BY <1>11, <1>12, <2>3, <3>1
    <3> QED BY <2>1, <2>3, <3>2 DEF Graded
  <2>4. CASE k # 0 /\ ~(k <= p)
    <3>1. o - 1 > q /\ Graded(k, o, p, q) = "deep"
      BY <1>17, <2>1, <2>4 DEF Graded
    <3>2. i # 0 /\ ~(i <= p)
      BY <1>17, <2>1, <3>1 DEF Graded
    <3>3. j # 0 /\ ~(j <= p) /\ m - 1 > q
      BY <1>11, <1>12, <1>14, <3>1, <3>2
    <3> QED BY <2>1, <3>1, <3>3 DEF Graded
  <2> QED BY <2>2, <2>3, <2>4
<1> QED BY <1>2, <1>3, <1>7, <1>16, <1>18

-----------------------------------------------------------------------------
(* The units of what tools can make again.                                 *)

(* f is the start of p that ends in its m-th name, the first in N.         *)
EndsFirst(p, N, f, m) ==
  /\ m > 1 /\ f \in Seq(Words) /\ Len(f) = m /\ f[m] \in N
  /\ \A i \in 1 .. m : f[i] = p[i]
  /\ \A i \in Nat : 1 < i /\ i < m => p[i] \notin N

(* The outermost step of a name ends in the first such name of the path.   *)
LEMMA OutermostFirst ==
  ASSUME NEW p \in Seq(Words), NEW N, NEW f, f = Outermost(p, N), f # NoPath
  PROVE  \E m \in Nat : EndsFirst(p, N, f, m)
<1> DEFINE T == {k \in 2 .. Len(p) : p[k] \in N}
<1>1. T # {} /\ f = SubSeq(p, 1, Min(T))
  BY DEF Outermost
<1>2. T \subseteq Nat
  OBVIOUS
<1>3. PICK n \in T : \A m \in T : n <= m
  BY <1>1, <1>2, Least
<1>4. Min(T) \in T /\ \A m \in T : Min(T) <= m
  BY <1>3 DEF Min
<1>5. PICK m \in T : m = Min(T) /\ \A i \in T : m <= i
  BY <1>4
<1>6. Len(p) \in Nat
  BY LenProperties
<1>7. m \in Nat /\ m > 1 /\ m <= Len(p) /\ p[m] \in N
  BY <1>6
<1>8. f \in Seq(Words) /\ Len(f) = m /\ \A i \in 1 .. m : f[i] = p[i]
  <2>1. f = SubSeq(p, 1, m)
    BY <1>1, <1>5
  <2> HIDE DEF T
  <2> QED BY <1>7, <2>1, FirstNames
<1>9. ASSUME NEW i \in Nat, 1 < i /\ i < m PROVE p[i] \notin N
  <2>1. i \notin T
    BY <1>5, <1>7, <1>9
  <2>2. i \in 2 .. Len(p)
    BY <1>6, <1>7, <1>9
  <2> QED BY <2>1, <2>2
<1>10. f[m] \in N
  <2>1. m \in 1 .. m
    BY <1>7
  <2> QED BY <1>7, <1>8, <2>1
<1> HIDE DEF T
<1> QED BY <1>7, <1>8, <1>9, <1>10 DEF EndsFirst

(* So two of them never lie in one another.                                *)
LEMMA OutermostApart ==
  ASSUME NEW p \in Seq(Words), NEW q \in Seq(Words), NEW N, NEW f, NEW g,
         f = Outermost(p, N), g = Outermost(q, N), f # NoPath, g # NoPath, Under(g, f)
  PROVE  g = f
<1>1. \E m \in Nat : EndsFirst(p, N, f, m)
  BY OutermostFirst
<1>2. PICK m \in Nat : /\ m > 1 /\ f \in Seq(Words) /\ Len(f) = m /\ f[m] \in N
  BY <1>1 DEF EndsFirst
<1>3. \E n \in Nat : EndsFirst(q, N, g, n)
  BY OutermostFirst
<1>4. PICK n \in Nat : /\ n > 1 /\ g \in Seq(Words) /\ Len(g) = n /\ \A i \in 1 .. n : g[i] = q[i]
                       /\ \A i \in Nat : 1 < i /\ i < n => q[i] \notin N
  BY <1>3 DEF EndsFirst
<1>5. m <= n /\ \A i \in 1 .. m : g[i] = f[i]
  BY <1>2, <1>4, UnderIs
<1>6. m \in 1 .. m /\ m \in 1 .. n
  BY <1>2, <1>5
<1>7. q[m] \in N
  BY <1>2, <1>4, <1>5, <1>6
<1>8. ~(m < n)
  BY <1>2, <1>4, <1>7
<1>9. m = n
  BY <1>5, <1>8
<1> QED BY <1>2, <1>4, <1>5, <1>9, SeqEqual

(* What a detector confirms is the outermost step of its names, or none.   *)
Confirms(N, confirmed, recs) ==
  \A k \in DOMAIN recs : confirmed[recs[k].path] \in {Outermost(recs[k].path, N), NoPath}

(* A unit of what tools can make again is of a confirmed folder, and safe
   to delete only if its project is not active.                            *)
LEMMA AggregateOne ==
  ASSUME NEW ns, NEW confirmed, NEW recs, NEW u \in AggregateUnits(ns, confirmed, recs)
  PROVE  /\ \E k \in DOMAIN recs : u.path = confirmed[recs[k].path] /\ u.path # NoPath
         /\ u.id[1] = ns /\ u.cat = "dev_artifacts"
         /\ u.safety = "safe" => ~IsActive(Folder(u.path), recs)
<1> DEFINE counted == {k \in DOMAIN recs : /\ IsFile(recs[k]) /\ recs[k].decision # "keep"
                                           /\ confirmed[recs[k].path] # NoPath}
           root == [k \in counted |-> confirmed[recs[k].path]]
<1>1. PICK f \in Range(root) :
        u = Unit(ns, f, TotalSize(recs, {k \in counted : root[k] = f}), "dev_artifacts",
                 IF IsActive(Folder(f), recs) THEN "review" ELSE "safe")
  BY DEF AggregateUnits
<1>2. PICK k \in counted : f = root[k]
  BY DEF Range
<1>3. f = confirmed[recs[k].path] /\ f # NoPath /\ k \in DOMAIN recs
  BY <1>2
<1>4. PICK size, safety : /\ size = TotalSize(recs, {j \in counted : root[j] = f})
                          /\ safety = IF IsActive(Folder(f), recs) THEN "review" ELSE "safe"
  OBVIOUS
<1>5. u = [id |-> <<ns, f>>, path |-> f, size |-> size, used |-> 0, changed |-> 0,
           unit |-> "folder", cat |-> "dev_artifacts", safety |-> safety, decision |-> "undecided"]
  BY <1>1, <1>4 DEF Unit
<1>6. u.id = <<ns, f>> /\ u.path = f /\ u.cat = "dev_artifacts" /\ u.safety = safety
  BY ONLY <1>5
<1>7. u.id[1] = ns
  BY <1>6
<1>8. safety = "safe" => ~IsActive(Folder(f), recs)
  BY <1>4
<1> QED BY <1>3, <1>6, <1>7, <1>8

(* Units of one of these detectors do not lie in one another.              *)
LEMMA AggregateApart ==
  ASSUME NEW ns, NEW N, NEW confirmed, NEW recs, \A k \in DOMAIN recs : Whole(recs[k]), Confirms(N, confirmed, recs),
         NEW u \in AggregateUnits(ns, confirmed, recs), NEW w \in AggregateUnits(ns, confirmed, recs),
         Under(w.path, u.path)
  PROVE  w.path = u.path
<1>1. PICK k \in DOMAIN recs : u.path = confirmed[recs[k].path] /\ u.path # NoPath
  BY AggregateOne
<1>2. PICK l \in DOMAIN recs : w.path = confirmed[recs[l].path] /\ w.path # NoPath
  BY AggregateOne
<1>3. PICK p, q, f, g : p = recs[k].path /\ q = recs[l].path /\ f = u.path /\ g = w.path
  OBVIOUS
<1>4. p \in Seq(Words) /\ q \in Seq(Words)
  BY <1>3 DEF Whole
<1>5. f = Outermost(p, N) /\ g = Outermost(q, N) /\ f # NoPath /\ g # NoPath
  BY <1>1, <1>2, <1>3 DEF Confirms
<1>6. Under(g, f)
  BY <1>3
<1> QED BY <1>3, <1>4, <1>5, <1>6, OutermostApart

(* What the three detectors confirm.                                       *)
PathsOf(recs) == {recs[k].path : k \in DOMAIN recs}

ByModules(recs) == [p \in PathsOf(recs) |-> ModulesRoot(PathsOf(recs), p)]

ByBuild(recs) == [p \in PathsOf(recs) |-> BuildRoot(PathsOf(recs), p)]

ByUnity(recs) == [p \in PathsOf(recs) |-> UnityRoot(PathsOf(recs), p)]

(* All of them look for the outermost of some names.                       *)
LEMMA RootsConfirm ==
  ASSUME NEW recs
  PROVE  /\ Confirms({"node_modules"}, ByModules(recs), recs)
         /\ Confirms(DOMAIN Markers, ByBuild(recs), recs)
         /\ Confirms({"Library", "Temp", "obj"}, ByUnity(recs), recs)
<1>1. PICK paths : paths = PathsOf(recs)
  OBVIOUS
<1>2. \A k \in DOMAIN recs : recs[k].path \in paths
  BY <1>1 DEF PathsOf
<1>3. /\ \A p : ModulesRoot(paths, p) \in {Outermost(p, {"node_modules"}), NoPath}
      /\ \A p : BuildRoot(paths, p) \in {Outermost(p, DOMAIN Markers), NoPath}
      /\ \A p : UnityRoot(paths, p) \in {Outermost(p, {"Library", "Temp", "obj"}), NoPath}
  BY DEF ModulesRoot, BuildRoot, UnityRoot
<1> QED BY <1>1, <1>2, <1>3 DEF Confirms, ByModules, ByBuild, ByUnity

(* The units of the analysis, each from one of the four detectors.         *)
FromOne(D, recs, s, u) ==
  \/ u \in DetectFolderUnits(D, recs, s)
  \/ u \in AggregateUnits("node_modules", ByModules(recs), recs)
  \/ u \in AggregateUnits("build", ByBuild(recs), recs)
  \/ u \in AggregateUnits("unity", ByUnity(recs), recs)

-----------------------------------------------------------------------------
(* What units promise.                                                     *)

(* What UnitsTrue says of one unit, F being what is to be found.           *)
Honest(u, F) ==
  /\ u.cat = "empty_folders" => \A f \in F : Under(f.path, u.path) => Name(f.path) \in Ignorable
  /\ u.safety = "safe" =>
       \A f \in F : Under(f.path, Folder(u.path)) /\ f.changed # 0 /\ ~ThroughArtifact(f.path, Folder(u.path))
                    => Age(f.changed) >= InactiveDays

(* Units of one detector lie apart.                                        *)
Spread(S) == \A u, w \in S : u.id[1] = w.id[1] /\ Under(w.path, u.path) => w.path = u.path

(* The units of the index and those yet to be published.                   *)
Placards == {Records[k] : k \in {l \in DOMAIN Records : Records[l].unit = "folder"}}

Offering == Placards \cup UNION Range(groups)

(* The invariant of what is offered.                                       *)
Promises ==
  /\ at # "failed" /\ phase # "judged again" => \A u \in Offering : Honest(u, Reached)
  /\ Spread(Offering)
  /\ phase # "judged again" => farm = world.settings

(* Of one path only one thing is reported.                                 *)
LEMMA EarlierOne ==
  ASSUME SessionTypes, NEW n, NEW f \in Earlier(n), NEW g \in Earlier(n), f.path = g.path
  PROVE  f = g
<1>0. \A j \in DOMAIN volumes : Disk(volumes[j])
  BY LenProperties DEF Disk, SessionTypes
<1>1. PICK j \in DOMAIN volumes : f \in Within(volumes[j])
  BY DEF Earlier
<1>2. PICK i \in DOMAIN volumes : g \in Within(volumes[i])
  BY DEF Earlier
<1>3. PICK v, w : v = volumes[j] /\ w = volumes[i]
  OBVIOUS
<1>4. Disk(v) /\ Disk(w)
  BY <1>0, <1>3
<1>5. PICK k \in Near(v) : f = Fact(v, k)
  BY <1>1, <1>3 DEF Within, Facts
<1>6. PICK l \in Near(w) : g = Fact(w, l)
  BY <1>2, <1>3 DEF Within, Facts
<1>7. k \in Seen(v) /\ l \in Seen(w) /\ f.path = PathTo(v, k) /\ g.path = PathTo(w, l)
  BY <1>5, <1>6 DEF Near, Fact
<1>8. v = w /\ k = l
  BY <1>4, <1>7, SeenApart
<1> QED BY <1>5, <1>6, <1>8

(* What is reported is in none of the places of folders.                   *)
LEMMA EarlierUnlisted ==
  ASSUME SessionTypes, Charts, NEW n, NEW f \in Earlier(n)
  PROVE  f.path \notin dirs /\ f.changed \in Nat
<1>0. \A j \in DOMAIN volumes : Disk(volumes[j])
  BY LenProperties DEF Disk, SessionTypes
<1>1. PICK j \in DOMAIN volumes : f \in Within(volumes[j])
  BY DEF Earlier
<1>2. PICK v : v = volumes[j]
  OBVIOUS
<1>3. Disk(v)
  BY <1>0, <1>2
<1>4. PICK l \in Near(v) : f = Fact(v, l)
  BY <1>1, <1>2 DEF Within, Facts
<1>5. l \in Seen(v) /\ f.path = PathTo(v, l) /\ f.changed = Table(v)[l].changed
  BY <1>4 DEF Near, Fact
<1>6. l \in Reach(v) /\ l \in Intact(v) /\ Visible(v, Table(v)[l]) /\ l \in DOMAIN Table(v) /\ l # 0
  <2>1. l \in Reach(v) /\ l \in Intact(v) /\ Visible(v, Table(v)[l])
    BY <1>3, <1>5, SeenIs DEF Seen
  <2>2. l \in DOMAIN Table(v)
    BY <2>1 DEF Reach
  <2>3. l # 0
    BY <1>3, <2>2, DiskIs
  <2> QED BY <2>1, <2>2, <2>3
<1>7. ASSUME f.path \in dirs PROVE FALSE
  <2>1. PICK w, k : /\ Disk(w) /\ k \in {0} \cup Intact(w) /\ f.path = PathTo(w, k)
                    /\ k # 0 => ~Visible(w, Table(w)[k])
    BY <1>7 DEF Charts, Stands
  <2>2. v = w
    <3>1. PathTo(v, l)[1] = v
      BY <1>3, <1>6, FirstName
    <3>2. PathTo(w, k)[1] = w
      <4>1. CASE k = 0
        BY <2>1, <4>1, PathToRoot
      <4>2. CASE k \in Intact(w)
        BY <2>1, <4>2, FirstName DEF Intact
      <4> QED BY <2>1, <4>1, <4>2
    <3> QED BY <1>5, <2>1, <3>1, <3>2
  <2>3. k = l
    BY <1>3, <1>5, <1>6, <2>1, <2>2, PathsApart
  <2> QED BY <1>6, <2>1, <2>2, <2>3
<1>8. f.changed \in Nat
  BY <1>3, <1>5, <1>6, DiskIs
<1> QED BY <1>7, <1>8

(* The groups the analysis forms are of four sorts of units.               *)
LEMMA GroupsAre ==
  ASSUME NEW D, NEW recs, NEW s, NEW u \in UNION Range(FolderGroups(D, recs, s))
  PROVE  FromOne(D, recs, s, u)
<1>1. PICK a, b, c, d : /\ a = DetectFolderUnits(D, recs, s)
                        /\ b = AggregateUnits("node_modules", ByModules(recs), recs)
                        /\ c = AggregateUnits("build", ByBuild(recs), recs)
                        /\ d = AggregateUnits("unity", ByUnity(recs), recs)
  OBVIOUS
<1>2. PICK g : g = FolderGroups(D, recs, s)
  OBVIOUS
<1>3. g = <<a>> \/ g = <<a, b, c, d>>
  BY <1>1, <1>2 DEF FolderGroups, ByModules, ByBuild, ByUnity, PathsOf
<1>4. PICK U \in Range(g) : u \in U
  BY <1>2
<1>5. PICK i \in DOMAIN g : U = g[i]
  BY <1>4 DEF Range
<1>6. U = a \/ U = b \/ U = c \/ U = d
  <2>1. CASE g = <<a>>
    BY <1>5, <2>1
  <2>2. CASE g = <<a, b, c, d>>
    <3>1. i \in 1 .. 4
      BY <1>5, <2>2
    <3>2. i = 1 \/ i = 2 \/ i = 3 \/ i = 4
      BY <3>1
    <3> QED BY <1>5, <2>2, <3>2
  <2> QED BY <1>3, <2>1, <2>2
<1> QED BY <1>1, <1>4, <1>6 DEF FromOne

(* They lie apart as far as they are of one detector.                      *)
LEMMA GroupsSpread ==
  ASSUME NEW D, D \subseteq PathSet, Closed(D), NEW recs, NEW n \in Nat, DOMAIN recs = 1 .. n,
         \A k \in DOMAIN recs : Whole(recs[k]), NEW s, s.sparse \in Nat, s.deep \in Nat
  PROVE  Spread(UNION Range(FolderGroups(D, recs, s)))
<1> SUFFICES ASSUME NEW u \in UNION Range(FolderGroups(D, recs, s)), NEW w \in UNION Range(FolderGroups(D, recs, s)),
                    u.id[1] = w.id[1], Under(w.path, u.path)
             PROVE  w.path = u.path
  BY DEF Spread
<1>1. FromOne(D, recs, s, u) /\ FromOne(D, recs, s, w)
  BY GroupsAre
<1>2. PICK x, y, z : x = ByModules(recs) /\ y = ByBuild(recs) /\ z = ByUnity(recs)
  OBVIOUS
<1>3. /\ Confirms({"node_modules"}, x, recs) /\ Confirms(DOMAIN Markers, y, recs)
      /\ Confirms({"Library", "Temp", "obj"}, z, recs)
  BY <1>2, RootsConfirm
<1>4. \/ u \in DetectFolderUnits(D, recs, s) \/ u \in AggregateUnits("node_modules", x, recs)
      \/ u \in AggregateUnits("build", y, recs) \/ u \in AggregateUnits("unity", z, recs)
  BY <1>1, <1>2 DEF FromOne
<1>5. \/ w \in DetectFolderUnits(D, recs, s) \/ w \in AggregateUnits("node_modules", x, recs)
      \/ w \in AggregateUnits("build", y, recs) \/ w \in AggregateUnits("unity", z, recs)
  BY <1>1, <1>2 DEF FromOne
<1>6. \A q \in DetectFolderUnits(D, recs, s) : q.id[1] \in {"empty", "sparse", "deep"}
  BY DetectedOne
<1>7. /\ \A q \in AggregateUnits("node_modules", x, recs) : q.id[1] = "node_modules"
      /\ \A q \in AggregateUnits("build", y, recs) : q.id[1] = "build"
      /\ \A q \in AggregateUnits("unity", z, recs) : q.id[1] = "unity"
  BY AggregateOne
<1>8. CASE u \in DetectFolderUnits(D, recs, s)
  <2>1. w \in DetectFolderUnits(D, recs, s)
    BY <1>5, <1>6, <1>7, <1>8
  <2> QED BY <1>8, <2>1, DetectedApart
<1>9. CASE u \in AggregateUnits("node_modules", x, recs)
  <2>1. w \in AggregateUnits("node_modules", x, recs)
    BY <1>5, <1>6, <1>7, <1>9
  <2> QED BY <1>3, <1>9, <2>1, AggregateApart
<1>10. CASE u \in AggregateUnits("build", y, recs)
  <2>1. w \in AggregateUnits("build", y, recs)
    BY <1>5, <1>6, <1>7, <1>10
  <2> QED BY <1>3, <1>10, <2>1, AggregateApart
<1>11. CASE u \in AggregateUnits("unity", z, recs)
  <2>1. w \in AggregateUnits("unity", z, recs)
    BY <1>5, <1>6, <1>7, <1>11
  <2> QED BY <1>3, <1>11, <2>1, AggregateApart
<1> QED BY <1>4, <1>8, <1>9, <1>10, <1>11

(* A date that is not lately is as old as it takes.                        *)
LEMMA NotLately == ASSUME NEW t \in Nat, ~(Age(t) < InactiveDays) PROVE Age(t) >= InactiveDays
<1>1. Age(t) \in Int
  BY TodayOK DEF Age
<1>2. PICK a \in Int : a = Age(t)
  BY <1>1
<1>3. a >= InactiveDays
  BY <1>2, InactiveOK
<1> QED BY <1>2, <1>3

(* After a session that ran to its end the groups are honest.              *)
LEMMA GroupsHonest ==
  ASSUME NEW v, NEW node, NEW got, Surveyed(v, node, got), Charts, OnlyFiles(Records), at = "ended", ~cut,
         NEW s, NEW u \in UNION Range(FolderGroups(dirs, Records, s))
  PROVE  Honest(u, Reached)
<1>1. SessionTypes /\ got = Earlier(volume) /\ Reached \subseteq got
  <2>1. SessionTypes /\ got = Earlier(volume) /\ volume > Len(volumes)
    BY DEF Surveyed, Delivery, Exact, Placed
  <2> QED BY <2>1, EarlierAll
<1>2. Mapped(got) /\ Closed(dirs) /\ dirs \subseteq PathSet
  BY <1>1 DEF Charts, Surveyed, Recorded, DirsOK
<1>3. PICK n, recs : n \in Nat /\ recs = Records /\ DOMAIN recs = 1 .. n /\ \A k \in DOMAIN recs : Whole(recs[k])
  BY GetAllIs DEF Surveyed, Recorded, Records
<1>4. /\ \A k \in DOMAIN recs : recs[k].unit = "file" /\ Told(recs[k]) \in got
      /\ \A f \in got : \E k \in DOMAIN recs : recs[k].path = f.path
  BY <1>3 DEF OnlyFiles, Surveyed, Covers
<1>5. ASSUME NEW f \in Reached
      PROVE  \E k \in DOMAIN recs : IsFile(recs[k]) /\ recs[k].path = f.path /\ recs[k].changed = f.changed
  <2>1. PICK k \in DOMAIN recs : recs[k].path = f.path
    BY <1>1, <1>4
  <2>2. PICK r, g : r = recs[k] /\ g = Told(r)
    OBVIOUS
  <2>3. g.path = r.path /\ g.changed = r.changed
    BY <2>2 DEF Told
  <2>4. g = f
    BY <1>1, <1>4, <2>1, <2>2, <2>3, EarlierOne
  <2> QED BY <1>4, <2>1, <2>2, <2>3, <2>4 DEF IsFile
<1>6. CASE u \in DetectFolderUnits(dirs, recs, s)
  <2>1. u.path \in dirs /\ u.safety = "review"
    BY <1>6, DetectedOne
  <2>2. ASSUME u.cat = "empty_folders", NEW f \in Reached, Under(f.path, u.path) PROVE Name(f.path) \in Ignorable
    <3>1. PICK k \in DOMAIN recs : IsFile(recs[k]) /\ recs[k].path = f.path
      BY <1>5
    <3>2. f.path # u.path /\ Folder(f.path) \in dirs
      BY <1>1, <1>2, <2>1, EarlierUnlisted DEF Mapped
    <3>3. Under(recs[k].path, u.path) /\ recs[k].path # u.path /\ Folder(recs[k].path) \in dirs
      BY <2>2, <3>1, <3>2
    <3>4. Name(recs[k].path) \in Ignorable
      BY <1>2, <1>3, <1>6, <2>2, <3>1, <3>3, EmptyHolds
    <3> QED BY <3>1, <3>4
  <2> QED BY <2>1, <2>2 DEF Honest
<1>7. ASSUME u.cat = "dev_artifacts", u.safety = "safe" => ~IsActive(Folder(u.path), recs)
      PROVE  Honest(u, Reached)
  <2> SUFFICES ASSUME u.safety = "safe", NEW f \in Reached, Under(f.path, Folder(u.path)), f.changed # 0,
                      ~ThroughArtifact(f.path, Folder(u.path))
               PROVE  Age(f.changed) >= InactiveDays
    BY <1>7 DEF Honest
  <2>1. PICK k \in DOMAIN recs : IsFile(recs[k]) /\ recs[k].path = f.path /\ recs[k].changed = f.changed
    BY <1>5
  <2>2. ActivityDate(recs[k]) = f.changed
    BY <2>1 DEF ActivityDate
  <2>3. ~(Age(f.changed) < InactiveDays)
    BY <1>7, <2>1, <2>2 DEF IsActive
  <2>4. f.changed \in Nat
    BY <1>1, EarlierUnlisted
  <2> QED BY <2>3, <2>4, NotLately
<1>8. FromOne(dirs, recs, s, u)
  BY <1>3, GroupsAre
<1>10. \/ u \in DetectFolderUnits(dirs, recs, s)
       \/ (u.cat = "dev_artifacts" /\ (u.safety = "safe" => ~IsActive(Folder(u.path), recs)))
  BY <1>8, AggregateOne DEF FromOne
<1> QED BY <1>6, <1>7, <1>10

(* A promise does not depend on what else a unit's record says.            *)
LEMMA HonestAlike ==
  ASSUME NEW u, NEW w, NEW F, Honest(w, F), u.path = w.path, u.cat = w.cat, u.safety = w.safety
  PROVE  Honest(u, F)
BY DEF Honest

(* What there is to find stays what it is.                                 *)
LEMMA ReachedStays == ASSUME world' = world, volumes' = volumes PROVE Reached' = Reached
BY AllStays DEF Reached

(* A step after which nothing is offered that was not.                     *)
LEMMA PromisesPass ==
  ASSUME Promises, world' = world, volumes' = volumes,
         phase' # "judged again" => phase # "judged again" /\ farm' = farm,
         at' # "failed" => at # "failed",
         \A u \in Offering' : \E w \in Offering :
            u.id = w.id /\ u.path = w.path /\ (phase' # "judged again" => u.cat = w.cat /\ u.safety = w.safety)
  PROVE  Promises'
<1>1. PICK S, T, F : S = Offering /\ T = Offering' /\ F = Reached
  OBVIOUS
<1>2. Reached' = F
  BY <1>1, ReachedStays
<1>3. ASSUME at' # "failed", phase' # "judged again", NEW u \in T PROVE Honest(u, F)
  <2>1. PICK w \in S : u.path = w.path /\ u.cat = w.cat /\ u.safety = w.safety
    BY <1>1, <1>3
  <2>2. Honest(w, F)
    BY <1>1, <1>3 DEF Promises
  <2> QED BY <2>1, <2>2, HonestAlike
<1>4. Spread(T)
  <2>1. Spread(S)
    BY <1>1 DEF Promises
  <2>2. \A u \in T : \E w \in S : u.id = w.id /\ u.path = w.path
    BY <1>1
  <2>3. ASSUME NEW u \in T, NEW w \in T, u.id[1] = w.id[1], Under(w.path, u.path) PROVE w.path = u.path
    <3>1. PICK a \in S : u.id = a.id /\ u.path = a.path
      BY <2>2
    <3>2. PICK b \in S : w.id = b.id /\ w.path = b.path
      BY <2>2
    <3>3. a.id[1] = b.id[1] /\ Under(b.path, a.path)
      BY <2>3, <3>1, <3>2
    <3> QED BY <2>1, <3>1, <3>2, <3>3 DEF Spread
  <2> QED BY <2>3 DEF Spread
<1>5. phase' # "judged again" => farm' = world'.settings
  BY DEF Promises
<1>6. (at # "failed")' /\ (phase # "judged again")' => \A u \in Offering' : Honest(u, Reached')
  BY <1>1, <1>2, <1>3
<1>7. Spread(Offering')
  BY <1>1, <1>4
<1>8. (\A u \in Offering : Honest(u, Reached))' <=> \A u \in Offering' : Honest(u, Reached')
  BY DEF Honest
<1>9. Spread(Offering)' <=> Spread(Offering')
  BY DEF Spread
<1> QED BY <1>5, <1>6, <1>7, <1>8, <1>9 DEF Promises

(* A step that leaves the units of the index and the groups alone.         *)
LEMMA PromisesIdle ==
  ASSUME Promises, world' = world, volumes' = volumes, phase' = phase, farm' = farm, groups' = groups,
         at' # "failed" => at # "failed", Placards' = Placards
  PROVE  Promises'
<1>1. Offering' = Offering
  BY DEF Offering
<1> QED BY <1>1, PromisesPass

(* While there are only files, the index offers nothing.                   *)
LEMMA NoPlacards ==
  ASSUME OnlyFiles(Records)
  PROVE  Placards = {}
BY DEF Placards, OnlyFiles

(* The analysis forms groups that keep their promises.                     *)
LEMMA AnalysePromises ==
  ASSUME NEW v, NEW node, NEW got, Surveyed(v, node, got), Charts, Promises, Analyse
  PROVE  Promises'
<1>1. /\ phase = "scanning" /\ at \in {"ended", "failed"} /\ Records' = Records /\ farm' = farm
      /\ world' = world /\ volumes' = volumes /\ at' = at /\ phase' # "judged again" /\ phase # "judged again"
  BY DEF Analyse, Records, scanVars, Over
<1>2. OnlyFiles(Records) /\ Placards = {} /\ Placards' = {}
  <2>1. OnlyFiles(Records) /\ OnlyFiles(Records')
    BY <1>1 DEF Surveyed, Progress
  <2>2. Placards = {}
    BY <2>1, NoPlacards
  <2>3. Placards' = {}
    BY <2>1 DEF Placards, OnlyFiles
  <2> QED BY <2>1, <2>2, <2>3
<1>3. CASE groups' = groups
  <2>1. Offering' = Offering
    BY <1>2, <1>3 DEF Offering
  <2> QED BY <1>1, <2>1, PromisesPass
<1>4. CASE groups' # groups
  <2>1. groups' = FolderGroups(dirs, Records, farm) /\ ~Cancelled
    BY <1>4 DEF Analyse, Records
  <2>2. PICK G : G = UNION Range(FolderGroups(dirs, Records, farm))
    OBVIOUS
  <2>3. Offering' = G
    BY <1>2, <2>1, <2>2 DEF Offering
  <2>4. farm = world.settings /\ farm.sparse \in Nat /\ farm.deep \in Nat
    <3>1. farm = world.settings
      BY <1>1 DEF Promises
    <3>2. world \in World
      BY DEF Surveyed, Delivery, SessionTypes
    <3> QED BY <3>1, <3>2, SettingsOK
  <2>5. Spread(G)
    <3>1. PICK n, recs : n \in Nat /\ recs = Records /\ DOMAIN recs = 1 .. n /\ \A k \in DOMAIN recs : Whole(recs[k])
      BY GetAllIs DEF Surveyed, Recorded, Records
    <3>2. Closed(dirs) /\ dirs \subseteq PathSet
      BY DEF Charts, Surveyed, Recorded, DirsOK
    <3>3. PICK D, s : D = dirs /\ s = farm
      OBVIOUS
    <3>4. Spread(UNION Range(FolderGroups(D, recs, s)))
      BY <2>4, <3>1, <3>2, <3>3, GroupsSpread
    <3> QED BY <2>2, <3>1, <3>3, <3>4
  <2>6. ASSUME at # "failed", NEW u \in G PROVE Honest(u, Reached)
    <3>1. at = "ended" /\ ~cut
      BY <1>1, <2>1, <2>6 DEF Cancelled
    <3> QED BY <1>2, <2>2, <3>1, GroupsHonest
  <2>7. Reached' = Reached
    BY <1>1, ReachedStays
  <2>8. (at # "failed")' => \A u \in Offering' : Honest(u, Reached')
    BY <1>1, <2>3, <2>6, <2>7
  <2>9. Spread(Offering')
    BY <2>3, <2>5
  <2>10. (\A u \in Offering : Honest(u, Reached))' <=> \A u \in Offering' : Honest(u, Reached')
    BY DEF Honest
  <2>11. Spread(Offering)' <=> Spread(Offering')
    BY DEF Spread
  <2>12. farm' = world'.settings
    BY <1>1, <2>4
  <2> QED BY <2>8, <2>9, <2>10, <2>11, <2>12 DEF Promises
<1> QED BY <1>3, <1>4

(* What is published was offered.                                          *)
LEMMA PublishPromises ==
  ASSUME NEW v, NEW node, NEW got, Surveyed(v, node, got), Promises, Publish
  PROVE  Promises'
<1>1. /\ farm' = farm /\ world' = world /\ volumes' = volumes /\ at' = at
      /\ phase # "judged again" /\ phase' # "judged again"
  BY DEF Publish, scanVars
<1>2. CASE groups = <<>>
  <2>1. Offering' = Offering
    <3>1. Records' = Records /\ groups' = groups
      BY <1>2 DEF Publish, Records
    <3> QED BY <3>1 DEF Offering, Placards
  <2> QED BY <1>1, <2>1, PromisesPass
<1>3. CASE groups # <<>>
  <2>1. PICK U : U = Head(groups) /\ Merged(Records, U, Records') /\ groups' = Tail(groups)
    BY <1>3, PublishIs DEF Surveyed
  <2>2. PICK g, s, t : g = groups /\ s = Records /\ t = Records'
    OBVIOUS
  <2>3. U \in Range(g) /\ \A V \in Range(Tail(g)) : V \in Range(g)
    <3>1. PICK S : g \in Seq(S)
      BY <2>2 DEF Surveyed, Progress, Offers
    <3>2. g # <<>>
      BY <1>3, <2>2
    <3>3. PICK m \in Nat : /\ DOMAIN Tail(g) = 1 .. m /\ DOMAIN g = 1 .. m + 1
                          /\ \A i \in 1 .. m : Tail(g)[i] = g[i + 1]
      <4>1. Tail(g) \in Seq(S) /\ Len(Tail(g)) \in Nat /\ Len(Tail(g)) = Len(g) - 1 /\ Len(g) \in Nat
            /\ \A i \in 1 .. Len(Tail(g)) : Tail(g)[i] = g[i + 1]
        BY ONLY <3>1, <3>2, HeadTailProperties, LenProperties
      <4>2. Len(g) = Len(Tail(g)) + 1
        BY <4>1
      <4> QED BY <3>1, <4>1, <4>2, LenProperties
    <3>4. U = g[1] /\ 1 \in DOMAIN g
      <4>1. Head(g) = g[1]
        BY <3>1
      <4>2. 1 \in 1 .. m + 1
        OBVIOUS
      <4> QED BY <2>1, <2>2, <3>3, <4>1, <4>2
    <3>5. \A i \in 1 .. m : i + 1 \in 1 .. m + 1
      OBVIOUS
    <3>6. \A i \in DOMAIN Tail(g) : i + 1 \in DOMAIN g /\ Tail(g)[i] = g[i + 1]
      <4> SUFFICES ASSUME NEW i \in 1 .. m PROVE i + 1 \in DOMAIN g /\ Tail(g)[i] = g[i + 1]
        BY <3>3, Zenon
      <4> QED BY <3>3, <3>5
    <3> QED BY <3>4, <3>6 DEF Range
  <2>4. \A k \in DOMAIN t : t[k] \in U \/ (k \in DOMAIN s /\ t[k] = s[k])
    BY <2>1, <2>2 DEF Merged
  <2>5. ASSUME NEW u \in Offering' PROVE u \in Offering
    <3>1. Offering' = {t[k] : k \in {l \in DOMAIN t : t[l].unit = "folder"}} \cup UNION Range(Tail(g))
      BY <2>1, <2>2 DEF Offering, Placards
    <3>2. Offering = {s[k] : k \in {l \in DOMAIN s : s[l].unit = "folder"}} \cup UNION Range(g)
      BY <2>2 DEF Offering, Placards
    <3>3. CASE u \in UNION Range(Tail(g))
      BY <2>3, <3>2, <3>3
    <3>4. ASSUME NEW k \in DOMAIN t, t[k].unit = "folder", u = t[k] PROVE u \in Offering
      <4>1. CASE t[k] \in U
        BY <2>3, <3>2, <3>4, <4>1
      <4>2. CASE k \in DOMAIN s /\ t[k] = s[k]
        BY <3>2, <3>4, <4>2
      <4> QED BY <2>4, <4>1, <4>2
    <3> QED BY <3>1, <3>3, <3>4
  <2> QED BY <1>1, <2>5, PromisesPass
<1> QED BY <1>2, <1>3

(* A decision changes no promise, new settings end them.                   *)
LEMMA DecidedPromises ==
  ASSUME Recorded, Promises, Keep \/ ApplySettings
  PROVE  Promises'
<1>1. /\ world' = world /\ volumes' = volumes /\ at' = at /\ groups' = groups
      /\ phase' # "judged again" => Keep /\ phase' = phase /\ farm' = farm
  BY DEF Keep, ApplySettings, scanVars
<1>2. PICK s, t : s = Records /\ t = Records'
  OBVIOUS
<1>3. DOMAIN t = DOMAIN s /\ \A k \in DOMAIN s : Alike(t[k], s[k])
  BY <1>2, KeepIs, SettingsAre
<1>4. ASSUME Keep, NEW k \in DOMAIN s PROVE t[k].cat = s[k].cat /\ t[k].safety = s[k].safety
  <2>1. PICK r : \A i \in DOMAIN s : t[i] = KeptAs(s[i], r.id) /\ Whole(s[i])
    BY <1>2, <1>4, KeepIs
  <2>2. PICK x, y, id : x = s[k] /\ y = t[k] /\ id = r.id
    OBVIOUS
  <2>3. y = KeptAs(x, id) /\ Whole(x)
    BY <2>1, <2>2
  <2>4. y = x \/ y = [x EXCEPT !.decision = "keep"]
    BY <2>3 DEF KeptAs
  <2>5. x = [id |-> x.id, path |-> x.path, size |-> x.size, used |-> x.used, changed |-> x.changed,
             unit |-> x.unit, cat |-> x.cat, safety |-> x.safety, decision |-> x.decision]
    BY <2>3 DEF Whole
  <2>6. y.cat = x.cat /\ y.safety = x.safety
    BY ONLY <2>4, <2>5
  <2> QED BY <2>2, <2>6
<1>5. Offering' = {t[k] : k \in {l \in DOMAIN t : t[l].unit = "folder"}} \cup UNION Range(groups)
  BY <1>1, <1>2 DEF Offering, Placards
<1>6. Offering = {s[k] : k \in {l \in DOMAIN s : s[l].unit = "folder"}} \cup UNION Range(groups)
  BY <1>2 DEF Offering, Placards
<1>7. ASSUME NEW u \in Offering'
      PROVE  \E w \in Offering :
               u.id = w.id /\ u.path = w.path /\ (phase' # "judged again" => u.cat = w.cat /\ u.safety = w.safety)
  <2>1. CASE u \in UNION Range(groups)
    BY <1>6, <2>1
  <2>2. ASSUME NEW k \in DOMAIN t, t[k].unit = "folder", u = t[k]
        PROVE  s[k] \in Offering /\ u.id = s[k].id /\ u.path = s[k].path
               /\ (phase' # "judged again" => u.cat = s[k].cat /\ u.safety = s[k].safety)
    <3>1. k \in DOMAIN s /\ s[k].unit = "folder" /\ u.id = s[k].id /\ u.path = s[k].path
      BY <1>3, <2>2 DEF Alike
    <3> QED BY <1>1, <1>4, <1>6, <2>2, <3>1
  <2> QED BY <1>5, <2>1, <2>2
<1>8. phase' # "judged again" => phase # "judged again" /\ farm' = farm
  BY <1>1
<1> QED BY <1>1, <1>7, <1>8, PromisesPass

-----------------------------------------------------------------------------
(* Every step keeps what units promise.                                    *)

(* The inductive invariant of UnitsTrue.                                   *)
UnitsInv == SurveyInv /\ Charts /\ Promises

(* It holds at first.                                                      *)
LEMMA InitPromises == Init => UnitsInv
<1> SUFFICES ASSUME Init PROVE Promises
  BY InitSurveyed, InitCharts DEF UnitsInv, Init
<1>1. DOMAIN Records = {} /\ groups = <<>>
  BY EmptyIs DEF Init, Records
<1>2. Offering = {}
  BY <1>1 DEF Offering, Placards, Range
<1>3. farm = world.settings
  BY DEF Init
<1> QED BY <1>2, <1>3 DEF Promises, Spread

(* The world and the volumes are nobody's to change.                       *)
LEMMA SteadySteps ==
  ASSUME SessionStep \/ Stop \/ Return \/ \E w \in Worker : WorkerStep(w)
  PROVE  Steady
<1>1. CASE Stop \/ Return
  BY <1>1 DEF Stop, Return, Steady
<1>2. CASE \E w \in Worker : WorkerStep(w)
  BY <1>2 DEF WorkerStep, Take, Open, Share, Leave, GoHome, Steady
<1>3. CASE NextVolume \/ VolumeFails \/ EndVolume \/ Joined \/ ReadFails
  BY <1>3 DEF NextVolume, VolumeFails, ReadFails, EndVolume, Joined, Fails, Steady
<1>4. CASE Sift \/ EndSift \/ PassOne \/ Push \/ Finish
  BY <1>4 DEF Sift, EndSift, PassOne, Push, Finish, Steady
<1> QED BY <1>1, <1>2, <1>3, <1>4 DEF SessionStep

(* Every step keeps it.                                                    *)
LEMMA NextPromises == UnitsInv /\ [Next]_vars => UnitsInv'
<1> SUFFICES ASSUME SurveyInv, Charts, Promises, [Next]_vars
             PROVE  Charts' /\ Promises'
  BY NextSurveyed DEF UnitsInv
<1>1. PICK v, node, got : Surveyed(v, node, got)
  BY DEF SurveyInv
<1>2. Delivery(v, node, got) /\ Recorded /\ Progress
  BY <1>1 DEF Surveyed
<1>3. CASE Scanner \/ (Stop /\ UNCHANGED survey)
  <2>1. (SessionStep \/ Stop \/ \E w \in Worker : WorkerStep(w)) /\ UNCHANGED survey
    BY <1>3 DEF Scanner
  <2>2. Charts'
    BY <1>2, <2>1, StepCharts
  <2>3. phase' = phase /\ farm' = farm /\ groups' = groups /\ Placards' = Placards
    BY <2>1 DEF survey, Placards, Records
  <2>4. at' # "failed" => at # "failed"
    BY <2>1, OverStays
  <2>5. world' = world /\ volumes' = volumes
    BY <2>1, SteadySteps DEF Steady
  <2> QED BY <2>2, <2>3, <2>4, <2>5, PromisesIdle
<1>4. CASE OnBatch
  <2>1. Return /\ phase' = phase /\ farm' = farm /\ groups' = groups
    BY <1>4 DEF OnBatch
  <2>2. Charts'
    BY <1>2, <2>1, StepCharts
  <2>3. at' = at /\ world' = world /\ volumes' = volumes
    BY <2>1 DEF Return
  <2>4. OnlyFiles(Records) /\ OnlyFiles(Records')
    <3>1. phase = "scanning"
      <4>1. at \in {"pass 2", "sift", "close"}
        BY <1>2, <1>4 DEF OnBatch, Called, Delivery, Handed
      <4> QED BY <1>2, <4>1 DEF Progress
    <3>2. Progress'
      BY NextSurveyed DEF SurveyInv, Surveyed
    <3> QED BY <1>2, <2>1, <3>1, <3>2 DEF Progress
  <2>5. Placards' = Placards
    <3>1. Placards' = {}
      BY <2>4 DEF Placards, OnlyFiles
    <3> QED BY <2>4, <3>1, NoPlacards
  <2> QED BY <2>1, <2>2, <2>3, <2>5, PromisesIdle
<1>5. CASE Analyse \/ Publish \/ Keep \/ ApplySettings
  <2>1. UNCHANGED scanVars
    BY <1>5 DEF Analyse, Publish, Keep, ApplySettings
  <2>2. Charts'
    BY <1>2, <2>1, IdleCharts
  <2> QED BY <1>1, <1>2, <1>5, <2>2, AnalysePromises, PublishPromises, DecidedPromises
<1>6. CASE UNCHANGED vars
  <2>1. UNCHANGED scanVars /\ UNCHANGED survey
    BY <1>6 DEF vars
  <2>2. Charts'
    BY <1>2, <2>1, IdleCharts
  <2>3. /\ phase' = phase /\ farm' = farm /\ groups' = groups /\ Placards' = Placards
        /\ at' = at /\ world' = world /\ volumes' = volumes
    BY <2>1 DEF survey, scanVars, Placards, Records
  <2> QED BY <2>2, <2>3, PromisesIdle
<1> QED BY <1>3, <1>4, <1>5, <1>6 DEF Next, User

(* It gives what UnitsTrue says.                                           *)
LEMMA PromisesKept == UnitsInv => UnitsTrue
<1> SUFFICES ASSUME NEW v, NEW node, NEW got, Surveyed(v, node, got), Promises PROVE UnitsTrue
  BY DEF UnitsInv, SurveyInv
<1>1. Catalogue(Records, next) /\ OnePathEach(Records)
  BY DEF Surveyed, Recorded
<1>2. ASSUME NEW u \in Units PROVE \E k \in DOMAIN Records : u = Records[k] /\ Records[k].unit = "folder"
  <2>1. PICK k \in DOMAIN Records : u = Records[k] /\ ~IsFile(u)
    BY DEF Units, Files, Range, Records
  <2>2. FileTag(Records[k], next) \/ FolderTag(Records[k])
    BY <1>1 DEF Catalogue
  <2> QED BY <2>1, <2>2 DEF IsFile, FileTag, FolderTag
<1>3. \A u \in Units : u \in Offering
  BY <1>2 DEF Offering, Placards
<1>4. ASSUME at # "failed", phase # "judged again"
      PROVE  \E found \in {{f \in All : Len(f.path) <= MaxDepth + 2}} : \A u \in Units : Honest(u, found)
  BY <1>3, <1>4 DEF Promises, Reached
<1>5. ASSUME NEW u \in Units, NEW w \in Units, u # w, u.id[1] = w.id[1], Under(w.path, u.path) PROVE FALSE
  <2>1. w.path = u.path
    BY <1>3, <1>5 DEF Promises, Spread
  <2>2. PICK k \in DOMAIN Records : u = Records[k]
    BY <1>2
  <2>3. PICK l \in DOMAIN Records : w = Records[l]
    BY <1>2
  <2>4. k = l
    BY <1>1, <2>1, <2>2, <2>3 DEF OnePathEach
  <2> QED BY <1>5, <2>2, <2>3, <2>4
<1> QED BY <1>4, <1>5 DEF UnitsTrue, Honest

(* Units tell the truth: unless the session failed, and until the settings
   change, a folder offered as empty has no file below it that is to be
   found but such as Windows puts there, and what is offered as safe
   belongs to a project nobody has worked on lately; and never, not after
   a failed session either, does a unit lie in another of its kind. So
   what the detectors make out from the records of the index is true of
   the disks (empty_folders.rs, node_modules.rs, build_artifacts.rs,
   unity.rs).                                                              *)
THEOREM UnitsTrueAlways == Spec => []UnitsTrue
BY InitPromises, NextPromises, PromisesKept, PTL DEF Spec
=============================================================================
