---------------------------- MODULE ScanSession ----------------------------
(***************************************************************************)
(* Scan sessions of the shell (shell/src/scan_runtime.rs) over the one     *)
(* in-memory index: a background thread per session inserts, categorises   *)
(* and counts what the scanners find, then promotes duplicates and adds    *)
(* folder units, while the user decides about candidates, stops the scan   *)
(* and changes settings, whose recalculation is a thread of its own. Steps *)
(* are what one lock of the index or of the totals covers.                 *)
(***************************************************************************)
EXTENDS Integers, Sequences, SequencesExt, FiniteSets, FiniteSetsExt

CONSTANTS
  Path,       (* the files                                                 *)
  Folder,     (* folders that may become one candidate                     *)
  Unit,       (* and what may be found: a folder, by one of the detectors  *)
  Lies,       (* the folder of a unit                                      *)
  Finder,     (* the number of its detector                                *)
  Finders,    (* how many there are, in their order                        *)
  Same,       (* the content of each file                                  *)
  Setting,
  First,      (* the settings at the start                                 *)
  Broken,     (* settings that configured_registry refuses                 *)
  Cascading,  (* settings with the duplicates section switched on          *)
  Hits,       (* what the detectors say of a path under a setting          *)
  Session,    (* calls of scan.start                                       *)
  NoSession,
  Change,     (* calls of settings.set                                     *)
  MaxBatch,   (* how many files a scanner delivers at once                 *)
  MaxActs     (* bound: how often the user starts, changes or decides      *)

Id    == (0 .. Cardinality(Path) - 1) \cup Unit
Place == Path \cup Folder
Claim == UNION {Range(Hits[s][p]) : s \in Setting, p \in Place}
Category == {"duplicates", "folder"} \cup Claim

ASSUME ConstantsOK ==
  /\ IsFiniteSet(Path) /\ IsFiniteSet(Unit)
  /\ Path \cap Folder = {} /\ Unit \cap Nat = {}
  /\ Lies \in [Unit -> Folder] /\ Finders \in Nat /\ Finder \in [Unit -> 1 .. Finders]
  /\ \A u, v \in Unit : Lies[u] = Lies[v] /\ Finder[u] = Finder[v] => u = v
  /\ First \in Setting /\ Broken \subseteq Setting /\ Cascading \subseteq Setting
  /\ NoSession \notin Session
  /\ Hits \in [Setting -> [Place -> Seq(Claim)]]
  /\ "none" \notin Claim /\ "duplicates" \notin Claim
  /\ MaxBatch \in Nat \ {0} /\ MaxActs \in Nat

VARIABLES
  index,      (* InMemoryIndex: a sequence of records                      *)
  live,       (* LiveTotals: per id its categories and whether it is kept  *)
  dup,        (* the groups of the last cascade that confirmed any         *)
  running,    (* ScanController.running                                    *)
  token,      (* ScanController.token: the session it cancels              *)
  cancelled,  (* the sessions whose token is cancelled                     *)
  pc,         (* per session: where its thread is                          *)
  run,        (* per session: what its thread holds                        *)
  settings,   (* the settings the next session will read                   *)
  apply,      (* per change: its background recalculation                  *)
  pend,       (* decisions that have reached the index, not the totals     *)
  acts,       (* bounded by MaxActs                                         *)
  wish,       (* history: the user's last decision about each id           *)
  raced,      (* history: ids decided while a thread held their record     *)
  muddled     (* history: the totals had more than one writer              *)

data    == <<index, live, dup>>
control == <<running, token, cancelled>>
user    == <<pend, wish, raced>>
vars    == <<data, control, pc, run, settings, apply, user, acts, muddled>>

-----------------------------------------------------------------------------
(* The index and the totals.                                               *)

Records == [path : Place, id : Id, cat : Category \cup {"none"}, kept : BOOLEAN]

Groups == [keep : Id, members : SUBSET Id]

Ids(recs) == {recs[k].id : k \in DOMAIN recs}

(* upsert_batch goes by path: the last record of a path is replaced         *)
UpsertOne(recs, r) ==
  LET at == {k \in DOMAIN recs : recs[k].path = r.path} IN
  IF at = {} THEN Append(recs, r) ELSE [recs EXCEPT ![Max(at)] = r]

Upsert(recs, new) ==
  LET after[n \in 0 .. Len(new)] == IF n = 0 THEN recs ELSE UpsertOne(after[n - 1], new[n])
  IN after[Len(new)]

(* those of the records that are in a set, in their order                  *)
Those(recs, S) ==
  LET upto[n \in 0 .. Len(recs)] ==
        IF n = 0 THEN <<>>
        ELSE IF recs[n] \in S THEN Append(upto[n - 1], recs[n]) ELSE upto[n - 1]
  IN upto[Len(recs)]

LastOf(recs, id) == recs[Max({k \in DOMAIN recs : recs[k].id = id})]

(* The first hit is the primary category. Recalculation clears what no
   detector claims any more, but leaves the duplicates alone.              *)
Verdict(s, p) == IF Hits[s][p] = <<>> THEN "none" ELSE Head(Hits[s][p])

Recategorised(s, r) ==
  IF r.kept \/ (Verdict(s, r.path) = "none" /\ r.cat = "duplicates") THEN r
  ELSE [r EXCEPT !.cat = Verdict(s, r.path)]

NoShare == [cats |-> {}, kept |-> FALSE]
Nothing == [i \in Id |-> NoShare]

IngestHits(totals, recs, s) ==
  [i \in Id |->
     LET own == {k \in DOMAIN recs : recs[k].id = i /\ Hits[s][recs[k].path] # <<>>} IN
     IF own = {} THEN totals[i]
     ELSE [cats |-> totals[i].cats \cup UNION {Range(Hits[s][recs[k].path]) : k \in own},
           kept |-> recs[Max(own)].kept]]

IngestPrimary(totals, recs) ==
  [i \in Id |->
     LET own == {k \in DOMAIN recs : recs[k].id = i /\ recs[k].cat # "none"} IN
     IF own = {} THEN totals[i]
     ELSE [cats |-> totals[i].cats \cup {recs[k].cat : k \in own}, kept |-> recs[Max(own)].kept]]

(* faulty variant: the kept copy as well                                   *)
PromotableAll(recs, groups) ==
  {[LastOf(recs, i) EXCEPT !.cat = "duplicates"] :
     i \in {j \in UNION {g.members : g \in groups} :
              j \in Ids(recs) /\ LastOf(recs, j).cat = "none"}}

(* what a member that is not the kept copy becomes, unless it has a
   category of its own                                                     *)
Promotable(recs, groups) ==
  {[LastOf(recs, i) EXCEPT !.cat = "duplicates"] :
     i \in {j \in UNION {g.members \ {g.keep} : g \in groups} :
              j \in Ids(recs) /\ LastOf(recs, j).cat = "none"}}

-----------------------------------------------------------------------------
(* What the properties have to know of the threads.                        *)

At(c, place) == pc[c] = place

Applying(k, place) == apply[k].at = place

Idle == {"new", "done", "dead"}

Places ==
  Idle \cup {"token", "spawn", "find", "tag", "count", "snapshot", "hash", "promote", "recount", "store",
            "units", "units in", "end", "ending"}

Stages == {"new", "recalculate", "publish", "reapply", "write", "read", "totals", "done"}

Busy(c) == pc[c] \notin Idle
Works(k) == apply[k].at \notin {"new", "done"}

(* some thread holds a copy of the record that it will write back          *)
Writes(i) ==
  \/ \E c \in Session : pc[c] \in {"tag", "hash", "promote", "units in"} /\ i \in Ids(run[c].held)
  \/ \E k \in Change : Applying(k, "write") /\ i \in Ids(apply[k].held)

(* ... or count                                                            *)
Counts(i) ==
  \/ \E c \in Session : At(c, "count") /\ i \in Ids(run[c].held)
  \/ \E k \in Change : Applying(k, "totals") /\ i \in Ids(apply[k].held)

(* Has more than one thread worked on the totals at a time, or has a decision
   fallen between a thread's reading of a record and its counting it?      *)
Watch ==
  muddled' =
    \/ muddled
    \/ \E k \in Change : Works(k)' /\ \/ \E c \in Session : Busy(c)'
                                      \/ \E other \in Change \ {k} : Works(other)'
    \/ Cardinality(pend') > 1
    \/ \E d \in pend' \ pend : Writes(d.id) \/ Counts(d.id)

(* bound: how often the user starts a scan, changes a setting or decides   *)
Act == acts < MaxActs /\ acts' = acts + 1

-----------------------------------------------------------------------------
(* The thread of a session.                                                *)

Clean == [farm |-> First, todo |-> {}, next |-> 0, held |-> <<>>, marked |-> {}, finder |-> 1]

Goto(c, place) == pc' = [pc EXCEPT ![c] = place]

(* ScanController::begin: compare-and-swap, then the token.                *)
Free == ~running

Begin(c) ==
  /\ At(c, "new")
  /\ Free
  /\ running' = TRUE
  /\ Goto(c, "token")
  /\ run' = [run EXCEPT ![c].todo = Path]
  /\ Act /\ UNCHANGED <<data, token, cancelled, settings, apply, user>> /\ Watch

TakeToken(c) ==
  /\ At(c, "token")
  /\ token' = c
  /\ Goto(c, "spawn")
  /\ UNCHANGED <<data, run, running, cancelled, settings, apply, user, acts>> /\ Watch

(* The thread may not start; if it does, it clears the totals and builds
   the detectors from the settings of now. If these are refused it returns
   at once, and the controller goes on running.                            *)
Spawn(c) ==
  /\ At(c, "spawn")
  /\ \/ Goto(c, "end") /\ UNCHANGED <<live, run>>
     \/ /\ live' = Nothing
        /\ Goto(c, IF settings \in Broken THEN "dead" ELSE "find")
        /\ run' = [run EXCEPT ![c] = IF settings \in Broken THEN Clean ELSE [@ EXCEPT !.farm = settings]]
  /\ UNCHANGED <<index, dup, control, settings, apply, user, acts>> /\ Watch

(* the id of the k-th record of a batch; a session counts from 0           *)
Number(c, k) == run[c].next + k - 1

(* A batch of records.                                                     *)
Batch(c) ==
  /\ At(c, "find")
  /\ Goto(c, "tag")
  /\ \E new \in SUBSET run[c].todo, order \in SetToSeqs(run[c].todo) :
       LET n     == Cardinality(new)
           batch == [k \in 1 .. n |-> [path |-> order[k], id |-> Number(c, k),
                                       cat |-> "none", kept |-> FALSE]]
       IN
       /\ n \in 1 .. MaxBatch
       /\ new = {order[k] : k \in 1 .. n}
       /\ index' = index \o batch
       /\ run' = [run EXCEPT ![c].todo = @ \ new, ![c].next = @ + n, ![c].held = batch]
  /\ UNCHANGED <<live, dup, control, settings, apply, user, acts>> /\ Watch

(* categorize_batch works on the thread's own copy of the batch.           *)
Tagged(c) ==
  Those([k \in DOMAIN run[c].held |->
           [run[c].held[k] EXCEPT !.cat = Verdict(run[c].farm, run[c].held[k].path)]],
        {r \in Records : r.cat # "none"})

Tag(c) ==
  /\ At(c, "tag")
  /\ index' = Upsert(index, Tagged(c))
  /\ Goto(c, "count")
  /\ UNCHANGED <<live, run, dup, control, settings, apply, user, acts>> /\ Watch

Count(c) ==
  /\ At(c, "count")
  /\ live' = IngestHits(live, run[c].held, run[c].farm)
  /\ Goto(c, "find")
  /\ run' = [run EXCEPT ![c].held = <<>>]
  /\ UNCHANGED <<index, dup, control, settings, apply, user, acts>> /\ Watch

(* The volumes are done, the scan is cancelled or a volume has failed. What
   is left was not there to find, or on a volume nobody asked for.         *)
EndFind(c) ==
  /\ At(c, "find")
  /\ Goto(c, IF c \in cancelled THEN "end"
             ELSE IF run[c].farm \in Cascading THEN "snapshot" ELSE "units")
  /\ UNCHANGED <<data, run, control, settings, apply, user, acts>> /\ Watch

-----------------------------------------------------------------------------
(* The duplicate cascade within the session: see Duplicates for its stages.*)

Snapshot(c) ==
  LET files == Those(index, {r \in Records : r.path \in Path /\ ~r.kept}) IN
  /\ At(c, "snapshot")
  /\ \/ Len(files) < 2 /\ Goto(c, "units") /\ UNCHANGED run
     \/ Len(files) >= 2 /\ Goto(c, "hash") /\ run' = [run EXCEPT ![c].held = files]
  /\ UNCHANGED <<data, control, settings, apply, user, acts>> /\ Watch

(* Groups are made of ids, and a file is found by its id; a cancelled
   cascade has hashed some of them only.                                   *)
Alike(recs, hashed) ==
  LET content(i) == Same[LastOf(recs, i).path] IN
  {g \in {{j \in hashed : content(j) = content(i)} : i \in hashed} : Cardinality(g) >= 2}

Hash(c) ==
  LET recs == run[c].held IN
  /\ At(c, "hash")
  /\ \E hashed \in SUBSET Ids(recs) :
       /\ hashed = Ids(recs) \/ c \in cancelled
       /\ \/ /\ Alike(recs, hashed) = {}
             /\ Goto(c, "units")
             /\ run' = [run EXCEPT ![c].held = <<>>]
          \/ \E keep \in [Alike(recs, hashed) -> hashed] :
               LET marked == {[keep |-> keep[g], members |-> g] : g \in Alike(recs, hashed)} IN
               /\ Alike(recs, hashed) # {}
               /\ \A g \in Alike(recs, hashed) : keep[g] \in g
               /\ Goto(c, "promote")
               /\ run' = [run EXCEPT ![c].marked = marked, ![c].held = SetToSeq(Promotable(recs, marked))]
  /\ UNCHANGED <<data, control, settings, apply, user, acts>> /\ Watch

Promote(c) ==
  /\ At(c, "promote")
  /\ index' = Upsert(index, run[c].held)
  /\ Goto(c, "recount")
  /\ run' = [run EXCEPT ![c].held = <<>>]
  /\ UNCHANGED <<live, dup, control, settings, apply, user, acts>> /\ Watch

Recount(c) ==
  /\ At(c, "recount")
  /\ live' = IngestPrimary(live, index)
  /\ Goto(c, "store")
  /\ UNCHANGED <<run, index, dup, control, settings, apply, user, acts>> /\ Watch

Store(c) ==
  /\ At(c, "store")
  /\ dup' = run[c].marked
  /\ Goto(c, "units")
  /\ run' = [run EXCEPT ![c].marked = {}]
  /\ UNCHANGED <<index, live, control, settings, apply, user, acts>> /\ Watch

(* run_folder_units_pass: one detector of folders after the other (empty,
   nearly empty or too deep ones; node_modules; build results; Unity's), each
   with ids of its own. What it has found goes into the totals and then into
   the index, where it takes the place of an earlier unit of the same folder.
   Cancellation is looked at before the first.                             *)
UnitRecord(u) == [path |-> Lies[u], id |-> u, cat |-> "folder", kept |-> FALSE]

CountUnits(c) ==
  /\ At(c, "units")
  /\ IF run[c].finder > Finders \/ (run[c].finder = 1 /\ c \in cancelled)
     THEN Goto(c, "end") /\ UNCHANGED <<live, run>>
     ELSE \E found \in SUBSET {u \in Unit : Finder[u] = run[c].finder} :
            LET units == SetToSeq({UnitRecord(u) : u \in found}) IN
            /\ Goto(c, IF found = {} THEN "units" ELSE "units in")
            /\ live' = IngestPrimary(live, units)
            /\ run' = [run EXCEPT ![c].held = units, ![c].finder = @ + 1]
  /\ UNCHANGED <<index, dup, control, settings, apply, user, acts>> /\ Watch

InsertUnits(c) ==
  /\ At(c, "units in")
  /\ index' = Upsert(index, run[c].held)
  /\ Goto(c, "units")
  /\ run' = [run EXCEPT ![c].held = <<>>]
  /\ UNCHANGED <<live, dup, control, settings, apply, user, acts>> /\ Watch

(* faulty variant: the flag goes first                                     *)
FlagFirst == <<"flag", "token">>

(* faulty variant: the flag stays                                          *)
TokenOnly == <<"token", "token">>

(* ScanController::end: the token, which nobody needs any more, goes before
   the flag.                                                               *)
Closing == <<"token", "flag">>

Close(c, what) ==
  /\ running' = IF what = "flag" THEN FALSE ELSE running
  /\ token' = IF what = "token" THEN NoSession ELSE token
  /\ cancelled' = cancelled \ {c}
  /\ UNCHANGED <<data, settings, apply, user, acts>> /\ Watch

End(c) ==
  \/ At(c, "end") /\ Goto(c, "ending") /\ Close(c, Closing[1]) /\ UNCHANGED run
  \/ At(c, "ending") /\ Goto(c, "done") /\ Close(c, Closing[2]) /\ run' = [run EXCEPT ![c] = Clean]

-----------------------------------------------------------------------------
(* The background thread of a change of settings: apply_settings.          *)

Still(place) == [at |-> place, s |-> First, held |-> <<>>]

Advance(k, place, recs) == apply' = [apply EXCEPT ![k].at = place, ![k].held = recs]

SetSettings(k) ==
  /\ Applying(k, "new")
  /\ \E s \in Setting \ {settings} :
       /\ settings' = s
       /\ apply' = [apply EXCEPT ![k] = IF s \in Broken THEN Still("done")
                                        ELSE [at |-> "recalculate", s |-> s, held |-> <<>>]]
  /\ Act /\ UNCHANGED <<data, control, pc, run, user>> /\ Watch

Recalculate(k) ==
  /\ Applying(k, "recalculate")
  /\ index' = [n \in DOMAIN index |-> Recategorised(apply[k].s, index[n])]
  /\ Advance(k, "publish", <<>>)
  /\ UNCHANGED <<live, dup, control, pc, run, settings, user, acts>> /\ Watch

Publish(k) ==
  /\ Applying(k, "publish")
  /\ settings' = apply[k].s
  /\ Advance(k, "reapply", <<>>)
  /\ UNCHANGED <<data, control, pc, run, user, acts>> /\ Watch

(* reapply_cached_duplicates: reads the index, then writes                 *)
Reapply(k) ==
  /\ Applying(k, "reapply")
  /\ Advance(k, "write", SetToSeq(Promotable(index, dup)))
  /\ UNCHANGED <<data, control, pc, run, settings, user, acts>> /\ Watch

Rewrite(k) ==
  /\ Applying(k, "write")
  /\ index' = Upsert(index, apply[k].held)
  /\ Advance(k, "read", <<>>)
  /\ UNCHANGED <<live, dup, control, pc, run, settings, user, acts>> /\ Watch

Reread(k) ==
  /\ Applying(k, "read")
  /\ Advance(k, "totals", index)
  /\ UNCHANGED <<data, control, pc, run, settings, user, acts>> /\ Watch

Retotal(k) ==
  /\ Applying(k, "totals")
  /\ live' = IngestPrimary(Nothing, apply[k].held)
  /\ apply' = [apply EXCEPT ![k] = Still("done")]
  /\ UNCHANGED <<index, dup, control, pc, run, settings, user, acts>> /\ Watch

-----------------------------------------------------------------------------
(* The user.                                                               *)

(* scan.stop; without a token it reports that there is nothing to stop     *)
Stop ==
  /\ token # NoSession
  /\ token \notin cancelled
  /\ cancelled' = cancelled \cup {token}
  /\ UNCHANGED <<data, running, token, pc, run, settings, apply, user, acts>> /\ Watch

(* faulty variant: a decision cannot be taken back                         *)
DecidedOnce(i, kept) ==
  [n \in DOMAIN index |-> IF index[n].id = i THEN [index[n] EXCEPT !.kept = kept \/ @] ELSE index[n]]

(* candidate.keep, candidate.mark and the end of reap.execute: a decision
   reaches the records with the id first and the totals later. Marked
   counts like undecided.                                                  *)
Decided(i, kept) == [n \in DOMAIN index |-> IF index[n].id = i THEN [index[n] EXCEPT !.kept = kept] ELSE index[n]]

Decide ==
  /\ \E i \in Ids(index), kept \in BOOLEAN :
       /\ index' = Decided(i, kept)
       /\ pend' = pend \cup {[id |-> i, kept |-> kept]}
       /\ wish' = [wish EXCEPT ![i] = IF kept THEN "keep" ELSE "free"]
       /\ raced' = IF Writes(i) THEN raced \cup {i} ELSE raced \ {i}
  /\ Act /\ UNCHANGED <<live, dup, control, pc, run, settings, apply>> /\ Watch

(* faulty variant: the totals do not hear of it                            *)
IgnoreDecision(d) == live

(* LiveTotals::set_decision                                                *)
SetDecision(d) == IF live[d.id] = NoShare THEN live ELSE [live EXCEPT ![d.id].kept = d.kept]

Total ==
  /\ \E d \in pend : live' = SetDecision(d) /\ pend' = pend \ {d}
  /\ UNCHANGED <<index, dup, control, pc, run, settings, apply, wish, raced, acts>> /\ Watch

-----------------------------------------------------------------------------
SessionStep(c) ==
  \/ Begin(c) \/ TakeToken(c) \/ Spawn(c) \/ Batch(c) \/ Tag(c) \/ Count(c) \/ EndFind(c)
  \/ Snapshot(c) \/ Hash(c) \/ Promote(c) \/ Recount(c) \/ Store(c)
  \/ CountUnits(c) \/ InsertUnits(c) \/ End(c)

ApplyStep(k) ==
  \/ SetSettings(k) \/ Recalculate(k) \/ Publish(k) \/ Reapply(k) \/ Rewrite(k) \/ Reread(k) \/ Retotal(k)

Next ==
  \/ \E c \in Session : SessionStep(c)
  \/ \E k \in Change : ApplyStep(k)
  \/ Stop \/ Decide \/ Total

Init ==
  /\ index = <<>>
  /\ live = Nothing
  /\ dup = {}
  /\ running = FALSE
  /\ token = NoSession
  /\ cancelled = {}
  /\ pc = [c \in Session |-> "new"]
  /\ run = [c \in Session |-> Clean]
  /\ settings = First
  /\ apply = [k \in Change |-> Still("new")]
  /\ pend = {}
  /\ acts = 0
  /\ wish = [i \in Id |-> "none"]
  /\ raced = {}
  /\ muddled = FALSE

Spec == Init /\ [][Next]_vars

(* A session's thread runs on; nobody has to start one.                    *)
Fairness == \A c \in Session : WF_pc(Busy(c) /\ SessionStep(c))

FairSpec == Spec /\ Fairness

-----------------------------------------------------------------------------
(* The types of the variables, and how much a session may hold.            *)
Shares  == [cats : SUBSET Category, kept : BOOLEAN]
Applies == [at : Stages, s : Setting, held : Seq(Records)]
Runs    == [farm : Setting, todo : SUBSET Path, next : 0 .. Cardinality(Path),
            held : Seq(Records), marked : SUBSET Groups, finder : 1 .. Finders + 1]

TypeOK ==
  /\ index \in Seq(Records)
  /\ live \in [Id -> Shares]
  /\ dup \in SUBSET Groups
  /\ running \in BOOLEAN
  /\ token \in Session \cup {NoSession}
  /\ cancelled \subseteq Session
  /\ pc \in [Session -> Places]
  /\ run \in [Session -> Runs]
  /\ settings \in Setting
  /\ apply \in [Change -> Applies]
  /\ pend \subseteq [id : Id, kept : BOOLEAN]
  /\ acts \in 0 .. MaxActs
  /\ wish \in [Id -> {"none", "keep", "free"}]
  /\ raced \subseteq Id
  /\ muddled \in BOOLEAN

(* the first session since the start of the application                    *)
FirstScan == \A c, other \in Session : pc[c] # "new" /\ pc[other] # "new" => c = other

(* One session at a time: whatever is stopped, refused or fails to start,
   ScanController.begin lets none in while another is at work, and
   scan.stop reaches the one at work: the token it finds is that session's,
   not that of one which has ended.                                        *)
OneSession ==
  /\ \A c, other \in Session : Busy(c) /\ Busy(other) => c = other
  /\ \A c \in Session : Busy(c) /\ pc[c] \notin {"token", "ending"} => token = c

(* What the user decided last about a candidate stands, unless it was
   decided while a thread was about to write the record back. (Of a unit,
   as long as it has its record: another one that takes its place is not
   the candidate the user has decided about.)                              *)
DecisionsStand ==
  FirstScan => \A k \in DOMAIN index :
    /\ wish[index[k].id] = "keep" /\ index[k].id \notin raced => index[k].kept
    /\ wish[index[k].id] = "free" /\ index[k].id \notin raced => ~index[k].kept

(* The same without the exception.                                         *)
KeepStands ==
  FirstScan => \A k \in DOMAIN index : wish[index[k].id] = "keep" => index[k].kept

(* Every candidate offered as a duplicate has a copy elsewhere that is not
   offered as one.                                                         *)
OneCopyStays ==
  FirstScan => \A k \in DOMAIN index :
    index[k].cat = "duplicates" =>
      \E n \in DOMAIN index :
        /\ index[n].path \in Path \ {index[k].path}
        /\ Same[index[n].path] = Same[index[k].path]
        /\ index[n].cat # "duplicates"

Quiet ==
  /\ \A c \in Session : ~Busy(c)
  /\ \A k \in Change : ~Works(k)
  /\ pend = {}

Shown   == {i \in Id : live[i].cats # {} /\ ~live[i].kept}
Offered == {index[k].id : k \in {n \in DOMAIN index : index[n].cat # "none" /\ ~index[n].kept}}

(* units whose folder now stands in the index as another detector's unit   *)
Displaced ==
  {u \in Unit : \E k \in DOMAIN index : index[k].path = Lies[u] /\ index[k].id # u}

(* T-055: once all is quiet the live totals count the candidates the index
   has, and beyond these at most displaced units. (A folder that two of the
   detectors find is counted twice and has one record.)                    *)
TotalsAgree ==
  Quiet /\ FirstScan /\ ~muddled =>
    Offered \subseteq Shown /\ Shown \subseteq Offered \cup Displaced

(* Every session ends and frees the controller for the next one, unless its
   settings were refused.                                                  *)
SessionEnds == running ~> ~running \/ \E c \in Session : pc[c] = "dead"
=============================================================================
