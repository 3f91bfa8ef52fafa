---------------------------- MODULE MemoryIndex ----------------------------
(***************************************************************************)
(* The in-memory index (infra/index-memory/src/lib.rs): compact records    *)
(* that name their folder and their file by number, and the two tables of  *)
(* interned strings the numbers refer to. Tables only grow, records are    *)
(* found by their two numbers.                                             *)
(***************************************************************************)
EXTENDS Paths

EmptyIndex == [folders |-> <<>>, names |-> <<>>, recs |-> <<>>]

(* PathInterner                                                            *)
Intern(table, s) == IF s \in Range(table) THEN table ELSE Append(table, s)

NumberOf(table, s) == CHOOSE k \in DOMAIN table : table[k] = s

Packed(r, folder, name) ==
  [id |-> r.id, folder |-> folder, name |-> name, size |-> r.size, used |-> r.used,
   changed |-> r.changed, unit |-> r.unit, cat |-> r.cat, safety |-> r.safety,
   decision |-> r.decision]

PathAt(index, c) == Append(index.folders[c.folder], index.names[c.name])

Unpacked(index, c) ==
  [id |-> c.id, path |-> PathAt(index, c), size |-> c.size, used |-> c.used,
   changed |-> c.changed, unit |-> c.unit, cat |-> c.cat, safety |-> c.safety,
   decision |-> c.decision]

GetAll(index) == [k \in DOMAIN index.recs |-> Unpacked(index, index.recs[k])]

(* both strings of a path interned                                         *)
Interned(index, path) ==
  [index EXCEPT !.folders = Intern(@, Folder(path)), !.names = Intern(@, Name(path))]

PackedIn(index, r) ==
  Packed(r, NumberOf(index.folders, Folder(r.path)), NumberOf(index.names, Name(r.path)))

(* insert_batch: at the end, whatever is there                             *)
Added(index, c) == [index EXCEPT !.recs = Append(@, c)]

InsertOne(index, r) ==
  CHOOSE after \in {Added(n, PackedIn(n, r)) : n \in {Interned(index, r.path)}} : TRUE

(* by_lower: where the path of a record is already                         *)
Place(index, c) ==
  {k \in DOMAIN index.recs : index.recs[k].folder = c.folder /\ index.recs[k].name = c.name}

(* upsert_batch: in place of the last record with the path; the records of
   one batch see those before them                                         *)
Put(index, c) ==
  IF Place(index, c) = {} THEN Added(index, c) ELSE [index EXCEPT !.recs[Max(Place(index, c))] = c]

UpsertOne(index, r) ==
  CHOOSE after \in {Put(n, PackedIn(n, r)) : n \in {Interned(index, r.path)}} : TRUE

InsertBatch(index, batch) ==
  LET after[n \in 0 .. Len(batch)] == IF n = 0 THEN index ELSE InsertOne(after[n - 1], batch[n])
  IN after[Len(batch)]

UpsertBatch(index, batch) ==
  LET after[n \in 0 .. Len(batch)] == IF n = 0 THEN index ELSE UpsertOne(after[n - 1], batch[n])
  IN after[Len(batch)]

(* for_each_mut, by a function of the records: the strings stay            *)
ForEach(index, change) ==
  [index EXCEPT !.recs =
     [k \in DOMAIN @ |-> Packed(change[Unpacked(index, @[k])], @[k].folder, @[k].name)]]
=============================================================================
