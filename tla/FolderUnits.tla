---------------------------- MODULE FolderUnits ----------------------------
(***************************************************************************)
(* Folders offered as one candidate each (app/src/detectors): empty,       *)
(* nearly empty and too deep ones from the list of all folders             *)
(* (empty_folders.rs), and what package managers, compilers and Unity      *)
(* leave behind, from the paths of the files alone (node_modules.rs,       *)
(* build_artifacts.rs, unity.rs, project_activity.rs).                     *)
(***************************************************************************)
EXTENDS Detectors

CONSTANTS
  Ignorable,     (* desktop.ini and the like                               *)
  InactiveDays   (* after which a project counts as abandoned              *)

ASSUME InactiveOK == InactiveDays \in Nat

(* faulty variant: files of one size are counted once                      *)
TotalOfSizes(recs, at) == MapThenSumSet(LAMBDA n : n, {recs[k].size : k \in at})

TotalSize(recs, at) == MapThenSumSet(LAMBDA k : recs[k].size, at)

(* build_folder_unit, make_unit; the id is made of a namespace and a hash
   of the path, taken to tell paths apart                                  *)
Unit(namespace, path, size, cat, safety) ==
  [id |-> <<namespace, path>>, path |-> path, size |-> size, used |-> 0, changed |-> 0,
   unit |-> "folder", cat |-> cat, safety |-> safety, decision |-> "undecided"]

-----------------------------------------------------------------------------
(* Empty, sparse and deep folders.                                         *)

(* faulty variant: only what lies in the folder itself                     *)
HeldDirectly(dirs, recs, d) ==
  {k \in DOMAIN recs : /\ IsFile(recs[k]) /\ Name(recs[k].path) \notin Ignorable
                       /\ Folder(recs[k].path) = d}

(* The files a folder is charged with, at any depth: each is counted where
   it lies and passed on from parent to parent as far as these are listed. *)
Held(dirs, recs, d) ==
  {k \in DOMAIN recs : /\ IsFile(recs[k]) /\ Name(recs[k].path) \notin Ignorable
                       /\ Under(Folder(recs[k].path), d)
                       /\ Way(d, Folder(recs[k].path)) \subseteq dirs}

AtLeastOne(n) == IF n < 1 THEN 1 ELSE n

Class(dirs, recs, s, d) ==
  LET files == Cardinality(Held(dirs, recs, d)) IN
  IF IsVolume(d) THEN "none"
  ELSE IF files = 0 THEN "empty"
  ELSE IF files <= AtLeastOne(s.sparse) THEN "sparse"
  ELSE IF Len(d) - 1 > AtLeastOne(s.deep) THEN "deep"
  ELSE "none"

CategoryOf == [empty |-> "empty_folders", sparse |-> "sparse_folders", deep |-> "deep_paths"]

(* detect_folder_units: of a branch of folders of one class the topmost    *)
DetectFolderUnits(dirs, recs, s) ==
  LET class  == [d \in dirs |-> Class(dirs, recs, s, d)]
      top(d) == Folder(d) \in dirs => class[Folder(d)] # class[d]
  IN {Unit(class[d], d, TotalSize(recs, Held(dirs, recs, d)), CategoryOf[class[d]], "review") :
        d \in {f \in dirs : class[f] # "none" /\ top(f)}}

-----------------------------------------------------------------------------
(* What tools can make again.                                              *)

Artifacts == {"node_modules", "target", "dist", "build", "obj", "Library", "Temp", ".git"}

(* an artifact's folder on the way down from the root of a project         *)
ThroughArtifact(path, root) == \E p \in Way(root, path) : Name(p) \in Artifacts

ActivityDate(r) == IF r.changed # 0 THEN r.changed ELSE r.used

(* A project is active if one of its files, artifacts aside, has changed
   lately; without any date it is not.                                     *)
IsActive(root, recs) ==
  \E k \in DOMAIN recs :
    LET r == recs[k] IN
    /\ IsFile(r) /\ Under(r.path, root) /\ ~ThroughArtifact(r.path, root)
    /\ ActivityDate(r) # 0 /\ Age(ActivityDate(r)) < InactiveDays

(* node_modules.rs: the outermost, next to a package.json                  *)
ModulesRoot(paths, path) ==
  LET root == Outermost(path, {"node_modules"}) IN
  IF root # NoPath /\ Append(Folder(root), "package.json") \in paths THEN root ELSE NoPath

(* flags_from_file_name, MarkerFlags::confirms; app.csproj stands for every
   .csproj, .fsproj and .sln, build.gradle for the four of Gradle          *)
Markers ==
  [target |-> {"Cargo.toml"},
   dist   |-> {"package.json"},
   build  |-> {"package.json", "CMakeLists.txt", "build.gradle", "pom.xml", "Cargo.toml"},
   obj    |-> {"app.csproj"}]

(* build_artifacts.rs: the outermost of the four names, and only that one,
   next to a marker of its kind                                            *)
BuildRoot(paths, path) ==
  LET root == Outermost(path, DOMAIN Markers) IN
  IF root # NoPath /\ \E m \in Markers[Name(root)] : Append(Folder(root), m) \in paths
  THEN root ELSE NoPath

(* unity.rs: where ProjectSettings\ProjectVersion.txt is, or any file below
   a ProjectSettings that does not lie in the root of its volume. (Assets
   counts only where ProjectSettings has counted already.)                 *)
UnityProjects(paths) ==
  LET versioned == {p \in paths : Len(p) > 2 /\ Name(p) = "ProjectVersion.txt"
                                             /\ Name(Folder(p)) = "ProjectSettings"}
      settings  == {Outermost(p, {"ProjectSettings"}) : p \in paths \ versioned} \ {NoPath}
  IN {Folder(Folder(p)) : p \in versioned} \cup {Folder(f) : f \in {g \in settings : Len(g) > 2}}

UnityRoot(paths, path) ==
  LET root == Outermost(path, {"Library", "Temp", "obj"}) IN
  IF root # NoPath /\ Folder(root) \in UnityProjects(paths) THEN root ELSE NoPath

(* aggregate_units of each of the three: one unit for all the files with
   the same confirmed root that the user does not keep                     *)
AggregateUnits(namespace, confirmed, recs) ==
  LET counted == {k \in DOMAIN recs : /\ IsFile(recs[k]) /\ recs[k].decision # "keep"
                                      /\ confirmed[recs[k].path] # NoPath}
      root    == [k \in counted |-> confirmed[recs[k].path]]
  IN {Unit(namespace, f, TotalSize(recs, {k \in counted : root[k] = f}), "dev_artifacts",
           IF IsActive(Folder(f), recs) THEN "review" ELSE "safe") : f \in Range(root)}

(* run_folder_units_pass: the groups, in the order they are published      *)
FolderGroups(dirs, recs, s) ==
  IF ~s.dev THEN <<DetectFolderUnits(dirs, recs, s)>>
  ELSE LET paths == {recs[k].path : k \in DOMAIN recs} IN
       <<DetectFolderUnits(dirs, recs, s),
         AggregateUnits("node_modules", [p \in paths |-> ModulesRoot(paths, p)], recs),
         AggregateUnits("build", [p \in paths |-> BuildRoot(paths, p)], recs),
         AggregateUnits("unity", [p \in paths |-> UnityRoot(paths, p)], recs)>>
=============================================================================
