------------------------------ MODULE Preview ------------------------------
(***************************************************************************)
(* The preview pipeline. Hooks of the UI (ui/src/store/preview.ts) ask for *)
(* the thumbnail of a tile or the large preview of a pane; the commands of *)
(* core/shell/src/preview_runtime.rs answer from the disk cache or order a *)
(* job of PreviewScheduler, whose picture comes back as an event or, while *)
(* the command is still at work, in its answer (core/app/src/preview.rs).  *)
(* A version stands for the size and the time of a file, and a picture is  *)
(* named by the version of the file it shows.                              *)
(***************************************************************************)
EXTENDS PreviewScheduler

CONSTANTS
  Tile,        (* mounted useThumbnail hooks                               *)
  Pane,        (* mounted useLargePreview hooks                            *)
  NoHook,      (* whom a prefetch is for                                   *)
  NoPath,
  MaxRequests, (* bound: commands the UI issues                            *)
  MaxVersion,  (* bound: versions of a file                                *)
  MaxFaults    (* bound: pictures that cannot be drawn or saved            *)

Hook    == Tile \cup Pane
Request == 1 .. MaxRequests
Version == 0 .. MaxVersion   \* 0: there is none
Stored  == {"thumbnail", "large"}
Picture == Path \X Stored    \* the files of the preview cache

ASSUME PreviewConstantsOK ==
  /\ Tile \cap Pane = {}
  /\ NoHook \notin Hook
  /\ NoPath \notin Path
  /\ MaxRequests \in Nat /\ MaxVersion \in Nat \ {0} /\ MaxFaults \in Nat

VARIABLES
  disk,     (* the version of each file                                    *)
  record,   (* the version the index knows                                 *)
  content,  (* what each picture of the cache shows, once it is whole      *)
  shape,    (* whether it is: "whole", "open" while a job writes it anew,
               "torn" when a write of it has failed or two have overlapped *)
  entry,    (* preview_cache: the version each picture is valid for        *)
  drawn,    (* per worker: what its picture shows                          *)
  asked,    (* how many commands there have been                           *)
  request,  (* who asked, for what, knowing which version                  *)
  stage,    (* where each command is                                       *)
  slot,     (* what will be in its answer: LargeSyncSlot.first             *)
  hook,     (* what each hook looks at, waits for and shows                *)
  known,    (* thumbnailCache of the UI                                    *)
  bus,      (* preview.ready events under way                              *)
  faults,   (* how many there have been                                    *)
  broken,   (* history: files a picture of which was not to be had         *)
  missed,   (* history: requests whose job was replaced by one that put
               its picture into the answer to another request              *)
  crossed   (* history: pictures that two jobs were about to save at once,
               each another                                                *)

files    == <<disk, record>>
cache    == <<content, shape, entry>>
commands == <<asked, request, stage, slot>>
ui       == <<hook, known>>
ghost    == <<broken, missed, crossed>>
vars     == <<scheduler, files, cache, drawn, commands, ui, bus, faults, ghost>>

Blank    == [quality |-> "none", version |-> 0]
Draft(v) == [quality |-> "draft", version |-> v]
Sharp(v) == [quality |-> "sharp", version |-> v]
Image    == {Blank} \cup {Draft(v) : v \in Version} \cup {Sharp(v) : v \in Version}

(* a hook that does not wait                                               *)
Still(p, image) == [path |-> p, request |-> 0, shows |-> image, listens |-> FALSE]
Off == Still(NoPath, Blank)

(* a command and the task it submits                                       *)
Call(h, p) == [hook |-> h, path |-> p, version |-> record[p]]
NewTask(r, kind) ==
  [path |-> request[r].path, kind |-> kind, version |-> request[r].version, request |-> r]

-----------------------------------------------------------------------------
(* The disk cache.                                                         *)

(* get_valid_preview_path                                                  *)
Valid(pic, version) == content[pic] # 0 /\ entry[pic] = version

(* What is read of a picture; of one that is not whole, nothing to look at *)
Seen(pic) == IF shape[pic] = "whole" THEN content[pic] ELSE 0

(* Thumbnails and prefetched thumbnails are the same file.                 *)
Goal(t) == <<t.path, IF t.kind = "large" THEN "large" ELSE "thumbnail">>

Saving(w) == at[w] \in {"write", "fill", "enter"}

(* others that are writing the file it writes                              *)
Rivals(w) == {v \in Worker \ {w} : at[v] = "fill" /\ Goal(task[v]) = Goal(task[w])}

Crossing ==
  {Goal(task[w]) : w \in {v \in Worker : Saving(v) /\ \E other \in Worker :
     Saving(other) /\ Goal(task[other]) = Goal(task[v]) /\ drawn[other] # drawn[v]}}

-----------------------------------------------------------------------------
(* The user and the UI.                                                    *)

(* A hook is given a file: it listens, then asks. A tile that knows its
   thumbnail does not ask again.                                           *)
Look(h, p) ==
  /\ hook[h].path # p
  /\ ~stop
  /\ ~(h \in Tile /\ known[p] # Blank)
  /\ asked < MaxRequests
  /\ asked' = asked + 1
  /\ hook' = [hook EXCEPT ![h] =
                [path |-> p, request |-> asked', shows |-> known[p], listens |-> TRUE]]
  /\ request' = [request EXCEPT ![asked'] = Call(h, p)]
  /\ stage' = [stage EXCEPT ![asked'] = "lookup"]
  /\ UNCHANGED <<scheduler, files, cache, drawn, slot, known, bus, faults, ghost>>

LookAgain(h, p) ==
  /\ hook[h].path # p
  /\ h \in Tile
  /\ known[p] # Blank
  /\ hook' = [hook EXCEPT ![h] = Still(p, known[p])]
  /\ UNCHANGED <<scheduler, files, cache, drawn, commands, known, bus, faults, ghost>>

LookAway(h) ==
  /\ hook[h].path # NoPath
  /\ hook' = [hook EXCEPT ![h] = Off]
  /\ UNCHANGED <<scheduler, files, cache, drawn, commands, known, bus, faults, ghost>>

Edit(p) ==
  /\ disk[p] < MaxVersion
  /\ disk' = [disk EXCEPT ![p] = @ + 1]
  /\ UNCHANGED <<scheduler, record, cache, drawn, commands, ui, bus, faults, ghost>>

Rescan(p) ==
  /\ record[p] # disk[p]
  /\ record' = [record EXCEPT ![p] = disk[p]]
  /\ UNCHANGED <<scheduler, disk, cache, drawn, commands, ui, bus, faults, ghost>>

(* what a hook becomes that shows an image                                 *)
Showing(h, image, listens) ==
  [path |-> hook[h].path, request |-> hook[h].request, shows |-> image, listens |-> listens]

(* The answer to a command, unless its hook has moved on. One straight
   from the cache ends the waiting.                                        *)
Answer(r) ==
  LET h == request[r].hook
      p == request[r].path
  IN
  /\ stage[r] \in {"hit", "reply"}
  /\ stage' = [stage EXCEPT ![r] = "done"]
  /\ slot' = [slot EXCEPT ![r] = Blank]
  /\ IF hook[h].request # r THEN UNCHANGED ui
     ELSE /\ hook' = [hook EXCEPT ![h] =
               Showing(h, IF slot[r] = Blank THEN hook[h].shows ELSE slot[r],
                       hook[h].listens /\ stage[r] = "reply")]
          /\ known' = IF h \in Tile /\ slot[r] # Blank THEN [known EXCEPT ![p] = slot[r]] ELSE known
  /\ UNCHANGED <<scheduler, files, cache, drawn, asked, request, bus, faults, ghost>>

(* An event goes to all that wait for something of its path. A tile takes
   any picture and is content, a pane is content with a sharp one.         *)
Hears(h, e) == hook[h].listens /\ hook[h].path = e.path

AfterEvent(h, e) ==
  IF h \in Tile \/ e.image.quality = "sharp"
  THEN Showing(h, e.image, FALSE)
  ELSE Showing(h, IF hook[h].shows = Blank THEN e.image ELSE hook[h].shows, TRUE)

Deliver ==
  /\ bus # <<>>
  /\ LET e == Head(bus) IN
     /\ hook' = [h \in Hook |-> IF Hears(h, e) THEN AfterEvent(h, e) ELSE hook[h]]
     /\ known' = IF \E h \in Hook : Hears(h, e) /\ (h \in Tile \/ e.image.quality = "draft")
                 THEN [known EXCEPT ![e.path] = e.image] ELSE known
  /\ bus' = Tail(bus)
  /\ UNCHANGED <<scheduler, files, cache, drawn, commands, faults, ghost>>

-----------------------------------------------------------------------------
(* The commands preview.thumbnail, preview.large and preview.prefetch.     *)

ForTile(r) == request[r].hook \in Tile

(* The look into the cache. The slot of a pane takes the draft on the way. *)
Lookup(r) ==
  LET p == request[r].path
      thumbnail == Valid(<<p, "thumbnail">>, request[r].version)
      large     == ~ForTile(r) /\ Valid(<<p, "large">>, request[r].version)
  IN
  /\ stage[r] = "lookup"
  /\ slot' = [slot EXCEPT ![r] =
       IF large THEN Sharp(Seen(<<p, "large">>))
       ELSE IF thumbnail THEN Draft(Seen(<<p, "thumbnail">>)) ELSE Blank]
  /\ stage' = [stage EXCEPT ![r] = IF large \/ (ForTile(r) /\ thumbnail) THEN "hit" ELSE "order"]
  /\ UNCHANGED <<scheduler, files, cache, drawn, asked, request, ui, bus, faults, ghost>>

(* The answer for a tile is ready; that for a pane is still open.          *)
Order(r) ==
  /\ stage[r] = "order"
  /\ SubmitJob(NewTask(r, IF ForTile(r) THEN "thumbnail" ELSE "large"))
  /\ stage' = [stage EXCEPT ![r] = IF ForTile(r) THEN "reply" ELSE "open"]
  /\ UNCHANGED <<files, cache, drawn, asked, request, slot, ui, bus, faults, ghost>>

(* preview_large seals the slot and takes what is in it.                   *)
Seal(r) ==
  /\ stage[r] = "open"
  /\ stage' = [stage EXCEPT ![r] = "reply"]
  /\ UNCHANGED <<scheduler, files, cache, drawn, asked, request, slot, ui, bus, faults, ghost>>

(* prefetch_from_motion, for one of the tiles ahead: the cache and the
   queue are looked into, then the job is submitted.                       *)
Prefetch(p) ==
  /\ asked < MaxRequests
  /\ ~stop
  /\ ~Valid(<<p, "thumbnail">>, record[p])
  /\ ~QueuedOrRunning(p)
  /\ asked' = asked + 1
  /\ request' = [request EXCEPT ![asked'] = Call(NoHook, p)]
  /\ stage' = [stage EXCEPT ![asked'] = "ahead"]
  /\ UNCHANGED <<scheduler, files, cache, drawn, slot, ui, bus, faults, ghost>>

SubmitAhead(r) ==
  /\ stage[r] = "ahead"
  /\ SubmitJob(NewTask(r, "prefetch"))
  /\ stage' = [stage EXCEPT ![r] = "done"]
  /\ UNCHANGED <<files, cache, drawn, asked, request, slot, ui, bus, faults, ghost>>

-----------------------------------------------------------------------------
(* The jobs.                                                               *)

Goto(w, place) ==
  at' = [at EXCEPT ![w] = place] /\ UNCHANGED <<pending, running, task, cancelled, stop>>

Fault == faults < MaxFaults /\ faults' = faults + 1

Fails(w) == Fault /\ broken' = broken \cup {task[w].path} /\ Goto(w, "end")

(* The token is looked at before and after the picture is drawn.           *)
GiveUp(w) ==
  /\ at[w] \in {"draw", "write"}
  /\ w \in cancelled
  /\ Goto(w, "end")
  /\ UNCHANGED <<files, cache, drawn, commands, ui, bus, faults, ghost>>

(* generate_from_chain                                                     *)
Draw(w) ==
  /\ at[w] = "draw"
  /\ drawn' = [drawn EXCEPT ![w] = disk[task[w].path]]
  /\ Goto(w, "write")
  /\ crossed' = crossed \cup Crossing'
  /\ UNCHANGED <<files, cache, commands, ui, bus, faults, broken, missed>>

(* ... no source has a picture, or none that can be encoded                *)
DrawFails(w) ==
  /\ at[w] = "draw"
  /\ Fails(w)
  /\ UNCHANGED <<files, cache, drawn, commands, ui, bus, missed, crossed>>

(* save_preview: the file is emptied where it lies and written anew, then
   comes the entry. Jobs that write it at once may draw it in other sizes,
   so that what they leave need not be whole.                              *)
OpenPicture(w) ==
  /\ at[w] = "write"
  /\ shape' = [shape EXCEPT ![Goal(task[w])] = IF Rivals(w) = {} THEN "open" ELSE "torn"]
  /\ Goto(w, "fill")
  /\ UNCHANGED <<files, content, entry, drawn, commands, ui, bus, faults, ghost>>

Shapes(w) ==
  LET now == shape[Goal(task[w])] IN
  IF Rivals(w) # {} THEN {now} ELSE IF now = "open" THEN {"whole"} ELSE {"whole", "torn"}

WritePicture(w) ==
  /\ at[w] = "fill"
  /\ content' = [content EXCEPT ![Goal(task[w])] = drawn[w]]
  /\ \E is \in Shapes(w) : shape' = [shape EXCEPT ![Goal(task[w])] = is]
  /\ Goto(w, "enter")
  /\ UNCHANGED <<files, entry, drawn, commands, ui, bus, faults, ghost>>

(* faulty variant: the entry is dated by the file of that moment           *)
DatedNow(w) == disk[task[w].path]

Dated(w) == task[w].version

PutEntry(w) ==
  /\ at[w] = "enter"
  /\ entry' = [entry EXCEPT ![Goal(task[w])] = Dated(w)]
  /\ Goto(w, IF task[w].kind = "prefetch" THEN "end" ELSE "show")
  /\ UNCHANGED <<files, content, shape, drawn, commands, ui, bus, faults, ghost>>

(* Any of it fails, and what was written of the file stays. A hook gets the
   picture all the same, unless it is large and there is no room for it
   among the temporary files either.                                       *)
SaveFails(w) ==
  /\ Saving(w)
  /\ \/ /\ Fault
        /\ Goto(w, IF task[w].kind = "prefetch" THEN "end" ELSE "spare")
        /\ UNCHANGED broken
     \/ task[w].kind = "large" /\ Fails(w)
  /\ shape' = IF at[w] = "fill" THEN [shape EXCEPT ![Goal(task[w])] = "torn"] ELSE shape
  /\ UNCHANGED <<files, content, entry, drawn, commands, ui, bus, missed, crossed>>

(* What a job delivers: a large picture is read back from where it is.     *)
Product(w) ==
  IF task[w].kind = "thumbnail" THEN Draft(drawn[w])
  ELSE IF at[w] = "spare" THEN Sharp(drawn[w])
  ELSE Sharp(Seen(<<task[w].path, "large">>))

(* faulty variant: on_delivery looks at the slot but not at the seal       *)
UnlessFilled(r) == slot[r] = Blank /\ request[r].hook \in Pane

Slotted(r) == stage[r] = "open" /\ slot[r] = Blank

(* requests of others who wait for this file and whose job is gone         *)
Bereft(w) ==
  {r \in Request \ {task[w].request} :
     /\ stage[r] \notin {"lookup", "order"}
     /\ \E h \in Pane : hook[h].request = r /\ hook[h].path = task[w].path /\ hook[h].listens
     /\ ~\E i \in DOMAIN pending : pending[i].request = r
     /\ ~\E v \in Worker : task[v] # NoTask /\ task[v].request = r}

Show(w) ==
  LET t == task[w] IN
  /\ at[w] \in {"show", "spare"}
  /\ IF t.kind = "large" /\ Slotted(t.request)
     THEN /\ slot' = [slot EXCEPT ![t.request] = Product(w)]
          /\ missed' = missed \cup Bereft(w)
          /\ UNCHANGED bus
     ELSE /\ bus' = Append(bus, [path |-> t.path, image |-> Product(w)])
          /\ UNCHANGED <<slot, missed>>
  /\ Goto(w, "end")
  /\ UNCHANGED <<files, cache, drawn, asked, request, stage, ui, faults, broken, crossed>>

-----------------------------------------------------------------------------
(* The specification.                                                      *)

OfScheduler == UNCHANGED <<files, cache, drawn, commands, ui, bus, faults, ghost>>

CommandStep(r) == Lookup(r) \/ Order(r) \/ Seal(r) \/ Answer(r) \/ SubmitAhead(r)

JobStep(w) ==
  \/ GiveUp(w) \/ Draw(w) \/ DrawFails(w) \/ OpenPicture(w) \/ WritePicture(w)
  \/ PutEntry(w) \/ SaveFails(w) \/ Show(w)

(* The job is over and its picture forgotten.                              *)
Return(w) ==
  /\ Finish(w)
  /\ drawn' = [drawn EXCEPT ![w] = 0]
  /\ UNCHANGED <<files, cache, commands, ui, bus, faults, ghost>>

WorkerStep(w) ==
  (OfScheduler /\ (Take(w) \/ Sleep(w) \/ Quit(w))) \/ JobStep(w) \/ Return(w)

(* The application ends. The scheduler is dropped with the last reference
   to it, so no command is about to use it, and the windows are gone.      *)
Exit ==
  /\ \A r \in Request : stage[r] \notin {"lookup", "order", "ahead"}
  /\ Drop
  /\ stage' = [r \in Request |-> "done"]
  /\ slot' = [r \in Request |-> Blank]
  /\ hook' = [h \in Hook |-> Off]
  /\ known' = [p \in Path |-> Blank]
  /\ bus' = <<>>
  /\ UNCHANGED <<files, cache, drawn, asked, request, faults, ghost>>

User ==
  \/ \E h \in Hook : LookAway(h) \/ \E p \in Path : Look(h, p) \/ LookAgain(h, p)
  \/ \E p \in Path : Edit(p) \/ Rescan(p) \/ Prefetch(p)

Next ==
  \/ User
  \/ \E r \in Request : CommandStep(r)
  \/ Deliver
  \/ \E w \in Worker : WorkerStep(w) \/ (OfScheduler /\ Wake(w))
  \/ Exit

Init ==
  /\ SchedulerInit
  /\ disk = [p \in Path |-> 1]
  /\ record = disk
  /\ content = [pic \in Picture |-> 0]
  /\ shape = [pic \in Picture |-> "whole"]
  /\ entry = [pic \in Picture |-> 0]
  /\ drawn = [w \in Worker |-> 0]
  /\ asked = 0
  /\ request = [r \in Request |-> [hook |-> NoHook, path |-> NoPath, version |-> 0]]
  /\ stage = [r \in Request |-> "new"]
  /\ slot = [r \in Request |-> Blank]
  /\ hook = [h \in Hook |-> Off]
  /\ known = [p \in Path |-> Blank]
  /\ bus = <<>>
  /\ faults = 0
  /\ broken = {} /\ missed = {} /\ crossed = {}

Spec == Init /\ [][Next]_vars

(* Threads run, drawing and saving end, and so do commands and events.     *)
Fairness ==
  /\ \A w \in Worker : WF_vars(WorkerStep(w))
  /\ \A r \in Request : WF_vars(CommandStep(r))
  /\ WF_vars(Deliver)

FairSpec == Spec /\ Fairness

-----------------------------------------------------------------------------
(* Properties.                                                             *)

(* The types of all variables.                                             *)
TypeOK ==
  /\ SchedulerTypeOK
  /\ disk \in [Path -> Version \ {0}] /\ record \in [Path -> Version \ {0}]
  /\ content \in [Picture -> Version] /\ entry \in [Picture -> Version]
  /\ shape \in [Picture -> {"whole", "open", "torn"}]
  /\ drawn \in [Worker -> Version]
  /\ asked \in 0 .. MaxRequests
  /\ request \in [Request -> [hook : Hook \cup {NoHook}, path : Path \cup {NoPath}, version : Version]]
  /\ stage \in [Request -> {"new", "lookup", "order", "open", "hit", "reply", "ahead", "done"}]
  /\ slot \in [Request -> Image]
  /\ hook \in [Hook -> [path : Path \cup {NoPath}, request : 0 .. MaxRequests, shows : Image,
                        listens : BOOLEAN]]
  /\ known \in [Path -> Image]
  /\ bus \in Seq([path : Path, image : Image])
  /\ faults \in 0 .. MaxFaults
  /\ broken \subseteq Path /\ missed \subseteq Request /\ crossed \subseteq Picture

(* T-068: what the cache takes to be the picture of a file as it is now is
   one, whatever was edited or rescanned while pictures were drawn and
   saved: unless two jobs saved at once what they had drawn of different
   versions. If it is being written anew, then by a job at work. Of what a
   failed or an overlapping write has torn nothing is claimed: the entry of
   an earlier write stays, and get_valid_preview_path takes the file as it
   is.                                                                     *)
TrueUnlessCrossed ==
  \A pic \in Picture \ crossed :
    Valid(pic, disk[pic[1]]) /\ shape[pic] # "torn" =>
      /\ content[pic] = disk[pic[1]]
      /\ shape[pic] = "open" => \E w \in Worker : at[w] = "fill" /\ Goal(task[w]) = pic

(* Whoever waits is served: a tile with a picture, a pane with a sharp
   one, torn or not, while it looks at the file and the application runs; unless there
   was no picture to be had, or the one for it went to somebody else.      *)
Served(h) ==
  IF h \in Tile THEN hook[h].shows # Blank ELSE hook[h].shows.quality = "sharp"

Hopes(h) ==
  /\ hook[h].listens
  /\ ~Served(h)
  /\ hook[h].path \notin broken
  /\ hook[h].request \notin missed

EveryHookServed == \A h \in Hook : Hopes(h) ~> ~Hopes(h)

(* Drop: workers are joined, so dropping the scheduler waits for all of
   them to leave, sleepers included.                                       *)
ShutdownEnds == stop ~> \A w \in Worker : at[w] = "gone"
=============================================================================
