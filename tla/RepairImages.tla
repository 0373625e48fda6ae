----------------------------- MODULE RepairImages -----------------------------
(***************************************************************************)
(* The directory of one repair of one vehicle, the index rows of that      *)
(* repair and its images, and everything that changes them: requests that  *)
(* create the repair, upload, comment and delete images or retire (soft-   *)
(* delete) the vehicle, the cleanup that purges the vehicle's directory    *)
(* file by file, and the watcher's flush threads.                          *)
(*                                                                         *)
(* There is no transaction around any of these: each file operation and    *)
(* each index call is a step.  The watcher ignores thumbnails; a comment   *)
(* stands under the key of its image, because both keys lead to the same   *)
(* listing of the directory; the key of the vehicle's sidecar is left to   *)
(* VehicleLifecycle, since its handler touches no row of this module.      *)
(*                                                                         *)
(* Other vehicles come in through the scans that read every _repair.json   *)
(* of the storage: when the purge of another vehicle deletes one that such *)
(* a scan has listed, the scan raises.                                     *)
(*                                                                         *)
(* UnlinkUnheard, RankVehicleFirst, RemoveLeavingImages, DropWithoutReset, *)
(* MintEarly are mutated forms of the definition after them, which the     *)
(* properties must tell from the code; the specification never uses them.  *)
(***************************************************************************)
EXTENDS Naturals, FiniteSets

CONSTANTS
  Images,     \* image ids, in the order in which they are minted
  Bodies,     \* image contents after processing
  Uploads,    \* what users upload: contents, with a comment or without, under a
              \* name with an extension that listings know or one that they do not
  MaxSeq,     \* the largest sequence number of a file name: 9999
  Workers,    \* threads that serve requests
  Flushers,   \* timer threads that run on_flush
  Touched,    \* bound: the images that users comment and delete
  MaxEvents,  \* bound on the number of crashes and updates, together
  MaxEdited,  \* bound on the number of images where there are updates
  None

\* ULIDs are numbers of 128 bits.
ASSUME ImagesAssumption ==
  Images \subseteq Nat /\ IsFiniteSet(Images) /\ MaxSeq \in Nat \ {0}
  /\ Touched \subseteq Images
ASSUME UploadsAssumption ==
  /\ Uploads \subseteq [body : Bodies, noted : BOOLEAN, listed : BOOLEAN]
  /\ None \notin Bodies

\* Files and index rows are named alike.
Image(i) == <<"image", i>>
Odd(i) == <<"odd", i>>          \* an image that is_image_key does not recognise
Thumb(i) == <<"thumb", i>>
Note(i) == <<"note", i>>
Repair == <<"repair", None>>
Vehicle == <<"vehicle", None>>

Of(kinds) == kinds \X Images
Files == Of({"image", "odd", "thumb", "note"}) \union {Repair, Vehicle}
Rows == Of({"image"}) \union {Repair}
Watched == Of({"image"}) \union {Repair}

VARIABLES
  tree,       \* the files that exist
  stage,      \* what the vehicle's sidecar says: live, deleted or, later, expired
  num,        \* num[i]: the sequence number in the file name of i
  body,       \* body[i]: the content of i, None before i is minted
  rows,       \* the rows of the index
  req,        \* req[w]: the request that worker w serves
  edit,       \* an update of the vehicle has read it and not yet written it
  edits,      \* how many updates there were
  sweep,      \* the files the running purge has still to delete
  sweeping,   \* the purge is deleting "files", then "rows", or does nothing
  pending, batch, look, crashes

disk == <<tree, stage, num, body>>
others == <<edit, edits, sweep, sweeping>>
watcher == <<pending, batch, look>>
vars == <<tree, stage, num, body, rows, req, edit, edits, sweep, sweeping, pending, batch, look, crashes>>

W == INSTANCE Batcher WITH Keys <- Watched

Idle == [op |-> "none", i |-> None, body |-> None, noted |-> FALSE, listed |-> TRUE,
         pc |-> "idle", left |-> {}]
NoLook == [key |-> None, pc |-> "none", found |-> {}]

TypeOK ==
  /\ tree \subseteq Files /\ rows \subseteq Rows
  /\ stage \in {"live", "deleted", "expired"}
  /\ num \in [Images -> 0..MaxSeq]
  /\ body \in [Images -> Bodies \union {None}]
  /\ \A i \in Images : num[i] # 0 => body[i] # None
  /\ \A k \in tree \intersect Of({"image", "odd", "thumb"}) : num[k[2]] # 0
  /\ req \in [Workers ->
       [op : {"none", "repair", "upload", "comment", "delete", "retire"},
        i : Images \union {None}, body : Bodies \union {None}, noted : BOOLEAN, listed : BOOLEAN,
        pc : {"idle", "repair", "list", "compare", "count", "image", "thumb", "note",
              "unlink", "unthumb", "unnote", "unrow", "retire", "unrows"},
        left : SUBSET Images]]
  /\ edit \in BOOLEAN /\ edits \in Nat
  /\ sweep \subseteq Files
  /\ sweeping \in {"no", "files", "rows"}
  /\ sweep # {} => sweeping = "files"
  /\ W!BatcherTypeOK
  /\ look \in [Flushers -> [key : Watched \union {None},
                            pc : {"none", "list", "raised", "read", "apply"}, found : SUBSET Rows]]
  /\ \A f \in Flushers : look[f].pc # "none" => look[f].key \in batch[f]
  /\ crashes \in Nat

Init ==
  /\ tree = {Vehicle} /\ stage = "live"
  /\ num = [i \in Images |-> 0]
  /\ body = [i \in Images |-> None]
  /\ rows = {}
  /\ req = [w \in Workers |-> Idle]
  /\ edit = FALSE /\ edits = 0
  /\ sweep = {} /\ sweeping = "no"
  /\ W!Init
  /\ look = [f \in Flushers |-> NoLook]
  /\ crashes = 0

Minted == {i \in Images : body[i] # None}
Stored == {i \in Images : Image(i) \in tree}
Live == stage = "live" /\ Vehicle \in tree

\* A file is written or deleted; the watcher hears of it.
Hears(k) ==
  CASE k \in Watched -> W!Report(k)
    [] k[1] = "note" -> W!Report(Image(k[2]))
    [] OTHER -> UNCHANGED <<pending, batch>>
Create(k) == tree' = tree \union {k} /\ Hears(k)
UnlinkUnheard(k) ==
  /\ tree' = tree \ {k}
  /\ UNCHANGED <<pending, batch>>

Unlink(k) ==
  /\ tree' = tree \ {k}
  /\ IF k \in tree THEN Hears(k) ELSE UNCHANGED <<pending, batch>>

Goto(w, pc) == req' = [req EXCEPT ![w].pc = pc]
End(w) == req' = [req EXCEPT ![w] = Idle]

------------------------------------------------------------------------------
(* Requests start *)

Ask(w, r) ==
  /\ req[w] = Idle
  /\ req' = [req EXCEPT ![w] = r]
  /\ UNCHANGED <<disk, rows, others, watcher, crashes>>

\* CreateRepairUseCase: the vehicle exists and the directory has no sidecar.
AskRepair(w) ==
  /\ Live /\ Repair \notin tree
  /\ Ask(w, [Idle EXCEPT !.op = "repair", !.pc = "repair"])

\* The use case finds the repair.  The route has found some live vehicle, but
\* nothing asks whether the repair is one of its repairs.
AskUpload(w, u) ==
  /\ Repair \in tree
  /\ Ask(w, [Idle EXCEPT !.op = "upload", !.body = u.body, !.noted = u.noted,
                         !.listed = u.listed, !.pc = "list"])

\* update_comment has found the image; the comment is set or cleared.
AskComment(w, i, noted) ==
  /\ i \in Stored
  /\ Ask(w, [Idle EXCEPT !.op = "comment", !.i = i,
                         !.pc = IF noted THEN "note" ELSE "unnote"])

\* delete has found the image.
AskDelete(w, i) ==
  /\ i \in Stored
  /\ Ask(w, [Idle EXCEPT !.op = "delete", !.i = i, !.pc = "unlink"])

\* SoftDeleteVehicleUseCase, as far as this directory is concerned.
AskRetire(w) ==
  /\ Live
  /\ Ask(w, [Idle EXCEPT !.op = "retire", !.pc = "retire"])

------------------------------------------------------------------------------
(* Requests proceed *)

WriteRepair(w) ==
  /\ req[w].pc = "repair"
  /\ Create(Repair)
  /\ End(w)
  /\ UNCHANGED <<stage, num, body, rows, others, look, crashes>>

\* The duplicate check finds the repair, with a scan that may raise, and lists
\* its images first ...
ListImages(w) ==
  /\ req[w].pc = "list"
  /\ \/ req' = [req EXCEPT ![w] = [@ EXCEPT !.pc = "compare", !.left = Stored]]
     \/ End(w)
  /\ UNCHANGED <<disk, rows, others, watcher, crashes>>

\* ... and then compares one by one, in the order of their numbers.
\* DuplicateImage ends the upload, and so does the FileNotFoundError of an
\* image that is gone by now.
Compare(w) ==
  /\ req[w].pc = "compare"
  /\ \E i \in req[w].left :
       /\ \A j \in req[w].left : num[i] <= num[j]
       /\ IF i \notin Stored \/ body[i] = req[w].body
            THEN End(w)
            ELSE req' = [req EXCEPT ![w].left = @ \ {i}]
  /\ UNCHANGED <<disk, rows, others, watcher, crashes>>

MintEarly(w) ==
  /\ req[w].pc = "compare"
  /\ \E i \in Images :
       /\ body[i] = None
       /\ \A j \in Images : body[j] = None => i <= j
       /\ body' = [body EXCEPT ![i] = req[w].body]
       /\ req' = [req EXCEPT ![w] = [@ EXCEPT !.i = i, !.pc = "count"]]
  /\ UNCHANGED <<tree, stage, num, rows, others, watcher, crashes>>

\* Nothing equal was found: the image gets its ULID.
Mint(w) ==
  /\ req[w].pc = "compare" /\ req[w].left = {}
  /\ edits = 0 \/ Cardinality(Minted) < MaxEdited
  /\ \E i \in Images :
       /\ body[i] = None
       /\ \A j \in Images : body[j] = None => i <= j
       /\ body' = [body EXCEPT ![i] = req[w].body]
       /\ req' = [req EXCEPT ![w] = [@ EXCEPT !.i = i, !.pc = "count"]]
  /\ UNCHANGED <<tree, stage, num, rows, others, watcher, crashes>>

\* save: the sequence number is the number of images plus one.  It ends with
\* RepairNotFound, with the ValueError of image_filename, or when its scan for
\* the repair raises.
Count(w) ==
  /\ req[w].pc = "count"
  /\ LET seq == Cardinality(Stored) + 1 IN
       \/ End(w) /\ UNCHANGED num
       \/ /\ Repair \in tree /\ seq <= MaxSeq
          /\ num' = [num EXCEPT ![req[w].i] = seq]
          /\ Goto(w, "image")
  /\ UNCHANGED <<tree, stage, body, rows, others, watcher, crashes>>

\* The extension is the one of the name that the browser or the mail gave.
WriteImage(w) ==
  /\ req[w].pc = "image"
  /\ Create(IF req[w].listed THEN Image(req[w].i) ELSE Odd(req[w].i))
  /\ Goto(w, "thumb")
  /\ UNCHANGED <<stage, num, body, rows, others, look, crashes>>

WriteThumb(w) ==
  /\ req[w].pc = "thumb"
  /\ Create(Thumb(req[w].i))
  /\ IF req[w].noted THEN Goto(w, "note") ELSE End(w)
  /\ UNCHANGED <<stage, num, body, rows, others, look, crashes>>

\* The last write of an upload with a comment, and the only one of a comment.
WriteNote(w) ==
  /\ req[w].pc = "note"
  /\ Create(Note(req[w].i))
  /\ End(w)
  /\ UNCHANGED <<stage, num, body, rows, others, look, crashes>>

UnlinkImage(w) ==
  /\ req[w].pc = "unlink"
  /\ Unlink(Image(req[w].i))
  /\ Goto(w, "unthumb")
  /\ UNCHANGED <<stage, num, body, rows, others, look, crashes>>

UnlinkThumb(w) ==
  /\ req[w].pc = "unthumb"
  /\ Unlink(Thumb(req[w].i))
  /\ Goto(w, "unnote")
  /\ UNCHANGED <<stage, num, body, rows, others, look, crashes>>

UnlinkNote(w) ==
  /\ req[w].pc = "unnote"
  /\ Unlink(Note(req[w].i))
  /\ IF req[w].op = "delete" THEN Goto(w, "unrow") ELSE End(w)
  /\ UNCHANGED <<stage, num, body, rows, others, look, crashes>>

RemoveRow(w) ==
  /\ req[w].pc = "unrow"
  /\ rows' = rows \ {Image(req[w].i)}
  /\ End(w)
  /\ UNCHANGED <<disk, others, watcher, crashes>>

\* update: the sidecar with a new deleted_at.  Of a sidecar that a purge has
\* deleted it makes a new one, if it was there when update checked ...
WriteRetired(w) ==
  /\ req[w].pc = "retire"
  /\ stage' = "deleted" /\ tree' = tree \union {Vehicle}
  /\ Goto(w, "unrows")
  /\ UNCHANGED <<num, body, rows, others, watcher, crashes>>

\* ... and raises VehicleNotFound if it was not.
RetireGone(w) ==
  /\ req[w].pc = "retire" /\ Vehicle \notin tree
  /\ End(w)
  /\ UNCHANGED <<disk, rows, others, watcher, crashes>>

RemoveLeavingImages == rows' = rows \ {Repair}

\* SearchIndex.remove_vehicle finds the images of a vehicle through the rows
\* of its repairs.
RemoveVehicleRows == rows' = IF Repair \in rows THEN {} ELSE rows

RemoveRetired(w) ==
  /\ req[w].pc = "unrows"
  /\ RemoveVehicleRows
  /\ End(w)
  /\ UNCHANGED <<disk, others, watcher, crashes>>

------------------------------------------------------------------------------
(* Updates of the vehicle, on threads of their own *)

\* UpdateVehicleUseCase reads the live vehicle ...
EditStart ==
  /\ Live /\ ~edit
  /\ edits + crashes < MaxEvents /\ Cardinality(Minted) <= MaxEdited
  /\ edit' = TRUE /\ edits' = edits + 1
  /\ UNCHANGED <<disk, rows, req, sweep, sweeping, watcher, crashes>>

\* ... and writes it without a deleted_at, whatever became of it meanwhile.
EditWrite ==
  /\ edit
  /\ stage' = "live" /\ tree' = tree \union {Vehicle}
  /\ edit' = FALSE
  /\ UNCHANGED <<num, body, rows, req, edits, sweep, sweeping, watcher, crashes>>

\* It is refused, or finds no sidecar any more.
EditEnd ==
  /\ edit
  /\ edit' = FALSE
  /\ UNCHANGED <<disk, rows, req, edits, sweep, sweeping, watcher, crashes>>

------------------------------------------------------------------------------
(* Retention and cleanup *)

Expire ==
  /\ stage = "deleted"
  /\ stage' = "expired"
  /\ UNCHANGED <<tree, num, body, rows, req, others, watcher, crashes>>

\* hard_delete lists the vehicle's files ...
SweepStart ==
  /\ sweeping = "no"
  /\ stage = "expired" /\ Vehicle \in tree
  /\ sweep' = tree /\ sweeping' = "files"
  /\ UNCHANGED <<disk, rows, req, edit, edits, watcher, crashes>>

RankVehicleFirst(k) == IF k = Vehicle THEN 0 ELSE 1

\* ... and deletes them in the order of that list, which is sorted by path:
\* a repair directory before _vehicle.json, and in it the images with their
\* comments by number, then _repair.json, then _thumbs.
Rank(k) ==
  CASE k[1] \in {"image", "odd", "note"} -> num[k[2]]
    [] k[1] = "repair" -> MaxSeq + 1
    [] k[1] = "thumb" -> MaxSeq + 1 + num[k[2]]
    [] k[1] = "vehicle" -> 2 * MaxSeq + 2

SweepFile ==
  /\ \E k \in sweep :
       /\ \A j \in sweep : Rank(k) <= Rank(j)
       /\ Unlink(k)
       /\ sweep' = sweep \ {k}
       /\ sweeping' = IF sweep = {k} THEN "rows" ELSE "files"
  /\ UNCHANGED <<stage, num, body, rows, req, edit, edits, look, crashes>>

SweepRows ==
  /\ sweeping = "rows"
  /\ RemoveVehicleRows
  /\ sweeping' = "no"
  /\ UNCHANGED <<disk, req, edit, edits, sweep, watcher, crashes>>

------------------------------------------------------------------------------
(* Watcher *)

FlushTake(f) ==
  /\ W!Take(f)
  /\ UNCHANGED <<disk, rows, req, others, look, crashes>>

\* _handle_repair and _handle_image give up unless the vehicle is live (and,
\* the first one, the repair's sidecar is there).
Probe(f, k) ==
  /\ look[f] = NoLook
  /\ k \in batch[f]
  /\ IF Live /\ (k = Repair => Repair \in tree)
       THEN look' = [look EXCEPT ![f] = [key |-> k, pc |-> "list", found |-> {}]]
            /\ UNCHANGED <<pending, batch>>
       ELSE W!Handle(f, k) /\ UNCHANGED look
  /\ UNCHANGED <<disk, rows, req, others, crashes>>

DropWithoutReset(f) ==
  /\ W!Handle(f, look[f].key)
  /\ UNCHANGED look

\* The key is done with, or an exception ended its handler.
Drop(f) ==
  /\ W!Handle(f, look[f].key)
  /\ look' = [look EXCEPT ![f] = NoLook]

\* The second one looks for the repair by its id in the whole storage, and may
\* raise on the way; the exception is logged ...
ScanRaises(f) ==
  /\ look[f].pc = "list" /\ look[f].key # Repair
  /\ look' = [look EXCEPT ![f].pc = "raised"]
  /\ UNCHANGED <<disk, rows, req, others, pending, batch, crashes>>

\* ... and the key dropped.
DropRaised(f) ==
  /\ look[f].pc = "raised"
  /\ Drop(f)
  /\ UNCHANGED <<disk, rows, req, others, crashes>>

\* They list the repairs and, the second one, all images of the directory ...
ListDirectory(f) ==
  /\ look[f].pc = "list"
  /\ LET found == IF look[f].key = Repair THEN {Repair} ELSE {Image(i) : i \in Stored} IN
       IF {Repair, Vehicle} \subseteq tree /\ found # {}
         THEN look' = [look EXCEPT ![f] =
                [@ EXCEPT !.found = found, !.pc = IF look[f].key = Repair THEN "apply" ELSE "read"]]
              /\ UNCHANGED <<pending, batch>>
         ELSE Drop(f)
  /\ UNCHANGED <<disk, rows, req, others, crashes>>

\* ... read each image (one that is gone raises, which drops the key) ...
ReadImages(f) ==
  /\ look[f].pc = "read"
  /\ IF look[f].found \subseteq tree
       THEN look' = [look EXCEPT ![f].pc = "apply"] /\ UNCHANGED <<pending, batch>>
       ELSE Drop(f)
  /\ UNCHANGED <<disk, rows, req, others, crashes>>

\* ... and upsert row after row, in the order of the listing.
UpsertRow(f) ==
  /\ look[f].pc = "apply"
  /\ \E r \in look[f].found :
       /\ \A q \in look[f].found : Rank(r) <= Rank(q)
       /\ rows' = rows \union {r}
       /\ IF look[f].found = {r}
            THEN Drop(f)
            ELSE look' = [look EXCEPT ![f].found = @ \ {r}] /\ UNCHANGED <<pending, batch>>
  /\ UNCHANGED <<disk, req, others, crashes>>

\* The process dies and starts again.
Crash ==
  /\ edits + crashes < MaxEvents
  /\ crashes' = crashes + 1
  /\ req' = [w \in Workers |-> Idle]
  /\ edit' = FALSE
  /\ sweep' = {} /\ sweeping' = "no"
  /\ pending' = {} /\ batch' = [f \in Flushers |-> {}]
  /\ look' = [f \in Flushers |-> NoLook]
  /\ UNCHANGED <<disk, rows, edits>>

------------------------------------------------------------------------------

NewRequest(w) ==
  \/ AskRepair(w)
  \/ \E u \in Uploads : AskUpload(w, u)
  \/ \E i \in Touched, noted \in BOOLEAN : AskComment(w, i, noted)
  \/ \E i \in Touched : AskDelete(w, i)
  \/ AskRetire(w)

RequestStep(w) ==
  \/ WriteRepair(w)
  \/ ListImages(w) \/ Compare(w) \/ Mint(w) \/ Count(w)
  \/ WriteImage(w) \/ WriteThumb(w) \/ WriteNote(w)
  \/ UnlinkImage(w) \/ UnlinkThumb(w) \/ UnlinkNote(w) \/ RemoveRow(w)
  \/ WriteRetired(w) \/ RetireGone(w) \/ RemoveRetired(w)

FlushStep(f) ==
  \/ FlushTake(f)
  \/ \E k \in Watched : Probe(f, k)
  \/ ScanRaises(f) \/ DropRaised(f)
  \/ ListDirectory(f)
  \/ ReadImages(f)
  \/ UpsertRow(f)

Next ==
  \/ \E w \in Workers : NewRequest(w) \/ RequestStep(w)
  \/ EditStart \/ EditWrite \/ EditEnd
  \/ Expire \/ SweepStart \/ SweepFile \/ SweepRows
  \/ \E f \in Flushers : FlushStep(f)
  \/ Crash

Spec == Init /\ [][Next]_vars

------------------------------------------------------------------------------
(* Properties *)

Quiescent ==
  /\ \A w \in Workers : req[w] = Idle
  /\ ~edit /\ sweeping = "no"
  /\ pending = {}
  /\ \A f \in Flushers : batch[f] = {}

\* An update that has read the vehicle before it was retired is still to write.
StaleEdit == edit /\ stage # "live"

\* The purge of another vehicle makes the scan of a flush raise.
ScanHit == \E f \in Flushers : look[f].pc = "raised"

\* When nothing is in flight, the repair and every listed image of a live
\* vehicle has its index row: no upload is missed when an image vanishes under
\* a flush (which drops the key it was handling), when keys of one batch are
\* handled in any order, or when the directory changes while a flush reads it.
\* Rows are missed after a crash, when a scan met the purge of another vehicle,
\* and when an update brought a retired vehicle back, and in no other case.
NoMissingRow ==
  [](~ScanHit /\ ~StaleEdit /\ crashes = 0)
    => [](Quiescent /\ Live => tree \intersect Rows \subseteq rows)

\* An index row is being removed while a flush is applying its batch.
RemovalRace ==
  /\ \E f \in Flushers : batch[f] # {}
  /\ sweeping = "rows" \/ \E w \in Workers : req[w].pc \in {"unrow", "unrows"}

\* Rows of images that no longer exist, or of a retired vehicle, are left
\* behind in no other way than by such a race, by a crash or by an update that
\* brings a retired vehicle back.
GhostsOnlyByRace ==
  [](~RemovalRace /\ ~StaleEdit /\ crashes = 0)
    => [](Quiescent => rows \subseteq IF Live THEN tree ELSE {})

\* A request may still write files of the vehicle while cleanup deletes them.
WriteDuringSweep == sweeping = "files" /\ (edit \/ \E w \in Workers : req[w] # Idle)

\* A purge that was interrupted, by crashes or otherwise, is taken up by the
\* next cleanup: as long as any file of the vehicle is left, so is the sidecar
\* by which cleanup finds the vehicle.
PurgeResumable == []~WriteDuringSweep => [](tree # {} => Vehicle \in tree)

\* Two uploads are between their listing of the directory and their write.
Stores(w) == req[w].pc \in {"compare", "count", "image"}
UploadsOverlap == \E v, w \in Workers : v # w /\ Stores(v) /\ Stores(w)

\* One content is stored once among the listed images of a repair: a retry of
\* an upload that was cut short, a second upload while the vehicle is purged,
\* or after deletions, is caught by the duplicate check.  Uploads that have both listed the directory
\* before either writes (UploadsOverlap) are not; nothing else can break it.
NoTwins == \A i, j \in Stored : body[i] = body[j] => i = j
==============================================================================
