---------------------------- MODULE RepairProofs ----------------------------
(***************************************************************************)
(* Proofs about RepairImages, for any images, workers, flush threads and   *)
(* number of crashes.                                                      *)
(***************************************************************************)
EXTENDS RepairImages, FiniteSetTheorems, TLAPS

(* Types.  A request names an image that was minted for it, which has its    *)
(* content before it has its number and its number before it has its file.   *)

Points == {"idle", "repair", "list", "compare", "count", "image", "thumb", "note",
           "unlink", "unthumb", "unnote", "unrow", "retire", "unrows"}

Requests == [op : {"none", "repair", "upload", "comment", "delete", "retire"},
             i : Images \union {None}, body : Bodies \union {None}, noted : BOOLEAN,
             listed : BOOLEAN, pc : Points, left : SUBSET Images]

\* What a request has at each of its points, given contents b and numbers n.
Has(r, b, n) ==
  /\ r.pc \in {"list", "compare"} => r.body \in Bodies
  /\ r.pc \in {"count", "image", "thumb", "note", "unlink", "unthumb", "unnote", "unrow"}
       => r.i \in Images
  /\ r.pc = "count" => b[r.i] # None
  /\ r.pc \in {"image", "thumb"} => n[r.i] # 0

TInv == TypeOK /\ \A w \in Workers : Has(req[w], body, num)

\* Contents and numbers only ever come, so that no request loses what it has.
LEMMA HasIsKept ==
  ASSUME NEW r, NEW b, NEW n, NEW b2, NEW n2, Has(r, b, n),
         \A i \in Images : (b[i] # None => b2[i] # None) /\ (n[i] # 0 => n2[i] # 0)
  PROVE  Has(r, b2, n2)
BY DEF Has

\* A step of w that changes the request record and nothing else.
LEMMA OwnRecord ==
  ASSUME TInv, NEW w \in Workers, NEW r \in Requests, Has(r, body, num),
         req' = [req EXCEPT ![w] = r],
         UNCHANGED <<disk, rows, others, watcher, crashes>>
  PROVE  TInv'
<1>1. TypeOK'
  BY DEF TInv, TypeOK, Requests, Points, disk, others, watcher, W!BatcherTypeOK
<1>2. \A u \in Workers : Has(req'[u], body, num)
  BY DEF TInv, TypeOK
<1>3. QED
  BY <1>1, <1>2 DEF TInv, disk

\* A request record is one, and the idle one has nothing.
LEMMA RequestRecords ==
  /\ Idle \in Requests
  /\ Has(Idle, body, num)
  /\ TInv => \A w \in Workers : req[w] \in Requests /\ Has(req[w], body, num)
BY DEF Idle, Requests, Points, Has, TInv, TypeOK

\* Requests begin well formed.
LEMMA NewRequestTypes ==
  ASSUME TInv, NEW w \in Workers, NewRequest(w)
  PROVE  TInv'
<1> USE RequestRecords
<1>1. ASSUME NEW r \in Requests, Has(r, body, num), Ask(w, r) PROVE TInv'
  BY <1>1, OwnRecord DEF Ask
<1>2. CASE AskRepair(w) \/ AskRetire(w)
  <2>1. \A p \in {"repair", "retire"} :
          LET r == [Idle EXCEPT !.op = p, !.pc = p] IN r \in Requests /\ Has(r, body, num)
    BY DEF Idle, Requests, Points, Has
  <2>2. QED
    BY <1>1, <1>2, <2>1 DEF AskRepair, AskRetire
<1>3. ASSUME NEW u \in Uploads, AskUpload(w, u) PROVE TInv'
  <2> DEFINE r == [Idle EXCEPT !.op = "upload", !.body = u.body, !.noted = u.noted,
                               !.listed = u.listed, !.pc = "list"]
  <2>1. u.body \in Bodies /\ u.noted \in BOOLEAN /\ u.listed \in BOOLEAN
    BY UploadsAssumption
  <2>2. r \in Requests /\ Has(r, body, num)
    BY <2>1 DEF Idle, Requests, Points, Has
  <2>3. QED
    BY <1>1, <1>3, <2>2 DEF AskUpload
<1>4. ASSUME NEW i \in Images, NEW noted \in BOOLEAN, AskComment(w, i, noted) PROVE TInv'
  <2> DEFINE r == [Idle EXCEPT !.op = "comment", !.i = i, !.pc = IF noted THEN "note" ELSE "unnote"]
  <2>1. r \in Requests /\ Has(r, body, num)
    BY DEF Idle, Requests, Points, Has
  <2>2. QED
    BY <1>1, <1>4, <2>1 DEF AskComment
<1>5. ASSUME NEW i \in Images, AskDelete(w, i) PROVE TInv'
  <2> DEFINE r == [Idle EXCEPT !.op = "delete", !.i = i, !.pc = "unlink"]
  <2>1. r \in Requests /\ Has(r, body, num)
    BY DEF Idle, Requests, Points, Has
  <2>2. QED
    BY <1>1, <1>5, <2>1 DEF AskDelete
<1>6. QED
  BY <1>2, <1>3, <1>4, <1>5, ImagesAssumption DEF NewRequest

\* The watcher hears of nothing but the files it watches.
LEMMA HearsTypes ==
  ASSUME TInv, NEW k \in Files, Hears(k)
  PROVE  W!BatcherTypeOK' /\ UNCHANGED batch
<1>1. CASE k \in Watched
  <2>1. k[1] # "note"
    BY <1>1 DEF Watched, Of, Repair
  <2>2. QED
    BY <1>1, <2>1 DEF Hears, W!Report, TInv, TypeOK, W!BatcherTypeOK
<1>2. CASE k \notin Watched /\ k[1] = "note"
  <2>1. k \in Of({"image", "odd", "thumb", "note"})
    BY <1>2 DEF Files, Repair, Vehicle
  <2>2. Image(k[2]) \in Watched
    BY <2>1 DEF Watched, Of, Image
  <2>3. QED
    BY <1>2, <2>2 DEF Hears, W!Report, TInv, TypeOK, W!BatcherTypeOK
<1>3. CASE k \notin Watched /\ k[1] # "note"
  BY <1>3 DEF Hears, TInv, TypeOK, W!BatcherTypeOK
<1>4. QED
  BY <1>1, <1>2, <1>3

\* A file that a request writes or deletes is a file of the directory, and an
\* image or a thumbnail has a number.
LEMMA FileStepTypes ==
  ASSUME TInv, NEW w \in Workers, NEW k \in Files,
         Unlink(k) \/ (Create(k) /\ (k \in Of({"image", "odd", "thumb"}) => num[k[2]] # 0)),
         NEW r \in Requests, Has(r, body, num), req' = [req EXCEPT ![w] = r],
         UNCHANGED <<stage, num, body, rows, others, look, crashes>>
  PROVE  TInv'
<1>1. /\ tree' \subseteq Files
      /\ \A j \in tree' \intersect Of({"image", "odd", "thumb"}) : num[j[2]] # 0
  BY DEF Create, Unlink, TInv, TypeOK
<1>2. W!BatcherTypeOK' /\ UNCHANGED batch
  BY HearsTypes DEF Create, Unlink, TInv, TypeOK, W!BatcherTypeOK
<1>3. TypeOK'
  BY <1>1, <1>2 DEF TInv, TypeOK, Requests, Points, others
<1>4. \A u \in Workers : Has(req'[u], body, num)
  BY DEF TInv, TypeOK
<1>5. QED
  BY <1>3, <1>4 DEF TInv

\* Every request step keeps the types.
LEMMA RequestStepTypes ==
  ASSUME TInv, NEW w \in Workers, RequestStep(w)
  PROVE  TInv'
<1> USE RequestRecords
<1>0. req[w] \in Requests /\ Has(req[w], body, num)
  OBVIOUS
<1> DEFINE At(p) == [req[w] EXCEPT !.pc = p]
<1>1. \A p \in Points : At(p) \in Requests /\ At(p).i = req[w].i /\ At(p).body = req[w].body /\ At(p).pc = p
  BY <1>0 DEF Requests
<1>2. CASE WriteRepair(w)
  <2>1. Repair \in Files /\ Repair \notin Of({"image", "odd", "thumb"})
    BY DEF Files, Of, Repair
  <2>2. QED
    BY <1>2, <2>1, FileStepTypes DEF WriteRepair, End
<1>3. CASE ListImages(w)
  <2> DEFINE r == [req[w] EXCEPT !.pc = "compare", !.left = Stored]
  <2>1. r \in Requests /\ Has(r, body, num)
    BY <1>0, <1>3 DEF ListImages, Stored, Requests, Points, Has
  <2>2. req' = [req EXCEPT ![w] = r] \/ req' = [req EXCEPT ![w] = Idle]
    BY <1>3 DEF ListImages, End
  <2>3. QED
    BY <1>3, <2>1, <2>2, OwnRecord DEF ListImages
<1>4. CASE Compare(w)
  <2>1. PICK i \in req[w].left : IF i \notin Stored \/ body[i] = req[w].body
                                   THEN End(w)
                                   ELSE req' = [req EXCEPT ![w].left = @ \ {i}]
    BY <1>4 DEF Compare
  <2> DEFINE r == [req[w] EXCEPT !.left = @ \ {i}]
  <2>2. r \in Requests /\ Has(r, body, num)
    BY <1>0, <1>4 DEF Compare, Requests, Points, Has
  <2>3. QED
    BY <1>4, <2>1, <2>2, OwnRecord DEF Compare, End
<1>5. CASE Mint(w)
  <2>1. PICK i \in Images :
          /\ body[i] = None
          /\ body' = [body EXCEPT ![i] = req[w].body]
          /\ req' = [req EXCEPT ![w] = [req[w] EXCEPT !.i = i, !.pc = "count"]]
    BY <1>5 DEF Mint
  <2> DEFINE r == [req[w] EXCEPT !.i = i, !.pc = "count"]
  <2>2. req[w].body \in Bodies /\ req[w].body # None
    BY <1>0, <1>5, UploadsAssumption DEF Mint, Has
  <2>3. body' \in [Images -> Bodies \union {None}] /\ body'[i] # None
        /\ \A j \in Images : body[j] # None => body'[j] # None
    BY <2>1, <2>2 DEF TInv, TypeOK
  <2>4. r \in Requests /\ Has(r, body', num)
    BY <1>0, <2>1, <2>3 DEF Requests, Points, Has
  <2>5. TypeOK'
    BY <1>5, <2>1, <2>3, <2>4 DEF Mint, TInv, TypeOK, Requests, Points, others, watcher, W!BatcherTypeOK
  <2>6. \A u \in Workers : Has(req'[u], body', num)
    BY <2>1, <2>3, <2>4, HasIsKept DEF TInv, TypeOK
  <2>7. QED
    BY <1>5, <2>5, <2>6 DEF Mint, TInv
<1>6. CASE Count(w)
  <2> DEFINE seq == Cardinality(Stored) + 1
  <2>1. seq \in Nat \ {0}
    BY ImagesAssumption, FS_Subset, FS_CardinalityType DEF Stored
  <2>2. CASE End(w) /\ UNCHANGED num
    BY <1>6, <2>2, OwnRecord DEF Count, End, disk
  <2>3. CASE seq <= MaxSeq /\ num' = [num EXCEPT ![req[w].i] = seq] /\ Goto(w, "image")
    <3>1. /\ num' = [num EXCEPT ![req[w].i] = seq]
          /\ req' = [req EXCEPT ![w] = At("image")]
          /\ req[w].i \in Images /\ body[req[w].i] # None
      BY <1>0, <1>6, <2>3 DEF Count, Goto, Has
    <3>2. /\ num' \in [Images -> 0..MaxSeq] /\ num'[req[w].i] # 0
          /\ \A i \in Images : (num[i] # 0 => num'[i] # 0) /\ (num'[i] # 0 => body[i] # None)
      BY <2>1, <2>3, <3>1, ImagesAssumption DEF TInv, TypeOK
    <3>3. At("image") \in Requests /\ Has(At("image"), body, num')
      BY <1>1, <3>1, <3>2 DEF Points, Has
    <3>4. \A k \in tree \intersect Of({"image", "odd", "thumb"}) : num'[k[2]] # 0
      BY <3>2 DEF TInv, TypeOK, Of
    <3>5. TypeOK'
      BY <1>6, <3>1, <3>2, <3>3, <3>4
         DEF Count, TInv, TypeOK, Requests, Points, others, watcher, W!BatcherTypeOK
    <3>6. ASSUME NEW u \in Workers PROVE Has(req'[u], body, num')
      <4>1. CASE u = w
        BY <3>1, <3>3, <4>1 DEF TInv, TypeOK
      <4>2. CASE u # w
        <5>1. req'[u] = req[u] /\ Has(req[u], body, num)
          BY <3>1, <4>2 DEF TInv, TypeOK
        <5>2. QED
          BY <3>2, <5>1, HasIsKept
      <4>3. QED
        BY <4>1, <4>2
    <3>7. QED
      BY <1>6, <3>5, <3>6 DEF Count, TInv
  <2>4. QED
    BY <1>6, <2>2, <2>3 DEF Count
<1>7. \A i \in Images : /\ Image(i) \in Files /\ Odd(i) \in Files /\ Thumb(i) \in Files /\ Note(i) \in Files
                        /\ Image(i)[2] = i /\ Odd(i)[2] = i /\ Thumb(i)[2] = i
                        /\ Note(i) \notin Of({"image", "odd", "thumb"})
  BY DEF Files, Of, Image, Odd, Thumb, Note
<1>8. CASE WriteImage(w)
  <2>1. req[w].i \in Images /\ num[req[w].i] # 0 /\ At("thumb") \in Requests /\ Has(At("thumb"), body, num)
    BY <1>0, <1>1, <1>8 DEF WriteImage, Has, Points
  <2>2. PICK k \in {Image(req[w].i), Odd(req[w].i)} : Create(k)
    BY <1>8 DEF WriteImage
  <2>3. k \in Files /\ k[2] = req[w].i
    BY <1>7, <2>1, <2>2
  <2>4. QED
    BY <1>8, <2>1, <2>2, <2>3, FileStepTypes DEF WriteImage, Goto
<1>9. CASE WriteThumb(w)
  <2>1. req[w].i \in Images /\ num[req[w].i] # 0 /\ At("note") \in Requests /\ Has(At("note"), body, num)
    BY <1>0, <1>1, <1>9 DEF WriteThumb, Has, Points
  <2>2. req' = [req EXCEPT ![w] = At("note")] \/ req' = [req EXCEPT ![w] = Idle]
    BY <1>9 DEF WriteThumb, Goto, End
  <2>3. QED
    BY <1>7, <1>9, <2>1, <2>2, FileStepTypes DEF WriteThumb
<1>10. CASE WriteNote(w)
  <2>1. req[w].i \in Images
    BY <1>0, <1>10 DEF WriteNote, Has
  <2>2. QED
    BY <1>7, <1>10, <2>1, FileStepTypes DEF WriteNote, End
<1>11. ASSUME NEW p \in {"unthumb", "unnote", "unrow"}, req[w].i \in Images
       PROVE  At(p) \in Requests /\ Has(At(p), body, num)
  BY <1>1, <1>11 DEF Points, Has
<1>12. CASE UnlinkImage(w)
  <2>1. req[w].i \in Images /\ At("unthumb") \in Requests /\ Has(At("unthumb"), body, num)
    BY <1>0, <1>11, <1>12 DEF UnlinkImage, Has
  <2>2. QED
    BY <1>7, <1>12, <2>1, FileStepTypes DEF UnlinkImage, Goto
<1>13. CASE UnlinkThumb(w)
  <2>1. req[w].i \in Images /\ At("unnote") \in Requests /\ Has(At("unnote"), body, num)
    BY <1>0, <1>11, <1>13 DEF UnlinkThumb, Has
  <2>2. QED
    BY <1>7, <1>13, <2>1, FileStepTypes DEF UnlinkThumb, Goto
<1>14. CASE UnlinkNote(w)
  <2>1. req[w].i \in Images /\ At("unrow") \in Requests /\ Has(At("unrow"), body, num)
    BY <1>0, <1>11, <1>14 DEF UnlinkNote, Has
  <2>2. req' = [req EXCEPT ![w] = At("unrow")] \/ req' = [req EXCEPT ![w] = Idle]
    BY <1>14 DEF UnlinkNote, Goto, End
  <2>3. QED
    BY <1>7, <1>14, <2>1, <2>2, FileStepTypes DEF UnlinkNote
<1>15. CASE RemoveRow(w) \/ RemoveRetired(w)
  <2>1. rows' \subseteq Rows /\ req' = [req EXCEPT ![w] = Idle] /\ UNCHANGED <<disk, others, watcher, crashes>>
    BY <1>15 DEF RemoveRow, RemoveRetired, RemoveVehicleRows, End, TInv, TypeOK
  <2>2. TypeOK'
    BY <2>1 DEF TInv, TypeOK, Requests, Points, disk, others, watcher, W!BatcherTypeOK
  <2>3. \A u \in Workers : Has(req'[u], body, num)
    BY <2>1 DEF TInv, TypeOK
  <2>4. QED
    BY <2>1, <2>2, <2>3 DEF TInv, disk
<1>16. CASE WriteRetired(w)
  <2>1. At("unrows") \in Requests /\ Has(At("unrows"), body, num)
    BY <1>1 DEF Points, Has
  <2>2. req' = [req EXCEPT ![w] = At("unrows")]
    BY <1>16 DEF WriteRetired, Goto
  <2>3. Vehicle \in Files /\ Vehicle \notin Of({"image", "odd", "thumb"})
    BY DEF Files, Of, Vehicle
  <2>4. TypeOK'
    BY <1>16, <2>1, <2>2, <2>3 DEF WriteRetired, TInv, TypeOK, Requests, Points, others, watcher, W!BatcherTypeOK
  <2>5. \A u \in Workers : Has(req'[u], body, num)
    BY <2>1, <2>2 DEF TInv, TypeOK
  <2>6. QED
    BY <1>16, <2>4, <2>5 DEF WriteRetired, TInv
<1>17. CASE RetireGone(w)
  BY <1>17, OwnRecord DEF RetireGone, End
<1>18. QED
  BY <1>2, <1>3, <1>4, <1>5, <1>6, <1>8, <1>9, <1>10, <1>12, <1>13, <1>14, <1>15, <1>16, <1>17
     DEF RequestStep

\* What a step needs to keep the types that leaves requests, contents and
\* numbers alone.
LEMMA QuietStepTypes ==
  ASSUME TInv, TypeOK', UNCHANGED <<num, body, req>>
  PROVE  TInv'
BY DEF TInv

\* So does a step of an update.
LEMMA EditTypes ==
  ASSUME TInv, EditStart \/ EditWrite \/ EditEnd
  PROVE  TInv'
<1>1. CASE EditStart \/ EditEnd
  <2>1. edit' \in BOOLEAN /\ edits' \in Nat
    <3>1. edits' = edits + 1 \/ edits' = edits
      BY <1>1 DEF EditStart, EditEnd
    <3>2. edit' \in BOOLEAN
      BY <1>1 DEF EditStart, EditEnd
    <3>3. QED
      BY <3>1, <3>2 DEF TInv, TypeOK
  <2>2. UNCHANGED <<tree, stage, num, body, rows, req, sweep, sweeping, pending, batch, look, crashes>>
    BY <1>1 DEF EditStart, EditEnd, disk, watcher
  <2>3. TypeOK'
    BY <2>1, <2>2 DEF TInv, TypeOK, W!BatcherTypeOK
  <2>4. QED
    BY <2>2, <2>3, QuietStepTypes
<1>2. CASE EditWrite
  <2>1. Vehicle \in Files /\ Vehicle \notin Of({"image", "odd", "thumb"})
    BY DEF Files, Of, Vehicle
  <2>2. QED
    BY <1>2, <2>1, QuietStepTypes DEF EditWrite, TInv, TypeOK, watcher, W!BatcherTypeOK
<1>3. QED
  BY <1>1, <1>2

\* So does a step of cleanup, and the passing of time.
LEMMA SweepTypes ==
  ASSUME TInv, Expire \/ SweepStart \/ SweepFile \/ SweepRows
  PROVE  TInv'
<1>1. CASE Expire
  BY <1>1, QuietStepTypes DEF Expire, TInv, TypeOK, others, watcher, W!BatcherTypeOK
<1>2. CASE SweepStart
  BY <1>2, QuietStepTypes DEF SweepStart, TInv, TypeOK, disk, watcher, W!BatcherTypeOK
<1>3. CASE SweepFile
  <2>1. PICK k \in sweep : /\ Unlink(k)
                           /\ sweep' = sweep \ {k}
                           /\ sweeping' = IF sweep = {k} THEN "rows" ELSE "files"
    BY <1>3 DEF SweepFile
  <2>2. W!BatcherTypeOK' /\ UNCHANGED batch
    BY <2>1, HearsTypes DEF Unlink, TInv, TypeOK, W!BatcherTypeOK
  <2>3. TypeOK'
    BY <1>3, <2>1, <2>2 DEF SweepFile, Unlink, TInv, TypeOK
  <2>4. QED
    BY <1>3, <2>3, QuietStepTypes DEF SweepFile
<1>4. CASE SweepRows
  BY <1>4, QuietStepTypes DEF SweepRows, RemoveVehicleRows, TInv, TypeOK, disk, watcher, W!BatcherTypeOK
<1>5. QED
  BY <1>1, <1>2, <1>3, <1>4

\* And a step of a flush thread, which applies a key only while that is in
\* its batch.
LEMMA FlushTypes ==
  ASSUME TInv, NEW f \in Flushers, FlushStep(f)
  PROVE  TInv'
<1> DEFINE Looks == [key : Watched \union {None}, pc : {"none", "list", "raised", "read", "apply"},
                     found : SUBSET Rows]
<1>0. /\ look \in [Flushers -> Looks] /\ look[f] \in Looks
      /\ NoLook \in Looks /\ NoLook.pc = "none"
      /\ batch \in [Flushers -> SUBSET Watched] /\ pending \subseteq Watched
      /\ look[f].pc # "none" => look[f].key \in batch[f]
  BY DEF TInv, TypeOK, NoLook, W!BatcherTypeOK
<1>1. CASE FlushTake(f)
  <2>1. look[f].pc = "none"
    BY <1>0, <1>1 DEF FlushTake, W!Take
  <2>2. W!BatcherTypeOK'
    BY <1>0, <1>1 DEF FlushTake, W!Take, W!BatcherTypeOK
  <2>3. \A g \in Flushers : look[g].pc # "none" => look[g].key \in batch'[g]
    BY <1>0, <1>1, <2>1 DEF FlushTake, W!Take, TInv, TypeOK
  <2>4. TypeOK'
    BY <1>1, <2>2, <2>3 DEF FlushTake, TInv, TypeOK, disk, others
  <2>5. QED
    BY <1>1, <2>4, QuietStepTypes DEF FlushTake, disk
<1> DEFINE Rest == UNCHANGED <<disk, req, others, crashes>> /\ rows' \subseteq Rows
\* A thread goes on with the key it has ...
<1>2. ASSUME Rest, NEW l \in Looks, look' = [look EXCEPT ![f] = l],
             l.key \in batch[f], UNCHANGED <<pending, batch>>
      PROVE  TInv'
  <2>1. TypeOK'
    BY <1>0, <1>2 DEF TInv, TypeOK, W!BatcherTypeOK, disk, others
  <2>2. QED
    BY <1>2, <2>1, QuietStepTypes DEF disk
\* ... or is done with it.
<1>3. ASSUME Rest, NEW k \in batch[f], W!Handle(f, k), look' = [look EXCEPT ![f] = NoLook]
      PROVE  TInv'
  <2>1. W!BatcherTypeOK'
    BY <1>0, <1>3 DEF W!Handle, W!BatcherTypeOK
  <2>2. \A g \in Flushers : look'[g].pc # "none" => look'[g].key \in batch'[g]
    BY <1>0, <1>3 DEF W!Handle, TInv, TypeOK
  <2>3. TypeOK'
    BY <1>0, <1>3, <2>1, <2>2 DEF TInv, TypeOK, disk, others
  <2>4. QED
    BY <1>3, <2>3, QuietStepTypes DEF disk
<1>4. ASSUME Rest, look[f].pc # "none", Drop(f) PROVE TInv'
  BY <1>0, <1>3, <1>4 DEF Drop
<1>5. ASSUME NEW k \in Watched, Probe(f, k) PROVE TInv'
  <2>1. Rest /\ k \in batch[f] /\ look[f] = NoLook
    BY <1>5 DEF Probe, TInv, TypeOK
  <2> DEFINE l == [key |-> k, pc |-> "list", found |-> {}]
  <2>2. l \in Looks /\ l.key = k
    OBVIOUS
  <2>3. CASE look' = [look EXCEPT ![f] = l] /\ UNCHANGED <<pending, batch>>
    BY <1>2, <2>1, <2>2, <2>3
  <2>4. CASE W!Handle(f, k) /\ UNCHANGED look
    BY <1>0, <1>3, <2>1, <2>4
  <2>5. QED
    BY <1>5, <2>3, <2>4 DEF Probe
<1>6. CASE ListDirectory(f)
  <2> DEFINE found == IF look[f].key = Repair THEN {Repair} ELSE {Image(i) : i \in Stored}
             l == [look[f] EXCEPT !.found = found,
                                  !.pc = IF look[f].key = Repair THEN "apply" ELSE "read"]
  <2>1. found \subseteq Rows
    <3>1. Repair \in Rows /\ \A i \in Stored : Image(i) \in Rows
      BY DEF Rows, Of, Image, Stored
    <3>2. QED
      BY <3>1
  <2>2. Rest /\ look[f].pc # "none" /\ l \in Looks /\ l.key \in batch[f]
    BY <1>0, <1>6, <2>1 DEF ListDirectory, TInv, TypeOK
  <2>3. (look' = [look EXCEPT ![f] = l] /\ UNCHANGED <<pending, batch>>) \/ Drop(f)
    BY <1>6 DEF ListDirectory
  <2>4. QED
    BY <1>2, <1>4, <2>2, <2>3
<1>7. CASE ReadImages(f)
  <2> DEFINE l == [look[f] EXCEPT !.pc = "apply"]
  <2>1. Rest /\ look[f].pc # "none" /\ l \in Looks /\ l.key \in batch[f]
    BY <1>0, <1>7 DEF ReadImages, TInv, TypeOK
  <2>2. (look' = [look EXCEPT ![f] = l] /\ UNCHANGED <<pending, batch>>) \/ Drop(f)
    BY <1>7 DEF ReadImages
  <2>3. QED
    BY <1>2, <1>4, <2>1, <2>2
<1>8. CASE UpsertRow(f)
  <2>1. PICK r \in look[f].found :
          /\ rows' = rows \union {r}
          /\ IF look[f].found = {r}
               THEN Drop(f)
               ELSE look' = [look EXCEPT ![f].found = @ \ {r}] /\ UNCHANGED <<pending, batch>>
    BY <1>8 DEF UpsertRow
  <2> DEFINE l == [look[f] EXCEPT !.found = @ \ {r}]
  <2>2. Rest /\ look[f].pc # "none" /\ l \in Looks /\ l.key \in batch[f]
    BY <1>0, <1>8, <2>1 DEF UpsertRow, TInv, TypeOK
  <2>3. QED
    BY <1>2, <1>4, <2>1, <2>2
<1>9. CASE ScanRaises(f)
  <2> DEFINE l == [look[f] EXCEPT !.pc = "raised"]
  <2>1. Rest /\ l \in Looks /\ l.key \in batch[f]
    BY <1>0, <1>9 DEF ScanRaises, TInv, TypeOK
  <2>2. QED
    BY <1>2, <1>9, <2>1 DEF ScanRaises
<1>10. CASE DropRaised(f)
  BY <1>4, <1>10 DEF DropRaised, TInv, TypeOK
<1>11. QED
  BY <1>1, <1>5, <1>6, <1>7, <1>8, <1>9, <1>10 DEF FlushStep

\* Every reachable state is well formed: no stored file lacks its number and
\* no numbered image its content.
THEOREM Typed == Spec => []TInv
<1>1. Init => TInv
  <2> SUFFICES ASSUME Init PROVE TInv
    OBVIOUS
  <2>1. Vehicle \in Files /\ Vehicle \notin Of({"image", "odd", "thumb"})
    BY DEF Files, Of, Vehicle
  <2>2. /\ req \in [Workers -> Requests]
        /\ \A w \in Workers : Has(req[w], body, num)
    BY RequestRecords DEF Init
  <2>3. /\ num \in [Images -> 0..MaxSeq] /\ \A i \in Images : num[i] = 0
        /\ body \in [Images -> Bodies \union {None}]
    BY ImagesAssumption DEF Init
  <2>4. W!BatcherTypeOK
    BY DEF Init, W!Init, W!BatcherTypeOK
  <2>5. TypeOK
    BY <2>1, <2>2, <2>3, <2>4 DEF Init, TypeOK, Requests, Points, NoLook
  <2>6. QED
    BY <2>2, <2>5 DEF TInv
<1>2. TInv /\ [Next]_vars => TInv'
  <2> SUFFICES ASSUME TInv, [Next]_vars PROVE TInv'
    OBVIOUS
  <2>1. CASE Crash
    <3>0. req' \in [Workers -> Requests]
      BY <2>1, RequestRecords DEF Crash
    <3>1. TypeOK'
      <4>1. UNCHANGED <<tree, stage, num, body, rows, edits>> /\ edit' \in BOOLEAN
        BY <2>1, Zenon DEF Crash, disk
      <4>2. crashes' \in Nat
        BY <2>1 DEF Crash, TInv, TypeOK
      <4>3. sweep' = {} /\ sweeping' = "no" /\ W!BatcherTypeOK'
        BY <2>1 DEF Crash, W!BatcherTypeOK
      <4>4. /\ look' \in [Flushers -> [key : Watched \union {None},
                                      pc : {"none", "list", "raised", "read", "apply"}, found : SUBSET Rows]]
            /\ \A f \in Flushers : look'[f].pc = "none"
        BY <2>1 DEF Crash, NoLook
      <4>5. QED
        BY <3>0, <4>1, <4>2, <4>3, <4>4 DEF TInv, TypeOK, Requests, Points
    <3>2. QED
      BY <2>1, <3>1, RequestRecords DEF Crash, TInv, disk
  <2>2. CASE UNCHANGED vars
    BY <2>2 DEF vars, TInv, TypeOK, W!BatcherTypeOK
  <2>3. QED
    BY <2>1, <2>2, RequestStepTypes, NewRequestTypes, EditTypes, SweepTypes, FlushTypes DEF Next
<1>3. QED
  BY <1>1, <1>2, PTL DEF Spec

\* In particular the type invariant holds.
THEOREM TypeCorrect == Spec => []TypeOK
<1>1. TInv => TypeOK
  BY DEF TInv
<1>2. QED
  BY <1>1, Typed, PTL

------------------------------------------------------------------------------
(* The purge.  Cleanup finds a vehicle by its sidecar, which is therefore    *)
(* the file that must go last; nobody may create files meanwhile.            *)

\* While a purge deletes files its list is what is left of the directory, and
\* whoever serves a request, or an update, found the vehicle's sidecar, which
\* only a purge deletes.
PInv ==
  /\ tree # {} => Vehicle \in tree
  /\ sweeping = "files" => sweep = tree
  /\ sweep # {} => sweeping = "files"
  /\ sweep \subseteq Files
  /\ edit \/ (\E w \in Workers : req[w] # Idle) => Vehicle \in tree

\* The vehicle's sidecar is none of the files that requests delete.
LEMMA FileNames ==
  /\ Vehicle \in Files /\ Repair # Vehicle
  /\ \A i : Image(i) # Vehicle /\ Odd(i) # Vehicle /\ Thumb(i) # Vehicle /\ Note(i) # Vehicle
BY DEF Files, Image, Odd, Thumb, Note, Repair, Vehicle

\* It is the last one in the order of paths.
LEMMA VehicleLast ==
  ASSUME TInv, NEW k \in Files, k # Vehicle
  PROVE  Rank(k) \in Nat /\ Rank(Vehicle) \in Nat /\ Rank(k) < Rank(Vehicle)
<1>1. Rank(Vehicle) = 2 * MaxSeq + 2 /\ MaxSeq \in Nat
  BY ImagesAssumption DEF Rank, Vehicle
<1>2. CASE k = Repair
  <2>1. Rank(k) = MaxSeq + 1
    BY <1>2 DEF Rank, Repair
  <2>2. QED
    BY <1>1, <2>1
<1>3. CASE k # Repair
  <2>1. PICK c \in {"image", "odd", "thumb", "note"}, i \in Images : k = <<c, i>>
    BY <1>3 DEF Files, Of
  <2>2. Rank(k) = num[i] \/ Rank(k) = MaxSeq + 1 + num[i]
    BY <2>1 DEF Rank
  <2>3. num[i] \in 0..MaxSeq
    BY DEF TInv, TypeOK
  <2>4. QED
    BY <1>1, <2>2, <2>3
<1>4. QED
  BY <1>2, <1>3

\* A step of a running request leaves the vehicle's sidecar alone, and so it
\* keeps the invariant when no purge is deleting files.
LEMMA RequestKeepsSidecar ==
  ASSUME PInv, ~WriteDuringSweep, NEW w \in Workers, RequestStep(w)
  PROVE  PInv'
<1>1. req[w].pc # "idle" /\ Idle.pc = "idle"
  BY DEF RequestStep, WriteRepair, ListImages, Compare, Mint, Count, WriteImage, WriteThumb,
         WriteNote, UnlinkImage, UnlinkThumb, UnlinkNote, RemoveRow, WriteRetired,
         RetireGone, RemoveRetired, Idle
<1>2. Vehicle \in tree /\ sweeping # "files"
  BY <1>1 DEF PInv, WriteDuringSweep
<1>3. UNCHANGED others /\ Vehicle \in tree'
  <2>1. CASE WriteRepair(w) \/ WriteImage(w) \/ WriteThumb(w) \/ WriteNote(w)
    BY <1>2, <2>1 DEF WriteRepair, WriteImage, WriteThumb, WriteNote, Create, others
  <2>2. CASE UnlinkImage(w) \/ UnlinkThumb(w) \/ UnlinkNote(w)
    BY <1>2, <2>2 DEF UnlinkImage, UnlinkThumb, UnlinkNote, Unlink, others,
                      Image, Thumb, Note, Vehicle
  <2>3. CASE ListImages(w) \/ Compare(w) \/ Mint(w) \/ Count(w)
    BY <1>2, <2>3 DEF ListImages, Compare, Mint, Count, disk, others
  <2>4. CASE RemoveRow(w) \/ WriteRetired(w) \/ RetireGone(w) \/ RemoveRetired(w)
    BY <1>2, <2>4 DEF RemoveRow, WriteRetired, RetireGone, RemoveRetired, disk, others
  <2>5. QED
    BY <2>1, <2>2, <2>3, <2>4 DEF RequestStep
<1>4. QED
  BY <1>2, <1>3 DEF PInv, others

\* A new request finds the vehicle, or an image, which is not there without
\* the vehicle's sidecar.
LEMMA NewRequestFindsSidecar ==
  ASSUME PInv, NEW w \in Workers, NewRequest(w)
  PROVE  PInv'
<1>1. UNCHANGED <<disk, others>>
  BY DEF NewRequest, AskRepair, AskUpload, AskComment, AskDelete, AskRetire, Ask
<1>2. Vehicle \in tree
  BY DEF NewRequest, AskRepair, AskUpload, AskComment, AskDelete, AskRetire, Live, Stored, PInv
<1>3. QED
  BY <1>1, <1>2 DEF PInv, disk, others

\* Cleanup deletes the vehicle's sidecar after every other file of its list.
LEMMA SweepKeepsSidecar ==
  ASSUME TInv, PInv, ~WriteDuringSweep, SweepFile
  PROVE  PInv'
<1>1. PICK k \in sweep : /\ \A j \in sweep : Rank(k) <= Rank(j)
                         /\ tree' = tree \ {k}
                         /\ sweep' = sweep \ {k}
                         /\ sweeping' = IF sweep = {k} THEN "rows" ELSE "files"
  BY DEF SweepFile, Unlink
<1>2. sweep = tree /\ sweeping = "files" /\ Vehicle \in sweep
  BY <1>1 DEF PInv
<1>3. k = Vehicle => sweep = {k}
  <2>1. SUFFICES ASSUME k = Vehicle, NEW j \in sweep, j # Vehicle PROVE FALSE
    BY <1>1
  <2>2. Rank(j) < Rank(Vehicle) /\ Rank(Vehicle) <= Rank(j)
    BY <1>1, <2>1, VehicleLast DEF PInv
  <2>3. Rank(j) \in Nat /\ Rank(Vehicle) \in Nat
    BY <2>1, VehicleLast DEF PInv
  <2>4. QED
    BY <2>2, <2>3
<1>4. ~edit' /\ \A w \in Workers : req'[w] = Idle
  BY <1>2 DEF SweepFile, WriteDuringSweep
<1>5. QED
  BY <1>1, <1>2, <1>3, <1>4 DEF PInv

\* The invariant is inductive as long as no request runs under a purge.
LEMMA PurgeStep ==
  ASSUME TInv, PInv, ~WriteDuringSweep, [Next]_vars
  PROVE  PInv'
<1>1. CASE Expire \/ SweepRows
  BY <1>1 DEF Expire, SweepRows, PInv, disk, others
<1>2. CASE SweepStart
  BY <1>2 DEF SweepStart, PInv, TInv, TypeOK, disk
<1>3. ASSUME NEW f \in Flushers, FlushStep(f) PROVE PInv'
  <2>1. UNCHANGED <<disk, req, others>>
    BY <1>3 DEF FlushStep, FlushTake, Probe, ScanRaises, DropRaised, ListDirectory, ReadImages,
         UpsertRow
  <2>2. QED
    BY <2>1 DEF PInv, disk, others
<1>4. CASE Crash
  BY <1>4 DEF Crash, PInv, disk
<1>5. CASE UNCHANGED vars
  BY <1>5 DEF PInv, vars
<1>6. CASE EditStart \/ EditEnd
  BY <1>6 DEF EditStart, EditEnd, PInv, Live, disk
<1>7. CASE EditWrite
  BY <1>7 DEF EditWrite, PInv, WriteDuringSweep
<1>8. QED
  BY <1>1, <1>2, <1>3, <1>4, <1>5, <1>6, <1>7, RequestKeepsSidecar, NewRequestFindsSidecar,
     SweepKeepsSidecar DEF Next

\* A purge that was interrupted, by crashes or otherwise, can be taken up by
\* the next cleanup, unless requests wrote files while it deleted them.
THEOREM PurgesResumable == Spec => PurgeResumable
<1>1. Init => PInv
  BY FileNames DEF Init, PInv
<1>2. TInv /\ PInv /\ ~WriteDuringSweep /\ [Next]_vars => PInv'
  BY PurgeStep
<1>3. PInv => (tree # {} => Vehicle \in tree)
  BY DEF PInv
<1>4. QED
  BY <1>1, <1>2, <1>3, Typed, PTL DEF Spec, PurgeResumable

------------------------------------------------------------------------------
(* Duplicates.  An upload that has compared some images knows that none of   *)
(* them has its content; it goes on knowing it for as long as no other       *)
(* upload writes, and that is what ~UploadsOverlap grants.                   *)

Single(S, b) == \A i, j \in S : b[i] = b[j] => i = j

\* What the duplicate check of request r has established at each point, given
\* the stored images S and the contents b.
Compared(r, S, b) ==
  /\ r.pc = "compare" => \A i \in S \ r.left : b[i] # r.body
  /\ r.pc \in {"count", "image"} =>
       b[r.i] = r.body /\ \A i \in S \ {r.i} : b[i] # r.body

DInv == Single(Stored, body) /\ \A w \in Workers : Compared(req[w], Stored, body)

\* Images that go, and contents that come, take nothing from what is known.
LEMMA ComparedIsKept ==
  ASSUME TInv, DInv, NEW w \in Workers, NEW S \in SUBSET Stored, NEW b,
         \A i \in Images : body[i] # None => b[i] = body[i]
  PROVE  Single(S, b) /\ Compared(req[w], S, b)
<1>1. \A i \in Stored : i \in Images /\ body[i] # None
  <2>1. SUFFICES ASSUME NEW i \in Stored PROVE i \in Images /\ num[i] # 0
    BY DEF TInv, TypeOK
  <2>2. i \in Images /\ Image(i) \in tree \intersect Of({"image", "odd", "thumb"}) /\ Image(i)[2] = i
    BY DEF Stored, Of, Image
  <2>3. QED
    BY <2>2 DEF TInv, TypeOK
<1>2. Single(S, b)
  BY <1>1 DEF DInv, Single
<1>3. req[w].pc = "count" => b[req[w].i] = body[req[w].i]
  BY RequestRecords DEF Has
<1>4. req[w].pc = "image" => b[req[w].i] = body[req[w].i]
  BY RequestRecords DEF Has, TInv, TypeOK
<1>5. QED
  BY <1>1, <1>2, <1>3, <1>4 DEF DInv, Compared

\* So a step of w that stores no image keeps what the others know.
LEMMA NoNewImage ==
  ASSUME TInv, DInv, NEW w \in Workers, NEW r, req' = [req EXCEPT ![w] = r],
         Stored' \subseteq Stored,
         \A i \in Images : body[i] # None => body'[i] = body[i],
         Compared(r, Stored', body')
  PROVE  DInv'
<1>1. Stored' \in SUBSET Stored
  OBVIOUS
<1>2. Single(Stored', body')
  BY <1>1, ComparedIsKept
<1>3. ASSUME NEW u \in Workers PROVE Compared(req'[u], Stored', body')
  <2>1. CASE u = w
    BY <2>1 DEF TInv, TypeOK
  <2>2. CASE u # w
    <3>1. req'[u] = req[u]
      BY <2>2
    <3>2. QED
      BY <1>1, <3>1, ComparedIsKept
  <2>3. QED
    BY <2>1, <2>2
<1>4. QED
  BY <1>2, <1>3 DEF DInv

\* A step that moves no request at all keeps it as well.
LEMMA NobodyMoves ==
  ASSUME TInv, DInv, UNCHANGED <<req, body>>, Stored' \subseteq Stored
  PROVE  DInv'
<1>1. Single(Stored', body)
  BY DEF DInv, Single
<1>2. \A w \in Workers : Compared(req[w], Stored', body)
  BY DEF DInv, Compared
<1>3. QED
  BY <1>1, <1>2 DEF DInv

\* What a file step does to the set of stored images.
LEMMA StoredChanges ==
  /\ \A k : Unlink(k) => Stored' \subseteq Stored
  /\ \A i : Create(Image(i)) => Stored' \subseteq Stored \union {i}
  /\ \A i : Create(Odd(i)) \/ Create(Thumb(i)) \/ Create(Note(i)) => Stored' \subseteq Stored
  /\ Create(Repair) \/ tree' = tree \union {Vehicle} => Stored' \subseteq Stored
BY DEF Unlink, Create, Stored, Image, Odd, Thumb, Note, Repair, Vehicle

\* A step of a running request keeps the invariant; the write of an image
\* needs that no other upload stands between its listing and its write.
LEMMA RequestKeepsSingle ==
  ASSUME TInv, DInv, ~UploadsOverlap, NEW w \in Workers, RequestStep(w)
  PROVE  DInv'
<1>0. /\ req[w] \in Requests /\ Has(req[w], body, num)
      /\ Compared(req[w], Stored, body) /\ Single(Stored, body)
  BY RequestRecords DEF DInv
<1>1. ASSUME NEW r, req' = [req EXCEPT ![w] = r], r.pc \notin {"compare", "count", "image"},
             UNCHANGED body, Stored' \subseteq Stored
      PROVE  DInv'
  BY <1>1, NoNewImage DEF Compared
<1>2. ASSUME NEW p \in Points \ {"compare", "count", "image"}, Goto(w, p),
             UNCHANGED body, Stored' \subseteq Stored
      PROVE  DInv'
  <2>1. [req[w] EXCEPT !.pc = p].pc = p
    BY <1>0 DEF Requests
  <2>2. QED
    BY <1>1, <1>2, <2>1 DEF Goto
<1>3. ASSUME End(w), UNCHANGED body, Stored' \subseteq Stored PROVE DInv'
  BY <1>1, <1>3 DEF End, Idle
<1>4. UNCHANGED tree => Stored' = Stored
  BY DEF Stored
<1>5. CASE WriteRepair(w) \/ WriteNote(w) \/ WriteThumb(w)
  BY <1>2, <1>3, <1>5, StoredChanges DEF WriteRepair, WriteNote, WriteThumb, Points
<1>6. CASE UnlinkImage(w) \/ UnlinkThumb(w) \/ UnlinkNote(w)
  BY <1>2, <1>3, <1>6, StoredChanges DEF UnlinkImage, UnlinkThumb, UnlinkNote, Points
<1>7. CASE RemoveRow(w) \/ WriteRetired(w) \/ RetireGone(w) \/ RemoveRetired(w)
  <2>1. CASE WriteRetired(w)
    BY <1>2, <2>1, StoredChanges DEF WriteRetired, Points
  <2>2. CASE RemoveRow(w) \/ RetireGone(w) \/ RemoveRetired(w)
    BY <1>3, <1>4, <2>2 DEF RemoveRow, RetireGone, RemoveRetired, disk
  <2>3. QED
    BY <1>7, <2>1, <2>2
<1>8. CASE ListImages(w)
  <2> DEFINE r == [req[w] EXCEPT !.pc = "compare", !.left = Stored]
  <2>1. r.pc = "compare" /\ r.left = Stored
    BY <1>0 DEF Requests
  <2>2. Compared(r, Stored, body)
    BY <2>1 DEF Compared
  <2>3. UNCHANGED <<tree, body>> /\ (req' = [req EXCEPT ![w] = r] \/ End(w))
    BY <1>8 DEF ListImages, disk
  <2> HIDE DEF r
  <2>4. req' = [req EXCEPT ![w] = r] => DInv'
    BY <1>4, <2>2, <2>3, NoNewImage
  <2>5. QED
    BY <1>3, <1>4, <2>3, <2>4
<1>9. CASE Compare(w)
  <2>1. PICK i \in req[w].left : IF i \notin Stored \/ body[i] = req[w].body
                                   THEN End(w)
                                   ELSE req' = [req EXCEPT ![w].left = @ \ {i}]
    BY <1>9 DEF Compare
  <2>2. UNCHANGED <<tree, body>> /\ req[w].pc = "compare"
    BY <1>9 DEF Compare, disk
  <2>3. CASE i \notin Stored \/ body[i] = req[w].body
    BY <1>3, <1>4, <2>1, <2>2, <2>3
  <2>4. CASE ~(i \notin Stored \/ body[i] = req[w].body)
    <3> DEFINE r == [req[w] EXCEPT !.left = @ \ {i}]
    <3>1. r.pc = "compare" /\ r.left = req[w].left \ {i} /\ r.body = req[w].body
      BY <1>0, <2>2 DEF Requests
    <3>2. Compared(r, Stored, body)
      BY <1>0, <2>2, <2>4, <3>1 DEF Compared
    <3>3. req' = [req EXCEPT ![w] = r]
      BY <2>1, <2>4
    <3> HIDE DEF r
    <3>4. QED
      BY <1>4, <2>2, <3>2, <3>3, NoNewImage
  <2>5. QED
    BY <2>3, <2>4
<1>10. CASE Mint(w)
  <2>1. PICK i \in Images :
          /\ body[i] = None
          /\ body' = [body EXCEPT ![i] = req[w].body]
          /\ req' = [req EXCEPT ![w] = [req[w] EXCEPT !.i = i, !.pc = "count"]]
    BY <1>10 DEF Mint
  <2>2. /\ UNCHANGED tree /\ body'[i] = req[w].body
        /\ \A j \in Images : body[j] # None => body'[j] = body[j]
    BY <1>10, <2>1 DEF Mint, TInv, TypeOK
  <2> DEFINE r == [req[w] EXCEPT !.i = i, !.pc = "count"]
  <2>3. r.pc = "count" /\ r.i = i /\ r.body = req[w].body
    BY <1>0 DEF Requests
  <2>4. Compared(req[w], Stored, body')
    BY <2>2, ComparedIsKept
  <2>5. Compared(r, Stored, body')
    BY <1>10, <2>2, <2>3, <2>4 DEF Mint, Compared
  <2>6. req' = [req EXCEPT ![w] = r]
    BY <2>1
  <2> HIDE DEF r
  <2>7. QED
    BY <1>4, <2>2, <2>5, <2>6, NoNewImage
<1>11. CASE Count(w)
  <2>1. CASE End(w)
    BY <1>3, <1>4, <1>11, <2>1 DEF Count
  <2>2. CASE Goto(w, "image")
    <3> DEFINE r == [req[w] EXCEPT !.pc = "image"]
    <3>1. r.pc = "image" /\ r.i = req[w].i /\ r.body = req[w].body
      BY <1>0 DEF Requests
    <3>2. Compared(r, Stored, body)
      BY <1>0, <1>11, <3>1 DEF Count, Compared
    <3>3. req' = [req EXCEPT ![w] = r] /\ UNCHANGED <<tree, body>>
      BY <1>11, <2>2 DEF Count, Goto
    <3> HIDE DEF r
    <3>4. QED
      BY <1>4, <3>2, <3>3, NoNewImage
  <2>3. QED
    BY <1>11, <2>1, <2>2 DEF Count
<1>12. CASE WriteImage(w)
  <2>0. Stored' \subseteq Stored \union {req[w].i}
    BY <1>12, StoredChanges DEF WriteImage
  <2> DEFINE r == [req[w] EXCEPT !.pc = "thumb"]
  <2>1. /\ Stored' \subseteq Stored \union {req[w].i} /\ UNCHANGED body
        /\ req' = [req EXCEPT ![w] = r] /\ req[w].pc = "image"
    BY <1>12, <2>0 DEF WriteImage, Goto
  <2>2. r.pc = "thumb"
    BY <1>0 DEF Requests
  <2>3. Single(Stored', body)
    BY <1>0, <2>1 DEF Single, Compared
  <2>4. ASSUME NEW u \in Workers PROVE Compared(req'[u], Stored', body)
    <3>1. CASE u = w
      BY <2>1, <2>2, <3>1 DEF Compared, TInv, TypeOK
    <3>2. CASE u # w
      <4>1. req'[u] = req[u] /\ req[u].pc \notin {"compare", "count", "image"}
        BY <2>1, <3>2 DEF UploadsOverlap, Stores, TInv, TypeOK
      <4>2. QED
        BY <4>1 DEF Compared
    <3>3. QED
      BY <3>1, <3>2
  <2>5. QED
    BY <2>1, <2>3, <2>4 DEF DInv
<1>13. QED
  BY <1>5, <1>6, <1>7, <1>8, <1>9, <1>10, <1>11, <1>12 DEF RequestStep

\* The invariant is inductive as long as no two uploads overlap.
LEMMA DuplicateStep ==
  ASSUME TInv, DInv, ~UploadsOverlap, [Next]_vars
  PROVE  DInv'
<1>1. ASSUME NEW w \in Workers, NewRequest(w) PROVE DInv'
  <2>1. ASSUME NEW r, Ask(w, r), r.pc \notin {"compare", "count", "image"} PROVE DInv'
    <3>1. Stored' = Stored /\ UNCHANGED body /\ req' = [req EXCEPT ![w] = r]
      BY <2>1 DEF Ask, disk, Stored
    <3>2. Compared(r, Stored, body)
      BY <2>1 DEF Compared
    <3>3. QED
      BY <3>1, <3>2, NoNewImage
  <2>2. QED
    BY <1>1, <2>1 DEF NewRequest, AskRepair, AskUpload, AskComment, AskDelete, AskRetire, Idle
<1>2. CASE Expire \/ SweepStart \/ SweepRows \/ EditStart \/ EditEnd
  BY <1>2, NobodyMoves DEF Expire, SweepStart, SweepRows, EditStart, EditEnd, disk, Stored
<1>3. CASE SweepFile
  BY <1>3, NobodyMoves, StoredChanges DEF SweepFile
<1>4. CASE EditWrite
  BY <1>4, NobodyMoves, StoredChanges DEF EditWrite
<1>5. ASSUME NEW f \in Flushers, FlushStep(f) PROVE DInv'
  <2>1. UNCHANGED <<disk, req>>
    BY <1>5 DEF FlushStep, FlushTake, Probe, ScanRaises, DropRaised, ListDirectory, ReadImages,
         UpsertRow
  <2>2. QED
    BY <2>1, NobodyMoves DEF disk, Stored
<1>6. CASE Crash
  <2>1. UNCHANGED <<tree, body>> /\ \A w \in Workers : req'[w] = Idle
    BY <1>6 DEF Crash, disk
  <2>2. Stored' = Stored /\ Single(Stored, body)
    BY <2>1 DEF Stored, DInv
  <2>3. QED
    BY <2>1, <2>2 DEF DInv, Compared, Idle
<1>7. CASE UNCHANGED vars
  BY <1>7, NobodyMoves DEF vars, Stored
<1>8. QED
  BY <1>1, <1>2, <1>3, <1>4, <1>5, <1>6, <1>7, RequestKeepsSingle DEF Next

\* The duplicate check keeps every content single, whatever is deleted, purged
\* or interrupted, unless uploads overlap.
THEOREM ContentsSingle == Spec => ([]~UploadsOverlap => []NoTwins)
<1>1. Init => DInv
  BY DEF Init, DInv, Single, Compared, Idle, Stored, Image, Vehicle
<1>2. TInv /\ DInv /\ ~UploadsOverlap /\ [Next]_vars => DInv'
  BY DuplicateStep
<1>3. DInv => NoTwins
  BY DEF DInv, Single, NoTwins
<1>4. QED
  BY <1>1, <1>2, <1>3, Typed, PTL DEF Spec

------------------------------------------------------------------------------
(* Rows that a live vehicle must have.  First, what stands in the directory, *)
(* and in whose hands: an upload has its image to itself until it is         *)
(* written, so a deletion, once it has unlinked its image, will not see it   *)
(* come back before it removes the row.                                      *)

Holding == {"count", "image", "thumb", "note", "unlink", "unthumb", "unnote", "unrow"}
Writing == {"count", "image"}
Deleting(r) == r.op = "delete" /\ r.pc \in {"unthumb", "unnote", "unrow"}

HInv ==
  \A w \in Workers :
    /\ req[w].pc \in Holding => body[req[w].i] # None
    /\ req[w].pc \in Writing =>
         /\ Image(req[w].i) \notin tree
         /\ \A u \in Workers \ {w} : req[u].pc \in Holding => req[u].i # req[w].i
    /\ req[w].pc \in {"unlink", "unthumb", "unrow"} => req[w].op = "delete"
    /\ Deleting(req[w]) => Image(req[w].i) \notin tree

\* The stored images are those of minted ids.
LEMMA StoredAreMinted ==
  ASSUME TInv, NEW i \in Images, Image(i) \in tree
  PROVE  body[i] # None
<1>1. Image(i) \in tree \intersect Of({"image", "odd", "thumb"}) /\ Image(i)[2] = i
  BY DEF Of, Image
<1>2. QED
  BY <1>1 DEF TInv, TypeOK

\* A step of w that stores no image keeps the invariant if its new record fits.
LEMMA HolderMoves ==
  ASSUME TInv, HInv, NEW w \in Workers, NEW r \in Requests, req' = [req EXCEPT ![w] = r],
         \A i \in Images : body[i] # None => body'[i] # None,
         \A i \in Images : Image(i) \in tree' => Image(i) \in tree,
         r.pc \in Holding =>
           /\ r.i \in Images /\ body'[r.i] # None
           /\ \A u \in Workers \ {w} : req[u].pc \in Writing => req[u].i # r.i,
         r.pc \in Writing =>
           /\ Image(r.i) \notin tree
           /\ \A u \in Workers \ {w} : req[u].pc \in Holding => req[u].i # r.i,
         r.pc \in {"unlink", "unthumb", "unrow"} => r.op = "delete",
         Deleting(r) => Image(r.i) \notin tree'
  PROVE  HInv'
<1>1. req'[w] = r /\ \A u \in Workers \ {w} : req'[u] = req[u]
  BY DEF TInv, TypeOK
<1>2. \A u \in Workers : req[u].pc \in Holding \union Writing \/ Deleting(req[u]) => req[u].i \in Images
  BY RequestRecords DEF Has, Holding, Writing, Deleting
<1>3. \A u \in Workers : Writing \subseteq Holding
  BY DEF Writing, Holding
<1>4. ASSUME NEW u \in Workers
      PROVE  /\ req'[u].pc \in Holding => body'[req'[u].i] # None
             /\ req'[u].pc \in Writing =>
                  /\ Image(req'[u].i) \notin tree'
                  /\ \A v \in Workers \ {u} : req'[v].pc \in Holding => req'[v].i # req'[u].i
             /\ req'[u].pc \in {"unlink", "unthumb", "unrow"} => req'[u].op = "delete"
             /\ Deleting(req'[u]) => Image(req'[u].i) \notin tree'
  <2>1. CASE u = w
    BY <1>1, <1>3, <2>1
  <2>2. CASE u # w
    <3>1. req'[u] = req[u]
      BY <1>1, <2>2
    <3>2. req[u].pc \in Writing =>
             \A v \in Workers \ {u} : req'[v].pc \in Holding => req'[v].i # req[u].i
      BY <1>1, <2>2 DEF HInv
    <3>3. QED
      BY <1>2, <3>1, <3>2 DEF HInv
  <2>3. QED
    BY <2>1, <2>2
<1>5. QED
  BY <1>4 DEF HInv, Deleting

\* In particular one that goes on with the image it holds, or ends.
LEMMA HolderGoesOn ==
  ASSUME TInv, HInv, NEW w \in Workers, UNCHANGED body,
         \A i \in Images : Image(i) \in tree' => Image(i) \in tree,
         \/ End(w)
         \/ \E p \in Points :
              /\ Goto(w, p)
              /\ p \in Holding => req[w].pc \in Holding
              /\ p \in Writing => req[w].pc \in Writing
              /\ p \in {"unlink", "unthumb", "unrow"} => req[w].op = "delete"
              /\ req[w].op = "delete" /\ p \in {"unthumb", "unnote", "unrow"} =>
                   Image(req[w].i) \notin tree'
  PROVE  HInv'
<1>1. CASE End(w)
  <2>1. Idle \in Requests /\ Idle.pc = "idle" /\ ~Deleting(Idle)
    BY RequestRecords DEF Idle, Deleting
  <2>2. QED
    BY <1>1, <2>1, HolderMoves DEF End, Holding, Writing
<1>2. ASSUME NEW p \in Points, Goto(w, p),
             p \in Holding => req[w].pc \in Holding,
             p \in Writing => req[w].pc \in Writing,
             p \in {"unlink", "unthumb", "unrow"} => req[w].op = "delete",
             req[w].op = "delete" /\ p \in {"unthumb", "unnote", "unrow"} =>
               Image(req[w].i) \notin tree'
      PROVE  HInv'
  <2> DEFINE r == [req[w] EXCEPT !.pc = p]
  <2>1. r \in Requests /\ r.pc = p /\ r.i = req[w].i /\ r.op = req[w].op
    BY RequestRecords DEF Requests
  <2>2. req' = [req EXCEPT ![w] = r]
    BY <1>2 DEF Goto
  <2>3. req[w].pc \in Holding =>
          /\ req[w].i \in Images /\ body[req[w].i] # None
          /\ \A u \in Workers \ {w} : req[u].pc \in Writing => req[u].i # req[w].i
    BY RequestRecords DEF Has, Holding, HInv
  <2>4. req[w].pc \in Writing =>
          /\ Image(req[w].i) \notin tree
          /\ \A u \in Workers \ {w} : req[u].pc \in Holding => req[u].i # req[w].i
    BY DEF HInv
  <2>5. Deleting(r) => Image(r.i) \notin tree'
    BY <1>2, <2>1 DEF Deleting
  <2> HIDE DEF r
  <2>6. QED
    BY <1>2, <2>1, <2>2, <2>3, <2>4, <2>5, HolderMoves
<1>3. QED
  BY <1>1, <1>2

\* Only the write of an image stores one.
LEMMA ImagesChange ==
  /\ \A k : Unlink(k) => \A i : Image(i) \in tree' => Image(i) \in tree
  /\ \A i : Create(Odd(i)) \/ Create(Thumb(i)) \/ Create(Note(i)) =>
       \A j : Image(j) \in tree' => Image(j) \in tree
  /\ Create(Repair) \/ tree' = tree \union {Vehicle} =>
       \A j : Image(j) \in tree' => Image(j) \in tree
  /\ \A i : Create(Image(i)) => \A j : Image(j) \in tree' => Image(j) \in tree \/ j = i
<1>1. \A i, j : /\ Image(i) # Odd(j) /\ Image(i) # Thumb(j) /\ Image(i) # Note(j)
                /\ Image(i) # Repair /\ Image(i) # Vehicle
  BY DEF Image, Odd, Thumb, Note, Repair, Vehicle
<1>2. \A i, j : Image(i) = Image(j) => i = j
  BY DEF Image
<1>3. QED
  BY <1>1, <1>2 DEF Unlink, Create

\* A new request takes an image that is stored, which no upload is writing.
LEMMA NewHolder ==
  ASSUME TInv, HInv, NEW w \in Workers, NewRequest(w)
  PROVE  HInv'
<1>1. ASSUME NEW r \in Requests, Ask(w, r), r.pc \notin Writing, r.pc \in Holding => r.i \in Stored,
             r.pc \notin {"unthumb", "unrow"}, r.op = "delete" <=> r.pc = "unlink"
      PROVE  HInv'
  <2>1. UNCHANGED <<tree, body>> /\ req' = [req EXCEPT ![w] = r]
    BY <1>1 DEF Ask, disk
  <2>2. r.pc \in Holding =>
          /\ r.i \in Images /\ body[r.i] # None
          /\ \A u \in Workers \ {w} : req[u].pc \in Writing => req[u].i # r.i
    BY <1>1, StoredAreMinted DEF Stored, HInv
  <2>3. ~Deleting(r)
    BY <1>1 DEF Deleting
  <2>4. QED
    BY <1>1, <2>1, <2>2, <2>3, HolderMoves
<1>2. CASE AskRepair(w) \/ AskRetire(w)
  <2>1. \A p \in {"repair", "retire"} :
          LET r == [Idle EXCEPT !.op = p, !.pc = p] IN r \in Requests /\ r.pc = p /\ r.op = p
    BY DEF Idle, Requests, Points
  <2>2. QED
    BY <1>1, <1>2, <2>1 DEF AskRepair, AskRetire, Holding, Writing
<1>3. ASSUME NEW u \in Uploads, AskUpload(w, u) PROVE HInv'
  <2> DEFINE r == [Idle EXCEPT !.op = "upload", !.body = u.body, !.noted = u.noted,
                               !.listed = u.listed, !.pc = "list"]
  <2>1. r \in Requests /\ r.pc = "list" /\ r.op = "upload"
    BY UploadsAssumption DEF Idle, Requests, Points
  <2>2. QED
    BY <1>1, <1>3, <2>1 DEF AskUpload, Holding, Writing
<1>4. ASSUME NEW i \in Images, NEW noted \in BOOLEAN, AskComment(w, i, noted) PROVE HInv'
  <2> DEFINE r == [Idle EXCEPT !.op = "comment", !.i = i, !.pc = IF noted THEN "note" ELSE "unnote"]
  <2>1. r \in Requests /\ r.i = i /\ r.op = "comment" /\ r.pc \in {"note", "unnote"}
    BY DEF Idle, Requests, Points
  <2>2. Ask(w, r) /\ i \in Stored
    BY <1>4 DEF AskComment
  <2> HIDE DEF r
  <2>3. QED
    BY <1>1, <2>1, <2>2 DEF Holding, Writing
<1>5. ASSUME NEW i \in Images, AskDelete(w, i) PROVE HInv'
  <2> DEFINE r == [Idle EXCEPT !.op = "delete", !.i = i, !.pc = "unlink"]
  <2>1. r \in Requests /\ r.i = i /\ r.op = "delete" /\ r.pc = "unlink"
    BY DEF Idle, Requests, Points
  <2>2. Ask(w, r) /\ i \in Stored
    BY <1>5 DEF AskDelete
  <2> HIDE DEF r
  <2>3. QED
    BY <1>1, <2>1, <2>2 DEF Holding, Writing
<1>6. QED
  BY <1>2, <1>3, <1>4, <1>5, ImagesAssumption DEF NewRequest

\* A running request keeps the invariant.
LEMMA RequestHolds ==
  ASSUME TInv, HInv, NEW w \in Workers, RequestStep(w)
  PROVE  HInv'
<1>0. req[w] \in Requests /\ Has(req[w], body, num)
  BY RequestRecords
<1> USE DEF Holding, Writing
<1>1. CASE WriteRepair(w) \/ WriteThumb(w) \/ WriteNote(w)
  <2>1. UNCHANGED body /\ \A i \in Images : Image(i) \in tree' => Image(i) \in tree
    BY <1>1, ImagesChange DEF WriteRepair, WriteThumb, WriteNote
  <2>2. End(w) \/ (Goto(w, "note") /\ req[w].pc = "thumb")
    BY <1>1 DEF WriteRepair, WriteThumb, WriteNote
  <2>3. QED
    BY <2>1, <2>2, HolderGoesOn DEF Points
<1>2. CASE UnlinkImage(w)
  <2>1. /\ UNCHANGED body /\ Goto(w, "unthumb") /\ req[w].pc = "unlink" /\ req[w].op = "delete"
        /\ Image(req[w].i) \notin tree' /\ \A i \in Images : Image(i) \in tree' => Image(i) \in tree
    BY <1>2 DEF UnlinkImage, Unlink, HInv
  <2>2. QED
    BY <2>1, HolderGoesOn DEF Points
<1>3. CASE UnlinkThumb(w)
  <2>1. /\ UNCHANGED body /\ Goto(w, "unnote") /\ req[w].pc = "unthumb" /\ req[w].op = "delete"
        /\ \A i \in Images : Image(i) \in tree' => Image(i) \in tree
    BY <1>3 DEF UnlinkThumb, Unlink, HInv
  <2>2. req[w].i \in Images /\ Image(req[w].i) \notin tree
    BY <1>0, <2>1 DEF HInv, Deleting, Has
  <2>3. QED
    BY <2>1, <2>2, HolderGoesOn DEF Points
<1>4. CASE UnlinkNote(w)
  <2>1. /\ UNCHANGED body /\ req[w].pc = "unnote"
        /\ End(w) \/ (Goto(w, "unrow") /\ req[w].op = "delete")
        /\ \A i \in Images : Image(i) \in tree' => Image(i) \in tree
    BY <1>4 DEF UnlinkNote, Unlink
  <2>2. req[w].i \in Images /\ (req[w].op = "delete" => Image(req[w].i) \notin tree)
    BY <1>0, <2>1 DEF HInv, Deleting, Has
  <2>3. QED
    BY <2>1, <2>2, HolderGoesOn DEF Points
<1>5. CASE RemoveRow(w) \/ RemoveRetired(w) \/ WriteRetired(w) \/ RetireGone(w)
  <2>1. UNCHANGED body /\ (End(w) \/ Goto(w, "unrows"))
    BY <1>5 DEF RemoveRow, RemoveRetired, WriteRetired, RetireGone, disk
  <2>2. \A j : Image(j) \in tree' => Image(j) \in tree
    BY <1>5, ImagesChange DEF RemoveRow, RemoveRetired, WriteRetired, RetireGone, disk
  <2>3. QED
    BY <2>1, <2>2, HolderGoesOn DEF Points
<1>6. CASE ListImages(w)
  <2> DEFINE r == [req[w] EXCEPT !.pc = "compare", !.left = Stored]
  <2>1. r \in Requests /\ r.pc = "compare"
    BY <1>0 DEF Requests, Points, Stored
  <2>2. (req' = [req EXCEPT ![w] = r] \/ End(w)) /\ UNCHANGED <<tree, body>>
    BY <1>6 DEF ListImages, disk
  <2> HIDE DEF r
  <2>3. CASE End(w)
    BY <2>2, <2>3, HolderGoesOn
  <2>4. CASE req' = [req EXCEPT ![w] = r]
    BY <2>1, <2>2, <2>4, HolderMoves DEF Deleting
  <2>5. QED
    BY <2>2, <2>3, <2>4
<1>7. CASE Compare(w)
  <2>1. PICK i \in req[w].left : End(w) \/ req' = [req EXCEPT ![w].left = @ \ {i}]
    BY <1>7 DEF Compare
  <2> DEFINE r == [req[w] EXCEPT !.left = @ \ {i}]
  <2>2. r \in Requests /\ r.pc = "compare" /\ UNCHANGED <<tree, body>>
    BY <1>0, <1>7 DEF Compare, Requests, Points, disk
  <2>3. End(w) \/ req' = [req EXCEPT ![w] = r]
    BY <2>1
  <2> HIDE DEF r
  <2>4. QED
    BY <2>2, <2>3, HolderMoves, HolderGoesOn DEF Deleting
<1>8. CASE Mint(w)
  <2>1. PICK i \in Images :
          /\ body[i] = None
          /\ body' = [body EXCEPT ![i] = req[w].body]
          /\ req' = [req EXCEPT ![w] = [req[w] EXCEPT !.i = i, !.pc = "count"]]
    BY <1>8 DEF Mint
  <2> DEFINE r == [req[w] EXCEPT !.i = i, !.pc = "count"]
  <2>2. r \in Requests /\ r.pc = "count" /\ r.i = i
    BY <1>0 DEF Requests, Points
  <2>3. req[w].body # None /\ UNCHANGED tree
    BY <1>0, <1>8, UploadsAssumption DEF Mint, Has
  <2>4. body'[i] # None /\ \A j \in Images : body[j] # None => body'[j] # None
    BY <2>1, <2>3 DEF TInv, TypeOK
  <2>5. Image(i) \notin tree
    BY <2>1, StoredAreMinted
  <2>6. \A u \in Workers : req[u].pc \in Holding => req[u].i # i
    BY <2>1 DEF HInv
  <2>7. req' = [req EXCEPT ![w] = r]
    BY <2>1
  <2> HIDE DEF r
  <2>8. QED
    BY <2>2, <2>3, <2>4, <2>5, <2>6, <2>7, HolderMoves DEF Deleting
<1>9. CASE Count(w)
  <2>1. UNCHANGED <<tree, body>> /\ (End(w) \/ Goto(w, "image")) /\ req[w].pc = "count"
    BY <1>9 DEF Count
  <2>2. QED
    BY <2>1, HolderGoesOn DEF Points
<1>10. CASE WriteImage(w)
  <2>0. \A j : Image(j) \in tree' => Image(j) \in tree \/ j = req[w].i
    BY <1>10, ImagesChange DEF WriteImage
  <2>1. /\ UNCHANGED body /\ req' = [req EXCEPT ![w] = [req[w] EXCEPT !.pc = "thumb"]]
        /\ req[w].pc = "image" /\ req[w].i \in Images
        /\ \A j : Image(j) \in tree' => Image(j) \in tree \/ j = req[w].i
    BY <1>0, <1>10, <2>0 DEF WriteImage, Goto, Has
  <2>2. /\ req'[w].pc = "thumb" /\ req'[w].i = req[w].i
        /\ \A u \in Workers \ {w} : req'[u] = req[u]
    BY <1>0, <2>1 DEF TInv, TypeOK, Requests
  <2>3. \A u \in Workers : req[u].pc \in Holding => req[u].i \in Images
    BY RequestRecords DEF Has
  <2>4. \A u \in Workers \ {w} : Image(req[u].i) \in tree' /\ req[u].pc \in Holding => Image(req[u].i) \in tree
    BY <2>1 DEF HInv
  <2>5. ASSUME NEW u \in Workers
        PROVE  /\ req'[u].pc \in Holding => body[req'[u].i] # None
               /\ req'[u].pc \in Writing =>
                    /\ Image(req'[u].i) \notin tree'
                    /\ \A v \in Workers \ {u} : req'[v].pc \in Holding => req'[v].i # req'[u].i
               /\ req'[u].pc \in {"unlink", "unthumb", "unrow"} => req'[u].op = "delete"
               /\ Deleting(req'[u]) => Image(req'[u].i) \notin tree'
    <3>1. CASE u = w
      BY <2>1, <2>2, <3>1 DEF HInv, Deleting
    <3>2. CASE u # w
      <4>1. req'[u] = req[u]
        BY <2>2, <3>2
      <4>2. req[u].pc \in Writing =>
              \A v \in Workers \ {u} : req'[v].pc \in Holding => req'[v].i # req[u].i
        BY <2>1, <2>2, <3>2 DEF HInv
      <4>3. QED
        BY <2>4, <3>2, <4>1, <4>2 DEF HInv, Deleting
    <3>3. QED
      BY <3>1, <3>2
  <2>6. QED
    BY <2>1, <2>5 DEF HInv, Deleting
<1>11. QED
  BY <1>1, <1>2, <1>3, <1>4, <1>5, <1>6, <1>7, <1>8, <1>9, <1>10 DEF RequestStep

\* So does every other step.
LEMMA HolderStep ==
  ASSUME TInv, HInv, [Next]_vars
  PROVE  HInv'
<1>1. ASSUME UNCHANGED <<body, req>>, \A i \in Images : Image(i) \in tree' => Image(i) \in tree
      PROVE  HInv'
  <2>1. \A w \in Workers : req[w].pc \in Holding \union Writing \/ Deleting(req[w]) => req[w].i \in Images
    BY RequestRecords DEF Has, Holding, Writing, Deleting
  <2>2. QED
    BY <1>1, <2>1 DEF HInv, Deleting
<1>2. CASE Expire \/ SweepStart \/ SweepRows \/ EditStart \/ EditEnd
  BY <1>1, <1>2 DEF Expire, SweepStart, SweepRows, EditStart, EditEnd, disk
<1>3. CASE SweepFile \/ EditWrite
  BY <1>1, <1>3, ImagesChange DEF SweepFile, EditWrite
<1>4. ASSUME NEW f \in Flushers, FlushStep(f) PROVE HInv'
  <2>1. UNCHANGED <<disk, req>>
    BY <1>4 DEF FlushStep, FlushTake, Probe, ScanRaises, DropRaised, ListDirectory, ReadImages,
         UpsertRow
  <2>2. QED
    BY <1>1, <2>1 DEF disk
<1>5. CASE Crash
  BY <1>5 DEF Crash, HInv, Idle, Holding, Writing, Deleting
<1>6. CASE UNCHANGED vars
  BY <1>1, <1>6 DEF vars
<1>7. QED
  BY <1>2, <1>3, <1>4, <1>5, <1>6, RequestHolds, NewHolder DEF Next

(* Next, the vehicle while it is live: nothing of it is being purged, its    *)
(* rows are not being removed, and before the repair is created there is     *)
(* nothing in its directory, in the index or on the way there.               *)

KindOf(r) == IF r = Repair THEN {Repair} ELSE Of({"image"})

LiveInv ==
  stage = "live" =>
    /\ sweeping = "no" /\ Vehicle \in tree
    /\ \A w \in Workers : req[w].pc # "unrows"

BareInv ==
  stage = "live" /\ Repair \notin tree =>
    /\ tree \intersect Of({"image"}) = {} /\ rows = {}
    /\ pending = {} /\ \A f \in Flushers : batch[f] = {}
    /\ \A w \in Workers : req[w].pc \in {"idle", "repair", "retire"}

\* A flush that handles the repair's key scans nothing and finds the repair,
\* one that handles an image's key finds images.
LookInv ==
  \A f \in Flushers :
    /\ look[f].pc \in {"raised", "read"} => look[f].key # Repair
    /\ look[f].pc \in {"read", "apply"} => look[f].found \subseteq KindOf(look[f].key)

LInv == LiveInv /\ BareInv /\ LookInv

\* An image is not the repair, nor the vehicle.
LEMMA Names ==
  /\ Repair # Vehicle /\ Repair \notin Of({"image"}) /\ Vehicle \notin Of({"image"})
  /\ \A i \in Images : Image(i) \in Of({"image"}) /\ Image(i) # Repair
  /\ \A k \in Of({"image"}) : \E i \in Images : k = Image(i)
  /\ \A i \in Images : Image(i) \in Rows /\ Image(i) \in Watched
  /\ Rows = Of({"image"}) \union {Repair} /\ Watched = Rows
BY DEF Of, Image, Repair, Vehicle, Rows, Watched

\* A new request is one of a few, and nothing else changes.
LEMMA NewRequestIs ==
  ASSUME TInv, NEW w \in Workers, NewRequest(w)
  PROVE  /\ UNCHANGED <<disk, rows, others, watcher, crashes>>
         /\ req[w] = Idle /\ \A u \in Workers \ {w} : req'[u] = req[u]
         /\ req'[w].pc \in {"repair", "list", "note", "unnote", "unlink", "retire"}
         /\ req'[w].op = "delete" <=> req'[w].pc = "unlink"
         /\ Repair \notin tree /\ Stored = {} => req'[w].pc \in {"repair", "retire"}
<1> DEFINE Goal ==
      /\ UNCHANGED <<disk, rows, others, watcher, crashes>>
      /\ req[w] = Idle /\ \A u \in Workers \ {w} : req'[u] = req[u]
      /\ req'[w].pc \in {"repair", "list", "note", "unnote", "unlink", "retire"}
      /\ req'[w].op = "delete" <=> req'[w].pc = "unlink"
      /\ Repair \notin tree /\ Stored = {} => req'[w].pc \in {"repair", "retire"}
<1>1. ASSUME NEW r, Ask(w, r),
             r.pc \in {"repair", "list", "note", "unnote", "unlink", "retire"},
             r.op = "delete" <=> r.pc = "unlink",
             Repair \notin tree /\ Stored = {} => r.pc \in {"repair", "retire"}
      PROVE  Goal
  <2>1. req'[w] = r /\ \A u \in Workers \ {w} : req'[u] = req[u]
    BY <1>1 DEF Ask, TInv, TypeOK
  <2>2. QED
    BY <1>1, <2>1 DEF Ask
<1>2. CASE AskRepair(w)
  BY <1>1, <1>2 DEF AskRepair, Idle
<1>3. ASSUME NEW u \in Uploads, AskUpload(w, u) PROVE Goal
  BY <1>1, <1>3 DEF AskUpload, Idle
<1>4. ASSUME NEW i \in Images, NEW noted \in BOOLEAN, AskComment(w, i, noted) PROVE Goal
  BY <1>1, <1>4 DEF AskComment, Idle
<1>5. ASSUME NEW i \in Images, AskDelete(w, i) PROVE Goal
  BY <1>1, <1>5 DEF AskDelete, Idle
<1>6. CASE AskRetire(w)
  BY <1>1, <1>6 DEF AskRetire, Idle
<1>7. QED
  BY <1>2, <1>3, <1>4, <1>5, <1>6, ImagesAssumption DEF NewRequest

\* Nothing but an update makes a vehicle live again, and nothing deletes a file
\* of a live vehicle but an image, its thumbnail and its comment.
LEMMA StaysLive ==
  ASSUME TInv, LInv, ~StaleEdit, [Next]_vars, stage' = "live"
  PROVE  /\ stage = "live"
         /\ Vehicle \in tree' /\ (Repair \in tree => Repair \in tree')
         /\ ~SweepFile /\ ~SweepRows /\ ~SweepStart /\ ~Expire /\ UNCHANGED sweeping
<1>1. stage = "live"
  BY DEF StaleEdit, Next, NewRequest, RequestStep, FlushStep, vars, disk,
         AskRepair, AskUpload, AskComment, AskDelete, AskRetire, Ask,
         WriteRepair, ListImages, Compare, Mint, Count, WriteImage, WriteThumb, WriteNote,
         UnlinkImage, UnlinkThumb, UnlinkNote, RemoveRow, WriteRetired, RetireGone,
         RemoveRetired, EditStart, EditWrite, EditEnd,
         Expire, SweepStart, SweepFile, SweepRows, Crash,
         FlushTake, Probe, ScanRaises, DropRaised, ListDirectory, ReadImages, UpsertRow
<1>2. sweeping = "no" /\ sweep = {} /\ Vehicle \in tree
  BY <1>1 DEF LInv, LiveInv, TInv, TypeOK
<1>3. ~SweepFile /\ ~SweepRows /\ ~SweepStart /\ ~Expire
  BY <1>1, <1>2 DEF SweepFile, SweepRows, SweepStart, Expire
<1>4. ASSUME NEW w \in Workers, RequestStep(w)
      PROVE  /\ Vehicle \in tree' /\ (Repair \in tree => Repair \in tree')
             /\ UNCHANGED sweeping
  <2>1. CASE WriteRepair(w) \/ WriteImage(w) \/ WriteThumb(w) \/ WriteNote(w)
    BY <1>2, <2>1 DEF WriteRepair, WriteImage, WriteThumb, WriteNote, Create, others
  <2>2. CASE UnlinkImage(w) \/ UnlinkThumb(w) \/ UnlinkNote(w)
    <3>1. PICK k : tree' = tree \ {k} /\ k # Vehicle /\ k # Repair
      BY <2>2 DEF UnlinkImage, UnlinkThumb, UnlinkNote, Unlink, Image, Thumb, Note, Vehicle, Repair
    <3>2. QED
      BY <1>2, <2>2, <3>1 DEF UnlinkImage, UnlinkThumb, UnlinkNote, others
  <2>3. CASE \/ ListImages(w) \/ Compare(w) \/ Mint(w) \/ Count(w)
             \/ RemoveRow(w) \/ WriteRetired(w) \/ RetireGone(w) \/ RemoveRetired(w)
    BY <1>2, <2>3 DEF ListImages, Compare, Mint, Count, RemoveRow, WriteRetired, RetireGone, RemoveRetired,
                      disk, others
  <2>4. QED
    BY <1>4, <2>1, <2>2, <2>3 DEF RequestStep
<1>5. ASSUME NEW w \in Workers, NewRequest(w) PROVE UNCHANGED <<tree, sweeping>>
  BY <1>5 DEF NewRequest, AskRepair, AskUpload, AskComment, AskDelete, AskRetire, Ask, disk, others
<1>6. ASSUME NEW f \in Flushers, FlushStep(f) PROVE UNCHANGED <<tree, sweeping>>
  BY <1>6 DEF FlushStep, FlushTake, Probe, ScanRaises, DropRaised, ListDirectory, ReadImages,
         UpsertRow, disk, others
<1>7. CASE Crash
  BY <1>1, <1>2, <1>3, <1>7 DEF Crash, disk
<1>8. CASE UNCHANGED vars
  BY <1>1, <1>2, <1>3, <1>8 DEF vars
<1>9. EditStart \/ EditWrite \/ EditEnd => tree \subseteq tree' /\ UNCHANGED sweeping
  BY DEF EditStart, EditWrite, EditEnd, disk
<1>10. QED
  BY <1>1, <1>2, <1>3, <1>4, <1>5, <1>6, <1>7, <1>8, <1>9 DEF Next

\* Only WriteRetired begins to remove the rows, of a vehicle that it retires.
LEMMA LiveStep ==
  ASSUME TInv, LInv, ~StaleEdit, [Next]_vars
  PROVE  LiveInv'
<1> SUFFICES ASSUME stage' = "live"
             PROVE  /\ sweeping' = "no" /\ Vehicle \in tree'
                    /\ \A w \in Workers : req'[w].pc # "unrows"
  BY DEF LiveInv
<1>1. stage = "live" /\ Vehicle \in tree' /\ sweeping' = "no"
      /\ ~SweepFile /\ ~SweepRows /\ ~SweepStart /\ ~Expire
  BY StaysLive DEF LInv, LiveInv
<1>2. \A w \in Workers : req[w].pc # "unrows" /\ Vehicle \in tree
  BY <1>1 DEF LInv, LiveInv
<1>3. \A w \in Workers : req[w] \in Requests
  BY RequestRecords
<1>4. ASSUME NEW w \in Workers, NEW u \in Workers, RequestStep(w)
      PROVE  req'[u].pc # "unrows"
  <2>1. PICK r : req' = [req EXCEPT ![w] = r] /\ r.pc # "unrows"
    <3>1. \A p \in Points : [req[w] EXCEPT !.pc = p].pc = p
      BY <1>3 DEF Requests
    <3>2. Idle.pc # "unrows"
      BY DEF Idle
    <3>3. ~WriteRetired(w)
      BY <1>1, <1>2 DEF WriteRetired
    <3>4. CASE \E p \in Points : p # "unrows" /\ Goto(w, p)
      BY <3>1, <3>4 DEF Goto
    <3>5. CASE End(w)
      BY <3>2, <3>5 DEF End
    <3>6. CASE ListImages(w) \/ Compare(w) \/ Mint(w)
      <4>1. \A i, S : [req[w] EXCEPT !.pc = "compare", !.left = S].pc = "compare"
                      /\ [req[w] EXCEPT !.i = i, !.pc = "count"].pc = "count"
                      /\ [req[w] EXCEPT !.left = S].pc = req[w].pc
        BY <1>3 DEF Requests
      <4>2. CASE ListImages(w)
        BY <3>2, <4>1, <4>2 DEF ListImages, End
      <4>3. CASE Compare(w)
        <5>1. PICK i \in req[w].left : End(w) \/ req' = [req EXCEPT ![w].left = @ \ {i}]
          BY <4>3 DEF Compare
        <5>2. CASE End(w)
          BY <3>2, <5>2 DEF End
        <5>3. CASE req' = [req EXCEPT ![w] = [req[w] EXCEPT !.left = @ \ {i}]]
          BY <1>2, <4>1, <5>3
        <5>4. QED
          BY <5>1, <5>2, <5>3
      <4>4. CASE Mint(w)
        BY <4>1, <4>4 DEF Mint
      <4>5. QED
        BY <3>6, <4>2, <4>3, <4>4
    <3>7. QED
      BY <1>4, <3>3, <3>4, <3>5, <3>6
         DEF RequestStep, WriteRepair, Count, WriteImage, WriteThumb, WriteNote,
             UnlinkImage, UnlinkThumb, UnlinkNote, RemoveRow, RetireGone, RemoveRetired, Points
  <2>2. QED
    BY <1>2, <2>1 DEF TInv, TypeOK
<1>5. ASSUME NEW w \in Workers, NEW u \in Workers, NewRequest(w)
      PROVE  req'[u].pc # "unrows"
  BY <1>2, <1>5, NewRequestIs
<1>6. ASSUME NEW f \in Flushers, FlushStep(f) PROVE UNCHANGED req
  BY <1>6 DEF FlushStep, FlushTake, Probe, ScanRaises, DropRaised, ListDirectory, ReadImages,
         UpsertRow
<1>7. Crash => \A w \in Workers : req'[w].pc # "unrows"
  BY DEF Crash, Idle
<1>8. EditStart \/ EditWrite \/ EditEnd \/ UNCHANGED vars => UNCHANGED req
  BY DEF EditStart, EditWrite, EditEnd, vars
<1>9. QED
  BY <1>1, <1>2, <1>4, <1>5, <1>6, <1>7, <1>8 DEF Next

\* While there is no repair a live vehicle gets requests to create it or to
\* retire the vehicle, and no others.
LEMMA BareStep ==
  ASSUME TInv, LInv, ~StaleEdit, [Next]_vars
  PROVE  BareInv'
<1> SUFFICES ASSUME stage' = "live", Repair \notin tree'
             PROVE  /\ tree' \intersect Of({"image"}) = {} /\ rows' = {}
                    /\ pending' = {} /\ \A f \in Flushers : batch'[f] = {}
                    /\ \A w \in Workers : req'[w].pc \in {"idle", "repair", "retire"}
  BY DEF BareInv
<1>1. /\ stage = "live" /\ Vehicle \in tree /\ Repair \notin tree
      /\ ~SweepFile /\ ~SweepRows /\ ~SweepStart /\ ~Expire
  BY StaysLive DEF LInv, LiveInv
<1>2. /\ tree \intersect Of({"image"}) = {} /\ rows = {}
      /\ pending = {} /\ \A f \in Flushers : batch[f] = {}
      /\ \A w \in Workers : req[w].pc \in {"idle", "repair", "retire"}
  BY <1>1 DEF LInv, BareInv
<1>3. \A f \in Flushers : look[f].pc = "none" /\ ~FlushStep(f)
  <2>1. \A f \in Flushers : look[f].pc = "none"
    BY <1>2 DEF TInv, TypeOK
  <2>2. QED
    BY <1>2, <2>1 DEF FlushStep, FlushTake, W!Take, Probe, ScanRaises, DropRaised, ListDirectory,
                      ReadImages, UpsertRow
<1>4. ASSUME NEW w \in Workers, RequestStep(w) PROVE FALSE
  BY <1>1, <1>2, <1>4
     DEF RequestStep, WriteRepair, Create, ListImages, Compare, Mint, Count, WriteImage, WriteThumb,
         WriteNote, UnlinkImage, UnlinkThumb, UnlinkNote, RemoveRow, WriteRetired, RetireGone,
         RemoveRetired
<1>5. ASSUME NEW w \in Workers, NewRequest(w)
      PROVE  /\ UNCHANGED <<tree, rows, pending, batch>>
             /\ \A u \in Workers : req'[u].pc \in {"idle", "repair", "retire"}
  <2>1. Stored = {}
    BY <1>2, Names DEF Stored
  <2>2. QED
    BY <1>1, <1>2, <1>5, <2>1, NewRequestIs DEF disk, watcher
<1>6. CASE Crash
  BY <1>2, <1>6 DEF Crash, disk, Idle
<1>7. CASE UNCHANGED vars
  BY <1>2, <1>7 DEF vars
<1>8. CASE EditStart \/ EditWrite \/ EditEnd
  <2>1. tree' = tree \/ tree' = tree \union {Vehicle}
    BY <1>8 DEF EditStart, EditWrite, EditEnd, disk
  <2>2. UNCHANGED <<rows, req, pending, batch>>
    BY <1>8 DEF EditStart, EditWrite, EditEnd, watcher
  <2>3. QED
    BY <1>2, <2>1, <2>2, Names
<1>9. QED
  BY <1>1, <1>2, <1>3, <1>4, <1>5, <1>6, <1>7, <1>8 DEF Next

\* What a flush thread does to its own state: it begins with a key, goes on
\* with what it found, or is done.
LEMMA LookStep ==
  ASSUME TInv, LInv, [Next]_vars
  PROVE  LookInv'
<1>0. look \in [Flushers -> [key : Watched \union {None}, pc : {"none", "list", "raised", "read", "apply"},
                             found : SUBSET Rows]]
  BY DEF TInv, TypeOK
<1>1. ASSUME NEW f \in Flushers, NEW l, look' = [look EXCEPT ![f] = l],
             l.pc \in {"raised", "read"} => l.key # Repair,
             l.pc \in {"read", "apply"} => l.found \subseteq KindOf(l.key)
      PROVE  LookInv'
  BY <1>0, <1>1 DEF LInv, LookInv
<1>2. ASSUME NEW f \in Flushers, look' = [look EXCEPT ![f] = NoLook] PROVE LookInv'
  BY <1>1, <1>2 DEF NoLook
<1>3. UNCHANGED look => LookInv'
  BY DEF LInv, LookInv
<1>4. ASSUME NEW f \in Flushers, FlushStep(f) PROVE LookInv'
  <2>1. CASE FlushTake(f)
    BY <1>3, <2>1 DEF FlushTake
  <2>2. ASSUME NEW k \in Watched, Probe(f, k) PROVE LookInv'
    BY <1>1, <1>3, <2>2 DEF Probe
  <2>3. CASE ListDirectory(f)
    <3> DEFINE found == IF look[f].key = Repair THEN {Repair} ELSE {Image(i) : i \in Stored}
               p == IF look[f].key = Repair THEN "apply" ELSE "read"
               l == [look[f] EXCEPT !.found = found, !.pc = p]
    <3>1. l.pc = p /\ l.key = look[f].key /\ l.found = found
      BY <1>0
    <3>2. found \subseteq KindOf(look[f].key) /\ p # "raised"
      BY Names DEF KindOf, Stored
    <3>3. look' = [look EXCEPT ![f] = l] \/ look' = [look EXCEPT ![f] = NoLook]
      BY <2>3 DEF ListDirectory, Drop
    <3>4. p = "read" => look[f].key # Repair
      OBVIOUS
    <3> HIDE DEF l, found, p
    <3>5. QED
      BY <1>1, <1>2, <3>1, <3>2, <3>3, <3>4
  <2>4. CASE ReadImages(f)
    <3> DEFINE l == [look[f] EXCEPT !.pc = "apply"]
    <3>1. l.pc = "apply" /\ l.key = look[f].key /\ l.found = look[f].found
      BY <1>0
    <3>2. l.found \subseteq KindOf(l.key)
      BY <2>4, <3>1 DEF ReadImages, LInv, LookInv
    <3>3. look' = [look EXCEPT ![f] = l] \/ look' = [look EXCEPT ![f] = NoLook]
      BY <2>4 DEF ReadImages, Drop
    <3> HIDE DEF l
    <3>4. QED
      BY <1>1, <1>2, <3>1, <3>2, <3>3
  <2>5. CASE UpsertRow(f)
    <3>1. PICK r \in look[f].found :
            \/ look' = [look EXCEPT ![f] = NoLook]
            \/ look' = [look EXCEPT ![f] = [look[f] EXCEPT !.found = @ \ {r}]]
      BY <2>5 DEF UpsertRow, Drop
    <3> DEFINE l == [look[f] EXCEPT !.found = @ \ {r}]
    <3>2. l.pc = "apply" /\ l.key = look[f].key /\ l.found \subseteq look[f].found
      BY <1>0, <2>5 DEF UpsertRow
    <3>3. l.found \subseteq KindOf(l.key)
      BY <2>5, <3>2 DEF UpsertRow, LInv, LookInv
    <3>4. look' = [look EXCEPT ![f] = l] \/ look' = [look EXCEPT ![f] = NoLook]
      BY <3>1
    <3> HIDE DEF l
    <3>5. QED
      BY <1>1, <1>2, <3>2, <3>3, <3>4
  <2>6. CASE ScanRaises(f)
    <3> DEFINE l == [look[f] EXCEPT !.pc = "raised"]
    <3>1. l.pc = "raised" /\ l.key # Repair /\ look' = [look EXCEPT ![f] = l]
      BY <1>0, <2>6 DEF ScanRaises
    <3> HIDE DEF l
    <3>2. QED
      BY <1>1, <3>1
  <2>7. CASE DropRaised(f)
    BY <1>2, <2>7 DEF DropRaised, Drop
  <2>8. QED
    BY <1>4, <2>1, <2>2, <2>3, <2>4, <2>5, <2>6, <2>7 DEF FlushStep
<1>5. CASE Crash
  BY <1>5 DEF Crash, LookInv, NoLook
<1>6. ASSUME NEW w \in Workers, NewRequest(w) \/ RequestStep(w) PROVE UNCHANGED look
  BY <1>6 DEF NewRequest, AskRepair, AskUpload, AskComment, AskDelete, AskRetire, Ask,
              RequestStep, WriteRepair, ListImages, Compare, Mint, Count, WriteImage, WriteThumb,
              WriteNote, UnlinkImage, UnlinkThumb, UnlinkNote, RemoveRow, WriteRetired,
              RetireGone, RemoveRetired, watcher
<1>7. EditStart \/ EditWrite \/ EditEnd \/ Expire \/ SweepStart \/ SweepFile \/ SweepRows \/ UNCHANGED vars
        => UNCHANGED look
  BY DEF EditStart, EditWrite, EditEnd, Expire, SweepStart, SweepFile, SweepRows, watcher, vars
<1>8. QED
  BY <1>3, <1>4, <1>5, <1>6, <1>7 DEF Next

\* These facts hold of every reachable state, those about the live vehicle
\* unless an update brings a retired one back.
THEOREM Ordered == Spec => []HInv /\ ([]~StaleEdit => []LInv)
<1>1. Init => HInv /\ LInv
  <2> SUFFICES ASSUME Init PROVE HInv /\ LInv
    OBVIOUS
  <2>1. HInv
    BY DEF Init, HInv, Idle, Holding, Writing, Deleting
  <2>2. LInv
    BY Names DEF Init, LInv, LiveInv, BareInv, LookInv, Idle, NoLook, W!Init
  <2>3. QED
    BY <2>1, <2>2
<1>2. TInv /\ HInv /\ [Next]_vars => HInv'
  BY HolderStep
<1>3. TInv /\ LInv /\ ~StaleEdit /\ [Next]_vars => LInv'
  BY LiveStep, BareStep, LookStep DEF LInv
<1>4. QED
  BY <1>1, <1>2, <1>3, Typed, PTL DEF Spec

(* The rows themselves.  A row that a file of a live vehicle should have is  *)
(* in the index, or on its way there: a key that leads to it is pending, or  *)
(* is in a batch and its handler has not listed the directory yet, or that   *)
(* handler has found it and will upsert it.  A handler that is still reading *)
(* counts only if all it found is there, for otherwise it will drop its key. *)

Pins(l, r) == r \in l.found /\ (l.pc = "apply" \/ (l.pc = "read" /\ l.found \subseteq tree))

\* A key that is in a batch and whose directory is yet to be listed.
Awaits(l, k) == ~(l.key = k /\ l.pc \in {"read", "apply"})

Covered(r) ==
  \/ r \in rows
  \/ KindOf(r) \intersect pending # {}
  \/ \E f \in Flushers : \E k \in KindOf(r) \intersect batch[f] : Awaits(look[f], k)
  \/ \E f \in Flushers : Pins(look[f], r)

CoveredWhileLive(r) == stage = "live" /\ crashes = 0 /\ r \in tree => Covered(r)

RepairInv == CoveredWhileLive(Repair)
MInv == \A r \in Rows : CoveredWhileLive(r)

\* Nothing that is on its way is lost by a step that leaves the flushes alone.
LEMMA CoverStays ==
  ASSUME NEW r, Covered(r), r \in rows => r \in rows', pending \subseteq pending',
         UNCHANGED <<batch, look>>,
         \A f \in Flushers : Pins(look[f], r) => Pins(look[f], r)'
  PROVE  Covered(r)'
BY DEF Covered, Awaits, Pins

\* A thread that goes on with its key passes on what it stood for.
LEMMA CoverPassed ==
  ASSUME TInv, NEW r, Covered(r), NEW f \in Flushers, NEW l, look' = [look EXCEPT ![f] = l],
         UNCHANGED <<tree, pending, batch>>, rows \subseteq rows',
         \A k \in KindOf(r) \intersect batch[f] :
           Awaits(look[f], k) => Awaits(l, k) \/ Pins(l, r) \/ r \in rows',
         Pins(look[f], r) => Pins(l, r) \/ r \in rows'
  PROVE  Covered(r)'
<1>1. look'[f] = l /\ \A g \in Flushers \ {f} : look'[g] = look[g]
  BY DEF TInv, TypeOK
<1>2. Pins(l, r) => \E g \in Flushers : Pins(look[g], r)'
  BY <1>1 DEF Pins
<1>3. \A g \in Flushers \ {f} : Pins(look[g], r) => Pins(look[g], r)'
  BY <1>1 DEF Pins
<1>4. \A g \in Flushers \ {f}, k \in KindOf(r) : Awaits(look[g], k) => Awaits(look'[g], k)
  BY <1>1
<1>5. QED
  BY <1>1, <1>2, <1>3, <1>4 DEF Covered, Awaits

\* A thread that is done with its key leaves nothing behind if what that key
\* stood for has its row.
LEMMA CoverDone ==
  ASSUME TInv, NEW r, Covered(r), NEW f \in Flushers, NEW k, W!Handle(f, k),
         look' = [look EXCEPT ![f] = NoLook], UNCHANGED tree, rows \subseteq rows',
         k \in KindOf(r) /\ Awaits(look[f], k) => r \in rows',
         Pins(look[f], r) => r \in rows'
  PROVE  Covered(r)'
<1>1. /\ look'[f] = NoLook /\ \A g \in Flushers \ {f} : look'[g] = look[g]
      /\ batch'[f] = batch[f] \ {k} /\ \A g \in Flushers \ {f} : batch'[g] = batch[g]
      /\ UNCHANGED pending
  BY DEF TInv, TypeOK, W!BatcherTypeOK, W!Handle
<1>2. \A g \in Flushers \ {f} : Pins(look[g], r) => Pins(look[g], r)'
  BY <1>1 DEF Pins
<1>3. \A j \in KindOf(r) \intersect batch[f] : Awaits(look[f], j) => r \in rows' \/ j \in batch'[f]
  BY <1>1
<1>4. \A j : Awaits(NoLook, j)
  BY DEF Awaits, NoLook
<1>5. CASE r \in rows
  BY <1>5 DEF Covered
<1>6. CASE KindOf(r) \intersect pending # {}
  BY <1>1, <1>6 DEF Covered
<1>7. ASSUME NEW g \in Flushers, NEW j \in KindOf(r) \intersect batch[g], Awaits(look[g], j)
      PROVE  Covered(r)'
  <2>1. CASE g = f
    BY <1>1, <1>3, <1>4, <1>7, <2>1 DEF Covered, Awaits
  <2>2. CASE g # f
    <3>1. look'[g] = look[g] /\ batch'[g] = batch[g]
      BY <1>1, <2>2
    <3>2. QED
      BY <1>7, <3>1 DEF Covered, Awaits
  <2>3. QED
    BY <2>1, <2>2
<1>8. ASSUME NEW g \in Flushers, Pins(look[g], r) PROVE Covered(r)'
  <2>1. g = f \/ Pins(look[g], r)'
    BY <1>2, <1>8
  <2>2. QED
    BY <1>8, <2>1 DEF Covered
<1>9. QED
  BY <1>5, <1>6, <1>7, <1>8 DEF Covered

\* A key that is pending leads to every row of its kind.
LEMMA CoverReported ==
  ASSUME NEW r, NEW k \in KindOf(r), k \in pending'
  PROVE  Covered(r)'
BY DEF Covered

\* Whatever a file step reports, it takes nothing from what is pending; the
\* repair and an image that it writes or deletes are reported.
LEMMA Reported ==
  ASSUME TInv, NEW k \in Files, Hears(k)
  PROVE  /\ pending \subseteq pending' /\ UNCHANGED batch
         /\ k \in Rows => k \in pending'
         /\ pending' \subseteq pending \union {k} \union {j \in Of({"image"}) : j = Image(k[2])}
         /\ k[1] \in {"repair", "thumb"} => pending' \subseteq pending \union {k}
<1>1. CASE k \in Watched
  <2>1. k[1] # "note"
    BY <1>1 DEF Watched, Of, Repair
  <2>2. QED
    BY <1>1, <2>1 DEF Hears, W!Report
<1>2. CASE k \notin Watched /\ k[1] = "note"
  <2>1. k \in Of({"image", "odd", "thumb", "note"}) /\ k \notin Rows
    BY <1>2, Names DEF Files, Repair, Vehicle
  <2>2. Image(k[2]) \in Of({"image"})
    BY <2>1 DEF Of, Image
  <2>3. QED
    BY <1>2, <2>1, <2>2 DEF Hears, W!Report
<1>3. CASE k \notin Watched /\ k[1] # "note"
  BY <1>3, Names DEF Hears
<1>4. QED
  BY <1>1, <1>2, <1>3

\* A file step of a request: what it creates it reports; what it deletes, if
\* that had a row, it reports under a key that leads to the rows of all images.
LEMMA FileKeepsCover ==
  ASSUME TInv, LInv, NEW k \in Files, k # Repair \/ Create(k),
         Create(k) \/ Unlink(k), UNCHANGED <<rows, look>>,
         NEW r \in Rows, r \in tree', r \in tree => Covered(r)
  PROVE  Covered(r)'
<1>1. CASE Create(k)
  <2>1. CASE r \in tree
    <3>1. pending \subseteq pending' /\ UNCHANGED batch /\ tree \subseteq tree'
      BY <1>1, Reported DEF Create
    <3>2. \A f \in Flushers : Pins(look[f], r) => Pins(look[f], r)'
      BY <3>1 DEF Pins
    <3>3. QED
      BY <2>1, <3>1, <3>2, CoverStays
  <2>2. CASE r \notin tree
    <3>1. r = k /\ k \in pending'
      BY <1>1, <2>2, Reported DEF Create
    <3>2. k \in KindOf(k)
      BY <3>1, Names DEF KindOf
    <3>3. QED
      BY <3>1, <3>2, CoverReported
  <2>3. QED
    BY <2>1, <2>2
<1>2. CASE Unlink(k) /\ k \in tree
  <2>1. /\ r \in tree /\ tree' = tree \ {k} /\ k # Repair
        /\ pending \subseteq pending' /\ UNCHANGED batch
        /\ k \in Rows => k \in pending'
    BY <1>2, Reported DEF Unlink, Create
  <2>2. \A f \in Flushers : look[f].found \subseteq Rows /\ look[f].pc \in {"none", "list", "raised", "read", "apply"}
    BY DEF TInv, TypeOK
  <2>3. CASE k \in Rows /\ r # Repair
    <3>1. k \in KindOf(r)
      BY <2>1, <2>3, Names DEF KindOf
    <3>2. QED
      BY <2>1, <2>3, <3>1, CoverReported
  <2>4. CASE k \in Rows /\ r = Repair
    <3>1. ASSUME NEW f \in Flushers, Pins(look[f], r) PROVE look[f].pc = "apply"
      BY <2>4, <3>1, Names DEF Pins, LInv, LookInv, KindOf
    <3>2. \A f \in Flushers : Pins(look[f], r) => Pins(look[f], r)'
      BY <3>1 DEF Pins
    <3>3. QED
      BY <2>1, <3>2, CoverStays
  <2>5. CASE k \notin Rows
    <3>1. \A f \in Flushers : Pins(look[f], r) => Pins(look[f], r)'
      BY <2>1, <2>2, <2>5 DEF Pins
    <3>2. QED
      BY <2>1, <3>1, CoverStays
  <2>6. QED
    BY <2>3, <2>4, <2>5
<1>3. CASE Unlink(k) /\ k \notin tree
  <2>1. UNCHANGED <<tree, pending, batch>> /\ r \in tree
    BY <1>3 DEF Unlink
  <2>2. \A f \in Flushers : Pins(look[f], r) => Pins(look[f], r)'
    BY <2>1 DEF Pins
  <2>3. QED
    BY <2>1, <2>2, CoverStays
<1>4. QED
  BY <1>1, <1>2, <1>3

\* A running request.  The image whose row it removes is not stored.
LEMMA RequestKeepsCover ==
  ASSUME TInv, HInv, LInv, stage = "live", NEW w \in Workers, RequestStep(w),
         NEW r \in Rows, r \in tree', r \in tree => Covered(r)
  PROVE  Covered(r)'
<1>0. req[w] \in Requests /\ Has(req[w], body, num)
  BY RequestRecords
<1>1. ASSUME UNCHANGED <<tree, watcher>>, r \in rows => r \in rows' PROVE Covered(r)'
  <2>1. \A f \in Flushers : Pins(look[f], r) => Pins(look[f], r)'
    BY <1>1 DEF Pins, watcher
  <2>2. QED
    BY <1>1, <2>1, CoverStays DEF watcher
<1>2. CASE WriteRepair(w)
  <2>1. Create(Repair) /\ UNCHANGED <<rows, look>>
    BY <1>2 DEF WriteRepair
  <2>2. QED
    BY <2>1, FileKeepsCover, FileNames, Names DEF Files
<1>3. CASE WriteImage(w) \/ WriteThumb(w) \/ WriteNote(w) \/ UnlinkImage(w) \/ UnlinkThumb(w) \/ UnlinkNote(w)
  <2>1. req[w].i \in Images /\ UNCHANGED <<rows, look>>
    BY <1>0, <1>3 DEF Has, WriteImage, WriteThumb, WriteNote, UnlinkImage, UnlinkThumb, UnlinkNote
  <2>2. PICK k \in {Image(req[w].i), Odd(req[w].i), Thumb(req[w].i), Note(req[w].i)} : Create(k) \/ Unlink(k)
    BY <1>3 DEF WriteImage, WriteThumb, WriteNote, UnlinkImage, UnlinkThumb, UnlinkNote
  <2>3. k \in Files /\ k # Repair /\ k # Vehicle
    BY <2>1 DEF Files, Of, Image, Odd, Thumb, Note, Repair, Vehicle
  <2>4. QED
    BY <2>1, <2>2, <2>3, FileKeepsCover
<1>4. CASE ListImages(w) \/ Compare(w) \/ Mint(w) \/ Count(w)
  BY <1>1, <1>4 DEF ListImages, Compare, Mint, Count, disk
<1>5. CASE RemoveRow(w)
  <2>1. Image(req[w].i) \notin tree
    BY <1>5 DEF RemoveRow, HInv, Deleting
  <2>2. QED
    BY <1>1, <1>5, <2>1 DEF RemoveRow, disk
<1>6. CASE WriteRetired(w) \/ RetireGone(w)
  BY <1>1, <1>6 DEF WriteRetired, RetireGone, LInv, LiveInv, disk
<1>7. ~RemoveRetired(w)
  BY DEF RemoveRetired, LInv, LiveInv
<1>8. QED
  BY <1>2, <1>3, <1>4, <1>5, <1>6, <1>7 DEF RequestStep

\* A flush thread.  It drops a key without an upsert only when no file is left
\* that the key leads to, when an image it had found is gone, which is
\* reported, or when its scan raised, which the key of the repair has none of.
LEMMA FlushKeepsCover ==
  ASSUME TInv, LInv, stage = "live", NEW f \in Flushers, FlushStep(f),
         NEW r \in tree \intersect Rows, r = Repair \/ ~ScanHit, Covered(r)
  PROVE  Covered(r)'
<1>0. /\ look \in [Flushers -> [key : Watched \union {None}, pc : {"none", "list", "raised", "read", "apply"},
                                found : SUBSET Rows]]
      /\ batch \in [Flushers -> SUBSET Watched] /\ pending \subseteq Watched
      /\ look[f].pc # "none" => look[f].key \in batch[f]
      /\ Vehicle \in tree
  BY DEF TInv, TypeOK, W!BatcherTypeOK, LInv, LiveInv
\* The repair of a row that has a file is there.
<1>1. Repair \in tree
  BY Names DEF LInv, BareInv
<1>2. CASE FlushTake(f)
  <2>1. /\ batch[f] = {} /\ batch' = [batch EXCEPT ![f] = pending]
        /\ UNCHANGED <<tree, rows, look>> /\ look[f].pc = "none"
    BY <1>0, <1>2 DEF FlushTake, W!Take, disk
  <2>2. batch'[f] = pending /\ \A g \in Flushers \ {f} : batch'[g] = batch[g]
    BY <1>0, <2>1
  <2>3. \A k : Awaits(look[f], k)
    BY <2>1 DEF Awaits
  <2>4. \A g \in Flushers : Pins(look[g], r) => Pins(look[g], r)'
    BY <2>1 DEF Pins
  <2>5. QED
    BY <2>1, <2>2, <2>3, <2>4 DEF Covered, Awaits
<1>3. ASSUME NEW k \in Watched, Probe(f, k) PROVE Covered(r)'
  <2>1. look[f] = NoLook /\ k \in batch[f] /\ UNCHANGED <<tree, rows>>
    BY <1>3 DEF Probe, disk
  <2>2. ~Pins(look[f], r)
    BY <2>1 DEF Pins, NoLook
  <2>3. Live /\ (k = Repair => Repair \in tree)
    BY <1>0, <1>1 DEF Live
  <2> DEFINE l == [key |-> k, pc |-> "list", found |-> {}]
  <2>4. look' = [look EXCEPT ![f] = l] /\ UNCHANGED <<pending, batch>>
    BY <1>3, <2>3 DEF Probe
  <2>5. \A j : Awaits(l, j)
    BY DEF Awaits
  <2> HIDE DEF l
  <2>6. QED
    BY <2>1, <2>2, <2>4, <2>5, CoverPassed
<1>4. CASE ListDirectory(f)
  <2>1. look[f].pc = "list" /\ look[f].key \in batch[f] /\ UNCHANGED <<tree, rows>>
    BY <1>0, <1>4 DEF ListDirectory, disk
  <2>2. ~Pins(look[f], r)
    BY <2>1 DEF Pins
  <2> DEFINE found == IF look[f].key = Repair THEN {Repair} ELSE {Image(i) : i \in Stored}
             p == IF look[f].key = Repair THEN "apply" ELSE "read"
             l == [look[f] EXCEPT !.found = found, !.pc = p]
  <2>3. l.pc = p /\ l.key = look[f].key /\ l.found = found
    BY <1>0
  <2>4. found \subseteq tree
    BY <1>1 DEF Stored
  <2>5. look[f].key \in KindOf(r) => r \in found
    <3>1. CASE r = Repair
      BY <3>1 DEF KindOf
    <3>2. CASE r # Repair
      <4>1. PICK i \in Images : r = Image(i)
        BY <3>2, Names
      <4>2. i \in Stored
        BY <4>1 DEF Stored
      <4>3. QED
        BY <3>2, <4>1, <4>2, Names DEF KindOf
    <3>3. QED
      BY <3>1, <3>2
  <2>6. p \in {"read", "apply"}
    OBVIOUS
  <2>7. CASE found # {}
    <3>1. look' = [look EXCEPT ![f] = l] /\ UNCHANGED <<pending, batch>>
      BY <1>0, <1>1, <1>4, <2>7 DEF ListDirectory
    <3>2. \A k \in KindOf(r) : Awaits(l, k) \/ Pins(l, r)
      BY <2>3, <2>4, <2>5, <2>6 DEF Awaits, Pins
    <3> HIDE DEF l
    <3>3. QED
      BY <2>1, <2>2, <3>1, <3>2, CoverPassed
  <2>8. CASE found = {}
    <3>1. Drop(f)
      BY <1>4, <2>8 DEF ListDirectory
    <3>2. look[f].key \notin KindOf(r)
      BY <2>5, <2>8
    <3>3. QED
      BY <2>1, <2>2, <3>1, <3>2, CoverDone DEF Drop
  <2>9. QED
    BY <2>7, <2>8
<1>5. CASE ReadImages(f)
  <2>1. look[f].pc = "read" /\ look[f].key \in batch[f] /\ UNCHANGED <<tree, rows>>
    BY <1>0, <1>5 DEF ReadImages, disk
  <2>2. CASE look[f].found \subseteq tree
    <3> DEFINE l == [look[f] EXCEPT !.pc = "apply"]
    <3>1. l.pc = "apply" /\ l.key = look[f].key /\ l.found = look[f].found
      BY <1>0
    <3>2. look' = [look EXCEPT ![f] = l] /\ UNCHANGED <<pending, batch>>
      BY <1>5, <2>2 DEF ReadImages
    <3>3. \A k : Awaits(look[f], k) => Awaits(l, k)
      BY <2>1, <3>1 DEF Awaits
    <3>4. Pins(look[f], r) => Pins(l, r)
      BY <3>1 DEF Pins
    <3> HIDE DEF l
    <3>5. QED
      BY <2>1, <3>2, <3>3, <3>4, CoverPassed
  <2>3. CASE ~(look[f].found \subseteq tree)
    <3>1. Drop(f)
      BY <1>5, <2>3 DEF ReadImages
    <3>2. ~Pins(look[f], r) /\ ~Awaits(look[f], look[f].key)
      BY <2>1, <2>3 DEF Pins, Awaits
    <3>3. QED
      BY <2>1, <3>1, <3>2, CoverDone DEF Drop
  <2>4. QED
    BY <2>2, <2>3
<1>6. CASE UpsertRow(f)
  <2>1. PICK q \in look[f].found :
          /\ rows' = rows \union {q}
          /\ IF look[f].found = {q}
               THEN Drop(f)
               ELSE look' = [look EXCEPT ![f] = [look[f] EXCEPT !.found = @ \ {q}]]
                    /\ UNCHANGED <<pending, batch>>
    BY <1>6 DEF UpsertRow
  <2>2. look[f].pc = "apply" /\ look[f].key \in batch[f] /\ UNCHANGED tree
    BY <1>0, <1>6 DEF UpsertRow, disk
  <2>3. ~Awaits(look[f], look[f].key)
    BY <2>2 DEF Awaits
  <2>4. CASE look[f].found = {q}
    <3>1. Drop(f) /\ (Pins(look[f], r) => r \in rows') /\ rows \subseteq rows'
      BY <2>1, <2>4 DEF Pins
    <3>2. QED
      BY <2>2, <2>3, <3>1, CoverDone DEF Drop
  <2>5. CASE look[f].found # {q}
    <3> DEFINE l == [look[f] EXCEPT !.found = @ \ {q}]
    <3>1. l.pc = "apply" /\ l.key = look[f].key /\ l.found = look[f].found \ {q}
      BY <1>0, <2>2
    <3>2. look' = [look EXCEPT ![f] = l] /\ UNCHANGED <<pending, batch>> /\ rows' = rows \union {q}
      BY <2>1, <2>5
    <3>3. \A k : Awaits(look[f], k) => Awaits(l, k)
      BY <2>2, <3>1 DEF Awaits
    <3>4. Pins(look[f], r) => Pins(l, r) \/ r \in rows'
      BY <2>2, <3>1, <3>2 DEF Pins
    <3> HIDE DEF l
    <3>5. QED
      BY <2>2, <3>2, <3>3, <3>4, CoverPassed
  <2>6. QED
    BY <2>4, <2>5
<1>7. CASE ScanRaises(f)
  <2> DEFINE l == [look[f] EXCEPT !.pc = "raised"]
  <2>1. look[f].pc = "list" /\ look' = [look EXCEPT ![f] = l] /\ UNCHANGED <<tree, rows, pending, batch>>
    BY <1>7 DEF ScanRaises, disk
  <2>2. l.pc = "raised"
    BY <1>0
  <2>3. ~Pins(look[f], r) /\ \A k : Awaits(l, k)
    BY <2>1, <2>2 DEF Pins, Awaits
  <2> HIDE DEF l
  <2>4. QED
    BY <2>1, <2>3, CoverPassed
<1>8. CASE DropRaised(f)
  <2>1. look[f].pc = "raised" /\ look[f].key # Repair /\ ScanHit /\ UNCHANGED <<tree, rows>>
    BY <1>8 DEF DropRaised, LInv, LookInv, ScanHit, disk
  <2>2. look[f].key \notin KindOf(r) /\ ~Pins(look[f], r)
    BY <2>1 DEF KindOf, Pins
  <2>3. W!Handle(f, look[f].key) /\ look' = [look EXCEPT ![f] = NoLook]
    BY <1>8 DEF DropRaised, Drop
  <2>4. QED
    BY <2>1, <2>2, <2>3, CoverDone
<1>9. QED
  BY <1>2, <1>3, <1>4, <1>5, <1>6, <1>7, <1>8 DEF FlushStep

\* Every step keeps a row covered that it does not make superfluous.
LEMMA CoverStep ==
  ASSUME TInv, HInv, LInv, ~StaleEdit, NEW r \in Rows, r = Repair \/ ~ScanHit,
         CoveredWhileLive(r), [Next]_vars
  PROVE  CoveredWhileLive(r)'
<1> SUFFICES ASSUME stage' = "live", crashes' = 0, r \in tree'
             PROVE  Covered(r)'
  BY DEF CoveredWhileLive
<1>1. /\ stage = "live" /\ ~SweepFile /\ ~SweepRows /\ ~SweepStart /\ ~Expire
  BY StaysLive
<1>2. ~Crash
  BY DEF Crash, TInv, TypeOK
<1>3. crashes = 0
  <2>1. ASSUME NEW w \in Workers, NewRequest(w) PROVE UNCHANGED crashes
    BY <2>1, NewRequestIs
  <2>2. ASSUME NEW w \in Workers, RequestStep(w) PROVE UNCHANGED crashes
    BY <2>2 DEF RequestStep, WriteRepair, ListImages, Compare, Mint, Count, WriteImage, WriteThumb,
                WriteNote, UnlinkImage, UnlinkThumb, UnlinkNote, RemoveRow, WriteRetired, RetireGone,
                RemoveRetired
  <2>3. ASSUME NEW f \in Flushers, FlushStep(f) PROVE UNCHANGED crashes
    BY <2>3 DEF FlushStep, FlushTake, Probe, ScanRaises, DropRaised, ListDirectory, ReadImages,
         UpsertRow
  <2>4. EditStart \/ EditWrite \/ EditEnd \/ UNCHANGED vars => UNCHANGED crashes
    BY DEF EditStart, EditWrite, EditEnd, vars
  <2>5. QED
    BY <1>1, <1>2, <2>1, <2>2, <2>3, <2>4 DEF Next
<1>4. r \in tree => Covered(r)
  BY <1>1, <1>3 DEF CoveredWhileLive
<1>5. ASSUME UNCHANGED <<tree, rows, watcher>> PROVE Covered(r)'
  <2>1. \A f \in Flushers : Pins(look[f], r) => Pins(look[f], r)'
    BY <1>5 DEF Pins, watcher
  <2>2. QED
    BY <1>4, <1>5, <2>1, CoverStays DEF watcher
<1>6. ASSUME NEW w \in Workers, NewRequest(w) PROVE Covered(r)'
  BY <1>5, <1>6, NewRequestIs DEF disk
<1>7. ASSUME NEW w \in Workers, RequestStep(w) PROVE Covered(r)'
  BY <1>1, <1>4, <1>7, RequestKeepsCover
<1>8. ASSUME NEW f \in Flushers, FlushStep(f) PROVE Covered(r)'
  <2>1. UNCHANGED tree
    BY <1>8 DEF FlushStep, FlushTake, Probe, ScanRaises, DropRaised, ListDirectory, ReadImages,
         UpsertRow, disk
  <2>2. QED
    BY <1>1, <1>4, <1>8, <2>1, FlushKeepsCover
<1>9. EditStart \/ EditWrite \/ EditEnd \/ UNCHANGED vars => UNCHANGED <<tree, rows, watcher>>
  BY <1>1 DEF EditStart, EditWrite, EditEnd, LInv, LiveInv, disk, vars, watcher
<1>10. QED
  BY <1>1, <1>2, <1>5, <1>6, <1>7, <1>8, <1>9 DEF Next

\* So the rows of a live vehicle are covered as long as no update brings back
\* a retired one and no scan raises; for the row of the repair scans do not
\* matter.
THEOREM AlwaysCovered ==
  Spec => /\ []~StaleEdit => []RepairInv
          /\ []~StaleEdit /\ []~ScanHit => []MInv
<1>1. Init => MInv /\ RepairInv
  BY Names DEF Init, MInv, RepairInv, CoveredWhileLive
<1>2. TInv /\ HInv /\ LInv /\ ~StaleEdit /\ RepairInv /\ [Next]_vars => RepairInv'
  BY CoverStep, Names DEF RepairInv
<1>3. TInv /\ HInv /\ LInv /\ ~StaleEdit /\ ~ScanHit /\ MInv /\ [Next]_vars => MInv'
  <2> SUFFICES ASSUME TInv, HInv, LInv, ~StaleEdit, ~ScanHit, MInv, [Next]_vars, NEW r \in Rows
               PROVE  CoveredWhileLive(r)'
    BY DEF MInv, Rows
  <2>1. CoveredWhileLive(r)
    BY DEF MInv
  <2>2. QED
    BY <2>1, CoverStep
<1>4. QED
  BY <1>1, <1>2, <1>3, Typed, Ordered, PTL DEF Spec

\* When nothing is in flight the repair and every listed image of a live
\* vehicle has its row, unless there was a crash, a flush met the purge of
\* another vehicle, or an update brought a retired vehicle back.
THEOREM NothingMissed == Spec => NoMissingRow
<1> DEFINE Calm == ~ScanHit /\ ~StaleEdit /\ crashes = 0
           Found == Quiescent /\ Live => tree \intersect Rows \subseteq rows
<1>1. TInv /\ MInv /\ Calm => Found
  <2> SUFFICES ASSUME TInv, MInv, Quiescent, crashes = 0, Live, NEW r \in tree \intersect Rows
               PROVE  r \in rows
    OBVIOUS
  <2>1. Covered(r) /\ pending = {} /\ \A f \in Flushers : batch[f] = {}
    BY DEF MInv, CoveredWhileLive, Live, Quiescent
  <2>2. \A f \in Flushers : ~Pins(look[f], r)
    BY <2>1 DEF TInv, TypeOK, Pins
  <2>3. QED
    BY <2>1, <2>2 DEF Covered
<1>2. Calm => ~ScanHit /\ ~StaleEdit
  OBVIOUS
<1>3. NoMissingRow <=> ([]Calm => []Found)
  BY DEF NoMissingRow
<1> HIDE DEF Calm, Found
<1>4. QED
  BY <1>1, <1>2, <1>3, AlwaysCovered, Typed, PTL

------------------------------------------------------------------------------
(* Rows that must not be there.  A row can outlive what it describes in two  *)
(* ways: a flush that listed the directory upserts it after it was removed,  *)
(* or remove_vehicle does not find it, because the repair has no row.  Both  *)
(* take a removal while a batch is being applied.                            *)

\* The repair has its row, or the batch that will upsert it is being applied.
Shown == Repair \in rows \/ \E g \in Flushers : Repair \in batch[g]

\* The row is there, or a flush is about to upsert it.
Traced(r) == r \in rows \/ \E f \in Flushers : look[f].pc \in {"read", "apply"} /\ r \in look[f].found

\* While the vehicle is live no image is known before its repair is, and an
\* image that is known is stored or being deleted.
GLiveInv ==
  stage = "live" =>
    /\ rows \intersect Of({"image"}) # {} => Shown
    /\ \A f \in Flushers : batch[f] \intersect Of({"image"}) # {} => Shown
    /\ \A i \in Images : Traced(Image(i)) =>
         Image(i) \in tree \/ \E w \in Workers : Deleting(req[w]) /\ req[w].i = i

\* Afterwards there are no rows, or the request that retired the vehicle has
\* yet to remove them and will find them.
GRetiredInv ==
  stage # "live" =>
    /\ \A f \in Flushers : look[f].pc = "none"
    /\ rows = {} \/ (Repair \in rows /\ \E w \in Workers : req[w].pc = "unrows")

GInv == GLiveInv /\ GRetiredInv

\* What a step of a request leaves alone.
LEMMA RequestFrame ==
  ASSUME TInv, NEW w \in Workers, RequestStep(w)
  PROVE  /\ UNCHANGED <<look, crashes, batch>>
         /\ \A u \in Workers \ {w} : req'[u] = req[u]
<1>0. req[w] \in Requests /\ Has(req[w], body, num)
  BY RequestRecords
<1>1. \A u \in Workers \ {w} : req'[u] = req[u]
  <2>1. \E r : req' = [req EXCEPT ![w] = r]
    BY DEF RequestStep, WriteRepair, ListImages, Compare, Mint, Count, WriteImage, WriteThumb,
           WriteNote, UnlinkImage, UnlinkThumb, UnlinkNote, RemoveRow, WriteRetired, RetireGone,
           RemoveRetired, Goto, End
  <2>2. QED
    BY <2>1 DEF TInv, TypeOK
<1>2. CASE \/ WriteRepair(w) \/ WriteImage(w) \/ WriteThumb(w) \/ WriteNote(w)
           \/ UnlinkImage(w) \/ UnlinkThumb(w) \/ UnlinkNote(w)
  <2>1. PICK k \in {Repair, Image(req[w].i), Odd(req[w].i), Thumb(req[w].i), Note(req[w].i)} :
          /\ Create(k) \/ Unlink(k)
          /\ k = Repair \/ req[w].i \in Images
    BY <1>0, <1>2 DEF Has, WriteRepair, WriteImage, WriteThumb, WriteNote, UnlinkImage,
                      UnlinkThumb, UnlinkNote
  <2>2. k \in Files
    BY <2>1 DEF Files, Of, Image, Odd, Thumb, Note
  <2>3. UNCHANGED batch
    BY <2>1, <2>2, Reported DEF Create, Unlink
  <2>4. QED
    BY <1>1, <1>2, <2>3 DEF WriteRepair, WriteImage, WriteThumb, WriteNote, UnlinkImage,
                            UnlinkThumb, UnlinkNote
<1>3. CASE \/ ListImages(w) \/ Compare(w) \/ Mint(w) \/ Count(w)
           \/ RemoveRow(w) \/ WriteRetired(w) \/ RetireGone(w) \/ RemoveRetired(w)
  BY <1>1, <1>3 DEF ListImages, Compare, Mint, Count, RemoveRow, WriteRetired, RetireGone, RemoveRetired,
                    watcher
<1>4. QED
  BY <1>2, <1>3 DEF RequestStep

\* What the steps of the other actors leave alone.
LEMMA OtherFrames ==
  /\ \A f \in Flushers : FlushStep(f) => UNCHANGED <<disk, req, others, crashes>>
  /\ SweepFile => UNCHANGED <<stage, rows, req, look, crashes>>
  /\ Expire => UNCHANGED <<tree, rows, req, others, watcher, crashes>>
  /\ SweepStart => UNCHANGED <<disk, rows, req, watcher, crashes>>
  /\ SweepRows => UNCHANGED <<disk, req, watcher, crashes>>
  /\ EditStart \/ EditWrite \/ EditEnd => tree \subseteq tree' /\ UNCHANGED <<rows, req, watcher, crashes>>
BY DEF disk, EditStart, EditWrite, EditEnd, FlushStep, FlushTake, Probe, ScanRaises, DropRaised, ListDirectory, ReadImages,
         UpsertRow,
       SweepFile, Expire, SweepStart, SweepRows

\* The repair of a live vehicle is known, or its key is pending: that is what
\* AlwaysCovered says.
LEMMA RepairIsKnown ==
  ASSUME TInv, LInv, RepairInv, stage = "live", crashes = 0, Repair \in tree
  PROVE  Shown \/ Repair \in pending
<1>1. Covered(Repair) /\ KindOf(Repair) = {Repair}
  BY Names DEF RepairInv, CoveredWhileLive, KindOf
<1>2. ASSUME NEW f \in Flushers, Pins(look[f], Repair) PROVE Repair \in batch[f]
  <2>1. look[f].pc \in {"read", "apply"} /\ Repair \in look[f].found
    BY <1>2 DEF Pins
  <2>2. look[f].key = Repair
    BY <2>1, Names DEF LInv, LookInv, KindOf
  <2>3. QED
    BY <2>1, <2>2 DEF TInv, TypeOK
<1>3. QED
  BY <1>1, <1>2 DEF Covered, Shown

\* A repair that is known stays known: its key leaves a batch with an upsert.
LEMMA ShownStays ==
  ASSUME TInv, LInv, ~StaleEdit, stage = "live", Shown, [Next]_vars, stage' = "live", ~Crash
  PROVE  Shown'
<1>1. ~SweepFile /\ ~SweepRows /\ ~SweepStart /\ ~Expire /\ Vehicle \in tree
  BY StaysLive DEF LInv, LiveInv
<1>2. Repair \in tree
  BY DEF LInv, BareInv, Shown
<1>3. ASSUME UNCHANGED batch, Repair \in rows => Repair \in rows' PROVE Shown'
  BY <1>3 DEF Shown
<1>4. ASSUME NEW w \in Workers, RequestStep(w) PROVE Shown'
  <2>1. UNCHANGED batch /\ ~RemoveRetired(w)
    BY <1>4, RequestFrame DEF RemoveRetired, LInv, LiveInv
  <2>2. Repair \in rows => Repair \in rows'
    <3>1. \A i : Image(i) # Repair
      BY DEF Image, Repair
    <3>2. QED
      BY <1>4, <2>1, <3>1
         DEF RequestStep, WriteRepair, ListImages, Compare, Mint, Count, WriteImage, WriteThumb,
             WriteNote, UnlinkImage, UnlinkThumb, UnlinkNote, RemoveRow, WriteRetired, RetireGone
  <2>3. QED
    BY <1>3, <2>1, <2>2
<1>5. ASSUME NEW w \in Workers, NewRequest(w) PROVE Shown'
  BY <1>3, <1>5, NewRequestIs DEF watcher
<1>6. ASSUME NEW f \in Flushers, FlushStep(f) PROVE Shown'
  <2>0. /\ batch \in [Flushers -> SUBSET Watched]
        /\ look[f].pc # "none" => look[f].key \in batch[f]
        /\ look \in [Flushers -> [key : Watched \union {None}, pc : {"none", "list", "raised", "read", "apply"},
                                  found : SUBSET Rows]]
    BY DEF TInv, TypeOK, W!BatcherTypeOK
  <2>1. ASSUME NEW k, W!Handle(f, k), rows \subseteq rows', k = Repair => Repair \in rows'
        PROVE  Shown'
    <3>1. \A g \in Flushers : Repair \in batch[g] => Repair \in batch'[g] \/ k = Repair
      BY <2>0, <2>1 DEF W!Handle
    <3>2. QED
      BY <2>1, <3>1 DEF Shown
  <2>2. CASE FlushTake(f)
    <3>1. UNCHANGED rows /\ \A g \in Flushers : Repair \in batch[g] => Repair \in batch'[g]
      BY <2>0, <2>2 DEF FlushTake, W!Take
    <3>2. QED
      BY <3>1 DEF Shown
  <2>3. ASSUME NEW k \in Watched, Probe(f, k) PROVE Shown'
    <3>1. UNCHANGED <<rows, batch>>
      BY <1>1, <1>2, <2>3 DEF Probe, Live
    <3>2. QED
      BY <1>3, <3>1
  <2>4. CASE ListDirectory(f)
    <3>1. UNCHANGED rows /\ (UNCHANGED batch \/ (Drop(f) /\ look[f].key # Repair))
      BY <1>1, <1>2, <2>4 DEF ListDirectory
    <3>2. QED
      BY <1>3, <2>1, <3>1 DEF Drop
  <2>5. CASE ReadImages(f)
    <3>1. UNCHANGED rows /\ (UNCHANGED batch \/ (Drop(f) /\ look[f].key # Repair))
      BY <2>5 DEF ReadImages, LInv, LookInv
    <3>2. QED
      BY <1>3, <2>1, <3>1 DEF Drop
  <2>6. CASE UpsertRow(f)
    <3>1. PICK r \in look[f].found : rows' = rows \union {r} /\ (UNCHANGED batch \/ Drop(f))
      BY <2>6 DEF UpsertRow
    <3>2. look[f].key = Repair => r = Repair
      BY <2>6, <3>1 DEF UpsertRow, LInv, LookInv, KindOf
    <3>3. QED
      BY <1>3, <2>1, <3>1, <3>2 DEF Drop
  <2>7. CASE ScanRaises(f) \/ DropRaised(f)
    <3>1. UNCHANGED rows /\ (UNCHANGED batch \/ (Drop(f) /\ look[f].key # Repair))
      BY <2>7 DEF ScanRaises, DropRaised, LInv, LookInv
    <3>2. QED
      BY <1>3, <2>1, <3>1 DEF Drop
  <2>8. QED
    BY <1>6, <2>2, <2>3, <2>4, <2>5, <2>6, <2>7 DEF FlushStep
<1>7. CASE EditStart \/ EditWrite \/ EditEnd \/ UNCHANGED vars
  BY <1>3, <1>7, OtherFrames DEF vars, watcher
<1>8. QED
  BY <1>1, <1>4, <1>5, <1>6, <1>7 DEF Next

\* What is known of images stays behind the repair: a flush upserts images
\* whose key it took, and takes a pending image key no earlier than the repair's.
LEMMA KnownStep ==
  ASSUME TInv, LInv, RepairInv, GInv, ~StaleEdit, [Next]_vars, stage = "live", stage' = "live",
         crashes = 0, ~Crash
  PROVE  /\ rows' \intersect Of({"image"}) # {} => Shown'
         /\ \A f \in Flushers : batch'[f] \intersect Of({"image"}) # {} => Shown'
<1>1. Shown => Shown'
  BY ShownStays
<1>2. /\ rows \intersect Of({"image"}) # {} => Shown
      /\ \A f \in Flushers : batch[f] \intersect Of({"image"}) # {} => Shown
  BY DEF GInv, GLiveInv
<1>3. ~SweepFile /\ ~SweepRows /\ ~SweepStart /\ ~Expire
  BY StaysLive
<1>4. ASSUME rows' \subseteq rows, \A f \in Flushers : batch'[f] \subseteq batch[f]
      PROVE  /\ rows' \intersect Of({"image"}) # {} => Shown'
             /\ \A f \in Flushers : batch'[f] \intersect Of({"image"}) # {} => Shown'
  BY <1>1, <1>2, <1>4
<1>5. ASSUME NEW w \in Workers, RequestStep(w)
      PROVE  UNCHANGED batch /\ rows' \subseteq rows
  <2>1. UNCHANGED batch
    BY <1>5, RequestFrame
  <2>2. rows' \subseteq rows
    BY <1>5 DEF RequestStep, WriteRepair, ListImages, Compare, Mint, Count, WriteImage, WriteThumb,
                WriteNote, UnlinkImage, UnlinkThumb, UnlinkNote, RemoveRow, WriteRetired,
                RetireGone, RemoveRetired, RemoveVehicleRows
  <2>3. QED
    BY <2>1, <2>2
<1>6. ASSUME NEW w \in Workers, NewRequest(w) PROVE UNCHANGED <<rows, batch>>
  BY <1>6, NewRequestIs DEF watcher
<1>7. ASSUME NEW f \in Flushers, FlushStep(f)
      PROVE  /\ rows' \intersect Of({"image"}) # {} => Shown'
             /\ \A g \in Flushers : batch'[g] \intersect Of({"image"}) # {} => Shown'
  <2>0. batch \in [Flushers -> SUBSET Watched]
    BY DEF TInv, TypeOK, W!BatcherTypeOK
  <2>1. CASE FlushTake(f)
    <3>1. /\ UNCHANGED rows /\ batch'[f] = pending
          /\ \A g \in Flushers \ {f} : batch'[g] = batch[g]
      BY <2>0, <2>1 DEF FlushTake, W!Take
    <3>2. pending # {} => Repair \in tree
      BY DEF LInv, BareInv
    <3>3. pending # {} => Shown \/ Repair \in pending
      BY <3>2, RepairIsKnown
    <3>4. Repair \in pending => Shown'
      BY <3>1 DEF Shown
    <3>5. QED
      BY <1>1, <1>2, <3>1, <3>3, <3>4
  <2>2. CASE ~FlushTake(f) /\ ~UpsertRow(f)
    <3>1. UNCHANGED rows /\ \A g \in Flushers : batch'[g] \subseteq batch[g]
      BY <1>7, <2>0, <2>2 DEF FlushStep, Probe, ScanRaises, DropRaised, ListDirectory, ReadImages, Drop, W!Handle
    <3>2. QED
      BY <1>4, <3>1
  <2>3. CASE UpsertRow(f)
    <3>1. PICK r \in look[f].found :
            rows' = rows \union {r} /\ (UNCHANGED batch \/ W!Handle(f, look[f].key))
      BY <2>3 DEF UpsertRow, Drop
    <3>2. look[f].key \in batch[f] /\ look[f].key \in Watched /\ look[f].found \subseteq KindOf(look[f].key)
      BY <2>0, <2>3 DEF UpsertRow, TInv, TypeOK, LInv, LookInv
    <3>3. r \in Of({"image"}) => Shown'
      BY <1>1, <1>2, <3>1, <3>2, Names DEF KindOf
    <3>4. \A g \in Flushers : batch'[g] \subseteq batch[g]
      BY <2>0, <3>1 DEF W!Handle
    <3>5. QED
      BY <1>1, <1>2, <3>1, <3>3, <3>4
  <2>4. QED
    BY <2>1, <2>2, <2>3
<1>8. EditStart \/ EditWrite \/ EditEnd \/ UNCHANGED vars => UNCHANGED <<rows, batch>>
  BY OtherFrames DEF vars, watcher
<1>9. QED
  BY <1>3, <1>4, <1>5, <1>6, <1>7, <1>8 DEF Next

\* A deletion goes on until it removes the row, and by then no flush has found
\* the image, unless it races with one.
LEMMA TracedStep ==
  ASSUME TInv, HInv, LInv, GInv, ~RemovalRace, ~StaleEdit, [Next]_vars, stage = "live", stage' = "live",
         ~Crash, NEW i \in Images, Traced(Image(i))'
  PROVE  Image(i) \in tree' \/ \E w \in Workers : Deleting(req'[w]) /\ req'[w].i = i
<1>1. Traced(Image(i)) => Image(i) \in tree \/ \E w \in Workers : Deleting(req[w]) /\ req[w].i = i
  BY DEF GInv, GLiveInv
<1>2. ~SweepFile /\ ~SweepRows /\ ~SweepStart /\ ~Expire
  BY StaysLive
<1>3. ASSUME NEW w \in Workers, RequestStep(w)
      PROVE  Image(i) \in tree' \/ \E u \in Workers : Deleting(req'[u]) /\ req'[u].i = i
  <2>0. /\ req[w] \in Requests /\ Has(req[w], body, num)
        /\ \A u \in Workers \ {w} : req'[u] = req[u]
        /\ UNCHANGED <<look, batch>>
    BY <1>3, RequestRecords, RequestFrame
  <2>1. rows' \subseteq rows
    BY <1>3 DEF RequestStep, WriteRepair, ListImages, Compare, Mint, Count, WriteImage, WriteThumb,
                WriteNote, UnlinkImage, UnlinkThumb, UnlinkNote, RemoveRow, WriteRetired,
                RetireGone, RemoveRetired, RemoveVehicleRows
  <2>2. Traced(Image(i))
    BY <2>0, <2>1 DEF Traced
  <2>3. ASSUME NEW p \in {"unthumb", "unnote", "unrow"}, Goto(w, p)
        PROVE  req'[w].op = req[w].op /\ req'[w].i = req[w].i /\ req'[w].pc = p
    BY <2>0, <2>3 DEF Goto, TInv, TypeOK, Requests
  <2>4. CASE UnlinkImage(w)
    <3>1. Deleting(req'[w]) /\ req'[w].i = req[w].i
      BY <2>3, <2>4 DEF UnlinkImage, HInv, Deleting
    <3>2. Image(i) \in tree => Image(i) \in tree' \/ req[w].i = i
      BY <2>4 DEF UnlinkImage, Unlink, Image
    <3>3. \A u \in Workers : Deleting(req[u]) => u # w
      BY <2>4 DEF UnlinkImage, Deleting
    <3>4. QED
      BY <1>1, <2>0, <2>2, <3>1, <3>2, <3>3
  <2>5. CASE UnlinkThumb(w) \/ UnlinkNote(w)
    <3>1. Deleting(req[w]) => Deleting(req'[w]) /\ req'[w].i = req[w].i
      BY <2>3, <2>5 DEF UnlinkThumb, UnlinkNote, Deleting
    <3>2. Image(i) \in tree => Image(i) \in tree'
      BY <2>5 DEF UnlinkThumb, UnlinkNote, Unlink, Image, Thumb, Note
    <3>3. QED
      BY <1>1, <2>0, <2>2, <3>1, <3>2
  <2>6. CASE RemoveRow(w)
    <3>1. \A f \in Flushers : batch[f] = {}
      BY <2>6 DEF RemoveRow, RemovalRace
    <3>2. \A f \in Flushers : look[f].pc = "none"
      BY <3>1 DEF TInv, TypeOK
    <3>3. Image(i) \in rows' /\ UNCHANGED tree
      BY <2>0, <2>6, <3>2 DEF Traced, RemoveRow, disk
    <3>4. req[w].i # i
      BY <2>6, <3>3 DEF RemoveRow
    <3>5. QED
      BY <1>1, <2>0, <2>2, <3>3, <3>4
  <2>7. CASE \/ WriteRepair(w) \/ WriteImage(w) \/ WriteThumb(w) \/ WriteNote(w)
             \/ ListImages(w) \/ Compare(w) \/ Mint(w) \/ Count(w)
             \/ WriteRetired(w) \/ RetireGone(w) \/ RemoveRetired(w)
    <3>1. ~Deleting(req[w]) /\ tree \subseteq tree'
      BY <2>7 DEF WriteRepair, WriteImage, WriteThumb, WriteNote, ListImages, Compare, Mint, Count,
                  WriteRetired, RetireGone, RemoveRetired, Create, Deleting, disk
    <3>2. QED
      BY <1>1, <2>0, <2>2, <3>1
  <2>8. QED
    BY <1>3, <2>4, <2>5, <2>6, <2>7 DEF RequestStep
<1>4. ASSUME NEW w \in Workers, NewRequest(w)
      PROVE  Image(i) \in tree' \/ \E u \in Workers : Deleting(req'[u]) /\ req'[u].i = i
  <2>1. /\ UNCHANGED <<tree, rows, look>> /\ req[w] = Idle
        /\ \A u \in Workers \ {w} : req'[u] = req[u]
    BY <1>4, NewRequestIs DEF disk, watcher
  <2>2. Traced(Image(i)) /\ ~Deleting(req[w])
    BY <2>1 DEF Traced, Deleting, Idle
  <2>3. QED
    BY <1>1, <2>1, <2>2
<1>5. ASSUME NEW f \in Flushers, FlushStep(f) PROVE Traced(Image(i)) \/ Image(i) \in tree
  <2>0. look \in [Flushers -> [key : Watched \union {None}, pc : {"none", "list", "raised", "read", "apply"},
                               found : SUBSET Rows]]
    BY DEF TInv, TypeOK
  \* What a thread is about to upsert afterwards it was before, or has just listed.
  <2>1. ASSUME NEW l, look' = [look EXCEPT ![f] = l], rows' \subseteq rows \union look[f].found,
               rows' = rows \/ look[f].pc = "apply",
               l.pc \in {"read", "apply"} /\ Image(i) \in l.found => Traced(Image(i)) \/ Image(i) \in tree
        PROVE  Traced(Image(i)) \/ Image(i) \in tree
    <3>1. look'[f] = l /\ \A g \in Flushers \ {f} : look'[g] = look[g]
      BY <2>0, <2>1
    <3>2. QED
      BY <2>1, <3>1 DEF Traced
  <2>2. NoLook.pc = "none"
    BY DEF NoLook
  <2>3. CASE FlushTake(f)
    BY <2>3 DEF FlushTake, Traced
  <2>4. ASSUME NEW k \in Watched, Probe(f, k) PROVE Traced(Image(i)) \/ Image(i) \in tree
    <3>1. UNCHANGED rows /\ (UNCHANGED look \/ look' = [look EXCEPT ![f] = [key |-> k, pc |-> "list", found |-> {}]])
      BY <2>4 DEF Probe
    <3>2. CASE UNCHANGED look
      BY <3>1, <3>2 DEF Traced
    <3>3. QED
      BY <2>1, <3>1, <3>2
  <2>5. CASE ListDirectory(f)
    <3> DEFINE found == IF look[f].key = Repair THEN {Repair} ELSE {Image(j) : j \in Stored}
               l == [look[f] EXCEPT !.found = found,
                                    !.pc = IF look[f].key = Repair THEN "apply" ELSE "read"]
    <3>1. UNCHANGED rows /\ (look' = [look EXCEPT ![f] = l] \/ look' = [look EXCEPT ![f] = NoLook])
      BY <2>5 DEF ListDirectory, Drop
    <3>2. l.found = found
      BY <2>0
    <3>3. Image(i) \in found => Image(i) \in tree
      BY Names DEF Stored
    <3> HIDE DEF l, found
    <3>4. QED
      BY <2>1, <2>2, <3>1, <3>2, <3>3
  <2>6. CASE ReadImages(f)
    <3> DEFINE l == [look[f] EXCEPT !.pc = "apply"]
    <3>1. UNCHANGED rows /\ (look' = [look EXCEPT ![f] = l] \/ look' = [look EXCEPT ![f] = NoLook])
      BY <2>6 DEF ReadImages, Drop
    <3>2. l.found = look[f].found
      BY <2>0
    <3>3. Image(i) \in look[f].found => Traced(Image(i))
      BY <2>6 DEF ReadImages, Traced
    <3> HIDE DEF l
    <3>4. QED
      BY <2>1, <2>2, <3>1, <3>2, <3>3
  <2>7. CASE UpsertRow(f)
    <3>1. PICK r \in look[f].found :
            /\ rows' = rows \union {r}
            /\ \/ look' = [look EXCEPT ![f] = NoLook]
               \/ look' = [look EXCEPT ![f] = [look[f] EXCEPT !.found = @ \ {r}]]
      BY <2>7 DEF UpsertRow, Drop
    <3> DEFINE l == [look[f] EXCEPT !.found = @ \ {r}]
    <3>2. l.found \subseteq look[f].found /\ look[f].pc = "apply"
      BY <2>0, <2>7 DEF UpsertRow
    <3>3. Image(i) \in look[f].found => Traced(Image(i))
      BY <3>2 DEF Traced
    <3>4. look' = [look EXCEPT ![f] = l] \/ look' = [look EXCEPT ![f] = NoLook]
      BY <3>1
    <3> HIDE DEF l
    <3>5. QED
      BY <2>1, <2>2, <3>1, <3>2, <3>3, <3>4
  <2>8. CASE ScanRaises(f) \/ DropRaised(f)
    <3> DEFINE l == [look[f] EXCEPT !.pc = "raised"]
    <3>1. UNCHANGED rows /\ (look' = [look EXCEPT ![f] = l] \/ look' = [look EXCEPT ![f] = NoLook])
      BY <2>8 DEF ScanRaises, DropRaised, Drop
    <3>2. l.pc = "raised"
      BY <2>0
    <3> HIDE DEF l
    <3>3. QED
      BY <2>1, <2>2, <3>1, <3>2
  <2>9. QED
    BY <1>5, <2>3, <2>4, <2>5, <2>6, <2>7, <2>8 DEF FlushStep
<1>6. ASSUME NEW f \in Flushers, FlushStep(f) PROVE UNCHANGED <<tree, req>>
  BY <1>6, OtherFrames DEF disk
<1>7. EditStart \/ EditWrite \/ EditEnd \/ UNCHANGED vars
        => tree \subseteq tree' /\ UNCHANGED req /\ (Traced(Image(i))' => Traced(Image(i)))
  BY OtherFrames DEF vars, watcher, Traced
<1>8. QED
  BY <1>1, <1>2, <1>3, <1>4, <1>5, <1>6, <1>7 DEF Next

\* When a vehicle is retired no flush is applying a batch, and so the repair of
\* every image that has a row has one.
LEMMA RetiredStep ==
  ASSUME TInv, LInv, GInv, ~RemovalRace, ~RemovalRace', [Next]_vars, stage' # "live", ~Crash
  PROVE  GRetiredInv'
<1> SUFFICES /\ \A f \in Flushers : look'[f].pc = "none"
             /\ rows' = {} \/ (Repair \in rows' /\ \E w \in Workers : req'[w].pc = "unrows")
  BY DEF GRetiredInv
<1>0. \A w \in Workers : req[w] \in Requests
  BY RequestRecords
<1>1. CASE stage = "live"
  <2>1. PICK w \in Workers : WriteRetired(w) /\ RequestStep(w)
    BY <1>1 DEF Next, NewRequest, RequestStep, FlushStep, vars, disk,
         AskRepair, AskUpload, AskComment, AskDelete, AskRetire, Ask,
         WriteRepair, ListImages, Compare, Mint, Count, WriteImage, WriteThumb, WriteNote,
         UnlinkImage, UnlinkThumb, UnlinkNote, RemoveRow, RetireGone, RemoveRetired,
         EditStart, EditWrite, EditEnd, Expire, SweepStart, SweepFile, SweepRows,
         FlushTake, Probe, ScanRaises, DropRaised, ListDirectory, ReadImages, UpsertRow
  <2>2. Goto(w, "unrows") /\ UNCHANGED <<rows, batch, look>>
    BY <1>1, <2>1 DEF WriteRetired, watcher
  <2>3. req'[w].pc = "unrows"
    BY <1>0, <2>2 DEF Goto, TInv, TypeOK, Requests
  <2>4. \A f \in Flushers : batch[f] = {}
    BY <2>2, <2>3 DEF RemovalRace
  <2>5. \A f \in Flushers : look[f].pc = "none"
    BY <2>4 DEF TInv, TypeOK
  <2>6. rows \intersect Of({"image"}) # {} => Repair \in rows
    BY <1>1, <2>4 DEF GInv, GLiveInv, Shown
  <2>7. rows = {} \/ Repair \in rows
    BY <2>6, Names DEF TInv, TypeOK
  <2>8. QED
    BY <2>2, <2>3, <2>5, <2>7
<1>2. CASE stage # "live"
  <2>1. /\ \A f \in Flushers : look[f].pc = "none"
        /\ rows = {} \/ (Repair \in rows /\ \E w \in Workers : req[w].pc = "unrows")
    BY <1>2 DEF GInv, GRetiredInv
  <2>2. ASSUME NEW w \in Workers, RequestStep(w)
        PROVE  /\ UNCHANGED look
               /\ rows' = {} \/ (Repair \in rows' /\ \E u \in Workers : req'[u].pc = "unrows")
    <3>1. UNCHANGED look /\ \A u \in Workers \ {w} : req'[u] = req[u]
      BY <2>2, RequestFrame
    <3>2. CASE RemoveRetired(w)
      BY <2>1, <3>1, <3>2 DEF RemoveRetired, RemoveVehicleRows
    <3>3. CASE ~RemoveRetired(w)
      <4>1. req[w].pc # "unrows"
        BY <2>2, <3>3 DEF RequestStep, WriteRepair, ListImages, Compare, Mint, Count, WriteImage,
                WriteThumb, WriteNote, UnlinkImage, UnlinkThumb, UnlinkNote, RemoveRow, WriteRetired,
                RetireGone
      <4>2. rows' \subseteq rows /\ (Repair \in rows => Repair \in rows')
        <5>1. \A i : Image(i) # Repair
          BY DEF Image, Repair
        <5>2. QED
          BY <2>2, <3>3, <5>1
             DEF RequestStep, WriteRepair, ListImages, Compare, Mint, Count, WriteImage, WriteThumb,
                 WriteNote, UnlinkImage, UnlinkThumb, UnlinkNote, RemoveRow, WriteRetired, RetireGone
      <4>3. QED
        BY <2>1, <3>1, <4>1, <4>2
    <3>4. QED
      BY <3>2, <3>3
  <2>3. ASSUME NEW w \in Workers, NewRequest(w)
        PROVE  /\ UNCHANGED <<look, rows>>
               /\ \A u \in Workers : req[u].pc = "unrows" => req'[u].pc = "unrows"
    <3>1. UNCHANGED <<look, rows>> /\ req[w].pc # "unrows" /\ \A u \in Workers \ {w} : req'[u] = req[u]
      BY <2>3, NewRequestIs DEF watcher, Idle
    <3>2. QED
      BY <3>1
  <2>4. ASSUME NEW f \in Flushers, FlushStep(f) PROVE UNCHANGED <<look, rows, req>>
    BY <1>2, <2>1, <2>4 DEF FlushStep, FlushTake, Probe, ScanRaises, DropRaised, ListDirectory, ReadImages,
         UpsertRow, Live
  <2>5. EditStart \/ EditWrite \/ EditEnd \/ Expire \/ SweepStart \/ SweepFile \/ UNCHANGED vars
          => UNCHANGED <<look, rows, req>>
    BY OtherFrames DEF vars, watcher
  <2>6. SweepRows => UNCHANGED <<look, req>> /\ (rows' = {} \/ rows' = rows)
    BY OtherFrames DEF watcher, SweepRows, RemoveVehicleRows
  <2>7. QED
    BY <2>1, <2>2, <2>3, <2>4, <2>5, <2>6 DEF Next
<1>3. QED
  BY <1>1, <1>2

\* Rows of images that no longer exist, or of a retired vehicle, are left behind
\* in no other way than by a removal that races with a flush, by a crash, or by
\* an update that brings a retired vehicle back.
THEOREM GhostsNeedARace == Spec => GhostsOnlyByRace
<1> DEFINE Calm == ~RemovalRace /\ ~StaleEdit /\ crashes = 0
           Known == TInv /\ HInv /\ LInv /\ RepairInv
           Clean == Quiescent => rows \subseteq IF Live THEN tree ELSE {}
<1>1. Init => GInv
  BY DEF Init, GInv, GLiveInv, GRetiredInv, Traced, NoLook, W!Init
<1>2. Known /\ GInv /\ Calm /\ Calm' /\ [Next]_vars => GInv'
  <2> SUFFICES ASSUME Known, GInv, Calm, Calm', [Next]_vars PROVE GInv'
    OBVIOUS
  <2>1. ~Crash
    BY DEF Crash
  <2>2. stage' # "live" => GRetiredInv'
    BY <2>1, RetiredStep
  <2>3. ASSUME stage' = "live" PROVE GLiveInv'
    <3>1. stage = "live"
      BY <2>3, StaysLive
    <3>2. /\ rows' \intersect Of({"image"}) # {} => Shown'
          /\ \A f \in Flushers : batch'[f] \intersect Of({"image"}) # {} => Shown'
      BY <2>1, <2>3, <3>1, KnownStep
    <3>3. \A i \in Images : Traced(Image(i))' =>
            Image(i) \in tree' \/ \E w \in Workers : Deleting(req'[w]) /\ req'[w].i = i
      BY <2>1, <2>3, <3>1, TracedStep
    <3>4. QED
      BY <3>2, <3>3 DEF GLiveInv, Deleting
  <2>4. QED
    BY <2>2, <2>3 DEF GInv, GLiveInv, GRetiredInv
<1>3. Known /\ GInv => Clean
  <2> SUFFICES ASSUME Known, GInv, Quiescent PROVE rows \subseteq IF Live THEN tree ELSE {}
    OBVIOUS
  <2>1. \A w \in Workers : ~Deleting(req[w]) /\ req[w].pc # "unrows"
    BY DEF Quiescent, Idle, Deleting
  <2>2. CASE stage = "live"
    <3>1. Live
      BY <2>2 DEF Live, LInv, LiveInv
    <3>2. \A i \in Images : Image(i) \in rows => Image(i) \in tree
      BY <2>1, <2>2 DEF GInv, GLiveInv, Traced
    <3>3. Repair \in rows => Repair \in tree
      BY <2>2 DEF LInv, BareInv
    <3>4. QED
      BY <3>1, <3>2, <3>3, Names DEF TInv, TypeOK
  <2>3. CASE stage # "live"
    BY <2>1, <2>3 DEF GInv, GRetiredInv, Live
  <2>4. QED
    BY <2>2, <2>3
<1>4. GhostsOnlyByRace <=> ([]Calm => []Clean)
  BY DEF GhostsOnlyByRace
<1>5. Calm => ~StaleEdit
  OBVIOUS
<1>6. Spec => []TInv /\ []HInv /\ ([]~StaleEdit => []LInv /\ []RepairInv)
  BY Typed, Ordered, AlwaysCovered, PTL
<1> HIDE DEF Calm, Clean
<1>7. QED
  BY <1>1, <1>2, <1>3, <1>4, <1>5, <1>6, PTL DEF Spec
==============================================================================
