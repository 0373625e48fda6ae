----------------------------- MODULE EmailProofs -----------------------------
(***************************************************************************)
(* Proofs about EmailIngest, for any messages, mailbox, number of crashes  *)
(* and number of failing calls.                                            *)
(***************************************************************************)
EXTENDS EmailIngest, TLAPS

\* The images of m that the use case has uploaded when it stands at image i.
Uploaded(m, i) == \A j \in 1 .. i - 1 : Images[m][j] \in stored[Folder[m]]

\* What the job has done for the message it handles.
JobOK ==
  /\ job.pc \notin {"idle", "next"} => job.m \in todo
  /\ job.pc \in {"repair", "upload"} => job.i \in 1 .. Len(Images[job.m]) /\ Uploaded(job.m, job.i)
  /\ job.pc = "upload" => Folder[job.m] \in repairs
  /\ job.pc = "mark" /\ ~job.raised => Complete(job.m)

\* What was handled without an exception stays complete.
DoneStays == \A m \in Messages : outcome[m] = "done" => Complete(m)

Jobs == [pc : {"idle", "next", "parking", "repair", "upload", "mark"},
         m : Messages \union {None}, i : Nat, raised : BOOLEAN]

Inv == TypeOK /\ JobOK /\ DoneStays

\* Files are never taken away by the poller.
Grows == parked \subseteq parked' /\ \A d \in Folders : stored[d] \subseteq stored'[d]

------------------------------------------------------------------------------
(* Inv is inductive *)

LEMMA Growing ==
  ASSUME Inv, Grows
  PROVE  /\ \A m \in Messages : Complete(m) => Complete(m)'
         /\ \A m \in Messages, i \in Nat : Uploaded(m, i) => Uploaded(m, i)'
BY MailAssumption DEF Grows, Complete, Uploaded

LEMMA InitInv == Init => Inv
<1>1. Init => TypeOK
  BY DEF Init, TypeOK, Resting
<1>2. Init => JobOK /\ DoneStays
  BY DEF Init, JobOK, DoneStays, Resting
<1>3. QED
  BY <1>1, <1>2 DEF Inv

\* The job goes back to rest, or to the next message, with fewer to handle.
LEMMA Resuming ==
  ASSUME Inv, todo' \subseteq todo, job' \in {Resting, [Resting EXCEPT !.pc = "next"]},
         outcome' = outcome, Grows, UNCHANGED <<arrived, seen, known, deleted, repairs, stored, parked>>,
         slots' \in [Messages -> Nat], crashes' \in Nat, faults' \in Nat
  PROVE  Inv'
<1>0. job' \in Jobs
  <2>1. Resting \in Jobs /\ [Resting EXCEPT !.pc = "next"] \in Jobs
    BY DEF Resting, Jobs
  <2>2. QED
    BY <2>1
<1>1. TypeOK'
  <2>1. TypeOK
    BY DEF Inv
  <2>2. todo' \subseteq arrived'
    BY <2>1 DEF TypeOK
  <2>3. QED
    BY <1>0, <2>1, <2>2 DEF TypeOK, Jobs
<1>2. JobOK'
  BY DEF JobOK, Resting
<1>3. DoneStays'
  BY Growing DEF Inv, DoneStays
<1>4. QED
  BY <1>1, <1>2, <1>3 DEF Inv

LEMMA StepInv ==
  ASSUME Inv, [Next]_vars
  PROVE  Inv'
<1> USE MailAssumption DEF Inv
<1>0. /\ job.pc \notin {"idle", "next"} => job.m \in Messages
      /\ \A m \in Messages : Folder[m] \in Folders
  BY DEF TypeOK, JobOK
<1>a. ASSUME job.pc = "parking"
      PROVE  NewSlot \in [Messages -> Nat]
  <2>1. slots \in [Messages -> Nat] /\ job.m \in Messages /\ slots[job.m] \in Nat
    BY <1>0, <1>a DEF TypeOK
  <2>2. (IF slots[job.m] < MaxSlots THEN slots[job.m] + 1 ELSE slots[job.m]) \in Nat
    BY <2>1
  <2>3. QED
    BY <2>1, <2>2 DEF NewSlot
<1>1. ASSUME NEW m \in Messages, Arrive(m)
      PROVE  Inv'
  <2>1. TypeOK'
    BY <1>1 DEF Arrive, TypeOK, files, bounds
  <2>2. QED
    BY <1>1, <2>1 DEF Arrive, files, JobOK, DoneStays, Complete, Uploaded
<1>2. ASSUME NEW v \in Vehicles, AddVehicle(v) \/ RemoveVehicle(v)
      PROVE  Inv'
  <2>1. TypeOK'
    BY <1>2 DEF AddVehicle, RemoveVehicle, TypeOK, files, bounds
  <2>2. QED
    BY <1>2, <2>1 DEF AddVehicle, RemoveVehicle, files, JobOK, DoneStays, Complete, Uploaded
<1>3. CASE Poll
  <2>1. todo' \subseteq arrived
    BY <1>3 DEF Poll, First
  <2>2. TypeOK'
    BY <1>3, <2>1 DEF Poll, TypeOK, Resting, mail, files, bounds
  <2>3. JobOK' /\ DoneStays'
    BY <1>3 DEF Poll, JobOK, DoneStays, Resting, files, Complete
  <2>4. QED
    BY <2>2, <2>3
<1>4. ASSUME NEW m \in Messages, Route(m)
      PROVE  Inv'
  <2>1. Images[m] # <<>> => 1 \in 1 .. Len(Images[m])
    <3>1. Images[m] \in Seq(Contents)
      OBVIOUS
    <3>2. QED
      BY <3>1
  <2>2. TypeOK'
    BY <1>4 DEF Route, TypeOK, Resting, mail, files, bounds
  <2>3. JobOK'
    BY <1>4, <2>1 DEF Route, Least, JobOK, Resting, files, Complete, Uploaded
  <2>4. DoneStays'
    BY <1>4 DEF Route, DoneStays, files, Complete
  <2>5. QED
    BY <2>2, <2>3, <2>4
<1>5. CASE Park
  <2>1. TypeOK'
    BY <1>0, <1>a, <1>5 DEF Park, TypeOK, mail, bounds
  <2>2. Grows
    BY <1>5 DEF Park, Grows
  <2>3. JobOK'
    BY <1>5 DEF Park, JobOK, TypeOK, Complete
  <2>4. DoneStays'
    BY <1>5, <2>2, Growing DEF Park, DoneStays
  <2>5. QED
    BY <2>1, <2>3, <2>4
<1>6. CASE OpenRepair
  <2>0. job' \in Jobs /\ Folder[job.m] \in Folders
    BY <1>0, <1>6 DEF OpenRepair, TypeOK, Jobs
  <2>1. TypeOK'
    BY <1>6, <2>0 DEF OpenRepair, TypeOK, Jobs, mail, bounds
  <2>2. JobOK' /\ DoneStays'
    BY <1>6 DEF OpenRepair, JobOK, DoneStays, TypeOK, Complete, Uploaded
  <2>3. QED
    BY <2>1, <2>2
<1>7. CASE Upload
  <2>0. job.m \in Messages /\ Folder[job.m] \in Folders /\ job.i \in 1 .. Len(Images[job.m])
        /\ Images[job.m] \in Seq(Contents) /\ Image \in Contents
    BY <1>0, <1>7 DEF Upload, JobOK, Image
  <2>1. stored' = [stored EXCEPT ![Folder[job.m]] = @ \union {Image}] /\ UNCHANGED <<parked, repairs>>
    BY <1>7 DEF Upload
  <2>2. TypeOK'
    <3>1. stored' \in [Folders -> SUBSET Contents] /\ \A d \in Folders : stored'[d] # {} => d \in repairs
      BY <1>7, <2>0, <2>1 DEF Upload, TypeOK, JobOK
    <3>2. job \in Jobs /\ job.i + 1 \in Nat
      BY DEF TypeOK, Jobs
    <3>3. job' \in Jobs
      BY <1>7, <3>2 DEF Upload, Jobs
    <3>4. QED
      BY <1>7, <3>1, <3>3 DEF Upload, TypeOK, Jobs, mail, bounds
  <2>3. Grows
    BY <2>1 DEF Grows, TypeOK
  <2>4. \A j \in 1 .. job.i : Images[job.m][j] \in stored'[Folder[job.m]]
    <3>1. Uploaded(job.m, job.i) /\ Images[job.m][job.i] \in stored'[Folder[job.m]]
      BY <1>7, <2>0, <2>1 DEF Upload, JobOK, TypeOK, Image
    <3>2. QED
      BY <2>0, <2>3, <3>1 DEF Uploaded, Grows
  <2>5. JobOK'
    <3>0. job.pc = "upload" /\ job \in Jobs /\ job.m \in todo /\ Folder[job.m] \in repairs /\ todo' = todo
      BY <1>7 DEF Upload, JobOK, TypeOK, Jobs
    <3>1. CASE job.i = Len(Images[job.m])
      <4>1. job' = [job EXCEPT !.pc = "mark"]
        BY <1>7, <3>1 DEF Upload
      <4>2. job'.pc = "mark" /\ job'.m = job.m
        BY <3>0, <4>1 DEF Jobs
      <4>3. \A j \in DOMAIN Images[job.m] : Images[job.m][j] \in stored'[Folder[job.m]]
        BY <2>0, <2>4, <3>1
      <4>4. QED
        BY <3>0, <4>2, <4>3 DEF JobOK, Complete
    <3>2. CASE job.i # Len(Images[job.m])
      <4>1. job' = [job EXCEPT !.i = @ + 1]
        BY <1>7, <3>2 DEF Upload
      <4>2. job'.pc = "upload" /\ job'.m = job.m /\ job'.i = job.i + 1
        BY <3>0, <4>1 DEF Jobs
      <4>3. job.i + 1 \in 1 .. Len(Images[job.m]) /\ (job.i + 1) - 1 = job.i
        BY <2>0, <3>2
      <4>4. repairs' = repairs
        BY <2>1
      <4>5. QED
        BY <2>4, <3>0, <4>2, <4>3, <4>4 DEF JobOK, Uploaded
    <3>3. QED
      BY <3>1, <3>2
  <2>6. DoneStays'
    BY <1>7, <2>3, Growing DEF Upload, DoneStays
  <2>7. QED
    BY <2>2, <2>5, <2>6
<1>8. CASE RepairRaises \/ UploadRaises
  <2>1. TypeOK'
    <3>1. job' = [job EXCEPT !.pc = "mark", !.raised = TRUE] /\ UNCHANGED <<mail, files, todo, outcome, bounds>>
      BY <1>8 DEF RepairRaises, UploadRaises
    <3>2. QED
      BY <3>1 DEF TypeOK, mail, files, bounds
  <2>2. JobOK' /\ DoneStays'
    <3>1. job'.pc = "mark" /\ job'.m = job.m /\ job'.raised /\ job.pc \in {"repair", "upload"}
      BY <1>8 DEF RepairRaises, UploadRaises, TypeOK
    <3>2. UNCHANGED <<parked, stored, todo, outcome>>
      BY <1>8 DEF RepairRaises, UploadRaises, files
    <3>3. QED
      BY <3>1, <3>2 DEF JobOK, DoneStays, Complete
  <2>3. QED
    BY <2>1, <2>2
<1>9. CASE Mark
  <2>1. TypeOK'
    BY <1>0, <1>9 DEF Mark, TypeOK, Resting, files, bounds
  <2>2. JobOK'
    BY <1>9 DEF Mark, JobOK, Resting
  <2>3. DoneStays'
    BY <1>0, <1>9 DEF Mark, DoneStays, JobOK, TypeOK, files, Complete
  <2>4. QED
    BY <2>1, <2>2, <2>3
<1>10. CASE StorageFails
  <2>0. slots' \in [Messages -> Nat] /\ faults' \in Nat
    <3>1. slots' = slots \/ (job.pc = "parking" /\ slots' = NewSlot)
      BY <1>10 DEF StorageFails
    <3>2. QED
      BY <1>a, <1>10, <3>1 DEF TypeOK, StorageFails
  <2>1. \/ stored' = stored
        \/ job.pc = "upload" /\ stored' = [stored EXCEPT ![Folder[job.m]] = @ \union {Image}]
    BY <1>10 DEF StorageFails
  <2>2. /\ Grows
        /\ stored' \in [Folders -> SUBSET Contents]
        /\ \A d \in Folders : stored'[d] # {} => d \in repairs
    <3>1. parked' = parked
      BY <1>10 DEF StorageFails
    <3>2. CASE stored' = stored
      BY <3>1, <3>2 DEF Grows, TypeOK
    <3>3. CASE job.pc = "upload" /\ stored' = [stored EXCEPT ![Folder[job.m]] = @ \union {Image}]
      <4>0. Images[job.m] \in Seq(Contents) /\ job.i \in 1 .. Len(Images[job.m]) /\ Folder[job.m] \in repairs
        BY <1>0, <3>3 DEF JobOK
      <4>1. Image \in Contents /\ Folder[job.m] \in repairs
        BY <4>0 DEF Image
      <4>2. QED
        BY <3>1, <3>3, <4>1 DEF Grows, TypeOK
    <3>4. QED
      BY <2>1, <3>2, <3>3
  <2>3. TypeOK'
    BY <1>10, <2>0, <2>2 DEF StorageFails, TypeOK, mail
  <2>4. JobOK'
    BY <1>10 DEF StorageFails, JobOK, TypeOK
  <2>5. DoneStays'
    BY <1>10, <2>2, Growing DEF StorageFails, DoneStays
  <2>6. QED
    BY <2>3, <2>4, <2>5
<1>11. CASE MarkFails
  BY <1>11, Resuming DEF MarkFails, Grows, mail, files, TypeOK
<1>12. CASE Crash
  <2>1. slots' \in [Messages -> Nat]
    BY <1>a, <1>12 DEF Crash, TypeOK
  <2>2. QED
    BY <1>12, <2>1, Resuming DEF Crash, Grows, mail, TypeOK
<1>13. CASE UNCHANGED vars
  BY <1>13 DEF vars, TypeOK, JobOK, DoneStays, Complete, Uploaded
<1>14. QED
  BY <1>1, <1>2, <1>3, <1>4, <1>5, <1>6, <1>7, <1>8, <1>9, <1>10, <1>11, <1>12, <1>13 DEF Next, PollStep

\* Inv is inductive.
THEOREM Invariance == Spec => []Inv
BY InitInv, StepInv, PTL DEF Spec

\* Whatever arrives, fails or crashes, every variable keeps its type, and no
\* image is in a directory without its _repair.json.
THEOREM TypeCorrect == Spec => []TypeOK
BY Invariance, PTL DEF Inv

\* A message whose last attempt ended without an exception has all its images
\* on the vehicle or is parked, whatever happened in earlier attempts.
THEOREM DoneIsComplete == Spec => []DoneMeansComplete
<1>1. Inv => DoneMeansComplete
  BY DEF Inv, TypeOK, DoneStays, DoneMeansComplete
<1>2. QED
  BY Invariance, <1>1, PTL

------------------------------------------------------------------------------
(* How often a message is parked *)

Marking(m) == job.pc = "mark" /\ job.m = m

\* A message that the running poll, or a later one, may handle has no slot
\* that a crash or a failing call did not cost.
SlotsOK ==
  \A m \in Messages : m \in Found[m] =>
    /\ slots[m] <= 1 + crashes + faults
    /\ (m \in todo \/ m \notin seen) /\ ~Marking(m) => slots[m] <= crashes + faults

LEMMA SlotsStep ==
  ASSUME Inv, SlotsOK, [Next]_vars
  PROVE  SlotsOK'
<1> SUFFICES ASSUME NEW m \in Messages, m \in Found[m]
             PROVE  /\ slots'[m] <= 1 + crashes' + faults'
                    /\ (m \in todo' \/ m \notin seen') /\ ~Marking(m)' => slots'[m] <= crashes' + faults'
  BY DEF SlotsOK
<1>1. /\ slots \in [Messages -> Nat] /\ crashes \in Nat /\ faults \in Nat
      /\ seen \subseteq arrived
      /\ job.pc \notin {"idle", "next"} => job.m \in todo /\ job.m \in Messages
      /\ job \in Jobs
  BY DEF Inv, TypeOK, JobOK, Jobs
<1>2. /\ slots[m] <= 1 + crashes + faults
      /\ (m \in todo \/ m \notin seen) /\ ~Marking(m) => slots[m] <= crashes + faults
  BY DEF SlotsOK
<1>3. ASSUME job.pc = "parking"
      PROVE  /\ job.m # m => NewSlot[m] = slots[m]
             /\ job.m = m => slots[m] <= crashes + faults /\ NewSlot[m] <= slots[m] + 1 /\ NewSlot[m] \in Nat
  BY <1>1, <1>2, <1>3 DEF NewSlot, Marking
<1>4. CASE Poll
  <2>1. todo' \intersect seen = {} /\ ~Marking(m)
    BY <1>4 DEF Poll, First, Marking
  <2>2. QED
    BY <1>1, <1>2, <1>4, <2>1 DEF Poll, mail, files, bounds
<1>5. CASE Park
  <2>1. job' = [job EXCEPT !.pc = "mark"] /\ slots' = NewSlot
    BY <1>5 DEF Park
  <2>2. job'.pc = "mark" /\ job'.m = job.m
    BY <1>1, <2>1 DEF Jobs
  <2>3. UNCHANGED <<todo, seen, crashes, faults>> /\ job.pc = "parking"
    BY <1>5 DEF Park, mail, bounds
  <2>4. CASE job.m = m
    BY <1>1, <1>3, <2>1, <2>2, <2>3, <2>4 DEF Marking
  <2>5. CASE job.m # m
    BY <1>1, <1>2, <1>3, <2>1, <2>2, <2>3, <2>5 DEF Marking
  <2>6. QED
    BY <2>4, <2>5
<1>6. CASE Mark
  <2>1. UNCHANGED <<slots, crashes, faults>> /\ seen \subseteq seen' /\ job.pc = "mark"
    BY <1>6 DEF Mark, files, bounds
  <2>2. CASE job.m = m
    <3>1. m \in seen' /\ m \notin todo'
      BY <1>1, <1>6, <2>2 DEF Mark, Inv, TypeOK
    <3>2. QED
      BY <1>2, <2>1, <3>1
  <2>3. CASE job.m # m
    <3>1. ~Marking(m) /\ todo' \subseteq todo
      BY <1>6, <2>3 DEF Mark, Marking
    <3>2. QED
      BY <1>2, <2>1, <3>1
  <2>4. QED
    BY <2>2, <2>3
<1>7. CASE StorageFails \/ MarkFails \/ Crash
  <2>1. /\ crashes' \in Nat /\ faults' \in Nat /\ crashes' + faults' = crashes + faults + 1
        /\ slots' = slots \/ (job.pc = "parking" /\ slots' = NewSlot)
    BY <1>1, <1>7 DEF StorageFails, MarkFails, Crash, files
  <2>2. slots'[m] <= 1 + crashes + faults
    <3>1. slots[m] \in Nat
      BY <1>1
    <3>2. CASE slots' = slots
      BY <1>2, <3>2
    <3>3. CASE job.pc = "parking" /\ slots' = NewSlot
      BY <1>1, <1>2, <1>3, <3>1, <3>3
    <3>4. QED
      BY <2>1, <3>2, <3>3
  <2>3. slots'[m] \in Nat
    BY <1>1, <1>3, <2>1
  <2>4. slots'[m] <= crashes' + faults' /\ slots'[m] <= 1 + crashes' + faults'
    BY <1>1, <2>1, <2>2, <2>3
  <2>5. QED
    BY <2>4
<1>8. CASE UNCHANGED <<todo, seen, slots, crashes, faults>> /\ ~Marking(m)
  BY <1>2, <1>8
<1>9. ASSUME NEW n \in Messages, Route(n)
      PROVE  UNCHANGED <<todo, seen, slots, crashes, faults>> /\ ~Marking(m)
  BY <1>9 DEF Route, Marking, mail, files, bounds
<1>10. OpenRepair \/ RepairRaises \/ Upload \/ UploadRaises
       => UNCHANGED <<todo, seen, slots, crashes, faults>> /\ ~Marking(m)
  BY DEF OpenRepair, RepairRaises, Upload, UploadRaises, Marking, mail, files, bounds
<1>11. CASE UNCHANGED <<todo, seen, slots, crashes, faults, job>>
  BY <1>2, <1>11 DEF Marking
<1>12. QED
  BY <1>4, <1>5, <1>6, <1>7, <1>8, <1>9, <1>10, <1>11
  DEF Next, PollStep, Arrive, AddVehicle, RemoveVehicle, vars, files, bounds

\* A message that its own mark can find never has more than one slot in the
\* inbox beyond those that crashes and failing calls cost, for any overlap of
\* the ids that the mailbox search finds.
THEOREM SlotsAreFew == Spec => []FewSlots
<1>1. Init => SlotsOK
  BY DEF Init, SlotsOK
<1>2. Inv /\ SlotsOK /\ [Next]_vars => SlotsOK'
  BY SlotsStep
<1>3. SlotsOK => FewSlots
  BY DEF SlotsOK, FewSlots
<1>4. QED
  BY Invariance, <1>1, <1>2, <1>3, PTL DEF Spec
==============================================================================
