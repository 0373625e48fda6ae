----------------------------- MODULE EmailIngest -----------------------------
(***************************************************************************)
(* The poller job that reads the workshop's mailbox: it fetches unread     *)
(* messages, routes the images of a message to a repair of the vehicle it  *)
(* names, parks what it cannot route, and marks the message as seen.       *)
(*                                                                         *)
(* The scheduler runs one instance of the job at a time, so the job is a   *)
(* sequence of steps; between them the process may crash, and each storage *)
(* or mailbox call may raise.  The images of a message are the attachments *)
(* that pass the type and size filter.                                     *)
(*                                                                         *)
(* Messages are marked by the poller only: a person who reads the mailbox  *)
(* with another program is left out.                                       *)
(*                                                                         *)
(* UploadDropsLast, OpenRepairUnsaved, PollAll and MarkUnlessRaised are    *)
(* mutated forms of the definition after them, which the properties must   *)
(* tell from the code; the specification never uses them.                  *)
(***************************************************************************)
EXTENDS Naturals, Sequences, FiniteSets

CONSTANTS
  Messages,   \* messages, in the order in which they arrive
  Vehicles,   \* registration numbers
  Named,      \* Named[m]: the number the parser extracts from m, or None
  Folders,    \* repair directories
  Folder,     \* Folder[m]: the directory for m's date, subject and vehicle
  Contents,   \* image contents
  Images,     \* Images[m]: the contents of the image attachments of m
  Corrupt,    \* contents that the image processor cannot decode
  Found,      \* Found[m]: what a mailbox search for m's id finds
  Limit,      \* how many messages one poll fetches
  MaxCrashes, \* bound on crashes
  MaxFaults,  \* bound on storage and mailbox errors
  None

ASSUME MailAssumption ==
  /\ Messages \subseteq Nat /\ Limit \in Nat \ {0} /\ None \notin Vehicles
  /\ Named \in [Messages -> Vehicles \union {None}]
  /\ Folder \in [Messages -> Folders]
  /\ Images \in [Messages -> Seq(Contents)]
  /\ Found \in [Messages -> SUBSET Messages]
  /\ MaxCrashes \in Nat /\ MaxFaults \in Nat

VARIABLES
  arrived,    \* messages in the mailbox
  seen,       \* messages with the \Seen flag
  known,      \* vehicles that are live
  deleted,    \* vehicles that were soft-deleted
  repairs,    \* directories that hold a _repair.json
  stored,     \* stored[d]: image contents in directory d
  parked,     \* messages with a complete slot under _system/inbox
  slots,      \* slots[m]: how many slots m has there, complete or not
  todo,       \* fetched messages that the running poll has yet to handle
  job,        \* where the poll stands with the message it is handling
  outcome,    \* outcome[m]: how the last attempt at m ended
  crashes, faults

mail == <<arrived, seen, known, deleted>>
files == <<repairs, stored, parked, slots>>
bounds == <<crashes, faults>>
vars == <<arrived, seen, known, deleted, repairs, stored, parked, slots, todo, job, outcome,
          crashes, faults>>

Resting == [pc |-> "idle", m |-> None, i |-> 1, raised |-> FALSE]

TypeOK ==
  /\ arrived \subseteq Messages /\ seen \subseteq arrived /\ todo \subseteq arrived
  /\ known \subseteq Vehicles /\ deleted \subseteq Vehicles /\ repairs \subseteq Folders
  /\ stored \in [Folders -> SUBSET Contents]
  /\ \A d \in Folders : stored[d] # {} => d \in repairs
  /\ parked \subseteq Messages /\ slots \in [Messages -> Nat]
  /\ job \in [pc : {"idle", "next", "parking", "repair", "upload", "mark"},
              m : Messages \union {None}, i : Nat, raised : BOOLEAN]
  /\ outcome \in [Messages -> {"none", "done", "raised"}]
  /\ crashes \in Nat /\ faults \in Nat

Init ==
  /\ arrived = {} /\ seen = {} /\ known = {} /\ deleted = {}
  /\ repairs = {} /\ parked = {} /\ slots = [m \in Messages |-> 0]
  /\ stored = [d \in Folders |-> {}]
  /\ todo = {} /\ job = Resting
  /\ outcome = [m \in Messages |-> "none"]
  /\ crashes = 0 /\ faults = 0

Least(S, x) == x \in S /\ \A y \in S : x <= y
First(S, n) == {x \in S : Cardinality({y \in S : y < x}) < n}

------------------------------------------------------------------------------
(* The outside *)

Arrive(m) ==
  /\ Least(Messages \ arrived, m)
  /\ arrived' = arrived \union {m}
  /\ UNCHANGED <<seen, known, deleted, files, todo, job, outcome, bounds>>

\* Somebody creates the vehicle in the web application.  A second vehicle of
\* the same number, which would have directories of its own, is left out.
AddVehicle(v) ==
  /\ v \notin known \union deleted
  /\ known' = known \union {v}
  /\ UNCHANGED <<arrived, seen, deleted, files, todo, job, outcome, bounds>>

\* Somebody soft-deletes it: no message finds it by its number any more.
RemoveVehicle(v) ==
  /\ v \in known
  /\ known' = known \ {v}
  /\ deleted' = deleted \union {v}
  /\ UNCHANGED <<arrived, seen, files, todo, job, outcome, bounds>>

------------------------------------------------------------------------------
(* One poll *)

PollAll ==
  /\ job.pc = "idle"
  /\ arrived # {}
  /\ todo' = First(arrived, Limit)
  /\ job' = [Resting EXCEPT !.pc = "next"]
  /\ UNCHANGED <<mail, files, outcome, bounds>>

\* fetch_unread
Poll ==
  /\ job.pc = "idle"
  /\ arrived \ seen # {}
  /\ todo' = First(arrived \ seen, Limit)
  /\ job' = [Resting EXCEPT !.pc = "next"]
  /\ UNCHANGED <<mail, files, outcome, bounds>>

\* _handle_message: without a number, or a vehicle of that number, the
\* message is parked; without images it is skipped.
Route(m) ==
  /\ job.pc = "next"
  /\ Least(todo, m)
  /\ job' = [Resting EXCEPT !.m = m,
               !.pc = IF Named[m] \notin known THEN "parking"
                      ELSE IF Images[m] = <<>> THEN "mark" ELSE "repair"]
  /\ UNCHANGED <<mail, files, todo, outcome, bounds>>

\* Slots are counted up to a number that FewSlots never allows.
MaxSlots == MaxCrashes + MaxFaults + 2
NewSlot == [slots EXCEPT ![job.m] = IF @ < MaxSlots THEN @ + 1 ELSE @]

\* park opens a slot with a new name, whether or not the message has one, and
\* the slot is complete once the sidecar and all attachments are in it.
Park ==
  /\ job.pc = "parking"
  /\ parked' = parked \union {job.m}
  /\ slots' = NewSlot
  /\ job' = [job EXCEPT !.pc = "mark"]
  /\ UNCHANGED <<mail, repairs, stored, todo, outcome, bounds>>

OpenRepairUnsaved ==
  /\ job.pc = "repair"
  /\ job' = [job EXCEPT !.pc = "upload"]
  /\ UNCHANGED <<mail, files, todo, outcome, bounds>>

\* _get_or_create_repair_id: DuplicateRepair leads to the existing one.
OpenRepair ==
  /\ job.pc = "repair"
  /\ Named[job.m] \notin deleted
  /\ repairs' = repairs \union {Folder[job.m]}
  /\ job' = [job EXCEPT !.pc = "upload"]
  /\ UNCHANGED <<mail, stored, parked, slots, todo, outcome, bounds>>

\* CreateRepairUseCase raises VehicleNotFound for a vehicle that was deleted
\* since the message was routed.  The uploads that follow only ask for the
\* repair, which keeps its files.
RepairRaises ==
  /\ job.pc = "repair"
  /\ Named[job.m] \in deleted
  /\ job' = [job EXCEPT !.pc = "mark", !.raised = TRUE]
  /\ UNCHANGED <<mail, files, todo, outcome, bounds>>

Image == Images[job.m][job.i]
Refused == Image \in Corrupt \/ Image \in stored[Folder[job.m]]

UploadDropsLast ==
  /\ job.pc = "upload"
  /\ ~Refused
  /\ stored' = [stored EXCEPT ![Folder[job.m]] = @ \union {Image}]
  /\ job' = IF job.i + 1 >= Len(Images[job.m]) THEN [job EXCEPT !.pc = "mark"]
                                               ELSE [job EXCEPT !.i = @ + 1]
  /\ UNCHANGED <<mail, repairs, parked, slots, todo, outcome, bounds>>

\* UploadImageUseCase stores the next image.
Upload ==
  /\ job.pc = "upload"
  /\ ~Refused
  /\ stored' = [stored EXCEPT ![Folder[job.m]] = @ \union {Image}]
  /\ job' = IF job.i = Len(Images[job.m]) THEN [job EXCEPT !.pc = "mark"]
                                          ELSE [job EXCEPT !.i = @ + 1]
  /\ UNCHANGED <<mail, repairs, parked, slots, todo, outcome, bounds>>

\* The processor cannot decode the image, or DuplicateImage: the exception
\* ends the message, with whatever images it still had.
UploadRaises ==
  /\ job.pc = "upload"
  /\ Refused
  /\ job' = [job EXCEPT !.pc = "mark", !.raised = TRUE]
  /\ UNCHANGED <<mail, files, todo, outcome, bounds>>

\* A storage call raises.  park writes its sidecar first, so a slot without
\* its attachments may stay behind; an image is written before its thumbnail.
StorageFails ==
  /\ job.pc \in {"parking", "repair", "upload"}
  /\ faults < MaxFaults
  /\ faults' = faults + 1
  /\ slots' \in IF job.pc = "parking" THEN {slots, NewSlot} ELSE {slots}
  /\ stored' \in IF job.pc = "upload" /\ ~Refused
                  THEN {stored, [stored EXCEPT ![Folder[job.m]] = @ \union {Image}]}
                  ELSE {stored}
  /\ job' = [job EXCEPT !.pc = "mark", !.raised = TRUE]
  /\ UNCHANGED <<mail, repairs, parked, todo, outcome, crashes>>

MarkUnlessRaised ==
  /\ job.pc = "mark"
  /\ seen' = IF job.raised THEN seen ELSE seen \union (Found[job.m] \intersect arrived)
  /\ outcome' = [outcome EXCEPT ![job.m] = IF job.raised THEN "raised" ELSE "done"]
  /\ todo' = IF job.raised THEN {} ELSE todo \ {job.m}
  /\ job' = IF todo' = {} THEN Resting ELSE [Resting EXCEPT !.pc = "next"]
  /\ UNCHANGED <<arrived, known, deleted, files, bounds>>

\* mark_processed stands in a finally clause, so it runs after an exception
\* too; the exception then ends the poll.  It searches the mailbox for a
\* Message-ID header that contains the id.  For a message that has no such
\* header the id is its UID, so the search does not find that message, and
\* may find others whose header contains those digits.
Mark ==
  /\ job.pc = "mark"
  /\ seen' = seen \union (Found[job.m] \intersect arrived)
  /\ outcome' = [outcome EXCEPT ![job.m] = IF job.raised THEN "raised" ELSE "done"]
  /\ todo' = IF job.raised THEN {} ELSE todo \ {job.m}
  /\ job' = IF todo' = {} THEN Resting ELSE [Resting EXCEPT !.pc = "next"]
  /\ UNCHANGED <<arrived, known, deleted, files, bounds>>

\* The mailbox does not answer: the poll ends, the next one sees the message
\* again.
MarkFails ==
  /\ job.pc = "mark"
  /\ faults < MaxFaults
  /\ faults' = faults + 1
  /\ todo' = {} /\ job' = Resting
  /\ UNCHANGED <<mail, files, outcome, crashes>>

Crash ==
  /\ job.pc # "idle"
  /\ crashes < MaxCrashes
  /\ crashes' = crashes + 1
  /\ slots' \in IF job.pc = "parking" THEN {slots, NewSlot} ELSE {slots}
  /\ todo' = {} /\ job' = Resting
  /\ UNCHANGED <<mail, repairs, stored, parked, outcome, faults>>

PollStep ==
  \/ \E m \in Messages : Route(m)
  \/ Park \/ OpenRepair \/ RepairRaises \/ Upload \/ UploadRaises \/ Mark

Next ==
  \/ \E m \in Messages : Arrive(m)
  \/ \E v \in Vehicles : AddVehicle(v) \/ RemoveVehicle(v)
  \/ Poll
  \/ PollStep
  \/ StorageFails
  \/ MarkFails
  \/ Crash

\* The interval trigger keeps firing, and a poll that runs makes progress.
Spec == Init /\ [][Next]_vars /\ WF_vars(Poll) /\ WF_vars(PollStep)

------------------------------------------------------------------------------
(* Properties *)

\* Everything m carries is on the vehicle, or m waits in the inbox for a
\* person to sort it.
Complete(m) ==
  m \in parked \/ \A i \in DOMAIN Images[m] : Images[m][i] \in stored[Folder[m]]

\* A message that was marked after it was handled without an exception has
\* lost nothing, in spite of crashes, failed marks and repeated attempts.
DoneMeansComplete == \A m \in seen : outcome[m] = "done" => Complete(m)

\* park never looks for an earlier slot of the message, so every attempt at a
\* message leaves another copy of it.  Still a message that its own mark can
\* find has at most one copy more than there were crashes and failing calls,
\* whatever other messages that mark, or theirs, also finds.
FewSlots == \A m \in Messages : m \in Found[m] => slots[m] <= 1 + crashes + faults

\* A message that cannot be handled - a broken image, a duplicate, a full
\* disk - does not keep those behind it, or itself, in the mailbox for ever.
EveryMessageSeen == \A m \in Messages : (m \in arrived) ~> (m \in seen)

\* PLAN.md: a message gets the \Seen flag when it was processed successfully,
\* so a seen message has lost none of its images.
SeenMeansComplete == \A m \in seen : Complete(m)

\* The same promise for the messages that can be marked at all.
IdentifiedMessagesSeen == \A m \in Messages : m \in Found[m] => ((m \in arrived) ~> (m \in seen))
==============================================================================
