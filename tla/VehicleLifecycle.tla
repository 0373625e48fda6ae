--------------------------- MODULE VehicleLifecycle ---------------------------
(***************************************************************************)
(* The life of vehicle records: the sidecar file of each vehicle (the      *)
(* source of truth), the row of each vehicle in the SQLite index, and      *)
(* everything that writes them: the create, update and soft-delete         *)
(* requests that FastAPI runs on worker threads, the cleanup job that      *)
(* purges soft-deleted vehicles, and the watcher's flush threads.          *)
(*                                                                         *)
(* A request is cut where another thread can run in between: after each    *)
(* sidecar it reads, after its write and before its index update.  Reading *)
(* or atomically replacing one file is one step, and so is one SQLite      *)
(* statement, which runs under the index lock.  Descriptions and           *)
(* timestamps are left out: nothing here depends on them.                  *)
(***************************************************************************)
EXTENDS Naturals

\* Each definition whose name tells what it does wrong (UpdateIncludingDeleted,
\* ExaminedIgnoringOwner, ...) is a mutated form of the definition after it,
\* which the properties must tell from the code; the specification never uses it.

CONSTANTS
  Vehicles,   \* vehicle ids, in the order in which list_prefix sorts them
  Numbers,    \* registration numbers and VINs
  None,
  Choices,    \* Choices[v]: the identifiers a user may enter for v
  Workers,    \* threads that serve requests
  Flushers,   \* timer threads that run on_flush
  MaxCrashes  \* bound on the number of crashes

Fields == {"reg", "vin"}
Idents == [Fields -> Numbers \union {None}]

\* No identifiers: the row or the sidecar of a vehicle that has none.
Blank == [f \in Fields |-> None]

ASSUME VehiclesAssumption == Vehicles \subseteq Nat /\ None \notin Vehicles
ASSUME NumbersAssumption == None \notin Numbers
\* Vehicle.__post_init__ refuses a vehicle with neither number.
ASSUME ChoicesAssumption == Choices \in [Vehicles -> SUBSET (Idents \ {Blank})]

VARIABLES
  status,     \* status[v]: what the sidecar of v says, "absent" if no file
  ident,      \* ident[v]: the numbers in the sidecar of v
  rows,       \* rows[v]: the index row of v, Blank if there is none
  minted,     \* ids that ULID() has returned
  req,        \* req[w]: the request that worker w serves
  todo,       \* vehicles that the running cleanup has still to purge
  purging,    \* the vehicle whose files it has deleted, row still there
  pending,    \* vehicle keys in the watcher's debouncer
  batch,      \* batch[f]: keys that flush thread f has still to handle
  look,       \* look[f]: the key that f is handling and what it found
  crashes

files == <<status, ident>>
cleaner == <<todo, purging>>
watcher == <<pending, batch, look>>
vars == <<status, ident, rows, minted, req, todo, purging, pending, batch, look, crashes>>

W == INSTANCE Batcher WITH Keys <- Vehicles

Idle == [op |-> "none", v |-> None, ids |-> Blank, pc |-> "idle", field |-> "reg", left |-> {}]
NoLook == [key |-> None, plan |-> "none", ids |-> Blank]

Requests ==
  [op : {"none", "create", "update", "delete"}, v : Vehicles \union {None}, ids : Idents,
   pc : {"idle", "exists", "list", "read", "write", "index"},
   field : Fields, left : SUBSET Vehicles]

TypeOK ==
  /\ status \in [Vehicles -> {"absent", "live", "deleted", "expired"}]
  /\ ident \in [Vehicles -> Idents]
  /\ rows \in [Vehicles -> Idents]
  /\ minted \subseteq Vehicles
  /\ req \in [Workers -> Requests]
  /\ \A w \in Workers : req[w].pc # "idle" => req[w].v \in Vehicles
  /\ todo \subseteq Vehicles
  /\ purging \in Vehicles \union {None}
  /\ pending \subseteq Vehicles
  /\ batch \in [Flushers -> SUBSET Vehicles]
  /\ look \in [Flushers -> [key : Vehicles \union {None},
                            plan : {"none", "read", "upsert", "remove"}, ids : Idents]]
  /\ \A f \in Flushers : look[f].plan # "none" => look[f].key \in batch[f]
  /\ crashes \in Nat

Init ==
  /\ status = [v \in Vehicles |-> "absent"]
  /\ ident = [v \in Vehicles |-> Blank]
  /\ rows = [v \in Vehicles |-> Blank]
  /\ minted = {}
  /\ req = [w \in Workers |-> Idle]
  /\ todo = {}
  /\ purging = None
  /\ W!Init
  /\ look = [f \in Flushers |-> NoLook]
  /\ crashes = 0

Least(S, x) == x \in S /\ \A y \in S : x <= y
Live(v) == status[v] = "live"

------------------------------------------------------------------------------
(* Requests *)

\* CreateVehicleUseCase mints an id and calls save.
Create(w, v, i) ==
  /\ req[w] = Idle
  /\ v \notin minted
  /\ i \in Choices[v]
  /\ minted' = minted \union {v}
  /\ req' = [req EXCEPT ![w] = [Idle EXCEPT !.op = "create", !.v = v, !.ids = i, !.pc = "list"]]
  /\ UNCHANGED <<files, rows, cleaner, watcher, crashes>>

UpdateIncludingDeleted(w, v, i) ==
  /\ req[w] = Idle
  /\ status[v] # "absent"
  /\ i \in Choices[v]
  /\ req' = [req EXCEPT ![w] = [Idle EXCEPT !.op = "update", !.v = v, !.ids = i, !.pc = "exists"]]
  /\ UNCHANGED <<files, rows, minted, cleaner, watcher, crashes>>

\* UpdateVehicleUseCase: get, then a new record that carries no deleted_at.
Update(w, v, i) ==
  /\ req[w] = Idle
  /\ Live(v)
  /\ i \in Choices[v]
  /\ req' = [req EXCEPT ![w] = [Idle EXCEPT !.op = "update", !.v = v, !.ids = i, !.pc = "exists"]]
  /\ UNCHANGED <<files, rows, minted, cleaner, watcher, crashes>>

\* SoftDeleteVehicleUseCase: get, and the confirmation that was typed is one
\* of the vehicle's own keys (a mismatch changes nothing).
SoftDelete(w, v) ==
  /\ req[w] = Idle
  /\ Live(v)
  /\ req' = [req EXCEPT ![w] =
               [Idle EXCEPT !.op = "delete", !.v = v, !.ids = ident[v], !.pc = "exists"]]
  /\ UNCHANGED <<files, rows, minted, cleaner, watcher, crashes>>

\* update: the sidecar must exist, whatever it says by now.
CheckExists(w) ==
  /\ req[w].pc = "exists"
  /\ req' = [req EXCEPT ![w] = IF status[@.v] = "absent" THEN Idle ELSE [@ EXCEPT !.pc = "list"]]
  /\ UNCHANGED <<files, rows, minted, cleaner, watcher, crashes>>

\* _guard_unique_identifiers: the registration number first, then the VIN.
Passed(r) ==
  IF r.field = "reg" THEN [r EXCEPT !.pc = "list", !.field = "vin", !.left = {}]
                     ELSE [r EXCEPT !.pc = "write", !.left = {}]

\* A number the vehicle does not have needs no search.
SkipField(w) ==
  /\ req[w].pc = "list"
  /\ req[w].ids[req[w].field] = None
  /\ req' = [req EXCEPT ![w] = Passed(@)]
  /\ UNCHANGED <<files, rows, minted, cleaner, watcher, crashes>>

\* find_by_registration and find_by_vin list all sidecars before reading any.
ListKeys(w) ==
  /\ req[w].pc = "list"
  /\ req[w].ids[req[w].field] # None
  /\ req' = [req EXCEPT ![w] = [@ EXCEPT !.pc = "read", !.left = {v \in Vehicles : status[v] # "absent"}]]
  /\ UNCHANGED <<files, rows, minted, cleaner, watcher, crashes>>

Matches(r, k) == Live(k) /\ ident[k][r.field] = r.ids[r.field]

ExaminedIgnoringOwner(r, k) ==
  IF Matches(r, k) THEN Passed(r) ELSE [r EXCEPT !.left = @ \ {k}]

\* They read the sidecars in order, up to the first live one that has the
\* number.  Nothing found, or the vehicle itself: the guard is passed.
Examined(r, k) ==
  IF Matches(r, k) THEN (IF k = r.v THEN Passed(r) ELSE Idle)
                   ELSE [r EXCEPT !.left = @ \ {k}]

ReadSidecar(w) ==
  /\ req[w].pc = "read"
  /\ \E k \in req[w].left :
       /\ Least(req[w].left, k)
       /\ status[k] # "absent"
       /\ req' = [req EXCEPT ![w] = Examined(@, k)]
  /\ UNCHANGED <<files, rows, minted, cleaner, watcher, crashes>>

\* The listed file is gone: FileNotFoundError ends the request.
SidecarVanished(w) ==
  /\ req[w].pc = "read"
  /\ \E k \in req[w].left : Least(req[w].left, k) /\ status[k] = "absent"
  /\ req' = [req EXCEPT ![w] = Idle]
  /\ UNCHANGED <<files, rows, minted, cleaner, watcher, crashes>>

EndOfList(w) ==
  /\ req[w].pc = "read"
  /\ req[w].left = {}
  /\ req' = [req EXCEPT ![w] = Passed(@)]
  /\ UNCHANGED <<files, rows, minted, cleaner, watcher, crashes>>

\* write_backend_sidecar replaces the file in one step and creates it again
\* if it is gone; the watcher sees the change.
Write(w) ==
  /\ req[w].pc = "write"
  /\ LET r == req[w] IN
       /\ status' = [status EXCEPT ![r.v] = IF r.op = "delete" THEN "deleted" ELSE "live"]
       /\ ident' = [ident EXCEPT ![r.v] = r.ids]
       /\ W!Report(r.v)
  /\ req' = [req EXCEPT ![w].pc = "index"]
  /\ UNCHANGED <<rows, minted, cleaner, look, crashes>>

\* The partial UNIQUE indexes of schema.sql.
Conflict(v, i) == \E u \in Vehicles \ {v}, f \in Fields : i[f] # None /\ rows[u][f] = i[f]

UpsertIgnoringExisting(v, i) ==
  rows' = IF Conflict(v, i) \/ rows[v] # Blank THEN rows ELSE [rows EXCEPT ![v] = i]

\* INSERT ... ON CONFLICT(id) DO UPDATE, which raises IntegrityError and
\* changes nothing when a number belongs to another row.
Upsert(v, i) == rows' = IF Conflict(v, i) THEN rows ELSE [rows EXCEPT ![v] = i]
Remove(v) == rows' = [rows EXCEPT ![v] = Blank]

\* The request's own index update ends it, with IntegrityError or without.
Index(w) ==
  /\ req[w].pc = "index"
  /\ IF req[w].op = "delete" THEN Remove(req[w].v) ELSE Upsert(req[w].v, req[w].ids)
  /\ req' = [req EXCEPT ![w] = Idle]
  /\ UNCHANGED <<files, minted, cleaner, watcher, crashes>>

------------------------------------------------------------------------------
(* Retention and cleanup *)

\* Time passes; the retention window of a soft-deleted vehicle ends.  It may
\* be as short as zero days.
RetentionElapses(v) ==
  /\ status[v] = "deleted"
  /\ status' = [status EXCEPT ![v] = "expired"]
  /\ UNCHANGED <<ident, rows, minted, req, cleaner, watcher, crashes>>

PurgeAnyDeleted == todo' = {v \in Vehicles : status[v] \in {"deleted", "expired"}}

\* CleanupDeletedVehiclesUseCase lists the records once ...
PurgeExpired == todo' = {v \in Vehicles : status[v] = "expired"}

CleanupStart ==
  /\ todo = {} /\ purging = None
  /\ PurgeExpired
  /\ UNCHANGED <<files, rows, minted, req, purging, watcher, crashes>>

\* ... and deletes the files of each vehicle by what that list said of it.
HardDelete(v) ==
  /\ purging = None
  /\ Least(todo, v)
  /\ status' = [status EXCEPT ![v] = "absent"]
  /\ ident' = [ident EXCEPT ![v] = Blank]
  /\ todo' = todo \ {v}
  /\ purging' = v
  /\ W!Report(v)
  /\ UNCHANGED <<rows, minted, req, look, crashes>>

RemovePurged ==
  /\ purging # None
  /\ Remove(purging)
  /\ purging' = None
  /\ UNCHANGED <<files, minted, req, todo, watcher, crashes>>

------------------------------------------------------------------------------
(* Watcher *)

FlushTake(f) ==
  /\ W!Take(f)
  /\ UNCHANGED <<files, rows, minted, req, cleaner, look, crashes>>

\* _handle_vehicle looks whether the file is there ...
Probe(f, k) ==
  /\ look[f] = NoLook
  /\ k \in batch[f]
  /\ look' = [look EXCEPT ![f] = [key |-> k, ids |-> Blank,
                                  plan |-> IF status[k] = "absent" THEN "remove" ELSE "read"]]
  /\ UNCHANGED <<files, rows, minted, req, cleaner, pending, batch, crashes>>

ReadIncludingDeleted(f) ==
  /\ look[f].plan = "read"
  /\ look' = [look EXCEPT ![f] = [@ EXCEPT !.plan = "upsert", !.ids = ident[look[f].key]]]
  /\ UNCHANGED <<files, rows, minted, req, cleaner, pending, batch, crashes>>

\* ... reads it ...
Read(f) ==
  /\ look[f].plan = "read"
  /\ LET k == look[f].key IN
       look' = [look EXCEPT ![f] =
                  IF Live(k) THEN [@ EXCEPT !.plan = "upsert", !.ids = ident[k]]
                             ELSE [@ EXCEPT !.plan = "remove"]]
  /\ UNCHANGED <<files, rows, minted, req, cleaner, pending, batch, crashes>>

ReadVanishedKeepsKey(f) ==
  /\ look[f].plan = "read"
  /\ status[look[f].key] = "absent"
  /\ W!Handle(f, look[f].key)
  /\ UNCHANGED <<files, rows, minted, req, cleaner, look, crashes>>

\* (the file can vanish in the middle of get: the key is dropped) ...
ReadVanished(f) ==
  /\ look[f].plan = "read"
  /\ status[look[f].key] = "absent"
  /\ W!Handle(f, look[f].key)
  /\ look' = [look EXCEPT ![f] = NoLook]
  /\ UNCHANGED <<files, rows, minted, req, cleaner, crashes>>

\* ... and projects what it read.  An exception only drops the key.
Apply(f) ==
  /\ look[f].plan \in {"upsert", "remove"}
  /\ LET k == look[f].key IN
       /\ IF look[f].plan = "upsert" THEN Upsert(k, look[f].ids) ELSE Remove(k)
       /\ W!Handle(f, k)
  /\ look' = [look EXCEPT ![f] = NoLook]
  /\ UNCHANGED <<files, minted, req, cleaner, crashes>>

\* The process dies and starts again: threads and the debouncer's buffer are
\* lost, files and index stay.  LiveIndex.start rebuilds nothing, because the
\* index has been built before.
Crash ==
  /\ crashes < MaxCrashes
  /\ crashes' = crashes + 1
  /\ req' = [w \in Workers |-> Idle]
  /\ todo' = {} /\ purging' = None
  /\ pending' = {} /\ batch' = [f \in Flushers |-> {}]
  /\ look' = [f \in Flushers |-> NoLook]
  /\ UNCHANGED <<files, rows, minted>>

------------------------------------------------------------------------------

RequestStep(w) ==
  \/ CheckExists(w)
  \/ SkipField(w)
  \/ ListKeys(w)
  \/ ReadSidecar(w)
  \/ SidecarVanished(w)
  \/ EndOfList(w)
  \/ Write(w)
  \/ Index(w)

NewRequest(w) ==
  \/ \E v \in Vehicles : \E i \in Choices[v] : Create(w, v, i)
  \/ \E v \in Vehicles : \E i \in Choices[v] : Update(w, v, i)
  \/ \E v \in Vehicles : SoftDelete(w, v)

CleanupStep ==
  \/ \E v \in Vehicles : HardDelete(v)
  \/ RemovePurged

FlushStep(f) ==
  \/ FlushTake(f)
  \/ \E k \in Vehicles : Probe(f, k)
  \/ Read(f)
  \/ ReadVanished(f)
  \/ Apply(f)

Next ==
  \/ \E w \in Workers : RequestStep(w) \/ NewRequest(w)
  \/ CleanupStart
  \/ CleanupStep
  \/ \E v \in Vehicles : RetentionElapses(v)
  \/ \E f \in Flushers : FlushStep(f)
  \/ Crash

Spec == Init /\ [][Next]_vars

\* A thread that has started a request, a cleanup or a flush runs on.  Users
\* need not send requests and the clock need not reach the next cleanup.
FairSpec ==
  /\ Spec
  /\ \A w \in Workers : WF_vars(RequestStep(w))
  /\ WF_vars(CleanupStep)
  /\ \A f \in Flushers : WF_vars(FlushStep(f))

------------------------------------------------------------------------------
(* Properties *)

\* The promise of VehicleRepository.save: no two live vehicles share a
\* registration number or a VIN.
UniqueLive ==
  \A u, v \in Vehicles : \A f \in Fields :
    (u # v /\ Live(u) /\ Live(v) /\ ident[u][f] # None) => ident[u][f] # ident[v][f]

\* A request between the start of its uniqueness guard and its write.
Guarding(w) == req[w].pc \in {"list", "read", "write"}

\* No two requests are in that window at once.  Nothing in the code ensures
\* it; it is what UniqueLive depends on.
NoOverlap == \A v, w \in Workers : Guarding(v) /\ Guarding(w) => v = w

\* With any number of workers, two live vehicles can come to share a number
\* in no other way than by two requests overlapping in that window: neither
\* cleanup, nor a flush, nor a crash, nor an update that raced a delete.
UniqueWhenSerialised == []NoOverlap => []UniqueLive

\* A request between its first look at the vehicle and its write.
Writing(w) == req[w].pc = "exists" \/ Guarding(w)
SameVehicle == \E v, w \in Workers : v # w /\ Writing(v) /\ Writing(w) /\ req[v].v = req[w].v

\* What cleanup still has on its list may be purged now.
ListedExpired == \A v \in todo : status[v] = "expired"

\* Cleanup deletes files by a list it made earlier and does not look again.  A
\* listed vehicle that a request has written meanwhile is purged live, with the
\* files it got since.  That takes an update (or a second deletion) which had read
\* the vehicle before the soft delete that overlapped it, and writes it after the
\* list was made; in no other way does the list go stale, whatever requests for
\* other vehicles, flushes and crashes come between.
PurgeOnlyExpired == []~SameVehicle => []ListedExpired

\* An update that is about to write over a soft-deleted record.
Reviving(w) ==
  req[w].op = "update" /\ Writing(w) /\ status[req[w].v] \in {"deleted", "expired"}

\* An update writes a record without deleted_at.  It never brings a soft-deleted
\* vehicle back, unless it began before the deletion and the two overlapped.
DeletedStaysDeleted == []~SameVehicle => []~\E w \in Workers : Reviving(w)

\* The index row that a full rebuild would give each vehicle.
Projection == [v \in Vehicles |-> IF Live(v) THEN ident[v] ELSE Blank]

Quiescent ==
  /\ \A w \in Workers : req[w] = Idle
  /\ todo = {} /\ purging = None
  /\ pending = {}
  /\ \A f \in Flushers : batch[f] = {}

\* When nothing is in flight the live index is what a rebuild would produce.
QuiescentConsistent == Quiescent => rows = Projection

\* A vehicle is given a number that the row of another one has, or is about to
\* get from a flush that has read an older sidecar.
Held(v, f) ==
  {rows[v][f]} \union {look[g].ids[f] : g \in {h \in Flushers : look[h].key = v}}
Handover ==
  \E u, v \in Vehicles, f \in Fields :
    u # v /\ Live(u) /\ ident[u][f] # None /\ ident[u][f] \in Held(v, f)

\* No two requests for one vehicle are in flight, and no two flush threads have
\* one key.  The code ensures neither: of two that overlap, the one that read
\* earlier can write its row later.
NoSharing ==
  /\ \A u, w \in Workers : u # w /\ req[u].pc # "idle" /\ req[w].pc # "idle" => req[u].v # req[w].v
  /\ \A f, g \in Flushers : f # g => batch[f] \cap batch[g] = {}

\* Updates race flushes and the cleanup, and the watcher repeats the work of the
\* requests, possibly with what it read long before.  Between requests, flushes
\* and cleanup that share no vehicle among their own kind, the index goes wrong
\* for good in two ways only: a crash that loses keys, or a number handed over
\* while the index still has its former owner, whose row then refuses it.
ConsistentUnlessMoved ==
  [](crashes = 0 /\ ~Handover /\ NoSharing) => []QuiescentConsistent

\* Then, once users stop, requests, cleanup and flushes come to an end and
\* leave the index as a rebuild would.
ConvergesUnlessMoved ==
  ([](crashes = 0 /\ ~Handover /\ NoSharing) /\ <>[][\A w \in Workers : ~NewRequest(w)]_vars)
    => <>[](rows = Projection)
==============================================================================
