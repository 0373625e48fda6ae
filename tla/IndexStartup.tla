----------------------------- MODULE IndexStartup -----------------------------
(***************************************************************************)
(* How the SQLite index is opened, upgraded, built and kept: the schema    *)
(* check of open_index_database, the drift check and first rebuild of      *)
(* LiveIndex.start, the server that then watches the storage, and the      *)
(* reindex command, which may run beside it in a process of its own.  All  *)
(* of it meets files that change at any time, in any order, watched or     *)
(* not, and processes that crash at any point.                             *)
(*                                                                         *)
(* SQLite is in autocommit mode: each DROP, CREATE and upsert is one step  *)
(* and on disk when it is done.  A rebuild is one transaction, which holds *)
(* the database's write lock.  Contents are told apart by the time of      *)
(* their last change; every change takes a tick of the clock.  What the    *)
(* numbers of vehicles are is left out: whatever may fail for two vehicles *)
(* with one number may fail here at any time.                              *)
(***************************************************************************)
EXTENDS Naturals, Sequences

\* A definition whose name tells what it does wrong (DropOrderMetaFirst,
\* EndRebuildLocked, ...) is a mutated form of the definition after it, which
\* the properties must tell from the code; the specification never uses it.

CONSTANTS
  Items,      \* vehicle and repair sidecars and images
  Table,      \* Table[i]: the table that holds the row of i
  Parent,     \* Parent[i]: what contains i, None for a vehicle
  Stored,     \* the sets of items that the storage may hold at first
  Server,     \* the process that runs serve or watch
  Tool,       \* the process that runs reindex
  None,
  Flushers,   \* the server's flush threads: each timer runs one of its own
  MaxClock,   \* bound on the changes of files
  MaxCrashes  \* bound on the number of crashes

Procs == {Server, Tool}
Tables == {"vehicles", "repairs", "images", "meta"}

ASSUME TableAssumption == Table \in [Items -> Tables \ {"meta"}]

\* A vehicle directory holds repairs and a repair directory images.
Container == [t \in {"repairs", "images"} |-> IF t = "images" THEN "repairs" ELSE "vehicles"]
ASSUME ParentAssumption ==
  /\ Parent \in [Items -> Items \union {None}]
  /\ \A i \in Items : IF Table[i] = "vehicles"
                       THEN Parent[i] = None
                       ELSE Parent[i] \in Items /\ Table[Parent[i]] = Container[Table[i]]
ASSUME StoredAssumption == Stored \subseteq SUBSET Items
ASSUME ProcsAssumption == Server # Tool /\ None \notin Items \union Procs

VARIABLES
  clock,
  file,       \* file[i]: when i last changed, and its mtime, 0 if it is gone
  deleted,    \* the vehicles whose sidecar names a time of deletion
  schema,     \* schema[t]: "none", or the version table t was created with
  version,    \* meta.schema_version
  built,      \* meta.last_full_reindex, 0 if there is none
  rows,       \* rows[i]: the content that is indexed, 0 if there is no row
  pc,         \* where each process stands
  todo,       \* todo[p]: tables that p has still to drop or to create
  writer,     \* the process whose rebuild holds the write lock
  work, left, \* the rows of that transaction and the files it has to read
  pending,    \* keys in the server's debouncer
  batch,      \* batch[f]: the keys that f has taken and still to handle
  look,       \* look[f]: the key f handles, what it has to read and what it
              \* has read and not yet written
  owed,       \* what requests that have changed a file will write: a row, or
              \* none, for some items
  start, began,     \* history: when the rebuild, and the last that committed, began
  missed,     \* history: items whose last change, or whose container's
              \* arrival, no flush handled, and no rebuild has read since, or
              \* only while a flush was at them
  crashes

files == <<clock, file, deleted>>
meta == <<schema, version, built>>
rebuild == <<writer, work, left, start>>
NoRows == [i \in Items |-> 0]
EndRebuildLocked == writer' = writer /\ work' = NoRows /\ left' = {} /\ start' = 0
EndRebuild == writer' = None /\ work' = NoRows /\ left' = {} /\ start' = 0
watcher == <<pending, batch, look, owed, missed>>
vars == <<files, meta, rows, began, pc, todo, rebuild, watcher, crashes>>

NoLook == [key |-> None, toread |-> {}, found |-> {}]
AllIdle == [f \in Flushers |-> NoLook]
NoBatch == [f \in Flushers |-> {}]
DropOrderMetaFirst == <<"meta", "images", "repairs", "vehicles">>
DropOrder == <<"images", "repairs", "vehicles", "meta">>
CreateOrder == <<"vehicles", "repairs", "images", "meta">>

Present(i) == file[i].mtime # 0
Shown(i) == Present(i) /\ i \notin deleted

\* i and what contains it.
Line(i) == {j \in Items : \/ j = i \/ j = Parent[i]
                          \/ Parent[i] # None /\ j = Parent[Parent[i]]}
Inside(i) == {j \in Items : i \in Line(j)}
Children(i) == {j \in Items : Parent[j] = i}

\* The row that i should have: a rebuild gives one to what is in a vehicle that
\* is there and not deleted.
Attached(i) == \A a \in Line(i) : Shown(a)
Wanted(i) == IF Attached(i) THEN file[i].at ELSE 0

Watched == pc[Server] = "up"

\* Where p goes on once the database is open.
Opened(p) == IF p = Server THEN "drift" ELSE "rebuild"

TypeOK ==
  /\ file \in [Items -> [at : 0 .. clock, mtime : 0 .. clock]]
  /\ schema \in [Tables -> {"none", "old", "new"}]
  /\ version \in {"none", "old", "new"}
  /\ schema["meta"] = "none" => version = "none" /\ built = 0
  /\ built \in 0 .. clock
  /\ rows \in [Items -> 0 .. clock]
  /\ \A i \in Items : schema[Table[i]] = "none" => rows[i] = 0
  /\ pc \in [Procs -> {"down", "drop", "create", "stamp", "drift", "marker", "rebuild",
                       "reading", "observe", "up"}]
  /\ \A p \in Procs : writer = p <=> pc[p] = "reading"
  /\ writer \in Procs \union {None}
  /\ work \in [Items -> 0 .. clock]
  /\ left \subseteq Items
  /\ pending \subseteq Items /\ missed \subseteq Items
  /\ deleted \subseteq {i \in Items : Table[i] = "vehicles" /\ Present(i)}
  /\ look \in [Flushers -> [key : Items \union {None}, toread : SUBSET Items,
                            found : SUBSET (Items \X (0 .. clock))]]
  /\ owed \subseteq [of : SUBSET Items, row : 0 .. clock]
  /\ batch \in [Flushers -> SUBSET Items]
  /\ owed # {} \/ batch # NoBatch \/ look # AllIdle => Watched

Init ==
  /\ clock = 1
  /\ \E S \in Stored :
       /\ file = [i \in Items |-> IF i \in S THEN [at |-> 1, mtime |-> 1]
                                             ELSE [at |-> 0, mtime |-> 0]]
  /\ \E v \in {"none", "old"} :
       /\ schema = [t \in Tables |-> v]
       /\ version = v
       /\ built = (IF v = "old" THEN 1 ELSE 0)
  /\ rows = NoRows
  /\ pc = [p \in Procs |-> "down"]
  /\ todo = [p \in Procs |-> <<>>]
  /\ writer = None /\ work = NoRows /\ left = {} /\ start = 0 /\ began = 0
  /\ deleted = {}
  /\ pending = {} /\ batch = NoBatch /\ look = AllIdle /\ owed = {} /\ missed = {}
  /\ crashes = 0

------------------------------------------------------------------------------
(* The storage, changed by requests, by hand or by a sync tool *)

\* What is in a container comes to count when the container arrives, or is no
\* longer deleted; but the flush handles the key of the container only.
Revealed(i) == IF Shown(i) THEN {} ELSE {j \in Inside(i) \ {i} : Present(j)}

\* The observer, if it runs, reports the key; a watcher that is down is told
\* nothing later.
Changed(i, mtime, retired, debts) ==
  /\ clock < MaxClock
  /\ clock' = clock + 1
  /\ file' = [file EXCEPT ![i] = [at |-> clock', mtime |-> mtime]]
  /\ deleted' = IF retired THEN deleted \union {i} ELSE deleted \ {i}
  /\ pending' = IF Watched THEN pending \union {i} ELSE pending
  /\ missed' = (IF Watched THEN missed \ {i} ELSE missed \union {i})
                \union (IF retired \/ mtime = 0 THEN {} ELSE Revealed(i))
  /\ owed' = owed \union debts
  /\ UNCHANGED <<meta, rows, began, pc, todo, rebuild, batch, look, crashes>>

\* Requests write the row of a vehicle and remove those of a vehicle, with all
\* that it contains, and of an image; the rest they leave to the watcher.
ByHand == {{}}
Upsert(i) == IF Watched /\ Table[i] = "vehicles"
               THEN {{[of |-> {i}, row |-> clock + 1]}} ELSE {}
Removal(i) == IF Watched /\ Table[i] # "repairs"
                THEN {{[of |-> Inside(i), row |-> 0]}} ELSE {}

\* A file is created or replaced.
Change(i) == \E debts \in ByHand \union Upsert(i) : Changed(i, clock + 1, FALSE, debts)

\* A copy that keeps the time of its original (cp -p, rsync -a); files may come
\* before the sidecar of the directory they are in.
CopyIn(i) == \E retired \in BOOLEAN : /\ retired => Table[i] = "vehicles"
                                     /\ Changed(i, 1, retired, {})

\* A vehicle's sidecar gets its deleted_at.
Retire(i) ==
  /\ Table[i] = "vehicles" /\ Shown(i)
  /\ \E debts \in ByHand \union Removal(i) : Changed(i, clock + 1, TRUE, debts)

RemoveFile(i) ==
  /\ Present(i)
  /\ \E debts \in ByHand \union Removal(i) : Changed(i, 0, FALSE, debts)

------------------------------------------------------------------------------
(* open_index_database *)

Goto(p, l) == pc' = [pc EXCEPT ![p] = l]

\* _ensure_schema compares the version that the database names.
Open(p) ==
  /\ pc[p] = "down"
  /\ CASE version = "none" -> Goto(p, "create") /\ todo' = [todo EXCEPT ![p] = CreateOrder]
       [] version = "old" -> Goto(p, "drop") /\ todo' = [todo EXCEPT ![p] = DropOrder]
       [] version = "new" -> Goto(p, Opened(p)) /\ UNCHANGED todo
  /\ UNCHANGED <<files, meta, rows, began, rebuild, watcher, crashes>>

\* _drop_all, one table after the other, meta last.
DropTable(p) ==
  /\ pc[p] = "drop" /\ writer = None
  /\ LET t == Head(todo[p]) IN
       /\ schema' = [schema EXCEPT ![t] = "none"]
       /\ rows' = [i \in Items |-> IF Table[i] = t THEN 0 ELSE rows[i]]
       /\ version' = IF t = "meta" THEN "none" ELSE version
       /\ built' = IF t = "meta" THEN 0 ELSE built
  /\ IF Len(todo[p]) > 1
       THEN todo' = [todo EXCEPT ![p] = Tail(@)] /\ UNCHANGED pc
       ELSE todo' = [todo EXCEPT ![p] = CreateOrder] /\ Goto(p, "create")
  /\ UNCHANGED <<files, began, rebuild, watcher, crashes>>

\* CREATE TABLE IF NOT EXISTS leaves a table that is there as it is.
CreateTable(p) ==
  /\ pc[p] = "create" /\ writer = None
  /\ LET t == Head(todo[p]) IN
       schema' = [schema EXCEPT ![t] = IF @ = "none" THEN "new" ELSE @]
  /\ todo' = [todo EXCEPT ![p] = Tail(@)]
  /\ Goto(p, IF Len(todo[p]) = 1 THEN "stamp" ELSE "create")
  /\ UNCHANGED <<files, version, built, rows, began, rebuild, watcher, crashes>>

StampVersion(p) ==
  /\ pc[p] = "stamp" /\ writer = None
  /\ schema["meta"] # "none"
  /\ version' = "new"
  /\ Goto(p, Opened(p))
  /\ UNCHANGED <<files, schema, built, rows, began, todo, rebuild, watcher, crashes>>

------------------------------------------------------------------------------
(* LiveIndex.start *)

IsDriftedVehiclesOnly ==
  built = 0 \/ \E i \in Items : Table[i] = "vehicles" /\ file[i].mtime > built

\* DriftDetector.is_drifted: never built, or a sidecar newer than the stamp.
\* The answer is kept for a warning that the watch command prints.
IsDrifted ==
  built = 0 \/ \E i \in Items : Table[i] # "images" /\ file[i].mtime > built

CheckDrift ==
  /\ pc[Server] = "drift"
  /\ schema["meta"] # "none"
  /\ Goto(Server, "marker")
  /\ UNCHANGED <<files, meta, rows, began, todo, rebuild, watcher, crashes>>

\* has_ever_reindexed: only an index that was never built is rebuilt; drift
\* is reported, not repaired.
CheckMarker ==
  /\ pc[Server] = "marker"
  /\ schema["meta"] # "none"
  /\ Goto(Server, IF built = 0 THEN "rebuild" ELSE "observe")
  /\ UNCHANGED <<files, meta, rows, began, todo, rebuild, watcher, crashes>>

\* full_rebuild, of LiveIndex.start or of the reindex command: the rows are
\* deleted, which takes the write lock, and the sidecars of vehicles listed.
BeginRebuild(p) ==
  /\ pc[p] = "rebuild" /\ writer = None
  /\ \A t \in Tables : schema[t] # "none"
  /\ writer' = p
  /\ work' = NoRows
  /\ left' = {i \in Items : Parent[i] = None /\ Present(i)}
  /\ start' = clock
  /\ Goto(p, "reading")
  /\ UNCHANGED <<files, meta, rows, began, todo, watcher, crashes>>

\* A listed file is read and inserted, and what it contains is listed; a
\* deleted vehicle is passed over.
ReadItem(p, i) ==
  /\ writer = p
  /\ i \in left /\ Present(i)
  /\ IF i \in deleted
       THEN left' = left \ {i} /\ UNCHANGED work
       ELSE /\ work' = [work EXCEPT ![i] = file[i].at]
            /\ left' = (left \ {i}) \union {j \in Children(i) : Present(j)}
  /\ UNCHANGED <<files, meta, rows, began, pc, todo, writer, start, watcher, crashes>>

\* The items that f reads or has read.
Handled(f) == look[f].toread \union {d[1] : d \in look[f].found}

\* last_full_reindex is set, to the time at the end, and the transaction
\* commits.
Commit(p) ==
  /\ writer = p /\ left = {}
  /\ rows' = work
  /\ built' = clock
  /\ began' = start
  /\ missed' = {i \in missed : \/ \E a \in Line(i) : file[a].at > start
                              \/ \E f \in Flushers : i \in Handled(f)}
  /\ EndRebuild
  /\ Goto(p, IF p = Server THEN "observe" ELSE "down")
  /\ UNCHANGED <<files, schema, version, todo, pending, batch, look, owed, crashes>>

\* Afterwards, and only then, the observer starts.
Observe ==
  /\ pc[Server] = "observe"
  /\ Goto(Server, "up")
  /\ UNCHANGED <<files, meta, rows, began, todo, rebuild, watcher, crashes>>

------------------------------------------------------------------------------
(* Failures *)

Queued(i) == i \in pending \/ \E f \in Flushers : i \in batch[f]
InHand(i) == \E f \in Flushers : look[f].key = i

\* p stops: a rebuild is rolled back, and the server's debouncer, flushes and
\* requests are gone.
Stopped(p) ==
  /\ Goto(p, "down")
  /\ todo' = [todo EXCEPT ![p] = <<>>]
  /\ IF writer = p THEN EndRebuild ELSE UNCHANGED rebuild
  /\ IF p = Tool
       THEN UNCHANGED watcher
       ELSE /\ pending' = {} /\ batch' = NoBatch /\ look' = AllIdle /\ owed' = {}
            /\ missed' = {i \in Items : i \in missed \/ Queued(i) \/ InHand(i)}
  /\ UNCHANGED <<files, meta, rows, began>>

\* While there are files to read the rebuild may raise, and roll back: a file
\* that was listed, or met by the scan for a repair, is gone, or two vehicles
\* have one number, which a UNIQUE index refuses.
RebuildFails(p) ==
  /\ writer = p /\ left # {}
  /\ Stopped(p) /\ UNCHANGED crashes

\* "database is locked", after five seconds, ends a process that needs the
\* write lock to open or to build the index.
LockTimeout(p) ==
  /\ pc[p] \in {"drop", "create", "stamp", "rebuild"}
  /\ writer # None
  /\ Stopped(p) /\ UNCHANGED crashes

\* "no such table", after another process has begun an upgrade of its own.
TableGone(p) ==
  /\ \/ pc[p] \in {"stamp", "drift", "marker"} /\ schema["meta"] = "none"
     \/ pc[p] = "rebuild" /\ \E t \in Tables : schema[t] = "none"
  /\ Stopped(p) /\ UNCHANGED crashes

\* The server ends, or crashes, while it watches.
Exit ==
  /\ Watched
  /\ Stopped(Server) /\ UNCHANGED crashes

Crash(p) ==
  /\ pc[p] \notin {"down", "up"}
  /\ crashes < MaxCrashes
  /\ crashes' = crashes + 1
  /\ Stopped(p)

------------------------------------------------------------------------------
(* The server's flushes and requests *)

\* What handling the key of i reads: a vehicle's own sidecar, all repairs of the
\* vehicle, all images of the repair.
Siblings(i) == IF Table[i] = "vehicles" THEN {i} ELSE {j \in Items : Parent[j] = Parent[i]}

\* The key of a repair or an image is dropped if a sidecar above it, or the
\* repair's own, is not there or of a deleted vehicle.
GivesUp(i) ==
  \/ \E a \in Line(i) \ {i} : ~Shown(a)
  \/ Table[i] = "repairs" /\ ~Present(i)

\* The debouncer hands its keys to a thread of their own, which may overlap with
\* those before it: a key that is reported again is in two batches.
Flush(f) ==
  /\ Watched
  /\ batch[f] = {} /\ look[f] = NoLook
  /\ pending # {} /\ pending' = {}
  /\ batch' = [batch EXCEPT ![f] = pending]
  /\ UNCHANGED <<files, meta, rows, began, pc, todo, rebuild, look, owed, missed, crashes>>

\* f goes on with the next key of its batch.
Take(f, i) ==
  /\ look[f] = NoLook
  /\ i \in batch[f]
  /\ batch' = [batch EXCEPT ![f] = @ \ {i}]
  /\ look' = [look EXCEPT ![f] =
                IF GivesUp(i) THEN NoLook
                              ELSE [key |-> i, toread |-> Siblings(i), found |-> {}]]
  /\ UNCHANGED <<files, meta, rows, began, pc, todo, rebuild, pending, owed, missed, crashes>>

Handle(f, toread, found) ==
  look' = [look EXCEPT ![f] = IF toread = {} /\ found = {} THEN NoLook
                              ELSE [key |-> @.key, toread |-> toread, found |-> found]]

FoundForgettingGone(j) == IF Shown(j) THEN {<<j, file[j].at>>} ELSE {}

\* A vehicle that is not there, or deleted, is to lose its row; nobody removes
\* the row of another file that is not there.
FoundIn(j) ==
  LET row == IF Table[j] = "vehicles" THEN Wanted(j) ELSE file[j].at
  IN  IF Table[j] = "vehicles" \/ Present(j) THEN {<<j, row>>} ELSE {}

\* The files are read one by one, between rows already written.
ReadFile(f, j) ==
  /\ j \in look[f].toread
  /\ Handle(f, look[f].toread \ {j}, look[f].found \union FoundIn(j))
  /\ UNCHANGED <<files, meta, rows, began, pc, todo, rebuild, pending, batch, owed, missed, crashes>>

\* An upsert or a removal waits for the write lock.
ProjectRow(f) ==
  /\ writer = None
  /\ \E d \in look[f].found :
       /\ schema[Table[d[1]]] # "none"
       /\ rows' = [rows EXCEPT ![d[1]] = d[2]]
       /\ Handle(f, look[f].toread, look[f].found \ {d})
  /\ UNCHANGED <<files, meta, began, pc, todo, rebuild, pending, batch, owed, missed, crashes>>

\* Handling may raise at any time: a rebuild holds the write lock for longer
\* than the busy timeout, there is no table, a UNIQUE index refuses the row, or
\* a file that the listing or the scan for a repair met is gone.  The exception
\* is logged and the key dropped.
Raise(f) ==
  /\ look[f] # NoLook
  /\ look' = [look EXCEPT ![f] = NoLook]
  /\ missed' = missed \union {look[f].key}
  /\ UNCHANGED <<files, meta, rows, began, pc, todo, rebuild, pending, batch, owed, crashes>>

\* A request writes what it owes, or some of it, or nothing, if it fails.
Settle ==
  /\ \E debt \in owed : \E D \in SUBSET debt.of :
       /\ D # {} => writer = None
       /\ \A i \in D : schema[Table[i]] # "none"
       /\ rows' = [i \in Items |-> IF i \in D THEN debt.row ELSE rows[i]]
       /\ owed' = owed \ {debt}
  /\ UNCHANGED <<files, meta, began, pc, todo, rebuild, pending, batch, look, missed, crashes>>

------------------------------------------------------------------------------

ProcStep(p) ==
  \/ DropTable(p)
  \/ CreateTable(p)
  \/ StampVersion(p)
  \/ BeginRebuild(p)
  \/ \E i \in Items : ReadItem(p, i)
  \/ Commit(p)
  \/ RebuildFails(p)
  \/ LockTimeout(p)
  \/ TableGone(p)

Next ==
  \/ \E i \in Items : Change(i) \/ CopyIn(i) \/ Retire(i) \/ RemoveFile(i)
  \/ \E p \in Procs : Open(p) \/ ProcStep(p) \/ Crash(p)
  \/ CheckDrift
  \/ CheckMarker
  \/ Observe
  \/ Exit
  \/ \E f \in Flushers :
       \/ Flush(f)
       \/ \E i \in Items : Take(f, i) \/ ReadFile(f, i)
       \/ ProjectRow(f)
       \/ Raise(f)
  \/ Settle

Spec == Init /\ [][Next]_vars

------------------------------------------------------------------------------
(* Properties *)

Stale(i) == rows[i] # Wanted(i)

\* No process checks or upgrades the schema while the other is running.  The
\* code does not ensure it: two that find an old schema both drop all tables,
\* the second one those that the first has built.
Opening(p) == pc[p] \in {"drop", "create", "stamp"}
OneOpens == \A p, q \in Procs : p # q /\ Opening(p) => pc[q] = "down"

\* After an upgrade that crashed anywhere and was taken up again, by either
\* command, the index a process uses has no table of the old schema and lacks
\* none.
SchemaWhole ==
  \A p \in Procs : pc[p] \notin {"down", "drop", "create", "stamp"} =>
    version = "new" /\ \A t \in Tables : schema[t] = "new"

SchemaWholeIfOneOpens == []OneOpens => []SchemaWhole

\* No two flushes read and write one item at the same time.
OneEach == \A f, g \in Flushers : f # g => Handled(f) \intersect Handled(g) = {}

\* No file that a request has written changes before the request has written
\* the row.
Timely == \A debt \in owed : \A i \in debt.of : Wanted(i) = debt.row

\* When the server is up and its flushes idle, an item whose row is out of date
\* changed when nobody watched, its key was lost to a crash or to an exception,
\* or what contains it came after it, and no rebuild has begun since (or one
\* that found a flush at it); or it is a repair or an image that is gone, or
\* whose repair or vehicle is gone or deleted.
Idle == Watched /\ pending = {} /\ batch = NoBatch /\ look = AllIdle
StaleExplained ==
  Idle => \A i \in Items : Stale(i) =>
            \/ i \in missed
            \/ ~Attached(i) /\ Table[i] # "vehicles"

\* The code does not ensure the premise: overlapping flushes, or a request that
\* another change overtakes, may leave an older row for good.
InTurn == OneOpens /\ OneEach /\ Timely
StaleExplainedIfInTurn == []InTurn => []StaleExplained

\* A start that finds no drift: of a sidecar whose row is out of date, it or the
\* vehicle it is in is gone, was copied in with an old mtime, or changed while
\* the last rebuild ran.
DriftNoticed ==
  pc[Server] = "drift" /\ ~IsDrifted =>
    \A i \in Items : Table[i] # "images" /\ Stale(i) =>
      \E a \in Line(i) : \/ file[a].mtime < file[a].at
                         \/ file[a].at \in began + 1 .. built

\* It holds if reindex never runs beside a server.  If it does, a flush can
\* write what it read before the rebuild over what the rebuild read.
Apart == \E p \in Procs : pc[p] = "down"
DriftNoticedIfApart == []Apart => []DriftNoticed
==============================================================================
