# edelrep in TLA+

edelrep keeps the photo documentation of vehicle repairs. Files on disk are the
source of truth, a SQLite database is an index that can be thrown away, a file
watcher keeps the index current, a mailbox is polled for images, and a daily job
purges vehicles that were deleted long enough ago. This directory models those
parts in TLA+, checks the models with TLC and proves part of it with TLAPS.
`PROJECT.json` lists components, runs, mutated definitions, the source lines of
each definition, findings, hazards and theorems.

To check a model, `tlc -config X.cfg M`, where `X` is a run and `M` its module;
to check proofs, `tlapm M.tla`.

## The system

| Component | State | Operations | Hard behaviour |
|---|---|---|---|
| Debouncer, event handler (`infrastructure/watcher`) | buffer, tracked timer, timer threads | `add`, `flush_now`, `stop`, `_fire` | timers that were cancelled too late, flushes that overlap, restart |
| Live index (`live_index.py`) | the batch being applied | `_handle_vehicle`, `_handle_repair`, `_handle_image`, `start`, `stop` | reads that are stale when applied, an exception drops a key |
| Vehicle store and requests | one sidecar per vehicle, `deleted_at` | create, update, soft delete, hard delete | uniqueness is checked and written later, without a lock |
| Repair and image store | files of a repair directory | create repair, upload, comment, delete | many files per operation and no transaction; numbering |
| SQLite index, projector | rows of vehicles, repairs, images | upsert, remove, full rebuild | UNIQUE indexes refuse rows; removal goes through joins |
| Cleanup and its scheduler | list of vehicles to purge | `CleanupDeletedVehiclesUseCase`, daily thread | works from an old list; a crash half-way |
| E-mail ingestion | mailbox flags, inbox slots | fetch, route, park, upload, mark | crash and retry, a mark in a `finally`, head-of-line blocking |
| Start-up, drift, schema | `meta` table, schema version | `open_index_database`, `LiveIndex.start`, `DriftDetector`, `full_rebuild`, `reindex` | an upgrade that crashed half-way, events lost while the process is down, a second process |
| Atomic write, event handler | temporary files, events | `write_bytes_atomic`, `delete`, `hard_delete`, `on_any_event` | a crash or power failure between write and replace; a purge that unlinks temporary files |
| Storage migration | the target tree | `MigrateStorageUseCase` | copies a tree that goes on changing |
| Vehicle pages, lookup, search | open pages in browsers | `resolve_vehicle`, `vehicle_url_key`, the routes, `SearchVehicleUseCase` | a number in a URL that has meanwhile gone to another vehicle; ties and limits |
| Inbox pages, CLI parsing, image processing, codecs, fsspec | none of their own | callers of the above, pure functions | - |

How they interact: FastAPI runs each request on a worker thread; a request calls
one use case, which writes files through a store and, for vehicles and image
deletion, also updates the index itself. Every file change also reaches the
watcher's observer thread, which calls `Debouncer.add`; a timer thread later runs
`LiveIndex._apply_batch`, which reads files and writes rows. Cleanup runs on a
thread of its own and the poller on APScheduler's. All of them share the file
tree, without a lock, and the database, under one lock per statement.

What makes them correct:

- Debouncer: no key is lost or handed out twice, and each is delivered once
  things are quiet.
- Vehicles: live vehicles have distinct numbers; deleted ones stay deleted;
  nothing is purged early.
- Index: whenever nothing is in flight it is what a rebuild would produce.
- Repair directory: no stored image is missing from the index; a purge that was
  interrupted can be resumed; a content is stored once; images are listed in
  upload order.
- Start-up: an interrupted upgrade is finished by the next start; a row that is
  out of date has a reason that can be named, and the drift check sees it.
- Files: a reader finds an old content or a new one, no write leaves a temporary
  file behind, and every change reaches the debouncer.
- Migration: a success means that everything that stood still was copied.
- Vehicle pages: a link leads to the vehicle it was made for, a form changes the
  vehicle it showed, and a search for a number finds the vehicle that has it.
- E-mail: every message is dealt with in the end, and one that was marked has lost
  nothing.

## Modules

| Module | Models | Composition |
|---|---|---|
| `Batcher` | what the index needs of the watcher: keys pending, a batch per thread | abstract specification |
| `Debouncer` | `debouncer.py` with its Timer threads and the start/stop of its owner | implements `Batcher` (`ImplementsBatcher`) |
| `VehicleLifecycle` | vehicle requests, cleanup, vehicle rows, `_handle_vehicle` | uses `Batcher` for the watcher |
| `RepairImages` | one repair directory, its rows, `_handle_repair`, `_handle_image` | uses `Batcher` for the watcher |
| `EmailIngest` | the poller's job | - |
| `AtomicFile` | what the stores need of the backend: a file changes as a whole | abstract specification |
| `AtomicWrite` | `atomic_write.py`, `delete`, `hard_delete` call by call, `event_handler.py` | implements `AtomicFile` (`ImplementsAtomicFile`) |
| `IndexStartup` | opening, upgrading, building and keeping the index, drift, `reindex` beside a server | requests and flushes as `owed`, `batch` and `look`, without numbers |
| `StorageMigration` | `migrate-storage` beside a running server | the server's writes are those of `AtomicFile` |
| `VehicleRoutes` | the vehicle pages in several windows, lookup by URL key, search | requests are one step; `VehicleLifecycle` cuts them up |
| `MC*` | small instances for TLC | extend the module they name |
| `DebouncerProofs`, `VehicleProofs`, `AtomicWriteProofs`, `MigrationProofs`, `RoutesProofs`, `EmailProofs`, `RepairProofs`, `StartupProofs` | theorems | extend the module they name |

**Debouncer.** `buffer` and `timer` are `self._buffer` and `self._timer`. `thread`
says for each Timer object whether it is unused ("free"), waiting ("armed"), past
the point where `cancel()` has an effect and waiting for the lock ("due"), or
running `on_flush` ("flushing"). Each method is one step because it holds the lock
throughout, and `HandleKey` is one iteration of `_apply_batch`. A timer that has
ended is used again as the next Timer object; the bound is on timers that are alive
together. If all are alive no `Add` happens in the model.

**VehicleLifecycle.** `status` and `ident` are the sidecars, `rows` the table
`vehicles`. A request's record says where it stands: `CheckExists`, then for each
number `ListKeys` and `ReadSidecar` file by file, `Write`, `Index`. Cleanup takes
its list in `CleanupStart` and works through it by `HardDelete` and `RemovePurged`.
A flush is `Probe`, `Read`, `Apply`, so any of these can be stale. A crash loses
threads and the debouncer's buffer.

**RepairImages.** `tree` is the set of files that exist; index rows carry the names
of their files. Each write and each unlink is a step. `Hears` says which files
the watcher reports. Cleanup deletes the vehicle's files one by one (`SweepFile`)
in the order of `list_prefix` (`Rank`). The module is about one repair of one
vehicle. Other vehicles come in at one place: `image_store.py` (lines 123 to 131)
finds a repair by reading every `_repair.json` of the storage, and raises when
one that it has listed is purged meanwhile. That ends an upload (`ListImages`,
`Count`) and drops the key of a flush (`ScanRaises`, `DropRaised`). An update
of the vehicle reads (`EditStart`) and writes later (`EditWrite`), without a
`deleted_at`; so it may bring back a vehicle that was retired meanwhile. An upload only
needs its repair: the route looks up the vehicle in the URL, and nothing compares
the two. A file under an extension that the listing does not know is `Odd`: it is
stored and purged, but never listed, compared or counted.

**EmailIngest.** `todo` is the list `fetch_unread` returned and `job` where the use
case stands with one message. `Route` to `Upload` are `_handle_message`, `Mark` is
the `finally` clause. `StorageFails`, `MarkFails` and `Crash` may happen at any
call. The search by which `mark_processed` finds a message is the constant
`Found`: any set of messages, since ids can be shared, can be part of others, or
be missing. `slots` counts the inbox slots that attempts at a message have left. A
vehicle may be deleted between routing and `OpenRepair`, which then raises. Only the
poller marks messages; a person who reads the mailbox with another program
could mark one before it is fetched, which is left out.

**AtomicWrite.** `disk` and `temp` are the files by their final and temporary
names, `after` and `left` what a power failure would leave of each: a rename or an
unlink may or may not have reached the disk, and data that was not synced may be
there in part. `wr[w].pc` is the line of `write_bytes_atomic` at which thread `w`
stands; any call may raise (`Fails`), also the one that cleans up (`CleanUpFails`,
remembered in `stuck`). `ListDoomed` and `UnlinkDoomed` are `hard_delete`, whose
listing includes temporary files. `events` are inotify's, without those that name
only a temporary file; `Dispatch` is `on_any_event` and `Flush` any reader that a
key leads to. A crash takes events and keys (`lost`), and the server that starts
next reads nothing again, because its index has been built before. That inotify
itself drops events when its queue overflows is not modelled.
In the refinement `disk` and `after` stand for themselves: only `Replace` is a `Put`.

**IndexStartup.** `Open` to `StampVersion` are `open_index_database`, where each
`DROP` and `CREATE` is on disk when it is done; `CheckDrift`, `CheckMarker`, a
rebuild and `Observe` are `LiveIndex.start`. `BeginRebuild`, `ReadItem`, `Commit`
are `full_rebuild`, one transaction whose write lock is `writer`. The server and
the `reindex` command are two processes with the same steps.

Files change in any order: `Change` and `CopyIn` (a file that keeps an old mtime)
do not ask whether the sidecar above is there, `Retire` gives a vehicle its
`deleted_at`, `RemoveFile` takes one file away. Requests that do so also write
rows of their own, at some later time or, if they fail, in part or not at all:
`owed` is what they have yet to write. Each flush thread has a `batch` of its own,
and threads overlap. `Take` drops a key whose vehicle or repair is not there or deleted
(`GivesUp`, `live_index.py` lines 121 to 139), `ReadFile` and `ProjectRow` are the
reads and the upserts, one by one, and `Raise` may end the handling of a key
at any point: for a table that is missing, a lock that times out, a row that a
UNIQUE index refuses, a file that is gone. Numbers of vehicles are not in this
module, so a refusal may come for any row, more often than in the code.
`missed` is history: items whose last change, or the arrival of what contains
them, no flush has handled and no later rebuild has read. `built` is the stamp
`last_full_reindex`, in ticks of a clock that each change advances. The `cleanup`
command opens the index like `reindex`, without a rebuild; it is not a third
process here, and its removals of rows are those of `VehicleLifecycle` and `RepairImages`.

**StorageMigration.** `ListDir` and `Copy` are what `shutil.copytree` does,
directory by directory and file by file, while `Write` and `TempFile` change the
source. An error is collected and raised in `EndCopy`; then the files of both
trees are counted. `touched` is history.

**VehicleRoutes.** `rec` are the live vehicles, `text` their descriptions, and
`page[u]` the page that window `u` shows, with the key in its links or form.
`Resolve` and `UrlKey` are `vehicle_lookup.py`; `Lookup` adds that a browser
never asks for `/vehicles/.` or `/vehicles/..`. A number may be spelled like the
id of a vehicle (it is then in `Vehicles` too), which `resolve_vehicle` tries first,
since `value_objects.py` lets any such string through. A form's action
starts with `Addressee`, the vehicle its key leads to when it is sent. `recent` is
the order of activity that the index returns, of which search looks at the first
`Pool` (1000 in the code). `Score` stands for the fuzzy matcher, of which only is
assumed that 100 means equal; `Best` takes the best of registration, VIN and
description. `Place` is where the sort puts a candidate, by how many outrank it;
a `Limit` of 0 is refused by `execute`.

Abstracted everywhere: time stamps, the bytes of files, HTML. One
file replace, one unlink, one file read and one SQL call are each one step; the
first is what `AtomicWrite` shows, the last rests on the index lock. In
`VehicleRoutes` the index is up to date, a redirect is left to `Visit`, and that
deleting an image can lower a vehicle's activity is left out.

## Runs

| Run | Shows | Bounds |
|---|---|---|
| `MCDebouncer` | `NoStrandedKey`, `TrackedTimerAlive`, `DeliveredOnceQuiet`, `ImplementsBatcher` | 2 keys, 3 timers: a tracked, a stale and a flushing one at once |
| `MCVehicleSerial` | `ConsistentUnlessMoved`, `ConvergesUnlessMoved` | 2 vehicles that compete for a number and a VIN, 1 worker, 1 flush thread, 1 crash |
| `MCVehiclePairs` | `UniqueWhenSerialised`, `DeletedStaysDeleted`, `PurgeOnlyExpired` | 2 workers after one number, cleanup, 1 crash |
| `MCVehicleOverlap` | violation of `UniqueLive` | 2 workers |
| `MCRepairImages` | `NoMissingRow`, `NoTwins`, `GhostsOnlyByRace`, `PurgeResumable` | 2 images, one with a comment, the other under a known or an odd name, 1 worker, 1 flush thread, cleanup, 1 crash or 1 update |
| `MCEmailIngest` | `DoneMeansComplete`, `FewSlots`, `EveryMessageSeen` | 4 messages, of which one mark finds two, 2 per poll, 1 crash, 1 failing call |
| `MCEmailLost` | violation of `SeenMeansComplete` | 2 messages, 1 crash |
| `MCEmailBlocked` | violation of `IdentifiedMessagesSeen` | 2 messages, the first without Message-ID |
| `MCStartup` | `SchemaWholeIfOneOpens`, `StaleExplainedIfInTurn`, `DriftNoticedIfApart` | a vehicle, a repair and an image of it, server and tool, 2 flush threads, 2 changes, 1 crash |
| `MCStorage` | `NoOrphan`, `ChangesHeard`, `ImplementsAtomicFile` | 1 file, 2 contents, 2 threads and a purge, 1 crash or power failure |
| `MCMigration` | `MigrationFaithful` | 3 files and a temporary one in 2 directories |
| `MCRoutes` | `LinksResolveUnlessClash`, `FormHitsShown`, `ExactFirst` | 2 vehicles, 2 windows, 4 numbers: "new" and "NEW", "..", and one spelled like the id of vehicle 2; a pool of 2, a limit of 1 |

Why these bounds: a conflict over a number is between two vehicles and two
requests; a dropped key needs one image that vanishes and one that is new; a
message can harm itself, or the one behind it in the same poll; a change that is
missed and one that is heard are two ticks of the clock; one crash lands in every
step, and nothing in the code counts crashes; two windows are one that waits and
one that changes what it shows. In `MCRepairImages`, `Touched`, `MaxEvents` and
`MaxEdited` keep comments and deletions to one image, have a crash or an
update, and with an update one image only; the theorems have no such bounds.
`MCStartup` has the only constraint: once a file has changed, `Bound` does not follow
two processes that open the index together, which the premises of all three
properties exclude; nor, beside a reindex, flushes that share an item or requests that
were overtaken, which those of the last two exclude and which have no part in the
schema; and it allows one change of files in a behaviour with a crash. The theorems
need none of this. Symmetry, of threads, temporary names and
windows, is used in `MCStorage` and `MCRoutes`, which check no liveness. The
passing runs also check one type invariant per module. All models but the
debouncer's stop when their ids, images, messages or ticks are used up, so
deadlock is only checked for the debouncer.

Most properties hold of the code under a premise or with exceptions, and each of
these is a behaviour that a caller should know of:

- `UniqueWhenSerialised` assumes that no two requests are between check and
  write together. `MCVehicleOverlap` is what happens otherwise.
- `DeletedStaysDeleted` assumes that no two requests on one vehicle overlap. An
  update that has read its vehicle writes a record without `deleted_at`, and so
  revives one that was deleted meanwhile.
- `PurgeOnlyExpired` has the same premise, and its run two requests: cleanup works
  from a list, and such an update, written after the list was made, leaves a live
  vehicle on it, which is purged with all its files.
- `ConsistentUnlessMoved` and `ConvergesUnlessMoved` exclude three things. After a
  crash nothing repairs the index by itself. If a number goes from one vehicle
  to another while the index or a flush still has it with the first, the UNIQUE
  index refuses a row, which is not retried. And of two requests, or two flushes, for
  one vehicle that overlap, the one that read earlier may write its row later; their
  run has one of each, the theorem any number. `PLAN.md` (line 488) asks for a
  property test that a flush leaves what a rebuild would; it holds without these.
- `NoMissingRow` excepts crashes, a flush whose scan meets the purge of another
  vehicle (its key is dropped, so an upload can stay without a row though nothing
  crashed), and an update that brings back a retired vehicle, whose repairs and
  images stay without rows.
- `GhostsOnlyByRace` assumes that there is no crash and no such update, and that no
  row is removed while a batch is being applied. Otherwise the flush, which has read the image before, puts the row
  back, and no handler ever deletes one.
- `PurgeResumable` assumes that no request works on the directory while cleanup
  deletes it; an upload could otherwise write into a directory that has lost its
  sidecar.
- `SchemaWholeIfOneOpens` assumes that no process starts while the other upgrades the
  schema. Two that see the old version both drop all tables, the second one those
  that the first has just built.
- `StaleExplainedIfInTurn` assumes that as well, and that no two flushes are at one
  item (`OneEach`) and no request is overtaken by another change of the file it has
  written (`Timely`); otherwise an older row can come last, and nothing corrects it.
  Then a row is out of date for one of these reasons: the file changed while
  nobody watched; its key was lost in a crash, or to an exception (a lock timeout,
  a refused row, a file gone); the file came before the sidecar of its vehicle or its
  repair, whose key handles only itself; or it is a repair or an image that is gone or
  inside something that is gone or deleted, whose rows no handler deletes. A
  rebuild repairs all of these, unless a flush was at the item when it ended.
- `DriftNoticedIfApart` assumes that `reindex` does not run beside a server, whose
  flush can write an older content over the rebuilt row. Apart from that, drift
  is missed for a sidecar that is gone or whose vehicle is, for one copied in
  with an old mtime, and for one that changed while the rebuild ran, since the stamp
  is the time at its end.
- `ChangesHeard` excepts what a crash took from the watcher, and `NoOrphan` the
  temporary files that a crash left or that could not be unlinked.
- `FewSlots`: every attempt at a message that cannot be routed parks it anew; the
  copies are one more than crashes and failures, for a message that its own mark finds.
- `LinksResolveUnlessClash`: `vehicle_lookup.py` (lines 3 and 21) promises "the
  vehicle" for a readable key. The validators let through four keys that lead
  elsewhere: "new", which is the form for new vehicles; "." and "..", which a browser
  takes for parts of the path; a number spelled like the id of another vehicle; and a
  VIN that is the registration of another vehicle, which `resolve_vehicle` finds first.
- `NoTwins` holds in its run with one request at a time. The theorem
  `ContentsSingle` has the exact premise: no two uploads to one repair are ever
  between listing and writing together.
- `FormHitsShown` assumes that no number was ever given to two vehicles or spelled
  like the id of another one; otherwise a form opened before acts on the new owner. An
  image is safe, since the repair is named by its id.
- `ExactFirst` speaks of a vehicle of which the registration, the VIN or the
  description is the query, for all three are scored alike. So a search for a number
  does not always list first the vehicle that has it: one that was active later and has
  that number as its description comes before. Excepted are matches outside the pool,
  and results full of others that match exactly.

### Fairness

`Debouncer`: timers time out, get the lock and finish; nothing is assumed of
callers. `VehicleLifecycle`: a request, a cleanup and a flush that have begun run
on, since they are threads that only wait for short locks; nobody must send
requests, and no cleanup must start. `EmailIngest`: the interval trigger keeps
firing and a poll keeps going; arrival, faults and crashes are not fair.
The other modules state no
fairness and have no liveness property: nothing in them must happen in the end,
as a start may fail, a write may raise and a page may stay open.

### Findings

Runs that end in a violation:

1. Two concurrent requests can give two vehicles the same number
   (`MCVehicleOverlap`). A later full rebuild then fails on the UNIQUE index.
2. An e-mail whose handling was cut short by a crash loses images on the retry
   and is marked as seen (`MCEmailLost`); so does one whose vehicle is deleted
   after it was routed.
3. A message without Message-ID is never marked and blocks those behind it
   (`MCEmailBlocked`).

Met while modelling, and stated as premises or exceptions of passing properties
as above: a Timer cancelled too late flushes keys before their quiet window has
passed; an update revives a vehicle; a moved number leaves the index different
from a rebuild; the purge of one vehicle makes the flush of another lose an image
row; links to a wrong vehicle; two uploads that overlap store the same image twice.
Two are in no property. Images are not listed in upload order after deletions,
because `image_store.py` (line 61) numbers an upload by the count of images, so that
numbers repeat. And an image under an unknown extension (line 63 takes the one of
the upload) is stored but never shown.

## Proofs

`DebouncerProofs`, for any keys, timers and caller:

- `Invariance`: `TypeOK`, `NoStrandedKey` and `TrackedTimerAlive` are together
  inductive. They need each other: an `add` that cancels the tracked timer
  strands nothing because it starts another, and `FireEmpty` may clear the tracked
  timer only because the buffer is empty then.
- `TypeCorrect`, `KeysNotStranded` and `TrackedTimersAlive` follow.
- `RefinesBatcher`: each step of the debouncer is a step of `Batcher` or leaves
  its variables unchanged, so each key is taken by one thread and handled once.

`VehicleProofs`, for any vehicles, numbers, workers and flush threads:

- `TypeCorrect`: `TypeOK` is inductive.
- `UniqueIfSerialised`: if no two requests are ever between check and write
  together, live vehicles never share a number. The inductive invariant is
  `UniqueLive` with `Searched`: of a request that is guarding, every live vehicle
  that already has its number is still in its list of sidecars to read, so that
  a request that reaches `write` writes a number nobody else has. It is inductive
  because every step that adds a live vehicle or changes a number is a `Write`,
  and the premise excludes the `Write` of another request.
- `PurgesOnlyExpired` and `DeletedStay`: cleanup, which works from an old list,
  purges only what is past its retention window, and no update revives a vehicle,
  as long as no two requests on one vehicle overlap (`SameVehicle`). Between them
  they need that a vehicle on cleanup's list is still expired (`ListedExpired`) and
  that until it writes, an update has a live vehicle and a creation one that neither
  exists nor is on that list (`WritersAlone`).
- `ConsistentIfNotShared`: without crashes and handovers of a number, every row is
  right whenever nothing is in flight. Invariant: a row is right or the vehicle is
  `Settled`, that is, pending, in a batch, awaiting its own request's upsert or being
  removed; and what a flush has read is what the sidecar says, or its key is
  pending again. The premise `NoSharing` (no two requests on one vehicle, no two
  flushes of one key) is needed: of two that overlap, the one that read earlier may
  write the row later.

`AtomicWriteProofs`, for any files, contents, threads, temporary names and crashes:

- `Invariance`: the type invariant with `WrittenOK`, which says of a thread that
  has written what its temporary file holds and, once it has synced, what a power
  failure would leave of it, and with `FilesWhole`. A purge may have unlinked the
  temporary file at any point.
- `NoOrphans`: a thread that is writing has its temporary name to itself, and ends by
  renaming it, by unlinking it, or by failing to (`stuck`). `AllChangesHeard`: every
  change of a file is announced by an event that names it. And `RefinesAtomicFile`: a rename, an unlink, a
  file that reaches the disk and a power failure map to steps of `AtomicFile`,
  all others leave its variables alone.

`MigrationProofs`, for any tree: `TypeCorrect` and `MigratedFaithfully`. The inductive invariant says
that while no error has occurred, each key nobody has touched is in the target as
in the source, or its directory is yet to be listed, or it is listed and yet to be
copied. The count of files at the end is not needed for it.

`RoutesProofs`, for any vehicles, numbers and windows: `LinksLeadHome` and
`FormsStayTrue`. Live vehicles never share a registration number or a VIN, so a
lookup finds at most one, unless the key is spelled like an id; the key of an open
page is the id of the vehicle it shows or a number which that vehicle once had.
`TypeCorrect`: the list by activity has each live vehicle once (`Listed`), for removing
an element of a sequence without repetitions leaves the others. `ExactOnesFirst`: the
sort is a total order on the candidates, so that `Place` is an injection of them into
as many places, hence a bijection, and each result is the candidate of its place; a
candidate scores 100 if and only if one of its three fields is the query (`Scores`),
and is then outranked only by others that do. It holds for any scores, pool and limit.

`EmailProofs`, for any mailbox: `DoneIsComplete`, from what the use case has
uploaded when it stands at image `i`, and that files are never taken away;
`SlotsAreFew`, for any `Found`: a message that its own mark finds and that is still to
be handled has at most as many slots as there were crashes and failures (`SlotsOK`),
and no message is fetched again once it is marked.

`RepairProofs`, for any images, threads and crashes:

- `TypeCorrect`, from what a request has at each of its points: an image is minted,
  then has its content, then its number, then its file.
- `PurgesResumable`. While a purge runs, its list is what is left of the directory,
  and it is in the order of `Rank`, with the vehicle's sidecar last; whoever serves
  a request found that sidecar.
- `ContentsSingle`: unless uploads overlap, no content is stored twice. As in
  `UniqueIfSerialised`, an upload that has compared some images knows that none of
  them has its content, and only the write of another upload can make that false.
- `NothingMissed`, whatever requests and flushes overlap, in three layers. `HInv`: an
  upload has its image to itself until it is written, and a deleted image does
  not come back. `LInv`, as long as no update brings a retired vehicle back: while
  the vehicle is live and has no repair, nothing below the repair exists, is
  indexed or is in flight, and a handler finds only what its key leads to. `MInv`,
  the heart of it: every row that a file of a live
  vehicle should have is `Covered`, that is, it is there, a key that leads to it is
  pending, such a key is in a batch and its directory is yet to be listed, or its
  handler has found the file and will upsert it. A handler that is still
  reading counts only if all it found is there, for otherwise it drops its key; that
  the deletion which makes it do so is itself reported keeps the row covered. The
  premise `~ScanHit` is needed where a handler drops its key without a change in
  this directory; the row of the repair needs it not (`AlwaysCovered`).
- `GhostsNeedARace`, under the premises of the property. `GInv`: while the vehicle is
  live, an image that has a row, or that a flush will upsert, is stored or its
  deletion has yet to remove the row; afterwards no flush has anything in hand,
  and either no row is left or the request that retires the vehicle will find them.

`StartupProofs`, for any items, crashes and changes of files:

- `TypeCorrect`; among other things the write lock is held by a process that reads.
- `SchemaIsWhole`: if no process opens the index while the other runs, one that uses it
  finds every table in the new version, whatever crashed before. The invariant
  relates the version to the tables (`VersionTells`: it is the new one only if they
  all are) and each phase to how far the list of tables has come (`PhaseTells`).
- `StaleIsExplained`: each row that is out of date is `Covered` (`StaleAccounted`): its
  key is queued or a flush has yet to read it or to write what it is, it is `Lost`, or
  no handler looks at it (`Forgotten`). What a flush has read is what the row should
  be, or the same holds of it (`LookIsFresh`). Of a rebuild it needs that an item it
  has not read as it is has a file still to be read in its line, that is, itself or a
  directory above it, or something in the line has changed since it began
  (`WInv`); this holds without any premise.
- `DriftIsNoticed` (`DInv`): what a flush has read, a request is to write, or a rebuild or
  a flush wrote is current, or something in its line has changed since the last
  rebuild began. The premise is only `Apart`; flushes and requests may overlap.

They rest on the named assumptions about the constants, which TLC evaluates in
each run. The theorems about index, uploads and cleanup carry premises that the code
does not ensure (no overlapping requests, no crash, no removal beside a flush, no scan
that meets another purge). Each is that of the property, or weaker than the bounds of
its run; each is met by behaviours in which requests, flushes and cleanup
interleave, and the list above says what happens without it.

Every invariant and action property of the passing runs is stated by a theorem, and
so is the refinement of `Batcher` and of `AtomicFile`. Only model-checked: liveness
(`DeliveredOnceQuiet`, `ConvergesUnlessMoved`, `EveryMessageSeen`), which is out of
the prover's reach; and the three violations, which are counterexamples.

## Not modelled, and the plan

1. Weaken the premises of the theorems where the code allows it: a crash after
   which the next start rebuilds the index, and overlapping flushes of different keys
   in `ConsistentIfNotShared`.
2. A run of `RepairImages` with two workers, which its state space does not allow
   beside a flush thread and cleanup; repairs created twice by overlapping
   requests, which needs repair ids.
3. The e-mail use case on top of `RepairImages`, several repairs of one vehicle.

Left out, with the reason:

- The inbox reader and its pages, queries and reports, read and show; they change
  nothing.
- The loop of `DailyCleanupScheduler`: a cleanup may start at any time in the
  models, which covers every schedule, and a process starts the loop once.
- Image processing, the JSON codec, third-party file systems (the server is wired
  to the local backend), rendering and argument parsing compute values and keep no
  state.
- The full-text table, which SQLite's triggers maintain and only an unused method
  reads.
- An edit form that overwrites a newer edit: there is no version in the form or the
  sidecar, so that nothing but "the last one wins" could be stated.
