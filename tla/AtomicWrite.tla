------------------------------ MODULE AtomicWrite ------------------------------
(***************************************************************************)
(* write_bytes_atomic, delete and hard_delete on the local file system, by *)
(* threads that run at the same time, and the watcher's event handler,     *)
(* which turns what they do into keys for the debouncer.                   *)
(*                                                                         *)
(* A system call is one step.  Any of a write's may fail; the process may  *)
(* die between two, which leaves temporary files, and so may the machine,  *)
(* which leaves of a file what has reached the disk: a rename may or may   *)
(* not have, and the data of a file that was not synced may have in part.  *)
(***************************************************************************)
EXTENDS Naturals, FiniteSets

\* A definition whose name tells what it does wrong (SyncNothing, PathsOfSource,
\* ...) is a mutated form of the definition after it, which the properties must
\* tell from the code; the specification never uses it.

CONSTANTS
  Keys,       \* storage keys, all under the prefix that a purge deletes
  Ignored,    \* keys the watcher takes no notice of: thumbnails, _system
  Values,     \* contents
  Torn,       \* a part of a content
  None,
  Writers,    \* threads
  Temps,      \* names that the random suffix can give
  MaxCrashes  \* bound on the crashes and power failures

ASSUME NamesAssumption == Keys \intersect Temps = {} /\ None \notin Keys \union Temps
ASSUME ContentsAssumption == None \notin Values /\ Torn \notin Values /\ Torn # None
ASSUME IgnoredAssumption == Ignored \subseteq Keys

VARIABLES
  disk,       \* disk[k]: the content of file k
  after,      \* after[k]: what a power failure now may leave of it
  temp,       \* temp[t]: a temporary file's content and what a power failure
              \* may leave of it, Gone if there is no such file
  wr,         \* wr[w]: the write_bytes_atomic that thread w runs
  doomed,     \* files that the running hard_delete has listed
  events,     \* file system events the observer has not yet dispatched
  pending,    \* keys in the debouncer
  seen,       \* seen[k]: what the last flush of k read
  lost,       \* history: keys of changes that a crash kept from the watcher
  stuck,      \* history: temporary files whose unlinking failed
  crashes

storage == <<disk, after, temp>>
watcher == <<events, pending, seen, lost>>
history == <<stuck, crashes>>
vars == <<storage, wr, doomed, watcher, history>>

Contents == Values \union {None, Torn}
Gone == [data |-> None, left |-> {}]
Idle == [pc |-> "idle", key |-> None, data |-> None, tmp |-> None]

TypeOK ==
  /\ disk \in [Keys -> Contents]
  /\ after \in [Keys -> SUBSET Contents]
  /\ temp \in [Temps -> [data : Contents, left : SUBSET Contents]]
  /\ wr \in [Writers -> [pc : {"idle", "open", "write", "sync", "replace", "cleanup"},
                         key : Keys \union {None}, data : Values \union {None},
                         tmp : Temps \union {None}]]
  /\ \A v, w \in Writers : wr[v] # Idle /\ wr[w].tmp = wr[v].tmp => v = w
  /\ doomed \subseteq Keys \union Temps
  /\ events \subseteq [src : Keys \union Temps, dest : Keys \union {None}]
  /\ pending \subseteq Keys
  /\ seen \in [Keys -> Contents]
  /\ lost \subseteq Keys
  /\ stuck \subseteq Temps
  /\ crashes \in Nat

Init ==
  /\ disk \in [Keys -> Values \union {None}]
  /\ after = [k \in Keys |-> {disk[k]}]
  /\ temp = [t \in Temps |-> Gone]
  /\ wr = [w \in Writers |-> Idle]
  /\ doomed = {}
  /\ events = {}
  /\ pending = {}
  /\ seen = disk
  /\ lost = {}
  /\ stuck = {}
  /\ crashes = 0

Exists(x) == IF x \in Keys THEN disk[x] # None ELSE temp[x] # Gone

\* What inotify reports.  Events that name only a temporary file are left
\* out: on_any_event skips them.
Deleted(k) == [src |-> k, dest |-> None]
Moved(t, k) == [src |-> t, dest |-> k]

------------------------------------------------------------------------------
(* write_bytes_atomic *)

StartWriteSameName(w, k, v) ==
  /\ wr[w] = Idle
  /\ \E t \in Temps :
       /\ temp[t] = Gone
       /\ wr' = [wr EXCEPT ![w] = [pc |-> "open", key |-> k, data |-> v, tmp |-> t]]
  /\ UNCHANGED <<storage, doomed, watcher, history>>

\* The suffix is random: no other temporary file has it, nor one that another
\* thread is about to make.
StartWrite(w, k, v) ==
  /\ wr[w] = Idle
  /\ \E t \in Temps :
       /\ temp[t] = Gone
       /\ \A u \in Writers : wr[u].tmp # t
       /\ wr' = [wr EXCEPT ![w] = [pc |-> "open", key |-> k, data |-> v, tmp |-> t]]
  /\ UNCHANGED <<storage, doomed, watcher, history>>

OpenTemp(w) ==
  /\ wr[w].pc = "open"
  /\ temp' = [temp EXCEPT ![wr[w].tmp] = [data |-> Torn, left |-> {None, Torn}]]
  /\ wr' = [wr EXCEPT ![w].pc = "write"]
  /\ UNCHANGED <<disk, after, doomed, watcher, history>>

\* write and flush.  If hard_delete has unlinked the file, the bytes go to a
\* file without a name.
WriteTemp(w) ==
  /\ wr[w].pc = "write"
  /\ temp' = [temp EXCEPT ![wr[w].tmp] =
                IF @ = Gone THEN Gone ELSE [data |-> wr[w].data, left |-> {Torn, wr[w].data}]]
  /\ wr' = [wr EXCEPT ![w].pc = "sync"]
  /\ UNCHANGED <<disk, after, doomed, watcher, history>>

SyncNothing(w) ==
  /\ wr[w].pc = "sync"
  /\ wr' = [wr EXCEPT ![w].pc = "replace"]
  /\ UNCHANGED <<storage, doomed, watcher, history>>

\* fsync: from here on a power failure leaves all of the data.
Sync(w) ==
  /\ wr[w].pc = "sync"
  /\ temp' = [temp EXCEPT ![wr[w].tmp] = IF @ = Gone THEN Gone ELSE [@ EXCEPT !.left = {wr[w].data}]]
  /\ wr' = [wr EXCEPT ![w].pc = "replace"]
  /\ UNCHANGED <<disk, after, doomed, watcher, history>>

\* os.replace: one name takes the place of the other.
Replace(w) ==
  /\ wr[w].pc = "replace"
  /\ LET k == wr[w].key  t == wr[w].tmp IN
       /\ temp[t] # Gone
       /\ disk' = [disk EXCEPT ![k] = temp[t].data]
       /\ after' = [after EXCEPT ![k] = @ \union temp[t].left]
       /\ temp' = [temp EXCEPT ![t] = Gone]
       /\ events' = events \union {Moved(t, k)}
  /\ wr' = [wr EXCEPT ![w] = Idle]
  /\ UNCHANGED <<doomed, pending, seen, lost, history>>

\* A system call raises; os.replace does so for certain when the temporary
\* file is gone.
Fails(w) ==
  /\ wr[w].pc \in {"open", "write", "sync", "replace"}
  /\ wr' = [wr EXCEPT ![w].pc = "cleanup"]
  /\ UNCHANGED <<storage, doomed, watcher, history>>

CleanUpNothing(w) ==
  /\ wr[w].pc = "cleanup"
  /\ wr' = [wr EXCEPT ![w] = Idle]
  /\ UNCHANGED <<storage, doomed, watcher, history>>

\* The except clause unlinks the temporary file, if there is one, and raises.
CleanUp(w) ==
  /\ wr[w].pc = "cleanup"
  /\ temp' = [temp EXCEPT ![wr[w].tmp] = Gone]
  /\ wr' = [wr EXCEPT ![w] = Idle]
  /\ UNCHANGED <<disk, after, doomed, watcher, history>>

\* That unlinking raises too.
CleanUpFails(w) ==
  /\ wr[w].pc = "cleanup"
  /\ temp[wr[w].tmp] # Gone
  /\ stuck' = stuck \union {wr[w].tmp}
  /\ wr' = [wr EXCEPT ![w] = Idle]
  /\ UNCHANGED <<storage, doomed, watcher, crashes>>

------------------------------------------------------------------------------
(* delete and hard_delete *)

\* unlink(missing_ok=True); a file whose unlinking has not reached the disk
\* may come back.
Unlink(x) ==
  /\ disk' = [k \in Keys |-> IF k = x THEN None ELSE disk[k]]
  /\ after' = [k \in Keys |-> IF k = x THEN after[k] \union {None} ELSE after[k]]
  /\ temp' = [t \in Temps |-> IF t = x THEN Gone ELSE temp[t]]
  /\ events' = IF x \in Keys /\ Exists(x) THEN events \union {Deleted(x)} ELSE events
  /\ stuck' = stuck \ {x}

Delete(k) ==
  /\ disk[k] # None
  /\ Unlink(k)
  /\ UNCHANGED <<wr, doomed, pending, seen, lost, crashes>>

\* hard_delete lists all files, temporary ones too, and unlinks one by one.
ListDoomed ==
  /\ doomed = {}
  /\ doomed' = {x \in Keys \union Temps : Exists(x)}
  /\ UNCHANGED <<storage, wr, watcher, history>>

UnlinkDoomed(x) ==
  /\ x \in doomed
  /\ Unlink(x)
  /\ doomed' = doomed \ {x}
  /\ UNCHANGED <<wr, pending, seen, lost, crashes>>

------------------------------------------------------------------------------
(* KeyEventHandler and the flush *)

PathsOfSource(e) == {e.src}

\* The paths that an event names: a move has two.
Paths(e) == {e.src, e.dest} \ {None}
Announced(k) == \E e \in events : k \in {e.src, e.dest}

\* on_any_event skips temporary names, and keys that are not indexed.
Dispatch(e) ==
  /\ e \in events
  /\ events' = events \ {e}
  /\ pending' = pending \union (Paths(e) \ (Temps \union Ignored))
  /\ UNCHANGED <<storage, wr, doomed, seen, lost, history>>

\* A flush of key k reads the file, or finds that it is gone.
Flush(k) ==
  /\ k \in pending
  /\ pending' = pending \ {k}
  /\ seen' = [seen EXCEPT ![k] = disk[k]]
  /\ lost' = lost \ {k}
  /\ UNCHANGED <<storage, wr, doomed, events, history>>

------------------------------------------------------------------------------
(* Failures and the disk *)

\* The directory and the file reach the disk.
Settle(k) ==
  /\ after' = [after EXCEPT ![k] = {disk[k]}]
  /\ UNCHANGED <<disk, temp, wr, doomed, watcher, history>>

\* The threads are gone, and with them what the watcher had been told.  The
\* server that starts next does not read again what is in its index.
Restarted ==
  /\ crashes < MaxCrashes
  /\ crashes' = crashes + 1
  /\ wr' = [w \in Writers |-> Idle]
  /\ doomed' = {} /\ stuck' = {}
  /\ events' = {} /\ pending' = {}
  /\ lost' = {k \in Keys : k \in lost \union pending \/ Announced(k) \/ disk'[k] # disk[k]}
  /\ UNCHANGED seen

Crash ==
  /\ UNCHANGED storage
  /\ Restarted

PowerFailure ==
  /\ disk' \in [Keys -> Contents]
  /\ \A k \in Keys : disk'[k] \in after[k]
  /\ after' = [k \in Keys |-> {disk'[k]}]
  /\ temp' \in {[t \in Temps |-> Gone],
                [t \in Temps |-> IF temp[t] = Gone THEN Gone ELSE [data |-> Torn, left |-> {Torn}]]}
  /\ Restarted

------------------------------------------------------------------------------

WriterStep(w) ==
  \/ OpenTemp(w)
  \/ WriteTemp(w)
  \/ Sync(w)
  \/ Replace(w)
  \/ Fails(w)
  \/ CleanUp(w)
  \/ CleanUpFails(w)

Next ==
  \/ \E w \in Writers, k \in Keys, v \in Values : StartWrite(w, k, v)
  \/ \E w \in Writers : WriterStep(w)
  \/ \E k \in Keys : Delete(k)
  \/ ListDoomed
  \/ \E x \in Keys \union Temps : UnlinkDoomed(x)
  \/ \E e \in events : Dispatch(e)
  \/ \E k \in Keys : Flush(k)
  \/ \E k \in Keys : Settle(k)
  \/ Crash
  \/ PowerFailure

Spec == Init /\ [][Next]_vars

------------------------------------------------------------------------------
(* Properties *)

\* Readers, also those after a power failure, find an old or a new content
\* of a file and never a part of one, whatever failed.
A == INSTANCE AtomicFile
ImplementsAtomicFile == A!Spec

\* A write leaves no temporary file behind, unless the process died or could
\* not unlink it: each one belongs to a thread that will rename or unlink it.
NoOrphan ==
  crashes = 0 => \A t \in Temps : temp[t] # Gone => t \in stuck \/ \E w \in Writers : wr[w].tmp = t

\* What a flush last read of an indexed file is what the file still holds, or
\* its key is in the debouncer or will be, or a crash came between: the
\* temporary names through which all changes go hide none of them.
ChangesHeard ==
  \A k \in Keys \ Ignored :
    seen[k] # disk[k] => k \in pending \/ k \in lost \/ Announced(k)
==============================================================================
