-------------------------- MODULE AtomicWriteProofs --------------------------
(***************************************************************************)
(* Proofs about AtomicWrite, for any files, contents, threads and names,   *)
(* and for any number of crashes.                                          *)
(***************************************************************************)
EXTENDS AtomicWrite, TLAPS

Whole == Values \union {None}

\* A thread that writes has a key, a content and a temporary name of its own.
WritersOK ==
  \A w \in Writers :
    \/ wr[w] = Idle
    \/ wr[w].pc # "idle" /\ wr[w].key \in Keys /\ wr[w].data \in Values /\ wr[w].tmp \in Temps

\* What has been written is what was to be written; what has been synced would
\* survive a power failure; and a purge may have taken either.
WrittenOK ==
  \A w \in Writers :
    /\ wr[w].pc \in {"sync", "replace"} =>
         temp[wr[w].tmp] = Gone \/ temp[wr[w].tmp].data = wr[w].data
    /\ wr[w].pc = "replace" =>
         temp[wr[w].tmp] = Gone \/ temp[wr[w].tmp].left = {wr[w].data}

\* No file is in parts, nor would it be after a power failure.
FilesWhole == disk \in [Keys -> Whole] /\ after \in [Keys -> SUBSET Whole]

Inv == TypeOK /\ WritersOK /\ WrittenOK /\ FilesWhole

------------------------------------------------------------------------------
(* Inv is inductive *)

LEMMA InitInv == Init => Inv
<1> USE NamesAssumption, ContentsAssumption
<1>1. Init => TypeOK
  BY DEF Init, TypeOK, Contents, Idle, Gone
<1>2. Init => WritersOK /\ WrittenOK
  BY DEF Init, WritersOK, WrittenOK, Idle
<1>3. Init => FilesWhole
  BY DEF Init, FilesWhole, Whole
<1>4. QED
  BY <1>1, <1>2, <1>3 DEF Inv

\* unlink, of a file of either kind, by a request or by a purge.
LEMMA UnlinkStep ==
  ASSUME Inv, NEW x \in Keys \union Temps, Unlink(x), UNCHANGED <<wr, pending, seen, lost, crashes>>,
         doomed' \subseteq Keys \union Temps
  PROVE  Inv'
<1> USE NamesAssumption, ContentsAssumption DEF Inv, Unlink
<1>1. disk' \in [Keys -> Whole] /\ after' \in [Keys -> SUBSET Whole]
  BY DEF FilesWhole, Whole
<1>2. temp' \in [Temps -> [data : Contents, left : SUBSET Contents]]
  BY DEF TypeOK, Gone, Contents
<1>3. events' \subseteq [src : Keys \union Temps, dest : Keys \union {None}]
  BY DEF TypeOK, Deleted
<1>4. TypeOK'
  BY <1>1, <1>2, <1>3 DEF TypeOK, Whole, Contents
<1>5. WritersOK' /\ WrittenOK'
  BY DEF WritersOK, WrittenOK, Idle, TypeOK
<1>6. QED
  BY <1>1, <1>4, <1>5 DEF FilesWhole

\* The part of TypeOK that is about threads.
ThreadsOK ==
  /\ wr \in [Writers -> [pc : {"idle", "open", "write", "sync", "replace", "cleanup"},
                         key : Keys \union {None}, data : Values \union {None},
                         tmp : Temps \union {None}]]
  /\ \A v, w \in Writers : wr[v] # Idle /\ wr[w].tmp = wr[v].tmp => v = w

\* A thread that ends gives its temporary name back.
LEMMA Ending ==
  ASSUME Inv, NEW w \in Writers, wr' = [wr EXCEPT ![w] = Idle]
  PROVE  ThreadsOK'
<1>1. ThreadsOK
  BY DEF Inv, TypeOK, ThreadsOK
<1>2. \A v \in Writers : wr[v] # Idle => wr[v].tmp # None
  BY NamesAssumption DEF Inv, WritersOK
<1>3. \A v \in Writers : wr'[v] = IF v = w THEN Idle ELSE wr[v]
  BY <1>1 DEF ThreadsOK
<1>4. Idle.tmp = None
  BY DEF Idle
<1>5. \A u, v \in Writers : wr'[u] # Idle /\ wr'[v].tmp = wr'[u].tmp => u = v
  BY <1>1, <1>2, <1>3, <1>4 DEF ThreadsOK
<1>6. wr' \in [Writers -> [pc : {"idle", "open", "write", "sync", "replace", "cleanup"},
                          key : Keys \union {None}, data : Values \union {None},
                          tmp : Temps \union {None}]]
  BY <1>1 DEF ThreadsOK, Idle
<1>7. QED
  BY <1>5, <1>6 DEF ThreadsOK

\* The steps of write_bytes_atomic.
LEMMA WriterStepInv ==
  ASSUME Inv, NEW w \in Writers, WriterStep(w)
  PROVE  Inv'
<1> USE NamesAssumption, ContentsAssumption DEF Inv
<1>0. /\ wr[w] # Idle => wr[w].key \in Keys /\ wr[w].data \in Values /\ wr[w].tmp \in Temps
      /\ Idle.pc = "idle" /\ Idle.tmp = None
      /\ \A v \in Writers : v # w /\ wr[w] # Idle => wr[v].tmp # wr[w].tmp
  BY DEF WritersOK, TypeOK, Idle
<1>1. CASE OpenTemp(w)
  <2>1. TypeOK'
    BY <1>0, <1>1 DEF OpenTemp, TypeOK, Contents, watcher, history
  <2>2. WritersOK' /\ WrittenOK'
    BY <1>0, <1>1 DEF OpenTemp, WritersOK, WrittenOK, TypeOK, Idle
  <2>3. QED
    BY <1>1, <2>1, <2>2 DEF OpenTemp, FilesWhole
<1>2. CASE WriteTemp(w)
  <2>1. TypeOK'
    BY <1>0, <1>2 DEF WriteTemp, TypeOK, Contents, watcher, history, Gone
  <2>2. WritersOK' /\ WrittenOK'
    BY <1>0, <1>2 DEF WriteTemp, WritersOK, WrittenOK, TypeOK, Idle
  <2>3. QED
    BY <1>2, <2>1, <2>2 DEF WriteTemp, FilesWhole
<1>3. CASE Sync(w)
  <2>1. TypeOK'
    BY <1>0, <1>3 DEF Sync, TypeOK, Contents, watcher, history, Gone
  <2>2. WritersOK' /\ WrittenOK'
    BY <1>0, <1>3 DEF Sync, WritersOK, WrittenOK, TypeOK, Idle
  <2>3. QED
    BY <1>3, <2>1, <2>2 DEF Sync, FilesWhole
<1>4. CASE Replace(w)
  <2>1. temp[wr[w].tmp].data \in Whole /\ temp[wr[w].tmp].left \subseteq Whole
    BY <1>0, <1>4 DEF Replace, WrittenOK, Whole
  <2>2. FilesWhole'
    BY <1>0, <1>4, <2>1 DEF Replace, FilesWhole
  <2>3. TypeOK'
    <3>1. disk' \in [Keys -> Contents] /\ after' \in [Keys -> SUBSET Contents]
      BY <2>2 DEF FilesWhole, Whole, Contents
    <3>2. events' \subseteq [src : Keys \union Temps, dest : Keys \union {None}]
      BY <1>0, <1>4 DEF Replace, Moved, TypeOK
    <3>3. temp' \in [Temps -> [data : Contents, left : SUBSET Contents]]
      BY <1>4 DEF Replace, TypeOK, Gone, Contents
    <3>4. ThreadsOK'
      BY <1>4, Ending DEF Replace
    <3>5. QED
      BY <1>4, <3>1, <3>2, <3>3, <3>4 DEF Replace, TypeOK, ThreadsOK, history
  <2>4. WritersOK' /\ WrittenOK'
    BY <1>0, <1>4 DEF Replace, WritersOK, WrittenOK, TypeOK, Idle
  <2>5. QED
    BY <2>2, <2>3, <2>4
<1>5. CASE Fails(w)
  <2>1. TypeOK'
    BY <1>0, <1>5 DEF Fails, TypeOK, storage, watcher, history
  <2>2. WritersOK' /\ WrittenOK'
    BY <1>0, <1>5 DEF Fails, WritersOK, WrittenOK, TypeOK, storage, Idle
  <2>3. QED
    BY <1>5, <2>1, <2>2 DEF Fails, FilesWhole, storage
<1>6. CASE CleanUp(w)
  <2>1. TypeOK'
    <3>1. temp' \in [Temps -> [data : Contents, left : SUBSET Contents]]
      BY <1>6 DEF CleanUp, TypeOK, Gone, Contents
    <3>2. ThreadsOK'
      BY <1>6, Ending DEF CleanUp
    <3>3. QED
      BY <1>6, <3>1, <3>2 DEF CleanUp, TypeOK, ThreadsOK, watcher, history, history
  <2>2. WritersOK' /\ WrittenOK'
    BY <1>0, <1>6 DEF CleanUp, WritersOK, WrittenOK, TypeOK, Idle
  <2>3. QED
    BY <1>6, <2>1, <2>2 DEF CleanUp, FilesWhole
<1>7. CASE CleanUpFails(w)
  <2>1. ThreadsOK'
    BY <1>7, Ending DEF CleanUpFails
  <2>2. TypeOK'
    BY <1>0, <1>7, <2>1 DEF CleanUpFails, TypeOK, ThreadsOK, storage, watcher, Idle
  <2>3. WritersOK' /\ WrittenOK'
    BY <1>0, <1>7 DEF CleanUpFails, WritersOK, WrittenOK, TypeOK, Idle, storage
  <2>4. QED
    BY <1>7, <2>2, <2>3 DEF CleanUpFails, FilesWhole, storage
<1>8. QED
  BY <1>1, <1>2, <1>3, <1>4, <1>5, <1>6, <1>7 DEF WriterStep

\* Every step keeps Inv.
LEMMA StepInv ==
  ASSUME Inv, [Next]_vars
  PROVE  Inv'
<1> USE NamesAssumption, ContentsAssumption DEF Inv
<1>1. ASSUME NEW w \in Writers, NEW k \in Keys, NEW v \in Values, StartWrite(w, k, v)
      PROVE  Inv'
  <2>1. PICK t \in Temps :
          /\ \A u \in Writers : wr[u].tmp # t
          /\ wr' = [wr EXCEPT ![w] = [pc |-> "open", key |-> k, data |-> v, tmp |-> t]]
    BY <1>1 DEF StartWrite
  <2>2. TypeOK'
    BY <1>1, <2>1 DEF StartWrite, TypeOK, storage, watcher, history, Idle
  <2>3. WritersOK' /\ WrittenOK'
    BY <1>1, <2>1 DEF StartWrite, WritersOK, WrittenOK, TypeOK, storage, Idle
  <2>4. QED
    BY <1>1, <2>2, <2>3 DEF StartWrite, FilesWhole, storage
<1>2. ASSUME NEW w \in Writers, WriterStep(w)
      PROVE  Inv'
  BY <1>2, WriterStepInv
<1>3. ASSUME NEW k \in Keys, Delete(k)
      PROVE  Inv'
  BY <1>3, UnlinkStep DEF Delete, TypeOK
<1>4. CASE ListDoomed
  <2>1. TypeOK'
    BY <1>4 DEF ListDoomed, TypeOK, storage, watcher, history
  <2>2. QED
    BY <1>4, <2>1 DEF ListDoomed, WritersOK, WrittenOK, FilesWhole, storage
<1>5. ASSUME NEW x \in Keys \union Temps, UnlinkDoomed(x)
      PROVE  Inv'
  BY <1>5, UnlinkStep DEF UnlinkDoomed, TypeOK
<1>6. ASSUME NEW e \in events, Dispatch(e)
      PROVE  Inv'
  <2>1. Paths(e) \ (Temps \union Ignored) \subseteq Keys
    BY <1>6 DEF Paths, TypeOK
  <2>2. TypeOK'
    BY <1>6, <2>1 DEF Dispatch, TypeOK, storage, history
  <2>3. QED
    BY <1>6, <2>2 DEF Dispatch, WritersOK, WrittenOK, FilesWhole, storage
<1>7. ASSUME NEW k \in Keys, Flush(k)
      PROVE  Inv'
  <2>1. TypeOK'
    BY <1>7 DEF Flush, TypeOK, storage, history
  <2>2. QED
    BY <1>7, <2>1 DEF Flush, WritersOK, WrittenOK, FilesWhole, storage
<1>8. ASSUME NEW k \in Keys, Settle(k)
      PROVE  Inv'
  <2>1. TypeOK' /\ FilesWhole'
    BY <1>8 DEF Settle, TypeOK, FilesWhole, watcher, history
  <2>2. QED
    BY <1>8, <2>1 DEF Settle, WritersOK, WrittenOK
<1>9. ASSUME Restarted, FilesWhole', temp' \in [Temps -> [data : Contents, left : SUBSET Contents]]
      PROVE  Inv'
  <2>1. disk' \in [Keys -> Contents] /\ after' \in [Keys -> SUBSET Contents]
    BY <1>9 DEF FilesWhole, Whole, Contents
  <2>2. \A w \in Writers : wr'[w] = Idle
    BY <1>9 DEF Restarted
  <2>3. TypeOK'
    BY <1>9, <2>1, <2>2 DEF Restarted, TypeOK, Idle
  <2>4. QED
    BY <1>9, <2>2, <2>3 DEF WritersOK, WrittenOK, Idle
<1>10. CASE Crash
  BY <1>9, <1>10 DEF Crash, storage, FilesWhole, TypeOK
<1>11. CASE PowerFailure
  <2>1. FilesWhole'
    BY <1>11 DEF PowerFailure, FilesWhole, Whole, Contents
  <2>2. temp' \in [Temps -> [data : Contents, left : SUBSET Contents]]
    BY <1>11 DEF PowerFailure, Gone, Contents
  <2>3. QED
    BY <1>9, <1>11, <2>1, <2>2 DEF PowerFailure
<1>12. CASE UNCHANGED vars
  BY <1>12 DEF vars, storage, watcher, history, TypeOK, WritersOK, WrittenOK, FilesWhole
<1>13. QED
  BY <1>1, <1>2, <1>3, <1>4, <1>5, <1>6, <1>7, <1>8, <1>10, <1>11, <1>12 DEF Next

\* Inv is inductive.
THEOREM Invariance == Spec => []Inv
BY InitInv, StepInv, PTL DEF Spec

\* Whatever fails and whoever writes and purges, every variable keeps its type,
\* and no two threads share a temporary name.
THEOREM TypeCorrect == Spec => []TypeOK
BY Invariance, PTL DEF Inv

------------------------------------------------------------------------------
(* No temporary file is left behind *)

LEMMA NoOrphanStep ==
  ASSUME Inv, NoOrphan, [Next]_vars
  PROVE  NoOrphan'
<1> USE NamesAssumption DEF NoOrphan
<1>0. crashes \in Nat /\ temp \in [Temps -> [data : Contents, left : SUBSET Contents]]
      /\ \A w \in Writers : wr[w] # Idle => wr[w].tmp \in Temps
  BY DEF Inv, TypeOK, WritersOK
<1>1. ASSUME NEW w \in Writers, NEW k \in Keys, NEW v \in Values, StartWrite(w, k, v)
      PROVE  NoOrphan'
  <2>1. wr[w].tmp = None /\ UNCHANGED <<temp, stuck, crashes>> /\ \A u \in Writers : u # w => wr'[u] = wr[u]
    BY <1>1 DEF StartWrite, Idle, storage, history, Inv, TypeOK
  <2>2. QED
    BY <2>1
<1>2. ASSUME NEW w \in Writers, WriterStep(w)
      PROVE  NoOrphan'
  <2>0. wr \in [Writers -> [pc : {"idle", "open", "write", "sync", "replace", "cleanup"},
                         key : Keys \union {None}, data : Values \union {None},
                         tmp : Temps \union {None}]]
    BY DEF Inv, TypeOK
  <2>1. wr[w] # Idle
    BY <1>2 DEF WriterStep, OpenTemp, WriteTemp, Sync, Replace, Fails, CleanUp, CleanUpFails, Idle
  <2>2. CASE OpenTemp(w) \/ WriteTemp(w) \/ Sync(w) \/ Fails(w)
    <3>1. \A u \in Writers : wr'[u].tmp = wr[u].tmp
      BY <2>0, <2>2 DEF OpenTemp, WriteTemp, Sync, Fails
    <3>2. \A t \in Temps : temp'[t] # Gone => temp[t] # Gone \/ t = wr[w].tmp
      BY <1>0, <2>1, <2>2 DEF OpenTemp, WriteTemp, Sync, Fails, storage
    <3>3. UNCHANGED <<stuck, crashes>>
      BY <2>2 DEF OpenTemp, WriteTemp, Sync, Fails, history
    <3>4. QED
      BY <3>1, <3>2, <3>3
  <2>3. CASE Replace(w) \/ CleanUp(w)
    <3>1. \A u \in Writers : u # w => wr'[u] = wr[u]
      BY <2>0, <2>3 DEF Replace, CleanUp
    <3>2. temp' = [temp EXCEPT ![wr[w].tmp] = Gone] /\ UNCHANGED <<stuck, crashes>>
      BY <2>3 DEF Replace, CleanUp, history
    <3>3. QED
      BY <1>0, <2>1, <3>1, <3>2
  <2>4. CASE CleanUpFails(w)
    <3>1. \A u \in Writers : u # w => wr'[u] = wr[u]
      BY <2>0, <2>4 DEF CleanUpFails
    <3>2. temp' = temp /\ stuck' = stuck \union {wr[w].tmp} /\ crashes' = crashes
      BY <2>4 DEF CleanUpFails, storage
    <3>3. QED
      BY <1>0, <2>1, <3>1, <3>2
  <2>5. QED
    BY <1>2, <2>2, <2>3, <2>4 DEF WriterStep
<1>3. ASSUME NEW x \in Keys \union Temps, Unlink(x), UNCHANGED <<wr, crashes>>
      PROVE  NoOrphan'
  BY <1>3 DEF Unlink
<1>4. CASE UNCHANGED <<temp, wr, stuck, crashes>>
  BY <1>4
<1>5. CASE Crash \/ PowerFailure
  BY <1>0, <1>5 DEF Crash, PowerFailure, Restarted
<1>6. QED
  BY <1>1, <1>2, <1>3, <1>4, <1>5
  DEF Next, Delete, ListDoomed, UnlinkDoomed, Dispatch, Flush, Settle, vars, storage, history

\* While the process lives, each temporary file that could be unlinked belongs
\* to a thread that will rename or unlink it: no other failing call and no purge
\* leaves one behind.
THEOREM NoOrphans == Spec => []NoOrphan
<1>1. Init => NoOrphan
  BY DEF Init, NoOrphan
<1>2. Inv /\ NoOrphan /\ [Next]_vars => NoOrphan'
  BY NoOrphanStep
<1>3. QED
  BY Invariance, <1>1, <1>2, PTL DEF Spec

------------------------------------------------------------------------------
(* No change is hidden from the watcher *)

LEMMA ChangesHeardStep ==
  ASSUME Inv, ChangesHeard, [Next]_vars
  PROVE  ChangesHeard'
<1> USE NamesAssumption, IgnoredAssumption DEF ChangesHeard
<1>0. disk \in [Keys -> Contents] /\ seen \in [Keys -> Contents]
  BY DEF Inv, TypeOK
<1>1. CASE UNCHANGED <<disk, events, pending, seen, lost>>
  BY <1>1 DEF Announced
<1>2. ASSUME NEW w \in Writers, Replace(w)
      PROVE  ChangesHeard'
  <2> DEFINE k == wr[w].key
             e == Moved(wr[w].tmp, k)
  <2>1. \A j \in Keys : j # k => disk'[j] = disk[j]
    BY <1>0, <1>2 DEF Replace
  <2>2. e \in events' /\ events \subseteq events' /\ k \in {e.src, e.dest}
    BY <1>2 DEF Replace, Moved
  <2>3. UNCHANGED <<pending, seen, lost>>
    BY <1>2 DEF Replace
  <2> HIDE DEF e, k
  <2>4. QED
    BY <2>1, <2>2, <2>3 DEF Announced
<1>3. ASSUME NEW x \in Keys \union Temps, Unlink(x), UNCHANGED <<pending, seen, lost>>
      PROVE  ChangesHeard'
  <2>1. events \subseteq events' /\ \A j \in Keys : j # x => disk'[j] = disk[j]
    BY <1>0, <1>3 DEF Unlink
  <2>2. ASSUME x \in Keys, disk'[x] # disk[x]
        PROVE  Deleted(x) \in events' /\ x \in {Deleted(x).src, Deleted(x).dest}
    BY <1>3, <2>2 DEF Unlink, Exists, Deleted
  <2>3. QED
    BY <1>3, <2>1, <2>2 DEF Announced
<1>4. ASSUME NEW e \in events, Dispatch(e)
      PROVE  ChangesHeard'
  <2>1. \A k \in Keys \ Ignored : k \in {e.src, e.dest} => k \in pending'
    BY <1>4 DEF Dispatch, Paths
  <2>2. pending \subseteq pending' /\ events' = events \ {e} /\ UNCHANGED <<disk, seen, lost>>
    BY <1>4 DEF Dispatch, storage
  <2>3. QED
    BY <2>1, <2>2 DEF Announced
<1>5. ASSUME NEW k \in Keys, Flush(k)
      PROVE  ChangesHeard'
  BY <1>0, <1>5 DEF Flush, storage, Announced
<1>6. CASE Crash \/ PowerFailure
  BY <1>6 DEF Crash, PowerFailure, Restarted
<1>7. ASSUME NEW w \in Writers, WriterStep(w)
      PROVE  ChangesHeard'
  BY <1>1, <1>2, <1>7 DEF WriterStep, OpenTemp, WriteTemp, Sync, Fails, CleanUp, CleanUpFails, storage, watcher, history
<1>8. QED
  BY <1>1, <1>3, <1>4, <1>5, <1>6, <1>7
  DEF Next, StartWrite, Delete, ListDoomed, UnlinkDoomed, Settle, vars, storage, watcher, history

\* A file that the watcher looks after and that changed since it was last read
\* has its key in the debouncer, or an event that will put it there, unless a
\* crash took it, although every write is seen only as a move from an ignored
\* name.
THEOREM AllChangesHeard == Spec => []ChangesHeard
<1>1. Init => ChangesHeard
  BY DEF Init, ChangesHeard
<1>2. Inv /\ ChangesHeard /\ [Next]_vars => ChangesHeard'
  BY ChangesHeardStep
<1>3. QED
  BY Invariance, <1>1, <1>2, PTL DEF Spec

------------------------------------------------------------------------------
(* Refinement *)

\* Only the rename and the unlinking of a final name change the abstract file.
LEMMA StepRefines ==
  ASSUME Inv, Inv', [Next]_vars
  PROVE  [A!Next]_(A!vars)
<1> USE NamesAssumption DEF A!Next, A!vars
<1>1. CASE UNCHANGED <<disk, after>>
  BY <1>1
<1>2. ASSUME NEW w \in Writers, Replace(w)
      PROVE  [A!Next]_(A!vars)
  <2>1. wr[w].key \in Keys /\ wr[w].data \in Values /\ wr[w].tmp \in Temps
    BY <1>2 DEF Replace, Inv, WritersOK, Idle
  <2>2. temp[wr[w].tmp].data = wr[w].data /\ temp[wr[w].tmp].left = {wr[w].data}
    BY <1>2 DEF Replace, Inv, WrittenOK
  <2>3. A!Put(wr[w].key, wr[w].data)
    BY <1>2, <2>2 DEF Replace, A!Put
  <2>4. QED
    BY <2>1, <2>3
<1>3. ASSUME NEW x \in Keys \union Temps, Unlink(x)
      PROVE  [A!Next]_(A!vars)
  <2>0. disk \in [Keys -> Contents] /\ after \in [Keys -> SUBSET Contents]
    BY DEF Inv, TypeOK
  <2>1. CASE x \in Keys
    <3>1. A!Put(x, None)
      BY <1>3, <2>0, <2>1 DEF Unlink, A!Put
    <3>2. QED
      BY <2>1, <3>1
  <2>2. CASE x \notin Keys
    BY <1>1, <1>3, <2>0, <2>2 DEF Unlink
  <2>3. QED
    BY <2>1, <2>2
<1>4. ASSUME NEW k \in Keys, Settle(k)
      PROVE  [A!Next]_(A!vars)
  BY <1>4 DEF Settle, A!Settle
<1>5. CASE PowerFailure
  <2>1. A!PowerFailure
    BY <1>5 DEF PowerFailure, A!PowerFailure, Inv, FilesWhole, Whole
  <2>2. QED
    BY <2>1
<1>6. ASSUME NEW w \in Writers, WriterStep(w)
      PROVE  [A!Next]_(A!vars)
  BY <1>1, <1>2, <1>6 DEF WriterStep, OpenTemp, WriteTemp, Sync, Fails, CleanUp, CleanUpFails, storage
<1>7. QED
  BY <1>1, <1>3, <1>4, <1>5, <1>6
  DEF Next, StartWrite, Delete, ListDoomed, UnlinkDoomed, Dispatch, Flush, Crash, vars, storage

\* write_bytes_atomic, delete and hard_delete together implement files that
\* change as a whole and survive a power failure so.
THEOREM RefinesAtomicFile == Spec => ImplementsAtomicFile
<1>1. Init => A!Init
  BY DEF Init, A!Init
<1>2. Inv /\ Inv' /\ [Next]_vars => [A!Next]_(A!vars)
  BY StepRefines
<1>3. QED
  BY <1>1, <1>2, Invariance, PTL DEF Spec, ImplementsAtomicFile, A!Spec
==============================================================================
