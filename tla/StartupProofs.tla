---------------------------- MODULE StartupProofs ----------------------------
(***************************************************************************)
(* Proofs about IndexStartup, for any items, bounds and crashes.           *)
(***************************************************************************)
EXTENDS IndexStartup, TLAPS

(* Types.  A process that upgrades has a table left to drop or to create, a  *)
(* flush with no key has nothing to read, and a rebuild finds every table.   *)

DropRest == {DropOrder, <<"repairs", "vehicles", "meta">>, <<"vehicles", "meta">>, <<"meta">>}
CreateRest == {CreateOrder, <<"repairs", "images", "meta">>, <<"images", "meta">>, <<"meta">>}
TodoOK ==
  /\ todo \in [Procs -> {<<>>} \union DropRest \union CreateRest]
  /\ \A p \in Procs : /\ pc[p] = "drop" => todo[p] \in DropRest
                      /\ pc[p] = "create" => todo[p] \in CreateRest

LookOK == \A f \in Flushers : look[f].key = None => look[f] = NoLook

TimesOK ==
  /\ clock \in Nat \ {0} /\ start \in 0 .. clock /\ began \in 0 .. clock
  /\ \A i \in Items : file[i].mtime <= file[i].at
  /\ writer # None => \A t \in Tables : schema[t] # "none"

TInv == TypeOK /\ TodoOK /\ LookOK /\ TimesOK

(* The schema, as long as no process checks or upgrades it while the other   *)
(* runs: a database is of the old version until meta is dropped, of none     *)
(* until all tables are created anew, and then of the new one.               *)

Upgrading == {"drop", "create", "stamp"}

VersionTells ==
  /\ version = "new" => \A t \in Tables : schema[t] = "new"
  /\ version = "none" => built = 0 /\ \A t \in Tables : schema[t] # "old"
  /\ version = "old" => schema["meta"] = "old" /\ \A t \in Tables : schema[t] # "new"

Dropping(p) ==
  /\ version = "old"
  /\ schema["images"] # "none" => Len(todo[p]) = 4
  /\ schema["repairs"] # "none" => Len(todo[p]) >= 3
  /\ schema["vehicles"] # "none" => Len(todo[p]) >= 2

Creating(p) ==
  /\ version = "none"
  /\ Len(todo[p]) < 4 => schema["vehicles"] = "new"
  /\ Len(todo[p]) < 3 => schema["repairs"] = "new"
  /\ Len(todo[p]) < 2 => schema["images"] = "new"

PhaseTells ==
  \A p \in Procs :
    /\ pc[p] = "drop" => Dropping(p)
    /\ pc[p] = "create" => Creating(p)
    /\ pc[p] = "stamp" => version = "none" /\ \A t \in Tables : schema[t] = "new"
    /\ pc[p] \notin Upgrading \union {"down"} => version = "new"

SInv == VersionTells /\ PhaseTells

(* What a rebuild has read, whatever else happens: an item that it has not    *)
(* read as it is has a file still to be read in its line, or something in     *)
(* the line has changed since the rebuild began.                              *)

Ahead(i) == Attached(i) /\ \E a \in Line(i) : a \in left
Touched(i) == \E a \in Line(i) : file[a].at > start

WInv ==
  writer # None =>
    /\ \A i \in Items : work[i] = Wanted(i) \/ Ahead(i) \/ Touched(i)
    /\ \A i \in left : Table[i] = "vehicles" \/ Attached(i) \/ Touched(i)

(* Rows, as long as all go in turn: an item whose change is still to be       *)
(* handled, was lost, or is one that no handler looks at.                     *)

Due(i) ==
  \/ Queued(i)
  \/ \E f \in Flushers : /\ look[f].key = i
                         /\ i \in look[f].toread \/ <<i, Wanted(i)>> \in look[f].found
Lost(i) == i \in missed
Forgotten(i) == ~Attached(i) /\ Table[i] # "vehicles"
Covered(i) == Due(i) \/ Lost(i) \/ Forgotten(i)

WorkCovered == writer # None => \A i \in Items : work[i] = Wanted(i) \/ Ahead(i) \/ Covered(i)

LookIsFresh ==
  \A f \in Flushers : \A d \in look[f].found :
    d[2] = Wanted(d[1]) \/ Queued(d[1]) \/ Lost(d[1]) \/ Forgotten(d[1])

BuiltBeforeWatched == pc[Server] \in {"observe", "up"} => built # 0

StaleAccounted == version = "new" /\ built # 0 => \A i \in Items : Stale(i) => Covered(i)

RInv == WorkCovered /\ LookIsFresh /\ BuiltBeforeWatched /\ StaleAccounted

(* Drift, as long as reindex never runs beside a server: what a flush reads    *)
(* and writes, what a request writes, and what a rebuild wrote, is current or  *)
(* something in its line has changed since the rebuild began.                  *)

SinceBegan(i) == \E a \in Line(i) : file[a].at > began

DInv ==
  /\ \A f \in Flushers : \A j \in look[f].toread :
       (\A a \in Line(j) \ {j} : Shown(a)) \/ SinceBegan(j)
  /\ \A f \in Flushers : \A d \in look[f].found : d[2] = Wanted(d[1]) \/ SinceBegan(d[1])
  /\ \A debt \in owed : \A i \in debt.of : debt.row = Wanted(i) \/ SinceBegan(i)
  /\ version = "new" /\ built # 0 => \A i \in Items : Stale(i) => SinceBegan(i)

------------------------------------------------------------------------------
(* Type correctness *)

\* What is left of a list of tables has a head that its length tells.
LEMMA Lists ==
  /\ \A s \in DropRest :
       /\ Len(s) \in 1 .. 4
       /\ (Len(s) = 4 => Head(s) = "images") /\ (Len(s) = 3 => Head(s) = "repairs")
       /\ (Len(s) = 2 => Head(s) = "vehicles") /\ (Len(s) = 1 => Head(s) = "meta")
       /\ Len(s) > 1 => Tail(s) \in DropRest /\ Len(Tail(s)) = Len(s) - 1
  /\ \A s \in CreateRest :
       /\ Len(s) \in 1 .. 4
       /\ (Len(s) = 4 => Head(s) = "vehicles") /\ (Len(s) = 3 => Head(s) = "repairs")
       /\ (Len(s) = 2 => Head(s) = "images") /\ (Len(s) = 1 => Head(s) = "meta")
       /\ Tail(s) \in {<<>>} \union CreateRest /\ Len(Tail(s)) = Len(s) - 1
       /\ Len(s) # 1 => Tail(s) \in CreateRest
  /\ DropOrder \in DropRest /\ CreateOrder \in CreateRest
  /\ Len(DropOrder) = 4 /\ Len(CreateOrder) = 4
BY DEF DropRest, CreateRest, DropOrder, CreateOrder

\* Which is a table.
LEMMA HeadsAreTables == \A s \in DropRest \union CreateRest : Head(s) \in Tables
BY Lists DEF Tables

\* A change of a file, and what it may owe.
LEMMA ChangedTypes ==
  ASSUME TInv, NEW i \in Items, NEW m \in 0 .. clock + 1, NEW b \in BOOLEAN, NEW D,
         Changed(i, m, b, D), b => Table[i] = "vehicles" /\ m # 0,
         D \subseteq [of : SUBSET Items, row : 0 .. clock + 1], Watched \/ D = {}
  PROVE  TInv'
<1>0. clock' = clock + 1 /\ clock \in Nat \ {0} /\ 0 .. clock \subseteq 0 .. clock'
  BY DEF TInv, TimesOK, Changed
<1>1. TypeOK'
  <2>1. file' \in [Items -> [at : 0 .. clock', mtime : 0 .. clock']]
    BY <1>0 DEF TInv, TypeOK, Changed
  <2>2. /\ pending' \subseteq Items /\ missed' \subseteq Items
    BY DEF TInv, TypeOK, Changed, Revealed, Inside
  <2>3. deleted' \subseteq {j \in Items : Table[j] = "vehicles" /\ Present(j)'}
    BY DEF TInv, TypeOK, Changed, Present
  <2>4. look' \in [Flushers -> [key : Items \union {None}, toread : SUBSET Items,
                               found : SUBSET (Items \X (0 .. clock'))]]
    <3>1. Items \X (0 .. clock) \subseteq Items \X (0 .. clock')
      BY <1>0
    <3>2. look' = look
      BY DEF Changed
    <3>3. QED
      BY <3>1, <3>2 DEF TInv, TypeOK
  <2>5. owed' \subseteq [of : SUBSET Items, row : 0 .. clock']
    BY <1>0 DEF TInv, TypeOK, Changed
  <2>6. /\ UNCHANGED <<schema, version, built, rows, pc, writer, work, left, batch, look>>
        /\ owed' = owed \union D
    BY DEF Changed, meta, rebuild
  <2>7. built' \in 0 .. clock' /\ rows' \in [Items -> 0 .. clock'] /\ work' \in [Items -> 0 .. clock']
    BY <1>0, <2>6 DEF TInv, TypeOK
  <2>8. owed' # {} \/ batch' # NoBatch \/ look' # AllIdle => Watched'
    BY <2>6 DEF TInv, TypeOK, Watched
  <2>9. QED
    BY <2>1, <2>2, <2>3, <2>4, <2>5, <2>6, <2>7, <2>8 DEF TInv, TypeOK
<1>2. TimesOK'
  BY DEF TInv, TimesOK, TypeOK, Changed, meta, rebuild
<1>3. LookOK' /\ TodoOK'
  BY DEF TInv, LookOK, TodoOK, Changed
<1>4. QED
  BY <1>1, <1>2, <1>3 DEF TInv

\* Every change of a file is of one kind; what it owes is for what it contains.
LEMMA ChangesAre ==
  ASSUME TInv, NEW i \in Items, Change(i) \/ CopyIn(i) \/ Retire(i) \/ RemoveFile(i)
  PROVE  \E m \in 0 .. clock + 1, b \in BOOLEAN, D \in SUBSET [of : SUBSET Items, row : 0 .. clock + 1] :
           /\ Changed(i, m, b, D)
           /\ b => Table[i] = "vehicles" /\ m # 0
           /\ Watched \/ D = {}
           /\ \A debt \in D : debt.of \subseteq Inside(i)
<1> DEFINE Debts == SUBSET [of : SUBSET Items, row : 0 .. clock + 1]
           Owes(D) == (Watched \/ D = {}) /\ \A debt \in D : debt.of \subseteq Inside(i)
<1>1. clock \in Nat \ {0} /\ Inside(i) \subseteq Items /\ i \in Inside(i)
  BY DEF TInv, TimesOK, Inside, Line
<1>2. /\ 0 \in 0 .. clock + 1 /\ 1 \in 0 .. clock + 1 /\ clock + 1 \in 0 .. clock + 1
      /\ clock + 1 # 0
  BY <1>1
<1>3. \A D \in ByHand \union Upsert(i) \union Removal(i) : D \in Debts /\ Owes(D)
  BY <1>1, <1>2 DEF ByHand, Upsert, Removal
<1> HIDE DEF Debts, Owes
<1>4. CASE Change(i)
  <2>1. PICK D \in ByHand \union Upsert(i) : Changed(i, clock + 1, FALSE, D)
    BY <1>4 DEF Change
  <2>2. D \in Debts /\ Owes(D)
    BY <1>3
  <2>3. QED
    BY <1>2, <2>1, <2>2 DEF Debts, Owes
<1>5. CASE CopyIn(i)
  <2>1. PICK b \in BOOLEAN : (b => Table[i] = "vehicles") /\ Changed(i, 1, b, {})
    BY <1>5 DEF CopyIn
  <2>2. {} \in Debts /\ Owes({})
    BY DEF Debts, Owes
  <2>3. QED
    BY <1>2, <2>1, <2>2 DEF Debts, Owes
<1>6. CASE Retire(i)
  <2>1. PICK D \in ByHand \union Removal(i) : Changed(i, clock + 1, TRUE, D)
    BY <1>6 DEF Retire
  <2>2. D \in Debts /\ Owes(D) /\ Table[i] = "vehicles"
    BY <1>3, <1>6 DEF Retire
  <2>3. QED
    BY <1>2, <2>1, <2>2 DEF Debts, Owes
<1>7. CASE RemoveFile(i)
  <2>1. PICK D \in ByHand \union Removal(i) : Changed(i, 0, FALSE, D)
    BY <1>7 DEF RemoveFile
  <2>2. D \in Debts /\ Owes(D)
    BY <1>3
  <2>3. QED
    BY <1>2, <2>1, <2>2 DEF Debts, Owes
<1>8. QED
  BY <1>4, <1>5, <1>6, <1>7

\* A process that stops, for whatever reason.
LEMMA StoppedTypes ==
  ASSUME TInv, NEW p \in Procs, Stopped(p)
  PROVE  TInv'
<1>1. UNCHANGED <<clock, file, deleted, schema, version, built, rows>>
  BY DEF Stopped, files, meta
<1>2. /\ pending' \subseteq Items /\ missed' \subseteq Items
      /\ batch' \in [Flushers -> SUBSET Items]
      /\ look' \in [Flushers -> [key : Items \union {None}, toread : SUBSET Items,
                               found : SUBSET (Items \X (0 .. clock))]]
      /\ owed' \subseteq [of : SUBSET Items, row : 0 .. clock]
      /\ LookOK'
  <2>1. CASE p = Tool
    BY <2>1 DEF Stopped, watcher, TInv, TypeOK, LookOK
  <2>2. CASE p # Tool
    BY <2>2 DEF Stopped, AllIdle, NoBatch, NoLook, LookOK
  <2>3. QED
    BY <2>1, <2>2
<1>3. pc' = [pc EXCEPT ![p] = "down"]
  BY DEF Stopped, Goto
<1>4. owed' # {} \/ batch' # NoBatch \/ look' # AllIdle => Watched'
  BY <1>3, ProcsAssumption DEF Stopped, watcher, TInv, TypeOK, Watched, Procs
<1>5. /\ writer' \in Procs \union {None} /\ work' \in [Items -> 0 .. clock] /\ left' \subseteq Items
      /\ \A q \in Procs : writer' = q <=> pc'[q] = "reading"
      /\ start' \in 0 .. clock /\ (writer' # None => writer' = writer)
  BY <1>3, ProcsAssumption DEF Stopped, EndRebuild, NoRows, rebuild, TInv, TypeOK, TimesOK, Procs
<1>6. TypeOK'
  BY <1>1, <1>2, <1>3, <1>4, <1>5 DEF TInv, TypeOK, Present
<1>7. TimesOK'
  BY <1>1, <1>5 DEF TInv, TimesOK, Stopped
<1>8. TodoOK'
  BY DEF TInv, TypeOK, TodoOK, Stopped, Goto
<1>9. QED
  BY <1>2, <1>6, <1>7, <1>8 DEF TInv

\* Opening: the schema check, dropping, creating and stamping.
LEMMA OpeningTypes ==
  ASSUME TInv, NEW p \in Procs, Open(p) \/ DropTable(p) \/ CreateTable(p) \/ StampVersion(p)
  PROVE  TInv'
<1>1. CASE Open(p)
  <2>1. TypeOK'
    <3>1. UNCHANGED <<clock, file, deleted, schema, version, built, rows, writer, work, left,
                      pending, batch, look, owed, missed>>
      BY <1>1 DEF Open, files, meta, rebuild, watcher
    <3>2. \E l \in {"create", "drop", "drift", "rebuild"} : pc' = [pc EXCEPT ![p] = l]
      BY <1>1 DEF TInv, TypeOK, Open, Goto, Opened
    <3>3. pc[p] = "down"
      BY <1>1 DEF Open
    <3>4. Watched <=> Watched'
      BY <3>2, <3>3, ProcsAssumption DEF TInv, TypeOK, Watched, Procs
    <3>5. QED
      BY <3>1, <3>2, <3>3, <3>4 DEF TInv, TypeOK, Present
  <2>2. TodoOK'
    BY <1>1, Lists DEF TInv, TypeOK, TodoOK, Open, Goto, Opened
  <2>3. TimesOK' /\ LookOK'
    BY <1>1 DEF TInv, TimesOK, LookOK, Open, NoLook, files, meta, rebuild, watcher
  <2>4. QED
    BY <2>1, <2>2, <2>3 DEF TInv
<1>2. CASE DropTable(p)
  <2>0. Head(todo[p]) \in Tables
    BY <1>2, HeadsAreTables DEF TInv, TodoOK, DropTable
  <2>1. TypeOK'
    BY <1>2, <2>0, ProcsAssumption, TableAssumption DEF TInv, TypeOK, TimesOK, DropTable, Goto, files, rebuild, watcher, Watched, Present, Procs
  <2>2. TodoOK'
    <3>1. todo[p] \in DropRest
      BY <1>2 DEF TInv, TodoOK, DropTable
    <3>2. CASE Len(todo[p]) > 1
      BY <1>2, <3>1, <3>2, Lists DEF TInv, TypeOK, TodoOK, DropTable
    <3>3. CASE ~(Len(todo[p]) > 1)
      BY <1>2, <3>1, <3>3, Lists DEF TInv, TypeOK, TodoOK, DropTable, Goto
    <3>4. QED
      BY <3>2, <3>3
  <2>3. TimesOK' /\ LookOK'
    BY <1>2 DEF TInv, TimesOK, LookOK, DropTable, NoLook, files, rebuild, watcher
  <2>4. QED
    BY <2>1, <2>2, <2>3 DEF TInv
<1>3. CASE CreateTable(p)
  <2>0. Head(todo[p]) \in Tables
    BY <1>3, HeadsAreTables DEF TInv, TodoOK, CreateTable
  <2>1. TypeOK'
    <3>1. UNCHANGED <<clock, file, deleted, version, built, rows, writer, work, left,
                      pending, batch, look, owed, missed>>
      BY <1>3 DEF CreateTable, files, rebuild, watcher
    <3>2. \E l \in {"create", "stamp"} : pc' = [pc EXCEPT ![p] = l]
      BY <1>3 DEF CreateTable, Goto
    <3>3. /\ schema' \in [Tables -> {"none", "old", "new"}] /\ pc[p] = "create"
          /\ \A t \in Tables : schema'[t] = "none" => schema[t] = "none"
      BY <1>3, <2>0 DEF TInv, TypeOK, CreateTable
    <3>4. Watched <=> Watched'
      BY <3>2, <3>3, ProcsAssumption DEF TInv, TypeOK, Watched, Procs
    <3>5. QED
      BY <3>1, <3>2, <3>3, <3>4, TableAssumption DEF TInv, TypeOK, Present, Tables
  <2>2. TodoOK'
    BY <1>3, Lists DEF TInv, TypeOK, TodoOK, CreateTable, Goto
  <2>3. TimesOK' /\ LookOK'
    BY <1>3, <2>0 DEF TInv, TimesOK, LookOK, CreateTable, NoLook, files, rebuild, watcher
  <2>4. QED
    BY <2>1, <2>2, <2>3 DEF TInv
<1>4. CASE StampVersion(p)
  <2>1. TypeOK'
    BY <1>4, ProcsAssumption DEF TInv, TypeOK, StampVersion, Goto, Opened, files, rebuild, watcher, Watched, Present, Procs
  <2>2. TodoOK' /\ TimesOK' /\ LookOK'
    BY <1>4 DEF TInv, TypeOK, TodoOK, TimesOK, LookOK, StampVersion, Goto, Opened, NoLook, files, rebuild, watcher
  <2>3. QED
    BY <2>1, <2>2 DEF TInv
<1>5. QED
  BY <1>1, <1>2, <1>3, <1>4

\* The rebuild: reading and committing.
LEMMA RebuildTypes ==
  ASSUME TInv, NEW p \in Procs,
         BeginRebuild(p) \/ (\E i \in Items : ReadItem(p, i)) \/ Commit(p)
  PROVE  TInv'
<1>1. CASE BeginRebuild(p)
  <2>1. TypeOK'
    BY <1>1, ProcsAssumption DEF TInv, TypeOK, TimesOK, BeginRebuild, Goto, NoRows, files, meta, watcher, Watched, Present, Procs
  <2>2. TodoOK' /\ TimesOK' /\ LookOK'
    BY <1>1 DEF TInv, TypeOK, TodoOK, TimesOK, LookOK, BeginRebuild, Goto, NoLook, files, meta, watcher
  <2>3. QED
    BY <2>1, <2>2 DEF TInv
<1>2. CASE \E i \in Items : ReadItem(p, i)
  <2>1. PICK i \in Items : ReadItem(p, i)
    BY <1>2
  <2>2. TypeOK'
    BY <2>1 DEF TInv, TypeOK, TimesOK, ReadItem, Children, files, meta, watcher, Watched, Present
  <2>3. TodoOK' /\ TimesOK' /\ LookOK'
    BY <2>1 DEF TInv, TypeOK, TodoOK, TimesOK, LookOK, ReadItem, NoLook, files, meta, watcher
  <2>4. QED
    BY <2>2, <2>3 DEF TInv
<1>3. CASE Commit(p)
  <2>1. TypeOK'
    <3>1. \A i \in Items : schema[Table[i]] # "none"
      BY <1>3, ProcsAssumption, TableAssumption DEF TInv, TypeOK, TimesOK, Commit, Procs
    <3>2. built' \in 0 .. clock' /\ rows' \in [Items -> 0 .. clock'] /\ schema' = schema /\ version' = version
      BY <1>3 DEF TInv, TypeOK, TimesOK, Commit, files
    <3>3. schema["meta"] # "none"
      BY <1>3, ProcsAssumption DEF TInv, TimesOK, Commit, Tables, Procs
    <3>4. pc' = [pc EXCEPT ![p] = IF p = Server THEN "observe" ELSE "down"] /\ pc[p] = "reading"
      BY <1>3 DEF TInv, TypeOK, Commit, Goto
    <3>5. writer' = None /\ work' = NoRows /\ left' = {} /\ missed' \subseteq missed
      BY <1>3 DEF Commit, EndRebuild
    <3>6. \A q \in Procs : writer' = q <=> pc'[q] = "reading"
      BY <1>3, <3>4, <3>5, ProcsAssumption DEF TInv, TypeOK, Commit
    <3>7. UNCHANGED <<look, pending, batch, owed, file, deleted, clock>>
      BY <1>3 DEF Commit, files
    <3>8. Watched => Watched'
      BY <3>4, ProcsAssumption DEF TInv, TypeOK, Watched, Present, Procs
    <3>9. QED
      BY <3>1, <3>2, <3>3, <3>4, <3>5, <3>6, <3>7, <3>8 DEF TInv, TypeOK, TimesOK, NoRows, Present
  <2>2. TodoOK' /\ TimesOK' /\ LookOK'
    BY <1>3 DEF TInv, TypeOK, TodoOK, TimesOK, LookOK, Commit, Goto, EndRebuild, NoLook, files
  <2>3. QED
    BY <2>1, <2>2 DEF TInv
<1>4. QED
  BY <1>1, <1>2, <1>3

\* The server: checking and observing.
LEMMA ServerTypes ==
  ASSUME TInv, CheckDrift \/ CheckMarker \/ Observe
  PROVE  TInv'
<1>1. UNCHANGED <<clock, file, deleted, schema, version, built, rows, todo, writer, work, left, start, began,
                  pending, batch, look, owed, missed>>
  BY DEF CheckDrift, CheckMarker, Observe, files, meta, rebuild, watcher
<1>2. /\ pc[Server] \in {"drift", "marker", "observe"}
      /\ pc' \in [Procs -> {"marker", "rebuild", "observe", "up", pc[Server], pc[Tool]}]
      /\ pc'[Server] \in {"marker", "rebuild", "observe", "up"}
      /\ \A q \in Procs \ {Server} : pc'[q] = pc[q]
  BY DEF CheckDrift, CheckMarker, Observe, Goto, TInv, TypeOK, Procs
<1>3. pc'[Server] = IF CheckDrift THEN "marker" ELSE pc'[Server]
  BY <1>2 DEF CheckDrift, Goto, TInv, TypeOK, Procs
<1>4. ~Watched
  BY <1>2 DEF Watched
<1>5. TypeOK'
  BY <1>1, <1>2, <1>4, ProcsAssumption DEF TInv, TypeOK, Present, Procs
<1>6. TodoOK' /\ TimesOK' /\ LookOK'
  BY <1>1, <1>2 DEF TInv, TypeOK, TodoOK, TimesOK, LookOK, Procs
<1>7. QED
  BY <1>5, <1>6 DEF TInv

\* A flush that handles no key has read nothing; one that does, or has keys
\* still to handle, is a watcher's, and so is a request that owes rows.
LEMMA BusyIsWatched ==
  ASSUME TInv
  PROVE  /\ \A f \in Flushers : look[f].toread # {} \/ look[f].found # {} => look[f].key # None
         /\ \A f \in Flushers : look[f].key # None \/ batch[f] # {} => Watched
         /\ owed # {} => Watched
<1>1. /\ \A f \in Flushers : look[f].key # None => look # AllIdle
      /\ \A f \in Flushers : batch[f] # {} => batch # NoBatch
  BY DEF AllIdle, NoBatch, NoLook
<1>2. QED
  BY <1>1 DEF TInv, TypeOK, LookOK, NoLook

\* What the flush of a key is to read.
LEMMA SiblingsAre ==
  ASSUME NEW i \in Items
  PROVE  i \in Siblings(i) /\ Siblings(i) \subseteq Items
BY DEF Siblings

\* What is found in a file.
LEMMA FoundTypes ==
  ASSUME TInv, NEW j \in Items
  PROVE  FoundIn(j) \subseteq Items \X (0 .. clock)
<1>1. file[j].at \in 0 .. clock /\ Wanted(j) \in 0 .. clock
  BY DEF TInv, TypeOK, TimesOK, Wanted
<1>2. QED
  BY <1>1 DEF FoundIn

\* A flush that goes on with what it reads and has read.
LEMMA HandleTypes ==
  ASSUME TInv, NEW f \in Flushers, NEW R, NEW F, Handle(f, R, F), look[f] # NoLook,
         R \subseteq Items, F \subseteq Items \X (0 .. clock)
  PROVE  /\ look' \in [Flushers -> [key : Items \union {None}, toread : SUBSET Items,
                                   found : SUBSET (Items \X (0 .. clock))]]
         /\ LookOK'
         /\ \A g \in Flushers \ {f} : look'[g] = look[g]
         /\ look'[f] = IF R = {} /\ F = {} THEN NoLook
                       ELSE [key |-> look[f].key, toread |-> R, found |-> F]
         /\ look[f].key \in Items
<1>1. look[f].key \in Items /\ look \in [Flushers -> [key : Items \union {None}, toread : SUBSET Items,
                                   found : SUBSET (Items \X (0 .. clock))]]
  BY DEF TInv, TypeOK, LookOK
<1>2. /\ \A g \in Flushers \ {f} : look'[g] = look[g]
      /\ look'[f] = IF R = {} /\ F = {} THEN NoLook
                    ELSE [key |-> look[f].key, toread |-> R, found |-> F]
      /\ look' = [g \in Flushers |-> look'[g]]
  BY <1>1 DEF Handle
<1>3. NoLook \in [key : Items \union {None}, toread : SUBSET Items,
                  found : SUBSET (Items \X (0 .. clock))]
  BY DEF NoLook
<1>4. look' \in [Flushers -> [key : Items \union {None}, toread : SUBSET Items,
                             found : SUBSET (Items \X (0 .. clock))]]
  BY <1>1, <1>2, <1>3
<1>5. LookOK'
  BY <1>1, <1>2, ProcsAssumption DEF TInv, LookOK, NoLook
<1>6. QED
  BY <1>1, <1>2, <1>4, <1>5

\* The flushes.
LEMMA FlushTypes ==
  ASSUME TInv, NEW f \in Flushers,
         \/ Flush(f)
         \/ \E i \in Items : Take(f, i) \/ ReadFile(f, i)
         \/ ProjectRow(f)
         \/ Raise(f)
  PROVE  TInv'
<1>1. UNCHANGED <<clock, file, deleted, schema, version, built, todo, pc, writer, work, left, start, began, owed>>
  BY DEF Flush, Take, ReadFile, ProjectRow, Raise, files, meta, rebuild
<1>2. Watched /\ Watched'
  <2>1. Watched
    BY BusyIsWatched DEF Flush, Take, ReadFile, ProjectRow, Raise, TInv, LookOK
  <2>2. QED
    BY <1>1, <2>1 DEF Watched
<1>3. pending' \subseteq Items /\ missed' \subseteq Items
  BY DEF Flush, Take, ReadFile, ProjectRow, Raise, TInv, TypeOK, LookOK
<1>4. batch' \in [Flushers -> SUBSET Items]
  <2>1. CASE Flush(f)
    BY <2>1 DEF Flush, TInv, TypeOK
  <2>2. CASE \E i \in Items : Take(f, i)
    BY <2>2 DEF Take, TInv, TypeOK
  <2>3. QED
    BY <2>1, <2>2 DEF ReadFile, ProjectRow, Raise, TInv, TypeOK
<1>5. /\ look' \in [Flushers -> [key : Items \union {None}, toread : SUBSET Items,
                                found : SUBSET (Items \X (0 .. clock))]]
      /\ LookOK'
  <2>1. CASE Flush(f)
    BY <2>1 DEF Flush, TInv, TypeOK, LookOK
  <2>2. CASE \E i \in Items : Take(f, i)
    <3>1. PICK i \in Items : Take(f, i)
      BY <2>2
    <3>2. Siblings(i) \subseteq Items
      BY SiblingsAre
    <3>3. QED
      BY <3>1, <3>2, ProcsAssumption DEF Take, TInv, TypeOK, LookOK, NoLook
  <2>3. CASE \E i \in Items : ReadFile(f, i)
    <3>1. PICK i \in Items : ReadFile(f, i)
      BY <2>3
    <3>2. look[f] # NoLook
      BY <3>1 DEF ReadFile, NoLook
    <3>3. /\ look[f].toread \ {i} \subseteq Items
          /\ look[f].found \union FoundIn(i) \subseteq Items \X (0 .. clock)
      BY FoundTypes DEF TInv, TypeOK
    <3>4. QED
      BY <3>1, <3>2, <3>3, HandleTypes DEF ReadFile
  <2>4. CASE ProjectRow(f)
    <3>1. PICK d \in look[f].found : Handle(f, look[f].toread, look[f].found \ {d})
      BY <2>4 DEF ProjectRow
    <3>2. look[f] # NoLook
      BY <3>1 DEF NoLook
    <3>3. /\ look[f].toread \subseteq Items
          /\ look[f].found \ {d} \subseteq Items \X (0 .. clock)
      BY DEF TInv, TypeOK
    <3>4. QED
      BY <3>1, <3>2, <3>3, HandleTypes
  <2>5. CASE Raise(f)
    BY <2>5 DEF Raise, TInv, TypeOK, LookOK, NoLook
  <2>6. QED
    BY <2>1, <2>2, <2>3, <2>4, <2>5
<1>6. rows' \in [Items -> 0 .. clock] /\ \A i \in Items : schema[Table[i]] = "none" => rows'[i] = 0
  <2>1. CASE ProjectRow(f)
    <3>1. PICK d \in look[f].found : rows' = [rows EXCEPT ![d[1]] = d[2]] /\ schema[Table[d[1]]] # "none"
      BY <2>1 DEF ProjectRow
    <3>2. d[1] \in Items /\ d[2] \in 0 .. clock
      BY DEF TInv, TypeOK
    <3>3. QED
      BY <3>1, <3>2 DEF TInv, TypeOK
  <2>2. CASE ~ProjectRow(f)
    BY <2>2 DEF Flush, Take, ReadFile, Raise, TInv, TypeOK
  <2>3. QED
    BY <2>1, <2>2
<1>7. TypeOK'
  BY <1>1, <1>2, <1>3, <1>4, <1>5, <1>6 DEF TInv, TypeOK, Present
<1>8. TodoOK' /\ TimesOK'
  BY <1>1 DEF TInv, TodoOK, TimesOK
<1>9. QED
  BY <1>5, <1>7, <1>8 DEF TInv

\* A request writes what it owes.
LEMMA SettleTypes == TInv /\ Settle => TInv'
<1> SUFFICES ASSUME TInv, Settle PROVE TInv'
  OBVIOUS
<1>0. PICK debt \in owed : \E D \in SUBSET debt.of :
        /\ \A i \in D : schema[Table[i]] # "none"
        /\ rows' = [i \in Items |-> IF i \in D THEN debt.row ELSE rows[i]]
        /\ owed' = owed \ {debt}
  BY DEF Settle
<1>1. PICK D \in SUBSET debt.of :
        /\ \A i \in D : schema[Table[i]] # "none"
        /\ rows' = [i \in Items |-> IF i \in D THEN debt.row ELSE rows[i]]
        /\ owed' = owed \ {debt}
  BY <1>0
<1>2. UNCHANGED <<clock, file, deleted, schema, version, built, todo, pc, writer, work, left, start, began,
                  pending, batch, look, missed>>
  BY DEF Settle, files, meta, rebuild
<1>3. debt.row \in 0 .. clock
  BY DEF TInv, TypeOK
<1>4. rows' \in [Items -> 0 .. clock] /\ \A i \in Items : schema[Table[i]] = "none" => rows'[i] = 0
  BY <1>1, <1>3 DEF TInv, TypeOK
<1>5. TypeOK'
  BY <1>1, <1>2, <1>4 DEF TInv, TypeOK, Present, Watched
<1>6. TodoOK' /\ TimesOK' /\ LookOK'
  BY <1>2 DEF TInv, TodoOK, TimesOK, LookOK
<1>7. QED
  BY <1>5, <1>6 DEF TInv

\* Every step keeps the types.
LEMMA TypeStep == TInv /\ [Next]_vars => TInv'
<1> SUFFICES ASSUME TInv, [Next]_vars PROVE TInv'
  OBVIOUS
<1>0. ASSUME NEW i \in Items, Change(i) \/ CopyIn(i) \/ Retire(i) \/ RemoveFile(i) PROVE TInv'
  <2>1. PICK m \in 0 .. clock + 1, b \in BOOLEAN, D \in SUBSET [of : SUBSET Items, row : 0 .. clock + 1] :
          /\ Changed(i, m, b, D)
          /\ b => Table[i] = "vehicles" /\ m # 0
          /\ Watched \/ D = {}
    BY <1>0, ChangesAre
  <2>2. QED
    BY <2>1, ChangedTypes
<1>1. ASSUME NEW p \in Procs, Open(p) \/ ProcStep(p) \/ Crash(p) PROVE TInv'
  BY <1>1, OpeningTypes, RebuildTypes, StoppedTypes
     DEF ProcStep, RebuildFails, LockTimeout, TableGone, Crash
<1>2. CASE Exit
  BY <1>2, StoppedTypes DEF Exit, Procs
<1>3. CASE UNCHANGED vars
  BY <1>3 DEF TInv, TypeOK, TodoOK, TimesOK, LookOK, vars, files, meta, rebuild, watcher, Watched,
     Present, NoLook, AllIdle, NoBatch
<1>4. QED
  BY <1>0, <1>1, <1>2, <1>3, ServerTypes, FlushTypes, SettleTypes DEF Next

\* The initial state is well typed.
LEMMA TypeInit == Init => TInv
<1> SUFFICES ASSUME Init PROVE TInv
  OBVIOUS
<1>1. file \in [Items -> [at : 0 .. 1, mtime : 0 .. 1]] /\ \A i \in Items : file[i].mtime <= file[i].at
  <2>1. PICK S \in Stored : file = [i \in Items |-> IF i \in S THEN [at |-> 1, mtime |-> 1]
                                                            ELSE [at |-> 0, mtime |-> 0]]
    BY DEF Init
  <2>2. QED
    BY <2>1
<1>2. TypeOK
  BY <1>1, ProcsAssumption DEF Init, TypeOK, NoLook, AllIdle, NoBatch, NoRows, Watched, Procs, Tables
<1>3. TodoOK /\ TimesOK /\ LookOK
  BY <1>1 DEF Init, TodoOK, TimesOK, LookOK, NoLook, AllIdle, Procs, Tables
<1>4. QED
  BY <1>2, <1>3 DEF TInv

\* Every state is well typed: the write lock is held by a process that reads,
\* and no row is in a table that is not there.
THEOREM TypeCorrect == Spec => []TypeOK
<1>1. Spec => []TInv
  BY TypeInit, TypeStep, PTL DEF Spec
<1>2. TInv => TypeOK
  BY DEF TInv
<1>3. QED
  BY <1>1, <1>2, PTL

------------------------------------------------------------------------------
(* The schema *)

\* Upgrading is what OneOpens calls opening.
LEMMA OthersDown ==
  ASSUME OneOpens, NEW p \in Procs, NEW q \in Procs, p # q, pc[p] \in Upgrading
  PROVE  pc[q] = "down"
BY DEF OneOpens, Opening, Upgrading

\* A step that moves no process to an upgrade, and leaves meta and lists alone.
LEMMA SchemaUntouched ==
  ASSUME TInv, SInv, UNCHANGED <<schema, version, todo>>,
         version = "none" => built' = built,
         \A q \in Procs : \/ pc'[q] = pc[q] \/ pc'[q] = "down"
                          \/ pc[q] \notin Upgrading \union {"down"} /\ pc'[q] \notin Upgrading
  PROVE  SInv'
<1>1. VersionTells'
  BY DEF SInv, VersionTells
<1>2. \A q \in Procs : (Dropping(q) => Dropping(q)') /\ (Creating(q) => Creating(q)')
  BY DEF Dropping, Creating
<1>3. PhaseTells'
  BY <1>2 DEF SInv, PhaseTells, Upgrading
<1>4. QED
  BY <1>1, <1>3 DEF SInv

\* A process that stops.
LEMMA StoppedSchema ==
  ASSUME TInv, SInv, NEW p \in Procs, Stopped(p)
  PROVE  SInv'
<1>1. UNCHANGED <<schema, version, built>>
  BY DEF Stopped, meta
<1>2. \A q \in Procs : q # p => todo'[q] = todo[q] /\ pc'[q] = pc[q]
  BY DEF TInv, TypeOK, TodoOK, Stopped, Goto
<1>3. pc'[p] = "down"
  BY DEF TInv, TypeOK, Stopped, Goto
<1>4. VersionTells'
  BY <1>1 DEF SInv, VersionTells
<1>5. ASSUME NEW q \in Procs, q # p PROVE (Dropping(q) => Dropping(q)') /\ (Creating(q) => Creating(q)')
  BY <1>1, <1>2, <1>5 DEF Dropping, Creating
<1>6. PhaseTells'
  BY <1>1, <1>2, <1>3, <1>5 DEF SInv, PhaseTells, Upgrading
<1>7. QED
  BY <1>4, <1>6 DEF SInv

\* The schema check.
LEMMA OpenSchema ==
  ASSUME TInv, SInv, OneOpens, NEW p \in Procs, Open(p)
  PROVE  SInv'
<1>1. UNCHANGED <<schema, version, built>>
  BY DEF Open, meta
<1>2. VersionTells'
  BY <1>1 DEF SInv, VersionTells
<1>3. \A q \in Procs : q # p => todo'[q] = todo[q] /\ pc'[q] = pc[q]
  BY DEF TInv, TypeOK, TodoOK, Open, Goto
<1>4. ASSUME NEW q \in Procs, q # p PROVE (Dropping(q) => Dropping(q)') /\ (Creating(q) => Creating(q)')
  BY <1>1, <1>3, <1>4 DEF Dropping, Creating
<1>5. /\ pc'[p] = "drop" => Dropping(p)'
      /\ pc'[p] = "create" => Creating(p)'
      /\ pc'[p] # "stamp"
      /\ pc'[p] \notin Upgrading \union {"down"} => version' = "new"
  <2>1. CASE version = "none"
    <3>1. pc'[p] = "create" /\ todo'[p] = CreateOrder
      BY <2>1 DEF TInv, TypeOK, TodoOK, Open, Goto
    <3>2. Creating(p)'
      BY <1>1, <2>1, <3>1, Lists DEF Creating
    <3>3. QED
      BY <3>1, <3>2 DEF Upgrading
  <2>2. CASE version = "old"
    <3>1. pc'[p] = "drop" /\ todo'[p] = DropOrder
      BY <2>2 DEF TInv, TypeOK, TodoOK, Open, Goto
    <3>2. Dropping(p)'
      BY <1>1, <2>2, <3>1, Lists DEF Dropping
    <3>3. QED
      BY <3>1, <3>2 DEF Upgrading
  <2>3. CASE version = "new"
    BY <1>1, <2>3 DEF TInv, TypeOK, Open, Goto, Opened, Upgrading
  <2>4. QED
    BY <2>1, <2>2, <2>3 DEF TInv, TypeOK
<1>6. PhaseTells'
  BY <1>1, <1>3, <1>4, <1>5 DEF SInv, PhaseTells, Upgrading
<1>7. QED
  BY <1>2, <1>6 DEF SInv

\* Dropping a table of an old database: meta last, and with it the version.
LEMMA DropSchema ==
  ASSUME TInv, SInv, OneOpens, NEW p \in Procs, DropTable(p)
  PROVE  SInv'
<1>0. todo[p] \in DropRest /\ pc[p] = "drop" /\ Dropping(p)
  BY DEF TInv, TodoOK, DropTable, SInv, PhaseTells
<1>1. ASSUME NEW q \in Procs, q # p PROVE pc'[q] = "down"
  BY <1>0, <1>1, OthersDown DEF TInv, TypeOK, DropTable, Goto, Upgrading
<1>2. \A t \in Tables : schema'[t] = IF t = Head(todo[p]) THEN "none" ELSE schema[t]
  BY DEF DropTable, TInv, TypeOK
<1>3. CASE Len(todo[p]) = 1
  <2>1. Head(todo[p]) = "meta"
    BY <1>0, <1>3, Lists
  <2>2. version' = "none" /\ built' = 0
    BY <2>1 DEF DropTable
  <2>3. \A t \in Tables : schema'[t] = "none"
    BY <1>0, <1>2, <1>3, <2>1 DEF Dropping, Tables
  <2>4. pc'[p] = "create" /\ todo'[p] = CreateOrder
    BY <1>3 DEF DropTable, TInv, TypeOK, TodoOK, Goto
  <2>5. Creating(p)'
    BY <2>2, <2>4, Lists DEF Creating
  <2>6. VersionTells'
    BY <2>2, <2>3 DEF VersionTells
  <2>7. PhaseTells'
    BY <1>1, <2>4, <2>5 DEF PhaseTells, Upgrading
  <2>8. QED
    BY <2>6, <2>7 DEF SInv
<1>4. CASE Len(todo[p]) # 1
  <2>1. Head(todo[p]) \in Tables \ {"meta"} /\ Len(todo[p]) \in 2 .. 4
    BY <1>0, <1>4, Lists DEF Tables
  <2>2. version' = "old" /\ version = "old" /\ pc'[p] = "drop" /\ todo'[p] = Tail(todo[p])
    <3>1. version' = "old" /\ version = "old"
      BY <1>0, <2>1 DEF DropTable, Dropping
    <3>2. Len(todo[p]) > 1
      BY <2>1
    <3>3. todo' = [todo EXCEPT ![p] = Tail(@)] /\ pc' = pc
      BY <3>2 DEF DropTable
    <3>4. QED
      BY <1>0, <3>1, <3>3 DEF TInv, TodoOK
  <2>3. VersionTells'
    BY <1>2, <2>1, <2>2 DEF SInv, VersionTells, Tables
  <2>4. Dropping(p)'
    <3> DEFINE n == Len(todo[p])
    <3>1. n \in 2 .. 4 /\ Len(todo'[p]) = n - 1
      BY <1>0, <2>1, <2>2, Lists
    <3>2. (n = 4 => Head(todo[p]) = "images") /\ (n = 3 => Head(todo[p]) = "repairs") /\ (n = 2 => Head(todo[p]) = "vehicles")
      BY <1>0, <2>1, Lists
    <3>3. /\ (n = 4 => schema'["images"] = "none") /\ (n # 4 => schema'["images"] = schema["images"])
          /\ (n = 3 => schema'["repairs"] = "none") /\ (n # 3 => schema'["repairs"] = schema["repairs"])
          /\ (n = 2 => schema'["vehicles"] = "none") /\ (n # 2 => schema'["vehicles"] = schema["vehicles"])
      BY <1>2, <3>1, <3>2 DEF Tables
    <3> HIDE DEF n
    <3>4. /\ schema["images"] # "none" => n = 4
          /\ schema["repairs"] # "none" => n >= 3
      BY <1>0 DEF Dropping, n
    <3>5. QED
      BY <2>2, <3>1, <3>3, <3>4 DEF Dropping
  <2>5. PhaseTells'
    BY <1>1, <2>2, <2>4 DEF PhaseTells, Upgrading
  <2>6. QED
    BY <2>3, <2>5 DEF SInv
<1>5. QED
  BY <1>3, <1>4

\* Creating a table of a database that has no version.
LEMMA CreateSchema ==
  ASSUME TInv, SInv, OneOpens, NEW p \in Procs, CreateTable(p)
  PROVE  SInv'
<1>0. todo[p] \in CreateRest /\ pc[p] = "create" /\ Creating(p)
  BY DEF TInv, TodoOK, CreateTable, SInv, PhaseTells
<1>1. ASSUME NEW q \in Procs, q # p PROVE pc'[q] = "down"
  BY <1>0, <1>1, OthersDown DEF TInv, TypeOK, CreateTable, Goto, Upgrading
<1>2. \A t \in Tables : schema[t] \in {"none", "new"}
  BY <1>0 DEF Creating, SInv, VersionTells, TInv, TypeOK
<1>3. /\ UNCHANGED <<version, built>> /\ todo'[p] = Tail(todo[p]) /\ version = "none"
      /\ \A t \in Tables : schema'[t] = IF t = Head(todo[p]) THEN "new" ELSE schema[t]
  BY <1>0, <1>2 DEF CreateTable, TInv, TypeOK, TodoOK, Creating
<1>4. VersionTells'
  BY <1>2, <1>3 DEF SInv, VersionTells
<1>5. CASE Len(todo[p]) = 1
  <2>1. pc'[p] = "stamp"
    BY <1>5 DEF CreateTable, TInv, TypeOK, Goto
  <2>2. \A t \in Tables : schema'[t] = "new"
    BY <1>0, <1>3, <1>5, Lists DEF Creating, Tables
  <2>3. PhaseTells'
    BY <1>1, <1>3, <2>1, <2>2 DEF PhaseTells, Upgrading
  <2>4. QED
    BY <1>4, <2>3 DEF SInv
<1>6. CASE Len(todo[p]) # 1
  <2>1. pc'[p] = "create" /\ Len(todo[p]) \in 2 .. 4
    BY <1>0, <1>6, Lists DEF CreateTable, TInv, TypeOK, Goto
  <2>2. Creating(p)'
    <3> DEFINE n == Len(todo[p])
    <3>1. n \in 2 .. 4 /\ Len(todo'[p]) = n - 1
      BY <1>0, <1>3, <2>1, Lists
    <3>2. (n = 4 => Head(todo[p]) = "vehicles") /\ (n = 3 => Head(todo[p]) = "repairs") /\ (n = 2 => Head(todo[p]) = "images")
      BY <1>0, <2>1, Lists
    <3>3. /\ (n = 4 => schema'["vehicles"] = "new") /\ (n # 4 => schema'["vehicles"] = schema["vehicles"])
          /\ (n = 3 => schema'["repairs"] = "new") /\ (n # 3 => schema'["repairs"] = schema["repairs"])
          /\ (n = 2 => schema'["images"] = "new") /\ (n # 2 => schema'["images"] = schema["images"])
      BY <1>3, <3>1, <3>2 DEF Tables
    <3> HIDE DEF n
    <3>4. /\ n < 4 => schema["vehicles"] = "new"
          /\ n < 3 => schema["repairs"] = "new"
      BY <1>0 DEF Creating, n
    <3>5. QED
      BY <1>3, <3>1, <3>3, <3>4 DEF Creating
  <2>3. PhaseTells'
    BY <1>1, <2>1, <2>2 DEF PhaseTells, Upgrading
  <2>4. QED
    BY <1>4, <2>3 DEF SInv
<1>7. QED
  BY <1>5, <1>6

\* Stamping the version, once all tables are there.
LEMMA StampSchema ==
  ASSUME TInv, SInv, OneOpens, NEW p \in Procs, StampVersion(p)
  PROVE  SInv'
<1>0. pc[p] = "stamp" /\ \A t \in Tables : schema[t] = "new"
  BY DEF StampVersion, SInv, PhaseTells
<1>1. ASSUME NEW q \in Procs, q # p PROVE pc'[q] = "down"
  BY <1>0, <1>1, OthersDown DEF TInv, TypeOK, StampVersion, Goto, Upgrading
<1>2. version' = "new" /\ schema' = schema /\ pc'[p] \in {"drift", "rebuild"}
  BY DEF StampVersion, TInv, TypeOK, Goto, Opened
<1>3. QED
  BY <1>0, <1>1, <1>2 DEF SInv, VersionTells, PhaseTells, Upgrading

\* Every other step leaves the schema alone.
LEMMA SchemaStep == TInv /\ SInv /\ OneOpens /\ [Next]_vars => SInv'
<1> SUFFICES ASSUME TInv, SInv, OneOpens, [Next]_vars PROVE SInv'
  OBVIOUS
<1>1. ASSUME NEW i \in Items, Change(i) \/ CopyIn(i) \/ Retire(i) \/ RemoveFile(i) PROVE SInv'
  BY <1>1, SchemaUntouched DEF Change, CopyIn, Retire, RemoveFile, Changed, meta
<1>2. ASSUME NEW p \in Procs, Open(p) \/ ProcStep(p) \/ Crash(p) PROVE SInv'
  <2>1. CASE BeginRebuild(p) \/ (\E i \in Items : ReadItem(p, i))
    BY <2>1, SchemaUntouched DEF BeginRebuild, ReadItem, Goto, meta, TInv, TypeOK, Upgrading
  <2>2. CASE Commit(p)
    <3>1. pc[p] = "reading" /\ version = "new"
      BY <2>2 DEF Commit, TInv, TypeOK, SInv, PhaseTells, Upgrading
    <3>2. QED
      BY <2>2, <3>1, SchemaUntouched DEF Commit, Goto, TInv, TypeOK, Upgrading
  <2>3. QED
    BY <1>2, <2>1, <2>2, OpenSchema, DropSchema, CreateSchema, StampSchema, StoppedSchema
       DEF ProcStep, RebuildFails, LockTimeout, TableGone, Crash
<1>3. CASE Exit
  BY <1>3, StoppedSchema DEF Exit, Procs
<1>4. CASE CheckDrift \/ CheckMarker \/ Observe
  BY <1>4, SchemaUntouched DEF CheckDrift, CheckMarker, Observe, Goto, meta, TInv, TypeOK, Upgrading
<1>5. ASSUME NEW f \in Flushers,
             \/ Flush(f)
             \/ \E i \in Items : Take(f, i) \/ ReadFile(f, i)
             \/ ProjectRow(f)
             \/ Raise(f)
      PROVE  SInv'
  BY <1>5, SchemaUntouched DEF Flush, Take, ReadFile, ProjectRow, Raise, meta
<1>6. CASE Settle \/ UNCHANGED vars
  BY <1>6, SchemaUntouched DEF Settle, vars, meta
<1>7. QED
  BY <1>1, <1>2, <1>3, <1>4, <1>5, <1>6 DEF Next

\* A new database has no version, one that is there the old one.
LEMMA SchemaInit == Init => SInv
BY DEF Init, SInv, VersionTells, PhaseTells, Upgrading, Tables

\* As long as no process opens the index while the other runs, a process that
\* uses it finds every table, and none of the old schema, whatever crashed on
\* the way.
THEOREM SchemaIsWhole == Spec => SchemaWholeIfOneOpens
<1>1. TInv /\ SInv => SchemaWhole
  BY DEF SInv, VersionTells, PhaseTells, SchemaWhole, Upgrading
<1>2. Init => TInv /\ SInv
  BY TypeInit, SchemaInit
<1>3. TInv /\ SInv /\ OneOpens /\ [Next]_vars => (TInv /\ SInv)'
  BY TypeStep, SchemaStep
<1>4. QED
  BY <1>1, <1>2, <1>3, PTL DEF Spec, SchemaWholeIfOneOpens

------------------------------------------------------------------------------
(* What contains what *)

\* What contains an item ends with a vehicle, which contains itself only.
LEMMA Lines ==
  ASSUME NEW i \in Items
  PROVE  /\ i \in Line(i) /\ Line(i) \subseteq Items
         /\ Parent[i] = None <=> Table[i] = "vehicles"
         /\ Table[i] = "vehicles" => Line(i) = {i}
         /\ \E a \in Line(i) : Parent[a] = None
         /\ \A k \in Line(i) \ {i} : /\ Table[k] # "images" /\ Table[i] # "vehicles"
                                     /\ \E c \in Line(i) : Parent[c] = k
<1>1. \A j \in Items : Table[j] \in {"vehicles", "repairs", "images"}
  BY TableAssumption DEF Tables
<1>2. /\ \A j \in Items : Table[j] = "vehicles" => Parent[j] = None
      /\ \A j \in Items : Table[j] = "repairs" => Parent[j] \in Items /\ Table[Parent[j]] = "vehicles"
      /\ \A j \in Items : Table[j] = "images" => Parent[j] \in Items /\ Table[Parent[j]] = "repairs"
  BY ParentAssumption DEF Container
<1>3. None \notin Items
  BY ProcsAssumption
<1>4. CASE Table[i] = "vehicles"
  BY <1>2, <1>3, <1>4 DEF Line
<1>5. CASE Table[i] = "repairs"
  <2>1. Parent[i] \in Items /\ Table[Parent[i]] = "vehicles" /\ Parent[Parent[i]] = None
    BY <1>2, <1>5
  <2>2. Line(i) = {i, Parent[i]}
    BY <1>3, <2>1 DEF Line
  <2>3. QED
    BY <1>3, <1>5, <2>1, <2>2
<1>6. CASE Table[i] = "images"
  <2>1. /\ Parent[i] \in Items /\ Table[Parent[i]] = "repairs"
        /\ Parent[Parent[i]] \in Items /\ Table[Parent[Parent[i]]] = "vehicles"
        /\ Parent[Parent[Parent[i]]] = None
    BY <1>2, <1>6
  <2>2. Line(i) = {i, Parent[i], Parent[Parent[i]]}
    BY <1>3, <2>1 DEF Line
  <2>3. QED
    BY <1>3, <1>6, <2>1, <2>2
<1>7. QED
  BY <1>1, <1>4, <1>5, <1>6

\* What contains an item contains what is in it.
LEMMA ChildLines ==
  ASSUME NEW i \in Items, NEW j \in Items, Parent[j] = i
  PROVE  Line(j) = {j} \union Line(i) /\ j \notin Line(i) /\ Table[j] # "vehicles"
<1>1. Table[j] \in {"vehicles", "repairs", "images"}
  BY TableAssumption DEF Tables
<1>2. /\ \A k \in Items : Table[k] = "vehicles" => Parent[k] = None
      /\ \A k \in Items : Table[k] = "repairs" => Parent[k] \in Items /\ Table[Parent[k]] = "vehicles"
      /\ \A k \in Items : Table[k] = "images" => Parent[k] \in Items /\ Table[Parent[k]] = "repairs"
  BY ParentAssumption DEF Container
<1>3. None \notin Items
  BY ProcsAssumption
<1>4. CASE Table[j] = "repairs"
  <2>1. Table[i] = "vehicles" /\ Parent[i] = None
    BY <1>2, <1>4
  <2>2. Line(i) = {i} /\ Line(j) = {j, i}
    BY <1>3, <2>1 DEF Line
  <2>3. QED
    BY <1>4, <2>1, <2>2
<1>5. CASE Table[j] = "images"
  <2>1. Table[i] = "repairs" /\ Parent[i] \in Items /\ Table[Parent[i]] = "vehicles" /\ Parent[Parent[i]] = None
    BY <1>2, <1>5
  <2>2. Line(i) = {i, Parent[i]} /\ Line(j) = {j, i, Parent[i]}
    BY <1>3, <2>1 DEF Line
  <2>3. QED
    BY <1>5, <2>1, <2>2
<1>6. QED
  BY <1>1, <1>2, <1>3, <1>4, <1>5

\* What one flush reads together is in one container.
LEMMA SiblingLines ==
  ASSUME NEW i \in Items, NEW j \in Siblings(i)
  PROVE  j \in Items /\ Line(j) \ {j} = Line(i) \ {i}
<1>1. CASE Table[i] = "vehicles"
  BY <1>1 DEF Siblings
<1>2. CASE Table[i] # "vehicles"
  <2>1. Parent[i] \in Items /\ Parent[j] = Parent[i] /\ j \in Items
    BY <1>2, ParentAssumption DEF Siblings
  <2>2. QED
    BY <2>1, ChildLines
<1>3. QED
  BY <1>1, <1>2

------------------------------------------------------------------------------
(* What a rebuild has read *)

\* What depends on the storage alone is as it was if the storage is.
LEMMA SameFiles ==
  ASSUME UNCHANGED <<file, deleted>>
  PROVE  \A i : /\ Present(i)' <=> Present(i)
                /\ Shown(i)' <=> Shown(i)
                /\ Attached(i)' <=> Attached(i)
                /\ Wanted(i)' = Wanted(i)
                /\ Forgotten(i)' <=> Forgotten(i)
<1>1. \A i : (Present(i)' <=> Present(i)) /\ (Shown(i)' <=> Shown(i))
  BY DEF Present, Shown
<1>2. \A i : Line(i)' = Line(i)
  BY DEF Line
<1>3. \A i : Attached(i)' <=> Attached(i)
  BY <1>1, <1>2 DEF Attached
<1>4. QED
  BY <1>1, <1>3 DEF Wanted, Forgotten

\* A change of a file leaves what is not in it, and makes known or forgotten
\* what is.
LEMMA ChangedFiles ==
  ASSUME TInv, NEW i \in Items, NEW m \in 0 .. clock + 1, NEW b, NEW D, Changed(i, m, b, D),
         b => m # 0
  PROVE  /\ file'[i].at = clock + 1
         /\ \A j \in Items \ {i} : file'[j] = file[j] /\ (Shown(j)' <=> Shown(j))
         /\ \A j \in Items : i \notin Line(j) => /\ Attached(j)' <=> Attached(j)
                                                 /\ Wanted(j)' = Wanted(j)
         /\ \A j \in Items \ {i} :
              \/ /\ Attached(j)' <=> Attached(j)
                 /\ Wanted(j)' = Wanted(j)
              \/ Lost(j)'
              \/ Forgotten(j)'
<1>1. /\ file'[i] = [at |-> clock + 1, mtime |-> m]
      /\ \A j \in Items \ {i} : file'[j] = file[j] /\ (j \in deleted' <=> j \in deleted)
      /\ i \in deleted' <=> b
  BY DEF Changed, TInv, TypeOK
<1>2. \A j \in Items \ {i} : (Present(j)' <=> Present(j)) /\ (Shown(j)' <=> Shown(j))
  BY <1>1 DEF Present, Shown
<1>3. \A j \in Items : /\ Line(j)' = Line(j) /\ Line(j) \subseteq Items /\ j \in Line(j)
                       /\ Table[j] = "vehicles" => Line(j) = {j}
  BY Lines DEF Line
<1>4. ASSUME NEW j \in Items, i \notin Line(j) PROVE (Attached(j)' <=> Attached(j)) /\ Wanted(j)' = Wanted(j)
  <2>1. Attached(j)' <=> Attached(j)
    BY <1>2, <1>3, <1>4 DEF Attached
  <2>2. file'[j] = file[j]
    BY <1>1, <1>3, <1>4
  <2>3. QED
    BY <2>1, <2>2 DEF Wanted
<1>5. ASSUME NEW j \in Items \ {i}
      PROVE  \/ (Attached(j)' <=> Attached(j)) /\ Wanted(j)' = Wanted(j)
             \/ Lost(j)'
             \/ Forgotten(j)'
  <2>1. CASE i \notin Line(j)
    BY <1>4, <2>1
  <2>2. CASE i \in Line(j) /\ (Attached(j)' <=> Attached(j))
    BY <1>1, <2>2 DEF Wanted
  <2>3. CASE i \in Line(j) /\ ~Attached(j)' /\ Attached(j)
    BY <1>3, <2>3 DEF Forgotten
  <2>4. CASE i \in Line(j) /\ Attached(j)' /\ ~Attached(j)
    <3>1. \A a \in Line(j) : Shown(a)'
      BY <1>3, <2>4 DEF Attached
    <3>2. Shown(i)' /\ Shown(j)'
      BY <1>3, <2>4, <3>1
    <3>3. ~Shown(i)
      BY <1>2, <1>3, <2>4, <3>1 DEF Attached
    <3>4. Present(j)
      BY <1>2, <3>2 DEF Shown
    <3>5. j \in Revealed(i)
      BY <2>4, <3>3, <3>4 DEF Revealed, Inside
    <3>6. ~b /\ m # 0
      BY <1>1, <3>2 DEF Shown, Present
    <3>7. QED
      BY <3>5, <3>6 DEF Changed, Lost
  <2>5. QED
    BY <2>1, <2>2, <2>3, <2>4
<1>6. QED
  BY <1>1, <1>2, <1>4, <1>5

\* A step that touches neither the storage nor the rebuild, or ends it.
LEMMA WorkUntouched ==
  ASSUME WInv, UNCHANGED <<file, deleted>>, writer' = None \/ UNCHANGED <<writer, work, left, start>>
  PROVE  WInv'
<1>1. \A i : Line(i)' = Line(i)
  BY DEF Line
<1>2. ASSUME writer' # None
      PROVE  \A i : (Ahead(i)' <=> Ahead(i)) /\ (Touched(i)' <=> Touched(i))
  BY <1>1, <1>2, SameFiles DEF Ahead, Touched
<1>3. QED
  BY <1>2, SameFiles DEF WInv

\* A change comes after the rebuild has begun.
LEMMA ChangedWork ==
  ASSUME TInv, WInv, NEW i \in Items, NEW m \in 0 .. clock + 1, NEW b, NEW D, Changed(i, m, b, D),
         b => m # 0
  PROVE  WInv'
<1>1. UNCHANGED <<writer, work, left, start>> /\ start < clock + 1 /\ left \subseteq Items
  BY DEF Changed, rebuild, TInv, TypeOK, TimesOK
<1>2. \A j \in Items : Line(j)' = Line(j) /\ Line(j) \subseteq Items
  BY Lines DEF Line
<1>3. \A j \in Items : i \in Line(j) => Touched(j)'
  BY <1>1, <1>2, ChangedFiles DEF Touched
<1>4. ASSUME NEW j \in Items, i \notin Line(j)
      PROVE  /\ Wanted(j)' = Wanted(j) /\ (Attached(j)' <=> Attached(j))
             /\ Ahead(j)' <=> Ahead(j)
             /\ Touched(j)' <=> Touched(j)
  <2>1. Wanted(j)' = Wanted(j) /\ (Attached(j)' <=> Attached(j))
    BY <1>4, ChangedFiles
  <2>2. \A a \in Line(j) : file'[a] = file[a]
    BY <1>2, <1>4, ChangedFiles
  <2>3. QED
    BY <1>1, <1>2, <2>1, <2>2 DEF Ahead, Touched
<1>5. QED
  BY <1>1, <1>3, <1>4 DEF WInv

\* The rebuild begins with all vehicles, and goes from what contains to what is
\* contained.
LEMMA BeginWork ==
  ASSUME TInv, NEW p \in Procs, BeginRebuild(p)
  PROVE  /\ \A i \in Items : Attached(i) => Ahead(i)'
         /\ UNCHANGED <<file, deleted>>
         /\ WInv'
<1>1. /\ UNCHANGED <<file, deleted>> /\ work' = NoRows
      /\ left' = {i \in Items : Parent[i] = None /\ Present(i)}
  BY DEF BeginRebuild, files
<1>2. ASSUME NEW i \in Items, Attached(i) PROVE Ahead(i)'
  <2>1. PICK a \in Line(i) : Parent[a] = None
    BY Lines
  <2>2. a \in Items /\ Present(a)
    BY <1>2, Lines DEF Attached, Shown
  <2>3. Line(i)' = Line(i) /\ Attached(i)'
    BY <1>1, <1>2, SameFiles DEF Line
  <2>4. QED
    BY <1>1, <2>1, <2>2, <2>3 DEF Ahead
<1>3. \A i \in Items : work'[i] = Wanted(i)' \/ Ahead(i)'
  BY <1>1, <1>2, SameFiles DEF NoRows, Wanted
<1>4. \A i \in left' : i \in Items /\ Table[i] = "vehicles"
  BY <1>1, Lines
<1>5. QED
  BY <1>1, <1>2, <1>3, <1>4 DEF WInv

\* A file is read: what is in it is still to be read, if it has a row at all.
LEMMA ReadWork ==
  ASSUME TInv, NEW p \in Procs, NEW k \in Items, ReadItem(p, k)
  PROVE  /\ UNCHANGED <<file, deleted, writer, start>> /\ writer = p /\ k \in left
         /\ \A i \in Items \ {k} : work'[i] = work[i] /\ (Ahead(i) => Ahead(i)')
         /\ k \in deleted => ~Attached(k) /\ work' = work /\ left' = left \ {k}
         /\ k \notin deleted => /\ Shown(k) /\ work'[k] = file[k].at
                                /\ left' = (left \ {k}) \union {j \in Children(k) : Present(j)}
<1>1. /\ UNCHANGED <<file, deleted, writer, start>> /\ writer = p /\ k \in left /\ Present(k)
      /\ k \in deleted => work' = work /\ left' = left \ {k}
      /\ k \notin deleted => /\ work' = [work EXCEPT ![k] = file[k].at]
                             /\ left' = (left \ {k}) \union {j \in Children(k) : Present(j)}
  BY DEF ReadItem, files
<1>2. k \in deleted => ~Shown(k)
  BY DEF Shown
<1>3. k \in Line(k)
  BY Lines
<1>4. ASSUME NEW i \in Items \ {k}, Ahead(i) PROVE Ahead(i)'
  <2>1. Line(i)' = Line(i) /\ Attached(i) /\ Attached(i)'
    BY <1>1, <1>4, SameFiles DEF Line, Ahead
  <2>2. PICK a \in Line(i) : a \in left
    BY <1>4 DEF Ahead
  <2>3. CASE a # k
    BY <1>1, <2>1, <2>2, <2>3 DEF Ahead
  <2>4. CASE a = k
    <3>1. k \notin deleted
      BY <1>2, <2>1, <2>2, <2>4 DEF Attached
    <3>2. PICK c \in Line(i) : Parent[c] = k
      BY <2>2, <2>4, Lines
    <3>3. c \in Items /\ Present(c)
      BY <2>1, Lines DEF Attached, Shown
    <3>4. c \in left'
      BY <1>1, <3>1, <3>2, <3>3 DEF Children
    <3>5. QED
      BY <2>1, <3>4 DEF Ahead
  <2>5. QED
    BY <2>3, <2>4
<1>5. /\ \A i \in Items \ {k} : work'[i] = work[i]
      /\ k \notin deleted => work'[k] = file[k].at /\ Shown(k)
  BY <1>1 DEF TInv, TypeOK, Shown
<1>6. QED
  BY <1>1, <1>2, <1>3, <1>4, <1>5 DEF Attached

\* What a rebuild reads is as it should be, or has changed.
LEMMA ReadWorkStep ==
  ASSUME TInv, WInv, NEW p \in Procs, NEW k \in Items, ReadItem(p, k)
  PROVE  WInv'
<1>1. /\ UNCHANGED <<file, deleted, writer, start>> /\ writer = p /\ k \in left /\ p # None
      /\ \A i \in Items \ {k} : work'[i] = work[i] /\ (Ahead(i) => Ahead(i)')
      /\ k \in deleted => ~Attached(k) /\ work' = work /\ left' = left \ {k}
      /\ k \notin deleted => /\ Shown(k) /\ work'[k] = file[k].at
                             /\ left' = (left \ {k}) \union {j \in Children(k) : Present(j)}
  BY ReadWork, ProcsAssumption
<1>2. \A i : /\ Line(i)' = Line(i)
             /\ Touched(i)' <=> Touched(i)
  BY <1>1 DEF Line, Touched
<1>3. left \subseteq Items
  BY DEF TInv, TypeOK
<1>4. Table[k] = "vehicles" /\ k \notin deleted => Attached(k)
  BY <1>1, Lines DEF Attached
<1>5. k \notin deleted => Attached(k) \/ Touched(k)
  BY <1>1, <1>4 DEF WInv
<1>6. ASSUME NEW i \in Items PROVE work'[i] = Wanted(i)' \/ Ahead(i)' \/ Touched(i)'
  <2>0. work[i] = Wanted(i) \/ Ahead(i) \/ Touched(i)
    BY <1>1 DEF WInv
  <2>1. CASE i # k
    BY <1>1, <1>2, <2>0, <2>1, SameFiles
  <2>2. CASE i = k /\ k \in deleted
    BY <1>1, <1>2, <2>0, <2>2, SameFiles DEF Ahead
  <2>3. CASE i = k /\ k \notin deleted
    BY <1>1, <1>2, <1>5, <2>3, SameFiles DEF Wanted
  <2>4. QED
    BY <2>1, <2>2, <2>3
<1>7. ASSUME NEW i \in left' PROVE Table[i] = "vehicles" \/ Attached(i)' \/ Touched(i)'
  <2>1. CASE i \in left
    BY <1>1, <1>2, <1>3, <2>1, SameFiles DEF WInv
  <2>2. CASE i \notin left
    <3>1. k \notin deleted /\ i \in Items /\ Parent[i] = k /\ Present(i)
      BY <1>1, <1>7, <2>2 DEF Children
    <3>2. Line(i) = {i} \union Line(k) /\ Table[i] # "vehicles"
      BY <3>1, ChildLines
    <3>3. Shown(i)
      BY <3>1, <3>2 DEF TInv, TypeOK, Shown
    <3>4. CASE Attached(k)
      BY <1>1, <3>2, <3>3, <3>4, SameFiles DEF Attached
    <3>5. CASE Touched(k)
      BY <1>2, <3>2, <3>5 DEF Touched
    <3>6. QED
      BY <1>5, <3>1, <3>4, <3>5
  <2>3. QED
    BY <2>1, <2>2
<1>8. QED
  BY <1>6, <1>7 DEF WInv

\* Every step.
LEMMA WorkStep == TInv /\ WInv /\ [Next]_vars => WInv'
<1> SUFFICES ASSUME TInv, WInv, [Next]_vars PROVE WInv'
  OBVIOUS
<1>1. ASSUME NEW i \in Items, Change(i) \/ CopyIn(i) \/ Retire(i) \/ RemoveFile(i) PROVE WInv'
  <2>1. PICK m \in 0 .. clock + 1, b \in BOOLEAN, D \in SUBSET [of : SUBSET Items, row : 0 .. clock + 1] :
          Changed(i, m, b, D) /\ (b => m # 0)
    BY <1>1, ChangesAre
  <2>2. QED
    BY <2>1, ChangedWork
<1>2. ASSUME NEW p \in Procs, Open(p) \/ ProcStep(p) \/ Crash(p) PROVE WInv'
  <2>1. CASE Open(p) \/ DropTable(p) \/ CreateTable(p) \/ StampVersion(p)
    BY <2>1, WorkUntouched DEF Open, DropTable, CreateTable, StampVersion, files, rebuild
  <2>2. CASE Commit(p)
    BY <2>2, WorkUntouched DEF Commit, EndRebuild, files
  <2>3. ASSUME Stopped(p) PROVE WInv'
    BY <2>3, WorkUntouched DEF Stopped, EndRebuild, rebuild, files
  <2>4. QED
    BY <1>2, <2>1, <2>2, <2>3, BeginWork, ReadWorkStep
       DEF ProcStep, RebuildFails, LockTimeout, TableGone, Crash
<1>3. CASE Exit
  BY <1>3, WorkUntouched DEF Exit, Stopped, EndRebuild, rebuild, files
<1>4. ASSUME NEW f \in Flushers,
             \/ Flush(f)
             \/ \E i \in Items : Take(f, i) \/ ReadFile(f, i)
             \/ ProjectRow(f)
             \/ Raise(f)
      PROVE  WInv'
  BY <1>4, WorkUntouched DEF Flush, Take, ReadFile, ProjectRow, Raise, rebuild, files
<1>5. CASE CheckDrift \/ CheckMarker \/ Observe \/ Settle \/ UNCHANGED vars
  BY <1>5, WorkUntouched DEF CheckDrift, CheckMarker, Observe, Settle, vars, rebuild, files
<1>6. QED
  BY <1>1, <1>2, <1>3, <1>4, <1>5 DEF Next

\* No rebuild runs at first.
LEMMA WorkInit == Init => WInv
BY DEF Init, WInv

------------------------------------------------------------------------------
(* Rows that are out of date *)

\* What is queued, lost or forgotten is accounted for, whatever was read of it.
Settled(i) == Queued(i) \/ Lost(i) \/ Forgotten(i)

\* A step that leaves the storage, the rebuild and what flushes have read: it
\* may only take from what is due what it loses, and lose nothing.
LEMMA RowsUntouched ==
  ASSUME RInv, UNCHANGED <<file, deleted, look>>,
         writer' = None \/ UNCHANGED <<writer, work, left>>,
         \A i : (Queued(i) => Queued(i)') /\ (Lost(i) => Lost(i)'),
         BuiltBeforeWatched',
         (version = "new" /\ built # 0)' => version = "new" /\ built # 0 /\ rows' = rows
  PROVE  RInv'
<1>1. \A i : /\ Line(i)' = Line(i)
             /\ Wanted(i)' = Wanted(i)
             /\ Forgotten(i)' <=> Forgotten(i)
             /\ Attached(i)' <=> Attached(i)
  BY SameFiles DEF Line
<1>2. \A i : Due(i) => Due(i)'
  BY <1>1 DEF Due
<1>3. \A i : Covered(i) => Covered(i)'
  BY <1>1, <1>2 DEF Covered
<1>4. WorkCovered'
  BY <1>1, <1>3 DEF RInv, WorkCovered, Ahead
<1>5. LookIsFresh'
  BY <1>1 DEF RInv, LookIsFresh
<1>6. StaleAccounted'
  BY <1>1, <1>3 DEF RInv, StaleAccounted, Stale
<1>7. QED
  BY <1>4, <1>5, <1>6 DEF RInv

\* A change of a file is due, or lost when nobody watches.
LEMMA ChangedRows ==
  ASSUME TInv, RInv, NEW i \in Items, NEW m \in 0 .. clock + 1, NEW b, NEW D, Changed(i, m, b, D),
         b => m # 0
  PROVE  RInv'
<1>1. UNCHANGED <<version, built, rows, pc, writer, work, left, batch, look>>
  BY DEF Changed, meta, rebuild
<1>2. /\ pending \subseteq pending' /\ \A j \in Items \ {i} : j \in missed => j \in missed'
      /\ IF Watched THEN i \in pending' ELSE i \in missed'
  BY DEF Changed
<1>3. /\ Settled(i)'
      /\ \A j : Queued(j) => Queued(j)'
      /\ \A j \in Items \ {i} : Lost(j) => Lost(j)'
  BY <1>1, <1>2 DEF Settled, Queued, Lost
<1>4. ASSUME NEW j \in Items, ~Settled(j)'
      PROVE  /\ j # i
             /\ Wanted(j)' = Wanted(j) /\ (Attached(j)' <=> Attached(j))
             /\ Forgotten(j)' <=> Forgotten(j)
             /\ Lost(j) => Lost(j)'
  <2>1. j # i
    BY <1>3, <1>4
  <2>2. Wanted(j)' = Wanted(j) /\ (Attached(j)' <=> Attached(j))
    BY <1>4, <2>1, ChangedFiles DEF Settled
  <2>3. QED
    BY <1>3, <2>1, <2>2 DEF Forgotten
<1>5. ASSUME NEW j \in Items, ~Settled(j)' PROVE Covered(j) => Covered(j)'
  <2>1. CASE Due(j)
    BY <1>1, <1>3, <1>4, <1>5, <2>1 DEF Due, Covered
  <2>2. CASE Lost(j) \/ Forgotten(j)
    BY <1>4, <1>5, <2>2 DEF Covered
  <2>3. QED
    BY <2>1, <2>2 DEF Covered
<1>6. \A j : Settled(j)' => Covered(j)'
  BY DEF Settled, Covered, Due
<1>7. WorkCovered'
  <2>1. ASSUME NEW j \in Items, ~Settled(j)', Ahead(j) PROVE Ahead(j)'
    <3>1. Line(j)' = Line(j) /\ (Attached(j)' <=> Attached(j))
      BY <1>4, <2>1 DEF Line
    <3>2. QED
      BY <1>1, <2>1, <3>1 DEF Ahead
  <2>2. QED
    BY <1>1, <1>4, <1>5, <1>6, <2>1 DEF RInv, WorkCovered
<1>8. LookIsFresh'
  <2>1. \A f \in Flushers : \A d \in look[f].found : d[1] \in Items
    BY DEF TInv, TypeOK
  <2>2. ASSUME NEW f \in Flushers, NEW d \in look[f].found PROVE d[2] = Wanted(d[1])' \/ Settled(d[1])'
    BY <1>3, <1>4, <2>1 DEF RInv, LookIsFresh, Settled
  <2>3. QED
    BY <1>1, <2>2 DEF LookIsFresh, Settled
<1>9. BuiltBeforeWatched'
  BY <1>1 DEF RInv, BuiltBeforeWatched
<1>10. StaleAccounted'
  BY <1>1, <1>4, <1>5, <1>6 DEF RInv, StaleAccounted, Stale
<1>11. QED
  BY <1>7, <1>8, <1>9, <1>10 DEF RInv

\* A process that stops: what was due is lost, and a rebuild is rolled back.
LEMMA StoppedRows ==
  ASSUME TInv, RInv, NEW p \in Procs, Stopped(p)
  PROVE  RInv'
<1>1. UNCHANGED <<file, deleted, version, built, rows>> /\ (writer' = None \/ UNCHANGED <<writer, work, left>>)
  BY DEF Stopped, files, meta, EndRebuild, rebuild
<1>2. pc'[p] = "down" /\ \A q \in Procs \ {p} : pc'[q] = pc[q]
  BY DEF Stopped, Goto, TInv, TypeOK
<1>3. BuiltBeforeWatched'
  BY <1>1, <1>2, ProcsAssumption DEF RInv, BuiltBeforeWatched, Procs
<1>4. CASE p = Tool
  <2>1. UNCHANGED <<pending, batch, look, missed>>
    BY <1>4 DEF Stopped, watcher
  <2>2. \A i : (Queued(i) => Queued(i)') /\ (Lost(i) => Lost(i)')
    BY <2>1 DEF Queued, Lost
  <2>3. QED
    BY <1>1, <1>3, <2>1, <2>2, RowsUntouched
<1>5. CASE p # Tool
  <2>1. look' = AllIdle /\ missed' = {i \in Items : i \in missed \/ Queued(i) \/ InHand(i)}
    BY <1>5 DEF Stopped
  <2>2. \A i : /\ Line(i)' = Line(i)
               /\ Wanted(i)' = Wanted(i)
               /\ Forgotten(i)' <=> Forgotten(i)
               /\ Attached(i)' <=> Attached(i)
    BY <1>1, SameFiles DEF Line
  <2>3. \A i \in Items : Covered(i) => Covered(i)'
    BY <2>1, <2>2 DEF Covered, Due, Lost, InHand
  <2>4. WorkCovered'
    BY <1>1, <2>2, <2>3 DEF RInv, WorkCovered, Ahead
  <2>5. LookIsFresh'
    BY <2>1 DEF LookIsFresh, AllIdle, NoLook
  <2>6. StaleAccounted'
    BY <1>1, <2>2, <2>3 DEF RInv, StaleAccounted, Stale
  <2>7. QED
    BY <1>3, <2>4, <2>5, <2>6 DEF RInv
<1>6. QED
  BY <1>4, <1>5

\* Opening: a database that is upgraded has not been built.
LEMMA OpeningRows ==
  ASSUME TInv, SInv, OneOpens, RInv, NEW p \in Procs,
         Open(p) \/ DropTable(p) \/ CreateTable(p) \/ StampVersion(p)
  PROVE  RInv'
<1>1. UNCHANGED <<file, deleted, writer, work, left, pending, batch, look, missed>>
  BY DEF Open, DropTable, CreateTable, StampVersion, files, rebuild, watcher
<1>2. /\ pc[p] \notin {"observe", "up"} /\ pc'[p] \notin {"observe", "up"}
      /\ \A q \in Procs \ {p} : pc'[q] = pc[q]
  BY DEF Open, DropTable, CreateTable, StampVersion, Goto, Opened, TInv, TypeOK
<1>3. BuiltBeforeWatched'
  <2>1. CASE ~DropTable(p)
    BY <1>2, <2>1 DEF RInv, BuiltBeforeWatched, Open, CreateTable, StampVersion, meta, Procs
  <2>2. CASE DropTable(p)
    BY <1>2, <2>2, OthersDown DEF BuiltBeforeWatched, DropTable, Upgrading, Procs
  <2>3. QED
    BY <2>1, <2>2
<1>4. (version = "new" /\ built # 0)' => version = "new" /\ built # 0 /\ rows' = rows
  <2>1. CASE Open(p) \/ CreateTable(p)
    BY <2>1 DEF Open, CreateTable, meta
  <2>2. CASE DropTable(p)
    BY <2>2 DEF SInv, PhaseTells, Dropping, DropTable
  <2>3. CASE StampVersion(p)
    BY <2>3 DEF SInv, PhaseTells, VersionTells, StampVersion
  <2>4. QED
    BY <2>1, <2>2, <2>3
<1>5. \A i : (Queued(i) => Queued(i)') /\ (Lost(i) => Lost(i)')
  BY <1>1 DEF Queued, Lost
<1>6. QED
  BY <1>1, <1>3, <1>4, <1>5, RowsUntouched

\* The rebuild.
LEMMA RebuildRows ==
  ASSUME TInv, WInv, RInv, NEW p \in Procs,
         BeginRebuild(p) \/ (\E i \in Items : ReadItem(p, i)) \/ Commit(p)
  PROVE  RInv'
<1>1. UNCHANGED <<file, deleted, clock, pending, batch, look>>
  BY DEF BeginRebuild, ReadItem, Commit, files, watcher
<1>2. \A i : /\ Wanted(i)' = Wanted(i)
             /\ Attached(i)' <=> Attached(i)
             /\ Forgotten(i)' <=> Forgotten(i)
             /\ Line(i)' = Line(i)
  BY <1>1, SameFiles DEF Line
<1>3. \A i : (Queued(i)' <=> Queued(i)) /\ (Due(i)' <=> Due(i))
  BY <1>1, <1>2 DEF Queued, Due
<1>4. CASE BeginRebuild(p) \/ \E i \in Items : ReadItem(p, i)
  <2>1. UNCHANGED <<version, built, rows, missed>>
    BY <1>4 DEF BeginRebuild, ReadItem, meta, watcher
  <2>2. \A i : (Lost(i)' <=> Lost(i)) /\ (Covered(i)' <=> Covered(i))
    BY <1>2, <1>3, <2>1 DEF Lost, Covered
  <2>3. BuiltBeforeWatched'
    BY <1>4, <2>1 DEF RInv, BuiltBeforeWatched, BeginRebuild, ReadItem, Goto, TInv, TypeOK, Procs
  <2>4. LookIsFresh' /\ StaleAccounted'
    BY <1>1, <1>2, <1>3, <2>1, <2>2 DEF RInv, LookIsFresh, StaleAccounted, Stale
  <2>5. WorkCovered'
    <3>1. CASE BeginRebuild(p)
      <4>1. \A i \in Items : Attached(i) => Ahead(i)'
        BY <3>1, BeginWork
      <4>2. work' = NoRows
        BY <3>1 DEF BeginRebuild
      <4>3. QED
        BY <1>2, <4>1, <4>2 DEF WorkCovered, NoRows, Wanted
    <3>2. ASSUME NEW k \in Items, ReadItem(p, k) PROVE WorkCovered'
      <4>1. /\ writer = p /\ k \in left /\ p # None
            /\ \A i \in Items \ {k} : work'[i] = work[i] /\ (Ahead(i) => Ahead(i)')
            /\ k \in deleted => ~Attached(k) /\ work' = work
            /\ k \notin deleted => Shown(k) /\ work'[k] = file[k].at
        BY <3>2, ReadWork, ProcsAssumption
      <4>2. \A i \in Items : work[i] = Wanted(i) \/ Ahead(i) \/ Covered(i)
        BY <4>1 DEF RInv, WorkCovered
      <4>3. k \in deleted => work'[k] = Wanted(k) \/ Covered(k)
        BY <4>1, <4>2 DEF Ahead
      <4>4. k \notin deleted => work'[k] = Wanted(k) \/ Forgotten(k)
        <5>1. Table[k] = "vehicles" /\ Shown(k) => Attached(k)
          BY Lines DEF Attached
        <5>2. QED
          BY <4>1, <5>1 DEF Wanted, Forgotten
      <4>5. \A i \in Items : work'[i] = Wanted(i) \/ Ahead(i)' \/ Covered(i)
        BY <4>1, <4>2, <4>3, <4>4 DEF Covered
      <4>6. QED
        BY <1>2, <2>2, <4>5 DEF WorkCovered
    <3>3. QED
      BY <1>4, <3>1, <3>2
  <2>6. QED
    BY <2>3, <2>4, <2>5 DEF RInv
<1>5. CASE Commit(p)
  <2>1. /\ writer' = None /\ writer = p /\ p # None /\ left = {} /\ rows' = work /\ built' = clock
        /\ missed' = {i \in missed : Touched(i) \/ \E f \in Flushers : i \in Handled(f)}
        /\ pc[p] = "reading" /\ pc' = [pc EXCEPT ![p] = IF p = Server THEN "observe" ELSE "down"]
    BY <1>5, ProcsAssumption DEF Commit, EndRebuild, Goto, TInv, TypeOK, Touched
  <2>2. WorkCovered'
    BY <2>1 DEF WorkCovered
  <2>3. BuiltBeforeWatched'
    BY <1>1, <2>1, ProcsAssumption DEF RInv, BuiltBeforeWatched, TInv, TypeOK, TimesOK, Procs
  <2>4. ASSUME NEW i \in Items, rows'[i] # Wanted(i) PROVE Covered(i)'
    <3>1. Touched(i) /\ Covered(i)
      <4>1. ~Ahead(i)
        BY <2>1 DEF Ahead
      <4>2. QED
        BY <2>1, <2>4, <4>1 DEF WInv, RInv, WorkCovered
    <3>2. Lost(i) => Lost(i)'
      BY <2>1, <3>1 DEF Lost
    <3>3. QED
      BY <1>2, <1>3, <3>1, <3>2 DEF Covered
  <2>5. StaleAccounted'
    BY <1>2, <2>4 DEF StaleAccounted, Stale
  <2>6. LookIsFresh'
    <3>1. ASSUME NEW f \in Flushers, NEW d \in look[f].found, Lost(d[1]) PROVE Lost(d[1])'
      BY <2>1, <3>1 DEF Lost, Handled
    <3>2. QED
      BY <1>1, <1>2, <1>3, <3>1 DEF RInv, LookIsFresh
  <2>7. QED
    BY <2>2, <2>3, <2>5, <2>6 DEF RInv
<1>6. QED
  BY <1>4, <1>5

\* The server reads its stamp and starts to watch.
LEMMA StartingRows ==
  ASSUME TInv, RInv, CheckDrift \/ CheckMarker \/ Observe
  PROVE  RInv'
<1>1. UNCHANGED <<file, deleted, version, built, rows, writer, work, left, pending, batch, look, missed>>
  BY DEF CheckDrift, CheckMarker, Observe, files, meta, rebuild, watcher
<1>2. BuiltBeforeWatched'
  BY <1>1 DEF RInv, BuiltBeforeWatched, CheckDrift, CheckMarker, Observe, Goto, TInv, TypeOK, Procs
<1>3. \A i : (Queued(i) => Queued(i)') /\ (Lost(i) => Lost(i)')
  BY <1>1 DEF Queued, Lost
<1>4. QED
  BY <1>1, <1>2, <1>3, RowsUntouched

\* A step of a flush leaves the storage, the rebuild and the schema.
LEMMA FlushLeaves ==
  ASSUME NEW f \in Flushers,
         \/ Flush(f)
         \/ \E i \in Items : Take(f, i) \/ ReadFile(f, i)
         \/ ProjectRow(f)
         \/ Raise(f)
  PROVE  UNCHANGED <<file, deleted, version, built, pc, writer, work, left, began, owed>>
BY DEF Flush, Take, ReadFile, ProjectRow, Raise, files, meta, rebuild

\* It keeps what is accounted for, but for rows that it writes.
LEMMA FlushRows ==
  ASSUME RInv, UNCHANGED <<file, deleted, version, built, pc, writer, work, left>>,
         \A i \in Items : Covered(i) => Covered(i)' \/ (writer = None /\ rows'[i] = Wanted(i)),
         \A i \in Items : rows'[i] = rows[i] \/ rows'[i] = Wanted(i) \/ Covered(i)',
         LookIsFresh'
  PROVE  RInv'
<1>1. \A i : /\ Line(i)' = Line(i)
             /\ Wanted(i)' = Wanted(i)
             /\ Attached(i)' <=> Attached(i)
  BY SameFiles DEF Line
<1>2. WorkCovered'
  BY <1>1 DEF RInv, WorkCovered, Ahead
<1>3. BuiltBeforeWatched'
  BY DEF RInv, BuiltBeforeWatched
<1>4. StaleAccounted'
  BY <1>1 DEF RInv, StaleAccounted, Stale
<1>5. QED
  BY <1>2, <1>3, <1>4 DEF RInv

\* The keys go to a thread, and a key is taken up: if nothing is read for it, it
\* is one that nobody looks at.
LEMMA TakeRows ==
  ASSUME TInv, RInv, NEW f \in Flushers, OneEach', Flush(f) \/ \E i \in Items : Take(f, i)
  PROVE  RInv'
<1>1. UNCHANGED <<file, deleted, version, built, pc, writer, work, left>> /\ rows' = rows /\ missed' = missed
  BY FlushLeaves DEF Flush, Take
<1>2. \A i : Wanted(i)' = Wanted(i) /\ (Forgotten(i)' <=> Forgotten(i)) /\ (Lost(i)' <=> Lost(i))
  BY <1>1, SameFiles DEF Lost
<1>3. CASE Flush(f)
  <2>1. batch[f] = {} /\ batch' = [batch EXCEPT ![f] = pending] /\ look' = look
    BY <1>3 DEF Flush
  <2>2. \A i : Queued(i) => Queued(i)'
    BY <2>1 DEF Queued, TInv, TypeOK
  <2>3. QED
    BY <1>1, <1>2, <2>1, <2>2, RowsUntouched DEF RInv, BuiltBeforeWatched
<1>4. ASSUME NEW i \in Items, Take(f, i) PROVE RInv'
  <2>1. /\ look[f] = NoLook /\ pending' = pending
        /\ batch' = [batch EXCEPT ![f] = @ \ {i}]
        /\ \A g \in Flushers \ {f} : look'[g] = look[g]
        /\ look'[f] = IF GivesUp(i) THEN NoLook
                                    ELSE [key |-> i, toread |-> Siblings(i), found |-> {}]
    BY <1>4 DEF Take, TInv, TypeOK
  <2>2. \A j : j # i => (Queued(j) => Queued(j)')
    BY <2>1 DEF Queued, TInv, TypeOK
  <2>3. GivesUp(i) => Forgotten(i)
    BY Lines DEF GivesUp, Forgotten, Attached, Shown
  <2>4. ~GivesUp(i) => Due(i)'
    BY <2>1, SiblingsAre DEF Due
  <2>5. \A j \in Items : Due(j) => Due(j)' \/ j = i
    <3>1. \A j \in Items : look[f].key # j
      BY <2>1, ProcsAssumption DEF NoLook
    <3>2. QED
      BY <1>2, <2>1, <2>2, <3>1 DEF Due
  <2>6. \A j \in Items : Covered(j) => Covered(j)'
    BY <1>2, <2>3, <2>4, <2>5 DEF Covered
  <2>7. LookIsFresh'
    <3>1. look'[f].found = {}
      BY <2>1 DEF NoLook
    <3>2. ASSUME NEW g \in Flushers \ {f}, NEW d \in look[g].found
          PROVE  d[2] = Wanted(d[1])' \/ Queued(d[1])' \/ Lost(d[1])' \/ Forgotten(d[1])'
      <4>1. d[2] = Wanted(d[1]) \/ Queued(d[1]) \/ Lost(d[1]) \/ Forgotten(d[1])
        BY DEF RInv, LookIsFresh
      <4>2. CASE d[1] # i
        BY <1>2, <2>2, <4>1, <4>2
      <4>3. CASE d[1] = i /\ GivesUp(i)
        BY <1>2, <2>3, <4>3
      <4>4. CASE d[1] = i /\ ~GivesUp(i)
        <5>1. i \in Siblings(i)
          BY SiblingsAre
        <5>2. i \in Handled(f)' /\ i \in Handled(g)'
          BY <2>1, <4>4, <5>1 DEF Handled
        <5>3. QED
          BY <5>2 DEF OneEach
      <4>5. QED
        BY <4>2, <4>3, <4>4
    <3>3. QED
      BY <2>1, <3>1, <3>2 DEF LookIsFresh
  <2>8. QED
    BY <1>1, <2>6, <2>7, FlushRows
<1>5. QED
  BY <1>3, <1>4

\* A file is read: what is found is what its row should be, or nobody looks at it.
LEMMA ReadRows ==
  ASSUME TInv, RInv, NEW f \in Flushers, NEW j \in Items, ReadFile(f, j)
  PROVE  RInv'
<1> DEFINE R == look[f].toread \ {j}
           F == look[f].found \union FoundIn(j)
<1>1. UNCHANGED <<file, deleted, version, built, pc, writer, work, left>> /\ UNCHANGED <<rows, missed, pending, batch>>
  BY FlushLeaves DEF ReadFile
<1>2. \A i : /\ Wanted(i)' = Wanted(i) /\ (Forgotten(i)' <=> Forgotten(i))
             /\ (Lost(i)' <=> Lost(i)) /\ (Queued(i)' <=> Queued(i))
  BY <1>1, SameFiles DEF Lost, Queued
<1>3. /\ \A g \in Flushers \ {f} : look'[g] = look[g]
      /\ look'[f] = IF R = {} /\ F = {} THEN NoLook ELSE [key |-> look[f].key, toread |-> R, found |-> F]
  <2>1. look[f] # NoLook /\ Handle(f, R, F)
    BY DEF ReadFile, NoLook
  <2>2. R \subseteq Items /\ F \subseteq Items \X (0 .. clock)
    BY FoundTypes DEF TInv, TypeOK
  <2> HIDE DEF R, F
  <2>3. QED
    BY <2>1, <2>2, HandleTypes
<1>4. /\ \A d \in FoundIn(j) : d[1] = j /\ (d[2] = Wanted(j) \/ Forgotten(j))
      /\ <<j, Wanted(j)>> \in FoundIn(j) \/ Forgotten(j)
  BY DEF FoundIn, Forgotten, Wanted, Attached, Shown, Line
<1> HIDE DEF F
<1>5. look[f].found \subseteq F /\ FoundIn(j) \subseteq F /\ F \subseteq look[f].found \union FoundIn(j)
  BY DEF F
<1>6. \A i \in Items : Covered(i) => Covered(i)'
  <2>1. ASSUME NEW i \in Items, look[f].key = i, i \in look[f].toread \/ <<i, Wanted(i)>> \in look[f].found
        PROVE  Due(i)' \/ Forgotten(i)
    <3>1. i \in R \/ <<i, Wanted(i)>> \in F \/ Forgotten(i)
      BY <1>4, <1>5, <2>1
    <3>2. QED
      BY <1>2, <1>3, <2>1, <3>1 DEF Due
  <2>2. \A i \in Items : Due(i) => Due(i)' \/ Forgotten(i)
    BY <1>2, <1>3, <2>1 DEF Due
  <2>3. QED
    BY <1>2, <2>2 DEF Covered
<1>7. LookIsFresh'
  <2>1. \A d \in look'[f].found : d \in F
    BY <1>3 DEF NoLook
  <2>2. \A d \in F : d[2] = Wanted(d[1]) \/ Queued(d[1]) \/ Lost(d[1]) \/ Forgotten(d[1])
    BY <1>4, <1>5 DEF RInv, LookIsFresh
  <2>3. QED
    BY <1>2, <1>3, <2>1, <2>2 DEF RInv, LookIsFresh
<1>8. QED
  BY <1>1, <1>6, <1>7, FlushRows

\* A row is written: as it should be, or its item is accounted for.
LEMMA ProjectRows ==
  ASSUME TInv, RInv, NEW f \in Flushers, ProjectRow(f)
  PROVE  RInv'
<1>1. /\ UNCHANGED <<file, deleted, version, built, pc, writer, work, left>> /\ UNCHANGED <<missed, pending, batch>>
      /\ writer = None
  BY FlushLeaves DEF ProjectRow
<1>2. \A i : /\ Wanted(i)' = Wanted(i) /\ (Forgotten(i)' <=> Forgotten(i))
             /\ (Lost(i)' <=> Lost(i)) /\ (Queued(i)' <=> Queued(i))
  BY <1>1, SameFiles DEF Lost, Queued
<1>3. PICK d \in look[f].found :
        /\ rows' = [rows EXCEPT ![d[1]] = d[2]]
        /\ Handle(f, look[f].toread, look[f].found \ {d})
  BY DEF ProjectRow
<1>4. d \in Items \X (0 .. clock) /\ d[1] \in Items /\ d = <<d[1], d[2]>>
  BY DEF TInv, TypeOK
<1>5. rows'[d[1]] = d[2] /\ \A i \in Items \ {d[1]} : rows'[i] = rows[i]
  BY <1>3, <1>4 DEF TInv, TypeOK
<1> DEFINE R == look[f].toread
           F == look[f].found \ {d}
<1>6. /\ \A g \in Flushers \ {f} : look'[g] = look[g]
      /\ look'[f] = IF R = {} /\ F = {} THEN NoLook ELSE [key |-> look[f].key, toread |-> R, found |-> F]
  <2>1. look[f] # NoLook
    BY DEF NoLook
  <2>2. R \subseteq Items /\ F \subseteq Items \X (0 .. clock)
    BY DEF TInv, TypeOK
  <2>3. Handle(f, R, F)
    BY <1>3
  <2> HIDE DEF R, F
  <2>4. QED
    BY <2>1, <2>2, <2>3, HandleTypes
<1>7. \A i \in Items \ {d[1]} : Due(i) => Due(i)'
  <2>1. ASSUME NEW i \in Items \ {d[1]}, look[f].key = i, i \in R \/ <<i, Wanted(i)>> \in look[f].found
        PROVE  Due(i)'
    <3>1. i \in R \/ <<i, Wanted(i)>> \in F
      BY <1>4, <2>1
    <3>2. QED
      BY <1>2, <1>6, <2>1, <3>1 DEF Due
  <2>2. QED
    BY <1>2, <1>6, <2>1 DEF Due
<1>8. d[2] = Wanted(d[1]) \/ Queued(d[1]) \/ Lost(d[1]) \/ Forgotten(d[1])
  BY DEF RInv, LookIsFresh
<1>9. \A i \in Items : /\ Covered(i) => Covered(i)' \/ (writer = None /\ rows'[i] = Wanted(i))
                       /\ rows'[i] = rows[i] \/ rows'[i] = Wanted(i) \/ Covered(i)'
  <2>1. d[2] = Wanted(d[1]) \/ Covered(d[1])'
    BY <1>2, <1>8 DEF Covered, Due
  <2>2. QED
    BY <1>1, <1>2, <1>5, <1>7, <2>1 DEF Covered
<1>10. LookIsFresh'
  <2>1. \A e \in look'[f].found : e \in look[f].found
    BY <1>6 DEF NoLook
  <2>2. QED
    BY <1>2, <1>6, <2>1 DEF RInv, LookIsFresh
<1>11. QED
  BY <1>1, <1>9, <1>10, FlushRows

\* Handling raises: the key is lost.
LEMMA RaiseRows ==
  ASSUME TInv, RInv, NEW f \in Flushers, Raise(f)
  PROVE  RInv'
<1>1. UNCHANGED <<file, deleted, version, built, pc, writer, work, left>> /\ UNCHANGED <<rows, pending, batch>>
  BY FlushLeaves DEF Raise
<1>2. /\ missed' = missed \union {look[f].key}
      /\ look'[f] = NoLook /\ \A g \in Flushers \ {f} : look'[g] = look[g]
  BY DEF Raise, TInv, TypeOK
<1>3. \A i : /\ Wanted(i)' = Wanted(i) /\ (Forgotten(i)' <=> Forgotten(i))
             /\ (Lost(i) => Lost(i)') /\ (Queued(i)' <=> Queued(i))
  BY <1>1, <1>2, SameFiles DEF Lost, Queued
<1>4. \A i \in Items : Covered(i) => Covered(i)'
  BY <1>2, <1>3 DEF Covered, Due, Lost
<1>5. LookIsFresh'
  BY <1>2, <1>3 DEF RInv, LookIsFresh, NoLook
<1>6. QED
  BY <1>1, <1>4, <1>5, FlushRows

\* A request writes the row of what has not changed since.
LEMMA SettleRows ==
  ASSUME TInv, RInv, Timely, Settle
  PROVE  RInv'
<1>1. PICK debt \in owed : \E D \in SUBSET debt.of :
        /\ D # {} => writer = None
        /\ rows' = [i \in Items |-> IF i \in D THEN debt.row ELSE rows[i]]
  BY DEF Settle
<1>2. PICK D \in SUBSET debt.of :
        /\ D # {} => writer = None
        /\ rows' = [i \in Items |-> IF i \in D THEN debt.row ELSE rows[i]]
  BY <1>1
<1>3. /\ UNCHANGED <<file, deleted, version, built, pc, writer, work, left>>
      /\ UNCHANGED <<pending, batch, look, missed>>
  BY DEF Settle, files, meta, rebuild
<1>4. \A i : /\ Wanted(i)' = Wanted(i) /\ (Forgotten(i)' <=> Forgotten(i))
             /\ (Lost(i)' <=> Lost(i)) /\ (Queued(i)' <=> Queued(i))
  BY <1>3, SameFiles DEF Lost, Queued
<1>5. \A i \in Items : Covered(i) => Covered(i)'
  BY <1>3, <1>4 DEF Covered, Due
<1>6. \A i \in Items : rows'[i] = rows[i] \/ rows'[i] = Wanted(i)
  BY <1>2 DEF Timely
<1>7. LookIsFresh'
  BY <1>3, <1>4 DEF RInv, LookIsFresh
<1>8. QED
  BY <1>3, <1>5, <1>6, <1>7, FlushRows

\* Every step, as long as all go in turn.
LEMMA RowsStep == TInv /\ SInv /\ WInv /\ RInv /\ InTurn /\ InTurn' /\ [Next]_vars => RInv'
<1> SUFFICES ASSUME TInv, SInv, WInv, RInv, InTurn, InTurn', [Next]_vars PROVE RInv'
  OBVIOUS
<1>0. OneOpens /\ Timely /\ OneEach'
  BY DEF InTurn
<1>1. ASSUME NEW i \in Items, Change(i) \/ CopyIn(i) \/ Retire(i) \/ RemoveFile(i) PROVE RInv'
  <2>1. PICK m \in 0 .. clock + 1, b \in BOOLEAN, D \in SUBSET [of : SUBSET Items, row : 0 .. clock + 1] :
          Changed(i, m, b, D) /\ (b => m # 0)
    BY <1>1, ChangesAre
  <2>2. QED
    BY <2>1, ChangedRows
<1>2. ASSUME NEW p \in Procs, Open(p) \/ ProcStep(p) \/ Crash(p) PROVE RInv'
  BY <1>0, <1>2, OpeningRows, RebuildRows, StoppedRows
     DEF ProcStep, RebuildFails, LockTimeout, TableGone, Crash
<1>3. CASE Exit
  BY <1>3, StoppedRows DEF Exit, Procs
<1>4. ASSUME NEW f \in Flushers,
             \/ Flush(f)
             \/ \E i \in Items : Take(f, i) \/ ReadFile(f, i)
             \/ ProjectRow(f)
             \/ Raise(f)
      PROVE  RInv'
  BY <1>0, <1>4, TakeRows, ReadRows, ProjectRows, RaiseRows
<1>5. CASE UNCHANGED vars
  <2>1. UNCHANGED <<file, deleted, version, built, rows, pc, writer, work, left, pending, batch, look, missed>>
    BY <1>5 DEF vars, files, meta, rebuild, watcher
  <2>2. BuiltBeforeWatched' /\ \A i : (Queued(i) => Queued(i)') /\ (Lost(i) => Lost(i)')
    BY <2>1 DEF RInv, BuiltBeforeWatched, Queued, Lost
  <2>3. QED
    BY <2>1, <2>2, RowsUntouched
<1>6. QED
  BY <1>0, <1>1, <1>2, <1>3, <1>4, <1>5, StartingRows, SettleRows DEF Next

\* At first nothing is watched or read, and no index of the new version is there.
LEMMA RowsInit == Init => RInv
BY DEF Init, RInv, WorkCovered, LookIsFresh, AllIdle, NoLook, BuiltBeforeWatched, StaleAccounted, Procs

\* When the server is up and its flushes idle, whatever is out of date in the
\* index was lost in a way that the code knows: nobody watched, a crash or an
\* exception dropped the key, what contains it came later, or it is a repair or
\* an image of which a part of the path is gone.
THEOREM StaleIsExplained == Spec => StaleExplainedIfInTurn
<1>1. TInv /\ SInv /\ RInv => StaleExplained
  <2>1. SUFFICES ASSUME TInv, SInv, RInv, Idle, NEW i \in Items, Stale(i)
                 PROVE  i \in missed \/ (~Attached(i) /\ Table[i] # "vehicles")
    BY DEF StaleExplained
  <2>2. version = "new" /\ built # 0
    BY <2>1 DEF Idle, Watched, SInv, PhaseTells, RInv, BuiltBeforeWatched, Procs, Upgrading
  <2>3. ~Due(i)
    BY <2>1, ProcsAssumption DEF Idle, Due, Queued, NoBatch, AllIdle, NoLook
  <2>4. QED
    BY <2>1, <2>2, <2>3 DEF RInv, StaleAccounted, Covered, Lost, Forgotten
<1>2. Init => TInv /\ SInv /\ WInv /\ RInv
  BY TypeInit, SchemaInit, WorkInit, RowsInit
<1>3. TInv /\ SInv /\ WInv /\ RInv /\ InTurn /\ InTurn' /\ [Next]_vars => (TInv /\ SInv /\ WInv /\ RInv)'
  BY TypeStep, SchemaStep, WorkStep, RowsStep DEF InTurn
<1>4. QED
  BY <1>1, <1>2, <1>3, PTL DEF Spec, StaleExplainedIfInTurn

------------------------------------------------------------------------------
(* Drift *)

\* One process at a time opens alone.
LEMMA ApartOpens == Apart => OneOpens
BY DEF Apart, OneOpens, Opening, Procs

\* A step that touches neither the storage nor rows nor the last rebuild, and
\* leaves what flushes read and requests owe, or ends it.
LEMMA DriftUntouched ==
  ASSUME DInv, UNCHANGED <<file, deleted, began>>,
         look' \in {look, AllIdle}, owed' \subseteq owed,
         (version = "new" /\ built # 0)' => version = "new" /\ built # 0 /\ rows' = rows
  PROVE  DInv'
<1>1. \A i : /\ Shown(i)' <=> Shown(i)
             /\ Wanted(i)' = Wanted(i)
             /\ Line(i)' = Line(i)
             /\ SinceBegan(i)' <=> SinceBegan(i)
  BY SameFiles DEF Line, SinceBegan
<1>2. \A f \in Flushers : look'[f] = look[f] \/ (look'[f].toread = {} /\ look'[f].found = {})
  <2>1. \A f \in Flushers : AllIdle[f].toread = {} /\ AllIdle[f].found = {}
    BY DEF AllIdle, NoLook
  <2>2. QED
    BY <2>1
<1>3. /\ \A f \in Flushers : \A j \in look'[f].toread :
           (\A a \in Line(j) \ {j} : Shown(a)) \/ SinceBegan(j)
      /\ \A f \in Flushers : \A d \in look'[f].found : d[2] = Wanted(d[1]) \/ SinceBegan(d[1])
  BY <1>2 DEF DInv
<1>4. \A debt \in owed' : \A i \in debt.of : debt.row = Wanted(i) \/ SinceBegan(i)
  BY DEF DInv
<1>5. (version = "new" /\ built # 0)' => \A i \in Items : Stale(i)' => SinceBegan(i)
  BY <1>1 DEF DInv, Stale
<1>6. QED
  BY <1>1, <1>3, <1>4, <1>5 DEF DInv

\* A change comes after the last rebuild began.
LEMMA ChangedDrift ==
  ASSUME TInv, DInv, NEW i \in Items, NEW m \in 0 .. clock + 1, NEW b, NEW D, Changed(i, m, b, D),
         b => m # 0, \A debt \in D : debt.of \subseteq Inside(i)
  PROVE  DInv'
<1>1. /\ UNCHANGED <<version, built, rows, began, look>> /\ owed' = owed \union D
      /\ began < clock + 1
  BY DEF Changed, meta, TInv, TimesOK
<1>2. \A j \in Items : Line(j)' = Line(j) /\ Line(j) \subseteq Items
  BY Lines DEF Line
<1>3. \A j \in Items : i \in Line(j) => SinceBegan(j)'
  BY <1>1, <1>2, ChangedFiles DEF SinceBegan
<1>4. ASSUME NEW j \in Items, i \notin Line(j)
      PROVE  /\ Wanted(j)' = Wanted(j)
             /\ \A a \in Line(j) : Shown(a)' <=> Shown(a)
             /\ SinceBegan(j)' <=> SinceBegan(j)
  <2>1. \A a \in Line(j) : file'[a] = file[a] /\ (Shown(a)' <=> Shown(a))
    BY <1>2, <1>4, ChangedFiles
  <2>2. QED
    BY <1>1, <1>2, <1>4, <2>1, ChangedFiles DEF SinceBegan
<1>5. /\ \A f \in Flushers : look[f].toread \subseteq Items
      /\ \A f \in Flushers : \A d \in look[f].found : d[1] \in Items
      /\ \A debt \in owed : debt.of \subseteq Items
  BY DEF TInv, TypeOK
<1>6. ASSUME NEW f \in Flushers, NEW j \in look[f].toread
      PROVE  (\A a \in Line(j)' \ {j} : Shown(a)') \/ SinceBegan(j)'
  BY <1>2, <1>3, <1>4, <1>5 DEF DInv
<1>7. ASSUME NEW f \in Flushers, NEW d \in look[f].found
      PROVE  d[2] = Wanted(d[1])' \/ SinceBegan(d[1])'
  BY <1>3, <1>4, <1>5 DEF DInv
<1>8. ASSUME NEW debt \in owed', NEW j \in debt.of PROVE debt.row = Wanted(j)' \/ SinceBegan(j)'
  <2>1. CASE debt \in owed
    BY <1>3, <1>4, <1>5, <2>1 DEF DInv
  <2>2. CASE debt \in D
    BY <1>3, <2>2 DEF Inside
  <2>3. QED
    BY <1>1, <2>1, <2>2
<1>9. version = "new" /\ built # 0 => \A j \in Items : Stale(j)' => SinceBegan(j)'
  BY <1>1, <1>3, <1>4 DEF DInv, Stale
<1>10. QED
  BY <1>1, <1>6, <1>7, <1>8, <1>9 DEF DInv

\* A rebuild commits when no flush runs, and has read all that did not change
\* while it ran.
LEMMA CommitDrift ==
  ASSUME TInv, WInv, Apart, NEW p \in Procs, Commit(p)
  PROVE  DInv'
<1>1. /\ writer = p /\ p # None /\ left = {} /\ rows' = work /\ began' = start
      /\ UNCHANGED <<file, deleted, look, owed>>
      /\ pc[p] = "reading"
  BY ProcsAssumption DEF Commit, files, TInv, TypeOK
<1>2. ~Watched
  BY <1>1, ProcsAssumption DEF Watched, Apart, Procs
<1>3. owed = {} /\ look = AllIdle
  BY <1>2 DEF TInv, TypeOK
<1>4. \A i : Line(i)' = Line(i)
  BY DEF Line
<1>5. \A i \in Items : rows'[i] = Wanted(i) \/ SinceBegan(i)'
  BY <1>1, <1>4 DEF WInv, Ahead, Touched, SinceBegan
<1>6. \A i \in Items : Stale(i)' => SinceBegan(i)'
  BY <1>1, <1>5, SameFiles DEF Stale
<1>7. QED
  BY <1>1, <1>3, <1>6 DEF DInv, AllIdle, NoLook

\* A flush reads what is there, and writes it.
LEMMA FlushDrift ==
  ASSUME TInv, DInv, NEW f \in Flushers,
         \/ Flush(f)
         \/ \E i \in Items : Take(f, i) \/ ReadFile(f, i)
         \/ ProjectRow(f)
         \/ Raise(f)
  PROVE  DInv'
<1>1. UNCHANGED <<file, deleted, version, built, began, owed>>
  BY FlushLeaves
<1>2. \A i : /\ Shown(i)' <=> Shown(i)
             /\ Wanted(i)' = Wanted(i)
             /\ Line(i)' = Line(i)
             /\ SinceBegan(i)' <=> SinceBegan(i)
  BY <1>1, SameFiles DEF Line, SinceBegan
<1>3. SUFFICES
        /\ \A g \in Flushers : \A j \in look'[g].toread :
             (\A a \in Line(j) \ {j} : Shown(a)) \/ SinceBegan(j)
        /\ \A g \in Flushers : \A d \in look'[g].found : d[2] = Wanted(d[1]) \/ SinceBegan(d[1])
        /\ \A i \in Items : rows'[i] = rows[i] \/ rows'[i] = Wanted(i) \/ SinceBegan(i)
  BY <1>1, <1>2 DEF DInv, Stale
<1>4. CASE Flush(f)
  BY <1>4 DEF Flush, DInv
<1>5. ASSUME NEW i \in Items, Take(f, i)
      PROVE  /\ \A g \in Flushers : \A j \in look'[g].toread :
                  (\A a \in Line(j) \ {j} : Shown(a)) \/ SinceBegan(j)
             /\ \A g \in Flushers : \A d \in look'[g].found : d[2] = Wanted(d[1]) \/ SinceBegan(d[1])
             /\ rows' = rows
  <2>1. /\ rows' = rows
        /\ \A g \in Flushers \ {f} : look'[g] = look[g]
        /\ look'[f] = IF GivesUp(i) THEN NoLook
                                    ELSE [key |-> i, toread |-> Siblings(i), found |-> {}]
    BY <1>5 DEF Take, TInv, TypeOK
  <2>2. look'[f].found = {} /\ (GivesUp(i) => look'[f].toread = {})
    BY <2>1 DEF NoLook
  <2>3. ASSUME ~GivesUp(i), NEW j \in look'[f].toread PROVE \A a \in Line(j) \ {j} : Shown(a)
    <3>1. \A a \in Line(i) \ {i} : Shown(a)
      BY <2>3 DEF GivesUp
    <3>2. j \in Siblings(i)
      BY <2>1, <2>3
    <3>3. QED
      BY <3>1, <3>2, SiblingLines
  <2>4. QED
    BY <2>1, <2>2, <2>3 DEF DInv
<1>6. ASSUME NEW j \in Items, ReadFile(f, j)
      PROVE  /\ \A g \in Flushers : \A k \in look'[g].toread :
                  (\A a \in Line(k) \ {k} : Shown(a)) \/ SinceBegan(k)
             /\ \A g \in Flushers : \A d \in look'[g].found : d[2] = Wanted(d[1]) \/ SinceBegan(d[1])
             /\ rows' = rows
  <2> DEFINE R == look[f].toread \ {j}
             F == look[f].found \union FoundIn(j)
  <2>1. look[f] # NoLook /\ Handle(f, R, F) /\ rows' = rows /\ j \in look[f].toread
    BY <1>6 DEF ReadFile, NoLook
  <2>2. R \subseteq Items /\ F \subseteq Items \X (0 .. clock)
    BY FoundTypes DEF TInv, TypeOK
  <2>3. R \subseteq look[f].toread /\ \A d \in F : d \in look[f].found \/ d \in FoundIn(j)
    OBVIOUS
  <2> HIDE DEF R, F
  <2>4. /\ \A g \in Flushers \ {f} : look'[g] = look[g]
        /\ look'[f] = IF R = {} /\ F = {} THEN NoLook ELSE [key |-> look[f].key, toread |-> R, found |-> F]
    BY <2>1, <2>2, HandleTypes
  <2>5. \A d \in FoundIn(j) : d[1] = j /\ (d[2] = Wanted(j) \/ SinceBegan(j))
    <3>1. Table[j] # "vehicles" /\ Present(j) => Shown(j)
      BY DEF TInv, TypeOK, Shown
    <3>2. (\A a \in Line(j) \ {j} : Shown(a)) \/ SinceBegan(j)
      BY <2>1 DEF DInv
    <3>3. Table[j] # "vehicles" /\ Present(j) => Wanted(j) = file[j].at \/ SinceBegan(j)
      BY <3>1, <3>2 DEF Wanted, Attached
    <3>4. QED
      BY <3>3 DEF FoundIn
  <2>6. look'[f].toread \subseteq R /\ look'[f].found \subseteq F
    BY <2>4 DEF NoLook
  <2>7. QED
    BY <2>1, <2>3, <2>4, <2>5, <2>6 DEF DInv
<1>7. CASE ProjectRow(f)
  <2>1. PICK d \in look[f].found :
          /\ rows' = [rows EXCEPT ![d[1]] = d[2]]
          /\ Handle(f, look[f].toread, look[f].found \ {d})
    BY <1>7 DEF ProjectRow
  <2>2. d[1] \in Items /\ (d[2] = Wanted(d[1]) \/ SinceBegan(d[1]))
    BY DEF TInv, TypeOK, DInv
  <2>3. \A i \in Items : rows'[i] = rows[i] \/ rows'[i] = Wanted(i) \/ SinceBegan(i)
    BY <2>1, <2>2 DEF TInv, TypeOK
  <2>4. \A g \in Flushers : /\ look'[g].toread \subseteq look[g].toread
                            /\ look'[g].found \subseteq look[g].found
    <3>1. NoLook.toread = {} /\ NoLook.found = {}
      BY DEF NoLook
    <3>2. \A g \in Flushers \ {f} : look'[g] = look[g]
      BY <2>1 DEF Handle
    <3>3. \/ look'[f] = NoLook
          \/ look'[f].toread = look[f].toread /\ look'[f].found = look[f].found \ {d}
      BY <2>1 DEF Handle, TInv, TypeOK
    <3>4. QED
      BY <3>1, <3>2, <3>3
  <2>5. QED
    BY <2>3, <2>4 DEF DInv
<1>8. CASE Raise(f)
  <2>1. rows' = rows /\ \A g \in Flushers : look'[g] = look[g] \/ (look'[g].toread = {} /\ look'[g].found = {})
    BY <1>8 DEF Raise, NoLook, TInv, TypeOK
  <2>2. QED
    BY <2>1 DEF DInv
<1>9. QED
  BY <1>4, <1>5, <1>6, <1>7, <1>8

\* A request writes what its change asked for.
LEMMA SettleDrift == TInv /\ DInv /\ Settle => DInv'
<1> SUFFICES ASSUME TInv, DInv, Settle PROVE DInv'
  OBVIOUS
<1>1. PICK debt \in owed : \E D \in SUBSET debt.of :
        /\ rows' = [i \in Items |-> IF i \in D THEN debt.row ELSE rows[i]]
        /\ owed' = owed \ {debt}
  BY DEF Settle
<1>2. PICK D \in SUBSET debt.of :
        /\ rows' = [i \in Items |-> IF i \in D THEN debt.row ELSE rows[i]]
        /\ owed' = owed \ {debt}
  BY <1>1
<1>3. UNCHANGED <<file, deleted, version, built, began, look>>
  BY DEF Settle, files, meta
<1>4. \A i : /\ Shown(i)' <=> Shown(i)
             /\ Wanted(i)' = Wanted(i)
             /\ Line(i)' = Line(i)
             /\ SinceBegan(i)' <=> SinceBegan(i)
  BY <1>3, SameFiles DEF Line, SinceBegan
<1>5. \A i \in Items : rows'[i] = rows[i] \/ rows'[i] = Wanted(i) \/ SinceBegan(i)
  BY <1>2 DEF DInv
<1>6. QED
  BY <1>2, <1>3, <1>4, <1>5 DEF DInv, Stale

\* Every step, as long as one process runs at a time.
LEMMA DriftStep == TInv /\ SInv /\ WInv /\ DInv /\ Apart /\ [Next]_vars => DInv'
<1> SUFFICES ASSUME TInv, SInv, WInv, DInv, Apart, [Next]_vars PROVE DInv'
  OBVIOUS
<1>1. ASSUME NEW i \in Items, Change(i) \/ CopyIn(i) \/ Retire(i) \/ RemoveFile(i) PROVE DInv'
  <2>1. PICK m \in 0 .. clock + 1, b \in BOOLEAN, D \in SUBSET [of : SUBSET Items, row : 0 .. clock + 1] :
          Changed(i, m, b, D) /\ (b => m # 0) /\ \A debt \in D : debt.of \subseteq Inside(i)
    BY <1>1, ChangesAre
  <2>2. QED
    BY <2>1, ChangedDrift
<1>2. ASSUME NEW p \in Procs, Open(p) \/ ProcStep(p) \/ Crash(p) PROVE DInv'
  <2>1. CASE Open(p) \/ CreateTable(p) \/ BeginRebuild(p) \/ (\E i \in Items : ReadItem(p, i))
    BY <2>1, DriftUntouched DEF Open, CreateTable, BeginRebuild, ReadItem, files, meta, watcher
  <2>2. CASE StampVersion(p)
    <3>1. built' = 0
      BY <2>2 DEF SInv, PhaseTells, VersionTells, StampVersion
    <3>2. QED
      BY <2>2, <3>1, DriftUntouched DEF StampVersion, files, watcher
  <2>3. CASE DropTable(p)
    <3>1. version' \in {"old", "none"}
      BY <2>3 DEF SInv, PhaseTells, Dropping, DropTable
    <3>2. QED
      BY <2>3, <3>1, DriftUntouched DEF DropTable, files, watcher
  <2>4. ASSUME Stopped(p) PROVE DInv'
    BY <2>4, DriftUntouched DEF Stopped, files, meta, watcher
  <2>5. QED
    BY <1>2, <2>1, <2>2, <2>3, <2>4, CommitDrift
       DEF ProcStep, RebuildFails, LockTimeout, TableGone, Crash
<1>3. CASE Exit
  BY <1>3, DriftUntouched DEF Exit, Stopped, files, meta, watcher
<1>4. CASE CheckDrift \/ CheckMarker \/ Observe \/ UNCHANGED vars
  BY <1>4, DriftUntouched DEF CheckDrift, CheckMarker, Observe, vars, files, meta, watcher
<1>5. QED
  BY <1>1, <1>2, <1>3, <1>4, FlushDrift, SettleDrift DEF Next

\* An index of the new version is yet to come.
LEMMA DriftInit == Init => DInv
BY DEF Init, DInv, AllIdle, NoLook

\* A start that finds no drift misses only what came with an old mtime, is gone
\* with what contained it, or changed while the last rebuild ran, if reindex
\* never runs beside a server.
THEOREM DriftIsNoticed == Spec => DriftNoticedIfApart
<1> DEFINE IInv == TInv /\ SInv /\ WInv /\ DInv
<1>1. IInv => DriftNoticed
  <2>1. SUFFICES ASSUME IInv, pc[Server] = "drift", ~IsDrifted,
                        NEW i \in Items, Table[i] # "images", Stale(i)
                 PROVE  \E a \in Line(i) : \/ file[a].mtime < file[a].at
                                           \/ file[a].at \in began + 1 .. built
    BY DEF DriftNoticed
  <2>2. version = "new" /\ built # 0
    BY <2>1 DEF SInv, PhaseTells, IsDrifted, Procs, Upgrading
  <2>3. PICK a \in Line(i) : file[a].at > began
    BY <2>1, <2>2 DEF DInv, SinceBegan
  <2>4. a \in Items /\ Table[a] # "images"
    BY <2>1, Lines
  <2>5. ~(file[a].mtime > built)
    BY <2>1, <2>4 DEF IsDrifted
  <2>6. file[a].at \in Nat /\ file[a].mtime \in Nat /\ file[a].mtime <= file[a].at
    BY <2>1, <2>4 DEF TInv, TypeOK, TimesOK
  <2>7. began \in Nat /\ built \in Nat
    BY <2>1 DEF TInv, TypeOK, TimesOK
  <2>8. file[a].mtime < file[a].at \/ file[a].at \in began + 1 .. built
    BY <2>3, <2>5, <2>6, <2>7
  <2>9. QED
    BY <2>8
<1>2. Init => IInv
  BY TypeInit, SchemaInit, WorkInit, DriftInit
<1>3. IInv /\ Apart /\ [Next]_vars => IInv'
  BY TypeStep, SchemaStep, WorkStep, DriftStep, ApartOpens
<1>4. QED
  BY <1>1, <1>2, <1>3, PTL DEF Spec, DriftNoticedIfApart
==============================================================================
