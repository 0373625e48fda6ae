---------------------------- MODULE VehicleProofs ----------------------------
(***************************************************************************)
(* Proofs about VehicleLifecycle, for any number of vehicles, workers and  *)
(* flush threads.                                                          *)
(***************************************************************************)
EXTENDS VehicleLifecycle, TLAPS

\* The records that requests are made of stay well formed, and the guard
\* changes only where a request stands.
LEMMA RequestRecords ==
  /\ Blank \in Idents
  /\ Idle \in Requests
  /\ \A r \in Requests :
       /\ Passed(r) \in Requests
       /\ Passed(r).v = r.v /\ Passed(r).ids = r.ids /\ Passed(r).op = r.op
       /\ Passed(r).pc \in {"list", "write"}
<1>1. Blank \in Idents
  BY DEF Blank, Idents
<1>2. Idle \in Requests
  BY <1>1 DEF Idle, Requests, Fields
<1>3. ASSUME NEW r \in Requests
      PROVE  /\ Passed(r) \in Requests
             /\ Passed(r).v = r.v /\ Passed(r).ids = r.ids /\ Passed(r).op = r.op
             /\ Passed(r).pc \in {"list", "write"}
  BY DEF Passed, Requests, Fields
<1>4. QED
  BY <1>1, <1>2, <1>3

\* The part of TypeOK that a step of request w can disturb.
ReqOK(r) == r \in Requests /\ (r.pc # "idle" => r.v \in Vehicles)

\* Every request step keeps the request records well formed.
LEMMA RequestStepTypes ==
  ASSUME TypeOK, NEW w \in Workers, RequestStep(w)
  PROVE  TypeOK'
<1> USE RequestRecords
<1>0. /\ req[w] \in Requests
      /\ req[w].pc # "idle" => req[w].v \in Vehicles
      /\ Idle.pc = "idle"
  BY DEF TypeOK, Idle
<1> DEFINE Others == /\ UNCHANGED <<files, rows, minted, cleaner, watcher, crashes>>
                     /\ \E r : req' = [req EXCEPT ![w] = r] /\ ReqOK(r)
<1>1. Others => TypeOK'
  BY DEF TypeOK, ReqOK, files, cleaner, watcher
<1>2. CASE CheckExists(w)
  <2>1. ReqOK([req[w] EXCEPT !.pc = "list"]) /\ ReqOK(Idle)
    BY <1>0, <1>2 DEF CheckExists, ReqOK, Requests
  <2>2. QED
    BY <1>1, <1>2, <2>1 DEF CheckExists
<1>3. CASE SkipField(w) \/ EndOfList(w)
  <2>1. ReqOK(Passed(req[w]))
    BY <1>0, <1>3 DEF SkipField, EndOfList, ReqOK
  <2>2. QED
    BY <1>1, <1>3, <2>1 DEF SkipField, EndOfList
<1>4. CASE ListKeys(w)
  <2>1. ReqOK([req[w] EXCEPT !.pc = "read", !.left = {v \in Vehicles : status[v] # "absent"}])
    BY <1>0, <1>4 DEF ListKeys, ReqOK, Requests
  <2>2. QED
    BY <1>1, <1>4, <2>1 DEF ListKeys
<1>5. CASE ReadSidecar(w)
  <2>1. PICK k \in req[w].left : req' = [req EXCEPT ![w] = Examined(req[w], k)]
    BY <1>5 DEF ReadSidecar
  <2>2. ReqOK(Passed(req[w])) /\ ReqOK(Idle) /\ ReqOK([req[w] EXCEPT !.left = @ \ {k}])
    BY <1>0, <1>5 DEF ReadSidecar, ReqOK, Requests
  <2>3. ReqOK(Examined(req[w], k))
    BY <2>2 DEF Examined
  <2>4. QED
    BY <1>1, <1>5, <2>1, <2>3 DEF ReadSidecar
<1>6. CASE SidecarVanished(w)
  BY <1>0, <1>1, <1>6 DEF SidecarVanished, ReqOK
<1>7. CASE Write(w)
  <2>1. ReqOK([req[w] EXCEPT !.pc = "index"])
    BY <1>0, <1>7 DEF Write, ReqOK, Requests
  <2>2. req' = [req EXCEPT ![w] = [req[w] EXCEPT !.pc = "index"]]
    BY <1>7 DEF Write
  <2>3. req[w].v \in Vehicles /\ req[w].ids \in Idents
    BY <1>0, <1>7 DEF Write, Requests
  <2>4. QED
    BY <1>7, <2>1, <2>2, <2>3 DEF Write, TypeOK, ReqOK, W!Report, cleaner
<1>8. CASE Index(w)
  <2>1. req[w].v \in Vehicles /\ req[w].ids \in Idents
    BY <1>0, <1>8 DEF Index, Requests
  <2>2. rows' \in [Vehicles -> Idents]
    BY <1>8, <2>1 DEF Index, Remove, Upsert, TypeOK
  <2>3. QED
    BY <1>0, <1>8, <2>2 DEF Index, TypeOK, files, cleaner, watcher
<1>9. QED
  BY <1>2, <1>3, <1>4, <1>5, <1>6, <1>7, <1>8 DEF RequestStep

\* So does every new request.
LEMMA NewRequestTypes ==
  ASSUME TypeOK, NEW w \in Workers, NewRequest(w)
  PROVE  TypeOK'
<1> USE RequestRecords, ChoicesAssumption
<1>1. ASSUME NEW v \in Vehicles, NEW i \in Choices[v], Create(w, v, i) PROVE TypeOK'
  <2>1. ReqOK([Idle EXCEPT !.op = "create", !.v = v, !.ids = i, !.pc = "list"])
    BY DEF ReqOK, Requests, Idle
  <2>2. QED
    BY <1>1, <2>1 DEF Create, TypeOK, ReqOK, files, cleaner, watcher
<1>2. ASSUME NEW v \in Vehicles, NEW i \in Choices[v], Update(w, v, i) PROVE TypeOK'
  <2>1. ReqOK([Idle EXCEPT !.op = "update", !.v = v, !.ids = i, !.pc = "exists"])
    BY DEF ReqOK, Requests, Idle
  <2>2. QED
    BY <1>2, <2>1 DEF Update, TypeOK, ReqOK, files, cleaner, watcher
<1>3. ASSUME NEW v \in Vehicles, SoftDelete(w, v) PROVE TypeOK'
  <2>1. ReqOK([Idle EXCEPT !.op = "delete", !.v = v, !.ids = ident[v], !.pc = "exists"])
    BY DEF ReqOK, Requests, Idle, TypeOK
  <2>2. QED
    BY <1>3, <2>1 DEF SoftDelete, TypeOK, ReqOK, files, cleaner, watcher
<1>4. QED
  BY <1>1, <1>2, <1>3 DEF NewRequest

\* And so do cleanup and the passing of time.
LEMMA CleanupTypes ==
  ASSUME TypeOK,
         CleanupStart \/ CleanupStep \/ \E v \in Vehicles : RetentionElapses(v)
  PROVE  TypeOK'
<1> USE RequestRecords
<1>1. CASE CleanupStart
  BY <1>1 DEF CleanupStart, PurgeExpired, TypeOK, files, watcher
<1>2. ASSUME NEW v \in Vehicles, HardDelete(v) PROVE TypeOK'
  BY <1>2 DEF HardDelete, TypeOK, W!Report
<1>3. CASE RemovePurged
  BY <1>3 DEF RemovePurged, Remove, TypeOK, files, watcher
<1>4. ASSUME NEW v \in Vehicles, RetentionElapses(v) PROVE TypeOK'
  BY <1>4 DEF RetentionElapses, TypeOK, cleaner, watcher
<1>5. QED
  BY <1>1, <1>2, <1>3, <1>4 DEF CleanupStep

\* And so does every step of a flush thread.
LEMMA FlushTypes ==
  ASSUME TypeOK, NEW f \in Flushers, FlushStep(f)
  PROVE  TypeOK'
<1> USE RequestRecords
<1> DEFINE Looks == [key : Vehicles \union {None},
                     plan : {"none", "read", "upsert", "remove"}, ids : Idents]
<1>0. /\ look \in [Flushers -> Looks] /\ look[f] \in Looks
      /\ NoLook \in Looks /\ NoLook.plan = "none"
      /\ batch \in [Flushers -> SUBSET Vehicles]
      /\ look[f].plan # "none" => look[f].key \in batch[f]
  BY DEF TypeOK, NoLook
<1>1. CASE FlushTake(f)
  BY <1>1 DEF FlushTake, TypeOK, W!Take, files, cleaner
<1>2. ASSUME NEW k \in Vehicles, Probe(f, k) PROVE TypeOK'
  <2>1. PICK l \in Looks : look' = [look EXCEPT ![f] = l] /\ l.key = k
    <3> DEFINE l == [key |-> k, ids |-> Blank,
                     plan |-> IF status[k] = "absent" THEN "remove" ELSE "read"]
    <3>1. l \in Looks /\ l.key = k
      OBVIOUS
    <3>2. look' = [look EXCEPT ![f] = l]
      BY <1>2 DEF Probe
    <3>3. QED
      BY <3>1, <3>2
  <2>2. QED
    BY <1>0, <1>2, <2>1 DEF Probe, TypeOK, files, cleaner
<1>3. CASE Read(f)
  <2>1. PICK l \in Looks : look' = [look EXCEPT ![f] = l] /\ l.key = look[f].key
    <3>1. look[f].key \in Vehicles
      BY <1>0, <1>3 DEF Read
    <3>2. ident[look[f].key] \in Idents
      BY <3>1 DEF TypeOK
    <3> DEFINE l == IF Live(look[f].key)
                      THEN [look[f] EXCEPT !.plan = "upsert", !.ids = ident[look[f].key]]
                      ELSE [look[f] EXCEPT !.plan = "remove"]
    <3>3. l \in Looks /\ l.key = look[f].key
      BY <1>0, <3>2
    <3>4. look' = [look EXCEPT ![f] = l]
      BY <1>3 DEF Read
    <3>5. QED
      BY <3>3, <3>4
  <2>2. QED
    BY <1>0, <1>3, <2>1 DEF Read, TypeOK, files, cleaner
<1>4. CASE ReadVanished(f)
  BY <1>0, <1>4 DEF ReadVanished, TypeOK, W!Handle, files, cleaner
<1>5. CASE Apply(f)
  <2>1. look[f].key \in Vehicles /\ look[f].ids \in Idents
    BY <1>0, <1>5 DEF Apply
  <2>2. rows' \in [Vehicles -> Idents]
    BY <1>5, <2>1 DEF Apply, Remove, Upsert, TypeOK
  <2>3. QED
    BY <1>0, <1>5, <2>2 DEF Apply, TypeOK, W!Handle, files, cleaner
<1>6. QED
  BY <1>1, <1>2, <1>3, <1>4, <1>5 DEF FlushStep

\* Every reachable state is well formed: in particular a flush thread only
\* ever applies a key that is still in its batch.
THEOREM TypeCorrect == Spec => []TypeOK
<1>1. Init => TypeOK
  BY RequestRecords DEF Init, TypeOK, W!Init, NoLook, Idle
<1>2. TypeOK /\ [Next]_vars => TypeOK'
  <2> SUFFICES ASSUME TypeOK, [Next]_vars PROVE TypeOK'
    OBVIOUS
  <2>1. CASE Crash
    BY <2>1, RequestRecords DEF Crash, TypeOK, files, NoLook, Idle
  <2>2. CASE UNCHANGED vars
    BY <2>2 DEF vars, TypeOK
  <2>3. QED
    BY <2>1, <2>2, RequestStepTypes, NewRequestTypes, CleanupTypes, FlushTypes DEF Next
<1>3. QED
  BY <1>1, <1>2, PTL DEF Spec

------------------------------------------------------------------------------
(* Uniqueness.  A request that has searched some sidecars knows that none of *)
(* them is live under its number; it goes on knowing it for as long as no    *)
(* other request writes, and that is what NoOverlap grants.                  *)

\* No vehicle of S but v itself is live under the number i[f].
Clear(v, i, f, S) ==
  i[f] # None => \A u \in S \ {v} : Live(u) => ident[u][f] # i[f]

\* What the guard of w has established at each point.
Searched(w) ==
  LET r == req[w] IN
    /\ r.pc = "exists" => r.field = "reg"
    /\ r.pc = "read" => Clear(r.v, r.ids, r.field, Vehicles \ r.left)
    /\ (r.pc \in {"list", "read"} /\ r.field = "vin") => Clear(r.v, r.ids, "reg", Vehicles)
    /\ r.pc = "write" => \A f \in Fields : Clear(r.v, r.ids, f, Vehicles)

UInv == UniqueLive /\ \A w \in Workers : Searched(w)

\* A step that makes no vehicle live and leaves the numbers of the live ones
\* alone keeps uniqueness and everything that guards have established.
LEMMA FewerLive ==
  ASSUME UInv, \A v \in Vehicles : Live(v)' => (Live(v) /\ ident'[v] = ident[v])
  PROVE  /\ UniqueLive'
         /\ \A v, i : \A f \in Fields : \A S \in SUBSET Vehicles :
              Clear(v, i, f, S) => Clear(v, i, f, S)'
  BY DEF UInv, UniqueLive, Clear

\* So a step that changes no request either keeps the whole invariant.
LEMMA FewerLiveSameRequests ==
  ASSUME TypeOK, UInv, UNCHANGED req,
         \A v \in Vehicles : Live(v)' => (Live(v) /\ ident'[v] = ident[v])
  PROVE  UInv'
<1>1. ASSUME NEW w \in Workers PROVE Searched(w)'
  <2>1. req[w] \in Requests /\ Searched(w)
    BY DEF TypeOK, UInv
  <2>2. Vehicles \ req[w].left \in SUBSET Vehicles /\ req[w].field \in Fields
    BY <2>1 DEF Requests
  <2>3. QED
    BY <2>1, <2>2, FewerLive DEF Searched, Fields
<1>2. QED
  BY <1>1, FewerLive DEF UInv

\* When only the request of w moves, the other guards are untouched.
LEMMA OwnStep ==
  ASSUME TypeOK, UInv, NEW w \in Workers, UNCHANGED files,
         NEW r, req' = [req EXCEPT ![w] = r], Searched(w)'
  PROVE  UInv'
<1>1. ASSUME NEW u \in Workers, u # w PROVE Searched(u)'
  <2>1. req'[u] = req[u]
    BY <1>1 DEF TypeOK
  <2>2. Searched(u)
    BY DEF UInv
  <2>3. QED
    BY <2>1, <2>2 DEF Searched, Clear, Live, files
<1>2. UniqueLive'
  BY DEF UInv, UniqueLive, Live, files
<1>3. QED
  BY <1>1, <1>2 DEF UInv

\* Passing the search for one field, once no other live vehicle has the
\* number, establishes what the next point of the request needs.
LEMMA PassedSearch ==
  ASSUME TypeOK, UInv, NEW w \in Workers, UNCHANGED files,
         req[w].pc \in {"list", "read"},
         req' = [req EXCEPT ![w] = Passed(req[w])],
         Clear(req[w].v, req[w].ids, req[w].field, Vehicles)
  PROVE  UInv'
<1>1. /\ req[w] \in Requests /\ Searched(w) /\ req'[w] = Passed(req[w])
      /\ req[w].field \in Fields
  BY DEF TypeOK, UInv, Requests
<1>2. \A v, i, f : Clear(v, i, f, Vehicles) => Clear(v, i, f, Vehicles)'
  BY DEF Clear, Live, files
<1>3. CASE req[w].field = "reg"
  <2>1. Passed(req[w]).pc = "list" /\ Passed(req[w]).field = "vin"
    BY <1>1, <1>3 DEF Passed, Requests
  <2>2. QED
    BY <1>1, <1>2, <1>3, <2>1, RequestRecords, OwnStep DEF Searched
<1>4. CASE req[w].field = "vin"
  <2>1. Passed(req[w]).pc = "write"
    BY <1>1, <1>4 DEF Passed, Requests
  <2>2. Clear(req[w].v, req[w].ids, "reg", Vehicles)
    BY <1>1, <1>4 DEF Searched
  <2>3. QED
    BY <1>1, <1>2, <1>4, <2>1, <2>2, RequestRecords, OwnStep DEF Searched, Fields
<1>5. QED
  BY <1>1, <1>3, <1>4 DEF Fields

\* Every request step keeps the invariant; a write needs that no other
\* request stands between its guard and its write.
LEMMA RequestStepUnique ==
  ASSUME TypeOK, UInv, NoOverlap, NEW w \in Workers, RequestStep(w)
  PROVE  UInv'
<1>0. /\ req[w] \in Requests /\ Searched(w)
      /\ req[w].pc # "idle" => req[w].v \in Vehicles
      /\ Idle.pc = "idle" /\ Idle.field = "reg"
  BY DEF TypeOK, UInv, Idle
<1>1. CASE CheckExists(w)
  <2>1. CASE status[req[w].v] = "absent"
    <3>1. req' = [req EXCEPT ![w] = Idle]
      BY <1>1, <2>1 DEF CheckExists
    <3>2. Searched(w)'
      BY <1>0, <3>1 DEF Searched, TypeOK
    <3>3. QED
      BY <1>1, <3>1, <3>2, OwnStep DEF CheckExists
  <2>2. CASE status[req[w].v] # "absent"
    <3> DEFINE r == [req[w] EXCEPT !.pc = "list"]
    <3>1. req' = [req EXCEPT ![w] = r] /\ req'[w] = r
      BY <1>1, <2>2 DEF CheckExists, TypeOK
    <3>2. r.pc = "list" /\ r.field = "reg"
      BY <1>0, <1>1 DEF CheckExists, Searched, Requests
    <3>3. Searched(w)'
      BY <3>1, <3>2 DEF Searched
    <3>4. QED
      BY <1>1, <3>1, <3>3, OwnStep DEF CheckExists
  <2>3. QED
    BY <2>1, <2>2
<1>2. CASE SkipField(w)
  BY <1>2, PassedSearch DEF SkipField, Clear
<1>3. CASE ListKeys(w)
  <2> DEFINE r == [req[w] EXCEPT !.pc = "read", !.left = {v \in Vehicles : status[v] # "absent"}]
  <2>1. /\ req' = [req EXCEPT ![w] = r] /\ req'[w] = r
        /\ r.pc = "read" /\ r.left = {v \in Vehicles : status[v] # "absent"}
        /\ r.v = req[w].v /\ r.ids = req[w].ids /\ r.field = req[w].field
    BY <1>0, <1>3 DEF ListKeys, Requests, TypeOK
  <2>2. Searched(w)'
    BY <1>0, <1>3, <2>1 DEF ListKeys, Searched, Clear, Live, files
  <2>3. QED
    BY <1>3, <2>1, <2>2, OwnStep DEF ListKeys
<1>4. CASE ReadSidecar(w)
  <2>1. PICK k \in req[w].left : req' = [req EXCEPT ![w] = Examined(req[w], k)]
    BY <1>4 DEF ReadSidecar
  <2>2. k \in Vehicles /\ req[w].pc = "read" /\ UNCHANGED files
    BY <1>0, <1>4 DEF ReadSidecar, Requests
  <2>3. CASE Matches(req[w], k) /\ k = req[w].v
    <3>1. Clear(req[w].v, req[w].ids, req[w].field, Vehicles)
      BY <1>0, <2>2, <2>3 DEF Matches, Clear, UInv, UniqueLive, Requests
    <3>2. QED
      BY <2>1, <2>2, <2>3, <3>1, PassedSearch DEF Examined
  <2>4. CASE Matches(req[w], k) /\ k # req[w].v
    BY <1>0, <2>1, <2>2, <2>4, OwnStep DEF Examined, Searched, TypeOK
  <2>5. CASE ~Matches(req[w], k)
    <3> DEFINE r == [req[w] EXCEPT !.left = @ \ {k}]
    <3>1. /\ req' = [req EXCEPT ![w] = r] /\ req'[w] = r
          /\ r.pc = "read" /\ r.left = req[w].left \ {k}
          /\ r.v = req[w].v /\ r.ids = req[w].ids /\ r.field = req[w].field
      BY <1>0, <2>1, <2>2, <2>5 DEF Examined, Requests, TypeOK
    <3>2. Searched(w)'
      BY <1>0, <2>2, <2>5, <3>1 DEF Searched, Clear, Matches, Live, files
    <3>3. QED
      BY <2>2, <3>1, <3>2, OwnStep
  <2>6. QED
    BY <2>3, <2>4, <2>5
<1>5. CASE SidecarVanished(w)
  BY <1>0, <1>5, OwnStep DEF SidecarVanished, Searched, TypeOK
<1>6. CASE EndOfList(w)
  <2>1. Clear(req[w].v, req[w].ids, req[w].field, Vehicles)
    BY <1>0, <1>6 DEF EndOfList, Searched, Clear
  <2>2. QED
    BY <1>6, <2>1, PassedSearch DEF EndOfList
<1>7. CASE Write(w)
  <2> DEFINE v == req[w].v
  <2>1. /\ v \in Vehicles /\ ident' = [ident EXCEPT ![v] = req[w].ids]
        /\ \A u \in Vehicles \ {v} : status'[u] = status[u] /\ ident'[u] = ident[u]
        /\ ident'[v] = req[w].ids
    BY <1>0, <1>7 DEF Write, TypeOK
  <2>2. \A f \in Fields : Clear(v, req[w].ids, f, Vehicles)
    BY <1>0, <1>7 DEF Write, Searched
  <2>3. UniqueLive'
    BY <2>1, <2>2 DEF UInv, UniqueLive, Clear, Live
  <2>4. ASSUME NEW u \in Workers PROVE Searched(u)'
    <3>1. CASE u = w
      BY <1>0, <1>7, <3>1 DEF Write, Searched, TypeOK
    <3>2. CASE u # w
      <4>1. req'[u] = req[u] /\ ~Guarding(u)
        BY <1>7, <3>2 DEF Write, NoOverlap, Guarding, TypeOK
      <4>2. req[u].pc = "exists" => req[u].field = "reg"
        BY DEF UInv, Searched
      <4>3. QED
        BY <4>1, <4>2 DEF Guarding, Searched
    <3>3. QED
      BY <3>1, <3>2
  <2>5. QED
    BY <2>3, <2>4 DEF UInv
<1>8. CASE Index(w)
  BY <1>0, <1>8, OwnStep DEF Index, Searched, TypeOK
<1>9. QED
  BY <1>1, <1>2, <1>3, <1>4, <1>5, <1>6, <1>7, <1>8 DEF RequestStep

\* A request that begins has established nothing yet.
LEMMA BeginUnique ==
  ASSUME TypeOK, UInv, NEW w \in Workers, UNCHANGED files,
         NEW r, req' = [req EXCEPT ![w] = r], r.pc \in {"list", "exists"}, r.field = "reg"
  PROVE  UInv'
<1>1. Searched(w)'
  BY DEF Searched, TypeOK
<1>2. QED
  BY <1>1, OwnStep

\* Create, update and soft delete begin in that way.
LEMMA NewRequestUnique ==
  ASSUME TypeOK, UInv, NEW w \in Workers, NewRequest(w)
  PROVE  UInv'
<1>1. ASSUME NEW v \in Vehicles, NEW i \in Choices[v], Create(w, v, i) PROVE UInv'
  <2> DEFINE r == [Idle EXCEPT !.op = "create", !.v = v, !.ids = i, !.pc = "list"]
  <2>1. req' = [req EXCEPT ![w] = r] /\ UNCHANGED files
    BY <1>1 DEF Create
  <2>2. r.pc = "list" /\ r.field = "reg"
    BY DEF Idle
  <2> HIDE DEF r
  <2>3. QED
    BY <2>1, <2>2, BeginUnique
<1>2. ASSUME NEW v \in Vehicles, NEW i \in Choices[v], Update(w, v, i) PROVE UInv'
  <2> DEFINE r == [Idle EXCEPT !.op = "update", !.v = v, !.ids = i, !.pc = "exists"]
  <2>1. req' = [req EXCEPT ![w] = r] /\ UNCHANGED files
    BY <1>2 DEF Update
  <2>2. r.pc = "exists" /\ r.field = "reg"
    BY DEF Idle
  <2> HIDE DEF r
  <2>3. QED
    BY <2>1, <2>2, BeginUnique
<1>3. ASSUME NEW v \in Vehicles, SoftDelete(w, v) PROVE UInv'
  <2> DEFINE r == [Idle EXCEPT !.op = "delete", !.v = v, !.ids = ident[v], !.pc = "exists"]
  <2>1. req' = [req EXCEPT ![w] = r] /\ UNCHANGED files
    BY <1>3 DEF SoftDelete
  <2>2. r.pc = "exists" /\ r.field = "reg"
    BY DEF Idle
  <2> HIDE DEF r
  <2>3. QED
    BY <2>1, <2>2, BeginUnique
<1>4. QED
  BY <1>1, <1>2, <1>3 DEF NewRequest

\* Cleanup, the passing of time, flushes and crashes make no vehicle live.
LEMMA OtherStepsUnique ==
  ASSUME TypeOK, UInv,
         \/ CleanupStart \/ CleanupStep \/ Crash
         \/ \E v \in Vehicles : RetentionElapses(v)
         \/ \E f \in Flushers : FlushStep(f)
  PROVE  UInv'
<1>1. CASE CleanupStart \/ RemovePurged \/ \E f \in Flushers : FlushStep(f)
  <2>1. UNCHANGED <<status, ident, req>>
    BY <1>1 DEF CleanupStart, RemovePurged, FlushStep, FlushTake, Probe, Read,
                ReadVanished, Apply, files
  <2>2. QED
    BY <2>1, FewerLiveSameRequests DEF Live
<1>2. ASSUME NEW u \in Vehicles, HardDelete(u) PROVE UInv'
  <2>1. /\ UNCHANGED req
        /\ \A v \in Vehicles : Live(v)' => (Live(v) /\ ident'[v] = ident[v])
    BY <1>2 DEF HardDelete, Live, TypeOK
  <2>2. QED
    BY <2>1, FewerLiveSameRequests
<1>3. ASSUME NEW u \in Vehicles, RetentionElapses(u) PROVE UInv'
  <2>1. /\ UNCHANGED req
        /\ \A v \in Vehicles : Live(v)' => (Live(v) /\ ident'[v] = ident[v])
    BY <1>3 DEF RetentionElapses, Live, TypeOK
  <2>2. QED
    BY <2>1, FewerLiveSameRequests
<1>4. CASE Crash
  BY <1>4 DEF Crash, UInv, UniqueLive, Searched, Live, Idle, files
<1>5. QED
  BY <1>1, <1>2, <1>3, <1>4 DEF CleanupStep

\* Two live vehicles can share a number only if two requests overlapped
\* between guard and write: crashes, cleanup, flushes and updates that race
\* deletes cannot bring it about.  The inductive invariant needs what each
\* guard has established so far, because UniqueLive alone does not tell why a
\* write is safe.
THEOREM UniqueIfSerialised == Spec => UniqueWhenSerialised
<1>1. Init => UInv
  BY DEF Init, UInv, UniqueLive, Searched, Live, Idle
<1>2. TypeOK /\ UInv /\ NoOverlap /\ [Next]_vars => UInv'
  <2> SUFFICES ASSUME TypeOK, UInv, NoOverlap, [Next]_vars PROVE UInv'
    OBVIOUS
  <2>1. CASE UNCHANGED vars
    BY <2>1, FewerLiveSameRequests DEF vars, Live
  <2>2. QED
    BY <2>1, RequestStepUnique, NewRequestUnique, OtherStepsUnique DEF Next
<1>3. UInv => UniqueLive
  BY DEF UInv
<1>4. QED
  BY <1>1, <1>2, <1>3, TypeCorrect, PTL DEF Spec, UniqueWhenSerialised

------------------------------------------------------------------------------
(* Cleanup and deletion.  Once a request has looked at its vehicle, nobody   *)
(* else changes that vehicle as long as no two requests write one vehicle:   *)
(* a live one is not on the list of the cleanup, and one that is being       *)
(* created is not known to it.                                               *)

UnmintedUnknown ==
  \A v \in Vehicles \ minted :
    /\ status[v] = "absent" /\ v \notin todo /\ purging # v
    /\ \A w \in Workers : req[w].pc # "idle" => req[w].v # v

WritersAlone ==
  \A w \in Workers : Writing(w) =>
    IF req[w].op = "create"
      THEN status[req[w].v] = "absent" /\ req[w].v \notin todo /\ purging # req[w].v
      ELSE Live(req[w].v)

LInv == UnmintedUnknown /\ ListedExpired /\ WritersAlone

\* How a request moves: it keeps what it is about until it ends, writes before
\* it updates the index, and changes nothing else.
LEMMA RequestMoves ==
  ASSUME TypeOK, NEW w \in Workers, RequestStep(w)
  PROVE  /\ \A u \in Workers \ {w} : req'[u] = req[u]
         /\ req[w].pc # "idle" /\ req[w].v \in Vehicles
         /\ \/ req'[w].pc = "idle"
            \/ /\ req'[w].op = req[w].op /\ req'[w].v = req[w].v /\ req'[w].ids = req[w].ids
               /\ req'[w].pc # "idle"
         /\ req'[w].pc = "index" => Write(w)
         /\ req[w].pc = "index" <=> Index(w)
         /\ Write(w) \/ UNCHANGED <<status, ident, pending>>
         /\ Index(w) \/ UNCHANGED rows
         /\ UNCHANGED <<minted, todo, purging, batch, look, crashes>>
<1> USE RequestRecords
<1>0. /\ req[w] \in Requests
      /\ req[w].pc # "idle" => req[w].v \in Vehicles
      /\ Idle.pc = "idle"
  BY DEF TypeOK, Idle
<1> DEFINE Kept(r) == /\ r.op = req[w].op /\ r.v = req[w].v /\ r.ids = req[w].ids
                      /\ r.pc # "idle"
<1>1. ASSUME NEW r, req' = [req EXCEPT ![w] = r], r.pc = "idle" \/ Kept(r), r.pc # "index",
             req[w].pc \notin {"idle", "index"},
             UNCHANGED <<files, rows, minted, cleaner, watcher, crashes>>
      PROVE  /\ \A u \in Workers \ {w} : req'[u] = req[u]
             /\ req[w].pc # "idle" /\ req[w].v \in Vehicles
             /\ req'[w].pc = "idle" \/ Kept(req'[w])
             /\ req'[w].pc # "index" /\ ~Index(w)
             /\ UNCHANGED <<status, ident, pending, rows, minted, todo, purging, batch, look, crashes>>
  BY <1>0, <1>1 DEF TypeOK, Index, files, cleaner, watcher
<1>2. CASE CheckExists(w)
  <2>1. Kept([req[w] EXCEPT !.pc = "list"]) /\ [req[w] EXCEPT !.pc = "list"].pc = "list"
    BY <1>0 DEF Requests
  <2>2. QED
    BY <1>0, <1>1, <1>2, <2>1 DEF CheckExists
<1>3. CASE SkipField(w) \/ EndOfList(w)
  <2>1. Kept(Passed(req[w])) /\ Passed(req[w]).pc # "index"
    BY <1>0
  <2>2. QED
    BY <1>1, <1>3, <2>1 DEF SkipField, EndOfList
<1>4. CASE ListKeys(w)
  <2> DEFINE r == [req[w] EXCEPT !.pc = "read", !.left = {v \in Vehicles : status[v] # "absent"}]
  <2>1. Kept(r) /\ r.pc = "read"
    BY <1>0 DEF Requests
  <2>2. req' = [req EXCEPT ![w] = r]
    BY <1>4 DEF ListKeys
  <2> HIDE DEF r
  <2>3. QED
    BY <1>1, <1>4, <2>1, <2>2 DEF ListKeys
<1>5. CASE ReadSidecar(w)
  <2>1. PICK k \in req[w].left : req' = [req EXCEPT ![w] = Examined(req[w], k)]
    BY <1>5 DEF ReadSidecar
  <2>2. Kept(Passed(req[w])) /\ Passed(req[w]).pc # "index"
    BY <1>0
  <2>3. Kept([req[w] EXCEPT !.left = @ \ {k}]) /\ [req[w] EXCEPT !.left = @ \ {k}].pc = "read"
    BY <1>0, <1>5 DEF ReadSidecar, Requests
  <2>4. (Examined(req[w], k).pc = "idle" \/ Kept(Examined(req[w], k))) /\ Examined(req[w], k).pc # "index"
    BY <1>0, <2>2, <2>3 DEF Examined
  <2>5. QED
    BY <1>1, <1>5, <2>1, <2>4 DEF ReadSidecar
<1>6. CASE SidecarVanished(w)
  BY <1>0, <1>1, <1>6 DEF SidecarVanished
<1>7. CASE Write(w)
  <2>1. req'[w] = [req[w] EXCEPT !.pc = "index"] /\ \A u \in Workers \ {w} : req'[u] = req[u]
    BY <1>7 DEF Write, TypeOK
  <2>2. Kept(req'[w])
    BY <1>0, <2>1 DEF Requests
  <2>3. QED
    BY <1>0, <1>7, <2>1, <2>2 DEF Write, Index, W!Report, cleaner
<1>8. CASE Index(w)
  BY <1>0, <1>8 DEF Index, TypeOK, files, cleaner, watcher
<1>9. QED
  BY <1>2, <1>3, <1>4, <1>5, <1>6, <1>7, <1>8 DEF RequestStep

\* How a request begins: on a vehicle that is live, or that has just got its id.
LEMMA RequestBegins ==
  ASSUME TypeOK, NEW w \in Workers, NewRequest(w)
  PROVE  \E v \in Vehicles :
         /\ \A u \in Workers \ {w} : req'[u] = req[u]
         /\ req[w].pc = "idle" /\ req'[w].v = v /\ req'[w].pc \in {"list", "exists"}
         /\ IF req'[w].op = "create" THEN v \notin minted /\ minted' = minted \union {v}
                                     ELSE Live(v) /\ minted' = minted
         /\ UNCHANGED <<status, ident, rows, todo, purging, pending, batch, look, crashes>>
<1> USE DEF files, cleaner, watcher, Idle
<1> DEFINE Begins(v) ==
      /\ \A u \in Workers \ {w} : req'[u] = req[u]
      /\ req[w].pc = "idle" /\ req'[w].v = v /\ req'[w].pc \in {"list", "exists"}
      /\ IF req'[w].op = "create" THEN v \notin minted /\ minted' = minted \union {v}
                                  ELSE Live(v) /\ minted' = minted
      /\ UNCHANGED <<status, ident, rows, todo, purging, pending, batch, look, crashes>>
<1>1. ASSUME NEW v \in Vehicles, NEW i \in Choices[v], Create(w, v, i) PROVE Begins(v)
  <2> DEFINE r == [Idle EXCEPT !.op = "create", !.v = v, !.ids = i, !.pc = "list"]
  <2>1. req' = [req EXCEPT ![w] = r] /\ r.op = "create" /\ r.v = v /\ r.pc = "list"
    BY <1>1 DEF Create
  <2> HIDE DEF r
  <2>2. QED
    BY <1>1, <2>1 DEF Create, TypeOK
<1>2. ASSUME NEW v \in Vehicles, NEW i \in Choices[v], Update(w, v, i) PROVE Begins(v)
  <2> DEFINE r == [Idle EXCEPT !.op = "update", !.v = v, !.ids = i, !.pc = "exists"]
  <2>1. req' = [req EXCEPT ![w] = r] /\ r.op = "update" /\ r.v = v /\ r.pc = "exists"
    BY <1>2 DEF Update
  <2> HIDE DEF r
  <2>2. QED
    BY <1>2, <2>1 DEF Update, TypeOK
<1>3. ASSUME NEW v \in Vehicles, SoftDelete(w, v) PROVE Begins(v)
  <2> DEFINE r == [Idle EXCEPT !.op = "delete", !.v = v, !.ids = ident[v], !.pc = "exists"]
  <2>1. req' = [req EXCEPT ![w] = r] /\ r.op = "delete" /\ r.v = v /\ r.pc = "exists"
    BY <1>3 DEF SoftDelete
  <2> HIDE DEF r
  <2>2. QED
    BY <1>3, <2>1 DEF SoftDelete, TypeOK
<1> HIDE DEF Begins
<1>4. \E v \in Vehicles : Begins(v)
  BY <1>1, <1>2, <1>3 DEF NewRequest
<1>5. QED
  BY <1>4 DEF Begins

\* A request never writes a vehicle that the cleanup has listed.
LEMMA RequestLife ==
  ASSUME TypeOK, LInv, ~SameVehicle, NEW w \in Workers, RequestStep(w)
  PROVE  LInv'
<1> USE RequestMoves
<1>1. CASE Write(w)
  <2> DEFINE v == req[w].v
  <2>1. /\ Writing(w) /\ req'[w].pc = "index"
        /\ v \in Vehicles /\ v \in minted /\ v \notin todo
        /\ \A u \in Vehicles \ {v} : status'[u] = status[u]
    BY <1>1 DEF Write, Writing, Guarding, LInv, UnmintedUnknown, ListedExpired, WritersAlone, Live, TypeOK, Requests
  <2>2. UnmintedUnknown'
    BY <2>1 DEF LInv, UnmintedUnknown
  <2>3. ListedExpired'
    BY <2>1 DEF LInv, ListedExpired, TypeOK
  <2>4. ASSUME NEW u \in Workers, Writing(u)' PROVE u # w /\ req'[u] = req[u] /\ Writing(u) /\ req[u].v # v
    BY <2>1, <2>4 DEF Writing, Guarding, SameVehicle
  <2>5. WritersAlone'
    <3>1. \A u \in Workers : Writing(u) => req[u].v \in Vehicles
      BY DEF Writing, Guarding, TypeOK
    <3>2. QED
      BY <2>1, <2>4, <3>1 DEF LInv, WritersAlone, Live
  <2>6. QED
    BY <2>2, <2>3, <2>5 DEF LInv
<1>2. CASE ~Write(w)
  <2>1. UNCHANGED <<status, minted, todo, purging>>
    BY <1>2
  <2>2. UnmintedUnknown' /\ ListedExpired'
    BY <2>1 DEF LInv, UnmintedUnknown, ListedExpired
  <2>3. \A u \in Workers : Writing(u)' => Writing(u) /\ req'[u].op = req[u].op /\ req'[u].v = req[u].v
    <3>1. Writing(w)' => Writing(w)
      BY <1>2 DEF Writing, Guarding, TypeOK, Requests, Index, Idle
    <3>2. QED
      BY <3>1 DEF Writing, Guarding
  <2>4. WritersAlone'
    BY <2>1, <2>3 DEF LInv, WritersAlone, Live
  <2>5. QED
    BY <2>2, <2>4 DEF LInv
<1>3. QED
  BY <1>1, <1>2

\* A request begins on a live vehicle, or on one that nobody knows yet.
LEMMA BeginLife ==
  ASSUME TypeOK, LInv, NEW w \in Workers, NewRequest(w)
  PROVE  LInv'
<1>1. PICK v \in Vehicles :
         /\ \A u \in Workers \ {w} : req'[u] = req[u]
         /\ req[w].pc = "idle" /\ req'[w].v = v /\ req'[w].pc \in {"list", "exists"}
         /\ IF req'[w].op = "create" THEN v \notin minted /\ minted' = minted \union {v}
                                     ELSE Live(v) /\ minted' = minted
         /\ UNCHANGED <<status, ident, rows, todo, purging, pending, batch, look, crashes>>
  BY RequestBegins
<1>2. UnmintedUnknown'
  BY <1>1 DEF LInv, UnmintedUnknown, Live
<1>3. ListedExpired'
  BY <1>1 DEF LInv, ListedExpired
<1>4. ASSUME NEW u \in Workers, Writing(u)'
      PROVE  IF req'[u].op = "create"
               THEN status[req'[u].v] = "absent" /\ req'[u].v \notin todo /\ purging # req'[u].v
               ELSE Live(req'[u].v)
  <2>1. CASE u = w
    BY <1>1, <2>1 DEF LInv, UnmintedUnknown
  <2>2. CASE u # w
    BY <1>1, <1>4, <2>2 DEF LInv, WritersAlone, Writing, Guarding
  <2>3. QED
    BY <2>1, <2>2
<1>5. WritersAlone'
  BY <1>1, <1>4 DEF WritersAlone, Live
<1>6. QED
  BY <1>2, <1>3, <1>5 DEF LInv

\* What the cleanup lists and deletes nobody writes.
LEMMA CleanupLife ==
  ASSUME TypeOK, LInv, CleanupStart \/ CleanupStep \/ \E v \in Vehicles : RetentionElapses(v)
  PROVE  LInv'
<1>0. \A w \in Workers : Writing(w) => req[w].pc # "idle" /\ req[w].v \in Vehicles
  BY DEF Writing, Guarding, TypeOK
<1>1. CASE CleanupStart
  <2>1. todo' = {v \in Vehicles : status[v] = "expired"} /\ UNCHANGED <<status, req, minted, purging>>
    BY <1>1 DEF CleanupStart, PurgeExpired, files
  <2>2. UnmintedUnknown' /\ ListedExpired'
    BY <2>1 DEF LInv, UnmintedUnknown, ListedExpired
  <2>3. WritersAlone'
    BY <1>0, <2>1 DEF LInv, WritersAlone, Writing, Guarding, Live
  <2>4. QED
    BY <2>2, <2>3 DEF LInv
<1>2. ASSUME NEW v \in Vehicles, HardDelete(v) PROVE LInv'
  <2>1. /\ v \in todo /\ todo' = todo \ {v} /\ purging' = v /\ UNCHANGED <<req, minted>>
        /\ status' = [status EXCEPT ![v] = "absent"]
    BY <1>2 DEF HardDelete, Least
  <2>2. status[v] = "expired"
    BY <2>1 DEF LInv, ListedExpired
  <2>3. UnmintedUnknown'
    BY <2>1, <2>2 DEF LInv, UnmintedUnknown, TypeOK
  <2>4. ListedExpired'
    BY <2>1 DEF LInv, ListedExpired, TypeOK
  <2>5. WritersAlone'
    BY <1>0, <2>1, <2>2 DEF LInv, WritersAlone, Writing, Guarding, Live, TypeOK
  <2>6. QED
    BY <2>3, <2>4, <2>5 DEF LInv
<1>3. CASE RemovePurged
  <2>1. purging' = None /\ UNCHANGED <<status, req, minted, todo>>
    BY <1>3 DEF RemovePurged, files
  <2>2. UnmintedUnknown' /\ ListedExpired'
    BY <2>1, VehiclesAssumption DEF LInv, UnmintedUnknown, ListedExpired
  <2>3. WritersAlone'
    BY <1>0, <2>1, VehiclesAssumption DEF LInv, WritersAlone, Writing, Guarding, Live
  <2>4. QED
    BY <2>2, <2>3 DEF LInv
<1>4. ASSUME NEW v \in Vehicles, RetentionElapses(v) PROVE LInv'
  <2>1. /\ status[v] = "deleted" /\ status' = [status EXCEPT ![v] = "expired"]
        /\ UNCHANGED <<req, minted, todo, purging>>
    BY <1>4 DEF RetentionElapses, cleaner
  <2>2. UnmintedUnknown' /\ ListedExpired'
    BY <2>1 DEF LInv, UnmintedUnknown, ListedExpired, TypeOK
  <2>3. WritersAlone'
    BY <1>0, <2>1 DEF LInv, WritersAlone, Writing, Guarding, Live, TypeOK
  <2>4. QED
    BY <2>2, <2>3 DEF LInv
<1>5. QED
  BY <1>1, <1>2, <1>3, <1>4 DEF CleanupStep

\* A step that leaves files, requests and cleanup alone.
LEMMA LifeUntouched ==
  ASSUME LInv, UNCHANGED <<status, minted, req, todo, purging>>
  PROVE  LInv'
BY DEF LInv, UnmintedUnknown, ListedExpired, WritersAlone, Writing, Guarding, Live

\* Every step, as long as no two requests write one vehicle.
LEMMA LifeStep == TypeOK /\ LInv /\ ~SameVehicle /\ [Next]_vars => LInv'
<1> SUFFICES ASSUME TypeOK, LInv, ~SameVehicle, [Next]_vars PROVE LInv'
  OBVIOUS
<1>1. ASSUME NEW f \in Flushers, FlushStep(f) PROVE LInv'
  BY <1>1, LifeUntouched DEF FlushStep, FlushTake, Probe, Read, ReadVanished, Apply, files, cleaner
<1>2. CASE Crash
  <2>1. /\ \A w \in Workers : req'[w].pc = "idle"
        /\ todo' = {} /\ purging' = None /\ UNCHANGED <<status, minted>>
    BY <1>2 DEF Crash, Idle, files
  <2>2. QED
    BY <2>1, VehiclesAssumption DEF LInv, UnmintedUnknown, ListedExpired, WritersAlone, Writing, Guarding
<1>3. CASE UNCHANGED vars
  BY <1>3, LifeUntouched DEF vars
<1>4. QED
  BY <1>1, <1>2, <1>3, RequestLife, BeginLife, CleanupLife DEF Next

\* At first no vehicle has an id and nothing runs.
LEMMA LifeInit == Init => LInv
BY VehiclesAssumption DEF Init, LInv, UnmintedUnknown, ListedExpired, WritersAlone, Writing, Guarding, Idle

\* The list that cleanup works from stays right, as long as no two requests
\* write one vehicle at a time.
THEOREM PurgesOnlyExpired == Spec => PurgeOnlyExpired
<1>1. LInv => ListedExpired
  BY DEF LInv
<1>2. QED
  BY <1>1, LifeInit, LifeStep, TypeCorrect, PTL DEF Spec, PurgeOnlyExpired

\* An update brings no soft-deleted vehicle back: it began when the vehicle was
\* live, and only another request that overlaps with it could delete it.
THEOREM DeletedStay == Spec => DeletedStaysDeleted
<1>1. LInv => ~\E w \in Workers : Reviving(w)
  BY DEF LInv, WritersAlone, Reviving, Live
<1>2. QED
  BY <1>1, LifeInit, LifeStep, TypeCorrect, PTL DEF Spec, DeletedStaysDeleted

------------------------------------------------------------------------------
(* The index.  Each vehicle's row is right or somebody is about to put it    *)
(* right, with what is in the sidecar at that time.                          *)

Settled(v) ==
  \/ v \in pending
  \/ \E f \in Flushers : v \in batch[f]
  \/ \E w \in Workers : req[w].pc = "index" /\ req[w].v = v
  \/ purging = v
  \/ rows[v] = Projection[v]

\* A request that has written writes its row from the sidecar as it is.
IndexFresh ==
  \A w \in Workers : req[w].pc = "index" =>
    IF req[w].op = "delete" THEN ~Live(req[w].v)
                            ELSE Live(req[w].v) /\ ident[req[w].v] = req[w].ids

\* What a flush has read is in the sidecar, or its key is pending again.
LookFresh ==
  \A f \in Flushers :
    LET k == look[f].key IN
      \/ look[f].plan = "none"
      \/ k \in pending
      \/ look[f].plan = "read" /\ status[k] # "absent"
      \/ look[f].plan = "upsert" /\ Live(k) /\ look[f].ids = ident[k]
      \/ look[f].plan = "remove" /\ ~Live(k)

PurgingGone == purging # None => status[purging] = "absent"

CInv == /\ \A v \in Vehicles : Settled(v)
        /\ IndexFresh /\ LookFresh /\ PurgingGone

\* No two requests for one vehicle in flight: no two that write it.
LEMMA NoSharingWriters == NoSharing => ~SameVehicle
BY DEF NoSharing, SameVehicle, Writing, Guarding

\* What is upserted for a live vehicle as its sidecar has it meets no other row
\* with one of its numbers, unless a number is handed over.
LEMMA CurrentUpserts ==
  ASSUME TypeOK, ~Handover, NEW v \in Vehicles, Live(v), Upsert(v, ident[v])
  PROVE  rows' = [rows EXCEPT ![v] = ident[v]]
<1>1. ~Conflict(v, ident[v])
  BY DEF Handover, Held, Conflict
<1>2. QED
  BY <1>1 DEF Upsert

\* A step that neither writes a sidecar nor a row nor takes away what is to
\* settle one.
LEMMA CUntouched ==
  ASSUME CInv, UNCHANGED <<status, ident, rows, purging, pending, look>>,
         UNCHANGED batch,
         \A w \in Workers : /\ req[w].pc = "index" <=> req'[w].pc = "index"
                            /\ req[w].pc = "index" => req'[w] = req[w]
  PROVE  CInv'
<1>1. \A v \in Vehicles : Settled(v)'
  BY DEF CInv, Settled, Projection, Live
<1>2. IndexFresh'
  BY DEF CInv, IndexFresh, Live
<1>3. LookFresh' /\ PurgingGone'
  BY DEF CInv, LookFresh, PurgingGone, Live
<1>4. QED
  BY <1>1, <1>2, <1>3 DEF CInv

\* A request: the watcher hears of what it writes, and its own update of the
\* index puts the row right.
LEMMA RequestConsistent ==
  ASSUME TypeOK, LInv, CInv, NoSharing, ~Handover, NEW w \in Workers, RequestStep(w)
  PROVE  CInv'
<1> DEFINE v == req[w].v
<1>1. v \in Vehicles /\ req[w].pc # "idle"
  BY RequestMoves
<1>2. \A u \in Workers \ {w} : req'[u] = req[u] /\ (req[u].pc # "idle" => req[u].v # v)
  BY <1>1, RequestMoves DEF NoSharing
<1>3. UNCHANGED <<purging, batch, look>>
  BY RequestMoves
<1>4. CASE Write(w)
  <2>1. /\ req[w].pc = "write" /\ req'[w] = [req[w] EXCEPT !.pc = "index"]
        /\ status' = [status EXCEPT ![v] = IF req[w].op = "delete" THEN "deleted" ELSE "live"]
        /\ ident' = [ident EXCEPT ![v] = req[w].ids]
        /\ pending' = pending \union {v} /\ rows' = rows
    BY <1>4 DEF Write, TypeOK, W!Report
  <2>2. /\ \A u \in Vehicles \ {v} : status'[u] = status[u] /\ ident'[u] = ident[u]
        /\ status'[v] = IF req[w].op = "delete" THEN "deleted" ELSE "live"
        /\ ident'[v] = req[w].ids
    BY <1>1, <2>1 DEF TypeOK
  <2>3. ASSUME NEW u \in Vehicles PROVE Settled(u)'
    <3>1. CASE u = v
      BY <2>1, <3>1 DEF Settled
    <3>2. CASE u # v
      <4>1. Projection'[u] = Projection[u]
        BY <2>2, <3>2 DEF Projection, Live
      <4>2. QED
        BY <1>2, <1>3, <2>1, <3>2, <4>1 DEF CInv, Settled
    <3>3. QED
      BY <3>1, <3>2
  <2>4. IndexFresh'
    <3>1. /\ req'[w].v = v /\ req'[w].op = req[w].op /\ req'[w].ids = req[w].ids
      BY <2>1 DEF TypeOK, Requests
    <3>2. ASSUME NEW u \in Workers \ {w}, req'[u].pc = "index"
          PROVE  IF req'[u].op = "delete" THEN status'[req'[u].v] # "live"
                 ELSE status'[req'[u].v] = "live" /\ ident'[req'[u].v] = req'[u].ids
      <4>1. req'[u] = req[u] /\ req[u].v # v /\ req[u].v \in Vehicles
        BY <1>2, <3>2 DEF TypeOK
      <4>2. QED
        BY <2>2, <3>2, <4>1 DEF CInv, IndexFresh, Live
    <3>3. QED
      BY <2>2, <3>1, <3>2 DEF IndexFresh, Live
  <2>5. LookFresh'
    <3>1. \A f \in Flushers : look[f].plan # "none" => look[f].key \in Vehicles
      BY DEF TypeOK
    <3>2. QED
      BY <1>3, <2>1, <2>2, <3>1 DEF CInv, LookFresh, Live
  <2>6. PurgingGone'
    <3>1. purging # v
      BY <1>1, <2>1, VehiclesAssumption DEF CInv, PurgingGone, LInv, WritersAlone, Writing, Guarding, Live
    <3>2. QED
      BY <1>3, <2>2, <3>1 DEF CInv, PurgingGone, TypeOK
  <2>7. QED
    BY <2>3, <2>4, <2>5, <2>6 DEF CInv
<1>5. CASE Index(w)
  <2>1. req[w].pc = "index" /\ req'[w].pc = "idle" /\ UNCHANGED <<status, ident, pending>>
    BY <1>5 DEF Index, Idle, TypeOK, files, watcher
  <2>2. rows' = [rows EXCEPT ![v] = Projection[v]]
    <3>1. CASE req[w].op = "delete"
      BY <1>1, <1>5, <2>1, <3>1 DEF Index, Remove, CInv, IndexFresh, Projection
    <3>2. CASE req[w].op # "delete"
      <4>1. Live(v) /\ ident[v] = req[w].ids
        BY <2>1, <3>2 DEF CInv, IndexFresh
      <4>2. QED
        BY <1>1, <1>5, <3>2, <4>1, CurrentUpserts DEF Index, Projection
    <3>3. QED
      BY <3>1, <3>2
  <2>3. ASSUME NEW u \in Vehicles PROVE Settled(u)'
    <3>1. Projection'[u] = Projection[u]
      BY <2>1 DEF Projection, Live
    <3>2. CASE u = v
      BY <2>2, <3>1, <3>2 DEF Settled, TypeOK
    <3>3. CASE u # v
      BY <1>2, <1>3, <2>1, <2>2, <3>1, <3>3 DEF CInv, Settled, TypeOK
    <3>4. QED
      BY <3>2, <3>3
  <2>4. IndexFresh'
    BY <1>2, <2>1 DEF CInv, IndexFresh, Live
  <2>5. LookFresh' /\ PurgingGone'
    BY <1>3, <2>1 DEF CInv, LookFresh, PurgingGone, Live
  <2>6. QED
    BY <2>3, <2>4, <2>5 DEF CInv
<1>6. CASE ~Write(w) /\ ~Index(w)
  <2>1. req[w].pc # "index" /\ req'[w].pc # "index" /\ UNCHANGED <<status, ident, pending, rows>>
    BY <1>6, RequestMoves
  <2>2. QED
    BY <1>2, <1>3, <2>1, CUntouched
<1>7. QED
  BY <1>4, <1>5, <1>6

\* The cleanup: the watcher hears of what it deletes, and it removes the row.
LEMMA CleanupConsistent ==
  ASSUME TypeOK, LInv, CInv, CleanupStart \/ CleanupStep \/ \E v \in Vehicles : RetentionElapses(v)
  PROVE  CInv'
<1>1. CASE CleanupStart
  BY <1>1, CUntouched DEF CleanupStart, files, watcher
<1>2. ASSUME NEW v \in Vehicles, HardDelete(v) PROVE CInv'
  <2>1. /\ status' = [status EXCEPT ![v] = "absent"] /\ ident' = [ident EXCEPT ![v] = Blank]
        /\ purging' = v /\ purging = None /\ pending' = pending \union {v}
        /\ UNCHANGED <<rows, req, look, batch>>
    BY <1>2 DEF HardDelete, W!Report
  <2>2. ~Live(v)
    BY <1>2 DEF HardDelete, Least, LInv, ListedExpired, Live
  <2>3. /\ \A u \in Vehicles \ {v} : status'[u] = status[u] /\ ident'[u] = ident[u]
        /\ status'[v] = "absent"
    BY <2>1 DEF TypeOK
  <2>4. \A u \in Vehicles : (Live(u)' <=> Live(u)) /\ Projection'[u] = Projection[u]
    BY <2>2, <2>3 DEF Live, Projection
  <2>5. \A u \in Vehicles : Settled(u)'
    BY <2>1, <2>4, VehiclesAssumption DEF CInv, Settled
  <2>6. IndexFresh'
    <3>1. \A w \in Workers : req[w].pc = "index" => req[w].v \in Vehicles
      BY DEF TypeOK
    <3>2. QED
      BY <2>1, <2>2, <2>3, <2>4, <3>1 DEF CInv, IndexFresh
  <2>7. LookFresh'
    <3>1. \A f \in Flushers : look[f].plan # "none" => look[f].key \in Vehicles
      BY DEF TypeOK
    <3>2. QED
      BY <2>1, <2>2, <2>3, <2>4, <3>1 DEF CInv, LookFresh
  <2>8. PurgingGone'
    BY <2>1, <2>3 DEF PurgingGone
  <2>9. QED
    BY <2>5, <2>6, <2>7, <2>8 DEF CInv
<1>3. CASE RemovePurged
  <2>1. /\ purging \in Vehicles /\ rows' = [rows EXCEPT ![purging] = Blank] /\ purging' = None
        /\ UNCHANGED <<status, ident, req, pending, batch, look>>
    BY <1>3 DEF RemovePurged, Remove, TypeOK, files, watcher
  <2>2. Projection[purging] = Blank
    BY <2>1, VehiclesAssumption DEF CInv, PurgingGone, Projection, Live
  <2>3. ASSUME NEW u \in Vehicles PROVE Settled(u)'
    <3>1. Projection'[u] = Projection[u]
      BY <2>1 DEF Projection, Live
    <3>2. CASE u = purging
      BY <2>1, <2>2, <3>1, <3>2 DEF Settled, TypeOK
    <3>3. CASE u # purging
      BY <2>1, <3>1, <3>3 DEF CInv, Settled, TypeOK
    <3>4. QED
      BY <3>2, <3>3
  <2>4. IndexFresh' /\ LookFresh' /\ PurgingGone'
    BY <2>1 DEF CInv, IndexFresh, LookFresh, PurgingGone, Live
  <2>5. QED
    BY <2>3, <2>4 DEF CInv
<1>4. ASSUME NEW v \in Vehicles, RetentionElapses(v) PROVE CInv'
  <2>1. /\ status[v] = "deleted" /\ status' = [status EXCEPT ![v] = "expired"]
        /\ UNCHANGED <<ident, rows, req, purging, pending, batch, look>>
    BY <1>4 DEF RetentionElapses, cleaner, watcher
  <2>2. /\ \A u : u # v => status'[u] = status[u]
        /\ status'[v] = "expired"
    BY <2>1 DEF TypeOK
  <2>3. \A u : (Live(u)' <=> Live(u)) /\ (status[u] # "absent" <=> status'[u] # "absent")
    BY <2>1, <2>2 DEF Live
  <2>4. Projection' = Projection
    BY <2>1, <2>3 DEF Projection
  <2>5. \A u \in Vehicles : Settled(u)'
    BY <2>1, <2>4 DEF CInv, Settled
  <2>6. IndexFresh' /\ LookFresh' /\ PurgingGone'
    BY <2>1, <2>3 DEF CInv, IndexFresh, LookFresh, PurgingGone
  <2>7. QED
    BY <2>5, <2>6 DEF CInv
<1>5. QED
  BY <1>1, <1>2, <1>3, <1>4 DEF CleanupStep

\* A flush: a key that it drops was handled with what is in the sidecar, or is
\* pending again.
LEMMA FlushConsistent ==
  ASSUME TypeOK, CInv, NoSharing, NoSharing', ~Handover, NEW f \in Flushers, FlushStep(f)
  PROVE  CInv'
<1>0. /\ look[f].plan # "none" => look[f].key \in batch[f] /\ look[f].key \in Vehicles
      /\ \A g \in Flushers : look[g].plan # "none" => look[g].key \in batch[g]
      /\ batch \in [Flushers -> SUBSET Vehicles]
      /\ \A g \in Flushers \ {f} : batch[f] \cap batch[g] = {}
  BY DEF TypeOK, NoSharing
<1>1. UNCHANGED <<status, ident, req, purging>>
  BY DEF FlushStep, FlushTake, Probe, Read, ReadVanished, Apply, files, cleaner
<1>2. IndexFresh' /\ PurgingGone' /\ Projection' = Projection
  BY <1>1 DEF CInv, IndexFresh, PurgingGone, Projection, Live
<1>3. \A v : Live(v)' <=> Live(v)
  BY <1>1 DEF Live
<1> DEFINE Fresh(l) == \/ l.plan = "none" \/ l.key \in pending
                       \/ l.plan = "read" /\ status[l.key] # "absent"
                       \/ l.plan = "upsert" /\ Live(l.key) /\ l.ids = ident[l.key]
                       \/ l.plan = "remove" /\ ~Live(l.key)
<1>4. \A g \in Flushers : Fresh(look[g])
  BY DEF CInv, LookFresh
<1>5. ASSUME pending' = pending,
             \A g \in Flushers : look'[g] = look[g] \/ Fresh(look'[g])
      PROVE  LookFresh'
  BY <1>1, <1>3, <1>4, <1>5 DEF LookFresh
<1>6. CASE FlushTake(f)
  <2>1. /\ batch[f] = {} /\ batch' = [batch EXCEPT ![f] = pending] /\ pending' = {}
        /\ UNCHANGED <<rows, look>>
    BY <1>6 DEF FlushTake, W!Take
  <2>2. \A v \in Vehicles : Settled(v)'
    BY <1>0, <1>1, <1>2, <2>1 DEF CInv, Settled
  <2>3. ASSUME NEW g \in Flushers, look[g].plan # "none" PROVE look[g].key \notin pending
    <3>1. g # f /\ batch'[f] = pending /\ batch'[g] = batch[g]
      BY <1>0, <2>1, <2>3
    <3>2. QED
      BY <1>0, <2>3, <3>1 DEF NoSharing
  <2>4. LookFresh'
    BY <1>1, <1>3, <1>4, <2>1, <2>3 DEF LookFresh
  <2>5. QED
    BY <1>2, <2>2, <2>4 DEF CInv
<1>7. ASSUME NEW k \in Vehicles, Probe(f, k) PROVE CInv'
  <2>1. UNCHANGED <<rows, pending, batch>>
    BY <1>7 DEF Probe
  <2> DEFINE l == [key |-> k, ids |-> Blank, plan |-> IF status[k] = "absent" THEN "remove" ELSE "read"]
  <2>2. look' = [look EXCEPT ![f] = l]
    BY <1>7 DEF Probe
  <2>3. Fresh(l)
    BY DEF Live
  <2> HIDE DEF l, Fresh
  <2>4. \A g \in Flushers : look'[g] = look[g] \/ Fresh(look'[g])
    BY <2>2, <2>3 DEF TypeOK
  <2>5. LookFresh'
    BY <1>5, <2>1, <2>4
  <2>6. \A v \in Vehicles : Settled(v)'
    BY <1>1, <1>2, <2>1 DEF CInv, Settled
  <2>7. QED
    BY <1>2, <2>5, <2>6 DEF CInv
<1>8. CASE Read(f)
  <2>1. UNCHANGED <<rows, pending, batch>>
    BY <1>8 DEF Read
  <2> DEFINE k == look[f].key
  <2> DEFINE l == IF Live(k) THEN [look[f] EXCEPT !.plan = "upsert", !.ids = ident[k]]
                             ELSE [look[f] EXCEPT !.plan = "remove"]
  <2>2. look' = [look EXCEPT ![f] = l]
    BY <1>8 DEF Read
  <2>3. Fresh(l)
    BY DEF TypeOK
  <2> HIDE DEF l, Fresh
  <2>4. \A g \in Flushers : look'[g] = look[g] \/ Fresh(look'[g])
    BY <2>2, <2>3 DEF TypeOK
  <2>5. LookFresh'
    BY <1>5, <2>1, <2>4
  <2>6. \A v \in Vehicles : Settled(v)'
    BY <1>1, <1>2, <2>1 DEF CInv, Settled
  <2>7. QED
    BY <1>2, <2>5, <2>6 DEF CInv
<1>9. CASE ReadVanished(f) \/ Apply(f)
  <2> DEFINE k == look[f].key
  <2>1. /\ k \in batch[f] /\ k \in Vehicles /\ batch' = [batch EXCEPT ![f] = @ \ {k}]
        /\ pending' = pending /\ look' = [look EXCEPT ![f] = NoLook]
    BY <1>0, <1>9 DEF ReadVanished, Apply, W!Handle
  <2>2. LookFresh'
    <3>1. Fresh(NoLook)
      BY DEF NoLook
    <3> HIDE DEF Fresh
    <3>2. \A g \in Flushers : look'[g] = look[g] \/ Fresh(look'[g])
      BY <2>1, <3>1 DEF TypeOK
    <3>3. QED
      BY <1>5, <2>1, <3>2
  <2>3. /\ \A u \in Vehicles \ {k} : rows'[u] = rows[u]
        /\ k \in pending \/ rows'[k] = Projection[k]
    <3>1. CASE ReadVanished(f)
      BY <1>4, <2>1, <3>1 DEF ReadVanished
    <3>2. CASE Apply(f) /\ look[f].plan = "remove"
      BY <1>4, <2>1, <3>2 DEF Apply, Remove, Projection, TypeOK
    <3>3. CASE Apply(f) /\ look[f].plan = "upsert"
      <4>1. Upsert(k, look[f].ids) /\ (k \in pending \/ (Live(k) /\ look[f].ids = ident[k]))
        BY <1>4, <3>3 DEF Apply
      <4>2. \A u \in Vehicles \ {k} : rows'[u] = rows[u]
        BY <2>1, <4>1 DEF Upsert, TypeOK
      <4>3. QED
        BY <2>1, <4>1, <4>2, CurrentUpserts DEF Projection, TypeOK
    <3>4. QED
      BY <1>9, <3>1, <3>2, <3>3 DEF Apply
  <2>4. ASSUME NEW u \in Vehicles PROVE Settled(u)'
    <3>1. CASE u = k
      BY <1>2, <2>1, <2>3, <3>1 DEF Settled
    <3>2. CASE u # k
      <4>1. \A g \in Flushers : u \in batch[g] => u \in batch'[g]
        BY <1>0, <2>1, <3>2
      <4>2. QED
        BY <1>1, <1>2, <2>1, <2>3, <3>2, <4>1 DEF CInv, Settled
    <3>3. QED
      BY <3>1, <3>2
  <2>5. QED
    BY <1>2, <2>2, <2>4 DEF CInv
<1>10. QED
  BY <1>6, <1>7, <1>8, <1>9 DEF FlushStep

\* Every step that is not a crash.
LEMMA ConsistentStep ==
  TypeOK /\ LInv /\ CInv /\ NoSharing /\ NoSharing' /\ ~Handover /\ (crashes = 0)' /\ [Next]_vars
    => CInv'
<1> SUFFICES ASSUME TypeOK, LInv, CInv, NoSharing, NoSharing', ~Handover, (crashes = 0)', [Next]_vars
             PROVE  CInv'
  OBVIOUS
<1>1. ASSUME NEW w \in Workers, NewRequest(w) PROVE CInv'
  BY <1>1, RequestBegins, CUntouched
<1>2. CASE Crash
  BY <1>2 DEF Crash, TypeOK
<1>3. CASE UNCHANGED vars
  BY <1>3, CUntouched DEF vars
<1>4. QED
  BY <1>1, <1>2, <1>3, RequestConsistent, CleanupConsistent, FlushConsistent DEF Next

\* An empty index is right while there are no vehicles.
LEMMA ConsistentInit == Init => CInv
BY VehiclesAssumption DEF Init, CInv, Settled, Projection, IndexFresh, LookFresh, PurgingGone, Live, NoLook, Idle

\* Without crashes, and unless a number is handed over while the index still has
\* its former owner, the index is right whenever nothing is in flight, although
\* flushes may project what they read long before; as long as no two requests
\* for one vehicle, and no two flushes of one key, overlap.
THEOREM ConsistentIfNotShared == Spec => ConsistentUnlessMoved
<1>1. TypeOK /\ CInv => QuiescentConsistent
  <2> SUFFICES ASSUME TypeOK, CInv, Quiescent PROVE rows = Projection
    BY DEF QuiescentConsistent
  <2>1. \A v \in Vehicles : rows[v] = Projection[v]
    <3>1. /\ \A w \in Workers : req[w].pc = "idle"
          /\ purging = None /\ pending = {} /\ \A f \in Flushers : batch[f] = {}
      BY DEF Quiescent, Idle
    <3>2. QED
      BY <3>1, VehiclesAssumption DEF CInv, Settled
  <2>2. QED
    BY <2>1 DEF TypeOK, Projection
<1>2. TypeOK /\ LInv /\ CInv /\ (crashes = 0 /\ ~Handover /\ NoSharing)
        /\ (crashes = 0 /\ ~Handover /\ NoSharing)' /\ [Next]_vars => LInv' /\ CInv'
  BY ConsistentStep, LifeStep, NoSharingWriters
<1>3. QED
  BY <1>1, <1>2, LifeInit, ConsistentInit, TypeCorrect, PTL DEF Spec, ConsistentUnlessMoved
==============================================================================
