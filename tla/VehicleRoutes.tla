---------------------------- MODULE VehicleRoutes ----------------------------
(***************************************************************************)
(* The web pages of vehicles.  URLs and forms name a vehicle by its        *)
(* registration number or VIN, which the server resolves anew on every     *)
(* request, while pages stay open in browsers and other users go on        *)
(* editing.  A request is one step here; what happens when the threads     *)
(* that serve two requests overlap is the subject of VehicleLifecycle.     *)
(*                                                                         *)
(* The index is taken to be up to date: search ranks the live vehicles.    *)
(* A redirect is left to Visit, which may follow with any key.             *)
(***************************************************************************)
EXTENDS Naturals, Sequences, FiniteSets, SequencesExt

\* A definition whose name tells what it does wrong (ResolveVinFirst, ...) is a
\* mutated form of the definition after it, which the properties must tell from
\* the code; the specification never uses it.

CONSTANTS
  Vehicles,   \* ids, in the order in which ULID() mints them
  Numbers,    \* what can be typed for a registration number or a VIN; one that
              \* is in Vehicles too is spelled like the id of that vehicle
  Upper,      \* Upper[n]: n in upper case
  New,        \* the number "new"
  Dots,       \* the numbers "." and ".."
  Texts,      \* descriptions; a text may also be a number
  None,
  Typed,      \* the pairs of identifiers that are ever typed into a form
  Users,      \* browser windows
  Score,      \* Score[q][n]: how well query q matches number n, 0 .. 100
  Pool,       \* CANDIDATE_POOL
  Limit       \* the results that a search shows

Threshold == 60
Fields == {"reg", "vin"}
Idents == [Fields -> Numbers \union {None}]
Blank == [f \in Fields |-> None]

\* validate_registration_number and validate_vin: a VIN is kept in upper case, and
\* has no dots.
WellFormed(i) == i.vin \notin Dots
Clean(i) == [i EXCEPT !["vin"] = IF @ = None THEN None ELSE Upper[@]]

UrlKeys == Numbers \union Vehicles

ASSUME VehiclesAssumption == Vehicles \subseteq Nat
ASSUME NumbersAssumption == None \notin UrlKeys \union Texts
ASSUME UpperAssumption ==
  Upper \in [Numbers -> Numbers] /\ \A n \in Numbers : Upper[Upper[n]] = Upper[n]
\* "new" is in lower case, and no VIN is.
ASSUME NewAssumption == New \in Numbers /\ Upper[New] # New
ASSUME DotsAssumption == Dots \subseteq Numbers
ASSUME TypedAssumption == Typed \subseteq Idents
ASSUME ScoreAssumption ==
  \A q \in Numbers, n \in Numbers \union Texts : Score[q][n] \in 0 .. 100 /\ (Score[q][n] = 100 <=> q = n)
ASSUME LimitsAssumption == Pool \in Nat \ {0} /\ Limit \in Nat \ {0}

VARIABLES
  rec,        \* rec[v]: the identifiers of v, Blank if it is not (or no more) live
  text,       \* text[v]: the description of v
  minted,
  recent,     \* live vehicles by their last activity, most recent first
  repaired,   \* vehicles with a repair
  page,       \* page[u]: what window u shows
  owners      \* history: owners[n]: the vehicles that ever had n, in any case

vars == <<rec, text, minted, recent, repaired, page, owners>>
store == <<rec, text, minted, recent, repaired, owners>>

Live(v) == rec[v] # Blank
NoPage == [kind |-> "none", shown |-> None, key |-> None]
Forms == {"edit", "delete", "repair", "upload"}

TypeOK ==
  /\ rec \in [Vehicles -> Idents]
  /\ text \in [Vehicles -> Texts \union {None}]
  /\ minted \subseteq Vehicles
  /\ \A v \in Vehicles \ minted : ~Live(v)
  /\ recent \in Seq(Vehicles) /\ IsInjective(recent)
  /\ Range(recent) = {v \in Vehicles : Live(v)}
  /\ repaired \subseteq minted
  /\ page \in [Users -> [kind : {"none", "detail"} \union Forms,
                         shown : Vehicles \union {None}, key : UrlKeys \union {None}]]
  /\ owners \in [Numbers -> SUBSET Vehicles]

Init ==
  /\ rec = [v \in Vehicles |-> Blank]
  /\ text = [v \in Vehicles |-> None]
  /\ minted = {}
  /\ recent = <<>>
  /\ repaired = {}
  /\ page = [u \in Users |-> NoPage]
  /\ owners = [n \in Numbers |-> {}]

------------------------------------------------------------------------------
(* vehicle_lookup.py *)

\* find_by_registration and find_by_vin return the first match of list_all;
\* the latter looks for the key in upper case.
First(S) == IF S = {} THEN None ELSE CHOOSE v \in S : \A w \in S : v <= w
ByRegistration(key) == First({v \in Vehicles : rec[v].reg = key})
ByVin(key) ==
  IF key \in Numbers THEN First({v \in Vehicles : rec[v].vin = Upper[key]}) ELSE None

ResolveVinFirst(key) ==
  IF key \in Vehicles /\ Live(key) THEN key
  ELSE IF ByVin(key) # None THEN ByVin(key) ELSE ByRegistration(key)

\* resolve_vehicle: an id, else a registration number, else a VIN.
Resolve(key) ==
  IF key \in Vehicles /\ Live(key) THEN key
  ELSE IF ByRegistration(key) # None THEN ByRegistration(key) ELSE ByVin(key)

\* A browser takes "." and ".." in a link for parts of the path, so that the
\* request never gets to a route of the vehicle.
Lookup(key) == IF key \in Dots THEN None ELSE Resolve(key)

\* vehicle_url_key: the registration number, else the VIN, else the id.
UrlKey(v) ==
  CASE rec[v].reg # None -> rec[v].reg
    [] rec[v].reg = None /\ rec[v].vin # None -> rec[v].vin
    [] OTHER -> v

------------------------------------------------------------------------------
(* Storing: what the use cases do with the vehicle that was resolved *)

\* VehicleRepository refuses a number that another live vehicle has.
Taken(v, i) == \E w \in Vehicles \ {v}, f \in Fields : i[f] # None /\ rec[w][f] = i[f]

\* What a use case refuses: no identifier, a malformed one, one that is taken.
Refused(v, i) == i = Blank \/ ~WellFormed(i) \/ Taken(v, i)

Store(v, i, d) ==
  /\ rec' = [rec EXCEPT ![v] = i]
  /\ text' = [text EXCEPT ![v] = d]
  /\ owners' = [n \in Numbers |->
                  IF \E f \in Fields : i[f] # None /\ Upper[i[f]] = Upper[n]
                    THEN owners[n] \union {v} ELSE owners[n]]

\* A new vehicle, repair or image is the latest activity of its vehicle.
Active(v) == recent' = <<v>> \o RemoveFirst(recent, v)

Show(u, kind, v, key) == page' = [page EXCEPT ![u] = [kind |-> kind, shown |-> v, key |-> key]]
NotFound(u) == page' = [page EXCEPT ![u] = NoPage] /\ UNCHANGED store

------------------------------------------------------------------------------
(* routes *)

\* POST /vehicles with what was typed; a refusal shows the form again.
Create(u, v, typed, d) ==
  LET i == Clean(typed) IN
    /\ v \notin minted /\ \A w \in Vehicles \ minted : v <= w
    /\ ~Refused(v, i)
    /\ Store(v, i, d)
    /\ minted' = minted \union {v}
    /\ Active(v)
    /\ page' = [page EXCEPT ![u] = NoPage]
    /\ UNCHANGED repaired

\* GET /vehicles/{key}, from a link or typed by hand.  The links of the page
\* keep the key as it was given; /vehicles/new is the form for a new vehicle.
Visit(u, key) ==
  /\ IF Lookup(key) = None \/ key = New
       THEN page' = [page EXCEPT ![u] = NoPage]
       ELSE Show(u, "detail", Lookup(key), key)
  /\ UNCHANGED store

\* GET of a form resolves the key again and puts the canonical key into it.
\* The upload form belongs to a repair that the page lists.
OpenForm(u, kind) ==
  /\ page[u].kind = "detail"
  /\ kind = "upload" => page[u].shown \in repaired
  /\ LET v == Lookup(page[u].key) IN
       IF v = None THEN NotFound(u)
       ELSE /\ Show(u, kind, IF kind = "upload" THEN page[u].shown ELSE v, UrlKey(v))
            /\ UNCHANGED store

\* A form that was filled in wrongly is shown again, for the vehicle that its
\* key was resolved to.
Rejected(u, v) == Show(u, page[u].kind, v, UrlKey(v)) /\ UNCHANGED store

\* A form acts on whatever vehicle its key leads to by the time it is sent.
Addressed(u, kind) == page[u].kind = kind /\ Lookup(page[u].key) # None
Addressee(u) == Lookup(page[u].key)

SubmitToNobody(u) ==
  /\ page[u].kind \in Forms
  /\ Lookup(page[u].key) = None
  /\ NotFound(u)

EditedByForm(u, v, i, d) ==
  IF Refused(v, i)
    THEN Show(u, "edit", v, IF i.reg # None THEN i.reg ELSE UrlKey(v)) /\ UNCHANGED store
    ELSE /\ Store(v, i, d)
         /\ page' = [page EXCEPT ![u] = NoPage]
         /\ UNCHANGED <<minted, recent, repaired>>

\* POST .../edit stores what the form holds, over whatever is there by now.
Edited(u, v, i, d) ==
  IF Refused(v, i)
    THEN Rejected(u, v)
    ELSE /\ Store(v, i, d)
         /\ page' = [page EXCEPT ![u] = NoPage]
         /\ UNCHANGED <<minted, recent, repaired>>

SubmitEdit(u, typed, d) == Addressed(u, "edit") /\ Edited(u, Addressee(u), Clean(typed), d)

DeletedKeepingRow(u, v, typed) ==
  IF typed \notin {v, rec[v].reg, rec[v].vin}
    THEN Rejected(u, v)
    ELSE /\ rec' = [rec EXCEPT ![v] = Blank]
         /\ text' = [text EXCEPT ![v] = None]
         /\ page' = [page EXCEPT ![u] = NoPage]
         /\ UNCHANGED <<minted, recent, repaired, owners>>

\* POST .../delete: what was typed must be one of the keys of the vehicle.
Deleted(u, v, typed) ==
  IF typed \notin {v, rec[v].reg, rec[v].vin}
    THEN Rejected(u, v)
    ELSE /\ rec' = [rec EXCEPT ![v] = Blank]
         /\ text' = [text EXCEPT ![v] = None]
         /\ recent' = RemoveFirst(recent, v)
         /\ page' = [page EXCEPT ![u] = NoPage]
         /\ UNCHANGED <<minted, repaired, owners>>

SubmitDelete(u, typed) == Addressed(u, "delete") /\ Deleted(u, Addressee(u), typed)

\* POST .../repairs; the date may not parse.
SubmitRepair(u) ==
  /\ Addressed(u, "repair")
  /\ \/ Rejected(u, Addressee(u))
     \/ /\ repaired' = repaired \union {Addressee(u)}
        /\ Active(Addressee(u))
        /\ page' = [page EXCEPT ![u] = NoPage]
        /\ UNCHANGED <<rec, text, minted, owners>>

\* POST .../images: some vehicle must have the key, but the repair is named by
\* its own id, so the image goes to the one the form was opened for.
SubmitImage(u) ==
  /\ Addressed(u, "upload")
  /\ IF Live(page[u].shown) THEN Active(page[u].shown) ELSE UNCHANGED recent
  /\ page' = [page EXCEPT ![u] = NoPage]
  /\ UNCHANGED <<rec, text, minted, repaired, owners>>

Next == \E u \in Users :
  \/ \E v \in Vehicles, i \in Typed, d \in Texts \union {None} : Create(u, v, i, d)
  \/ \E key \in UrlKeys : Visit(u, key)
  \/ \E kind \in Forms : OpenForm(u, kind)
  \/ SubmitToNobody(u)
  \/ \E i \in Typed, d \in Texts \union {None} : SubmitEdit(u, i, d)
  \/ \E typed \in UrlKeys : SubmitDelete(u, typed)
  \/ SubmitRepair(u)
  \/ SubmitImage(u)

Spec == Init /\ [][Next]_vars

------------------------------------------------------------------------------
(* SearchVehicleUseCase *)

\* The best of the scores of registration number, VIN and description; a field
\* that is missing scores 0.
FieldScore(q, n) == IF n = None THEN 0 ELSE Score[q][n]
Best(q, v) == Max({FieldScore(q, n) : n \in {rec[v].reg, rec[v].vin, text[v]}})

\* At most the first n.
FirstFew(s, n) == SubSeq(s, 1, IF Len(s) < n THEN Len(s) ELSE n)

Candidates == FirstFew(recent, Pool)

OutranksByActivity(q, i, j) == i < j

\* Candidates i and j in the order of the sort: by score, then by activity.
Outranks(q, i, j) ==
  \/ Best(q, Candidates[i]) > Best(q, Candidates[j])
  \/ Best(q, Candidates[i]) = Best(q, Candidates[j]) /\ i < j

\* The candidates that match well enough.
Found(q) == {i \in DOMAIN Candidates : Best(q, Candidates[i]) >= Threshold}

\* The place of candidate i in the sorted list: no two have the same rank, for
\* the position breaks ties.
Place(q, i) == Cardinality({j \in Found(q) : Outranks(q, j, i)}) + 1

Results(q) ==
  LET sorted == [n \in 1 .. Cardinality(Found(q)) |-> CHOOSE i \in Found(q) : Place(q, i) = n]
  IN FirstFew([n \in DOMAIN sorted |-> Candidates[sorted[n]]], Limit)

------------------------------------------------------------------------------
(* Properties *)

\* The link that a page, a search result or a redirect gives for a vehicle
\* leads to that vehicle.
LinkResolves(v) == Lookup(UrlKey(v)) = v /\ UrlKey(v) # New

\* vehicle_lookup.py promises a page for each readable key.  The link leads
\* elsewhere in four cases, all of which the validators let through: the
\* registration is "new", it is "." or "..", the number in the link is spelled
\* like the id of another live vehicle, or there is no registration and the VIN
\* is the registration number of another vehicle.
LinksResolveUnlessClash ==
  \A v \in Vehicles : Live(v) =>
    \/ LinkResolves(v)
    \/ rec[v].reg = New
    \/ rec[v].reg \in Dots
    \/ UrlKey(v) \in Vehicles \ {v} /\ Live(UrlKey(v))
    \/ rec[v].reg = None /\ \E w \in Vehicles : rec[w].reg = rec[v].vin

\* Whose key this is: the vehicle with that id, and all that ever had the number.
OwnersOf(key) == {v \in Vehicles : v = key \/ (key \in Numbers /\ v \in owners[key])}
NeverReused == \A key \in UrlKeys : \A v, w \in OwnersOf(key) : v = w

\* A form stays open while others edit, and is resolved when it is sent.  If no
\* number was ever given to two vehicles, nor spelled like the id of another one,
\* it acts on the vehicle that it showed or on none.
FormHitsShown ==
  NeverReused =>
    \A u \in Users : page[u].kind \in Forms => Lookup(page[u].key) \in {page[u].shown, None}

\* The vehicle's registration number, VIN or description is what was searched for.
Exact(q, v) == q \in {rec[v].reg, rec[v].vin, text[v]}

\* A search lists a vehicle of which one field is exactly the query (it may be
\* the description) before any that is only similar, unless the results are
\* full of others that match exactly too, or Pool others were active after it.
ExactFirst ==
  \A q \in Numbers, i \in DOMAIN recent :
    (Exact(q, recent[i]) /\ i <= Pool) =>
      LET r == Results(q) IN
        \/ \E n \in DOMAIN r : r[n] = recent[i] /\ \A m \in 1 .. n : Exact(q, r[m])
        \/ Len(r) = Limit /\ \A m \in DOMAIN r : Exact(q, r[m])
==============================================================================
