----------------------------- MODULE RoutesProofs -----------------------------
(***************************************************************************)
(* Proofs about VehicleRoutes, for any vehicles, numbers and windows.      *)
(***************************************************************************)
EXTENDS VehicleRoutes, FiniteSetTheorems, SequenceTheorems, TLAPS

RecordsOK ==
  /\ rec \in [Vehicles -> Idents]
  /\ text \in [Vehicles -> Texts \union {None}]
  /\ owners \in [Numbers -> SUBSET Vehicles]
  /\ \A v \in Vehicles : rec[v].vin # None => Upper[rec[v].vin] = rec[v].vin
  /\ \A v \in Vehicles : rec[v].vin \notin Dots

\* No two live vehicles share a registration number or a VIN.
Distinct ==
  \A v, w \in Vehicles : \A f \in Fields : rec[v][f] # None /\ rec[v][f] = rec[w][f] => v = w

\* owners forgets nobody who has a number now.
OwnersKnown ==
  \A v \in Vehicles, f \in Fields, n \in Numbers :
    rec[v][f] # None /\ Upper[rec[v][f]] = Upper[n] => v \in owners[n]

\* The key of a page is the id of the vehicle it shows, or a number that this
\* vehicle has or once had.
PagesKeyed ==
  /\ page \in [Users -> [kind : {"none", "detail"} \union Forms,
                         shown : Vehicles \union {None}, key : UrlKeys \union {None}]]
  /\ \A u \in Users : page[u].kind # "none" => page[u].shown \in Vehicles /\ page[u].key \in UrlKeys
  /\ NeverReused => \A u \in Users : page[u].kind # "none" => page[u].shown \in OwnersOf(page[u].key)

Numbering == RecordsOK /\ Distinct /\ OwnersKnown
Inv == Numbering /\ PagesKeyed

------------------------------------------------------------------------------
(* Looking up *)

\* The first of at most one vehicle.
LEMMA FirstOfOne ==
  ASSUME NEW S \in SUBSET Vehicles, \A v, w \in S : v = w
  PROVE  IF S = {} THEN First(S) = None ELSE First(S) \in S
<1>1. CASE S = {}
  BY <1>1 DEF First
<1>2. ASSUME NEW v \in S
      PROVE  First(S) \in S
  <2>1. v \in Nat /\ \A w \in S : v <= w
    BY <1>2, VehiclesAssumption
  <2>2. QED
    BY <1>2, <2>1 DEF First
<1>3. QED
  BY <1>1, <1>2

\* At most one vehicle has a given registration number, and one a given VIN,
\* so that find_by_registration and find_by_vin find it.
LEMMA Finding ==
  ASSUME Numbering, NEW n \in Numbers
  PROVE  /\ IF \E v \in Vehicles : rec[v].reg = n
              THEN ByRegistration(n) \in Vehicles /\ rec[ByRegistration(n)].reg = n
              ELSE ByRegistration(n) = None
         /\ IF \E v \in Vehicles : rec[v].vin = Upper[n]
              THEN ByVin(n) \in Vehicles /\ rec[ByVin(n)].vin = Upper[n]
              ELSE ByVin(n) = None
<1>0. n # None /\ Upper[n] \in Numbers /\ Upper[n] # None
  BY NumbersAssumption, UpperAssumption DEF UrlKeys
<1>1. \A v, w \in {v \in Vehicles : rec[v].reg = n} : v = w
  BY <1>0 DEF Numbering, Distinct, Fields
<1>2. \A v, w \in {v \in Vehicles : rec[v].vin = Upper[n]} : v = w
  BY <1>0 DEF Numbering, Distinct, Fields
<1>3. QED
  BY <1>1, <1>2, FirstOfOne DEF ByRegistration, ByVin

\* An id that is not a number either belongs to nobody else.
LEMMA FindingIds ==
  ASSUME Numbering, NEW v \in Vehicles, v \notin Numbers
  PROVE  ByRegistration(v) = None /\ ByVin(v) = None
<1>1. v # None
  BY NumbersAssumption DEF UrlKeys
<1>2. {w \in Vehicles : rec[w].reg = v} = {}
  BY <1>1 DEF Numbering, RecordsOK, Idents, Fields
<1>3. QED
  BY <1>1, <1>2 DEF ByRegistration, ByVin, First

\* resolve_vehicle gives a vehicle that has the key.
LEMMA Resolving ==
  ASSUME Numbering, NEW key \in UrlKeys, Resolve(key) # None
  PROVE  Resolve(key) \in OwnersOf(key) /\ Live(Resolve(key))
<1>1. CASE key \in Vehicles /\ Live(key)
  BY <1>1 DEF Resolve, OwnersOf
<1>2. CASE ~(key \in Vehicles /\ Live(key))
  <2>1. key \in Numbers
    BY <1>2, FindingIds DEF Resolve, UrlKeys
  <2>2. key # None /\ Upper[key] # None /\ Upper[Upper[key]] = Upper[key]
    BY <2>1, UpperAssumption, NumbersAssumption DEF UrlKeys
  <2>3. /\ Resolve(key) \in Vehicles
        /\ rec[Resolve(key)].reg = key \/ rec[Resolve(key)].vin = Upper[key]
    BY <1>2, <2>1, Finding DEF Resolve
  <2>4. Resolve(key) \in owners[key]
    BY <2>1, <2>2, <2>3 DEF Numbering, OwnersKnown, Fields
  <2>5. Live(Resolve(key))
    BY <2>2, <2>3 DEF Live, Blank, Fields
  <2>6. QED
    BY <2>1, <2>3, <2>4, <2>5 DEF OwnersOf
<1>3. QED
  BY <1>1, <1>2

\* So does a request that gets through.
LEMMA LookingUp ==
  ASSUME Numbering, NEW key \in UrlKeys, Lookup(key) # None
  PROVE  Lookup(key) \in Vehicles /\ Lookup(key) \in OwnersOf(key) /\ Live(Lookup(key))
BY Resolving DEF Lookup, OwnersOf

\* vehicle_url_key gives a key that the vehicle has.
LEMMA Naming ==
  ASSUME Numbering, NEW v \in Vehicles
  PROVE  UrlKey(v) \in UrlKeys /\ v \in OwnersOf(UrlKey(v))
<1>1. \A f \in Fields : rec[v][f] \in Numbers \union {None}
  BY DEF Numbering, RecordsOK, Idents
<1>2. \A f \in Fields : rec[v][f] # None => v \in owners[rec[v][f]]
  BY <1>1 DEF Numbering, OwnersKnown
<1>3. QED
  BY <1>1, <1>2 DEF UrlKey, UrlKeys, OwnersOf, Fields

\* A vehicle that is live has a number, and the link made of it leads back,
\* unless one of the four clashes stands in the way.
LEMMA LinksLead == Numbering => LinksResolveUnlessClash
<1> SUFFICES ASSUME Numbering, NEW v \in Vehicles, Live(v),
                    rec[v].reg # New, rec[v].reg \notin Dots,
                    ~(UrlKey(v) \in Vehicles \ {v} /\ Live(UrlKey(v))),
                    ~(rec[v].reg = None /\ \E w \in Vehicles : rec[w].reg = rec[v].vin)
             PROVE  LinkResolves(v)
  BY DEF LinksResolveUnlessClash
<1>1. rec[v].reg \in Numbers \union {None} /\ rec[v].vin \in Numbers \union {None}
  BY DEF Numbering, RecordsOK, Idents, Fields
<1>2. rec[v].reg # None \/ rec[v].vin # None
  <2>1. rec[v] \in Idents /\ rec[v] # Blank
    BY DEF Numbering, RecordsOK, Live
  <2>2. rec[v] = [f \in Fields |-> rec[v][f]]
    BY <2>1 DEF Idents
  <2>3. QED
    BY <2>1, <2>2 DEF Blank, Fields
<1>3. v # None
  BY NumbersAssumption DEF UrlKeys
<1>4. CASE rec[v].reg # None
  <2>1. UrlKey(v) = rec[v].reg /\ rec[v].reg \in Numbers
    BY <1>1, <1>4 DEF UrlKey
  <2>2. ByRegistration(rec[v].reg) = v
    BY <1>4, <2>1, Finding DEF Numbering, Distinct, Fields
  <2>3. QED
    BY <1>3, <2>1, <2>2 DEF LinkResolves, Lookup, Resolve
<1>5. CASE rec[v].reg = None
  <2>1. UrlKey(v) = rec[v].vin /\ rec[v].vin \in Numbers
    BY <1>1, <1>2, <1>5 DEF UrlKey
  <2>2. Upper[rec[v].vin] = rec[v].vin /\ rec[v].vin \notin Dots
    BY <1>2, <1>5 DEF Numbering, RecordsOK
  <2>3. ByRegistration(rec[v].vin) = None
    BY <1>5, <2>1, Finding
  <2>4. ByVin(rec[v].vin) = v
    BY <1>2, <1>5, <2>1, <2>2, Finding DEF Numbering, Distinct, Fields
  <2>5. rec[v].vin # New
    BY <2>2, NewAssumption
  <2>6. QED
    BY <1>3, <2>1, <2>2, <2>3, <2>4, <2>5 DEF LinkResolves, Lookup, Resolve
<1>6. QED
  BY <1>4, <1>5

------------------------------------------------------------------------------
(* Steps *)

\* Identifiers that nobody else has keep the vehicles distinct when they are
\* stored, and owners only grows.
LEMMA Storing ==
  ASSUME Numbering, NEW v \in Vehicles, NEW i \in Idents, NEW d \in Texts \union {None},
         i.vin # None => Upper[i.vin] = i.vin, ~Refused(v, i), Store(v, i, d)
  PROVE  /\ Numbering'
         /\ \A n \in Numbers : owners[n] \subseteq owners'[n]
<1>1. RecordsOK'
  BY DEF Numbering, RecordsOK, Store, Idents, Refused, WellFormed
<1>2. Distinct'
  <2>1. \A w \in Vehicles \ {v}, f \in Fields : i[f] # None => rec[w][f] # i[f]
    BY DEF Taken, Refused
  <2>2. \A w \in Vehicles, f \in Fields : rec'[w][f] = IF w = v THEN i[f] ELSE rec[w][f]
    BY DEF Store, Numbering, RecordsOK
  <2>3. QED
    BY <2>1, <2>2 DEF Numbering, Distinct
<1>3. OwnersKnown'
  BY DEF Numbering, RecordsOK, OwnersKnown, Store
<1>4. QED
  BY <1>1, <1>2, <1>3 DEF Numbering, RecordsOK, Store

\* What was typed is well formed when it is stored.
LEMMA Cleaning ==
  ASSUME NEW i \in Idents
  PROVE  Clean(i) \in Idents /\ (Clean(i).vin # None => Upper[Clean(i).vin] = Clean(i).vin)
BY UpperAssumption, NumbersAssumption DEF Clean, Idents, Fields, UrlKeys

\* A window that goes blank, or that shows a vehicle with one of its keys, leaves
\* the pages keyed.
LEMMA Showing ==
  ASSUME Inv, NEW u \in Users,
         \A n \in Numbers : owners[n] \subseteq owners'[n],
         \/ page' = [page EXCEPT ![u] = NoPage]
         \/ \E kind \in {"detail"} \union Forms, v \in Vehicles, key \in UrlKeys :
              Show(u, kind, v, key) /\ (NeverReused => v \in OwnersOf(key))
  PROVE  PagesKeyed'
<1>1. \A v \in Vehicles, key \in UrlKeys : v \in OwnersOf(key) => v \in OwnersOf(key)'
  BY DEF OwnersOf
<1>2. NeverReused' => NeverReused
  <2>1. \A key \in UrlKeys : OwnersOf(key) \subseteq OwnersOf(key)'
    BY DEF OwnersOf
  <2>2. QED
    BY <2>1 DEF NeverReused
<1>3. CASE page' = [page EXCEPT ![u] = NoPage]
  BY <1>1, <1>2, <1>3 DEF Inv, PagesKeyed, NoPage
<1>4. ASSUME NEW kind \in {"detail"} \union Forms, NEW v \in Vehicles, NEW key \in UrlKeys,
             Show(u, kind, v, key), NeverReused => v \in OwnersOf(key)
      PROVE  PagesKeyed'
  <2>1. page' = [page EXCEPT ![u] = [kind |-> kind, shown |-> v, key |-> key]] /\ kind # "none"
    BY <1>4 DEF Show, Forms
  <2>2. QED
    BY <1>1, <1>2, <1>4, <2>1 DEF Inv, PagesKeyed
<1>5. QED
  BY <1>3, <1>4

\* A form that is filled in wrongly shows the vehicle it addresses again.
LEMMA Rejecting ==
  ASSUME Inv, NEW u \in Users, NEW kind \in Forms, Addressed(u, kind), Rejected(u, Addressee(u))
  PROVE  Inv'
<1>1. Addressee(u) \in Vehicles /\ page[u].kind \in Forms
  BY LookingUp DEF Inv, PagesKeyed, Addressed, Addressee, Forms
<1>2. UrlKey(Addressee(u)) \in UrlKeys /\ Addressee(u) \in OwnersOf(UrlKey(Addressee(u)))
  BY <1>1, Naming DEF Inv
<1>3. UNCHANGED store /\ Show(u, page[u].kind, Addressee(u), UrlKey(Addressee(u)))
  BY DEF Rejected
<1>4. PagesKeyed'
  BY <1>1, <1>2, <1>3, Showing DEF store
<1>5. QED
  BY <1>3, <1>4 DEF Inv, Numbering, RecordsOK, Distinct, OwnersKnown, store

\* A step that leaves the vehicles alone keeps what is known of them.
LEMMA Keeping ==
  ASSUME Numbering, UNCHANGED <<rec, text, owners>>
  PROVE  Numbering'
BY DEF Numbering, RecordsOK, Distinct, OwnersKnown

------------------------------------------------------------------------------
(* Theorems *)

LEMMA InitInv == Init => Inv
<1> SUFFICES ASSUME Init
             PROVE  Inv
  OBVIOUS
<1>1. Blank \in Idents /\ \A f \in Fields : Blank[f] = None
  BY DEF Blank, Idents
<1>2. Numbering
  BY <1>1, NumbersAssumption, DotsAssumption
     DEF Init, Numbering, RecordsOK, Distinct, OwnersKnown, Fields, UrlKeys
<1>3. PagesKeyed
  BY DEF Init, PagesKeyed, NoPage
<1>4. QED
  BY <1>2, <1>3 DEF Inv

\* One step for each thing that a window can do.
LEMMA StepInv ==
  ASSUME Inv, [Next]_vars
  PROVE  Inv'
<1> USE DEF Inv
<1> DEFINE Blanked(u) == page' = [page EXCEPT ![u] = NoPage]
<1>1. ASSUME NEW u \in Users, NEW v \in Vehicles, NEW i \in Typed, NEW d \in Texts \union {None},
             Create(u, v, i, d)
      PROVE  Inv'
  <2>1. Store(v, Clean(i), d) /\ ~Refused(v, Clean(i)) /\ Blanked(u) /\ i \in Idents
    BY <1>1, TypedAssumption DEF Create
  <2>2. Numbering' /\ \A n \in Numbers : owners[n] \subseteq owners'[n]
    BY <2>1, Cleaning, Storing
  <2>3. QED
    BY <2>1, <2>2, Showing
<1>2. ASSUME NEW u \in Users, NEW key \in UrlKeys, Visit(u, key)
      PROVE  Inv'
  <2>1. CASE Lookup(key) = None \/ key = New
    BY <1>2, <2>1, Showing, Keeping DEF Visit, store
  <2>2. CASE Lookup(key) # None /\ key # New
    <3>1. Show(u, "detail", Lookup(key), key) /\ UNCHANGED store
      BY <1>2, <2>2 DEF Visit
    <3>2. Lookup(key) \in Vehicles /\ Lookup(key) \in OwnersOf(key)
      BY <2>2, LookingUp
    <3>3. QED
      BY <3>1, <3>2, Showing, Keeping DEF store
  <2>3. QED
    BY <2>1, <2>2
<1>3. ASSUME NEW u \in Users, NEW kind \in Forms, OpenForm(u, kind)
      PROVE  Inv'
  <2> DEFINE v == Lookup(page[u].key)
  <2>1. CASE v = None
    BY <1>3, <2>1, Showing, Keeping DEF OpenForm, NotFound, store
  <2>2. CASE v # None
    <3>1. page[u].shown \in Vehicles /\ page[u].key \in UrlKeys
          /\ (NeverReused => page[u].shown \in OwnersOf(page[u].key))
      BY <1>3 DEF OpenForm, PagesKeyed
    <3>2. v \in Vehicles /\ v \in OwnersOf(page[u].key)
      BY <2>2, <3>1, LookingUp
    <3>3. NeverReused => v = page[u].shown
      BY <3>1, <3>2 DEF NeverReused
    <3>4. UrlKey(v) \in UrlKeys /\ v \in OwnersOf(UrlKey(v))
      BY <3>2, Naming
    <3>5. Show(u, kind, IF kind = "upload" THEN page[u].shown ELSE v, UrlKey(v)) /\ UNCHANGED store
      BY <1>3, <2>2 DEF OpenForm
    <3> HIDE DEF v
    <3>6. QED
      BY <3>1, <3>2, <3>3, <3>4, <3>5, Showing, Keeping DEF store
  <2>3. QED
    BY <2>1, <2>2
<1>4. ASSUME NEW u \in Users, SubmitToNobody(u)
      PROVE  Inv'
  BY <1>4, Showing, Keeping DEF SubmitToNobody, NotFound, store
<1>5. ASSUME NEW u \in Users, NEW i \in Typed, NEW d \in Texts \union {None}, SubmitEdit(u, i, d)
      PROVE  Inv'
  <2>1. /\ Addressed(u, "edit") /\ Edited(u, Addressee(u), Clean(i), d) /\ "edit" \in Forms
        /\ i \in Idents
    BY <1>5, TypedAssumption DEF SubmitEdit, Forms
  <2>2. CASE Refused(Addressee(u), Clean(i))
    BY <2>1, <2>2, Rejecting DEF Edited
  <2>3. CASE ~Refused(Addressee(u), Clean(i))
    <3>1. Addressee(u) \in Vehicles
      BY <2>1, LookingUp DEF PagesKeyed, Addressed, Addressee
    <3>2. Store(Addressee(u), Clean(i), d) /\ Blanked(u)
      BY <2>1, <2>3 DEF Edited
    <3>3. Numbering' /\ \A n \in Numbers : owners[n] \subseteq owners'[n]
      BY <2>1, <2>3, <3>1, <3>2, Cleaning, Storing
    <3>4. QED
      BY <3>2, <3>3, Showing
  <2>4. QED
    BY <2>2, <2>3
<1>6. ASSUME NEW u \in Users, NEW typed \in UrlKeys, SubmitDelete(u, typed)
      PROVE  Inv'
  <2> DEFINE v == Addressee(u)
  <2>1. Addressed(u, "delete") /\ Deleted(u, v, typed) /\ "delete" \in Forms
    BY <1>6 DEF SubmitDelete, Forms
  <2>2. CASE typed \notin {v, rec[v].reg, rec[v].vin}
    BY <2>1, <2>2, Rejecting DEF Deleted
  <2>3. CASE typed \in {v, rec[v].reg, rec[v].vin}
    <3>1. /\ rec' = [rec EXCEPT ![v] = Blank] /\ text' = [text EXCEPT ![v] = None]
          /\ Blanked(u) /\ UNCHANGED owners
      BY <2>1, <2>3 DEF Deleted
    <3>2. Numbering'
      <4>1. Blank \in Idents /\ \A f \in Fields : Blank[f] = None
        BY DEF Blank, Idents
      <4>2. QED
        BY <3>1, <4>1, NumbersAssumption, DotsAssumption
           DEF Numbering, RecordsOK, Distinct, OwnersKnown, Fields, UrlKeys
    <3>3. QED
      BY <3>1, <3>2, Showing
  <2>4. QED
    BY <2>2, <2>3
<1>7. ASSUME NEW u \in Users, SubmitRepair(u)
      PROVE  Inv'
  <2>1. CASE Rejected(u, Addressee(u))
    BY <1>7, <2>1, Rejecting DEF SubmitRepair, Forms
  <2>2. CASE Blanked(u) /\ UNCHANGED <<rec, text, owners>>
    BY <2>2, Showing, Keeping
  <2>3. QED
    BY <1>7, <2>1, <2>2 DEF SubmitRepair
<1>8. ASSUME NEW u \in Users, SubmitImage(u)
      PROVE  Inv'
  BY <1>8, Showing, Keeping DEF SubmitImage
<1>9. CASE UNCHANGED vars
  <2>1. Numbering'
    BY <1>9, Keeping DEF vars
  <2>2. PagesKeyed'
    BY <1>9 DEF vars, PagesKeyed, NeverReused, OwnersOf
  <2>3. QED
    BY <2>1, <2>2
<1>10. QED
  BY <1>1, <1>2, <1>3, <1>4, <1>5, <1>6, <1>7, <1>8, <1>9 DEF Next

\* Inv is inductive: vehicles stay distinct, and the pages keyed.
THEOREM Invariance == Spec => []Inv
BY InitInv, StepInv, PTL DEF Spec

\* However vehicles are created, edited and deleted from windows that stay open,
\* the link made for a vehicle leads to it, unless its registration number is
\* "new", "." or "..", or the number in it is spelled like the id of another live
\* vehicle, or is a VIN that is the registration number of another.
THEOREM LinksLeadHome == Spec => []LinksResolveUnlessClash
<1>1. Inv => LinksResolveUnlessClash
  BY LinksLead DEF Inv
<1>2. QED
  BY Invariance, <1>1, PTL

\* As long as no number was given to two vehicles, or to one when it is spelled
\* like the id of another, a form that is sent acts on the vehicle it was opened
\* for, or on none.
THEOREM FormsStayTrue == Spec => []FormHitsShown
<1>1. ASSUME Inv
      PROVE  FormHitsShown
  <2> SUFFICES ASSUME NeverReused, NEW u \in Users, page[u].kind \in Forms,
                      Lookup(page[u].key) # None
               PROVE  Lookup(page[u].key) = page[u].shown
    BY DEF FormHitsShown
  <2>1. page[u].key \in UrlKeys /\ page[u].shown \in OwnersOf(page[u].key)
    BY <1>1 DEF Inv, PagesKeyed, Forms
  <2>2. Lookup(page[u].key) \in OwnersOf(page[u].key)
    BY <1>1, <2>1, LookingUp DEF Inv
  <2>3. QED
    BY <2>1, <2>2 DEF NeverReused
<1>2. QED
  BY Invariance, <1>1, PTL

------------------------------------------------------------------------------
(* The order by last activity lists every live vehicle once *)

Listed ==
  /\ minted \subseteq Vehicles /\ repaired \subseteq minted
  /\ \A v \in Vehicles \ minted : ~Live(v)
  /\ recent \in Seq(Vehicles) /\ IsInjective(recent)
  /\ Range(recent) = {v \in Vehicles : Live(v)}

\* Where the vehicle that is removed stood, and what is left of the others.
LEMMA Removing ==
  ASSUME NEW S, NEW s \in Seq(S), IsInjective(s), NEW v
  PROVE  LET t == RemoveFirst(s, v) IN
           t \in Seq(S) /\ IsInjective(t) /\ Range(t) = Range(s) \ {v}
<1> DEFINE t == RemoveFirst(s, v)
<1>1. CASE \E i \in 1 .. Len(s) : s[i] = v
  <2>1. PICK k \in 1 .. Len(s) : s[k] = v
    BY <1>1
  <2>2. {i \in 1 .. Len(s) : s[i] = v} = {k}
    BY <2>1 DEF IsInjective
  <2>3. SelectInSeq(s, LAMBDA w : w = v) = k
    BY <2>1, <2>2 DEF SelectInSeq, Min
  <2>4. t = SubSeq(s, 1, k - 1) \o SubSeq(s, k + 1, Len(s))
    BY <1>1, <2>3 DEF RemoveFirst, RemoveAt
  <2> HIDE DEF t
  <2>5. /\ t \in Seq(S) /\ Len(t) = Len(s) - 1
        /\ \A n \in 1 .. Len(t) : t[n] = IF n < k THEN s[n] ELSE s[n + 1]
    <3> DEFINE before == SubSeq(s, 1, k - 1)
               after == SubSeq(s, k + 1, Len(s))
    <3>1. /\ before \in Seq(S) /\ Len(before) = k - 1
          /\ \A n \in 1 .. k - 1 : before[n] = s[n]
      BY <2>1
    <3>2. /\ after \in Seq(S) /\ Len(after) = Len(s) - k
          /\ \A n \in 1 .. Len(s) - k : after[n] = s[n + k]
      BY <2>1
    <3>3. t = before \o after
      BY <2>4
    <3> HIDE DEF before, after
    <3>4. /\ t \in Seq(S) /\ Len(t) = Len(before) + Len(after)
          /\ \A n \in 1 .. Len(before) + Len(after) :
               t[n] = IF n <= Len(before) THEN before[n] ELSE after[n - Len(before)]
      <4>1. before \in Seq(S) /\ after \in Seq(S)
        BY <3>1, <3>2
      <4>2. QED
        BY <3>3, <4>1, ConcatProperties, Zenon
    <3>5. k \in Nat /\ Len(s) \in Nat /\ Len(t) = Len(s) - 1
      BY <2>1, <3>1, <3>2, <3>4
    <3>6. ASSUME NEW n \in 1 .. Len(t), n < k PROVE t[n] = s[n]
      BY <3>1, <3>4, <3>5, <3>6
    <3>7. ASSUME NEW n \in 1 .. Len(t), ~(n < k) PROVE t[n] = s[n + 1]
      <4>1. n - (k - 1) \in 1 .. Len(s) - k /\ t[n] = after[n - (k - 1)]
        BY <2>1, <3>1, <3>4, <3>5, <3>7
      <4>2. (n - (k - 1)) + k = n + 1
        BY <2>1
      <4>3. QED
        BY <3>2, <4>1, <4>2
    <3>8. QED
      BY <3>4, <3>5, <3>6, <3>7
  <2>6. IsInjective(t)
    <3>1. SUFFICES ASSUME NEW m \in 1 .. Len(t), NEW n \in 1 .. Len(t), t[m] = t[n] PROVE m = n
      BY <2>5 DEF IsInjective
    <3>2. \A p, q \in 1 .. Len(s) : s[p] = s[q] => p = q
      BY DEF IsInjective
    <3>3. QED
      BY <2>1, <2>5, <3>1, <3>2
  <2>7. Range(t) \subseteq Range(s) \ {v}
    BY <2>1, <2>5 DEF IsInjective, Range
  <2>8. ASSUME NEW x \in Range(s) \ {v} PROVE x \in Range(t)
    <3>1. PICK n \in 1 .. Len(s) : s[n] = x /\ n # k
      BY <2>1, <2>8 DEF Range
    <3>2. CASE n < k
      BY <2>1, <2>5, <3>1, <3>2 DEF Range
    <3>3. CASE n > k
      <4>1. n - 1 \in 1 .. Len(t) /\ t[n - 1] = x
        BY <2>1, <2>5, <3>1, <3>3
      <4>2. QED
        BY <2>5, <4>1 DEF Range
    <3>4. QED
      BY <2>1, <3>1, <3>2, <3>3
  <2>9. QED
    BY <2>5, <2>6, <2>7, <2>8 DEF t
<1>2. CASE ~\E i \in 1 .. Len(s) : s[i] = v
  BY <1>2 DEF RemoveFirst, Range
<1>3. QED
  BY <1>1, <1>2

\* A vehicle whose activity is the latest is first in the list, and in it once.
LEMMA Heading ==
  ASSUME Listed, NEW v \in Vehicles, Active(v)
  PROVE  recent' \in Seq(Vehicles) /\ IsInjective(recent') /\ Range(recent') = Range(recent) \union {v}
<1> DEFINE t == RemoveFirst(recent, v)
<1>1. t \in Seq(Vehicles) /\ IsInjective(t) /\ Range(t) = Range(recent) \ {v}
  BY Removing DEF Listed
<1>2. recent' = <<v>> \o t
  BY DEF Active
<1> HIDE DEF t
<1>3. /\ recent' \in Seq(Vehicles) /\ Len(recent') = Len(t) + 1
      /\ \A n \in 1 .. Len(recent') : recent'[n] = IF n = 1 THEN v ELSE t[n - 1]
  BY <1>1, <1>2
<1>4. \A n \in 1 .. Len(t) : t[n] # v
  BY <1>1 DEF Range
<1>5. IsInjective(recent')
  BY <1>1, <1>3, <1>4 DEF IsInjective
<1>6. Range(recent') \subseteq Range(t) \union {v}
  BY <1>1, <1>3 DEF Range
<1>7. ASSUME NEW x \in Range(t) \union {v} PROVE x \in Range(recent')
  <2>1. CASE x = v
    BY <1>3, <2>1 DEF Range
  <2>2. CASE x \in Range(t)
    <3>1. PICK n \in 1 .. Len(t) : t[n] = x
      BY <1>1, <2>2 DEF Range
    <3>2. n + 1 \in 1 .. Len(recent') /\ recent'[n + 1] = x
      BY <1>1, <1>3, <3>1
    <3>3. QED
      BY <1>3, <3>2 DEF Range
  <2>3. QED
    BY <1>7, <2>1, <2>2
<1>8. QED
  BY <1>1, <1>3, <1>5, <1>6, <1>7

\* The list goes along with every change of the vehicles.
LEMMA ListedStep ==
  ASSUME Inv, Listed, [Next]_vars
  PROVE  Listed'
<1> USE DEF Inv
<1>0. ASSUME UNCHANGED <<rec, minted, recent>>, repaired' \subseteq minted PROVE Listed'
  BY <1>0 DEF Listed, Live
<1>1. ASSUME NEW u \in Users, NEW kind, Addressed(u, kind), kind \in Forms
      PROVE  Addressee(u) \in Vehicles /\ Live(Addressee(u)) /\ Addressee(u) \in minted
  <2>1. page[u].key \in UrlKeys
    BY <1>1 DEF PagesKeyed, Addressed, Forms
  <2>2. QED
    BY <1>1, <2>1, LookingUp DEF Addressed, Addressee, Listed
<1>2. ASSUME NEW u \in Users, NEW v \in Vehicles, NEW i \in Typed, NEW d, Create(u, v, i, d)
      PROVE  Listed'
  <2>1. /\ rec' = [rec EXCEPT ![v] = Clean(i)] /\ Clean(i) # Blank
        /\ minted' = minted \union {v} /\ UNCHANGED repaired /\ Active(v)
    BY <1>2 DEF Create, Store, Refused
  <2>2. \A w \in Vehicles : Live(w)' <=> Live(w) \/ w = v
    BY <2>1 DEF Live, Numbering, RecordsOK
  <2>3. QED
    BY <2>1, <2>2, Heading DEF Listed
<1>3. ASSUME NEW u \in Users, NEW i \in Typed, NEW d, SubmitEdit(u, i, d) PROVE Listed'
  <2>1. CASE UNCHANGED store
    BY <1>0, <2>1 DEF store, Listed
  <2>2. CASE ~UNCHANGED store
    <3>1. /\ rec' = [rec EXCEPT ![Addressee(u)] = Clean(i)] /\ Clean(i) # Blank
          /\ UNCHANGED <<minted, recent, repaired>> /\ Addressed(u, "edit")
      BY <1>3, <2>2 DEF SubmitEdit, Edited, Store, Rejected, Refused
    <3>2. Addressee(u) \in Vehicles /\ Live(Addressee(u))
      BY <1>1, <3>1 DEF Forms
    <3>3. \A w \in Vehicles : Live(w)' <=> Live(w)
      BY <3>1, <3>2 DEF Live, Numbering, RecordsOK
    <3>4. QED
      BY <3>1, <3>3 DEF Listed
  <2>3. QED
    BY <2>1, <2>2
<1>4. ASSUME NEW u \in Users, NEW typed \in UrlKeys, SubmitDelete(u, typed) PROVE Listed'
  <2>1. CASE UNCHANGED store
    BY <1>0, <2>1 DEF store, Listed
  <2>2. CASE ~UNCHANGED store
    <3> DEFINE v == Addressee(u)
    <3>1. /\ rec' = [rec EXCEPT ![v] = Blank] /\ recent' = RemoveFirst(recent, v)
          /\ UNCHANGED <<minted, repaired>>
      BY <1>4, <2>2 DEF SubmitDelete, Deleted, Rejected
    <3>2. \A w \in Vehicles : Live(w)' <=> Live(w) /\ w # v
      BY <3>1 DEF Live, Numbering, RecordsOK
    <3> HIDE DEF v
    <3>3. /\ recent' \in Seq(Vehicles) /\ IsInjective(recent')
          /\ Range(recent') = Range(recent) \ {v}
      BY <3>1, Removing DEF Listed
    <3>4. QED
      BY <3>1, <3>2, <3>3 DEF Listed
  <2>3. QED
    BY <2>1, <2>2
\* The latest activity of a live vehicle, maybe with its first repair.
<1>5. ASSUME NEW v \in Vehicles, Live(v), v \in minted, Active(v), UNCHANGED <<rec, minted>>,
             repaired' \subseteq repaired \union {v}
      PROVE  Listed'
  <2>1. v \in Range(recent)
    BY <1>5 DEF Listed
  <2>2. QED
    BY <1>5, <2>1, Heading DEF Listed, Live
<1>6. ASSUME NEW u \in Users, SubmitRepair(u) PROVE Listed'
  <2>1. CASE Rejected(u, Addressee(u))
    BY <1>0, <2>1 DEF Rejected, store, Listed
  <2>2. CASE ~Rejected(u, Addressee(u))
    BY <1>1, <1>5, <1>6, <2>2 DEF SubmitRepair, Forms
  <2>3. QED
    BY <2>1, <2>2
<1>7. ASSUME NEW u \in Users, SubmitImage(u) PROVE Listed'
  <2>1. CASE Live(page[u].shown)
    <3>1. page[u].shown \in Vehicles
      BY <1>7 DEF SubmitImage, Addressed, PagesKeyed
    <3>2. QED
      BY <1>5, <1>7, <2>1, <3>1 DEF SubmitImage, Listed
  <2>2. CASE ~Live(page[u].shown)
    BY <1>0, <1>7, <2>2 DEF SubmitImage, Listed
  <2>3. QED
    BY <2>1, <2>2
<1>8. ASSUME NEW u \in Users,
             \/ \E key \in UrlKeys : Visit(u, key)
             \/ \E kind \in Forms : OpenForm(u, kind)
             \/ SubmitToNobody(u)
      PROVE  Listed'
  BY <1>0, <1>8 DEF Visit, OpenForm, SubmitToNobody, NotFound, store, Listed
<1>9. CASE UNCHANGED vars
  BY <1>0, <1>9 DEF vars, Listed
<1>10. QED
  BY <1>2, <1>3, <1>4, <1>6, <1>7, <1>8, <1>9 DEF Next

\* Every reachable state is well formed, and the list by activity is what the
\* search takes it to be.
THEOREM Listing == Spec => [](Inv /\ Listed)
<1>1. Init => Listed
  BY DEF Init, Listed, IsInjective, Range, Live
<1>2. Inv /\ Listed /\ [Next]_vars => Listed'
  BY ListedStep
<1>3. QED
  BY <1>1, <1>2, Invariance, PTL DEF Spec

\* In particular the type invariant holds.
THEOREM TypeCorrect == Spec => []TypeOK
<1>1. Inv /\ Listed => TypeOK
  BY DEF Inv, Numbering, RecordsOK, PagesKeyed, Listed, TypeOK
<1>2. QED
  BY <1>1, Listing, PTL

------------------------------------------------------------------------------
(* Search results.  The sort is a total order on the candidates, so that each *)
(* place has one candidate; a candidate that scores 100 is outranked only by  *)
(* others that do, and 100 is the score of an exact match.                    *)

\* A vehicle scores at most 100, and that only with an exact match.
LEMMA Scores ==
  ASSUME Inv, NEW q \in Numbers, NEW v \in Vehicles
  PROVE  Best(q, v) \in 0 .. 100 /\ (Best(q, v) = 100 <=> Exact(q, v))
<1> DEFINE N == {rec[v].reg, rec[v].vin, text[v]}
           F(n) == FieldScore(q, n)
<1>1. N \subseteq Numbers \union Texts \union {None} /\ q # None
  <2>1. rec[v].reg \in Numbers \union {None} /\ rec[v].vin \in Numbers \union {None}
    BY DEF Inv, Numbering, RecordsOK, Idents, Fields
  <2>2. text[v] \in Texts \union {None}
    BY DEF Inv, Numbering, RecordsOK
  <2>3. QED
    BY <2>1, <2>2, NumbersAssumption DEF UrlKeys
<1>2. \A n \in N : F(n) \in 0 .. 100 /\ (F(n) = 100 <=> q = n)
  BY <1>1, ScoreAssumption DEF FieldScore
<1> HIDE DEF F
<1>3. Best(q, v) = Max({F(n) : n \in N})
  BY DEF Best, F
<1>4. \E b \in {F(n) : n \in N} : \A c \in {F(n) : n \in N} : b >= c
  <2> DEFINE a == F(rec[v].reg)
             b == F(rec[v].vin)
             c == F(text[v])
  <2>1. a \in 0 .. 100 /\ b \in 0 .. 100 /\ c \in 0 .. 100
    BY <1>2
  <2>2. {F(n) : n \in N} = {a, b, c}
    OBVIOUS
  <2> HIDE DEF a, b, c, N
  <2>3. QED
    BY <2>1, <2>2
<1> HIDE DEF N
<1>5. Best(q, v) \in {F(n) : n \in N} /\ \A n \in N : Best(q, v) >= F(n)
  BY <1>3, <1>4 DEF Max
<1> DEFINE best == Best(q, v)
<1>6. PICK m \in N : best = F(m)
  BY <1>5
<1>7. best \in 0 .. 100
  BY <1>2, <1>6
<1>8. best = 100 <=> \E n \in N : F(n) = 100
  <2>1. ASSUME NEW n \in N, F(n) = 100 PROVE best = 100
    <3>1. best >= 100
      BY <1>5, <2>1
    <3> HIDE DEF best
    <3>2. QED
      BY <1>7, <3>1
  <2>2. QED
    BY <1>6, <2>1
<1>9. Exact(q, v) <=> \E n \in N : F(n) = 100
  BY <1>2 DEF Exact, N
<1>10. QED
  BY <1>7, <1>8, <1>9

\* The candidates are the first Pool vehicles of the list.
LEMMA CandidatesOfList ==
  ASSUME Inv, Listed
  PROVE  /\ Candidates \in Seq(Vehicles)
         /\ Len(Candidates) = IF Len(recent) < Pool THEN Len(recent) ELSE Pool
         /\ \A i \in 1 .. Len(Candidates) : Candidates[i] = recent[i]
<1>1. Pool \in Nat /\ recent \in Seq(Vehicles)
  BY LimitsAssumption DEF Listed
<1>2. QED
  BY <1>1 DEF Candidates, FirstFew

\* Each candidate that was found has a place of its own, in the order of the
\* sort, and each place its candidate.
LEMMA Places ==
  ASSUME Inv, Listed, NEW q \in Numbers
  PROVE  /\ Cardinality(Found(q)) \in Nat
         /\ \A i \in Found(q) : Place(q, i) \in 1 .. Cardinality(Found(q))
         /\ \A i, j \in Found(q) : i # j /\ Place(q, i) <= Place(q, j) => Outranks(q, i, j)
         /\ \A n \in 1 .. Cardinality(Found(q)) : \E i \in Found(q) : Place(q, i) = n
<1> DEFINE F == Found(q)
           Above(i) == {j \in F : Outranks(q, j, i)}
           place == [i \in F |-> Place(q, i)]
<1>1. F \subseteq 1 .. Len(Candidates) /\ Len(Candidates) \in Nat
  BY CandidatesOfList DEF Found
<1>2. IsFiniteSet(F) /\ Cardinality(F) \in Nat
  <2>1. IsFiniteSet(1 .. Len(Candidates))
    BY <1>1, FS_Interval
  <2>2. IsFiniteSet(F)
    BY <1>1, <2>1, FS_Subset
  <2>3. QED
    BY <2>2, FS_CardinalityType
<1>3. \A i \in F : Best(q, Candidates[i]) \in 0 .. 100
  <2>1. \A i \in F : Candidates[i] \in Vehicles
    BY <1>1, CandidatesOfList
  <2>2. QED
    BY <2>1, Scores
\* Outranks is a strict total order on F.
<1>4. /\ \A i \in F : ~Outranks(q, i, i)
      /\ \A i, j \in F : i # j => Outranks(q, i, j) \/ Outranks(q, j, i)
      /\ \A i, j, k \in F : Outranks(q, i, j) /\ Outranks(q, j, k) => Outranks(q, i, k)
  <2> DEFINE score == [i \in F |-> Best(q, Candidates[i])]
  <2>0. \A i \in F : score[i] \in 0 .. 100
    BY <1>3
  <2>1. \A i \in F : i \in Nat /\ score[i] \in Nat
    <3>1. \A i \in 1 .. Len(Candidates) : i \in Nat
      BY <1>1
    <3>2. \A n \in 0 .. 100 : n \in Nat
      OBVIOUS
    <3> HIDE DEF score, F
    <3>3. QED
      BY <1>1, <2>0, <3>1, <3>2, Zenon
  <2>2. \A i, j \in F : Outranks(q, i, j) <=> score[i] > score[j] \/ (score[i] = score[j] /\ i < j)
    BY DEF Outranks
  <2> HIDE DEF score
  <2>3. QED
    BY <2>1, <2>2
<1>5. \A i \in F : Place(q, i) = Cardinality(Above(i)) + 1
  BY DEF Place
<1>6. \A i \in F : IsFiniteSet(Above(i)) /\ Cardinality(Above(i)) \in Nat
  BY <1>2, FS_Subset, FS_CardinalityType
<1>7. ASSUME NEW i \in F PROVE Place(q, i) \in 1 .. Cardinality(F)
  <2>1. Above(i) \subseteq F /\ Above(i) # F
    BY <1>4
  <2>2. Cardinality(Above(i)) < Cardinality(F)
    BY <1>2, <1>6, <2>1, FS_Subset
  <2>3. QED
    BY <1>2, <1>5, <1>6, <2>2
<1>8. ASSUME NEW i \in F, NEW j \in F, Outranks(q, j, i) PROVE Place(q, j) < Place(q, i)
  <2>1. Above(j) \subseteq Above(i) /\ Above(j) # Above(i)
    BY <1>4, <1>8
  <2>2. Cardinality(Above(j)) < Cardinality(Above(i))
    BY <1>6, <2>1, FS_Subset
  <2>3. QED
    BY <1>5, <1>6, <2>2
<1>9. \A i, j \in F : i # j /\ Place(q, i) <= Place(q, j) => Outranks(q, i, j)
  <2>1. \A i \in F : Place(q, i) \in Nat
    <3>1. \A i \in F : Place(q, i) \in 1 .. Cardinality(F)
      BY <1>7
    <3>2. \A k \in 1 .. Cardinality(F) : k \in Nat
      BY <1>2
    <3>3. QED
      BY <3>1, <3>2
  <2>2. \A i, j \in F : Outranks(q, j, i) => ~(Place(q, i) <= Place(q, j))
    BY <1>8, <2>1
  <2>3. QED
    BY <1>4, <2>2
\* An injection of F into as many places reaches them all.
<1>10. place \in Injection(F, 1 .. Cardinality(F))
  <2>1. \A i, j \in F : Place(q, i) = Place(q, j) => i = j
    <3>1. SUFFICES ASSUME NEW i \in F, NEW j \in F, Place(q, i) = Place(q, j), i # j PROVE FALSE
      OBVIOUS
    <3>2. Outranks(q, i, j) /\ Place(q, i) \in Nat
      BY <1>7, <1>9, <3>1
    <3>3. QED
      BY <1>8, <3>1, <3>2
  <2>2. QED
    BY <1>7, <2>1 DEF Injection, IsInjective
<1>11. IsFiniteSet(1 .. Cardinality(F)) /\ Cardinality(1 .. Cardinality(F)) = Cardinality(F)
  BY <1>2, FS_Interval
<1>12. place \in Surjection(F, 1 .. Cardinality(F))
  BY <1>10, <1>11, FS_Injection
<1>13. \A n \in 1 .. Cardinality(F) : \E i \in F : Place(q, i) = n
  BY <1>12 DEF Surjection
<1>14. QED
  BY <1>2, <1>7, <1>9, <1>13

\* The n-th result is the candidate in place n.
LEMMA ResultsInPlace ==
  ASSUME Inv, Listed, NEW q \in Numbers
  PROVE  LET r == Results(q)
             c == Cardinality(Found(q))
         IN  /\ Len(r) = IF c < Limit THEN c ELSE Limit
             /\ DOMAIN r = 1 .. Len(r)
             /\ \A n \in 1 .. Len(r) : \E i \in Found(q) : Place(q, i) = n /\ r[n] = Candidates[i]
<1> DEFINE c == Cardinality(Found(q))
           sorted == [n \in 1 .. c |-> CHOOSE i \in Found(q) : Place(q, i) = n]
           s == [n \in 1 .. c |-> Candidates[sorted[n]]]
<1>1. c \in Nat /\ Limit \in Nat
  BY Places, LimitsAssumption
<1>2. \A n \in 1 .. c : sorted[n] \in Found(q) /\ Place(q, sorted[n]) = n
  BY Places
<1>3. \A n \in 1 .. c : Candidates[sorted[n]] \in Vehicles
  <2>1. \A i \in Found(q) : Candidates[i] \in Vehicles
    BY CandidatesOfList DEF Found
  <2> HIDE DEF sorted
  <2>2. QED
    BY <1>2, <2>1
<1>4. Results(q) = FirstFew(s, Limit)
  BY DEF Results
<1> HIDE DEF sorted
<1>5. s \in Seq(Vehicles) /\ Len(s) = c /\ \A n \in 1 .. c : s[n] = Candidates[sorted[n]]
  BY <1>1, <1>3, IsASeq
<1> HIDE DEF s, c
<1> DEFINE m == IF c < Limit THEN c ELSE Limit
<1>6. m \in Nat /\ m <= c /\ Results(q) = SubSeq(s, 1, m)
  BY <1>1, <1>4, <1>5 DEF FirstFew
<1>7. /\ Len(Results(q)) = m /\ DOMAIN Results(q) = 1 .. m
      /\ \A n \in 1 .. m : Results(q)[n] = s[n]
  BY <1>5, <1>6
<1>8. \A n \in 1 .. m : n \in 1 .. c
  BY <1>1, <1>6
<1>9. QED
  BY <1>2, <1>5, <1>7, <1>8 DEF c

\* A search lists an exact match before all that are only similar, unless the
\* results are full of others that match exactly, or Pool others were active
\* after it.
THEOREM ExactOnesFirst == Spec => []ExactFirst
<1>1. ASSUME Inv, Listed PROVE ExactFirst
  <2> SUFFICES ASSUME NEW q \in Numbers, NEW i \in DOMAIN recent, Exact(q, recent[i]), i <= Pool
               PROVE  LET r == Results(q) IN
                        \/ \E n \in DOMAIN r : r[n] = recent[i] /\ \A m \in 1 .. n : Exact(q, r[m])
                        \/ Len(r) = Limit /\ \A m \in DOMAIN r : Exact(q, r[m])
    BY DEF ExactFirst
  <2> DEFINE r == Results(q)
             c == Cardinality(Found(q))
             p == Place(q, i)
  <2>0. \A j \in Found(q) : /\ Best(q, Candidates[j]) \in 0 .. 100
                            /\ Best(q, Candidates[j]) = 100 <=> Exact(q, Candidates[j])
    <3>1. \A j \in Found(q) : Candidates[j] \in Vehicles
      BY <1>1, CandidatesOfList DEF Found
    <3>2. QED
      BY <1>1, <3>1, Scores
  <2>1. i \in 1 .. Len(Candidates) /\ Candidates[i] = recent[i]
    <3>1. i \in 1 .. Len(recent) /\ Len(recent) \in Nat /\ Pool \in Nat
      BY <1>1, LimitsAssumption DEF Listed
    <3>2. i <= Len(Candidates)
      BY <1>1, <3>1, CandidatesOfList
    <3>3. QED
      BY <1>1, <3>1, <3>2, CandidatesOfList
  <2>2. i \in Found(q) /\ Best(q, Candidates[i]) = 100
    <3>1. Candidates[i] \in Vehicles /\ DOMAIN Candidates = 1 .. Len(Candidates)
      BY <1>1, <2>1, CandidatesOfList
    <3>2. Best(q, Candidates[i]) = 100
      BY <1>1, <2>1, <3>1, Scores
    <3>3. QED
      BY <2>1, <3>1, <3>2 DEF Found, Threshold
  <2>3. c \in Nat /\ p \in 1 .. c /\ Limit \in Nat
    BY <1>1, <2>2, Places, LimitsAssumption
  <2>4. /\ Len(r) = IF c < Limit THEN c ELSE Limit
        /\ DOMAIN r = 1 .. Len(r)
        /\ \A n \in 1 .. Len(r) : \E j \in Found(q) : Place(q, j) = n /\ r[n] = Candidates[j]
    BY <1>1, ResultsInPlace
  <2> HIDE DEF r, c, p
  \* Up to the place of i there are only candidates that score as much as it does.
  <2>5. ASSUME NEW m \in 1 .. Len(r), m <= p PROVE Exact(q, r[m])
    <3>1. PICK j \in Found(q) : Place(q, j) = m /\ r[m] = Candidates[j]
      BY <2>4
    <3>2. j = i \/ Outranks(q, j, i)
      BY <1>1, <2>2, <2>5, <3>1, Places DEF p
    <3>3. Best(q, Candidates[j]) \in 0 .. 100 /\ Best(q, Candidates[i]) = 100
      BY <2>0, <2>2
    <3>4. Best(q, Candidates[j]) = 100
      <4>1. CASE j = i
        BY <3>3, <4>1
      <4>2. CASE Outranks(q, j, i)
        <5>1. Best(q, Candidates[j]) > 100 \/ Best(q, Candidates[j]) = 100
          BY <3>3, <4>2 DEF Outranks
        <5> DEFINE b == Best(q, Candidates[j])
        <5>2. b \in 0 .. 100 /\ (b > 100 \/ b = 100)
          BY <3>3, <5>1
        <5> HIDE DEF b
        <5>3. b = 100
          BY <5>2
        <5>4. QED
          BY <5>3 DEF b
      <4>3. QED
        BY <3>2, <4>1, <4>2
    <3>5. QED
      BY <2>0, <3>1, <3>4
  <2>6. CASE p <= Limit
    <3>1. p \in 1 .. Len(r)
      BY <2>3, <2>4, <2>6
    <3>2. PICK j \in Found(q) : Place(q, j) = p /\ r[p] = Candidates[j]
      BY <2>4, <3>1
    <3>3. j = i
      <4>1. SUFFICES ASSUME j # i PROVE FALSE
        OBVIOUS
      <4>2. Outranks(q, i, j) /\ Outranks(q, j, i)
        BY <1>1, <2>2, <2>3, <3>2, <4>1, Places DEF p
      <4>3. Best(q, Candidates[j]) \in 0 .. 100 /\ Best(q, Candidates[i]) = 100
        BY <2>0, <2>2
      <4>4. i \in Nat /\ j \in Nat
        BY <1>1, <2>2, CandidatesOfList DEF Found
      <4>5. QED
        BY <4>2, <4>3, <4>4 DEF Outranks
    <3>4. r[p] = recent[i]
      BY <2>1, <3>2, <3>3
    <3>5. \A m \in 1 .. p : Exact(q, r[m])
      BY <2>3, <2>5, <3>1
    <3>6. QED
      BY <2>4, <3>1, <3>4, <3>5 DEF r
  <2>7. CASE p > Limit
    <3>1. Len(r) = Limit
      BY <2>3, <2>4, <2>7
    <3>2. \A m \in 1 .. Len(r) : Exact(q, r[m])
      BY <2>3, <2>5, <2>7, <3>1
    <3>3. QED
      BY <2>4, <3>1, <3>2 DEF r
  <2>8. QED
    BY <2>3, <2>6, <2>7
<1>2. QED
  BY <1>1, Listing, PTL
==============================================================================
