--------------------------- MODULE Listings_proofs ---------------------------
(* Whatever the users, listings, media, requests and bodies: no orphans,    *)
(* only the owner changes a listing, calm reads are exact, and a walk       *)
(* through the pages shows all that stayed.                                 *)
EXTENDS Listings, FiniteSetTheorems, TLAPS

USE IdAssumption, BoundAssumption

\* The tables and the writing requests.
TablesType ==
    /\ row \in [Listing -> ListingRow]
    /\ media \in [Media -> MediaRow]
    /\ fav \in [User -> [Listing -> Nat]]
    /\ clock \in Nat
    /\ req \in [Worker -> Request]

\* An id that was never used has an empty row, and so has one that is gone.
RowsHold ==
    \A l \in Listing :
        /\ row[l].born = 0 => ~Row(l)
        /\ ~Row(l) => row[l].price = 0 /\ row[l].status = "avaiable"

\* What a request may rely on since its check.
RequestHolds(w) ==
    LET held == req[w] IN
    /\ held.stage \in {"insert", "favorite"} => held.stamp # 0 /\ held.user \in User
    /\ held.stage = "insert" => ValidCreate(held.form)
    /\ held.stage \in {"update", "delete", "media"} =>
        /\ held.user \in User /\ held.listing \in Listing
        /\ row[held.listing].born # 0
        /\ Row(held.listing) => row[held.listing].owner = held.user
    /\ held.stage = "favorite" => held.listing \in Listing
    /\ held.stage = "update" =>
        /\ held.form.price # None => ParsePrice(held.form.price)
        /\ held.form.status # None => held.form.status \in Status

Writes == TablesType /\ RowsHold /\ NoOrphans /\ \A w \in Worker : RequestHolds(w)

\* What no step does to a row or a favorite that is there.
RowsStep ==
    \A l \in Listing :
        row[l].born # 0 => /\ row'[l].born = row[l].born
                           /\ Row(l)' => Row(l) /\ row'[l].owner = row[l].owner
FavsStep == \A u \in User, l \in Listing : fav[u][l] # 0 => fav'[u][l] \in {fav[u][l], 0}

\* Readers notice what is written.
Noticed == UNCHANGED <<row, media, fav, read>> \/ Observe(row', fav')

TablesStep == TablesType' /\ RowsHold' /\ NoOrphans' /\ RowsStep /\ FavsStep /\ Noticed

WriteStep(w) ==
    /\ TablesStep
    /\ \A v \in Worker \ {w} : req'[v] = req[v]
    /\ RequestHolds(w)'

-----------------------------------------------------------------------------
(* Requests *)

LEMMA NoFormType == NoForm \in Form /\ NoForm.price = None /\ NoForm.status = None
BY DEF NoForm, Form

LEMMA IdleType == Idle \in Request
BY NoFormType DEF Idle, Request

LEMMA NothingChanges ==
    ASSUME Writes, UNCHANGED <<row, media, fav>>
    PROVE  RowsHold' /\ NoOrphans' /\ RowsStep /\ FavsStep
BY DEF Writes, RowsHold, NoOrphans, RowsStep, FavsStep, Row

LEMMA StartEffect ==
    ASSUME Writes, NEW w \in Worker, NEW request \in Request, Start(w, request),
           UNCHANGED <<row, media, fav, read>>
    PROVE  /\ TablesType' /\ RowsHold' /\ NoOrphans' /\ RowsStep /\ FavsStep /\ Noticed
           /\ \A v \in Worker \ {w} : req'[v] = req[v]
           /\ req'[w].stage = request.stage /\ req'[w].user = request.user
           /\ req'[w].listing = request.listing /\ req'[w].form = request.form
           /\ req'[w].stamp # 0
<1>1. clock + 1 \in Nat /\ clock + 1 # 0
    BY DEF Writes, TablesType
<1>2. /\ [request EXCEPT !.stamp = clock + 1] \in Request
      /\ [request EXCEPT !.stamp = clock + 1].stamp = clock + 1
    BY <1>1 DEF Request
<1>3. TablesType' /\ req'[w] = [request EXCEPT !.stamp = clock + 1]
    BY <1>1, <1>2 DEF Writes, TablesType, Start, Tick
<1>4. \A v \in Worker \ {w} : req'[v] = req[v]
    BY DEF Start, Writes, TablesType
<1>5. /\ req'[w].stage = request.stage /\ req'[w].user = request.user
      /\ req'[w].listing = request.listing /\ req'[w].form = request.form
      /\ req'[w].stamp # 0
    BY <1>1, <1>3 DEF Request
<1> QED BY <1>3, <1>4, <1>5, NothingChanges DEF Noticed

LEMMA FinishEffect ==
    ASSUME Writes, NEW w \in Worker, Finish(w)
    PROVE  /\ req' \in [Worker -> Request]
           /\ \A v \in Worker \ {w} : req'[v] = req[v]
           /\ RequestHolds(w)'
<1>1. req'[w] = Idle /\ Idle.stage = "idle"
    BY DEF Finish, Writes, TablesType, Idle
<1>2. RequestHolds(w)'
    BY <1>1 DEF RequestHolds
<1> QED BY <1>2, IdleType DEF Finish, Writes, TablesType

LEMMA RefuseEffect ==
    ASSUME Writes, NEW w \in Worker, Refuse(w)
    PROVE  /\ req' \in [Worker -> Request]
           /\ \A v \in Worker \ {w} : req'[v] = req[v]
           /\ RequestHolds(w)'
<1>1. req[w] \in Request
    BY DEF Writes, TablesType
<1>2. [req[w] EXCEPT !.stage = "refused"] \in Request
    BY <1>1 DEF Request
<1>3. req'[w] = [req[w] EXCEPT !.stage = "refused"] /\ req'[w].stage = "refused"
    BY <1>1 DEF Refuse, Writes, TablesType, Request
<1>4. RequestHolds(w)'
    BY <1>3 DEF RequestHolds
<1> QED BY <1>2, <1>4 DEF Refuse, Writes, TablesType

\* Every request starts with what it relies on.
LEMMA ArriveStep ==
    ASSUME Writes, FormAssumption, NEW w \in Worker, NEW u \in User, Arrive(w, u)
    PROVE  WriteStep(w)
<1>1. ASSUME NEW f \in CreateForm, CreateListing(w, u, f)
      PROVE  WriteStep(w)
    <2> DEFINE request == [Idle EXCEPT !.stage = "insert", !.user = u, !.form = f]
    <2>1. request \in Request /\ request.stage = "insert" /\ request.user = u /\ request.form = f
        BY FormAssumption, IdleType DEF Request, Idle
    <2>2. Start(w, request) /\ ValidCreate(f) /\ UNCHANGED <<row, media, fav, read>>
        BY <1>1 DEF CreateListing
    <2> HIDE DEF request
    <2>3. RequestHolds(w)'
        BY <2>1, <2>2, StartEffect DEF RequestHolds, ValidCreate
    <2> QED BY <2>1, <2>2, <2>3, StartEffect DEF WriteStep, TablesStep
<1>2. ASSUME NEW l \in Listing, AssertOwner(u, l), NEW request \in Request,
             request.stage \in {"update", "delete", "media"},
             request.user = u, request.listing = l,
             request.stage = "update" =>
                /\ request.form.price # None => ParsePrice(request.form.price)
                /\ request.form.status # None => request.form.status \in Status,
             Start(w, request), UNCHANGED <<row, media, fav, read>>
      PROVE  WriteStep(w)
    <2>1. row[l].born # 0
        BY <1>2 DEF AssertOwner, Writes, RowsHold
    <2>2. Row(l)' <=> Row(l)
        BY <1>2 DEF Row
    <2>3. RequestHolds(w)'
        BY <1>2, <2>1, <2>2, StartEffect DEF RequestHolds, AssertOwner, ParsePrice
    <2> QED BY <1>2, <2>3, StartEffect DEF WriteStep, TablesStep
<1>3. ASSUME NEW l \in Listing, NEW f \in UpdateForm, UpdateListing(w, u, l, f)
      PROVE  WriteStep(w)
    <2> DEFINE request == [Idle EXCEPT !.stage = "update", !.user = u, !.listing = l, !.form = f]
    <2>1. /\ request \in Request /\ request.stage = "update" /\ request.user = u
          /\ request.listing = l /\ request.form = f
        BY FormAssumption, IdleType DEF Request, Idle
    <2> HIDE DEF request
    <2>2. Start(w, request) /\ ValidUpdate(f) /\ AssertOwner(u, l) /\ UNCHANGED <<row, media, fav, read>>
        BY <1>3 DEF UpdateListing, request
    <2> QED BY <1>2, <2>1, <2>2 DEF ValidUpdate
<1>4. ASSUME NEW l \in Listing, NEW s \in StatusText, UpdateListingStatus(w, u, l, s)
      PROVE  WriteStep(w)
    <2> DEFINE form == [NoForm EXCEPT !.status = s]
               request == [Idle EXCEPT !.stage = "update", !.user = u, !.listing = l, !.form = form]
    <2>1. form \in Form /\ form.price = None /\ form.status = s
        BY DEF NoForm, Form
    <2> HIDE DEF form
    <2>2. /\ request \in Request /\ request.stage = "update" /\ request.user = u
          /\ request.listing = l /\ request.form = form
        BY <2>1, IdleType DEF Request, Idle
    <2> HIDE DEF request
    <2>3. Start(w, request) /\ ValidStatus(s) /\ AssertOwner(u, l) /\ UNCHANGED <<row, media, fav, read>>
        BY <1>4 DEF UpdateListingStatus, request, form
    <2> QED BY <1>2, <2>1, <2>2, <2>3 DEF ValidStatus, Status
<1>5. ASSUME NEW l \in Listing, DeleteListing(w, u, l)
      PROVE  WriteStep(w)
    <2> DEFINE request == [Idle EXCEPT !.stage = "delete", !.user = u, !.listing = l]
    <2>1. request \in Request /\ request.stage = "delete" /\ request.user = u /\ request.listing = l
        BY IdleType DEF Request, Idle
    <2> HIDE DEF request
    <2>2. Start(w, request) /\ AssertOwner(u, l) /\ UNCHANGED <<row, media, fav, read>>
        BY <1>5 DEF DeleteListing, request
    <2> QED BY <1>2, <2>1, <2>2
<1>6. ASSUME NEW l \in Listing, NEW o \in Order, AddMedia(w, u, l, o)
      PROVE  WriteStep(w)
    <2> DEFINE request == [Idle EXCEPT !.stage = "media", !.user = u, !.listing = l, !.order = o]
    <2>1. request \in Request /\ request.stage = "media" /\ request.user = u /\ request.listing = l
        BY FormAssumption, IdleType DEF Request, Idle
    <2> HIDE DEF request
    <2>2. Start(w, request) /\ AssertOwner(u, l) /\ UNCHANGED <<row, media, fav, read>>
        BY <1>6 DEF AddMedia, request
    <2> QED BY <1>2, <2>1, <2>2
<1>7. ASSUME NEW l \in Listing, AddFavorite(w, u, l)
      PROVE  WriteStep(w)
    <2> DEFINE request == [Idle EXCEPT !.stage = "favorite", !.user = u, !.listing = l]
    <2>1. request \in Request /\ request.stage = "favorite" /\ request.user = u /\ request.listing = l
        BY IdleType DEF Request, Idle
    <2> HIDE DEF request
    <2>2. Start(w, request) /\ UNCHANGED <<row, media, fav, read>>
        BY <1>7 DEF AddFavorite, request
    <2>3. RequestHolds(w)'
        BY <2>1, <2>2, StartEffect DEF RequestHolds
    <2> QED BY <2>1, <2>2, <2>3, StartEffect DEF WriteStep, TablesStep
<1> QED BY <1>1, <1>3, <1>4, <1>5, <1>6, <1>7 DEF Arrive

-----------------------------------------------------------------------------
(* The writes *)

LEMMA NoRowType == NoRow \in ListingRow /\ NoRow.owner = None /\ NoMedia \in MediaRow
BY DEF NoRow, ListingRow, Status, NoMedia, MediaRow

\* An insert takes an id that was never used.
LEMMA InsertStep ==
    ASSUME Writes, FormAssumption, NEW w \in Worker, Insert(w)
    PROVE  WriteStep(w)
<1>1. CASE Refuse(w) /\ UNCHANGED <<row, read>>
    <2>1. UNCHANGED <<row, media, fav, clock, read>>
        BY <1>1 DEF Insert
    <2> QED BY <1>1, <2>1, RefuseEffect, NothingChanges DEF WriteStep, TablesStep, Noticed, Writes, TablesType
<1>2. ASSUME NEW l \in Listing, row[l].born = 0, Finish(w), Observe(row', fav),
             row' = [row EXCEPT ![l] =
                        [owner |-> req[w].user, price |-> req[w].form.price.n,
                         status |-> DefaultStatus, born |-> req[w].stamp]]
      PROVE  WriteStep(w)
    <2> DEFINE new == [owner |-> req[w].user, price |-> req[w].form.price.n,
                       status |-> DefaultStatus, born |-> req[w].stamp]
    <2>1. UNCHANGED <<media, fav, clock>> /\ req[w].stage = "insert"
        BY DEF Insert
    <2>2. /\ req[w].user \in User /\ req[w].stamp \in Nat /\ req[w].stamp # 0
          /\ ValidCreate(req[w].form) /\ req[w].form \in Form
        BY <2>1 DEF Writes, TablesType, Request, RequestHolds
    <2>3. req[w].form.price.n \in Nat
        BY <2>2, FormAssumption DEF ValidCreate, ParsePrice, Form
    <2>4. new \in ListingRow /\ new.born # 0 /\ new.owner # None
        BY <2>2, <2>3 DEF ListingRow, DefaultStatus, Status
    <2> HIDE DEF new
    <2>5. ~Row(l)
        BY <1>2 DEF Writes, RowsHold
    <2>6. /\ row' \in [Listing -> ListingRow] /\ row'[l] = new
          /\ \A k \in Listing \ {l} : row'[k] = row[k]
        BY <1>2, <2>4 DEF Writes, TablesType, new
    <2>7. TablesType'
        BY <1>2, <2>1, <2>6, FinishEffect DEF Writes, TablesType
    <2>8. RowsHold'
        BY <2>4, <2>6 DEF Writes, RowsHold, Row
    <2>9. NoOrphans'
        BY <2>1, <2>4, <2>6 DEF Writes, NoOrphans, Row, TablesType, MediaRow
    <2>10. RowsStep /\ FavsStep
        BY <1>2, <2>1, <2>6 DEF RowsStep, FavsStep, Row
    <2>11. Noticed
        BY <1>2, <2>1 DEF Noticed
    <2> QED BY <1>2, <2>7, <2>8, <2>9, <2>10, <2>11, FinishEffect DEF WriteStep, TablesStep
<1> QED BY <1>1, <1>2 DEF Insert

LEMMA UpdateStep ==
    ASSUME Writes, FormAssumption, NEW w \in Worker, Update(w)
    PROVE  WriteStep(w)
<1> DEFINE l == req[w].listing
           f == req[w].form
<1>1. CASE Refuse(w) /\ UNCHANGED <<row, read>>
    <2>1. UNCHANGED <<row, media, fav, clock, read>>
        BY <1>1 DEF Update
    <2> QED BY <1>1, <2>1, RefuseEffect, NothingChanges DEF WriteStep, TablesStep, Noticed, Writes, TablesType
<1>2. CASE Finish(w) /\ UNCHANGED <<row, read>>
    <2>1. UNCHANGED <<row, media, fav, clock, read>>
        BY <1>2 DEF Update
    <2> QED BY <1>2, <2>1, FinishEffect, NothingChanges DEF WriteStep, TablesStep, Noticed, Writes, TablesType
<1>3. ASSUME Row(l), Finish(w), Observe(row', fav),
             row' = [row EXCEPT ![l].price = IF f.price = None THEN @ ELSE f.price.n,
                                ![l].status = IF f.status = None THEN @ ELSE f.status]
      PROVE  WriteStep(w)
    <2>1. UNCHANGED <<media, fav, clock>> /\ req[w].stage = "update"
        BY DEF Update
    <2>2. /\ l \in Listing /\ row[l].born # 0 /\ f \in Form
          /\ f.price # None => ParsePrice(f.price)
          /\ f.status # None => f.status \in Status
        BY <2>1 DEF Writes, TablesType, Request, RequestHolds
    <2>3. f.price # None => f.price.n \in Nat
        BY <2>2, FormAssumption DEF ParsePrice, Form
    <2>4. row[l] \in ListingRow
        BY <2>2 DEF Writes, TablesType
    <2> HIDE DEF l, f
    <2>5. /\ row'[l] \in ListingRow /\ row'[l].born = row[l].born /\ row'[l].owner = row[l].owner
          /\ \A k \in Listing \ {l} : row'[k] = row[k]
          /\ DOMAIN row' = Listing /\ row' = [k \in Listing |-> row'[k]]
        BY <1>3, <2>2, <2>3, <2>4 DEF Writes, TablesType, ListingRow
    <2>6. row' \in [Listing -> ListingRow]
        BY <2>5 DEF Writes, TablesType
    <2>7. TablesType'
        BY <1>3, <2>1, <2>6, FinishEffect DEF Writes, TablesType
    <2>8. RowsHold'
        BY <1>3, <2>2, <2>5 DEF Writes, RowsHold, Row
    <2>9. NoOrphans'
        <3>1. \A k \in Listing : Row(k)' <=> Row(k)
            BY <2>2, <2>5 DEF Row
        <3>2. \A m \in Media : media[m].listing \in Listing \cup {None}
            BY DEF Writes, TablesType, MediaRow
        <3> QED BY <2>1, <3>1, <3>2 DEF Writes, NoOrphans
    <2>10. RowsStep /\ FavsStep
        BY <2>1, <2>2, <2>5 DEF RowsStep, FavsStep, Row
    <2>11. Noticed
        BY <1>3, <2>1 DEF Noticed
    <2> QED BY <1>3, <2>7, <2>8, <2>9, <2>10, <2>11, FinishEffect DEF WriteStep, TablesStep
<1> QED BY <1>1, <1>2, <1>3 DEF Update

\* The cascade takes the listing's media and favorites with it.
LEMMA DeleteStep ==
    ASSUME Writes, NEW w \in Worker, Delete(w)
    PROVE  WriteStep(w)
<1> DEFINE l == req[w].listing
<1>1. /\ req[w].stage = "delete" /\ Finish(w) /\ Observe(row', fav') /\ clock' = clock
      /\ row' = [row EXCEPT ![l] = [NoRow EXCEPT !.born = row[l].born]]
      /\ media' = [m \in Media |-> IF media[m].listing = l THEN NoMedia ELSE media[m]]
      /\ fav' = [u \in User |-> [fav[u] EXCEPT ![l] = 0]]
    BY DEF Delete
<1>2. l \in Listing /\ row[l].born # 0
    BY <1>1 DEF Writes, RequestHolds
<1> HIDE DEF l
<1>3. row[l] \in ListingRow
    BY <1>2 DEF Writes, TablesType
<1>4. /\ row' \in [Listing -> ListingRow] /\ row'[l].born = row[l].born /\ row'[l].owner = None
      /\ row'[l].price = 0 /\ row'[l].status = "avaiable"
      /\ \A k \in Listing \ {l} : row'[k] = row[k]
    BY <1>1, <1>2, <1>3 DEF Writes, TablesType, ListingRow, NoRow, Status
<1>5. /\ media' \in [Media -> MediaRow]
      /\ \A m \in Media : media'[m].listing # None => media'[m].listing # l /\ media'[m] = media[m]
    BY <1>1, NoRowType DEF Writes, TablesType, NoMedia
<1>6. /\ fav' \in [User -> [Listing -> Nat]]
      /\ \A u \in User : fav'[u][l] = 0 /\ \A k \in Listing \ {l} : fav'[u][k] = fav[u][k]
    BY <1>1, <1>2 DEF Writes, TablesType
<1>7. TablesType'
    BY <1>1, <1>4, <1>5, <1>6, FinishEffect DEF Writes, TablesType
<1>8. RowsHold'
    BY <1>4 DEF Writes, RowsHold, Row
<1>9. NoOrphans'
    BY <1>4, <1>5, <1>6 DEF Writes, NoOrphans, Row, TablesType, MediaRow
<1>10. RowsStep /\ FavsStep
    BY <1>4, <1>6 DEF RowsStep, FavsStep, Row
<1>11. Noticed
    BY <1>1 DEF Noticed
<1> QED BY <1>1, <1>7, <1>8, <1>9, <1>10, <1>11, FinishEffect DEF WriteStep, TablesStep

LEMMA InsertMediaStep ==
    ASSUME Writes, FormAssumption, NEW w \in Worker, InsertMedia(w)
    PROVE  WriteStep(w)
<1> DEFINE l == req[w].listing
<1>1. req[w].stage = "media" /\ Finish(w) /\ UNCHANGED <<row, fav, clock>>
    BY DEF InsertMedia
<1>2. CASE UNCHANGED <<media, read>>
    <2>1. UNCHANGED <<row, media, fav>>
        BY <1>1, <1>2
    <2>2. TablesType' /\ Noticed
        BY <1>1, <1>2, FinishEffect DEF Noticed, Writes, TablesType
    <2> QED BY <1>1, <2>1, <2>2, FinishEffect, NothingChanges DEF WriteStep, TablesStep
<1>3. ASSUME Row(l), Observe(row, fav), NEW m \in Media,
             media' = [media EXCEPT ![m] = [listing |-> l, order |-> req[w].order]]
      PROVE  WriteStep(w)
    <2>1. l \in Listing /\ req[w].order \in Nat
        BY <1>1 DEF Writes, TablesType, Request, RequestHolds
    <2>2. [listing |-> l, order |-> req[w].order] \in MediaRow
        BY <2>1 DEF MediaRow
    <2>3. TablesType'
        BY <1>1, <1>3, <2>2, FinishEffect DEF Writes, TablesType
    <2>4. \A k : Row(k)' <=> Row(k)
        BY <1>1 DEF Row
    <2>5. \A k \in Media : media'[k].listing \in {media[k].listing, l}
        BY <1>3, <2>2 DEF Writes, TablesType, MediaRow
    <2>6. NoOrphans'
        BY <1>1, <1>3, <2>4, <2>5 DEF Writes, NoOrphans
    <2>7. RowsHold' /\ RowsStep /\ FavsStep
        BY <1>1 DEF Writes, RowsHold, RowsStep, FavsStep, Row
    <2>8. Noticed
        BY <1>1, <1>3 DEF Noticed
    <2> QED BY <1>1, <2>3, <2>6, <2>7, <2>8, FinishEffect DEF WriteStep, TablesStep
<1> QED BY <1>2, <1>3 DEF InsertMedia, Referenced

LEMMA InsertFavoriteStep ==
    ASSUME Writes, NEW w \in Worker, InsertFavorite(w)
    PROVE  WriteStep(w)
<1> DEFINE u == req[w].user
           l == req[w].listing
<1>1. req[w].stage = "favorite" /\ Finish(w) /\ UNCHANGED <<row, media, clock>>
    BY DEF InsertFavorite
<1>2. CASE UNCHANGED <<fav, read>>
    <2>1. UNCHANGED <<row, media, fav>>
        BY <1>1, <1>2
    <2>2. TablesType' /\ Noticed
        BY <1>1, <1>2, FinishEffect DEF Noticed, Writes, TablesType
    <2> QED BY <1>1, <2>1, <2>2, FinishEffect, NothingChanges DEF WriteStep, TablesStep
<1>3. ASSUME Row(l), fav[u][l] = 0, Observe(row, fav'), fav' = [fav EXCEPT ![u][l] = req[w].stamp]
      PROVE  WriteStep(w)
    <2>1. u \in User /\ l \in Listing /\ req[w].stamp \in Nat
        BY <1>1 DEF Writes, TablesType, Request, RequestHolds
    <2> HIDE DEF u, l
    <2>2. /\ fav' \in [User -> [Listing -> Nat]]
          /\ \A v \in User, k \in Listing : <<v, k>> # <<u, l>> => fav'[v][k] = fav[v][k]
        BY <1>3, <2>1 DEF Writes, TablesType
    <2>3. TablesType'
        BY <1>1, <2>2, FinishEffect DEF Writes, TablesType
    <2>4. \A k : Row(k)' <=> Row(k)
        BY <1>1 DEF Row
    <2>5. NoOrphans'
        BY <1>1, <1>3, <2>2, <2>4 DEF Writes, NoOrphans
    <2>6. RowsHold' /\ RowsStep
        BY <1>1 DEF Writes, RowsHold, RowsStep, Row
    <2>7. FavsStep
        BY <1>3, <2>2 DEF FavsStep
    <2>8. Noticed
        BY <1>1, <1>3 DEF Noticed
    <2> QED BY <1>1, <2>3, <2>5, <2>6, <2>7, <2>8, FinishEffect DEF WriteStep, TablesStep
<1> QED BY <1>2, <1>3 DEF InsertFavorite, Referenced

LEMMA RemoveFavoriteStep ==
    ASSUME Writes, NEW u \in User, NEW l \in Listing, RemoveFavorite(u, l)
    PROVE  TablesStep
<1>1. /\ fav' = [fav EXCEPT ![u][l] = 0] /\ Observe(row, fav')
      /\ UNCHANGED <<row, media, clock, req>>
    BY DEF RemoveFavorite
<1>2. /\ fav' \in [User -> [Listing -> Nat]]
      /\ \A v \in User, k \in Listing : fav'[v][k] \in {fav[v][k], 0}
    BY <1>1 DEF Writes, TablesType
<1>3. TablesType'
    BY <1>1, <1>2 DEF Writes, TablesType
<1>4. \A k : Row(k)' <=> Row(k)
    BY <1>1 DEF Row
<1>5. NoOrphans'
    BY <1>1, <1>2, <1>4 DEF Writes, NoOrphans
<1>6. RowsHold' /\ RowsStep /\ FavsStep
    BY <1>1, <1>2 DEF Writes, RowsHold, RowsStep, FavsStep, Row
<1>7. Noticed
    BY <1>1 DEF Noticed
<1> QED BY <1>3, <1>5, <1>6, <1>7 DEF TablesStep

LEMMA AbortStep ==
    ASSUME Writes, NEW w \in Worker, Abort(w)
    PROVE  WriteStep(w)
<1>1. Finish(w) /\ UNCHANGED <<row, media, fav, clock, read>>
    BY DEF Abort
<1>2. TablesType' /\ Noticed
    BY <1>1, FinishEffect DEF Noticed, Writes, TablesType
<1> QED BY <1>1, <1>2, FinishEffect, NothingChanges DEF WriteStep, TablesStep

LEMMA ReadFrame ==
    ASSUME NEW c \in Client, Read(c)
    PROVE  UNCHANGED <<row, media, fav, clock, req>>
BY DEF Read, ListListings, MyListings, ListFavorites, BeginList, GetListing, SelectRows,
       CountTotal, CountFavorites, SelectCovers, SelectMedia, TurnPage, Leave

\* What a request relies on survives the writes of others: the id of a listing
\* that was deleted is not given out again.
LEMMA OthersHold ==
    ASSUME Writes, RowsStep, NEW w \in Worker, req'[w] = req[w]
    PROVE  RequestHolds(w)'
BY DEF Writes, RowsStep, RequestHolds, Row

LEMMA WriteNext ==
    ASSUME Writes, FormAssumption, NEW w \in Worker, Write(w) \/ \E u \in User : Arrive(w, u)
    PROVE  WriteStep(w)
BY ArriveStep, InsertStep, UpdateStep, DeleteStep, InsertMediaStep, InsertFavoriteStep, AbortStep
   DEF Write

LEMMA WritesInit == Init => Writes
<1> SUFFICES ASSUME Init PROVE Writes
    OBVIOUS
<1>1. TablesType
    BY NoRowType, IdleType DEF Init, TablesType
<1>2. RowsHold /\ NoOrphans
    BY DEF Init, RowsHold, NoOrphans, Row, NoRow, NoMedia
<1>3. \A w \in Worker : RequestHolds(w)
    BY DEF Init, RequestHolds, Idle
<1> QED BY <1>1, <1>2, <1>3 DEF Writes

LEMMA WritesNext ==
    ASSUME Writes, FormAssumption, [Next]_vars
    PROVE  Writes'
<1>1. ASSUME NEW w \in Worker, Write(w) \/ \E u \in User : Arrive(w, u)
      PROVE  Writes'
    <2>1. WriteStep(w)
        BY <1>1, WriteNext
    <2>2. \A v \in Worker : RequestHolds(v)'
        BY <2>1, OthersHold DEF WriteStep, TablesStep
    <2> QED BY <2>1, <2>2 DEF WriteStep, TablesStep, Writes
<1>2. ASSUME NEW u \in User, NEW l \in Listing, RemoveFavorite(u, l)
      PROVE  Writes'
    <2>1. TablesStep /\ req' = req
        BY <1>2, RemoveFavoriteStep DEF RemoveFavorite
    <2>2. \A v \in Worker : RequestHolds(v)'
        BY <2>1, OthersHold DEF TablesStep
    <2> QED BY <2>1, <2>2 DEF TablesStep, Writes
<1>3. ASSUME UNCHANGED <<row, media, fav, clock, req>>
      PROVE  Writes'
    <2>1. RowsHold' /\ NoOrphans' /\ RowsStep
        BY <1>3, NothingChanges
    <2>2. \A v \in Worker : RequestHolds(v)'
        BY <1>3, <2>1, OthersHold
    <2> QED BY <1>3, <2>1, <2>2 DEF Writes, TablesType
<1> QED BY <1>1, <1>2, <1>3, ReadFrame DEF Next, vars

-----------------------------------------------------------------------------
(* The reads *)

ReadType == read \in [Client -> Reading]

\* A reading that is under way, in the order of its statements.
ReadSound(c) ==
    LET r == read[c] IN
    r.stage # "idle" =>
        /\ r.query \in Asked /\ r.page \in Nat \ {0} /\ r.limit \in Nat \ {0}
        /\ r.query.kind = "one" =>
            /\ r.stage \in {"rows", "media", "counts", "answer"} /\ r.page = 1 /\ r.limit = 1
        /\ r.query.kind # "one" => r.stage \in {"rows", "total", "counts", "covers", "answer"}

\* What a calm reading has read so far is what the tables hold.
CalmHolds(c) ==
    LET r == read[c] IN
    \A q \in Asked : r.query = q /\ r.calm /\ r.stage \notin {"idle", "rows"} =>
        /\ r.data = Slice(q, r.page, r.limit)
        /\ q.kind = "one" => r.data # {}
        /\ q.kind # "one" /\ r.stage # "total" => r.total = Total(q)
        /\ r.stage \in {"covers", "answer"} => \A l \in r.data : r.counts[l] = FavoriteCount(l)
        /\ q.kind = "one" /\ r.stage # "media" => r.shown = MediaOf(q.listing)
        /\ q.kind # "one" /\ r.stage = "answer" => r.shown \in CoversOf(r.data)

Reads == ReadType /\ \A c \in Client : ReadSound(c) /\ CalmHolds(c)

LEMMA QueryType ==
    ASSUME FormAssumption, NEW q \in Asked
    PROVE  /\ q.kind \in {"all", "my", "favorites", "one"}
           /\ q.kind = "favorites" => q.user \in User
           /\ q.kind = "one" => q.listing \in Listing
BY DEF FormAssumption, Lists, Search, Details

LEMMA NoReadType == NoRead \in Reading /\ NoRead.stage = "idle"
BY DEF NoRead, Reading

LEMMA BecomesEffect ==
    ASSUME ReadType, NEW c \in Client, NEW reading \in Reading, Becomes(c, reading)
    PROVE  /\ ReadType' /\ read'[c] = reading
           /\ \A d \in Client \ {c} : read'[d] = read[d]
BY DEF ReadType, Becomes

\* While the tables stay as they are, so does what a query selects of them.
LEMMA ReadingKept ==
    ASSUME UNCHANGED <<row, media, fav>>, NEW c \in Client, read'[c] = read[c],
           ReadSound(c), CalmHolds(c)
    PROVE  ReadSound(c)' /\ CalmHolds(c)'
<1>1. ReadSound(c)'
    BY DEF ReadSound
<1>2. /\ \A q, p, n : Slice(q, p, n)' = Slice(q, p, n)
      /\ \A q : Total(q)' = Total(q)
      /\ \A l : FavoriteCount(l)' = FavoriteCount(l) /\ MediaOf(l)' = MediaOf(l)
      /\ \A s : CoversOf(s)' = CoversOf(s)
    BY DEF Slice, Total, FavoriteCount, MediaOf, CoversOf, Matching, Selected, Position, Newer, Stamp
<1> QED BY <1>1, <1>2 DEF CalmHolds

LEMMA ObserveEffect ==
    ASSUME ReadType, Observe(row', fav')
    PROVE  /\ ReadType'
           /\ \A c \in Client :
                /\ read[c].stage = "idle" => read'[c] = read[c]
                /\ read'[c].stage = read[c].stage /\ read'[c].query = read[c].query
                /\ read'[c].page = read[c].page /\ read'[c].limit = read[c].limit
                /\ read'[c].total = read[c].total /\ read'[c].seen = read[c].seen
                /\ read[c].stage # "idle" =>
                    /\ read'[c].calm = FALSE
                    /\ \A l \in read'[c].steady :
                        /\ l \in read[c].steady
                        /\ l \notin Matching(read[c].query) \ Selected(read[c].query, row', fav')
                        /\ \A k \in Matching(read[c].query) \ Selected(read[c].query, row', fav') :
                            Stamp(read[c].query, k) < Stamp(read[c].query, l)
<1> DEFINE steady(c) ==
        LET q == read[c].query
            left == Matching(q) \ Selected(q, row', fav')
        IN {l \in read[c].steady \ left : \A k \in left : Stamp(q, k) < Stamp(q, l)}
<1>1. read' = [c \in Client |-> IF read[c].stage = "idle" THEN read[c]
                                ELSE [read[c] EXCEPT !.calm = FALSE, !.steady = steady(c)]]
    BY DEF Observe
<1>2. \A c \in Client : steady(c) \subseteq read[c].steady
    OBVIOUS
<1>3. ASSUME NEW c \in Client
      PROVE  /\ read[c] \in Reading
             /\ [read[c] EXCEPT !.calm = FALSE, !.steady = steady(c)] \in Reading
             /\ [read[c] EXCEPT !.calm = FALSE, !.steady = steady(c)].steady = steady(c)
             /\ [read[c] EXCEPT !.calm = FALSE, !.steady = steady(c)].calm = FALSE
    <2>1. read[c] \in Reading
        BY DEF ReadType
    <2>2. steady(c) \in SUBSET Listing
        BY <1>2, <2>1 DEF Reading
    <2> HIDE DEF steady
    <2> QED BY <2>1, <2>2 DEF Reading
<1>4. ReadType'
    BY <1>1, <1>3 DEF ReadType
<1>5. ASSUME NEW c \in Client, read[c].stage # "idle"
      PROVE  /\ read'[c].stage = read[c].stage /\ read'[c].query = read[c].query
             /\ read'[c].page = read[c].page /\ read'[c].limit = read[c].limit
             /\ read'[c].total = read[c].total /\ read'[c].seen = read[c].seen
             /\ read'[c].calm = FALSE /\ read'[c].steady = steady(c)
    <2> HIDE DEF steady
    <2> QED BY <1>1, <1>3, <1>5 DEF Reading
<1>6. \A c \in Client : read[c].stage = "idle" => read'[c] = read[c]
    BY <1>1
<1> QED BY <1>4, <1>5, <1>6

\* A reader notices every write: it is no longer calm.
LEMMA NoticedKeepsReads ==
    ASSUME Reads, Noticed
    PROVE  Reads'
<1>1. CASE UNCHANGED <<row, media, fav, read>>
    BY <1>1, ReadingKept DEF Reads, ReadType
<1>2. CASE Observe(row', fav')
    <2>1. ReadType'
        BY <1>2, ObserveEffect DEF Reads
    <2>2. \A c \in Client : ReadSound(c)'
        <3> SUFFICES ASSUME NEW c \in Client PROVE ReadSound(c)'
            OBVIOUS
        <3>1. /\ read'[c].stage = read[c].stage /\ read'[c].query = read[c].query
              /\ read'[c].page = read[c].page /\ read'[c].limit = read[c].limit
            BY <1>2, ObserveEffect DEF Reads
        <3>2. ReadSound(c)
            BY DEF Reads
        <3> QED BY <3>1, <3>2 DEF ReadSound
    <2>3. \A c \in Client : CalmHolds(c)'
        BY <1>2, ObserveEffect DEF Reads, CalmHolds
    <2> QED BY <2>1, <2>2, <2>3 DEF Reads
<1> QED BY <1>1, <1>2 DEF Noticed

LEMMA BecomesKeepsReads ==
    ASSUME Reads, UNCHANGED <<row, media, fav>>, NEW c \in Client, NEW reading \in Reading,
           Becomes(c, reading), ReadSound(c)', CalmHolds(c)'
    PROVE  Reads'
BY BecomesEffect, ReadingKept DEF Reads

LEMMA MovedEffect ==
    ASSUME Reads, NEW c \in Client, read[c].stage \notin {"idle", "answer"}
    PROVE  /\ Moved(c) \in Reading
           /\ Moved(c).stage = After(read[c].query, read[c].stage)
           /\ Moved(c).stage \in {"total", "media", "counts", "covers", "answer"}
           /\ read[c].query.kind = "one" => Moved(c).stage \in {"media", "counts", "answer"}
           /\ read[c].query.kind # "one" => Moved(c).stage \in {"total", "counts", "covers", "answer"}
           /\ Moved(c).query = read[c].query /\ Moved(c).page = read[c].page
           /\ Moved(c).limit = read[c].limit /\ Moved(c).data = read[c].data
           /\ Moved(c).total = read[c].total /\ Moved(c).counts = read[c].counts
           /\ Moved(c).shown = read[c].shown /\ Moved(c).seen = read[c].seen
           /\ Moved(c).steady = read[c].steady /\ Moved(c).calm = read[c].calm
<1>1. read[c] \in Reading /\ ReadSound(c)
    BY DEF Reads, ReadType
<1>2. /\ After(read[c].query, read[c].stage) \in {"total", "media", "counts", "covers", "answer"}
      /\ read[c].query.kind = "one" =>
            After(read[c].query, read[c].stage) \in {"media", "counts", "answer"}
      /\ read[c].query.kind # "one" =>
            After(read[c].query, read[c].stage) \in {"total", "counts", "covers", "answer"}
    BY <1>1 DEF After, ReadSound, ListOrder, DetailOrder
<1> QED BY <1>1, <1>2 DEF Moved, Reading

LEMMA PagesNormal ==
    ASSUME FormAssumption, NEW page \in PageText, NEW limit \in LimitText
    PROVE  /\ NormalizePagination(page, limit).page \in Nat \ {0}
           /\ NormalizePagination(page, limit).limit \in Nat \ {0}
BY DEF FormAssumption, NormalizePagination

LEMMA BeginListReads ==
    ASSUME FormAssumption, Reads, NEW c \in Client, NEW q \in Asked, q.kind # "one",
           NEW page \in PageText, NEW limit \in LimitText, BeginList(c, q, page, limit)
    PROVE  Reads'
<1> DEFINE p == NormalizePagination(page, limit)
           steady == IF p.page = 1 THEN Matching(q) ELSE {}
           new == [NoRead EXCEPT !.stage = After(q, "start"), !.query = q,
                    !.page = p.page, !.limit = p.limit, !.steady = steady]
<1>1. Becomes(c, new) /\ UNCHANGED <<row, media, fav>>
    BY DEF BeginList
<1>2. steady \in SUBSET Listing /\ After(q, "start") = "rows"
    BY DEF Matching, Selected, After, ListOrder
<1>3. p.page \in Nat \ {0} /\ p.limit \in Nat \ {0}
    BY PagesNormal
<1> HIDE DEF p, steady
<1>4. /\ new \in Reading /\ new.stage = "rows" /\ new.query = q
      /\ new.page = p.page /\ new.limit = p.limit
    BY <1>2, <1>3 DEF Reading, NoRead
<1> HIDE DEF new
<1>5. read'[c] = new
    BY <1>1, <1>4, BecomesEffect DEF Reads
<1>6. ReadSound(c)' /\ CalmHolds(c)'
    BY <1>3, <1>4, <1>5 DEF ReadSound, CalmHolds
<1> QED BY <1>1, <1>4, <1>6, BecomesKeepsReads

LEMMA GetListingReads ==
    ASSUME FormAssumption, Reads, NEW c \in Client, NEW q \in Asked, q.kind = "one", GetListing(c, q)
    PROVE  Reads'
<1> DEFINE steady == Matching(q)
           new == [NoRead EXCEPT !.stage = After(q, "start"), !.query = q,
                    !.page = 1, !.limit = 1, !.steady = steady]
<1>1. Becomes(c, new) /\ UNCHANGED <<row, media, fav>>
    BY DEF GetListing
<1>2. steady \in SUBSET Listing /\ After(q, "start") = "rows"
    BY DEF Matching, Selected, After, DetailOrder
<1> HIDE DEF steady
<1>3. new \in Reading /\ new.stage = "rows" /\ new.query = q /\ new.page = 1 /\ new.limit = 1
    BY <1>2 DEF Reading, NoRead
<1> HIDE DEF new
<1>4. read'[c] = new
    BY <1>1, <1>3, BecomesEffect DEF Reads
<1>5. ReadSound(c)' /\ CalmHolds(c)'
    BY <1>3, <1>4 DEF ReadSound, CalmHolds
<1> QED BY <1>1, <1>3, <1>5, BecomesKeepsReads

LEMMA LeavesReads ==
    ASSUME Reads, UNCHANGED <<row, media, fav>>, NEW c \in Client, Becomes(c, NoRead)
    PROVE  Reads'
<1>1. read'[c] = NoRead
    BY NoReadType, BecomesEffect DEF Reads
<1>2. ReadSound(c)' /\ CalmHolds(c)'
    BY <1>1, NoReadType DEF ReadSound, CalmHolds
<1> QED BY <1>2, NoReadType, BecomesKeepsReads

LEMMA SelectRowsReads ==
    ASSUME FormAssumption, Reads, NEW c \in Client, SelectRows(c)
    PROVE  Reads'
<1> DEFINE found == Slice(read[c].query, read[c].page, read[c].limit)
           moved == Moved(c)
           new == [moved EXCEPT !.data = found, !.seen = moved.seen \cup found, !.calm = TRUE]
<1>1. read[c].stage = "rows" /\ UNCHANGED <<row, media, fav>>
    BY DEF SelectRows, At
<1>2. CASE Becomes(c, NoRead)
    BY <1>1, <1>2, LeavesReads
<1>3. CASE Becomes(c, new) /\ ~(read[c].query.kind = "one" /\ found = {})
    <2>1. found \in SUBSET Listing
        BY DEF Slice, Matching, Selected
    <2>2. read[c] \in Reading /\ ReadSound(c)
        BY DEF Reads, ReadType
    <2>3. /\ moved \in Reading /\ moved.stage \in {"total", "media"}
          /\ read[c].query.kind # "one" => moved.stage = "total"
          /\ read[c].query.kind = "one" => moved.stage = "media"
          /\ moved.query = read[c].query /\ moved.page = read[c].page /\ moved.limit = read[c].limit
        BY <1>1, MovedEffect DEF After, ListOrder, DetailOrder
    <2> HIDE DEF found, moved
    <2>4. /\ new \in Reading /\ new.stage = moved.stage /\ new.query = read[c].query
          /\ new.page = read[c].page /\ new.limit = read[c].limit /\ new.data = found
        BY <2>1, <2>3 DEF Reading
    <2> HIDE DEF new
    <2>5. read'[c] = new
        BY <1>3, <2>4, BecomesEffect DEF Reads
    <2>6. ReadSound(c)'
        BY <1>1, <2>2, <2>3, <2>4, <2>5 DEF ReadSound
    <2>7. ASSUME NEW q \in Asked, read'[c].query = q
          PROVE  (read[c].data = Slice(q, read[c].page, read[c].limit))'
        <3>1. PICK p, n : p = read[c].page /\ n = read[c].limit
            OBVIOUS
        <3>2. Slice(q, p, n)' = Slice(q, p, n)
            BY <1>1 DEF Slice, Matching, Selected, Position, Newer, Stamp
        <3>3. found = Slice(q, p, n)
            BY <2>4, <2>5, <2>7, <3>1 DEF found
        <3> QED BY <2>4, <2>5, <3>1, <3>2, <3>3
    <2>8. CalmHolds(c)'
        BY <1>3, <2>3, <2>4, <2>5, <2>7 DEF CalmHolds
    <2> QED BY <1>1, <1>3, <2>4, <2>6, <2>8, BecomesKeepsReads
<1> QED BY <1>2, <1>3 DEF SelectRows

\* A statement after the first adds what it reads to what was read.
LEMMA GoesOn ==
    ASSUME FormAssumption, Reads, UNCHANGED <<row, media, fav>>, NEW c \in Client,
           read[c].stage \in {"total", "media", "counts", "covers"},
           NEW new \in Reading, Becomes(c, new), new.stage = Moved(c).stage,
           new.query = read[c].query, new.page = read[c].page, new.limit = read[c].limit,
           new.data = read[c].data, new.calm = read[c].calm,
           new.total = IF read[c].stage = "total" THEN Total(read[c].query) ELSE read[c].total,
           IF read[c].stage = "counts"
             THEN \A l \in read[c].data : new.counts[l] = FavoriteCount(l)
             ELSE new.counts = read[c].counts,
           CASE read[c].stage = "covers" -> new.shown \in CoversOf(read[c].data)
             [] read[c].stage = "media" -> new.shown = MediaOf(read[c].query.listing)
             [] OTHER -> new.shown = read[c].shown
    PROVE  Reads'
<1>1. ReadSound(c) /\ CalmHolds(c) /\ read'[c] = new
    BY BecomesEffect DEF Reads
<1>2. new.stage = After(new.query, read[c].stage)
    BY MovedEffect
<1>3. /\ new.stage \in {"total", "media", "counts", "covers", "answer"}
      /\ new.query.kind = "one" => new.stage \in {"media", "counts", "answer"}
      /\ new.query.kind # "one" => new.stage \in {"total", "counts", "covers", "answer"}
    BY MovedEffect
<1>4. ReadSound(c)'
    BY <1>1, <1>3 DEF ReadSound
<1>5. SUFFICES ASSUME NEW q \in Asked, new.query = q, new.calm
               PROVE  (/\ read[c].data = Slice(q, read[c].page, read[c].limit)
                       /\ q.kind = "one" => read[c].data # {}
                       /\ q.kind # "one" /\ read[c].stage # "total" => read[c].total = Total(q)
                       /\ read[c].stage \in {"covers", "answer"} =>
                            \A l \in read[c].data : read[c].counts[l] = FavoriteCount(l)
                       /\ q.kind = "one" /\ read[c].stage # "media" => read[c].shown = MediaOf(q.listing)
                       /\ q.kind # "one" /\ read[c].stage = "answer" => read[c].shown \in CoversOf(read[c].data))'
    <2>1. CalmHolds(c)'
        BY <1>1, <1>5 DEF CalmHolds
    <2> QED BY <1>4, <2>1, BecomesKeepsReads
<1>6. PICK p, n, d : p = new.page /\ n = new.limit /\ d = new.data
    OBVIOUS
<1>7. /\ Slice(q, p, n)' = Slice(q, p, n) /\ Total(q)' = Total(q)
      /\ \A l : FavoriteCount(l)' = FavoriteCount(l) /\ MediaOf(l)' = MediaOf(l)
      /\ CoversOf(d)' = CoversOf(d)
    BY DEF Slice, Total, FavoriteCount, MediaOf, CoversOf, Matching, Selected, Position, Newer, Stamp
<1>8. /\ d = Slice(q, p, n)
      /\ q.kind = "one" => d # {}
      /\ q.kind # "one" /\ read[c].stage # "total" => read[c].total = Total(q)
      /\ read[c].stage \in {"covers", "answer"} => \A l \in d : read[c].counts[l] = FavoriteCount(l)
      /\ q.kind = "one" /\ read[c].stage # "media" => read[c].shown = MediaOf(q.listing)
    BY <1>1, <1>5, <1>6 DEF CalmHolds
<1>9. /\ q.kind = "one" => read[c].stage \in {"media", "counts"}
      /\ q.kind # "one" => read[c].stage \in {"total", "counts", "covers"}
    BY <1>1, <1>5 DEF ReadSound
<1>10. (q.kind = "one" => read[c].data # {})' /\ (read[c].data = Slice(q, read[c].page, read[c].limit))'
    BY <1>1, <1>6, <1>7, <1>8
<1>11. (q.kind # "one" /\ read[c].stage # "total" => read[c].total = Total(q))'
    BY <1>1, <1>5, <1>7, <1>8
<1>12. (read[c].stage \in {"covers", "answer"} =>
            \A l \in read[c].data : read[c].counts[l] = FavoriteCount(l))'
    BY <1>1, <1>2, <1>5, <1>6, <1>7, <1>8, <1>9 DEF After, ListOrder, DetailOrder
<1>13. (q.kind = "one" /\ read[c].stage # "media" => read[c].shown = MediaOf(q.listing))'
    <2>1. q.kind = "one" => new.shown = MediaOf(q.listing)
        BY <1>5, <1>8, <1>9
    <2> QED BY <1>1, <1>7, <2>1
<1>14. (q.kind # "one" /\ read[c].stage = "answer" => read[c].shown \in CoversOf(read[c].data))'
    <2>1. q.kind # "one" /\ new.stage = "answer" => new.shown \in CoversOf(d)
        BY <1>2, <1>5, <1>6, <1>9 DEF After, ListOrder
    <2> QED BY <1>1, <1>6, <1>7, <2>1
<1> QED BY <1>10, <1>11, <1>12, <1>13, <1>14

LEMMA CountTotalReads ==
    ASSUME FormAssumption, Reads, NEW c \in Client, CountTotal(c)
    PROVE  Reads'
<1> DEFINE moved == Moved(c)
           total == Total(read[c].query)
           new == [moved EXCEPT !.total = total]
<1>1. Becomes(c, new) /\ UNCHANGED <<row, media, fav>> /\ read[c].stage = "total"
    BY DEF CountTotal, At
<1>2. total \in Nat
    <2>1. Matching(read[c].query) \in SUBSET Listing
        BY DEF Matching, Selected
    <2>2. \A S \in SUBSET Listing : Cardinality(S) \in Nat
        BY FS_Subset, FS_CardinalityType
    <2>3. {l \in Listing : fav[read[c].query.user][l] # 0} \in SUBSET Listing
        OBVIOUS
    <2> QED BY <2>1, <2>2, <2>3 DEF Total
<1>3. moved \in Reading
    BY <1>1, MovedEffect
<1> HIDE DEF total, moved
<1>4. /\ new \in Reading /\ new.stage = moved.stage /\ new.query = moved.query
      /\ new.page = moved.page /\ new.limit = moved.limit /\ new.data = moved.data
      /\ new.calm = moved.calm /\ new.total = total /\ new.counts = moved.counts
      /\ new.shown = moved.shown
    BY <1>2, <1>3 DEF Reading
<1> HIDE DEF new
<1> QED BY <1>1, <1>4, MovedEffect, GoesOn DEF moved, total

LEMMA CountFavoritesReads ==
    ASSUME FormAssumption, Reads, NEW c \in Client, CountFavorites(c)
    PROVE  Reads'
<1> DEFINE moved == Moved(c)
           counts == [l \in Listing |-> IF l \in read[c].data THEN FavoriteCount(l) ELSE 0]
           new == [moved EXCEPT !.counts = counts]
<1>1. Becomes(c, new) /\ UNCHANGED <<row, media, fav>> /\ read[c].stage = "counts"
    BY DEF CountFavorites, At
<1>2. counts \in [Listing -> Nat] /\ \A l \in read[c].data : counts[l] = FavoriteCount(l)
    <2>1. \A l : FavoriteCount(l) \in Nat
        BY FS_Subset, FS_CardinalityType DEF FavoriteCount
    <2>2. read[c].data \subseteq Listing
        BY DEF Reads, ReadType, Reading
    <2> QED BY <2>1, <2>2
<1>3. moved \in Reading
    BY <1>1, MovedEffect
<1> HIDE DEF counts, moved
<1>4. /\ new \in Reading /\ new.stage = moved.stage /\ new.query = moved.query
      /\ new.page = moved.page /\ new.limit = moved.limit /\ new.data = moved.data
      /\ new.calm = moved.calm /\ new.total = moved.total /\ new.counts = counts
      /\ new.shown = moved.shown
    BY <1>2, <1>3 DEF Reading
<1> HIDE DEF new
<1> QED BY <1>1, <1>2, <1>4, MovedEffect, GoesOn DEF moved

LEMMA SelectCoversReads ==
    ASSUME FormAssumption, Reads, NEW c \in Client, SelectCovers(c)
    PROVE  Reads'
<1> DEFINE moved == Moved(c)
           new(s) == [moved EXCEPT !.shown = s]
<1>1. PICK s \in CoversOf(read[c].data) : Becomes(c, new(s))
    BY DEF SelectCovers
<1>2. UNCHANGED <<row, media, fav>> /\ read[c].stage = "covers"
    BY DEF SelectCovers, At
<1>3. moved \in Reading /\ s \in SUBSET Media
    BY <1>2, MovedEffect DEF CoversOf
<1> HIDE DEF moved
<1>4. /\ new(s) \in Reading /\ new(s).stage = moved.stage /\ new(s).query = moved.query
      /\ new(s).page = moved.page /\ new(s).limit = moved.limit /\ new(s).data = moved.data
      /\ new(s).calm = moved.calm /\ new(s).total = moved.total /\ new(s).counts = moved.counts
      /\ new(s).shown = s
    BY <1>3 DEF Reading
<1> HIDE DEF new
<1> QED BY <1>1, <1>2, <1>4, MovedEffect, GoesOn DEF moved

LEMMA SelectMediaReads ==
    ASSUME FormAssumption, Reads, NEW c \in Client, SelectMedia(c)
    PROVE  Reads'
<1> DEFINE moved == Moved(c)
           shown == MediaOf(read[c].query.listing)
           new == [moved EXCEPT !.shown = shown]
<1>1. Becomes(c, new) /\ UNCHANGED <<row, media, fav>> /\ read[c].stage = "media"
    BY DEF SelectMedia, At
<1>2. moved \in Reading /\ shown \in SUBSET Media
    BY <1>1, MovedEffect DEF MediaOf
<1> HIDE DEF shown, moved
<1>3. /\ new \in Reading /\ new.stage = moved.stage /\ new.query = moved.query
      /\ new.page = moved.page /\ new.limit = moved.limit /\ new.data = moved.data
      /\ new.calm = moved.calm /\ new.total = moved.total /\ new.counts = moved.counts
      /\ new.shown = shown
    BY <1>2 DEF Reading
<1> HIDE DEF new
<1> QED BY <1>1, <1>3, MovedEffect, GoesOn DEF moved, shown

LEMMA TurnPageReads ==
    ASSUME FormAssumption, Reads, NEW c \in Client, TurnPage(c)
    PROVE  Reads'
<1> DEFINE old == read[c]
           rows == After(read[c].query, "start")
           page == read[c].page + 1
           none == NoRead.counts
           new == [old EXCEPT !.stage = rows, !.page = page,
                    !.data = {}, !.total = 0, !.counts = none, !.shown = {}, !.calm = FALSE]
<1>1. /\ Becomes(c, new) /\ UNCHANGED <<row, media, fav>>
      /\ read[c].stage = "answer" /\ read[c].query.kind # "one"
    BY DEF TurnPage, At
<1>2. old \in Reading /\ ReadSound(c) /\ none \in [Listing -> Nat]
    BY DEF Reads, ReadType, NoRead
<1>3. rows = "rows" /\ page \in Nat \ {0}
    BY <1>1, <1>2 DEF After, ListOrder, Reading
<1> HIDE DEF old, rows, page, none
<1>4. /\ new \in Reading /\ new.stage = "rows" /\ new.query = old.query
      /\ new.page = page /\ new.limit = old.limit
    BY <1>2, <1>3 DEF Reading
<1> HIDE DEF new
<1>5. read'[c] = new
    BY <1>1, <1>4, BecomesEffect DEF Reads
<1>6. ReadSound(c)' /\ CalmHolds(c)'
    BY <1>1, <1>2, <1>3, <1>4, <1>5 DEF ReadSound, CalmHolds, old
<1> QED BY <1>1, <1>4, <1>6, BecomesKeepsReads

LEMMA ReadKeepsReads ==
    ASSUME FormAssumption, Reads, NEW c \in Client, Read(c)
    PROVE  Reads'
<1>1. ASSUME NEW q \in Asked \cap Lists, NEW page \in PageText, NEW limit \in LimitText,
             ListListings(c, q, page, limit) \/ MyListings(c, q, page, limit)
                \/ ListFavorites(c, q, page, limit)
      PROVE  Reads'
    BY <1>1, BeginListReads DEF ListListings, MyListings, ListFavorites
<1>2. ASSUME NEW q \in Asked \cap Details, GetListing(c, q)
      PROVE  Reads'
    BY <1>2, GetListingReads DEF Details
<1>3. ASSUME Leave(c)
      PROVE  Reads'
    BY <1>3, LeavesReads DEF Leave
<1> QED
    BY <1>1, <1>2, <1>3, SelectRowsReads, CountTotalReads, CountFavoritesReads, SelectCoversReads,
       SelectMediaReads, TurnPageReads DEF Read

LEMMA ReadsNext ==
    ASSUME FormAssumption, Writes, Reads, [Next]_vars
    PROVE  Reads'
<1>1. ASSUME NEW w \in Worker, Write(w) \/ \E u \in User : Arrive(w, u)
      PROVE  Reads'
    BY <1>1, WriteNext, NoticedKeepsReads DEF WriteStep, TablesStep
<1>2. ASSUME NEW u \in User, NEW l \in Listing, RemoveFavorite(u, l)
      PROVE  Reads'
    BY <1>2, RemoveFavoriteStep, NoticedKeepsReads DEF TablesStep
<1>3. ASSUME UNCHANGED vars
      PROVE  Reads'
    BY <1>3, NoticedKeepsReads DEF vars, Noticed
<1> QED BY <1>1, <1>2, <1>3, ReadKeepsReads DEF Next

LEMMA ReadsInit == Init => Reads
BY NoReadType DEF Init, Reads, ReadType, ReadSound, CalmHolds

-----------------------------------------------------------------------------
(* Theorems *)

\* The inductive invariant: the tables, what pending writes rely on, and what
\* readers have in hand.
IInv == Writes /\ Reads

\* Every reachable state satisfies the inductive invariant.
THEOREM Invariant == Spec => []IInv
<1>1. Init => IInv
    BY WritesInit, ReadsInit DEF IInv
<1>2. IInv /\ [Next]_vars => IInv'
    BY FormAssumption, WritesNext, ReadsNext DEF IInv
<1> QED BY <1>1, <1>2, PTL DEF Spec

\* Rows, requests and readings keep their types (listings, listing_media,
\* favorites, and what the handlers hold between statements).
THEOREM TypeCorrect == Spec => []TypeOK
<1>1. IInv => TypeOK
    BY DEF IInv, Writes, TablesType, Reads, ReadType, TypeOK
<1> QED BY <1>1, Invariant, PTL

\* Media and favorites never outlive their listing, whatever deletes come
\* between the owner's check and the insert (addMedia, favorite.Add).
THEOREM NoOrphansEver == Spec => []NoOrphans
<1>1. IInv => NoOrphans
    BY DEF IInv, Writes
<1> QED BY <1>1, Invariant, PTL

-----------------------------------------------------------------------------
(* Pages and totals *)

\* In the range of int the offset is the rank of the last row before the page.
LEMMA OffsetInRange ==
    ASSUME NEW page \in Nat \ {0}, NEW limit \in Nat \ {0}, (page - 1) * limit < IntBound
    PROVE  Offset(page, limit) = (page - 1) * limit
<1> DEFINE n == (page - 1) * limit
<1>1. n \in Nat
    OBVIOUS
<1> HIDE DEF n
<1>2. Wrap(n) = n
    BY <1>1 DEF Wrap, n
<1> QED BY <1>2 DEF Offset, n

LEMMA PageTimesLimit ==
    ASSUME NEW page \in Nat \ {0}, NEW limit \in Nat \ {0}
    PROVE  /\ (page - 1) * limit \in Nat /\ page * limit \in Nat
           /\ (page - 1) * limit + limit = page * limit
OBVIOUS

\* total_pages is the least number of pages that holds the total.
LEMMA TotalPagesLeast ==
    ASSUME NEW total \in Nat, NEW limit \in Nat \ {0}
    PROVE  /\ TotalPages(total, limit) \in Nat
           /\ total <= TotalPages(total, limit) * limit
           /\ (TotalPages(total, limit) - 1) * limit < total
<1> DEFINE n == total + limit - 1
           pages == n \div limit
<1>1. n \in Nat
    OBVIOUS
<1> HIDE DEF n
<1>2. pages \in Nat /\ pages * limit <= n /\ n < pages * limit + limit
    BY <1>1
<1> HIDE DEF pages
<1>3. (pages - 1) * limit = pages * limit - limit
    BY <1>2
<1>4. pages * limit \in Nat
    BY <1>2
<1> DEFINE product == pages * limit
<1>5. n = total + limit - 1 /\ product \in Nat /\ product <= n /\ n < product + limit
    BY <1>2, <1>4 DEF n
<1> HIDE DEF product
<1>6. total <= product /\ product - limit < total
    BY <1>5
<1>7. TotalPages(total, limit) = pages
    BY DEF TotalPages, pages, n
<1> QED BY <1>2, <1>3, <1>6, <1>7 DEF product

LEMMA SetsOfListings ==
    ASSUME NEW S \in SUBSET Listing
    PROVE  IsFiniteSet(S) /\ Cardinality(S) \in Nat
BY FS_Subset, FS_CardinalityType

LEMMA PositionType ==
    ASSUME NEW q, NEW l
    PROVE  Position(q, l) \in Nat
<1>1. Newer(q, l) \in SUBSET Listing
    BY DEF Newer, Matching, Selected
<1> QED BY <1>1, SetsOfListings DEF Position

\* Without orphans the favorites of a user are as many as the listings he likes.
LEMMA TotalIsMatching ==
    ASSUME NoOrphans, FormAssumption, NEW q \in Asked
    PROVE  Total(q) = Cardinality(Matching(q))
<1>1. CASE q.kind = "favorites"
    <2>1. {l \in Listing : fav[q.user][l] # 0} = Matching(q)
        BY <1>1, QueryType DEF NoOrphans, Row, Matching, Selected
    <2> QED BY <1>1, <2>1 DEF Total
<1> QED BY <1>1 DEF Total

LEMMA CalmAnswers ==
    ASSUME FormAssumption, Writes, Reads
    PROVE  CalmReadExact
<1> SUFFICES ASSUME NEW c \in Client, At(c, "answer"), read[c].calm
             PROVE  LET r == read[c]
                        rank(l) == 1 + Position(r.query, l)
                    IN
                    /\ \A l \in r.data : r.counts[l] = Cardinality({u \in User : fav[u][l] # 0})
                    /\ IF r.query.kind = "one"
                       THEN r.data = {r.query.listing} /\ r.shown = {m \in Media : media[m].listing = r.query.listing}
                       ELSE /\ r.page * r.limit < IntBound =>
                                r.data = {l \in Matching(r.query) :
                                            (r.page - 1) * r.limit < rank(l) /\ rank(l) <= r.page * r.limit}
                            /\ r.total = Cardinality(Matching(r.query))
                            /\ LET pages == TotalPages(r.total, r.limit)
                               IN r.total <= pages * r.limit /\ (pages - 1) * r.limit < r.total
                            /\ \A l \in r.data : (\E m \in Media : media[m].listing = l) =>
                                \E m \in r.shown : /\ media[m].listing = l
                                                   /\ \A k \in Media : media[k].listing = l => media[m].order <= media[k].order
    BY DEF CalmReadExact
<1> DEFINE r == read[c]
           q == r.query
           rank(l) == 1 + Position(q, l)
<1>1. /\ q \in Asked /\ r.page \in Nat \ {0} /\ r.limit \in Nat \ {0} /\ r \in Reading
      /\ q.kind = "one" => r.page = 1 /\ r.limit = 1
    BY DEF Reads, ReadType, ReadSound, At
<1>2. /\ r.data = Slice(q, r.page, r.limit)
      /\ \A l \in r.data : r.counts[l] = FavoriteCount(l)
      /\ q.kind = "one" => r.data # {} /\ r.shown = MediaOf(q.listing)
      /\ q.kind # "one" => r.total = Total(q) /\ r.shown \in CoversOf(r.data)
    BY <1>1 DEF Reads, CalmHolds, At
<1>3. r.data \subseteq Matching(q)
    BY <1>2 DEF Slice
<1>4. CASE q.kind = "one"
    <2>1. Matching(q) \subseteq {q.listing}
        BY <1>4 DEF Matching, Selected
    <2> QED BY <1>2, <1>3, <1>4, <2>1 DEF MediaOf, FavoriteCount
<1>5. CASE q.kind # "one"
    <2>1. ASSUME r.page * r.limit < IntBound
          PROVE  r.data = {l \in Matching(q) : (r.page - 1) * r.limit < rank(l) /\ rank(l) <= r.page * r.limit}
        <3> DEFINE first == (r.page - 1) * r.limit
                   last == r.page * r.limit
        <3>1. first \in Nat /\ last \in Nat /\ first + r.limit = last /\ r.limit \in Nat
            BY <1>1, PageTimesLimit
        <3>2. first < IntBound
            BY <2>1, <3>1
        <3>3. Offset(r.page, r.limit) = first
            BY <1>1, <3>2, OffsetInRange
        <3> HIDE DEF first, last
        <3>4. \A l : /\ first <= Position(q, l) <=> first < rank(l)
                     /\ Position(q, l) < first + r.limit <=> rank(l) <= last
            BY <3>1, PositionType
        <3> QED BY <1>2, <3>3, <3>4 DEF Slice, first, last
    <2>2. r.total = Cardinality(Matching(q))
        BY <1>1, <1>2, <1>5, TotalIsMatching DEF Writes
    <2>3. LET pages == TotalPages(r.total, r.limit)
          IN r.total <= pages * r.limit /\ (pages - 1) * r.limit < r.total
        BY <1>1, TotalPagesLeast DEF Reading
    <2>4. ASSUME NEW l \in r.data, NEW n \in Media, media[n].listing = l
          PROVE  \E m \in r.shown : /\ media[m].listing = l
                                    /\ \A k \in Media : media[k].listing = l => media[m].order <= media[k].order
        BY <1>2, <1>5, <2>4 DEF CoversOf, MediaOf
    <2>5. \A l \in r.data : (\E m \in Media : media[m].listing = l) =>
            \E m \in r.shown : /\ media[m].listing = l
                               /\ \A k \in Media : media[k].listing = l => media[m].order <= media[k].order
        BY <2>4
    <2>6. \A l \in r.data : r.counts[l] = Cardinality({u \in User : fav[u][l] # 0})
        BY <1>2 DEF FavoriteCount
    <2> QED BY <1>5, <2>1, <2>2, <2>3, <2>5, <2>6, Zenon
<1> QED BY <1>4, <1>5

\* An answer put together while nothing was written is what its query says
\* (Store.list, AttachListMeta, FindDetail).
THEOREM CalmReads == Spec => []CalmReadExact
<1>1. IInv => CalmReadExact
    BY FormAssumption, CalmAnswers DEF IInv
<1> QED BY <1>1, Invariant, PTL

-----------------------------------------------------------------------------
(* Owners *)

OwnerChanges(l) ==
    /\ row[l] # row'[l] /\ row[l].born # 0 =>
        \E w \in Worker :
            /\ req[w].listing = l /\ req[w].user = row[l].owner
            /\ \/ req[w].stage = "delete"
               \/ /\ req[w].stage = "update" /\ row'[l].owner = row[l].owner
                  /\ row[l].price # row'[l].price => req[w].form.price # None
                  /\ row[l].status # row'[l].status => req[w].form.status # None
    /\ MediaOf(l)' \subseteq MediaOf(l) \/
        \E w \in Worker : req[w].stage = "media" /\ req[w].listing = l
                            /\ req[w].user = row[l].owner

LEMMA TablesKept ==
    ASSUME UNCHANGED <<row, media>>, NEW l \in Listing
    PROVE  OwnerChanges(l)
BY DEF OwnerChanges, MediaOf

LEMMA InsertOwner ==
    ASSUME Writes, NEW w \in Worker, Insert(w), NEW l \in Listing
    PROVE  OwnerChanges(l)
<1>1. media' = media
    BY DEF Insert
<1>2. row[l] # row'[l] => row[l].born = 0
    BY DEF Insert, Writes, TablesType
<1> QED BY <1>1, <1>2 DEF OwnerChanges, MediaOf

LEMMA UpdateOwner ==
    ASSUME Writes, NEW w \in Worker, Update(w), NEW l \in Listing
    PROVE  OwnerChanges(l)
<1> DEFINE k == req[w].listing
           f == req[w].form
<1>1. media' = media /\ req[w].stage = "update"
    BY DEF Update
<1>2. CASE row' = row
    BY <1>1, <1>2, TablesKept
<1>3. CASE /\ Row(k)
           /\ row' = [row EXCEPT ![k].price = IF f.price = None THEN @ ELSE f.price.n,
                                 ![k].status = IF f.status = None THEN @ ELSE f.status]
    <2>1. k \in Listing /\ row[k].owner = req[w].user /\ row[k] \in ListingRow
        BY <1>1, <1>3 DEF Writes, TablesType, RequestHolds
    <2> HIDE DEF k, f
    <2>2. /\ row'[k].owner = row[k].owner
          /\ f.price = None => row'[k].price = row[k].price
          /\ f.status = None => row'[k].status = row[k].status
          /\ \A j \in Listing \ {k} : row'[j] = row[j]
        BY <1>3, <2>1 DEF Writes, TablesType, ListingRow
    <2> QED BY <1>1, <2>1, <2>2 DEF OwnerChanges, MediaOf, k, f
<1> QED BY <1>2, <1>3 DEF Update

LEMMA DeleteOwner ==
    ASSUME Writes, NEW w \in Worker, Delete(w), NEW l \in Listing
    PROVE  OwnerChanges(l)
<1> DEFINE k == req[w].listing
<1>1. /\ req[w].stage = "delete"
      /\ row' = [row EXCEPT ![k] = [NoRow EXCEPT !.born = row[k].born]]
      /\ media' = [m \in Media |-> IF media[m].listing = k THEN NoMedia ELSE media[m]]
    BY DEF Delete
<1>2. k \in Listing /\ (Row(k) => row[k].owner = req[w].user)
    BY <1>1 DEF Writes, RequestHolds
<1>3. MediaOf(l)' \subseteq MediaOf(l)
    BY <1>1 DEF MediaOf, NoMedia
<1>4. row[k] \in ListingRow
    BY <1>2 DEF Writes, TablesType
<1> HIDE DEF k
<1>5. ~Row(k) => row'[k] = row[k]
    <2>1. ~Row(k) => row[k].owner = None /\ row[k].price = 0 /\ row[k].status = "avaiable"
        BY <1>2 DEF Writes, RowsHold, Row
    <2>2. row'[k] = [owner |-> None, price |-> 0, status |-> "avaiable", born |-> row[k].born]
        BY <1>1, <1>2 DEF Writes, TablesType, NoRow
    <2> QED BY <1>4, <2>1, <2>2 DEF ListingRow
<1>6. \A j \in Listing \ {k} : row'[j] = row[j]
    BY <1>1, <1>2 DEF Writes, TablesType
<1> QED BY <1>1, <1>2, <1>3, <1>5, <1>6 DEF OwnerChanges, k

LEMMA InsertMediaOwner ==
    ASSUME Writes, NEW w \in Worker, InsertMedia(w), NEW l \in Listing
    PROVE  OwnerChanges(l)
<1> DEFINE k == req[w].listing
<1>1. row' = row /\ req[w].stage = "media"
    BY DEF InsertMedia
<1>2. CASE media' = media
    BY <1>1, <1>2, TablesKept
<1>3. ASSUME Row(k), NEW m \in Media,
             media' = [media EXCEPT ![m] = [listing |-> k, order |-> req[w].order]]
      PROVE  OwnerChanges(l)
    <2>1. row[k].owner = req[w].user
        BY <1>1, <1>3 DEF Writes, RequestHolds
    <2>2. l # k => MediaOf(l)' \subseteq MediaOf(l)
        BY <1>3 DEF MediaOf, Writes, TablesType
    <2> QED BY <1>1, <2>1, <2>2 DEF OwnerChanges
<1> QED BY <1>2, <1>3 DEF InsertMedia, Referenced

LEMMA OwnerNext ==
    ASSUME Writes, [Next]_vars, NEW l \in Listing
    PROVE  OwnerChanges(l)
<1>1. ASSUME NEW w \in Worker, Write(w)
      PROVE  OwnerChanges(l)
    <2>1. ASSUME InsertFavorite(w) \/ Abort(w)
          PROVE  OwnerChanges(l)
        BY <2>1, TablesKept DEF InsertFavorite, Abort
    <2> QED BY <1>1, <2>1, InsertOwner, UpdateOwner, DeleteOwner, InsertMediaOwner DEF Write
<1>2. ASSUME NEW w \in Worker, NEW u \in User, Arrive(w, u)
      PROVE  OwnerChanges(l)
    <2>1. UNCHANGED <<row, media>>
        BY <1>2 DEF Arrive, CreateListing, UpdateListing, UpdateListingStatus, DeleteListing,
                    AddMedia, AddFavorite
    <2> QED BY <2>1, TablesKept
<1>3. ASSUME NEW u \in User, NEW k \in Listing, RemoveFavorite(u, k)
      PROVE  OwnerChanges(l)
    BY <1>3, TablesKept DEF RemoveFavorite
<1>4. ASSUME UNCHANGED vars
      PROVE  OwnerChanges(l)
    BY <1>4, TablesKept DEF vars
<1> QED BY <1>1, <1>2, <1>3, <1>4, ReadFrame, TablesKept DEF Next

\* A listing changes, goes, or gains media by a request of the user who owns it
\* at that moment, though the owner is checked a statement earlier
\* (assertOwner, then UpdateListing, DeleteListing, AddMedia by id alone).
THEOREM OwnersOnly == Spec => OnlyOwnerChanges
<1>1. IInv /\ [Next]_vars => [\A l \in Listing : OwnerChanges(l)]_vars
    BY OwnerNext DEF IInv
<1>2. Spec => [][\A l \in Listing : OwnerChanges(l)]_vars
    BY <1>1, Invariant, PTL DEF Spec
<1> QED BY <1>2 DEF OnlyOwnerChanges, OwnerChanges

-----------------------------------------------------------------------------
(* Refusals *)

\* Refused only for the reasons that validation does not look at.
RefusedPlain(w) ==
    req[w].stage = "refused" =>
        LET f == req[w].form IN
        \/ f.nul
        \/ f.price # None /\ ~f.price.plain
        \/ f.rooms # None /\ f.rooms > IntegerMax
        \/ f.address # None /\ f.address > AddressMax

LEMMA RefusedNext ==
    ASSUME FormAssumption, MaxPrice <= PriceCapacity, Writes, [Next]_vars,
           NEW w \in Worker, RefusedPlain(w)
    PROVE  RefusedPlain(w)'
<1>1. CASE req'[w] = req[w]
    BY <1>1 DEF RefusedPlain
<1>2. CASE req'[w].stage # "refused"
    BY <1>2 DEF RefusedPlain
<1>3. ASSUME NEW v \in Worker, Finish(v)
      PROVE  req'[w] = req[w] \/ req'[w].stage # "refused"
    BY <1>3 DEF Finish, Idle, Writes, TablesType
<1>4. ASSUME NEW v \in Worker, Refuse(v), ~Storable(req[v].form), Insert(v) \/ Update(v)
      PROVE  RefusedPlain(w)'
    <2>1. CASE v # w
        BY <1>1, <1>4, <2>1 DEF Refuse, Writes, TablesType
    <2>2. CASE v = w
        <3> DEFINE f == req[w].form
        <3>1. req[w].stage \in {"insert", "update"}
            BY <1>4, <2>2 DEF Insert, Update
        <3>2. f \in Form
            BY DEF Writes, TablesType, Request
        <3>3. /\ f.price # None => ParsePrice(f.price)
              /\ f.status # None => f.status \in Status
            BY <3>1 DEF Writes, RequestHolds, ValidCreate
        <3>4. f.price # None => f.price.n <= PriceCapacity
            BY <3>2, <3>3, FormAssumption DEF ParsePrice, Form
        <3>5. f.price # None => f.price.plain \in BOOLEAN
            BY <3>2, FormAssumption DEF Form
        <3>6. req'[w].form = f
            BY <1>4, <2>2 DEF Refuse, Writes, TablesType, Request
        <3>7. f.rooms # None => f.rooms \in Int
            BY <3>2 DEF Form
        <3>8. f.address # None => f.address \in Nat
            BY <3>2 DEF Form
        <3>9. \/ f.nul
              \/ f.price # None /\ ~f.price.plain
              \/ f.rooms # None /\ f.rooms > IntegerMax
              \/ f.address # None /\ f.address > AddressMax
            BY <1>4, <2>2, <3>3, <3>4, <3>7, <3>8 DEF Storable
        <3> QED BY <3>6, <3>9 DEF RefusedPlain
    <2> QED BY <2>1, <2>2
<1>5. ASSUME NEW v \in Worker, Write(v)
      PROVE  RefusedPlain(w)'
    <2>1. Finish(v) \/ (Refuse(v) /\ ~Storable(req[v].form) /\ (Insert(v) \/ Update(v)))
        BY <1>5 DEF Write, Insert, Update, Delete, InsertMedia, InsertFavorite, Abort
    <2> QED BY <1>1, <1>2, <1>3, <1>4, <2>1
<1>6. ASSUME NEW v \in Worker, NEW u \in User, Arrive(v, u)
      PROVE  RefusedPlain(w)'
    <2>1. WriteStep(v)
        BY <1>6, ArriveStep
    <2>2. req'[v].stage # "refused"
        <3>1. ASSUME NEW f \in CreateForm, CreateListing(v, u, f)
              PROVE  req'[v].stage # "refused"
            BY <3>1 DEF CreateListing, Start, Idle, Writes, TablesType
        <3>2. ASSUME NEW l \in Listing, NEW f \in UpdateForm, UpdateListing(v, u, l, f)
              PROVE  req'[v].stage # "refused"
            BY <3>2 DEF UpdateListing, Start, Idle, Writes, TablesType
        <3>3. ASSUME NEW l \in Listing, NEW s \in StatusText, UpdateListingStatus(v, u, l, s)
              PROVE  req'[v].stage # "refused"
            BY <3>3 DEF UpdateListingStatus, Start, Idle, Writes, TablesType
        <3>4. ASSUME NEW l \in Listing, DeleteListing(v, u, l)
              PROVE  req'[v].stage # "refused"
            BY <3>4 DEF DeleteListing, Start, Idle, Writes, TablesType
        <3>5. ASSUME NEW l \in Listing, NEW o \in Order, AddMedia(v, u, l, o)
              PROVE  req'[v].stage # "refused"
            BY <3>5 DEF AddMedia, Start, Idle, Writes, TablesType
        <3>6. ASSUME NEW l \in Listing, AddFavorite(v, u, l)
              PROVE  req'[v].stage # "refused"
            BY <3>6 DEF AddFavorite, Start, Idle, Writes, TablesType
        <3> QED BY <1>6, <3>1, <3>2, <3>3, <3>4, <3>5, <3>6 DEF Arrive
    <2> QED BY <1>1, <1>2, <2>1, <2>2 DEF WriteStep
<1>7. ASSUME req' = req
      PROVE  RefusedPlain(w)'
    BY <1>1, <1>7
<1> QED BY <1>5, <1>6, <1>7, ReadFrame DEF Next, vars, RemoveFavorite

\* While the bound of parsePrice is no more than the column holds, the database
\* refuses no valid body for the size of its price, nor for its status: what it
\* does refuse has U+0000 in a text, too many rooms, too long an address, or a
\* price that is no plain numeral.
THEOREM Refusals == ASSUME MaxPrice <= PriceCapacity PROVE Spec => []PlainPriceFits
<1> DEFINE Inv == \A w \in Worker : RefusedPlain(w)
<1>1. Init => Inv
    BY DEF Init, RefusedPlain, Idle
<1>2. IInv /\ Inv /\ [Next]_vars => Inv'
    BY FormAssumption, RefusedNext DEF IInv
<1>3. Spec => []Inv
    BY <1>1, <1>2, Invariant, PTL DEF Spec
<1>4. Inv => PlainPriceFits
    BY DEF RefusedPlain, PlainPriceFits
<1> QED BY <1>3, <1>4, PTL

-----------------------------------------------------------------------------
(* Walks *)

\* What a walk has not shown yet of what it must show comes after the pages
\* that it has read, and the total tells that there are more.
WalkHolds(c) ==
    LET r == read[c] IN
    \A q \in Asked : r.query = q /\ q.kind # "one" /\ r.stage # "idle" =>
        /\ r.steady \subseteq Matching(q)
        /\ \A l \in r.steady \ r.seen :
            /\ r.stage = "rows" => (r.page - 1) * r.limit <= Position(q, l)
            /\ r.stage # "rows" => r.page * r.limit <= Position(q, l)
            /\ r.stage \in {"counts", "covers", "answer"} => r.page * r.limit < r.total

LEMMA NewerFinite ==
    ASSUME NEW q, NEW l
    PROVE  Newer(q, l) \subseteq Matching(q) /\ Matching(q) \in SUBSET Listing /\ IsFiniteSet(Newer(q, l))
<1>1. Newer(q, l) \subseteq Matching(q) /\ Matching(q) \in SUBSET Listing
    BY DEF Newer, Matching, Selected
<1>2. Newer(q, l) \in SUBSET Listing
    BY <1>1
<1> QED BY <1>1, <1>2, SetsOfListings

LEMMA StampType ==
    ASSUME TablesType, FormAssumption, NEW q \in Asked, NEW l \in Listing
    PROVE  Stamp(q, l) \in Nat
BY QueryType DEF TablesType, ListingRow, Stamp

\* Fewer rows are newer than a matching row than match.
LEMMA PositionBelow ==
    ASSUME TablesType, FormAssumption, NEW q \in Asked, NEW l \in Matching(q)
    PROVE  Position(q, l) < Cardinality(Matching(q)) /\ Cardinality(Matching(q)) <= Cardinality(Listing)
<1>1. l \notin Newer(q, l)
    <2>1. l \in Listing
        BY DEF Matching, Selected
    <2>2. Stamp(q, l) \in Nat
        BY <2>1, StampType
    <2> QED BY <2>2 DEF Newer
<1>2. Newer(q, l) \subseteq Matching(q) /\ Newer(q, l) # Matching(q)
    BY <1>1, NewerFinite
<1>3. Matching(q) \in SUBSET Listing /\ IsFiniteSet(Matching(q))
    BY NewerFinite, SetsOfListings
<1>4. Cardinality(Newer(q, l)) < Cardinality(Matching(q))
    <2>1. /\ Cardinality(Newer(q, l)) <= Cardinality(Matching(q))
          /\ Cardinality(Matching(q)) # Cardinality(Newer(q, l))
        BY <1>2, <1>3, FS_Subset
    <2>2. Cardinality(Newer(q, l)) \in Nat /\ Cardinality(Matching(q)) \in Nat
        BY <1>3, NewerFinite, FS_CardinalityType
    <2> QED BY <2>1, <2>2
<1>5. Cardinality(Matching(q)) <= Cardinality(Listing)
    BY <1>3, FS_Subset
<1> QED BY <1>4, <1>5 DEF Position

\* A total counts at least what matches.
LEMMA TotalAtLeast ==
    ASSUME FormAssumption, NEW q \in Asked
    PROVE  Cardinality(Matching(q)) <= Total(q)
<1>1. CASE q.kind = "favorites"
    <2> DEFINE liked == {l \in Listing : fav[q.user][l] # 0}
    <2>1. Matching(q) \subseteq liked /\ liked \in SUBSET Listing
        BY <1>1 DEF Matching, Selected
    <2>2. IsFiniteSet(liked)
        BY <2>1, SetsOfListings
    <2>3. Cardinality(Matching(q)) <= Cardinality(liked)
        BY <2>1, <2>2, FS_Subset
    <2> QED BY <1>1, <2>3 DEF Total
<1>2. CASE q.kind # "favorites"
    <2>1. Total(q) = Cardinality(Matching(q)) /\ Matching(q) \in SUBSET Listing
        BY <1>2, NewerFinite DEF Total
    <2> QED BY <2>1, SetsOfListings
<1> QED BY <1>1, <1>2

LEMMA WalkKept ==
    ASSUME UNCHANGED <<row, media, fav>>, NEW c \in Client, read'[c] = read[c], WalkHolds(c)
    PROVE  WalkHolds(c)'
<1>1. /\ \A q : Matching(q)' = Matching(q)
      /\ \A q, l : Position(q, l)' = Position(q, l)
    BY DEF Matching, Selected, Position, Newer, Stamp
<1> QED BY <1>1 DEF WalkHolds

\* A write that leaves a row steady takes no newer row off the list.
LEMMA PositionGrows ==
    ASSUME TablesType, TablesType', RowsHold, RowsStep, FavsStep, FormAssumption, NEW q \in Asked,
           NEW l \in Matching(q), l \in Matching(q)',
           \A k \in Matching(q) \ Matching(q)' : Stamp(q, k) < Stamp(q, l)
    PROVE  Position(q, l) <= Position(q, l)'
<1>1. \A k \in Matching(q) : k \in Listing /\ Stamp(q, k) \in Nat
    BY StampType DEF Matching, Selected
<1>2. ASSUME NEW k \in Matching(q), k \in Matching(q)'
      PROVE  Stamp(q, k)' = Stamp(q, k)
    <2>1. k \in Listing /\ row[k].born # 0 /\ row'[k].born = row[k].born
        BY <1>2 DEF Matching, Selected, RowsHold, RowsStep, Row
    <2>2. q.kind = "favorites" => fav'[q.user][k] = fav[q.user][k]
        BY <1>2, <2>1, QueryType DEF Matching, Selected, FavsStep
    <2> QED BY <2>1, <2>2 DEF Stamp
<1>3. ASSUME NEW k \in Newer(q, l)
      PROVE  k \in Newer(q, l)'
    <2>1. k \in Matching(q) /\ Stamp(q, k) > Stamp(q, l)
        BY <1>3 DEF Newer
    <2>2. k \in Matching(q)'
        BY <1>1, <2>1
    <2> QED BY <1>2, <2>1, <2>2 DEF Newer
<1>4. Newer(q, l) \subseteq Newer(q, l)'
    BY <1>3
<1>5. IsFiniteSet(Newer(q, l)')
    <2>1. Newer(q, l)' \in SUBSET Listing
        BY DEF Newer, Matching, Selected
    <2> QED BY <2>1, SetsOfListings
<1> QED BY <1>4, <1>5, FS_Subset DEF Position

LEMMA WalkObserve ==
    ASSUME FormAssumption, Writes, TablesType', RowsStep, FavsStep, Reads, Observe(row', fav'),
           NEW c \in Client, WalkHolds(c)
    PROVE  WalkHolds(c)'
<1> SUFFICES ASSUME NEW q \in Asked, read'[c].query = q, q.kind # "one", read'[c].stage # "idle"
             PROVE  (/\ read[c].steady \subseteq Matching(q)
                     /\ \A l \in read[c].steady \ read[c].seen :
                        /\ read[c].stage = "rows" => (read[c].page - 1) * read[c].limit <= Position(q, l)
                        /\ read[c].stage # "rows" => read[c].page * read[c].limit <= Position(q, l)
                        /\ read[c].stage \in {"counts", "covers", "answer"} =>
                            read[c].page * read[c].limit < read[c].total)'
    BY DEF WalkHolds
<1>1. Matching(q)' = Selected(q, row', fav')
    BY DEF Matching, Selected
<1>2. /\ read'[c].stage = read[c].stage /\ read[c].query = q
      /\ read'[c].page = read[c].page /\ read'[c].limit = read[c].limit
      /\ read'[c].total = read[c].total /\ read'[c].seen = read[c].seen
      /\ \A l \in read'[c].steady :
            /\ l \in read[c].steady
            /\ l \notin Matching(q) \ Matching(q)'
            /\ \A k \in Matching(q) \ Matching(q)' : Stamp(q, k) < Stamp(q, l)
    BY <1>1, ObserveEffect DEF Reads
<1>3. /\ read[c].steady \subseteq Matching(q)
      /\ \A l \in read[c].steady \ read[c].seen :
            /\ read[c].stage = "rows" => (read[c].page - 1) * read[c].limit <= Position(q, l)
            /\ read[c].stage # "rows" => read[c].page * read[c].limit <= Position(q, l)
            /\ read[c].stage \in {"counts", "covers", "answer"} =>
                read[c].page * read[c].limit < read[c].total
    BY <1>2 DEF WalkHolds
<1>4. (read[c].steady \subseteq Matching(q))'
    BY <1>2, <1>3
<1>5. ASSUME NEW l \in read'[c].steady
      PROVE  /\ l \in read[c].steady /\ Position(q, l) <= Position(q, l)'
             /\ Position(q, l) \in Nat /\ Position(q, l)' \in Nat
    <2>1. l \in Matching(q) /\ l \in Matching(q)'
        BY <1>2, <1>3, <1>4
    <2>2. Position(q, l) <= Position(q, l)'
        BY <1>2, <2>1, PositionGrows DEF Writes
    <2>3. Newer(q, l)' \in SUBSET Listing
        BY DEF Newer, Matching, Selected
    <2>4. Position(q, l)' \in Nat
        BY <2>3, SetsOfListings DEF Position
    <2> QED BY <1>2, <2>2, <2>4, PositionType
<1>6. read[c].page \in Nat \ {0} /\ read[c].limit \in Nat \ {0}
    BY <1>2 DEF Reads, ReadSound
<1> DEFINE first == (read[c].page - 1) * read[c].limit
           last == read[c].page * read[c].limit
<1>7. first \in Nat /\ last \in Nat
    BY <1>6, PageTimesLimit
<1>8. /\ (read'[c].page - 1) * read'[c].limit = first
      /\ read'[c].page * read'[c].limit = last
    BY <1>2
<1>9. \A l \in read[c].steady \ read[c].seen :
        /\ read[c].stage = "rows" => first <= Position(q, l)
        /\ read[c].stage # "rows" => last <= Position(q, l)
        /\ read[c].stage \in {"counts", "covers", "answer"} => last < read[c].total
    BY <1>3
<1> HIDE DEF first, last
<1>10. ASSUME NEW l \in read'[c].steady \ read'[c].seen
       PROVE  /\ read'[c].stage = "rows" => first <= Position(q, l)'
              /\ read'[c].stage # "rows" => last <= Position(q, l)'
              /\ read'[c].stage \in {"counts", "covers", "answer"} => last < read'[c].total
    BY <1>2, <1>5, <1>7, <1>9
<1> QED BY <1>4, <1>8, <1>10

\* WalkHolds of a reading r that is not in the state yet.
WalkFits(r) ==
    \A q \in Asked : r.query = q /\ q.kind # "one" /\ r.stage # "idle" =>
        /\ r.steady \subseteq Matching(q)
        /\ \A l \in r.steady \ r.seen :
            /\ r.stage = "rows" => (r.page - 1) * r.limit <= Position(q, l)
            /\ r.stage # "rows" => r.page * r.limit <= Position(q, l)
            /\ r.stage \in {"counts", "covers", "answer"} => r.page * r.limit < r.total

LEMMA WalkBecomes ==
    ASSUME Reads, UNCHANGED <<row, media, fav>>, NEW c \in Client, NEW new \in Reading,
           Becomes(c, new), WalkFits(new), \A d \in Client : WalkHolds(d)
    PROVE  \A d \in Client : WalkHolds(d)'
<1>1. read'[c] = new /\ \A d \in Client \ {c} : read'[d] = read[d]
    BY BecomesEffect DEF Reads
<1>2. /\ \A q : Matching(q)' = Matching(q)
      /\ \A q, l : Position(q, l)' = Position(q, l)
    BY DEF Matching, Selected, Position, Newer, Stamp
<1>3. WalkHolds(c)'
    BY <1>1, <1>2 DEF WalkHolds, WalkFits
<1> QED BY <1>1, <1>3, WalkKept

LEMMA WalkBegins ==
    ASSUME FormAssumption, NEW c \in Client, NEW q \in Asked, q.kind # "one",
           NEW page \in PageText, NEW limit \in LimitText, BeginList(c, q, page, limit)
    PROVE  \E new \in Reading : Becomes(c, new) /\ WalkFits(new)
<1> DEFINE p == NormalizePagination(page, limit)
           steady == IF p.page = 1 THEN Matching(q) ELSE {}
           new == [NoRead EXCEPT !.stage = After(q, "start"), !.query = q,
                    !.page = p.page, !.limit = p.limit, !.steady = steady]
<1>1. Becomes(c, new)
    BY DEF BeginList
<1>2. steady \in SUBSET Listing /\ steady \subseteq Matching(q) /\ After(q, "start") = "rows"
    BY DEF Matching, Selected, After, ListOrder
<1>3. /\ p.page \in Nat \ {0} /\ p.limit \in Nat \ {0}
      /\ steady # {} => p.page = 1
    BY PagesNormal
<1>4. \A l \in steady : (p.page - 1) * p.limit <= Position(q, l)
    <2>1. ASSUME NEW l \in steady PROVE (p.page - 1) * p.limit = 0
        <3> HIDE DEF p, steady
        <3> QED BY <1>3, <2>1
    <2> QED BY <2>1, PositionType
<1> HIDE DEF p, steady
<1>5. /\ new \in Reading /\ new.stage = "rows" /\ new.query = q
      /\ new.page = p.page /\ new.limit = p.limit /\ new.steady = steady
    BY <1>2, <1>3 DEF Reading, NoRead
<1> HIDE DEF new
<1>6. WalkFits(new)
    BY <1>2, <1>4, <1>5 DEF WalkFits
<1> QED BY <1>1, <1>5, <1>6

LEMMA WalkSelects ==
    ASSUME FormAssumption, Cardinality(Listing) <= IntBound, Writes, Reads,
           NEW c \in Client, WalkHolds(c), SelectRows(c)
    PROVE  \E new \in Reading : Becomes(c, new) /\ WalkFits(new)
<1>1. CASE Becomes(c, NoRead)
    BY <1>1, NoReadType DEF WalkFits
<1> DEFINE found == Slice(read[c].query, read[c].page, read[c].limit)
           moved == Moved(c)
           new == [moved EXCEPT !.data = found, !.seen = moved.seen \cup found, !.calm = TRUE]
<1>2. CASE Becomes(c, new)
    <2>1. found \in SUBSET Listing
        BY DEF Slice, Matching, Selected
    <2>2. read[c].stage = "rows" /\ read[c] \in Reading /\ ReadSound(c)
        BY DEF SelectRows, At, Reads, ReadType
    <2>3. /\ moved \in Reading
          /\ read[c].query.kind # "one" => moved.stage = "total"
          /\ moved.query = read[c].query /\ moved.page = read[c].page /\ moved.limit = read[c].limit
          /\ moved.seen = read[c].seen /\ moved.steady = read[c].steady
        BY <2>2, MovedEffect DEF After, ListOrder, DetailOrder
    <2> HIDE DEF found, moved
    <2>4. /\ new \in Reading /\ new.stage = moved.stage /\ new.query = read[c].query
          /\ new.page = read[c].page /\ new.limit = read[c].limit
          /\ new.seen = read[c].seen \cup found /\ new.steady = read[c].steady
        BY <2>1, <2>3 DEF Reading
    <2> HIDE DEF new
    <2>5. ASSUME NEW q \in Asked, read[c].query = q, q.kind # "one"
          PROVE  /\ read[c].steady \subseteq Matching(q)
                 /\ \A l \in read[c].steady \ (read[c].seen \cup found) :
                        read[c].page * read[c].limit <= Position(q, l)
        <3>1. /\ read[c].steady \subseteq Matching(q)
              /\ \A l \in read[c].steady \ read[c].seen :
                    (read[c].page - 1) * read[c].limit <= Position(q, l)
            BY <2>2, <2>5 DEF WalkHolds
        <3> SUFFICES ASSUME NEW l \in read[c].steady, l \notin read[c].seen, l \notin found
                     PROVE  read[c].page * read[c].limit <= Position(q, l)
            BY <3>1
        <3> DEFINE first == (read[c].page - 1) * read[c].limit
                   last == read[c].page * read[c].limit
        <3>2. /\ read[c].page \in Nat \ {0} /\ read[c].limit \in Nat \ {0}
              /\ first \in Nat /\ last \in Nat /\ first + read[c].limit = last
            BY <2>2, PageTimesLimit DEF ReadSound
        <3>3. first <= Position(q, l) /\ l \in Matching(q)
            BY <3>1
        <3>4. Position(q, l) < IntBound
            <4>1. /\ Position(q, l) < Cardinality(Matching(q))
                  /\ Cardinality(Matching(q)) <= Cardinality(Listing)
                BY <3>3, PositionBelow DEF Writes
            <4>2. /\ Cardinality(Matching(q)) \in Nat /\ Cardinality(Listing) \in Nat
                  /\ Position(q, l) \in Nat
                BY NewerFinite, SetsOfListings, PositionType
            <4> QED BY <4>1, <4>2
        <3>5. first < IntBound
            <4> HIDE DEF first
            <4> QED BY <3>2, <3>3, <3>4, PositionType
        <3>6. Offset(read[c].page, read[c].limit) = first
            BY <3>2, <3>5, OffsetInRange
        <3> HIDE DEF first, last
        <3>7. ~(Position(q, l) < first + read[c].limit)
            BY <2>5, <3>3, <3>6 DEF found, Slice
        <3>8. last <= Position(q, l)
            BY <3>2, <3>7, PositionType
        <3> QED BY <3>8 DEF last
    <2>6. WalkFits(new)
        BY <2>3, <2>4, <2>5 DEF WalkFits
    <2> QED BY <1>2, <2>4, <2>6
<1> QED BY <1>1, <1>2 DEF SelectRows

\* The total is counted after the rows were selected.
LEMMA WalkGoesOn ==
    ASSUME FormAssumption, Writes, Reads, NEW c \in Client, WalkHolds(c),
           read[c].stage \in {"total", "media", "counts", "covers"},
           NEW new \in Reading, new.stage = Moved(c).stage,
           new.query = read[c].query, new.page = read[c].page, new.limit = read[c].limit,
           new.steady = read[c].steady, new.seen = read[c].seen,
           new.total = IF read[c].stage = "total" THEN Total(read[c].query) ELSE read[c].total
    PROVE  WalkFits(new)
<1> SUFFICES ASSUME NEW q \in Asked, new.query = q, q.kind # "one"
             PROVE  /\ new.steady \subseteq Matching(q)
                    /\ \A l \in new.steady \ new.seen :
                        /\ new.page * new.limit <= Position(q, l)
                        /\ new.page * new.limit < new.total
    <2>1. new.stage # "rows"
        BY MovedEffect
    <2> QED BY <2>1 DEF WalkFits
<1>1. ReadSound(c)
    BY DEF Reads
<1>2. /\ new.steady \subseteq Matching(q)
      /\ \A l \in new.steady \ new.seen :
            /\ new.page * new.limit <= Position(q, l)
            /\ read[c].stage \in {"counts", "covers"} => new.page * new.limit < new.total
    BY DEF WalkHolds
<1>3. read[c].stage \in {"total", "counts", "covers"}
    BY <1>1 DEF ReadSound
<1>4. ASSUME NEW l \in new.steady \ new.seen, read[c].stage = "total"
      PROVE  new.page * new.limit < new.total
    <2>1. l \in Matching(q) /\ new.page * new.limit <= Position(q, l)
        BY <1>2, <1>4
    <2>2. Position(q, l) < Cardinality(Matching(q))
        BY <2>1, PositionBelow DEF Writes
    <2>3. Cardinality(Matching(q)) <= new.total /\ new.total \in Nat
        BY <1>4, TotalAtLeast DEF Reading
    <2>4. Cardinality(Matching(q)) \in Nat
        BY NewerFinite, SetsOfListings
    <2> DEFINE last == new.page * new.limit
    <2>5. last \in Nat
        BY <1>1, PageTimesLimit DEF ReadSound
    <2> HIDE DEF last
    <2>6. last <= Position(q, l) => last < new.total
        BY <2>2, <2>3, <2>4, <2>5, PositionType
    <2> QED BY <2>1, <2>6 DEF last
<1> QED BY <1>2, <1>3, <1>4

LEMMA WalkTurns ==
    ASSUME FormAssumption, Reads, NEW c \in Client, WalkHolds(c), TurnPage(c)
    PROVE  \E new \in Reading : Becomes(c, new) /\ WalkFits(new)
<1> DEFINE old == read[c]
           rows == After(read[c].query, "start")
           page == read[c].page + 1
           none == NoRead.counts
           new == [old EXCEPT !.stage = rows, !.page = page,
                    !.data = {}, !.total = 0, !.counts = none, !.shown = {}, !.calm = FALSE]
<1>1. Becomes(c, new) /\ read[c].stage = "answer" /\ read[c].query.kind # "one"
    BY DEF TurnPage, At
<1>2. old \in Reading /\ ReadSound(c) /\ none \in [Listing -> Nat]
    BY DEF Reads, ReadType, NoRead
<1>3. rows = "rows" /\ page \in Nat \ {0} /\ page - 1 = read[c].page
    BY <1>1, <1>2 DEF After, ListOrder, Reading
<1>4. read[c].page \in Nat \ {0} /\ read[c].limit \in Nat \ {0}
    BY <1>1, <1>2 DEF ReadSound
<1> HIDE DEF old, rows, page, none
<1>5. /\ new \in Reading /\ new.stage = "rows" /\ new.query = old.query
      /\ new.page = page /\ new.limit = old.limit /\ new.seen = old.seen /\ new.steady = old.steady
    BY <1>2, <1>3 DEF Reading
<1> HIDE DEF new
<1>6. \A q \in Asked : old.query = q =>
        /\ old.steady \subseteq Matching(q)
        /\ \A l \in old.steady \ old.seen : (page - 1) * old.limit <= Position(q, l)
    BY <1>1, <1>3 DEF WalkHolds, old
<1>7. WalkFits(new)
    BY <1>5, <1>6 DEF WalkFits
<1> QED BY <1>1, <1>5, <1>7

LEMMA WalkReads ==
    ASSUME FormAssumption, Cardinality(Listing) <= IntBound, Writes, Reads,
           NEW c \in Client, WalkHolds(c), Read(c)
    PROVE  \E new \in Reading : Becomes(c, new) /\ WalkFits(new)
<1> DEFINE Goal == \E new \in Reading : Becomes(c, new) /\ WalkFits(new)
           moved == Moved(c)
<1>1. ASSUME NEW q \in Asked \cap Lists, NEW page \in PageText, NEW limit \in LimitText,
             ListListings(c, q, page, limit) \/ MyListings(c, q, page, limit)
                \/ ListFavorites(c, q, page, limit)
      PROVE  Goal
    BY <1>1, WalkBegins DEF ListListings, MyListings, ListFavorites
<1>2. ASSUME NEW q \in Asked \cap Details, GetListing(c, q)
      PROVE  Goal
    <2> DEFINE steady == Matching(q)
               new == [NoRead EXCEPT !.stage = After(q, "start"), !.query = q,
                        !.page = 1, !.limit = 1, !.steady = steady]
    <2>1. Becomes(c, new) /\ q.kind = "one"
        BY <1>2 DEF GetListing, Details
    <2>2. steady \in SUBSET Listing /\ After(q, "start") = "rows"
        BY <2>1 DEF Matching, Selected, After, DetailOrder
    <2> HIDE DEF steady
    <2>3. new \in Reading /\ new.query = q
        BY <2>2 DEF Reading, NoRead
    <2> HIDE DEF new
    <2> QED BY <2>1, <2>3 DEF WalkFits
<1>3. ASSUME Leave(c)
      PROVE  Goal
    BY <1>3, NoReadType DEF Leave, WalkFits
<1>4. ASSUME CountTotal(c)
      PROVE  Goal
    <2> DEFINE total == Total(read[c].query)
               new == [moved EXCEPT !.total = total]
    <2>1. Becomes(c, new) /\ read[c].stage = "total"
        BY <1>4 DEF CountTotal, At
    <2>2. moved \in Reading
        BY <2>1, MovedEffect
    <2>3. total \in Nat
        <3>1. {l \in Listing : fav[read[c].query.user][l] # 0} \in SUBSET Listing
            OBVIOUS
        <3> QED BY <3>1, NewerFinite, SetsOfListings DEF Total
    <2> HIDE DEF moved, total
    <2>4. /\ new \in Reading /\ new.stage = moved.stage /\ new.query = moved.query
          /\ new.page = moved.page /\ new.limit = moved.limit /\ new.total = total
          /\ new.steady = moved.steady /\ new.seen = moved.seen
        BY <2>2, <2>3 DEF Reading
    <2> HIDE DEF new
    <2> QED BY <2>1, <2>4, MovedEffect, WalkGoesOn DEF moved, total
<1>5. ASSUME CountFavorites(c)
      PROVE  Goal
    <2> DEFINE counts == [l \in Listing |-> IF l \in read[c].data THEN FavoriteCount(l) ELSE 0]
               new == [moved EXCEPT !.counts = counts]
    <2>1. Becomes(c, new) /\ read[c].stage = "counts"
        BY <1>5 DEF CountFavorites, At
    <2>2. moved \in Reading
        BY <2>1, MovedEffect
    <2>3. counts \in [Listing -> Nat]
        BY FS_Subset, FS_CardinalityType DEF FavoriteCount
    <2> HIDE DEF moved, counts
    <2>4. /\ new \in Reading /\ new.stage = moved.stage /\ new.query = moved.query
          /\ new.page = moved.page /\ new.limit = moved.limit /\ new.total = moved.total
          /\ new.steady = moved.steady /\ new.seen = moved.seen
        BY <2>2, <2>3 DEF Reading
    <2> HIDE DEF new
    <2> QED BY <2>1, <2>4, MovedEffect, WalkGoesOn DEF moved
<1>6. ASSUME NEW s \in SUBSET Media, Becomes(c, [moved EXCEPT !.shown = s]),
             read[c].stage \in {"covers", "media"}
      PROVE  Goal
    <2> DEFINE new == [moved EXCEPT !.shown = s]
    <2>1. moved \in Reading
        BY <1>6, MovedEffect
    <2> HIDE DEF moved
    <2>2. /\ new \in Reading /\ new.stage = moved.stage /\ new.query = moved.query
          /\ new.page = moved.page /\ new.limit = moved.limit /\ new.total = moved.total
          /\ new.steady = moved.steady /\ new.seen = moved.seen
        BY <1>6, <2>1 DEF Reading
    <2>3. Becomes(c, new)
        BY <1>6
    <2> HIDE DEF new
    <2> QED BY <1>6, <2>2, <2>3, MovedEffect, WalkGoesOn DEF moved
<1>7. ASSUME SelectCovers(c)
      PROVE  Goal
    BY <1>6, <1>7 DEF SelectCovers, CoversOf, At
<1>8. ASSUME SelectMedia(c)
      PROVE  Goal
    BY <1>6, <1>8 DEF SelectMedia, MediaOf, At
<1> QED BY <1>1, <1>2, <1>3, <1>4, <1>5, <1>7, <1>8, WalkSelects, WalkTurns DEF Read

LEMMA WalkNext ==
    ASSUME FormAssumption, Cardinality(Listing) <= IntBound, IInv, [Next]_vars,
           \A c \in Client : WalkHolds(c)
    PROVE  \A c \in Client : WalkHolds(c)'
<1>1. Writes /\ Reads
    BY DEF IInv
<1>2. ASSUME TablesStep
      PROVE  \A c \in Client : WalkHolds(c)'
    <2>1. CASE UNCHANGED <<row, media, fav, read>>
        BY <2>1, WalkKept
    <2>2. CASE Observe(row', fav')
        BY <1>1, <1>2, <2>2, WalkObserve DEF TablesStep
    <2> QED BY <1>2, <2>1, <2>2 DEF TablesStep, Noticed
<1>3. ASSUME NEW w \in Worker, Write(w) \/ \E u \in User : Arrive(w, u)
      PROVE  \A c \in Client : WalkHolds(c)'
    BY <1>1, <1>2, <1>3, WriteNext DEF WriteStep
<1>4. ASSUME NEW u \in User, NEW l \in Listing, RemoveFavorite(u, l)
      PROVE  \A c \in Client : WalkHolds(c)'
    BY <1>1, <1>2, <1>4, RemoveFavoriteStep
<1>5. ASSUME NEW c \in Client, Read(c)
      PROVE  \A d \in Client : WalkHolds(d)'
    <2>1. PICK new \in Reading : Becomes(c, new) /\ WalkFits(new)
        BY <1>1, <1>5, WalkReads
    <2> QED BY <1>1, <1>5, <2>1, ReadFrame, WalkBecomes
<1>6. ASSUME UNCHANGED vars
      PROVE  \A c \in Client : WalkHolds(c)'
    BY <1>6, WalkKept DEF vars
<1> QED BY <1>3, <1>4, <1>5, <1>6 DEF Next

LEMMA WalkEnds ==
    ASSUME Reads, \A c \in Client : WalkHolds(c)
    PROVE  WalkShowsAll
<1> SUFFICES ASSUME NEW c \in Client, read[c].stage = "answer", read[c].query.kind # "one",
                    ~HasNextPage(c), NEW l \in read[c].steady, l \notin read[c].seen
             PROVE  FALSE
    BY DEF WalkShowsAll, At
<1> DEFINE page == read[c].page
           limit == read[c].limit
           total == read[c].total
           pages == TotalPages(total, limit)
<1>1. page \in Nat \ {0} /\ limit \in Nat \ {0} /\ total \in Nat
    BY DEF Reads, ReadSound, ReadType, Reading
<1>2. page * limit < total
    BY DEF Reads, ReadSound, WalkHolds
<1>3. pages \in Nat /\ total <= pages * limit
    BY <1>1, TotalPagesLeast
<1>4. pages <= page
    <2>1. ~(page < pages)
        BY DEF HasNextPage
    <2> HIDE DEF page, pages
    <2> QED BY <1>1, <1>3, <2>1
<1> HIDE DEF page, limit, total, pages
<1>5. pages * limit <= page * limit /\ pages * limit \in Nat /\ page * limit \in Nat
    BY <1>1, <1>3, <1>4
<1> DEFINE shown == page * limit
           all == pages * limit
<1>6. all <= shown /\ all \in Nat /\ shown \in Nat /\ shown < total /\ total <= all
    BY <1>2, <1>3, <1>5
<1> HIDE DEF shown, all
<1> QED BY <1>1, <1>6

\* A walk through the pages of a list shows whatever stayed on it, as long as
\* fewer listings than Go's int holds were ever created (Store.list counts
\* after it selects; OFFSET is computed in int).
THEOREM WalksComplete ==
    ASSUME Cardinality(Listing) <= IntBound
    PROVE  Spec => []WalkShowsAll
<1> DEFINE Inv == \A c \in Client : WalkHolds(c)
<1>1. Init => Inv
    BY DEF Init, NoRead, WalkHolds
<1>2. IInv /\ Inv /\ [Next]_vars => Inv'
    BY FormAssumption, WalkNext
<1>3. Spec => []Inv
    BY <1>1, <1>2, Invariant, PTL DEF Spec
<1>4. IInv /\ Inv => WalkShowsAll
    BY WalkEnds DEF IInv
<1> QED BY <1>3, <1>4, Invariant, PTL
=============================================================================
