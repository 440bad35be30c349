--------------------------- MODULE Catalogue_proofs ---------------------------
(* The writes of module Listings, a check in one statement and its effects *)
(* in another, implement the single steps of module Catalogue.             *)
EXTENDS Listings_proofs

USE IdAssumption, BoundAssumption

\* What Catalogue knows of the tables and requests.
Items == [l \in Listing |-> ItemOf(l)]
Attached == [m \in Media |-> media[m].listing]
Liked == [u \in User |-> {l \in Listing : fav[u][l] # 0}]
Askeds == [w \in Worker |-> AskedOf(req[w])]

-----------------------------------------------------------------------------
(* Requests *)

\* A request as validation leaves it is one that Catalogue takes.
LEMMA AskedType ==
    ASSUME FormAssumption, NEW held \in Request, held.stage \notin {"idle", "refused"},
           held.user \in User,
           held.stage = "insert" => ValidCreate(held.form),
           held.stage = "update" =>
                /\ held.form.price # None => ParsePrice(held.form.price)
                /\ held.form.status # None => held.form.status \in Status
    PROVE  AskedOf(held) \in Atomic!Request /\ AskedOf(held).kind = held.stage
<1> DEFINE sent == held.stage \in {"insert", "update"}
           price == IF sent /\ held.form.price # None THEN held.form.price.n ELSE None
           status == IF sent THEN held.form.status ELSE None
<1>1. held.form \in Form
    BY DEF Request
<1>2. sent => (held.form.price # None => ParsePrice(held.form.price))
    BY DEF ValidCreate
<1>3. held.form.price # None => held.form.price.n \in Int
    BY <1>1 DEF FormAssumption, Form
<1>4. price \in (0 .. MaxPrice) \cup {None}
    BY <1>2, <1>3 DEF ParsePrice
<1>5. status \in Status \cup {None}
    BY DEF ValidCreate
<1> HIDE DEF sent, price, status
<1>6. AskedOf(held) = [kind |-> held.stage, user |-> held.user, listing |-> held.listing,
                       price |-> price, status |-> status]
    BY DEF AskedOf, sent, price, status
<1>7. /\ held.stage \in {"insert", "update", "delete", "media", "favorite"}
      /\ held.listing \in Listing \cup {None}
    BY DEF Request
<1> QED BY <1>4, <1>5, <1>6, <1>7 DEF Atomic!Request

LEMMA SettledKind ==
    ASSUME NEW held, held.stage \in {"idle", "refused"}
    PROVE  AskedOf(held) = Atomic!Nothing
BY DEF AskedOf, Settled, Atomic!Nothing

\* What the writes of a request rely on, as Catalogue sees it.
LEMMA AskedFields ==
    ASSUME NEW held \in Request, held.stage \notin {"idle", "refused"}
    PROVE  /\ AskedOf(held).kind = held.stage
           /\ AskedOf(held).user = held.user
           /\ AskedOf(held).listing = held.listing
           /\ held.stage \in {"insert", "update"} =>
                /\ AskedOf(held).price = IF held.form.price # None THEN held.form.price.n ELSE None
                /\ AskedOf(held).status = held.form.status
BY DEF AskedOf

\* A request is over for Catalogue when it is done or refused.
LEMMA SettleEffect ==
    ASSUME Writes, NEW w \in Worker, Finish(w) \/ Refuse(w)
    PROVE  Askeds' = [Askeds EXCEPT ![w] = Atomic!Nothing]
<1>1. req \in [Worker -> Request]
    BY DEF Writes, TablesType
<1>2. req'[w].stage \in {"idle", "refused"}
    BY <1>1 DEF Finish, Refuse, Idle, Request
<1>3. \A v \in Worker \ {w} : req'[v] = req[v]
    BY <1>1 DEF Finish, Refuse
<1>4. AskedOf(req'[w]) = Atomic!Nothing
    BY <1>2, SettledKind
<1>5. Askeds' = [v \in Worker |-> AskedOf(req'[v])]
    BY DEF Askeds
<1> HIDE DEF Askeds
<1>6. Askeds = [v \in Worker |-> AskedOf(req[v])]
    BY DEF Askeds
<1> QED BY <1>3, <1>4, <1>5, <1>6

LEMMA TablesFrame ==
    /\ UNCHANGED row => Items' = Items
    /\ UNCHANGED media => Attached' = Attached
    /\ UNCHANGED fav => Liked' = Liked
    /\ UNCHANGED req => Askeds' = Askeds
BY DEF Items, ItemOf, Row, Attached, Liked, Askeds

\* A request that wrote nothing failed, or was refused before.
LEMMA FailStep ==
    ASSUME Writes, NEW w \in Worker, Finish(w) \/ Refuse(w), UNCHANGED <<row, media, fav>>
    PROVE  Atomic!Fail(w)
<1>1. Askeds' = [Askeds EXCEPT ![w] = Atomic!Nothing]
    BY SettleEffect
<1>2. Items' = Items /\ Attached' = Attached /\ Liked' = Liked
    BY TablesFrame
<1> QED BY <1>1, <1>2 DEF Atomic!Fail, Atomic!Takes, Items, Attached, Liked, Askeds

\* A request arrives: the check in the handler is none of Catalogue's business.
LEMMA ArriveAsks ==
    ASSUME Writes, FormAssumption, NEW w \in Worker, NEW u \in User, Arrive(w, u)
    PROVE  Atomic!Ask(w)
<1>1. WriteStep(w) /\ UNCHANGED <<row, media, fav>>
    BY ArriveStep DEF Arrive, CreateListing, UpdateListing, UpdateListingStatus,
       DeleteListing, AddMedia, AddFavorite
<1>2. req'[w] \in Request
    BY <1>1 DEF WriteStep, TablesStep, TablesType
<1>3. /\ req[w] = Idle
      /\ req'[w].stage \in {"insert", "update", "delete", "media", "favorite"}
    <2>1. ASSUME NEW request, Start(w, request),
                 request.stage \in {"insert", "update", "delete", "media", "favorite"},
                 \A n : [request EXCEPT !.stamp = n].stage = request.stage
          PROVE  /\ req[w] = Idle
                 /\ req'[w].stage \in {"insert", "update", "delete", "media", "favorite"}
        BY <2>1 DEF Start, Writes, TablesType
    <2>2. CASE \E f \in CreateForm : CreateListing(w, u, f)
        BY <2>1, <2>2 DEF CreateListing, Idle
    <2>3. CASE \E l \in Listing, f \in UpdateForm : UpdateListing(w, u, l, f)
        BY <2>1, <2>3 DEF UpdateListing, Idle
    <2>4. CASE \E l \in Listing, s \in StatusText : UpdateListingStatus(w, u, l, s)
        BY <2>1, <2>4 DEF UpdateListingStatus, Idle
    <2>5. CASE \E l \in Listing : DeleteListing(w, u, l)
        BY <2>1, <2>5 DEF DeleteListing, Idle
    <2>6. CASE \E l \in Listing, o \in Order : AddMedia(w, u, l, o)
        BY <2>1, <2>6 DEF AddMedia, Idle
    <2>7. CASE \E l \in Listing : AddFavorite(w, u, l)
        BY <2>1, <2>7 DEF AddFavorite, Idle
    <2> QED BY <2>2, <2>3, <2>4, <2>5, <2>6, <2>7 DEF Arrive
<1>4. RequestHolds(w)'
    BY <1>1 DEF WriteStep
<1>5. req'[w].user \in User
    BY <1>3, <1>4 DEF RequestHolds
<1>6. AskedOf(req'[w]) \in Atomic!Request
    BY <1>2, <1>3, <1>4, <1>5, AskedType DEF RequestHolds
<1>7. AskedOf(req[w]) = Atomic!Nothing
    BY <1>3, SettledKind DEF Idle
<1>8. \A v \in Worker \ {w} : req'[v] = req[v]
    BY <1>1 DEF WriteStep
<1>9. Askeds' = [v \in Worker |-> AskedOf(req'[v])] /\ Askeds = [v \in Worker |-> AskedOf(req[v])]
    BY DEF Askeds
<1>10. Askeds' = [Askeds EXCEPT ![w] = Askeds'[w]]
    <2> HIDE DEF Askeds
    <2> QED BY <1>8, <1>9
<1>11. Askeds[w] = Atomic!Nothing /\ Askeds'[w] \in Atomic!Request
    <2> HIDE DEF Askeds
    <2> QED BY <1>6, <1>7, <1>9
<1>12. Items' = Items /\ Attached' = Attached /\ Liked' = Liked
    BY <1>1, TablesFrame
<1> QED BY <1>10, <1>11, <1>12 DEF Atomic!Ask, Items, Attached, Liked, Askeds

-----------------------------------------------------------------------------
(* The writes *)

LEMMA OneItem ==
    ASSUME NEW l \in Listing, \A k \in Listing \ {l} : row'[k] = row[k]
    PROVE  Items' = [Items EXCEPT ![l] = ItemOf(l)']
<1>1. \A k \in Listing \ {l} : ItemOf(k)' = ItemOf(k)
    BY DEF ItemOf, Row
<1>2. Items' = [k \in Listing |-> ItemOf(k)'] /\ Items = [k \in Listing |-> ItemOf(k)]
    BY DEF Items
<1> HIDE DEF Items
<1> QED BY <1>1, <1>2

\* Created: the listing is the user's, at the price it sent.
LEMMA InsertPublishes ==
    ASSUME Writes, FormAssumption, NEW w \in Worker, Insert(w)
    PROVE  Atomic!Publish(w) \/ Atomic!Fail(w)
<1>1. CASE Refuse(w) /\ UNCHANGED <<row, read>>
    BY <1>1, FailStep DEF Insert
<1>2. ASSUME NEW l \in Listing, row[l].born = 0, Finish(w),
             row' = [row EXCEPT ![l] =
                        [owner |-> req[w].user, price |-> req[w].form.price.n,
                         status |-> DefaultStatus, born |-> req[w].stamp]]
      PROVE  Atomic!Publish(w)
    <2>1. req[w].stage = "insert" /\ UNCHANGED <<media, fav>> /\ req[w] \in Request
        BY DEF Insert, Writes, TablesType
    <2>2. /\ req[w].user \in User /\ req[w].form.price # None
          /\ req[w].form.price.n \in Int
        BY <2>1, FormAssumption DEF Writes, RequestHolds, ValidCreate, Request, Form
    <2>3. /\ AskedOf(req[w]).kind = "insert" /\ AskedOf(req[w]).user = req[w].user
          /\ AskedOf(req[w]).price = req[w].form.price.n
        BY <2>1, <2>2, AskedFields
    <2>4. ItemOf(l) = Atomic!Blank("none")
        <3>1. /\ ~Row(l) /\ row[l].owner = None /\ row[l].price = 0 /\ row[l].status = "avaiable"
            BY <1>2 DEF Writes, RowsHold, Row
        <3> QED BY <1>2, <3>1 DEF ItemOf, Atomic!Blank, DefaultStatus
    <2>5. /\ row'[l] = [owner |-> req[w].user, price |-> req[w].form.price.n,
                        status |-> DefaultStatus, born |-> req[w].stamp]
          /\ \A k \in Listing \ {l} : row'[k] = row[k]
        BY <1>2 DEF Writes, TablesType
    <2>6. ItemOf(l)' = [state |-> "listed", owner |-> req[w].user,
                        price |-> req[w].form.price.n, status |-> DefaultStatus]
        <3>1. row'[l].owner # None
            BY <2>2, <2>5
        <3> QED BY <2>5, <3>1 DEF ItemOf, Row
    <2>7. Items' = [Items EXCEPT ![l] = [state |-> "listed", owner |-> AskedOf(req[w]).user,
                                        price |-> AskedOf(req[w]).price, status |-> DefaultStatus]]
        BY <2>3, <2>5, <2>6, OneItem
    <2>8. Askeds' = [Askeds EXCEPT ![w] = Atomic!Nothing] /\ Attached' = Attached /\ Liked' = Liked
        BY <1>2, <2>1, SettleEffect, TablesFrame
    <2>9. AskedOf(req[w]).price # None
        BY <2>2, <2>3
    <2> DEFINE one == AskedOf(req[w])
    <2>10. Askeds[w] = one /\ Items[l] = ItemOf(l)
        BY DEF Askeds, Items
    <2> HIDE DEF one
    <2>11. one.kind = "insert" /\ one.price # None
        BY <2>3, <2>9 DEF one
    <2>12. Items' = [Items EXCEPT ![l] = [state |-> "listed", owner |-> one.user,
                                         price |-> one.price, status |-> DefaultStatus]]
        BY <2>7 DEF one
    <2> QED BY <2>4, <2>8, <2>10, <2>11, <2>12
            DEF Atomic!Publish, Atomic!Takes, Items, Attached, Liked, Askeds
<1> QED BY <1>1, <1>2 DEF Insert

\* Owned(w), as the request relies on it since its check.
LEMMA StillOwned ==
    ASSUME Writes, NEW w \in Worker, req[w].stage \in {"update", "delete", "media"},
           Row(req[w].listing)
    PROVE  Atomic!Owned(w)
<1> DEFINE l == req[w].listing
<1>1. req[w] \in Request /\ l \in Listing /\ row[l].owner = req[w].user
    BY DEF Writes, TablesType, RequestHolds
<1>2. AskedOf(req[w]).listing = l /\ AskedOf(req[w]).user = req[w].user
    BY <1>1, AskedFields
<1>3. Askeds[w] = AskedOf(req[w]) /\ Items[l] = ItemOf(l)
    BY <1>1 DEF Askeds, Items
<1>4. ItemOf(l).state = "listed" /\ ItemOf(l).owner = row[l].owner
    BY DEF ItemOf
<1> HIDE DEF l
<1>5. /\ Items[Askeds[w].listing].state = "listed"
      /\ Items[Askeds[w].listing].owner = Askeds[w].user
    BY <1>1, <1>2, <1>3, <1>4
<1> QED BY <1>5 DEF Atomic!Owned, Atomic!Listed, Items, Askeds

\* A change is the owner's, and of what it named.
LEMMA UpdateEdits ==
    ASSUME Writes, FormAssumption, NEW w \in Worker, Update(w)
    PROVE  Atomic!Edit(w) \/ Atomic!Fail(w)
<1> DEFINE f == req[w].form
<1>1. req[w].stage = "update" /\ UNCHANGED <<media, fav>> /\ req[w] \in Request
    BY DEF Update, Writes, TablesType
<1>2. CASE (Refuse(w) \/ Finish(w)) /\ UNCHANGED <<row, read>>
    BY <1>1, <1>2, FailStep
<1>3. ASSUME NEW l \in Listing, l = req[w].listing, Row(l), Finish(w),
             row' = [row EXCEPT ![l].price = IF f.price = None THEN @ ELSE f.price.n,
                                ![l].status = IF f.status = None THEN @ ELSE f.status]
      PROVE  Atomic!Edit(w)
    <2>1. Atomic!Owned(w)
        BY <1>1, <1>3, StillOwned
    <2>2. row \in [Listing -> ListingRow] /\ f \in Form
        BY <1>1 DEF Writes, TablesType, Request
    <2> DEFINE one == AskedOf(req[w])
    <2>3. /\ one.kind = "update" /\ one.listing = l /\ one.status = f.status
          /\ one.price = IF f.price # None THEN f.price.n ELSE None
        BY <1>1, <1>3, AskedFields
    <2>4. f.price # None => f.price.n # None
        BY <2>2, FormAssumption DEF Form
    <2>5. Askeds[w] = one
        BY DEF Askeds
    <2> HIDE DEF f, one
    <2>6. /\ row'[l].owner = row[l].owner /\ row'[l].born = row[l].born
          /\ row'[l].price = IF one.price = None THEN row[l].price ELSE one.price
          /\ row'[l].status = IF one.status = None THEN row[l].status ELSE one.status
          /\ \A k \in Listing \ {l} : row'[k] = row[k]
        BY <1>3, <2>2, <2>3, <2>4 DEF ListingRow
    <2> DEFINE price == IF one.price = None THEN row[l].price ELSE one.price
               status == IF one.status = None THEN row[l].status ELSE one.status
    <2>7. ItemOf(l)' = [ItemOf(l) EXCEPT !.price = price, !.status = status]
        <3>1. Row(l) /\ Row(l)'
            BY <1>3, <2>6 DEF Row
        <3> HIDE DEF price, status
        <3>2. row'[l].price = price /\ row'[l].status = status
            BY <2>6 DEF price, status
        <3>3. ItemOf(l) = [state |-> "listed", owner |-> row[l].owner,
                           price |-> row[l].price, status |-> row[l].status]
            BY <3>1 DEF ItemOf
        <3>4. ItemOf(l)' = [state |-> "listed", owner |-> row'[l].owner,
                            price |-> row'[l].price, status |-> row'[l].status]
            BY <3>1 DEF ItemOf
        <3>5. ItemOf(l)' = [state |-> "listed", owner |-> row[l].owner,
                            price |-> price, status |-> status]
            BY <2>6, <3>2, <3>4
        <3> DEFINE item == ItemOf(l)
        <3>6. item = [state |-> "listed", owner |-> row[l].owner,
                      price |-> row[l].price, status |-> row[l].status]
            BY <3>3
        <3> HIDE DEF item
        <3>7. [item EXCEPT !.price = price, !.status = status]
                = [state |-> "listed", owner |-> row[l].owner, price |-> price, status |-> status]
            <4> DEFINE priced == [item EXCEPT !.price = price]
            <4>1. [item EXCEPT !.price = price, !.status = status] = [priced EXCEPT !.status = status]
                OBVIOUS
            <4>2. priced = [state |-> "listed", owner |-> row[l].owner,
                            price |-> price, status |-> row[l].status]
                BY <3>6
            <4> HIDE DEF priced
            <4>3. [priced EXCEPT !.status = status]
                    = [state |-> "listed", owner |-> row[l].owner, price |-> price, status |-> status]
                BY <4>2
            <4> QED BY <4>1, <4>3
        <3> QED BY <3>5, <3>7 DEF item
    <2>8. Items' = [Items EXCEPT ![l] = ItemOf(l)']
        BY <2>2, <2>6, OneItem
    <2>9. Items[l] = ItemOf(l) /\ ItemOf(l).price = row[l].price /\ ItemOf(l).status = row[l].status
        BY <2>2 DEF Items, ItemOf
    <2>10. Items' = [Items EXCEPT ![l].price = IF one.price = None THEN @ ELSE one.price,
                                 ![l].status = IF one.status = None THEN @ ELSE one.status]
        <3>1. Items' = [Items EXCEPT ![l] = [Items[l] EXCEPT !.price = price, !.status = status]]
            BY <2>7, <2>8, <2>9
        <3>2. /\ price = IF one.price = None THEN Items[l].price ELSE one.price
              /\ status = IF one.status = None THEN Items[l].status ELSE one.status
            BY <2>9
        <3>3. Items[l] = [state |-> Items[l].state, owner |-> Items[l].owner,
                          price |-> Items[l].price, status |-> Items[l].status]
            BY <2>9 DEF ItemOf
        <3>4. Items = [k \in Listing |-> Items[k]]
            BY DEF Items
        <3> HIDE DEF price, status, Items
        <3> QED BY <2>2, <3>1, <3>2, <3>3, <3>4
    <2>11. Askeds' = [Askeds EXCEPT ![w] = Atomic!Nothing] /\ Attached' = Attached /\ Liked' = Liked
        BY <1>1, <1>3, SettleEffect, TablesFrame
    <2> QED BY <2>1, <2>3, <2>5, <2>10, <2>11
            DEF Atomic!Edit, Atomic!Takes, Items, Attached, Liked, Askeds
<1>4. req[w].listing \in Listing
    BY <1>1 DEF Writes, RequestHolds
<1> QED BY <1>2, <1>3, <1>4 DEF Update

\* Deleted: with its media and favorites; or not at all, when another delete
\* came first.
LEMMA DeleteWithdraws ==
    ASSUME Writes, NEW w \in Worker, Delete(w)
    PROVE  Atomic!Withdraw(w) \/ Atomic!Fail(w)
<1>1. PICK l \in Listing : l = req[w].listing
    BY DEF Delete, Writes, RequestHolds
<1>2. /\ req[w].stage = "delete" /\ Finish(w)
      /\ row' = [row EXCEPT ![l] = [NoRow EXCEPT !.born = row[l].born]]
      /\ media' = [m \in Media |-> IF media[m].listing = l THEN NoMedia ELSE media[m]]
      /\ fav' = [u \in User |-> [fav[u] EXCEPT ![l] = 0]]
    BY <1>1 DEF Delete
<1>3. /\ row \in [Listing -> ListingRow] /\ media \in [Media -> MediaRow]
      /\ fav \in [User -> [Listing -> Nat]] /\ req[w] \in Request
    BY DEF Writes, TablesType
<1>4. row[l].born # 0
    BY <1>1, <1>2 DEF Writes, RequestHolds
<1>5. /\ row'[l] = [NoRow EXCEPT !.born = row[l].born]
      /\ \A k \in Listing \ {l} : row'[k] = row[k]
    BY <1>2, <1>3
<1>6. CASE Row(l)
    <2>1. Atomic!Owned(w)
        BY <1>1, <1>2, <1>6, StillOwned
    <2>2. /\ row'[l].owner = None /\ row'[l].born # 0 /\ row'[l].price = 0
          /\ row'[l].status = DefaultStatus
        BY <1>4, <1>5 DEF NoRow, DefaultStatus
    <2>3. ItemOf(l)' = Atomic!Blank("gone")
        BY <2>2 DEF ItemOf, Row, Atomic!Blank
    <2>4. Items' = [Items EXCEPT ![l] = Atomic!Blank("gone")]
        BY <1>5, <2>3, OneItem
    <2>5. Attached' = [m \in Media |-> IF Attached[m] = l THEN None ELSE Attached[m]]
        BY <1>2 DEF Attached, NoMedia
    <2>6. Liked' = [u \in User |-> Liked[u] \ {l}]
        <3>1. \A u \in User, k \in Listing : fav'[u][k] # 0 <=> fav[u][k] # 0 /\ k # l
            BY <1>2, <1>3
        <3>2. Liked' = [u \in User |-> {k \in Listing : fav'[u][k] # 0}]
            BY DEF Liked
        <3>3. \A u \in User : {k \in Listing : fav'[u][k] # 0} = Liked[u] \ {l}
            BY <3>1 DEF Liked
        <3> HIDE DEF Liked
        <3> QED BY <3>2, <3>3
    <2>7. Askeds' = [Askeds EXCEPT ![w] = Atomic!Nothing]
        BY <1>2, SettleEffect
    <2>8. Askeds[w].kind = "delete" /\ Askeds[w].listing = l
        BY <1>1, <1>2, <1>3, AskedFields DEF Askeds
    <2> QED BY <2>1, <2>4, <2>5, <2>6, <2>7, <2>8
            DEF Atomic!Withdraw, Atomic!Takes, Items, Attached, Liked, Askeds
<1>7. CASE ~Row(l)
    <2>1. Items' = Items
        <3>1. row[l].owner = None /\ row[l].price = 0 /\ row[l].status = "avaiable"
            BY <1>7 DEF Writes, RowsHold, Row
        <3>2. /\ row'[l].owner = None /\ row'[l].born = row[l].born /\ row'[l].price = 0
              /\ row'[l].status = "avaiable"
            BY <1>5 DEF NoRow
        <3>3. ItemOf(l)' = ItemOf(l)
            BY <3>1, <3>2 DEF ItemOf, Row
        <3>4. \A k \in Listing : ItemOf(k)' = ItemOf(k)
            BY <1>5, <3>3 DEF ItemOf, Row
        <3> QED BY <3>4 DEF Items
    <2>2. Attached' = Attached
        <3>1. \A m \in Media : media[m].listing # l
            BY <1>1, <1>7 DEF Writes, NoOrphans
        <3> QED BY <1>2, <3>1 DEF Attached
    <2>3. Liked' = Liked
        <3>1. \A u \in User, k \in Listing : fav'[u][k] = fav[u][k]
            BY <1>2, <1>3, <1>7 DEF Writes, NoOrphans
        <3> QED BY <3>1 DEF Liked
    <2>4. Askeds' = [Askeds EXCEPT ![w] = Atomic!Nothing]
        BY <1>2, SettleEffect
    <2> QED BY <2>1, <2>2, <2>3, <2>4 DEF Atomic!Fail, Atomic!Takes, Items, Attached, Liked, Askeds
<1> QED BY <1>6, <1>7

LEMMA InsertAttaches ==
    ASSUME Writes, NEW w \in Worker, InsertMedia(w)
    PROVE  Atomic!Attach(w) \/ Atomic!Fail(w)
<1>1. PICK l \in Listing : l = req[w].listing
    BY DEF InsertMedia, Writes, RequestHolds
<1>2. req[w].stage = "media" /\ Finish(w) /\ UNCHANGED <<row, fav>>
    BY DEF InsertMedia
<1>3. CASE UNCHANGED media
    BY <1>2, <1>3, FailStep
<1>4. ASSUME Row(l), NEW m \in Media, media[m] = NoMedia,
             media' = [media EXCEPT ![m] = [listing |-> l, order |-> req[w].order]]
      PROVE  Atomic!Attach(w)
    <2>1. Atomic!Owned(w)
        BY <1>1, <1>2, <1>4, StillOwned
    <2>2. Attached[m] = None
        BY <1>4 DEF Attached, NoMedia
    <2>3. Attached' = [Attached EXCEPT ![m] = l]
        <3>1. /\ media'[m].listing = l
              /\ \A k \in Media \ {m} : media'[k].listing = media[k].listing
            BY <1>4 DEF Writes, TablesType
        <3> QED BY <3>1 DEF Attached
    <2>4. Askeds[w].kind = "media" /\ Askeds[w].listing = l
        BY <1>1, <1>2, AskedFields DEF Askeds, Writes, TablesType
    <2>5. Askeds' = [Askeds EXCEPT ![w] = Atomic!Nothing] /\ Items' = Items /\ Liked' = Liked
        BY <1>2, SettleEffect, TablesFrame
    <2> QED BY <2>1, <2>2, <2>3, <2>4, <2>5
            DEF Atomic!Attach, Atomic!Takes, Items, Attached, Liked, Askeds
<1> QED BY <1>1, <1>3, <1>4 DEF InsertMedia, Referenced

LEMMA InsertLikes ==
    ASSUME Writes, NEW w \in Worker, InsertFavorite(w)
    PROVE  Atomic!Like(w) \/ Atomic!Fail(w)
<1>1. PICK u \in User, l \in Listing : u = req[w].user /\ l = req[w].listing
    BY DEF InsertFavorite, Writes, RequestHolds
<1>2. req[w].stage = "favorite" /\ Finish(w) /\ UNCHANGED <<row, media>>
    BY DEF InsertFavorite
<1>3. CASE UNCHANGED fav
    BY <1>2, <1>3, FailStep
<1>4. CASE Row(l) /\ fav' = [fav EXCEPT ![u][l] = req[w].stamp]
    <2>1. req[w].stamp # 0
        BY <1>2 DEF Writes, RequestHolds
    <2>2. \A v \in User, k \in Listing :
            fav'[v][k] # 0 <=> fav[v][k] # 0 \/ (v = u /\ k = l)
        BY <1>4, <2>1 DEF Writes, TablesType
    <2>3. Liked' = [Liked EXCEPT ![u] = @ \cup {l}]
        <3>1. Liked' = [v \in User |-> {k \in Listing : fav'[v][k] # 0}]
            BY DEF Liked
        <3>2. {k \in Listing : fav'[u][k] # 0} = Liked[u] \cup {l}
            BY <2>2 DEF Liked
        <3>3. \A v \in User \ {u} : {k \in Listing : fav'[v][k] # 0} = Liked[v]
            BY <2>2 DEF Liked
        <3>4. Liked = [v \in User |-> Liked[v]]
            BY DEF Liked
        <3> HIDE DEF Liked
        <3> QED BY <3>1, <3>2, <3>3, <3>4
    <2>4. Askeds[w].kind = "favorite" /\ Askeds[w].listing = l /\ Askeds[w].user = u
        BY <1>1, <1>2, AskedFields DEF Askeds, Writes, TablesType
    <2>5. Items[l].state = "listed"
        BY <1>4 DEF Items, ItemOf
    <2>6. Askeds' = [Askeds EXCEPT ![w] = Atomic!Nothing] /\ Items' = Items /\ Attached' = Attached
        BY <1>2, SettleEffect, TablesFrame
    <2> QED BY <2>3, <2>4, <2>5, <2>6
            DEF Atomic!Like, Atomic!Takes, Atomic!Listed, Items, Attached, Liked, Askeds
<1> QED BY <1>1, <1>3, <1>4 DEF InsertFavorite, Referenced

LEMMA RemoveUnlikes ==
    ASSUME Writes, NEW u \in User, NEW l \in Listing, RemoveFavorite(u, l)
    PROVE  Atomic!Unlike(u, l)
<1>1. fav' = [fav EXCEPT ![u][l] = 0] /\ UNCHANGED <<row, media, req>>
    BY DEF RemoveFavorite
<1>2. \A v \in User, k \in Listing :
        fav'[v][k] # 0 <=> fav[v][k] # 0 /\ ~(v = u /\ k = l)
    BY <1>1 DEF Writes, TablesType
<1>3. Liked' = [Liked EXCEPT ![u] = @ \ {l}]
    <2>1. Liked' = [v \in User |-> {k \in Listing : fav'[v][k] # 0}]
        BY DEF Liked
    <2>2. {k \in Listing : fav'[u][k] # 0} = Liked[u] \ {l}
        BY <1>2 DEF Liked
    <2>3. \A v \in User \ {u} : {k \in Listing : fav'[v][k] # 0} = Liked[v]
        BY <1>2 DEF Liked
    <2>4. Liked = [v \in User |-> Liked[v]]
        BY DEF Liked
    <2> HIDE DEF Liked
    <2> QED BY <2>1, <2>2, <2>3, <2>4
<1>4. Items' = Items /\ Attached' = Attached /\ Askeds' = Askeds
    BY <1>1, TablesFrame
<1> QED BY <1>3, <1>4 DEF Atomic!Unlike, Items, Attached, Liked, Askeds

-----------------------------------------------------------------------------
(* The theorem *)

LEMMA CatalogueInit == Init => Atomic!Init
<1> SUFFICES ASSUME Init PROVE Atomic!Init
    OBVIOUS
<1>1. \A l \in Listing : ItemOf(l) = Atomic!Blank("none")
    BY DEF Init, ItemOf, Row, NoRow, Atomic!Blank, DefaultStatus
<1>2. Items = [l \in Listing |-> Atomic!Blank("none")]
    BY <1>1 DEF Items
<1>3. Attached = [m \in Media |-> None]
    BY DEF Init, Attached, NoMedia
<1>4. Liked = [u \in User |-> {}]
    BY DEF Init, Liked
<1>5. \A w \in Worker : AskedOf(req[w]) = Atomic!Nothing
    BY SettledKind DEF Init, Idle
<1>6. Askeds = [w \in Worker |-> Atomic!Nothing]
    BY <1>5 DEF Askeds
<1> QED BY <1>2, <1>3, <1>4, <1>6 DEF Atomic!Init, Items, Attached, Liked, Askeds

LEMMA CatalogueNext ==
    ASSUME Writes, FormAssumption, [Next]_vars
    PROVE  Atomic!Next \/ (Items' = Items /\ Attached' = Attached /\ Liked' = Liked /\ Askeds' = Askeds)
<1>1. ASSUME NEW w \in Worker, NEW u \in User, Arrive(w, u)
      PROVE  Atomic!Next
    BY <1>1, ArriveAsks DEF Atomic!Next
<1>2. ASSUME NEW w \in Worker, Write(w)
      PROVE  Atomic!Next
    <2>1. CASE Insert(w)
        BY <2>1, InsertPublishes DEF Atomic!Next
    <2>2. CASE Update(w)
        BY <2>2, UpdateEdits DEF Atomic!Next
    <2>3. CASE Delete(w)
        BY <2>3, DeleteWithdraws DEF Atomic!Next
    <2>4. CASE InsertMedia(w)
        BY <2>4, InsertAttaches DEF Atomic!Next
    <2>5. CASE InsertFavorite(w)
        BY <2>5, InsertLikes DEF Atomic!Next
    <2>6. CASE Abort(w)
        BY <2>6, FailStep DEF Abort, Atomic!Next
    <2> QED BY <1>2, <2>1, <2>2, <2>3, <2>4, <2>5, <2>6 DEF Write
<1>3. ASSUME NEW u \in User, NEW l \in Listing, RemoveFavorite(u, l)
      PROVE  Atomic!Next
    BY <1>3, RemoveUnlikes DEF Atomic!Next
<1>4. CASE UNCHANGED <<row, media, fav, req>>
    BY <1>4, TablesFrame
<1> QED BY <1>1, <1>2, <1>3, <1>4, ReadFrame DEF Next, vars

\* Every write of listings, media and favorites takes effect as one step would
\* that checks its user at that moment, whatever the other requests do between
\* its statements (assertOwner, the writes by id, ON DELETE CASCADE).
THEOREM CatalogueRefinement == Spec => CatalogueSpec
<1>1. Writes /\ [Next]_vars => [Atomic!Next]_Atomic!vars
    BY FormAssumption, CatalogueNext DEF Atomic!vars, Items, Attached, Liked, Askeds
<1>2. IInv => Writes
    BY DEF IInv
<1> QED BY <1>1, <1>2, CatalogueInit, Invariant, PTL DEF Spec, CatalogueSpec, Atomic!Spec
=============================================================================
