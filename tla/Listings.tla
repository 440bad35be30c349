------------------------------ MODULE Listings ------------------------------
(***************************************************************************)
(* Listings, their media and the favorites of users (internal/listing,     *)
(* internal/favorite and their handlers): the writes of an owner, checked  *)
(* in one statement and made in another; favorites; and the reads, which   *)
(* put an answer together from several statements.                         *)
(*                                                                         *)
(* Every statement is one action.  A request that is refused before it     *)
(* wrote anything is a stuttering step.  Who is signed in and verified is  *)
(* the business of modules Sessions and Accounts.                          *)
(***************************************************************************)
EXTENDS Integers, FiniteSets

CONSTANTS
    User, Listing, Media,  \* ids of rows
    Worker,       \* writing requests in flight
    Client,       \* callers that read, page after page
    None,         \* SQL NULL, an absent JSON field, "no row"
    PriceText,    \* prices as sent: a value, and whether it is a plain numeral
    StatusText,   \* statuses as sent
    CreateForm, UpdateForm,  \* bodies as sent, of POST and PATCH /listings
    Order,        \* listing_media."order"
    Asked,        \* the lists and details that are asked for
    PageText, LimitText,     \* page and limit as sent
    MaxPrice,     \* maxPrice
    PriceCapacity, IntegerMax, AddressMax,  \* NUMERIC(14,2), INTEGER, VARCHAR(255)
    MaxPageSize,
    IntBound,     \* Go's int holds -IntBound .. IntBound - 1
    MaxClock      \* bound on the writing requests

VARIABLES
    row,    \* listings
    media,  \* listing_media
    fav,    \* favorites.created_at by user and listing; 0: no row
    clock,  \* one tick for each request that starts to write; now() of its INSERT
    req,    \* what each writing request holds
    read    \* what each reading client holds, and what an observer notes of it

vars == <<row, media, fav, clock, req, read>>

Status == {"avaiable", "rented", "inative"}

Form == [price: PriceText \cup {None}, rooms: Int \cup {None},
         address: Nat \cup {None},  \* its length, trimmed
         nul: BOOLEAN,              \* U+0000 in the title, description or address
         status: StatusText \cup {None}]

\* Queries: a search by status, what a user owns or likes, one listing.
Search == [kind: {"all"}, status: Status \cup StatusText \cup {None}, user: {None}, listing: {None}]
Lists == Search \cup [kind: {"my", "favorites"}, status: {None}, user: User, listing: {None}]
Details == [kind: {"one"}, status: {None}, user: {None}, listing: Listing]

ASSUME FormAssumption ==
    /\ PriceText \subseteq [n: Int, plain: BOOLEAN]
    /\ CreateForm \subseteq Form /\ UpdateForm \subseteq Form
    /\ Asked \subseteq Lists \cup Details /\ StatusText \subseteq STRING
    /\ Order \subseteq Nat /\ PageText \subseteq Int /\ LimitText \subseteq Int
ASSUME BoundAssumption ==
    /\ MaxPrice \in Nat /\ PriceCapacity \in Nat /\ IntegerMax \in Nat /\ AddressMax \in Nat
    /\ MaxPageSize \in Nat \ {0} /\ IntBound \in Nat \ {0} /\ MaxClock \in Nat
ASSUME IdAssumption ==
    /\ IsFiniteSet(Listing) /\ IsFiniteSet(User) /\ IsFiniteSet(Media)
    /\ None \notin User \cup Listing \cup Media \cup PriceText \cup Int \cup StatusText \cup Status

NoForm == [price |-> None, rooms |-> None, address |-> None, nul |-> FALSE, status |-> None]

ListingRow == [owner: User \cup {None}, price: Nat, status: Status, born: Nat]
MediaRow == [listing: Listing \cup {None}, order: Nat]
Request == [stage: {"idle", "insert", "update", "delete", "media", "favorite", "refused"},
            user: User \cup {None}, listing: Listing \cup {None},
            stamp: Nat, form: Form, order: Nat]
Reading == [stage: {"idle", "rows", "total", "counts", "covers", "media", "answer"},
            query: Asked \cup {None}, page: Nat, limit: Nat,
            data: SUBSET Listing, total: Nat, counts: [Listing -> Nat], shown: SUBSET Media,
            seen: SUBSET Listing,    \* observer: what the walk's pages showed
            steady: SUBSET Listing,  \* observer: what it must still show, or has shown
            calm: BOOLEAN]           \* observer: no write since the page's first statement

TypeOK ==
    /\ row \in [Listing -> ListingRow]
    /\ media \in [Media -> MediaRow]
    /\ fav \in [User -> [Listing -> Nat]]
    /\ clock \in Nat
    /\ req \in [Worker -> Request]
    /\ read \in [Client -> Reading]

\* Mutant: the spelling put right in one place only.
DefaultStatusRespelled == "available"

\* DEFAULT 'avaiable'.
DefaultStatus == "avaiable"

NoRow == [owner |-> None, price |-> 0, status |-> "avaiable", born |-> 0]
NoMedia == [listing |-> None, order |-> 0]
Idle == [stage |-> "idle", user |-> None, listing |-> None, stamp |-> 0,
         form |-> NoForm, order |-> 0]
NoRead == [stage |-> "idle", query |-> None, page |-> 0, limit |-> 0,
           data |-> {}, total |-> 0, counts |-> [l \in Listing |-> 0], shown |-> {},
           seen |-> {}, steady |-> {}, calm |-> FALSE]

Init ==
    /\ row = [l \in Listing |-> NoRow]
    /\ media = [m \in Media |-> NoMedia]
    /\ fav = [u \in User |-> [l \in Listing |-> 0]]
    /\ clock = 0
    /\ req = [w \in Worker |-> Idle]
    /\ read = [c \in Client |-> NoRead]

-----------------------------------------------------------------------------
(* Validation of what requests send *)

\* Mutant: "n > maxPrice" off by one.
ParsePriceOverMax(p) == 0 <= p.n /\ p.n <= MaxPrice + 1

\* Separators are dropped before the test, and hexadecimal is a number to Go.
ParsePrice(p) == 0 <= p.n /\ p.n <= MaxPrice
ValidStatus(s) == s \in {"avaiable", "rented", "inative"}

\* createListingRequest.validate; title, description, furnished and the
\* coordinates are checked alike.  No check looks for U+0000.
ValidCreate(f) ==
    /\ f.price # None /\ ParsePrice(f.price)
    /\ f.rooms # None /\ f.rooms >= 0
    /\ f.address # None /\ f.address > 0
    /\ f.status = None

\* updateListingRequest.validate and params: an absent field stays as it is.
ValidUpdate(f) ==
    /\ f.price # None => ParsePrice(f.price)
    /\ f.rooms # None => f.rooms >= 0
    /\ f.address # None => f.address > 0
    /\ f.status = None

\* What the columns take: the price goes to ::numeric as it was sent; TEXT and
\* VARCHAR hold no U+0000, which JSON strings do.  Else a title or description
\* of any length fits, and so do Booleans and coordinates within their bounds.
Storable(f) ==
    /\ ~f.nul
    /\ f.price # None => f.price.plain /\ f.price.n <= PriceCapacity
    /\ f.rooms # None => f.rooms <= IntegerMax
    /\ f.address # None => f.address <= AddressMax
    /\ f.status # None => f.status \in Status

\* The other filters are numbers, Booleans and a pattern, checked alike.
ParseFilters(q) == q.status # None => ValidStatus(q.status)

ParsePageQuery(page, limit) == page >= 1 /\ limit >= 1 /\ limit <= MaxPageSize

NormalizePagination(page, limit) ==
    [page |-> IF page < 1 THEN 1 ELSE page,
     limit |-> IF limit < 1 THEN 1 ELSE IF limit > MaxPageSize THEN MaxPageSize ELSE limit]

-----------------------------------------------------------------------------
(* Rows, queries and pages *)

Row(l) == row[l].owner # None

\* WHERE and JOIN of each list, over given tables; the other filters of
\* FindAll select by further columns of the row.
Selected(q, rows, favs) ==
    {l \in Listing :
        /\ rows[l].owner # None
        /\ q.kind = "all" => q.status \in {None, rows[l].status}
        /\ q.kind = "my" => rows[l].owner = q.user
        /\ q.kind = "favorites" => favs[q.user][l] # 0
        /\ q.kind = "one" => l = q.listing}
Matching(q) == Selected(q, row, fav)

\* The column a list is ordered by, newest first.
Stamp(q, l) == IF q.kind = "favorites" THEN fav[q.user][l] ELSE row[l].born
Newer(q, l) == {k \in Matching(q) : Stamp(q, k) > Stamp(q, l)}
Position(q, l) == Cardinality(Newer(q, l))

\* Go's int wraps around.
Wrap(n) == ((n + IntBound) % (2 * IntBound)) - IntBound

\* Mutant: pages counted from zero.
OffsetFromZero(page, limit) == Wrap(page * limit)

Offset(page, limit) == Wrap((page - 1) * limit)
Slice(q, page, limit) ==
    {l \in Matching(q) : /\ Offset(page, limit) <= Position(q, l)
                         /\ Position(q, l) < Offset(page, limit) + limit}

TotalPages(total, limit) == (total + limit - 1) \div limit

\* favorites are counted without their listings.
Total(q) == IF q.kind = "favorites" THEN Cardinality({l \in Listing : fav[q.user][l] # 0})
                                    ELSE Cardinality(Matching(q))

FavoriteCount(l) == Cardinality({u \in User : fav[u][l] # 0})
MediaOf(l) == {m \in Media : media[m].listing = l}

\* DISTINCT ON (listing_id) ... ORDER BY listing_id, "order": one of the
\* lowest of each listing that has media.
CoversOf(listings) ==
    {s \in SUBSET Media :
        /\ \A m \in s : media[m].listing \in listings
        /\ \A l \in listings : MediaOf(l) # {} =>
            \E m \in MediaOf(l) : s \cap MediaOf(l) = {m}
                /\ \A k \in MediaOf(l) : media[m].order <= media[k].order}

\* After a write, to the tables rows and favs: a reader that was under way is
\* no longer calm; and it may miss a row if a newer one left its list.
Observe(rows, favs) ==
    read' = [c \in Client |->
        IF read[c].stage = "idle" THEN read[c]
        ELSE LET q == read[c].query
                 left == Matching(q) \ Selected(q, rows, favs)
             IN [read[c] EXCEPT !.calm = FALSE,
                    !.steady = {l \in @ \ left : \A k \in left : Stamp(q, k) < Stamp(q, l)}]]

Tick == clock < MaxClock /\ clock' = clock + 1
Start(w, request) ==
    /\ req[w] = Idle
    /\ Tick
    /\ req' = [req EXCEPT ![w] = [request EXCEPT !.stamp = clock + 1]]
Finish(w) == req' = [req EXCEPT ![w] = Idle]
Refuse(w) == req' = [req EXCEPT ![w].stage = "refused"]

-----------------------------------------------------------------------------
(* Create.  created_at is now(), the start of the statement: rows may become *)
(* visible in another order than that of their stamps.                       *)

CreateListing(w, u, f) ==
    /\ ValidCreate(f)
    /\ Start(w, [Idle EXCEPT !.stage = "insert", !.user = u, !.form = f])
    /\ UNCHANGED <<row, media, fav, read>>

Insert(w) ==
    /\ req[w].stage = "insert"
    /\ IF Storable(req[w].form)
       THEN /\ \E l \in Listing :
                /\ row[l].born = 0
                /\ row' = [row EXCEPT ![l] =
                            [owner |-> req[w].user, price |-> req[w].form.price.n,
                             status |-> DefaultStatus, born |-> req[w].stamp]]
            /\ Finish(w)
            /\ Observe(row', fav)
       ELSE Refuse(w) /\ UNCHANGED <<row, read>>
    /\ UNCHANGED <<media, fav, clock>>

-----------------------------------------------------------------------------
(* The owner's writes: FindByID and assertOwner, then a write by id *)

\* Mutant: any verified user.
AssertAnyone(u, l) == Row(l)

AssertOwner(u, l) == Row(l) /\ row[l].owner = u

UpdateListing(w, u, l, f) ==
    /\ ValidUpdate(f) /\ AssertOwner(u, l)
    /\ Start(w, [Idle EXCEPT !.stage = "update", !.user = u, !.listing = l, !.form = f])
    /\ UNCHANGED <<row, media, fav, read>>

UpdateListingStatus(w, u, l, s) ==
    /\ ValidStatus(s) /\ AssertOwner(u, l)
    /\ Start(w, [Idle EXCEPT !.stage = "update", !.user = u, !.listing = l,
                             !.form = [NoForm EXCEPT !.status = s]])
    /\ UNCHANGED <<row, media, fav, read>>

DeleteListing(w, u, l) ==
    /\ AssertOwner(u, l)
    /\ Start(w, [Idle EXCEPT !.stage = "delete", !.user = u, !.listing = l])
    /\ UNCHANGED <<row, media, fav, read>>

AddMedia(w, u, l, o) ==
    /\ o >= 0 /\ AssertOwner(u, l)
    /\ Start(w, [Idle EXCEPT !.stage = "media", !.user = u, !.listing = l, !.order = o])
    /\ UNCHANGED <<row, media, fav, read>>

\* SET names the given columns only, a row that is gone is ErrListingNotFound;
\* the count of favorites that goes with the answer is left out.
Update(w) ==
    LET l == req[w].listing
        f == req[w].form
    IN
    /\ req[w].stage = "update"
    /\ \/ /\ ~Storable(f)
          /\ Refuse(w) /\ UNCHANGED <<row, read>>
       \/ /\ ~Row(l)
          /\ Finish(w) /\ UNCHANGED <<row, read>>
       \/ /\ Row(l) /\ Storable(f)
          /\ row' = [row EXCEPT ![l].price = IF f.price = None THEN @ ELSE f.price.n,
                                ![l].status = IF f.status = None THEN @ ELSE f.status]
          /\ Finish(w) /\ Observe(row', fav)
    /\ UNCHANGED <<media, fav, clock>>

\* ON DELETE CASCADE; an id is never used again.
Delete(w) ==
    LET l == req[w].listing IN
    /\ req[w].stage = "delete"
    /\ row' = [row EXCEPT ![l] = [NoRow EXCEPT !.born = row[l].born]]
    /\ media' = [m \in Media |-> IF media[m].listing = l THEN NoMedia ELSE media[m]]
    /\ fav' = [u \in User |-> [fav[u] EXCEPT ![l] = 0]]
    /\ Finish(w)
    /\ Observe(row', fav')
    /\ UNCHANGED clock

\* Mutant: no REFERENCES.
UnreferencedInsert(l) == TRUE

\* REFERENCES listings (id).
Referenced(l) == Row(l)

\* A listing that is gone is a foreign-key error, answered 500, as is an order
\* beyond INTEGER.
InsertMedia(w) ==
    LET l == req[w].listing IN
    /\ req[w].stage = "media"
    /\ IF Referenced(l) /\ req[w].order <= IntegerMax
       THEN /\ \E m \in Media :
                /\ media[m] = NoMedia
                /\ media' = [media EXCEPT ![m] = [listing |-> l, order |-> req[w].order]]
            /\ Observe(row, fav)
       ELSE UNCHANGED <<media, read>>
    /\ Finish(w)
    /\ UNCHANGED <<row, fav, clock>>

-----------------------------------------------------------------------------
(* Favorites *)

AddFavorite(w, u, l) ==
    /\ Start(w, [Idle EXCEPT !.stage = "favorite", !.user = u, !.listing = l])
    /\ UNCHANGED <<row, media, fav, read>>

\* ON CONFLICT DO NOTHING; a listing that is gone is ErrListingNotFound.
InsertFavorite(w) ==
    LET u == req[w].user
        l == req[w].listing
    IN
    /\ req[w].stage = "favorite"
    /\ IF Referenced(l) /\ fav[u][l] = 0
       THEN fav' = [fav EXCEPT ![u][l] = req[w].stamp] /\ Observe(row, fav')
       ELSE UNCHANGED <<fav, read>>
    /\ Finish(w)
    /\ UNCHANGED <<row, media, clock>>

RemoveFavorite(u, l) ==
    /\ fav[u][l] # 0
    /\ fav' = [fav EXCEPT ![u][l] = 0]
    /\ Observe(row, fav')
    /\ UNCHANGED <<row, media, clock, req>>

\* Any error, hang-up or crash between two statements.
Abort(w) ==
    /\ req[w] # Idle
    /\ Finish(w)
    /\ UNCHANGED <<row, media, fav, clock, read>>

-----------------------------------------------------------------------------
(* Reads: Store.list, favorite.Store.List and AttachListMeta; FindDetail *)

\* Mutant: the rows are counted before they are selected.
TotalFirst == [start |-> "total", total |-> "rows", rows |-> "counts",
               counts |-> "covers", covers |-> "answer"]

\* The statements of a list, and of FindDetail, in their order.
ListOrder == [start |-> "rows", rows |-> "total", total |-> "counts",
              counts |-> "covers", covers |-> "answer"]
DetailOrder == [start |-> "rows", rows |-> "media", media |-> "counts", counts |-> "answer"]

After(q, stage) == IF q.kind = "one" THEN DetailOrder[stage] ELSE ListOrder[stage]

At(c, stage) == read[c].stage = stage
Becomes(c, reading) == read' = [read EXCEPT ![c] = reading]
Moved(c) == [read[c] EXCEPT !.stage = After(read[c].query, @)]

BeginList(c, q, page, limit) ==
    LET p == NormalizePagination(page, limit) IN
    /\ At(c, "idle")
    /\ ParsePageQuery(page, limit)
    /\ Becomes(c, [NoRead EXCEPT !.stage = After(q, "start"), !.query = q,
                    !.page = p.page, !.limit = p.limit,
                    !.steady = IF p.page = 1 THEN Matching(q) ELSE {}])
    /\ UNCHANGED <<row, media, fav, clock, req>>

ListListings(c, q, page, limit) == q.kind = "all" /\ ParseFilters(q) /\ BeginList(c, q, page, limit)
MyListings(c, q, page, limit) == q.kind = "my" /\ BeginList(c, q, page, limit)
ListFavorites(c, q, page, limit) == q.kind = "favorites" /\ BeginList(c, q, page, limit)

GetListing(c, q) ==
    /\ At(c, "idle")
    /\ Becomes(c, [NoRead EXCEPT !.stage = After(q, "start"), !.query = q,
                    !.page = 1, !.limit = 1, !.steady = Matching(q)])
    /\ UNCHANGED <<row, media, fav, clock, req>>

\* A negative OFFSET is an error, a detail without its row a 404.
SelectRows(c) ==
    LET q == read[c].query
        found == Slice(q, read[c].page, read[c].limit)
    IN
    /\ At(c, "rows")
    /\ IF Offset(read[c].page, read[c].limit) < 0 \/ (q.kind = "one" /\ found = {})
       THEN Becomes(c, NoRead)
       ELSE Becomes(c, [Moved(c) EXCEPT !.data = found, !.seen = @ \cup found, !.calm = TRUE])
    /\ UNCHANGED <<row, media, fav, clock, req>>

CountTotal(c) ==
    /\ At(c, "total")
    /\ Becomes(c, [Moved(c) EXCEPT !.total = Total(read[c].query)])
    /\ UNCHANGED <<row, media, fav, clock, req>>

CountFavorites(c) ==
    /\ At(c, "counts")
    /\ Becomes(c, [Moved(c) EXCEPT !.counts =
                    [l \in Listing |-> IF l \in read[c].data THEN FavoriteCount(l) ELSE 0]])
    /\ UNCHANGED <<row, media, fav, clock, req>>

SelectCovers(c) ==
    /\ At(c, "covers")
    /\ \E s \in CoversOf(read[c].data) : Becomes(c, [Moved(c) EXCEPT !.shown = s])
    /\ UNCHANGED <<row, media, fav, clock, req>>

SelectMedia(c) ==
    /\ At(c, "media")
    /\ Becomes(c, [Moved(c) EXCEPT !.shown = MediaOf(read[c].query.listing)])
    /\ UNCHANGED <<row, media, fav, clock, req>>

\* The client turns the page while total_pages says that there is one.
HasNextPage(c) == read[c].page < TotalPages(read[c].total, read[c].limit)

TurnPage(c) ==
    /\ At(c, "answer") /\ read[c].query.kind # "one" /\ HasNextPage(c)
    /\ Becomes(c, [read[c] EXCEPT !.stage = After(read[c].query, "start"), !.page = @ + 1,
                    !.data = {}, !.total = 0, !.counts = NoRead.counts, !.shown = {}, !.calm = FALSE])
    /\ UNCHANGED <<row, media, fav, clock, req>>

\* The answer is read, or the request ends early.
Leave(c) ==
    /\ ~At(c, "idle")
    /\ Becomes(c, NoRead)
    /\ UNCHANGED <<row, media, fav, clock, req>>

-----------------------------------------------------------------------------
Arrive(w, u) ==
    \/ \E f \in CreateForm : CreateListing(w, u, f)
    \/ \E l \in Listing :
        \/ \E f \in UpdateForm : UpdateListing(w, u, l, f)
        \/ \E s \in StatusText : UpdateListingStatus(w, u, l, s)
        \/ DeleteListing(w, u, l)
        \/ \E o \in Order : AddMedia(w, u, l, o)
        \/ AddFavorite(w, u, l)

Write(w) ==
    Insert(w) \/ Update(w) \/ Delete(w) \/ InsertMedia(w) \/ InsertFavorite(w) \/ Abort(w)

Read(c) ==
    \/ \E q \in Asked \cap Lists, page \in PageText, limit \in LimitText :
        \/ ListListings(c, q, page, limit)
        \/ MyListings(c, q, page, limit)
        \/ ListFavorites(c, q, page, limit)
    \/ \E q \in Asked \cap Details : GetListing(c, q)
    \/ SelectRows(c) \/ CountTotal(c) \/ CountFavorites(c) \/ SelectCovers(c) \/ SelectMedia(c)
    \/ TurnPage(c) \/ Leave(c)

Next ==
    \/ \E w \in Worker : Write(w) \/ \E u \in User : Arrive(w, u)
    \/ \E u \in User, l \in Listing : RemoveFavorite(u, l)
    \/ \E c \in Client : Read(c)

Spec == Init /\ [][Next]_vars

-----------------------------------------------------------------------------
(* Properties *)

\* Media and favorites belong to listings that are there, though the owner's
\* check and the insert are two statements and a delete may come in between
\* (AddMedia, favorite.Add, deleteListing: "media and favorites cascade").
NoOrphans ==
    /\ \A m \in Media : media[m].listing # None => Row(media[m].listing)
    /\ \A u \in User, l \in Listing : fav[u][l] # 0 => Row(l)

\* A listing changes, goes, or gains media only by a request of the user who
\* owns it at that very moment, and in the fields that request named; once
\* gone it never comes back (assertOwner, then a write by id alone).
OnlyOwnerChanges ==
    [][\A l \in Listing :
        /\ row[l] # row'[l] /\ row[l].born # 0 =>
            \E w \in Worker :
                /\ req[w].listing = l /\ req[w].user = row[l].owner
                /\ \/ req[w].stage = "delete"
                   \/ /\ req[w].stage = "update" /\ row'[l].owner = row[l].owner
                      /\ row[l].price # row'[l].price => req[w].form.price # None
                      /\ row[l].status # row'[l].status => req[w].form.status # None
        /\ MediaOf(l)' \subseteq MediaOf(l) \/
            \E w \in Worker : req[w].stage = "media" /\ req[w].listing = l
                                /\ req[w].user = row[l].owner]_vars

\* A price written plainly that passed parsePrice fits its column, in both
\* handlers ("rejecting it here turns a DB overflow 500 into a 400"): if the
\* database refuses a body that passed validation, then for U+0000 in a text,
\* rooms beyond INTEGER, an address beyond VARCHAR(255), or the spelling of the
\* price.
PlainPriceFits ==
    \A w \in Worker : req[w].stage = "refused" =>
        LET f == req[w].form IN
        \/ f.nul
        \/ f.price # None /\ ~f.price.plain
        \/ f.rooms # None /\ f.rooms > IntegerMax
        \/ f.address # None /\ f.address > AddressMax

\* If nothing was written while it was put together, an answer is what its
\* query says: for a page in the range of int, the rows ranked (page-1)*limit+1
\* to page*limit, newest first, the total, the least number of pages that holds
\* it, each row's count and a first medium; for a detail, all media.
CalmReadExact ==
    \A c \in Client : At(c, "answer") /\ read[c].calm =>
        LET r == read[c]
            rank(l) == 1 + Position(r.query, l)
        IN
        /\ \A l \in r.data : r.counts[l] = Cardinality({u \in User : fav[u][l] # 0})
        /\ IF r.query.kind = "one"
           THEN r.data = {r.query.listing} /\ r.shown = {m \in Media : media[m].listing = r.query.listing}
           ELSE /\ r.page * r.limit < IntBound =>
                    r.data = {l \in Matching(r.query) :
                                (r.page - 1) * r.limit < rank(l) /\ rank(l) <= r.page * r.limit}
                /\ r.total = Cardinality(Matching(r.query))
                /\ LET pages == TotalPages(r.total, r.limit)
                   IN r.total <= pages * r.limit /\ (pages - 1) * r.limit < r.total
                /\ \A l \in r.data : (\E m \in Media : media[m].listing = l) =>
                    \E m \in r.shown : /\ media[m].listing = l
                                       /\ \A k \in Media : media[k].listing = l => media[m].order <= media[k].order

\* A client that walks from page 1 to the last page that total_pages announces
\* has been shown every listing that matched its query all the while, unless a
\* newer one left the list: new rows, appearing in any order, push rows to later
\* pages but never out of the walk (Store.list selects before it counts).  No two
\* rows share a created_at here; ORDER BY has nothing to break a tie with.
WalkShowsAll ==
    \A c \in Client :
        At(c, "answer") /\ read[c].query.kind # "one" /\ ~HasNextPage(c)
            => read[c].steady \subseteq read[c].seen

-----------------------------------------------------------------------------
(* The abstract specification *)

\* A row as its readers know it: never made, there, or gone.
ItemOf(l) ==
    [state |-> IF Row(l) THEN "listed" ELSE IF row[l].born = 0 THEN "none" ELSE "gone",
     owner |-> row[l].owner, price |-> row[l].price, status |-> row[l].status]

\* What a request in flight has yet to do; one that was refused, nothing.
Settled == [kind |-> "none", user |-> None, listing |-> None, price |-> None, status |-> None]
AskedOf(held) ==
    LET sent == held.stage \in {"insert", "update"} IN
    IF held.stage \in {"idle", "refused"} THEN Settled
    ELSE [kind |-> held.stage, user |-> held.user, listing |-> held.listing,
          price |-> IF sent /\ held.form.price # None THEN held.form.price.n ELSE None,
          status |-> IF sent THEN held.form.status ELSE None]

Atomic == INSTANCE Catalogue WITH
    Price <- 0 .. MaxPrice,
    Default <- DefaultStatus,
    item <- [l \in Listing |-> ItemOf(l)],
    attached <- [m \in Media |-> media[m].listing],
    liked <- [u \in User |-> {l \in Listing : fav[u][l] # 0}],
    asked <- [w \in Worker |-> AskedOf(req[w])]

\* Though a request is checked in one statement and writes in another, by id
\* alone, and a delete may come in between, every write does what it would if
\* its check and all its effects were one step: by the owner of that moment,
\* the fields it named, media and favorites with their listing, ids for good
\* (internal/listing, internal/favorite).
CatalogueSpec == Atomic!Spec
=============================================================================
