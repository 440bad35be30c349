------------------------------ MODULE Catalogue ------------------------------
(***************************************************************************)
(* What internal/listing and internal/favorite promise of their writes, as *)
(* if each were one step: a request is looked at only when it takes effect, *)
(* and takes effect only if its user owns the listing then.  There are no  *)
(* statements, no stamps and no readers.                                   *)
(***************************************************************************)
EXTENDS Integers

CONSTANTS User, Listing, Media, Worker, None, Price, Status, Default

VARIABLES
    item,      \* listings
    attached,  \* the listing each medium belongs to
    liked,     \* the favorites of each user
    asked      \* what each writing request asks for

vars == <<item, attached, liked, asked>>

Blank(state) == [state |-> state, owner |-> None, price |-> 0, status |-> Default]

Request == [kind: {"insert", "update", "delete", "media", "favorite"}, user: User,
            listing: Listing \cup {None}, price: Price \cup {None}, status: Status \cup {None}]
Nothing == [kind |-> "none", user |-> None, listing |-> None, price |-> None, status |-> None]

Init ==
    /\ item = [l \in Listing |-> Blank("none")]
    /\ attached = [m \in Media |-> None]
    /\ liked = [u \in User |-> {}]
    /\ asked = [w \in Worker |-> Nothing]

\* Anyone may ask for anything.
Ask(w) ==
    /\ asked[w] = Nothing
    /\ asked'[w] \in Request
    /\ asked' = [asked EXCEPT ![w] = asked'[w]]
    /\ UNCHANGED <<item, attached, liked>>

Takes(w, kind) == asked[w].kind = kind /\ asked' = [asked EXCEPT ![w] = Nothing]

Listed(l) == item[l].state = "listed"
Owned(w) == Listed(asked[w].listing) /\ item[asked[w].listing].owner = asked[w].user

Publish(w) ==
    /\ Takes(w, "insert")
    /\ asked[w].price # None
    /\ \E l \in Listing :
        /\ item[l] = Blank("none")
        /\ item' = [item EXCEPT ![l] = [state |-> "listed", owner |-> asked[w].user,
                                        price |-> asked[w].price, status |-> Default]]
    /\ UNCHANGED <<attached, liked>>

Edit(w) ==
    LET l == asked[w].listing IN
    /\ Takes(w, "update")
    /\ Owned(w)
    /\ item' = [item EXCEPT ![l].price = IF asked[w].price = None THEN @ ELSE asked[w].price,
                            ![l].status = IF asked[w].status = None THEN @ ELSE asked[w].status]
    /\ UNCHANGED <<attached, liked>>

\* With all that belongs to the listing, and for good.
Withdraw(w) ==
    LET l == asked[w].listing IN
    /\ Takes(w, "delete")
    /\ Owned(w)
    /\ item' = [item EXCEPT ![l] = Blank("gone")]
    /\ attached' = [m \in Media |-> IF attached[m] = l THEN None ELSE attached[m]]
    /\ liked' = [u \in User |-> liked[u] \ {l}]

Attach(w) ==
    /\ Takes(w, "media")
    /\ Owned(w)
    /\ \E m \in Media :
        /\ attached[m] = None
        /\ attached' = [attached EXCEPT ![m] = asked[w].listing]
    /\ UNCHANGED <<item, liked>>

Like(w) ==
    /\ Takes(w, "favorite")
    /\ Listed(asked[w].listing)
    /\ liked' = [liked EXCEPT ![asked[w].user] = @ \cup {asked[w].listing}]
    /\ UNCHANGED <<item, attached>>

Unlike(u, l) ==
    /\ liked' = [liked EXCEPT ![u] = @ \ {l}]
    /\ UNCHANGED <<item, attached, asked>>

\* Any request may come to nothing.
Fail(w) ==
    /\ Takes(w, asked[w].kind)
    /\ UNCHANGED <<item, attached, liked>>

Next ==
    \/ \E w \in Worker :
        Ask(w) \/ Publish(w) \/ Edit(w) \/ Withdraw(w) \/ Attach(w) \/ Like(w) \/ Fail(w)
    \/ \E u \in User, l \in Listing : Unlike(u, l)

Spec == Init /\ [][Next]_vars
=============================================================================
