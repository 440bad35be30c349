----------------------------- MODULE MCListings -----------------------------
(* A small instance of Listings for TLC: a body for every branch of the     *)
(* validation and of the columns.                                           *)
EXTENDS Listings, TLC

Plain(n) == [n |-> n, plain |-> TRUE]
MCPriceText == {Plain(-1), Plain(1), Plain(2), Plain(3), [n |-> 1, plain |-> FALSE]}

Body(price, rooms, address) ==
    [price |-> price, rooms |-> rooms, address |-> address, nul |-> FALSE, status |-> None]
WithNul(form) == [form EXCEPT !.nul = TRUE]
MCCreateForm == {Body(Plain(2), 1, 1), Body(Plain(3), 1, 1), Body([n |-> 1, plain |-> FALSE], 1, 1),
                 Body(Plain(2), None, 1), Body(Plain(2), 1, 0), WithNul(Body(Plain(2), 1, 1))}
MCUpdateForm == {Body(Plain(-1), None, None), Body(Plain(1), None, None), Body(Plain(3), None, None),
                 Body(None, 2, None), Body(None, -1, None), Body(None, None, 0),
                 WithNul(NoForm)}

List(kind, status, user) == [kind |-> kind, status |-> status, user |-> user, listing |-> None]
MCAsked == {List("all", "avaiable", None), List("all", "available", None)} \cup Details
             \cup {List(kind, None, u) : kind \in {"my", "favorites"}, u \in User}

Symmetry == Permutations(User) \cup Permutations(Listing)
              \cup Permutations(Media) \cup Permutations(Worker)
=============================================================================
