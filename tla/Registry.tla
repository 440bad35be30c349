------------------------------- MODULE Registry -------------------------------
(***************************************************************************)
(* What internal/auth promises of accounts, as if sign-up, verification    *)
(* and the avatar were one step each: an account is made only with contacts *)
(* that nobody has and keeps them; it is verified only after mail reached  *)
(* its own address, and for good; only a verified one shows an avatar.     *)
(* There are no requests, links or lifetimes.                              *)
(***************************************************************************)
CONSTANTS User, Address, Lower, Phone, None

VARIABLES
    account,
    reached  \* whether mail reached the account's own address

vars == <<account, reached>>

Nobody == [email |-> None, phone |-> None, verified |-> FALSE, avatar |-> FALSE]

Init ==
    /\ account = [u \in User |-> Nobody]
    /\ reached = [u \in User |-> FALSE]

Exists(u) == account[u].email # None
Uses(u, e, p) == Exists(u) /\ (Lower[account[u].email] = Lower[e] \/ account[u].phone = p)

Register(u, e, p) ==
    /\ ~Exists(u)
    /\ \A v \in User : ~Uses(v, e, p)
    /\ account' = [account EXCEPT ![u] =
                    [email |-> e, phone |-> p, verified |-> FALSE, avatar |-> FALSE]]
    /\ UNCHANGED reached

Reach(u) ==
    /\ Exists(u)
    /\ reached' = [reached EXCEPT ![u] = TRUE]
    /\ UNCHANGED account

Verify(u) ==
    /\ reached[u]
    /\ account' = [account EXCEPT ![u].verified = TRUE]
    /\ UNCHANGED reached

SetAvatar(u, set) ==
    /\ account[u].verified
    /\ account' = [account EXCEPT ![u].avatar = set]
    /\ UNCHANGED reached

Next ==
    \E u \in User :
        \/ \E e \in Address, p \in Phone : Register(u, e, p)
        \/ Reach(u) \/ Verify(u)
        \/ \E set \in BOOLEAN : SetAvatar(u, set)

Spec == Init /\ [][Next]_vars
=============================================================================
