---------------------------- MODULE SessionChains ----------------------------
(***************************************************************************)
(* What internal/auth promises of a login session, without requests, rows  *)
(* or locks.  A session is a chain of refresh tokens named by its first    *)
(* one.  It is held by exactly one token, passes from one to the next with *)
(* a moment between in which no token holds it, never passes to a token    *)
(* used before, and once closed is never open again ("the presented token  *)
(* is revoked and a new pair issued", Service.Refresh).                    *)
(***************************************************************************)
CONSTANT Token

VARIABLES
    chain,  \* each chain: its state and the tokens that can be exchanged
    used    \* every token issued so far

vars == <<chain, used>>

Unopened == [state |-> "none", holder |-> {}]
Passing == [state |-> "passing", holder |-> {}]
Closed == [state |-> "closed", holder |-> {}]
HeldBy(t) == [state |-> "held", holder |-> {t}]

Init == chain = [f \in Token |-> Unopened] /\ used = {}

\* Sign-up or sign-in.
Open(t) ==
    /\ t \notin used
    /\ chain[t] = Unopened
    /\ chain' = [chain EXCEPT ![t] = HeldBy(t)]
    /\ used' = used \cup {t}

\* A refresh takes the token in and gives another out.
Take(f) ==
    /\ chain[f].state = "held"
    /\ chain' = [chain EXCEPT ![f] = Passing]
    /\ UNCHANGED used

Give(f, t) ==
    /\ chain[f] = Passing
    /\ t \notin used
    /\ chain' = [chain EXCEPT ![f] = HeldBy(t)]
    /\ used' = used \cup {t}

\* Sign-out, a lockdown, a reset, expiry, or a refresh that fails half-way.
Close(F) ==
    /\ \A f \in F : chain[f].state \in {"held", "passing"}
    /\ chain' = [f \in Token |-> IF f \in F THEN Closed ELSE chain[f]]
    /\ UNCHANGED used

Next ==
    \/ \E t \in Token : Open(t)
    \/ \E f \in Token : Take(f)
    \/ \E f, t \in Token : Give(f, t)
    \/ \E F \in SUBSET Token : Close(F)

Spec == Init /\ [][Next]_vars
=============================================================================
