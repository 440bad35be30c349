---------------------------- MODULE TokenBuckets ----------------------------
(***************************************************************************)
(* What internal/ratelimit promises of its limiters ("an in-memory per-key *)
(* token bucket"), without a map, times of use or idle entries: every      *)
(* caller has a bucket of its own that is always there, gains one unit per *)
(* unit of time and pays Every for a request.  A caller's debt is forgotten *)
(* when the process restarts, or when a newcomer takes its place at the    *)
(* cap; then nobody else's is.                                             *)
(***************************************************************************)
EXTENDS Integers

CONSTANTS Key, Cap, Every

VARIABLE credit  \* what each caller may still spend

Full == [k \in Key |-> Cap]

Init == credit = Full

Gained(c) == IF c < Cap THEN c + 1 ELSE c

Tick == credit' = [k \in Key |-> Gained(credit[k])]

Grant(k) ==
    /\ credit[k] >= Every
    /\ credit' = [credit EXCEPT ![k] = @ - Every]

\* k was not seen for so long, if ever, that its bucket is full.
Displace(k, other) ==
    /\ k # other
    /\ credit[k] = Cap
    /\ credit' = [credit EXCEPT ![k] = @ - Every, ![other] = Cap]

Restart == credit' = Full

Next ==
    \/ Tick \/ Restart
    \/ \E k \in Key : Grant(k)
    \/ \E k, other \in Key : Displace(k, other)

Spec == Init /\ [][Next]_credit
=============================================================================
