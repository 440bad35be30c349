---------------------------- MODULE RateLimiter ----------------------------
(***************************************************************************)
(* The in-memory rate limiter (internal/ratelimit): a map of token buckets *)
(* per caller, capped at Max entries, behind the limit middleware          *)
(* (internal/web/limits.go).                                               *)
(*                                                                         *)
(* Allow runs under the mutex, so a call is one action.  A bucket of       *)
(* golang.org/x/time/rate holds credit in units of time: a request costs   *)
(* Every, the bucket holds at most Burst requests and gains one unit per   *)
(* unit of time.                                                           *)
(*                                                                         *)
(* An observer, which the code does not have, opens a window at any moment *)
(* and adds up what one caller spends in it: what holds of every such      *)
(* window holds of every interval.                                         *)
(***************************************************************************)
EXTENDS Integers, FiniteSets

CONSTANTS
    Key,       \* callers: an IP, or a surface and a user
    Observed,  \* the caller the observer watches
    Max,       \* maxEntries
    Burst, Every, IdleTTL,
    MaxTime    \* bound on the clock

ASSUME ObservedAssumption == Observed \in Key
ASSUME MaxAssumption == Max \in Nat \ {0}
ASSUME RateAssumption == Burst \in Nat \ {0} /\ Every \in Nat \ {0} /\ IdleTTL \in Nat
ASSUME TimeAssumption == MaxTime \in Nat

VARIABLES
    now,
    visitors,  \* the keys of the map
    bucket,    \* the visitor of each key; meaningful for keys in the map
    window     \* the observer's window

vars == <<now, visitors, bucket, window>>

Cap == Burst * Every

\* credit as of last, the last granted request; seen is the last request.
Bucket == [credit: 0 .. Cap, last: Nat, seen: Nat]
NoBucket == [credit |-> 0, last |-> 0, seen |-> 0]

\* spent since the window opened; whether the caller's entry was lost in it to
\* a newer key or to a restart (then nothing more is counted).
Window == [from: Nat, spent: Nat, lost: BOOLEAN]

TypeOK ==
    /\ now \in Nat
    /\ visitors \subseteq Key /\ IsFiniteSet(visitors)
    /\ bucket \in [Key -> Bucket]
    /\ window \in Window

Init ==
    /\ now = 0
    /\ visitors = {}
    /\ bucket = [k \in Key |-> NoBucket]
    /\ window = [from |-> 0, spent |-> 0, lost |-> FALSE]

-----------------------------------------------------------------------------
(* golang.org/x/time/rate: the bucket, brought up to date *)

\* Mutant: the refill is not capped.
RefilledUncapped(b) == b.credit + (now - b.last)

Refilled(b) ==
    LET credit == b.credit + (now - b.last) IN IF credit > Cap THEN Cap ELSE credit

\* Limiter.Allow of the library: a denied request leaves the bucket alone.
Grants(b) == Refilled(b) >= Every
\* Mutant: the credit is refilled again for the same time.
TakenStale(b) == IF Grants(b) THEN [b EXCEPT !.credit = Refilled(b) - Every] ELSE b

Taken(b) == IF Grants(b) THEN [b EXCEPT !.credit = Refilled(b) - Every, !.last = now] ELSE b

NewBucket == [credit |-> Cap, last |-> now, seen |-> now]

-----------------------------------------------------------------------------
(* evictLocked *)

\* Mutant: an entry is idle after half its time.
IdleEntriesEarly == {k \in visitors : 2 * (now - bucket[k].seen) > IdleTTL}

IdleEntries == {k \in visitors : now - bucket[k].seen > IdleTTL}

\* Mutant: the most recently seen is dropped.
NewestOf(S) == {k \in S : \A j \in S : bucket[k].seen >= bucket[j].seen}

\* The least recently seen; among equals the order of the map decides.
OldestOf(S) == {k \in S : \A j \in S : bucket[k].seen <= bucket[j].seen}

\* Mutant: only idle entries make room.
EvictedIdleOnly == {IdleEntries}

\* The sets of keys evictLocked may delete.
Evicted ==
    IF Cardinality(visitors \ IdleEntries) < Max THEN {IdleEntries}
    ELSE {IdleEntries \cup {k} : k \in OldestOf(visitors \ IdleEntries)}

\* What Allow deletes before it looks k up.
Dropped(k) == IF k \notin visitors /\ Cardinality(visitors) >= Max THEN Evicted ELSE {{}}

-----------------------------------------------------------------------------
(* Allow, restarts, time and the observer *)

Observe(gone, granted) ==
    window' = IF window.lost \/ Observed \in gone
              THEN [window EXCEPT !.lost = TRUE, !.spent = 0]
              ELSE [window EXCEPT !.spent = IF granted THEN @ + Every ELSE @]

Allow(k) ==
    \E gone \in Dropped(k) :
        LET b == IF k \in visitors \ gone THEN bucket[k] ELSE NewBucket IN
        /\ visitors' = (visitors \ gone) \cup {k}
        /\ bucket' = [j \in Key |-> IF j = k THEN [Taken(b) EXCEPT !.seen = now]
                                    ELSE IF j \in gone THEN NoBucket ELSE bucket[j]]
        /\ Observe(gone \ IdleEntries, k = Observed /\ Grants(b))
        /\ UNCHANGED now

\* The map is in memory only.
Restart ==
    /\ visitors' = {}
    /\ bucket' = [k \in Key |-> NoBucket]
    /\ Observe(visitors, FALSE)
    /\ UNCHANGED now

Tick ==
    /\ now < MaxTime
    /\ now' = now + 1
    /\ UNCHANGED <<visitors, bucket, window>>

OpenWindow ==
    /\ window' = [from |-> now, spent |-> 0, lost |-> FALSE]
    /\ UNCHANGED <<now, visitors, bucket>>

Next == (\E k \in Key : Allow(k)) \/ Restart \/ Tick \/ OpenWindow

Spec == Init /\ [][Next]_vars

-----------------------------------------------------------------------------
(* Properties *)

\* A bucket is full again by the time its entry counts as idle.  True of every
\* limiter of DefaultLimits but Create, whose bucket takes an hour.
IdleRefills == Cap <= IdleTTL

\* However callers rotate keys, the map never exceeds its cap ("evicts the
\* single least-recently-seen entry so the map never exceeds max").
MapBounded == Cardinality(visitors) <= Max

\* In any interval a caller gets at most a full bucket and what was refilled,
\* though its entry may be dropped as idle and made anew, unless the cap or a
\* restart took it.  It needs IdleRefills.
WindowBudget == ~window.lost => window.spent <= Cap + (now - window.from)

\* Room for a new key is never made by forgetting a caller and keeping one
\* that was seen less recently: an attempt, denied or not, protects an entry.
RecentKept ==
    [][\A k \in visitors \ visitors' :
         visitors' # {} => \A j \in visitors \cap visitors' : bucket[k].seen <= bucket[j].seen]_vars

-----------------------------------------------------------------------------
(* The inductive invariant *)

\* What is left in a caller's bucket, and what it spent, come from a full
\* bucket and the time that passed.
Left(k) == IF k \in visitors THEN Refilled(bucket[k]) ELSE Cap

Accounts ==
    /\ \A k \in visitors : bucket[k].last <= bucket[k].seen /\ bucket[k].seen <= now
    /\ window.from <= now
    /\ ~window.lost => window.spent + Left(Observed) <= Cap + (now - window.from)

IInv == TypeOK /\ MapBounded /\ Accounts

-----------------------------------------------------------------------------
(* The abstract specification *)

Buckets == INSTANCE TokenBuckets WITH credit <- [k \in Key |-> Left(k)]

\* With IdleRefills the map behaves as a bucket for every caller that is always
\* there: evicting idle entries is invisible, a request pays once from what its
\* caller has left, and at the cap one caller at most gets its debt back
\* (Allow, evictLocked).
BucketsSpec == Buckets!Spec
=============================================================================
