------------------------ MODULE RateLimiter_proofs ------------------------
(* The map stays within its cap, and no caller exceeds its budget, for     *)
(* every set of callers, cap, rate and idle time.                          *)
EXTENDS RateLimiter, FiniteSetTheorems, TLAPS

USE ObservedAssumption, MaxAssumption, RateAssumption, TimeAssumption

LEMMA CapType == Cap \in Nat
BY DEF Cap

\* A bucket brought up to date holds at most Cap.
LEMMA RefilledType ==
    ASSUME NEW b \in Bucket, now \in Nat, b.last <= now
    PROVE  /\ Refilled(b) \in 0 .. Cap
           /\ Refilled(b) <= b.credit + (now - b.last)
BY CapType DEF Refilled, Bucket

\* A granted request pays Every out of the refilled bucket.
LEMMA TakenEffect ==
    ASSUME NEW b \in Bucket, now \in Nat, b.last <= now
    PROVE  /\ [Taken(b) EXCEPT !.seen = now] \in Bucket
           /\ Taken(b).last <= now
           /\ Refilled([Taken(b) EXCEPT !.seen = now])
                = IF Grants(b) THEN Refilled(b) - Every ELSE Refilled(b)
<1>1. Refilled(b) \in 0 .. Cap
    BY RefilledType
<1>2. CASE Grants(b)
    <2>1. Refilled(b) - Every \in 0 .. Cap
        BY <1>1, <1>2, CapType DEF Grants
    <2> DEFINE c == [Taken(b) EXCEPT !.seen = now]
    <2>2. c \in Bucket /\ c.credit = Refilled(b) - Every /\ c.last = now /\ Taken(b).last = now
        BY <1>2, <2>1 DEF Taken, Bucket
    <2> HIDE DEF c
    <2>3. Refilled(c) = Refilled(b) - Every
        BY <2>1, <2>2, CapType DEF Refilled
    <2> QED BY <1>2, <2>2, <2>3 DEF c
<1>3. CASE ~Grants(b)
    <2>1. Taken(b) = b
        BY <1>3 DEF Taken
    <2>2. [b EXCEPT !.seen = now] \in Bucket
        BY DEF Bucket
    <2>3. Refilled([b EXCEPT !.seen = now]) = Refilled(b)
        BY DEF Refilled, Bucket
    <2> QED BY <1>3, <2>1, <2>2, <2>3
<1> QED BY <1>2, <1>3

LEMMA NewBucketType ==
    ASSUME now \in Nat
    PROVE  NewBucket \in Bucket /\ NewBucket.last <= now /\ Refilled(NewBucket) = Cap
BY CapType DEF NewBucket, Bucket, Refilled

LEMMA ObserveType ==
    ASSUME window \in Window, NEW gone, NEW granted, Observe(gone, granted)
    PROVE  window' \in Window
<1>1. window.spent \in Nat /\ window.spent + Every \in Nat
    BY DEF Window
<1>2. [window EXCEPT !.lost = TRUE, !.spent = 0] \in Window
    BY DEF Window
<1>3. /\ [window EXCEPT !.spent = window.spent] \in Window
      /\ [window EXCEPT !.spent = window.spent + Every] \in Window
    BY <1>1 DEF Window
<1> QED BY <1>2, <1>3 DEF Observe

-----------------------------------------------------------------------------
(* The cap *)

LEMMA TypeInit == Init => TypeOK /\ MapBounded
<1> SUFFICES ASSUME Init PROVE TypeOK /\ MapBounded
    OBVIOUS
<1>1. IsFiniteSet({}) /\ Cardinality({}) = 0
    BY FS_EmptySet
<1> QED BY <1>1, CapType DEF Init, TypeOK, MapBounded, Bucket, NoBucket, Window

\* Whatever Allow drops are keys of the map, and room is made at the cap.
LEMMA DroppedMakesRoom ==
    ASSUME TypeOK, MapBounded, NEW k \in Key, NEW gone \in Dropped(k)
    PROVE  /\ gone \subseteq visitors
           /\ k \in visitors => gone = {}
           /\ k \notin visitors => Cardinality(visitors \ gone) < Max
<1> USE DEF TypeOK, MapBounded
<1>1. Cardinality(visitors) \in Nat
    BY FS_CardinalityType
<1>2. CASE ~(k \notin visitors /\ Cardinality(visitors) >= Max)
    <2>1. gone = {} /\ visitors \ {} = visitors
        BY <1>2 DEF Dropped
    <2> QED BY <1>1, <1>2, <2>1
<1>3. CASE k \notin visitors /\ Cardinality(visitors) >= Max
    <2>1. gone \in Evicted
        BY <1>3 DEF Dropped
    <2> DEFINE kept == visitors \ IdleEntries
    <2>2. CASE Cardinality(kept) < Max
        BY <1>3, <2>1, <2>2 DEF Evicted, IdleEntries
    <2>3. CASE ~(Cardinality(kept) < Max)
        <3>1. PICK j \in OldestOf(kept) : gone = IdleEntries \cup {j}
            BY <2>1, <2>3 DEF Evicted
        <3>2. j \in kept /\ visitors \ gone = kept \ {j}
            BY <3>1 DEF OldestOf
        <3>3. IsFiniteSet(kept) /\ Cardinality(kept) <= Cardinality(visitors)
            BY FS_Subset
        <3>4. Cardinality(kept) \in Nat /\ Cardinality(kept \ {j}) = Cardinality(kept) - 1
            BY <3>2, <3>3, FS_CardinalityType, FS_RemoveElement
        <3>5. gone \subseteq visitors
            BY <3>1, <3>2 DEF IdleEntries
        <3>6. Cardinality(kept \ {j}) < Max
            <4> HIDE DEF kept
            <4> QED BY <1>1, <3>3, <3>4
        <3> QED BY <1>3, <3>2, <3>5, <3>6
    <2> QED BY <2>2, <2>3
<1> QED BY <1>2, <1>3

LEMMA CapNext ==
    ASSUME TypeOK, MapBounded, \A k \in visitors : bucket[k].last <= now, [Next]_vars
    PROVE  TypeOK' /\ MapBounded'
<1> USE DEF TypeOK, MapBounded
<1>1. ASSUME NEW k \in Key, Allow(k) PROVE TypeOK' /\ MapBounded'
    <2>1. PICK gone \in Dropped(k) :
            LET b == IF k \in visitors \ gone THEN bucket[k] ELSE NewBucket IN
            /\ visitors' = (visitors \ gone) \cup {k}
            /\ bucket' = [j \in Key |-> IF j = k THEN [Taken(b) EXCEPT !.seen = now]
                                        ELSE IF j \in gone THEN NoBucket ELSE bucket[j]]
            /\ Observe(gone \ IdleEntries, k = Observed /\ Grants(b))
            /\ UNCHANGED now
        BY <1>1 DEF Allow
    <2> DEFINE b == IF k \in visitors \ gone THEN bucket[k] ELSE NewBucket
    <2>2. b \in Bucket /\ b.last <= now
        BY NewBucketType
    <2>3. [Taken(b) EXCEPT !.seen = now] \in Bucket /\ NoBucket \in Bucket
        BY <2>2, TakenEffect, CapType DEF NoBucket, Bucket
    <2>4. bucket' \in [Key -> Bucket]
        BY <2>1, <2>3
    <2>5. /\ gone \subseteq visitors
          /\ k \in visitors => gone = {}
          /\ k \notin visitors => Cardinality(visitors \ gone) < Max
        BY DroppedMakesRoom
    <2>6. IsFiniteSet(visitors \ gone) /\ Cardinality(visitors \ gone) \in Nat
        BY FS_Subset, FS_CardinalityType
    <2>7. IsFiniteSet(visitors') /\ Cardinality(visitors') <= Max
        <3>1. CASE k \in visitors
            <4>1. visitors' = visitors
                BY <2>1, <2>5, <3>1
            <4> QED BY <4>1
        <3>2. CASE k \notin visitors
            <4>1. /\ IsFiniteSet((visitors \ gone) \cup {k})
                  /\ Cardinality((visitors \ gone) \cup {k}) = Cardinality(visitors \ gone) + 1
                BY <2>6, <3>2, FS_AddElement
            <4> QED BY <2>1, <2>5, <2>6, <3>2, <4>1
        <3> QED BY <3>1, <3>2
    <2>8. window' \in Window
        BY <2>1, ObserveType
    <2> QED BY <2>1, <2>4, <2>5, <2>7, <2>8
<1>2. CASE Restart
    <2>1. IsFiniteSet({}) /\ Cardinality({}) = 0
        BY FS_EmptySet
    <2>2. window' \in Window
        BY <1>2, ObserveType DEF Restart
    <2>3. bucket' \in [Key -> Bucket]
        BY <1>2, CapType DEF Restart, Bucket, NoBucket
    <2> QED BY <1>2, <2>1, <2>2, <2>3 DEF Restart
<1>3. CASE Tick
    BY <1>3 DEF Tick
<1>4. CASE OpenWindow
    BY <1>4 DEF OpenWindow, Window
<1>5. CASE UNCHANGED vars
    BY <1>5 DEF vars
<1> QED BY <1>1, <1>2, <1>3, <1>4, <1>5 DEF Next

\* No bucket is ahead of the clock: all the cap needs beside the types.
Past == \A k \in visitors : bucket[k].last <= now

LEMMA PastNext ==
    ASSUME TypeOK, MapBounded, Past, [Next]_vars
    PROVE  Past'
<1> USE DEF TypeOK
<1>1. ASSUME NEW k \in Key, Allow(k) PROVE Past'
    <2>1. PICK gone \in Dropped(k) :
            LET b == IF k \in visitors \ gone THEN bucket[k] ELSE NewBucket IN
            /\ visitors' = (visitors \ gone) \cup {k}
            /\ bucket' = [j \in Key |-> IF j = k THEN [Taken(b) EXCEPT !.seen = now]
                                        ELSE IF j \in gone THEN NoBucket ELSE bucket[j]]
            /\ UNCHANGED now
        BY <1>1 DEF Allow
    <2> DEFINE b == IF k \in visitors \ gone THEN bucket[k] ELSE NewBucket
    <2>2. b \in Bucket /\ b.last <= now
        BY NewBucketType DEF Past
    <2>3. Taken(b).last <= now
        BY <2>2, TakenEffect
    <2>4. [Taken(b) EXCEPT !.seen = now].last = Taken(b).last
        BY <2>2 DEF Taken, Bucket
    <2>5. bucket'[k].last <= now
        BY <2>1, <2>3, <2>4
    <2>6. \A j \in visitors' \ {k} : j \in visitors /\ j \notin gone /\ bucket'[j] = bucket[j]
        BY <2>1
    <2>7. now' = now
        BY <2>1
    <2> QED BY <2>5, <2>6, <2>7 DEF Past
<1>2. CASE Restart
    BY <1>2 DEF Restart, Past
<1>3. CASE Tick
    BY <1>3 DEF Tick, Past, Bucket
<1>4. CASE OpenWindow
    BY <1>4 DEF OpenWindow, Past
<1>5. CASE UNCHANGED vars
    BY <1>5 DEF vars, Past
<1> QED BY <1>1, <1>2, <1>3, <1>4, <1>5 DEF Next

-----------------------------------------------------------------------------
(* The budget *)

\* What the observer adds up.
LEMMA ObserveEffect ==
    ASSUME window \in Window, NEW gone, NEW granted, Observe(gone, granted), ~window'.lost
    PROVE  /\ ~window.lost /\ Observed \notin gone
           /\ window'.from = window.from
           /\ window'.spent = IF granted THEN window.spent + Every ELSE window.spent
<1>1. ~(window.lost \/ Observed \in gone)
    <2>1. [window EXCEPT !.lost = TRUE, !.spent = 0].lost = TRUE
        BY DEF Window
    <2> QED BY <2>1 DEF Observe
<1>2. window' = [window EXCEPT !.spent = IF granted THEN @ + Every ELSE @]
    BY <1>1 DEF Observe
<1> QED BY <1>1, <1>2 DEF Window

LEMMA ObserveFrom ==
    ASSUME window \in Window, NEW gone, NEW granted, Observe(gone, granted)
    PROVE  window'.from = window.from
BY DEF Observe, Window

LEMMA AccountsNext ==
    ASSUME IdleRefills, TypeOK, MapBounded, Accounts, [Next]_vars
    PROVE  Accounts'
<1> USE DEF TypeOK
<1>1. ASSUME NEW k \in Key, Allow(k) PROVE Accounts'
    <2>1. PICK gone \in Dropped(k) :
            LET b == IF k \in visitors \ gone THEN bucket[k] ELSE NewBucket IN
            /\ visitors' = (visitors \ gone) \cup {k}
            /\ bucket' = [j \in Key |-> IF j = k THEN [Taken(b) EXCEPT !.seen = now]
                                        ELSE IF j \in gone THEN NoBucket ELSE bucket[j]]
            /\ Observe(gone \ IdleEntries, k = Observed /\ Grants(b))
            /\ UNCHANGED now
        BY <1>1 DEF Allow
    <2> DEFINE b == IF k \in visitors \ gone THEN bucket[k] ELSE NewBucket
               c == [Taken(b) EXCEPT !.seen = now]
    <2>2. b \in Bucket /\ b.last <= now
        BY NewBucketType DEF Accounts, Bucket
    <2>3. /\ c \in Bucket
          /\ c.last <= now /\ c.seen = now
          /\ Refilled(c) = IF Grants(b) THEN Refilled(b) - Every ELSE Refilled(b)
        <3>1. Taken(b).last <= now /\ Taken(b) \in Bucket
            BY <2>2, TakenEffect, RefilledType DEF Taken, Bucket, Grants
        <3>2. c.last = Taken(b).last /\ c.seen = now
            BY <3>1 DEF Bucket
        <3> QED BY <2>2, <3>1, <3>2, TakenEffect
    <2>4. /\ gone \subseteq visitors
          /\ k \in visitors => gone = {}
        BY DroppedMakesRoom
    <2>5. /\ bucket'[k] = c
          /\ \A j \in visitors' \ {k} : j \in visitors /\ j \notin gone /\ bucket'[j] = bucket[j]
        BY <2>1
    <2>6. \A j \in visitors' : bucket'[j].last <= bucket'[j].seen /\ bucket'[j].seen <= now'
        BY <2>1, <2>3, <2>5 DEF Accounts
    <2>7. window'.from <= now'
        BY <2>1, ObserveFrom DEF Accounts
    <2>8. ASSUME ~window'.lost
          PROVE  window'.spent + Left(Observed)' <= Cap + (now' - window'.from)
        <3>1. /\ ~window.lost /\ Observed \notin gone \ IdleEntries
              /\ window'.from = window.from
              /\ window'.spent = IF k = Observed /\ Grants(b) THEN window.spent + Every ELSE window.spent
            BY <2>1, <2>8, ObserveEffect
        <3>2. window.spent + Left(Observed) <= Cap + (now - window.from)
            BY <3>1 DEF Accounts
        <3>3. \A x : Refilled(x)' = Refilled(x)
            BY <2>1 DEF Refilled
        <3>4. CASE k = Observed
            <4>1. Left(Observed) = Refilled(b)
                BY <2>4, <3>4, NewBucketType DEF Left
            <4>2. Left(Observed)' = Refilled(c)
                BY <2>1, <2>5, <3>3, <3>4 DEF Left
            <4>3. Refilled(b) \in Nat /\ window.spent \in Nat
                BY <2>2, RefilledType, CapType DEF Window
            <4> HIDE DEF b, c
            <4>4. CASE Grants(b)
                BY <2>1, <2>3, <3>1, <3>2, <3>4, <4>1, <4>2, <4>3, <4>4
            <4>5. CASE ~Grants(b)
                BY <2>1, <2>3, <3>1, <3>2, <3>4, <4>1, <4>2, <4>3, <4>5
            <4> QED BY <4>4, <4>5
        <3>5. CASE k # Observed
            <4>1. Left(Observed)' = Left(Observed)
                <5>1. CASE Observed \in gone
                    <6>1. Observed \in visitors /\ now - bucket[Observed].seen > IdleTTL
                        BY <2>4, <3>1, <5>1 DEF IdleEntries
                    <6>2. Observed \notin visitors'
                        BY <2>1, <3>5, <5>1
                    <6>3. bucket[Observed] \in Bucket /\ bucket[Observed].last <= bucket[Observed].seen
                        BY <6>1 DEF Accounts
                    <6>4. Refilled(bucket[Observed]) = Cap
                        BY <6>1, <6>3, CapType DEF IdleRefills, Refilled, Bucket
                    <6> QED BY <6>1, <6>2, <6>4 DEF Left
                <5>2. CASE Observed \notin gone
                    <6>1. Observed \in visitors' <=> Observed \in visitors
                        BY <2>1, <3>5, <5>2
                    <6>2. bucket'[Observed] = bucket[Observed]
                        BY <2>1, <3>5, <5>2
                    <6> QED BY <3>3, <6>1, <6>2 DEF Left
                <5> QED BY <5>1, <5>2
            <4> QED BY <2>1, <3>1, <3>2, <3>5, <4>1
        <3> QED BY <3>4, <3>5
    <2> QED BY <2>6, <2>7, <2>8 DEF Accounts
<1>2. CASE Restart
    <2>1. visitors' = {} /\ now' = now /\ Observe(visitors, FALSE)
        BY <1>2 DEF Restart
    <2>2. window'.from = window.from
        BY <2>1, ObserveFrom
    <2>3. ASSUME ~window'.lost
          PROVE  window'.spent + Left(Observed)' <= Cap + (now' - window'.from)
        <3>1. ~window.lost /\ Observed \notin visitors /\ window'.spent = window.spent
            BY <2>1, <2>3, ObserveEffect
        <3>2. Left(Observed)' = Cap /\ Left(Observed) = Cap
            BY <2>1, <3>1 DEF Left
        <3> QED BY <2>1, <2>2, <3>1, <3>2 DEF Accounts
    <2> QED BY <2>1, <2>2, <2>3 DEF Accounts
<1>3. CASE Tick
    <2>1. now' = now + 1 /\ UNCHANGED <<visitors, bucket, window>>
        BY <1>3 DEF Tick
    <2>2. ASSUME Observed \in visitors
          PROVE  /\ Refilled(bucket[Observed]) \in Nat
                 /\ Refilled(bucket[Observed])' \in Nat
                 /\ Refilled(bucket[Observed])' <= Refilled(bucket[Observed]) + 1
        <3>1. bucket[Observed] \in Bucket /\ bucket[Observed].last <= now
            BY <2>2 DEF Accounts, Bucket
        <3> QED BY <2>1, <3>1, CapType DEF Refilled, Bucket
    <2>3. Left(Observed) \in Nat /\ Left(Observed)' \in Nat /\ Left(Observed)' <= Left(Observed) + 1
        BY <2>1, <2>2, CapType DEF Left
    <2>4. \A k \in visitors : bucket[k].seen \in Nat
        BY DEF Bucket
    <2>5. window.from \in Nat /\ window.spent \in Nat
        BY DEF Window
    <2> QED BY <2>1, <2>3, <2>4, <2>5, CapType DEF Accounts
<1>4. CASE OpenWindow
    <2>1. /\ UNCHANGED <<now, visitors, bucket>>
          /\ window'.from = now /\ window'.spent = 0
        BY <1>4 DEF OpenWindow
    <2>2. Left(Observed)' = Left(Observed) /\ Left(Observed) \in 0 .. Cap
        <3>1. Observed \in visitors => Refilled(bucket[Observed]) \in 0 .. Cap
            BY RefilledType DEF Accounts, Bucket
        <3> QED BY <2>1, <3>1, CapType DEF Left, Refilled
    <2> QED BY <2>1, <2>2, CapType DEF Accounts
<1>5. CASE UNCHANGED vars
    BY <1>5 DEF vars, Accounts, Left, Refilled
<1> QED BY <1>1, <1>2, <1>3, <1>4, <1>5 DEF Next

-----------------------------------------------------------------------------
(* The theorems *)

LEMMA AccountsInit == Init => Accounts
BY CapType DEF Init, Accounts, Left

\* The limiter's part of the state: types, cap, and no entry of the future.
THEOREM Safe == Spec => [](TypeOK /\ MapBounded /\ Past)
<1>1. Init => TypeOK /\ MapBounded /\ Past
    BY TypeInit DEF Init, Past
<1>2. TypeOK /\ MapBounded /\ Past /\ [Next]_vars => (TypeOK /\ MapBounded /\ Past)'
    BY CapNext, PastNext DEF Past
<1> QED BY <1>1, <1>2, PTL DEF Spec

\* Buckets hold no more than a burst, and the clock and the map keep their
\* types (visitor, Limiter).
THEOREM TypeCorrect == Spec => []TypeOK
BY Safe, PTL

\* Whatever keys callers present, and whatever the rate, the map never exceeds
\* its cap (evictLocked).
THEOREM CapHolds == Spec => []MapBounded
BY Safe, PTL

\* The inductive invariant that a run checks holds of every instance in which
\* a bucket refills within the idle time.
THEOREM Inductive == ASSUME IdleRefills PROVE Spec => []IInv
<1>1. Init => IInv
    BY TypeInit, AccountsInit DEF IInv
<1>2. IInv /\ [Next]_vars => IInv'
    <2> SUFFICES ASSUME IInv, [Next]_vars PROVE IInv'
        OBVIOUS
    <2>1. \A k \in visitors : bucket[k].last <= now
        BY DEF IInv, TypeOK, Accounts, Bucket
    <2> QED BY <2>1, CapNext, AccountsNext DEF IInv
<1> QED BY <1>1, <1>2, PTL DEF Spec

\* No caller exceeds a full bucket and what was refilled, in any interval in
\* which its entry is not taken by the cap or a restart.
THEOREM BudgetHolds == ASSUME IdleRefills PROVE Spec => []WindowBudget
<1>1. IInv => WindowBudget
    <2> SUFFICES ASSUME IInv, ~window.lost PROVE window.spent <= Cap + (now - window.from)
        BY DEF WindowBudget
    <2>1. Left(Observed) \in Nat
        BY RefilledType, CapType DEF IInv, TypeOK, Accounts, Left, Bucket
    <2> QED BY <2>1, CapType DEF IInv, TypeOK, Accounts, Window
<1> QED BY <1>1, Inductive, PTL

\* What is evicted was seen no later than what is kept.
LEMMA DroppedOldest ==
    ASSUME TypeOK, NEW k \in Key, NEW gone \in Dropped(k), NEW i \in gone, NEW j \in visitors \ gone
    PROVE  bucket[i].seen <= bucket[j].seen
<1>1. i \in visitors /\ gone \in Evicted
    BY DEF Dropped, Evicted, IdleEntries, OldestOf
<1>2. /\ bucket[i].seen \in Int /\ bucket[j].seen \in Int /\ now \in Int /\ IdleTTL \in Int
    BY <1>1, CapType DEF TypeOK, Bucket
<1>3. IdleEntries \subseteq gone
    BY <1>1 DEF Evicted
<1>4. CASE i \in IdleEntries
    <2>1. now - bucket[i].seen > IdleTTL /\ ~(now - bucket[j].seen > IdleTTL)
        BY <1>3, <1>4 DEF IdleEntries
    <2> QED BY <1>2, <2>1
<1>5. CASE i \notin IdleEntries
    BY <1>1, <1>3, <1>5 DEF Evicted, OldestOf
<1> QED BY <1>4, <1>5

\* The step of RecentKept.
Keeps ==
    \A k \in visitors \ visitors' :
        visitors' # {} => \A j \in visitors \cap visitors' : bucket[k].seen <= bucket[j].seen

\* Eviction forgets the least recently seen first, for any cap and idle time
\* (evictLocked).
THEOREM RecentStay == Spec => RecentKept
<1>1. ASSUME TypeOK, [Next]_vars, NEW i \in visitors \ visitors', visitors' # {},
             NEW j \in visitors \cap visitors'
      PROVE  bucket[i].seen <= bucket[j].seen
    <2>1. ASSUME NEW k \in Key, Allow(k)
          PROVE  bucket[i].seen <= bucket[j].seen
        <3>1. PICK gone \in Dropped(k) : visitors' = (visitors \ gone) \cup {k}
            BY <2>1 DEF Allow
        <3>2. k \in visitors => gone = {}
            BY <3>1 DEF Dropped
        <3>3. i \in gone /\ j \in visitors \ gone
            BY <1>1, <3>1, <3>2
        <3> QED BY <1>1, <3>3, DroppedOldest
    <2>2. CASE Restart \/ Tick \/ OpenWindow \/ UNCHANGED vars
        BY <1>1, <2>2 DEF Restart, Tick, OpenWindow, vars
    <2> QED BY <1>1, <2>1, <2>2 DEF Next
<1>2. TypeOK /\ [Next]_vars => [Keeps]_vars
    BY <1>1 DEF Keeps
<1>3. Spec => [][Keeps]_vars
    BY <1>2, TypeCorrect, PTL DEF Spec
<1> QED BY <1>3, PTL DEF RecentKept, Keeps

-----------------------------------------------------------------------------
(* The abstract specification *)

\* Entries are used and seen in order, and never in the future.
Ordered == \A k \in visitors : bucket[k].last <= bucket[k].seen /\ bucket[k].seen <= now

\* A caller that nobody else has displaced finds at least one request in a new
\* bucket.
LEMMA CapCovers == Every <= Cap
<1>1. \A m \in Nat : (m + 1) * Every = m * Every + Every
    OBVIOUS
<1>2. Burst - 1 \in Nat /\ (Burst - 1) + 1 = Burst
    OBVIOUS
<1>3. Burst * Every = (Burst - 1) * Every + Every
    BY <1>1, <1>2
<1>4. (Burst - 1) * Every \in Nat
    BY <1>2
<1> QED BY <1>3, <1>4 DEF Cap

\* An entry idle for longer than a bucket takes to fill has nothing to forget.
LEMMA IdleFull ==
    ASSUME IdleRefills, TypeOK, Ordered, NEW k \in IdleEntries
    PROVE  Left(k) = Cap
<1>1. /\ k \in visitors /\ bucket[k] \in Bucket /\ now - bucket[k].seen > IdleTTL
      /\ bucket[k].last <= bucket[k].seen
    BY DEF IdleEntries, TypeOK, Ordered
<1> QED BY <1>1, CapType DEF IdleRefills, Refilled, Bucket, TypeOK, Left

\* Of the entries evictLocked drops one at most is not idle, and one is only
\* when Allow makes room for a newcomer.
LEMMA DroppedOne ==
    ASSUME NEW k \in Key, NEW gone \in Dropped(k)
    PROVE  /\ k \in visitors => gone = {}
           /\ gone \subseteq visitors
           /\ \/ gone \subseteq IdleEntries
              \/ \E v \in gone : gone \subseteq IdleEntries \cup {v}
BY DEF Dropped, Evicted, IdleEntries, OldestOf

\* What a call of Allow leaves every caller.
LEMMA AllowLeft ==
    ASSUME IdleRefills, TypeOK, MapBounded, Ordered, NEW k \in Key, Allow(k)
    PROVE  \E gone \in Dropped(k), granted \in BOOLEAN :
             /\ granted => Left(k) >= Every
             /\ Left(k)' = IF granted THEN Left(k) - Every ELSE Left(k)
             /\ k \notin visitors => granted
             /\ \A j \in Key \ {k} : Left(j)' = IF j \in gone THEN Cap ELSE Left(j)
<1> USE DEF TypeOK
<1>1. PICK gone \in Dropped(k) :
        LET b == IF k \in visitors \ gone THEN bucket[k] ELSE NewBucket IN
        /\ visitors' = (visitors \ gone) \cup {k}
        /\ bucket' = [j \in Key |-> IF j = k THEN [Taken(b) EXCEPT !.seen = now]
                                    ELSE IF j \in gone THEN NoBucket ELSE bucket[j]]
        /\ UNCHANGED now
    BY DEF Allow
<1> DEFINE b == IF k \in visitors \ gone THEN bucket[k] ELSE NewBucket
           c == [Taken(b) EXCEPT !.seen = now]
<1>2. b \in Bucket /\ b.last <= now
    BY NewBucketType DEF Ordered, Bucket
<1>3. Refilled(c) = IF Grants(b) THEN Refilled(b) - Every ELSE Refilled(b)
    BY <1>2, TakenEffect
<1>4. \A x : Refilled(x)' = Refilled(x)
    BY <1>1 DEF Refilled
<1>5. (k \in visitors => gone = {}) /\ gone \subseteq visitors
    BY DroppedOne
<1>6. Left(k) = Refilled(b)
    BY <1>5, NewBucketType DEF Left
<1>7. k \in visitors' /\ bucket'[k] = c
    BY <1>1
<1>8. Left(k)' = Refilled(c)
    BY <1>4, <1>7 DEF Left
<1>9. k \notin visitors => Grants(b)
    BY NewBucketType, CapCovers DEF Grants
<1>10. ASSUME NEW j \in Key \ {k}
       PROVE  Left(j)' = IF j \in gone THEN Cap ELSE Left(j)
    <2>1. CASE j \in gone
        BY <1>1, <2>1 DEF Left
    <2>2. CASE j \notin gone
        <3>1. (j \in visitors' <=> j \in visitors) /\ bucket'[j] = bucket[j]
            BY <1>1, <2>2
        <3> QED BY <1>4, <2>2, <3>1 DEF Left
    <2> QED BY <2>1, <2>2
<1> DEFINE granted == Grants(b)
<1>11. granted \in BOOLEAN /\ (granted => Left(k) >= Every)
    BY <1>6 DEF Grants
<1>12. Left(k)' = IF granted THEN Left(k) - Every ELSE Left(k)
    BY <1>3, <1>6, <1>8
<1> HIDE DEF granted
<1>13. k \notin visitors => granted
    BY <1>9 DEF granted
<1> QED BY <1>10, <1>11, <1>12, <1>13

\* What every caller has left, as TokenBuckets keeps it.
Credit == [k \in Key |-> Left(k)]

\* A call of Allow, which takes what is left of its caller alone, and at the
\* cap forgives one other.
LEMMA AllowCredits ==
    ASSUME IdleRefills, TypeOK, MapBounded, Ordered, NEW k \in Key, Allow(k)
    PROVE  \/ Buckets!Grant(k)
           \/ \E v \in Key : Buckets!Displace(k, v)
           \/ Credit' = Credit
<1>1. PICK gone \in Dropped(k), granted \in BOOLEAN :
        /\ granted => Left(k) >= Every
        /\ Left(k)' = IF granted THEN Left(k) - Every ELSE Left(k)
        /\ k \notin visitors => granted
        /\ \A j \in Key \ {k} : Left(j)' = IF j \in gone THEN Cap ELSE Left(j)
    BY AllowLeft
<1>2. /\ k \in visitors => gone = {}
      /\ gone \subseteq visitors
      /\ \/ gone \subseteq IdleEntries
         \/ \E v \in gone : gone \subseteq IdleEntries \cup {v}
    BY DroppedOne
<1>3. \A j \in IdleEntries : Left(j) = Cap
    BY IdleFull
<1>4. CASE gone \subseteq IdleEntries
    <2>1. \A j \in Key \ {k} : Left(j)' = Left(j)
        BY <1>1, <1>3, <1>4
    <2>2. CASE granted
        <3>1. Credit' = [Credit EXCEPT ![k] = @ - Every]
            BY <1>1, <2>1, <2>2 DEF Credit
        <3>2. Credit[k] >= Every
            BY <1>1, <2>2 DEF Credit
        <3> QED BY <3>1, <3>2 DEF Buckets!Grant, Credit
    <2>3. CASE ~granted
        BY <1>1, <2>1, <2>3 DEF Credit
    <2> QED BY <2>2, <2>3
<1>5. ASSUME NEW v \in gone, gone \subseteq IdleEntries \cup {v}
      PROVE  Buckets!Displace(k, v) /\ v \in Key
    <2>1. k \notin visitors /\ v \in visitors /\ v \in Key /\ v # k
        BY <1>2 DEF TypeOK
    <2>2. granted /\ Left(k) = Cap
        BY <1>1, <2>1 DEF Left
    <2>3. \A j \in Key \ {k} : Left(j)' = IF j = v THEN Cap ELSE Left(j)
        BY <1>1, <1>3, <1>5
    <2>4. Credit' = [Credit EXCEPT ![k] = @ - Every, ![v] = Cap]
        BY <1>1, <2>1, <2>2, <2>3 DEF Credit
    <2>5. Credit[k] = Cap
        BY <2>2 DEF Credit
    <2> QED BY <2>1, <2>4, <2>5 DEF Buckets!Displace, Credit
<1> QED BY <1>2, <1>4, <1>5

\* A unit of time fills every bucket that is not full by one, kept in the map
\* or not.
LEMMA TickCredits ==
    ASSUME TypeOK, Ordered, Tick
    PROVE  Buckets!Tick
<1>1. now' = now + 1 /\ UNCHANGED <<visitors, bucket>>
    BY DEF Tick
<1>2. ASSUME NEW k \in Key
      PROVE  Left(k)' = Buckets!Gained(Left(k))
    <2>1. CASE k \in visitors
        <3>1. bucket[k] \in Bucket /\ bucket[k].last <= now
            BY <2>1 DEF TypeOK, Ordered, Bucket
        <3>2. Refilled(bucket[k])' = Buckets!Gained(Refilled(bucket[k]))
            BY <1>1, <3>1, CapType DEF Refilled, Buckets!Gained, Bucket, TypeOK
        <3> QED BY <1>1, <2>1, <3>2 DEF Left
    <2>2. CASE k \notin visitors
        BY <1>1, <2>2, CapType DEF Left, Buckets!Gained
    <2> QED BY <2>1, <2>2
<1>3. Credit' = [k \in Key |-> Buckets!Gained(Credit[k])]
    BY <1>2 DEF Credit
<1> QED BY <1>3 DEF Buckets!Tick, Credit

\* The map of buckets, idle eviction and the cap implement a bucket for every
\* caller that is always there (internal/ratelimit).
THEOREM BucketRefinement == ASSUME IdleRefills PROVE Spec => BucketsSpec
<1>1. Init => Buckets!Init
    BY DEF Init, Buckets!Init, Buckets!Full, Left
<1>2. ASSUME TypeOK, MapBounded, Ordered, [Next]_vars
      PROVE  [Buckets!Next]_Credit
    <2>1. ASSUME NEW k \in Key, Allow(k)
          PROVE  [Buckets!Next]_Credit
        BY <1>2, <2>1, AllowCredits DEF Buckets!Next
    <2>2. CASE Tick
        BY <1>2, <2>2, TickCredits DEF Buckets!Next
    <2>3. CASE Restart
        BY <2>3 DEF Restart, Left, Buckets!Restart, Buckets!Full, Buckets!Next
    <2>4. CASE OpenWindow \/ UNCHANGED vars
        BY <2>4 DEF OpenWindow, vars, Credit, Left, Refilled
    <2> QED BY <1>2, <2>1, <2>2, <2>3, <2>4 DEF Next
<1>3. IInv => TypeOK /\ MapBounded /\ Ordered
    BY DEF IInv, Accounts, Ordered
<1>4. Spec => []IInv
    BY Inductive
<1>5. IInv /\ [Next]_vars => [Buckets!Next]_Credit
    BY <1>2, <1>3
<1>6. [Next]_vars /\ IInv => [Buckets!Next]_([k \in Key |-> Left(k)])
    BY <1>5 DEF Credit
<1> QED BY <1>1, <1>4, <1>6, PTL DEF Spec, BucketsSpec, Buckets!Spec
=============================================================================
