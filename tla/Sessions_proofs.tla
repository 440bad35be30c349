-------------------------- MODULE Sessions_proofs --------------------------
(* Proofs of the safety properties of Sessions, for every set of users,    *)
(* tokens and requests and every lifetime.                                 *)
EXTENDS Sessions, TLAPS

USE TTLAssumption, TimeAssumption, NoneAssumption

-----------------------------------------------------------------------------
(* Type correctness *)

\* A request that ends leaves the idle record behind.
LEMMA IdleType == Idle \in Request
BY DEF Idle, Request, Stage, Kill

\* A request that takes on a well-typed record keeps the table of requests
\* well typed.
LEMMA BecomeType ==
    ASSUME TypeOK, NEW w \in Worker, NEW r \in Request, Become(w, r)
    PROVE  req' \in [Worker -> Request]
BY DEF Become, TypeOK

\* The single-column updates of a row give a row again.
LEMMA AccountUpdate ==
    ASSUME NEW a \in Account, NEW n \in Nat
    PROVE  /\ [a EXCEPT !.registered = TRUE] \in Account
           /\ [a EXCEPT !.verified = TRUE] \in Account
           /\ [a EXCEPT !.validAfter = n] \in Account
BY DEF Account

LEMMA RefreshRowUpdate ==
    ASSUME NEW row \in RefreshRow, NEW k \in SUBSET Kill,
           NEW s \in {"none", "live", "revoked", "swept"}
    PROVE  /\ [row EXCEPT !.status = s] \in RefreshRow
           /\ [row EXCEPT !.outlived = k, !.status = s] \in RefreshRow
BY DEF RefreshRow

LEMMA ResetRowUpdate ==
    ASSUME NEW row \in ResetRow,
           NEW s \in {"none", "fresh", "used", "swept"}
    PROVE  /\ [row EXCEPT !.status = s] \in ResetRow
           /\ [row EXCEPT !.status = s, !.uses = @ + 1] \in ResetRow
<1>1. row.uses + 1 \in Nat
    BY DEF ResetRow
<1> QED BY <1>1 DEF ResetRow

LEMMA TypeInit == Init => TypeOK
BY IdleType DEF Init, TypeOK, Account, RefreshRow, ResetRow, NoRefreshRow, NoResetRow, Kill

\* Each statement of a request keeps the types.
LEMMA TypeStep ==
    ASSUME TypeOK, NEW w \in Worker, Step(w)
    PROVE  TypeOK'
<1> USE IdleType DEF TypeOK
<1>1. CASE SignAccessToken(w)
    <2>1. [req[w] EXCEPT !.stage = "store", !.issuedAt = now] \in Request
        BY DEF Request, Stage
    <2> QED BY <1>1, <2>1, BecomeType DEF SignAccessToken
<1>2. CASE StoreRefreshToken(w)
    <2> PICK t \in Token : 
         /\ refresh' = [refresh EXCEPT ![t] =
             [status |-> "live", user |-> req[w].user, expires |-> now + RefreshTTL,
              issuedAt |-> req[w].issuedAt, family |-> FamilyOf(w, t),
              raced |-> req[w].outlived # {} \/ LockdownUnderWay(req[w].user),
              outlived |-> req[w].outlived]]
        BY <1>2 DEF StoreRefreshToken
    <2>1. FamilyOf(w, t) \in Token \cup {None}
        BY DEF FamilyOf, Request, RefreshRow
    <2>2. (req[w].outlived # {} \/ LockdownUnderWay(req[w].user)) \in BOOLEAN
        BY DEF LockdownUnderWay
    <2>3. refresh' \in [Token -> RefreshRow]
        BY <2>1, <2>2 DEF RefreshRow, Request
    <2> QED BY <1>2, <2>3, BecomeType DEF StoreRefreshToken, Finish
<1>3. CASE RefreshClaim(w)
    <2>1. [req[w] EXCEPT !.stage = "sign"] \in Request
        BY DEF Request, Stage
    <2>2. refresh' \in [Token -> RefreshRow]
        BY <1>3 DEF RefreshClaim, RefreshRow
    <2> QED BY <1>3, <2>1, <2>2, BecomeType DEF RefreshClaim, Goto, Finish, ClaimLost
<1>4. CASE SignOutRevoke(w)
    <2>1. ASSUME NEW t \in Token PROVE [refresh[t] EXCEPT !.status = "revoked"] \in RefreshRow
        BY RefreshRowUpdate
    <2>2. req[w].token \in Token => refresh' \in [Token -> RefreshRow]
        BY <1>4, <2>1 DEF SignOutRevoke
    <2>3. req[w].token \notin Token => refresh' \in [Token -> RefreshRow]
        BY <1>4 DEF SignOutRevoke
    <2> QED BY <1>4, <2>2, <2>3, BecomeType DEF SignOutRevoke, Finish
<1>5. CASE Begin(w)
    <2>1. [req[w] EXCEPT !.txStart = now,
              !.stage = IF req[w].reset = None THEN "revokeAll" ELSE "claimReset"] \in Request
        BY DEF Request, Stage
    <2> QED BY <1>5, <2>1, BecomeType DEF Begin
<1>6. CASE ClaimReset(w)
    <2>1. [req[w] EXCEPT !.stage = "setPassword"] \in Request
        BY DEF Request, Stage
    <2> QED BY <1>6, <2>1, BecomeType DEF ClaimReset, Goto, Finish, ClaimLost
<1>7. CASE SetPassword(w)
    <2>1. [req[w] EXCEPT !.stage = "revokeAll"] \in Request
        BY DEF Request, Stage
    <2> QED BY <1>7, <2>1, BecomeType DEF SetPassword, Goto
<1>8. CASE RevokeAll(w)
    <2>1. [req[w] EXCEPT !.stage = "lock", !.todo = Snapshot(w)] \in Request
        BY DEF Request, Stage, Snapshot, LiveTokensOf
    <2> QED BY <1>8, <2>1, BecomeType DEF RevokeAll
<1>9. CASE LockRow(w)
    <2> PICK t \in Token :
          Become(w, [req[w] EXCEPT !.todo = @ \ {t},
                                   !.held = IF Stored(t) THEN @ \cup {t} ELSE @])
        BY <1>9 DEF LockRow, Request
    <2>1. [req[w] EXCEPT !.todo = @ \ {t},
                         !.held = IF Stored(t) THEN @ \cup {t} ELSE @] \in Request
        BY DEF Request
    <2> QED BY <1>9, <2>1, BecomeType DEF LockRow
<1>10. CASE BumpAndCommit(w)
    <2> USE <1>10 DEF BumpAndCommit
    <2>1. {KillOf(w)} \subseteq Kill
        BY DEF KillOf, Kill
    <2>2. account' \in [User -> Account]
        <3>1. Watermark(w) \in Nat
            BY DEF Watermark, Request
        <3> QED BY <3>1, AccountUpdate
    <2>3. refresh' \in [Token -> RefreshRow]
        <3>1. ASSUME NEW t \in Token PROVE
                [refresh[t] EXCEPT !.outlived = @ \cup {KillOf(w)},
                    !.status = IF t \in req[w].held /\ Live(t) THEN "revoked" ELSE @] \in RefreshRow
            <4>1. /\ refresh[t].outlived \cup {KillOf(w)} \in SUBSET Kill
                  /\ (IF t \in req[w].held /\ Live(t) THEN "revoked" ELSE refresh[t].status)
                        \in {"none", "live", "revoked", "swept"}
                BY <2>1 DEF RefreshRow
            <4> QED BY <4>1, RefreshRowUpdate
        <3> QED BY <3>1
    <2>4. reset' \in [ResetToken -> ResetRow]
        <3> DEFINE r == req[w].reset
        <3>1. ASSUME r \in ResetToken
              PROVE  [reset[r] EXCEPT !.status = "used", !.uses = @ + 1] \in ResetRow
            BY <3>1, ResetRowUpdate
        <3>2. r \in ResetToken \cup {None}
            BY DEF Request
        <3> QED BY <3>1, <3>2
    <2>5. req' \in [Worker -> Request]
        BY <2>1 DEF Request
    <2> QED BY <2>2, <2>3, <2>4, <2>5
<1> QED BY <1>1, <1>2, <1>3, <1>4, <1>5, <1>6, <1>7, <1>8, <1>9, <1>10 DEF Step

LEMMA TypeNext == TypeOK /\ [Next]_vars => TypeOK'
<1> SUFFICES ASSUME TypeOK, [Next]_vars PROVE TypeOK'
    OBVIOUS
<1> USE IdleType DEF TypeOK
<1>1. ASSUME NEW w \in Worker, Arrive(w) PROVE TypeOK'
    <2>1. ASSUME NEW u \in User, SignUp(w, u) \/ SignIn(w, u) PROVE TypeOK'
        <3>1. [Idle EXCEPT !.stage = "sign", !.user = u] \in Request
            BY DEF Request, Stage
        <3>2. [account[u] EXCEPT !.registered = TRUE] \in Account
            BY AccountUpdate
        <3> QED BY <2>1, <3>1, <3>2, BecomeType DEF SignUp, SignIn, Start
    <2>2. ASSUME NEW t \in Token, RefreshFind(w, t) \/ SignOutFind(w, t) PROVE TypeOK'
        <3> DEFINE u == refresh[t].user
        <3>1. u \in User \cup {None}
            BY DEF RefreshRow
        <3> HIDE DEF u
        <3>2. /\ [Idle EXCEPT !.stage = "claim", !.user = u, !.token = t] \in Request
              /\ [Idle EXCEPT !.stage = "begin", !.user = u] \in Request
              /\ [Idle EXCEPT !.stage = "signOut", !.token = t] \in Request
            BY <3>1 DEF Request, Stage
        <3> QED BY <2>2, <3>2, BecomeType DEF RefreshFind, SignOutFind, Start, u
    <2>3. ASSUME NEW r \in ResetToken, ResetFind(w, r) PROVE TypeOK'
        <3> DEFINE u == reset[r].user
        <3>1. u \in User \cup {None}
            BY DEF ResetRow
        <3> HIDE DEF u
        <3>2. [Idle EXCEPT !.stage = "begin", !.user = u, !.reset = r] \in Request
            BY <3>1 DEF Request, Stage
        <3> QED BY <2>3, <3>2, BecomeType DEF ResetFind, Start, u
    <2> QED BY <1>1, <2>1, <2>2, <2>3 DEF Arrive
<1>2. ASSUME NEW w \in Worker, Step(w) PROVE TypeOK'
    BY <1>2, TypeStep
<1>3. ASSUME NEW w \in Worker, Abort(w) \/ DeadlockVictim(w) PROVE TypeOK'
    BY <1>3, BecomeType DEF Abort, DeadlockVictim, Finish
<1>4. ASSUME NEW u \in User, MarkEmailVerified(u) \/ RequestPasswordReset(u) PROVE TypeOK'
    <2>1. [account[u] EXCEPT !.verified = TRUE] \in Account
        BY AccountUpdate
    <2>2. [status |-> "fresh", user |-> u, expires |-> now + ResetTTL, uses |-> 0] \in ResetRow
        BY DEF ResetRow
    <2> QED BY <1>4, <2>1, <2>2 DEF MarkEmailVerified, RequestPasswordReset
<1>5. CASE SweepRefresh \/ SweepReset \/ SweepFails
    BY <1>5 DEF SweepRefresh, SweepReset, SweepFails, RefreshRow, ResetRow
<1>6. CASE Tick
    BY <1>6 DEF Tick
<1>7. CASE UNCHANGED vars
    BY <1>7 DEF vars
<1> QED BY <1>1, <1>2, <1>3, <1>4, <1>5, <1>6, <1>7 DEF Next

\* Every field of every row and request keeps its type.
THEOREM TypeCorrect == Spec => []TypeOK
BY TypeInit, TypeNext, PTL DEF Spec
-----------------------------------------------------------------------------
(* What a step does to the rows and to the requests *)

\* Everything about a refresh row but its being revoked, swept or outlived.
RowKept(t) ==
    /\ refresh'[t].user = refresh[t].user
    /\ refresh'[t].family = refresh[t].family
    /\ refresh'[t].issuedAt = refresh[t].issuedAt
    /\ refresh'[t].raced = refresh[t].raced
    /\ Issued(t)' <=> Issued(t)
    /\ Live(t)' => Live(t)

\* Everything about a request but its history.
RequestKept(w) ==
    /\ req'[w].stage = req[w].stage /\ req'[w].user = req[w].user
    /\ req'[w].token = req[w].token /\ req'[w].reset = req[w].reset
    /\ req'[w].issuedAt = req[w].issuedAt /\ req'[w].txStart = req[w].txStart
    /\ req'[w].todo = req[w].todo /\ req'[w].held = req[w].held

\* The stages a statement leads from and to.
Moves(from, to) ==
    \/ from = "claim" /\ to = "sign"
    \/ from = "sign" /\ to = "store"
    \/ from = "begin" /\ to \in {"revokeAll", "claimReset"}
    \/ from = "claimReset" /\ to = "setPassword"
    \/ from = "setPassword" /\ to = "revokeAll"
    \/ from \in {"revokeAll", "lock"} /\ to = "lock"

\* A statement or a failure moves its own request, or ends it.
RequestMoved(w) ==
    \/ req'[w] = Idle
    \/ /\ Moves(req[w].stage, req'[w].stage)
       /\ req'[w].user = req[w].user /\ req'[w].token = req[w].token
       /\ req'[w].reset = req[w].reset
       /\ req'[w].txStart \in {req[w].txStart, now}

LEMMA BecomeEffect ==
    ASSUME TypeOK, NEW w \in Worker, NEW r, Become(w, r)
    PROVE  req'[w] = r /\ \A v \in Worker \ {w} : req'[v] = req[v]
BY DEF Become, TypeOK

LEMMA BecomeKeepsOthers ==
    ASSUME TypeOK, NEW w \in Worker, NEW r, Become(w, r)
    PROVE  \A v \in Worker \ {w} : RequestKept(v)
BY BecomeEffect DEF RequestKept

\* Only StoreRefreshToken inserts a row; every other step keeps the rows.
LEMMA RowsKept ==
    ASSUME TypeOK, [Next]_vars, \A w \in Worker : ~StoreRefreshToken(w)
    PROVE  \A t \in Token : RowKept(t)
<1> USE DEF RowKept, Issued, Live
<1>1. CASE UNCHANGED refresh
    BY <1>1
<1>2. ASSUME NEW w \in Worker, RefreshClaim(w) \/ SignOutRevoke(w)
      PROVE  \A t \in Token : RowKept(t)
    <2> SUFFICES ASSUME ~UNCHANGED refresh PROVE \A t \in Token : RowKept(t)
        BY <1>1
    <2>1. /\ Stored(req[w].token)
          /\ refresh' = [refresh EXCEPT ![req[w].token].status = "revoked"]
        BY <1>2 DEF RefreshClaim, SignOutRevoke, Claimable, Stored
    <2> QED BY <2>1 DEF TypeOK, RefreshRow, Stored
<1>3. ASSUME NEW w \in Worker, BumpAndCommit(w)
      PROVE  \A t \in Token : RowKept(t)
    <2> SUFFICES ASSUME NEW t \in Token PROVE RowKept(t)
        OBVIOUS
    <2>1. refresh[t] \in RefreshRow
        BY DEF TypeOK
    <2>2. \/ refresh'[t] = refresh[t]
          \/ refresh'[t] = [refresh[t] EXCEPT !.outlived = @ \cup {KillOf(w)},
                 !.status = IF t \in req[w].held /\ Live(t) THEN "revoked" ELSE @]
        BY <1>3 DEF BumpAndCommit
    <2> QED BY <2>1, <2>2 DEF RefreshRow
<1>4. CASE SweepRefresh
    <2> SUFFICES ASSUME NEW t \in Token PROVE RowKept(t)
        OBVIOUS
    <2>1. refresh[t] \in RefreshRow
        BY DEF TypeOK
    <2>2. \/ refresh'[t] = refresh[t]
          \/ Stored(t) /\ refresh'[t] = [refresh[t] EXCEPT !.status = "swept"]
        BY <1>4 DEF SweepRefresh
    <2> QED BY <2>1, <2>2 DEF Stored, RefreshRow
<1>5. ASSUME NEW w \in Worker, Arrive(w) \/ Abort(w) \/ DeadlockVictim(w) PROVE UNCHANGED refresh
    BY <1>5 DEF Arrive, SignUp, SignIn, RefreshFind, SignOutFind, ResetFind, Abort, DeadlockVictim
<1>6. ASSUME NEW w \in Worker, Step(w), ~RefreshClaim(w), ~SignOutRevoke(w), ~BumpAndCommit(w)
      PROVE  UNCHANGED refresh
    BY <1>6 DEF Step, SignAccessToken, Begin, ClaimReset, SetPassword, RevokeAll, LockRow
<1>7. ASSUME \/ \E u \in User : MarkEmailVerified(u) \/ RequestPasswordReset(u)
             \/ SweepReset \/ SweepFails \/ Tick \/ UNCHANGED vars
      PROVE  UNCHANGED refresh
    BY <1>7 DEF MarkEmailVerified, RequestPasswordReset, SweepReset, SweepFails, Tick, vars
<1> QED BY <1>1, <1>2, <1>3, <1>4, <1>5, <1>6, <1>7 DEF Next

\* A commit records itself in the history of other requests, nothing more.
LEMMA StepMoves ==
    ASSUME TypeOK, NEW w \in Worker, Step(w) \/ Abort(w) \/ DeadlockVictim(w)
    PROVE  RequestMoved(w) /\ \A v \in Worker \ {w} : RequestKept(v)
<1> USE BecomeEffect, BecomeKeepsOthers
<1>1. CASE Abort(w) \/ DeadlockVictim(w) \/ StoreRefreshToken(w) \/ SignOutRevoke(w)
    BY <1>1 DEF Abort, DeadlockVictim, StoreRefreshToken, SignOutRevoke, Finish, RequestMoved
<1>2. ASSUME NEW r, Become(w, r), Moves(req[w].stage, r.stage),
             r.user = req[w].user, r.token = req[w].token, r.reset = req[w].reset,
             r.txStart \in {req[w].txStart, now}
      PROVE  RequestMoved(w) /\ \A v \in Worker \ {w} : RequestKept(v)
    BY <1>2 DEF RequestMoved
<1> HIDE BecomeEffect, BecomeKeepsOthers
<1>3. req[w] \in Request
    BY DEF TypeOK
<1> USE DEF Request, Moves
<1>4. CASE SignAccessToken(w)
    BY <1>2, <1>3, <1>4 DEF SignAccessToken
<1>5. CASE RefreshClaim(w)
    <2>1. CASE Goto(w, "sign")
        BY <1>2, <1>3, <1>5, <2>1 DEF RefreshClaim, Goto
    <2>2. CASE Finish(w)
        BY <2>2, BecomeEffect, BecomeKeepsOthers DEF Finish, RequestMoved
    <2> QED BY <1>5, <2>1, <2>2 DEF RefreshClaim, ClaimLost
<1>6. CASE Begin(w)
    BY <1>2, <1>3, <1>6 DEF Begin
<1>7. CASE ClaimReset(w)
    <2>1. CASE Goto(w, "setPassword")
        BY <1>2, <1>3, <1>7, <2>1 DEF ClaimReset, Goto
    <2>2. CASE Finish(w)
        BY <2>2, BecomeEffect, BecomeKeepsOthers DEF Finish, RequestMoved
    <2> QED BY <1>7, <2>1, <2>2 DEF ClaimReset, ClaimLost
<1>8. CASE SetPassword(w)
    BY <1>2, <1>3, <1>8 DEF SetPassword, Goto
<1>9. CASE RevokeAll(w)
    BY <1>2, <1>3, <1>9 DEF RevokeAll
<1>10. CASE LockRow(w)
    BY <1>2, <1>3, <1>10 DEF LockRow
<1>11. CASE BumpAndCommit(w)
    <2> USE <1>11 DEF BumpAndCommit
    <2>1. req'[w] = Idle
        OBVIOUS
    <2>2. ASSUME NEW v \in Worker \ {w} PROVE RequestKept(v)
        <3>1. req[v] \in Request
            BY DEF TypeOK
        <3>2. req'[v] = req[v] \/ req'[v] = [req[v] EXCEPT !.outlived = @ \cup {KillOf(w)}]
            OBVIOUS
        <3> HIDE DEF BumpAndCommit
        <3> QED BY <3>1, <3>2 DEF RequestKept
    <2> QED BY <2>1, <2>2 DEF RequestMoved
<1> QED BY <1>1, <1>4, <1>5, <1>6, <1>7, <1>8, <1>9, <1>10, <1>11 DEF Step

\* A request that arrives holds nothing yet: it is about to run its first
\* write, or to begin its transaction.
LEMMA ArriveMoves ==
    ASSUME TypeOK, References, NEW w \in Worker, Arrive(w)
    PROVE  /\ UNCHANGED <<now, refresh, reset>>
           /\ \A v \in Worker \ {w} : RequestKept(v)
           /\ req'[w].stage \in {"claim", "sign", "signOut", "begin"}
           /\ req'[w].stage = "sign" => req'[w].token = None
           /\ req'[w].token # None => Issued(req'[w].token)
           /\ req'[w].reset # None => reset[req'[w].reset].status # "none"
           /\ req'[w].stage # "signOut" => req'[w].user \in User
           /\ req'[w].txStart = 0
<1> USE DEF Idle
<1> DEFINE Arrived(r) ==
        /\ r.stage \in {"claim", "sign", "signOut", "begin"}
        /\ r.stage = "sign" => r.token = None
        /\ r.token # None => Issued(r.token)
        /\ r.reset # None => reset[r.reset].status # "none"
        /\ r.stage # "signOut" => r.user \in User
        /\ r.txStart = 0
<1>1. ASSUME NEW u \in User, SignUp(w, u) \/ SignIn(w, u)
      PROVE  UNCHANGED <<now, refresh, reset>> /\ \E r : Become(w, r) /\ Arrived(r)
    <2>1. Arrived([Idle EXCEPT !.stage = "sign", !.user = u])
        OBVIOUS
    <2> QED BY <1>1, <2>1 DEF SignUp, SignIn, Start
<1>2. ASSUME NEW t \in Token, RefreshFind(w, t) \/ SignOutFind(w, t)
      PROVE  UNCHANGED <<now, refresh, reset>> /\ \E r : Become(w, r) /\ Arrived(r)
    <2> DEFINE u == refresh[t].user
    <2>1. Issued(t) /\ u \in User
        BY <1>2 DEF RefreshFind, SignOutFind, Stored, Issued, References
    <2>2. /\ Arrived([Idle EXCEPT !.stage = "claim", !.user = u, !.token = t])
          /\ Arrived([Idle EXCEPT !.stage = "begin", !.user = u])
          /\ Arrived([Idle EXCEPT !.stage = "signOut", !.token = t])
        BY <2>1
    <2> QED BY <1>2, <2>2 DEF RefreshFind, SignOutFind, Start
<1>3. ASSUME NEW r \in ResetToken, ResetFind(w, r)
      PROVE  UNCHANGED <<now, refresh, reset>> /\ \E q : Become(w, q) /\ Arrived(q)
    <2> DEFINE u == reset[r].user
    <2>1. u \in User /\ reset[r].status # "none"
        BY <1>3 DEF ResetFind, References
    <2>2. Arrived([Idle EXCEPT !.stage = "begin", !.user = u, !.reset = r])
        BY <2>1
    <2> QED BY <1>3, <2>2 DEF ResetFind, Start
<1>4. UNCHANGED <<now, refresh, reset>> /\ \E r : Become(w, r) /\ Arrived(r)
    BY <1>1, <1>2, <1>3 DEF Arrive
<1>5. PICK r : Become(w, r) /\ Arrived(r)
    BY <1>4
<1> QED BY <1>4, <1>5, BecomeEffect, BecomeKeepsOthers

\* The steps of no request leave every request alone.
LEMMA OthersKeepRequests ==
    ASSUME \/ \E u \in User : MarkEmailVerified(u) \/ RequestPasswordReset(u)
           \/ SweepRefresh \/ SweepReset \/ SweepFails \/ Tick \/ UNCHANGED vars
    PROVE  UNCHANGED req
BY DEF MarkEmailVerified, RequestPasswordReset, SweepRefresh, SweepReset, SweepFails, Tick, vars

\* The row an insert adds, beside rows left alone.
LEMMA StoreEffect ==
    ASSUME TypeOK, NEW w \in Worker, StoreRefreshToken(w)
    PROVE  \E t \in Token :
             /\ ~Issued(t)
             /\ refresh'[t].status = "live" /\ refresh'[t].user = req[w].user
             /\ refresh'[t].family = FamilyOf(w, t)
             /\ refresh'[t].issuedAt = req[w].issuedAt
             /\ refresh'[t].raced = (req[w].outlived # {} \/ LockdownUnderWay(req[w].user))
             /\ refresh'[t].outlived = req[w].outlived
             /\ \A s \in Token \ {t} : refresh'[s] = refresh[s]
BY DEF StoreRefreshToken, TypeOK

\* The steps that write password_reset_tokens.
LEMMA ResetUntouched ==
    ASSUME [Next]_vars
    PROVE  \/ UNCHANGED reset \/ SweepReset \/ (\E w \in Worker : BumpAndCommit(w))
           \/ \E u \in User : RequestPasswordReset(u)
<1>1. ASSUME NEW w \in Worker, Arrive(w) \/ Abort(w) \/ DeadlockVictim(w) PROVE UNCHANGED reset
    BY <1>1 DEF Arrive, SignUp, SignIn, RefreshFind, SignOutFind, ResetFind, Abort, DeadlockVictim
<1>2. ASSUME NEW w \in Worker, Step(w), ~BumpAndCommit(w) PROVE UNCHANGED reset
    BY <1>2 DEF Step, SignAccessToken, StoreRefreshToken, RefreshClaim, SignOutRevoke, Begin,
                ClaimReset, SetPassword, RevokeAll, LockRow
<1>3. ASSUME (\E u \in User : MarkEmailVerified(u)) \/ SweepRefresh \/ SweepFails \/ Tick
               \/ UNCHANGED vars
      PROVE  UNCHANGED reset
    BY <1>3 DEF MarkEmailVerified, SweepRefresh, SweepFails, Tick, vars
<1> QED BY <1>1, <1>2, <1>3 DEF Next

\* Only RequestPasswordReset inserts a reset row.
LEMMA ResetsKept ==
    ASSUME TypeOK, References, [Next]_vars, \A u \in User : ~RequestPasswordReset(u)
    PROVE  \A r \in ResetToken :
             /\ reset'[r].user = reset[r].user
             /\ reset'[r].status = "none" <=> reset[r].status = "none"
<1> DEFINE Kept(r) == /\ reset'[r].user = reset[r].user
                      /\ reset'[r].status = "none" <=> reset[r].status = "none"
<1>1. CASE UNCHANGED reset
    BY <1>1
<1>2. ASSUME NEW w \in Worker, BumpAndCommit(w) PROVE \A r \in ResetToken : Kept(r)
    <2>1. CASE req[w].reset = None
        BY <1>1, <1>2, <2>1 DEF BumpAndCommit
    <2>2. CASE req[w].reset # None
        <3>1. /\ req[w].reset \in ResetToken
              /\ reset[req[w].reset].status # "none"
            BY <2>2 DEF TypeOK, Request, References
        <3> SUFFICES ASSUME NEW r \in ResetToken PROVE Kept(r)
            OBVIOUS
        <3>2. reset[r] \in ResetRow
            BY DEF TypeOK
        <3>3. \/ reset'[r] = reset[r]
              \/ r = req[w].reset /\ reset'[r] = [reset[r] EXCEPT !.status = "used", !.uses = @ + 1]
            BY <1>2, <2>2, <3>1, <3>2 DEF BumpAndCommit, TypeOK
        <3> QED BY <3>1, <3>2, <3>3 DEF ResetRow
    <2> QED BY <2>1, <2>2
<1>3. CASE SweepReset
    <2> SUFFICES ASSUME NEW r \in ResetToken PROVE Kept(r)
        OBVIOUS
    <2>1. reset[r] \in ResetRow
        BY DEF TypeOK
    <2>2. \/ reset'[r] = reset[r]
          \/ /\ reset[r].status \in {"fresh", "used"}
             /\ reset'[r] = [reset[r] EXCEPT !.status = "swept"]
        BY <1>3 DEF SweepReset
    <2> QED BY <2>1, <2>2 DEF ResetRow
<1> QED BY <1>1, <1>2, <1>3, ResetUntouched

-----------------------------------------------------------------------------
(* References *)

LEMMA ReferencesNext ==
    ASSUME TypeOK, References, [Next]_vars
    PROVE  References'
<1>1. TypeOK'
    BY TypeNext
<1>2. \A t \in Token : Issued(t) => Issued(t)'
    <2>1. ASSUME NEW w \in Worker, StoreRefreshToken(w)
          PROVE  \A t \in Token : Issued(t) => Issued(t)'
        BY <2>1, StoreEffect DEF Issued
    <2> QED BY <2>1, RowsKept DEF RowKept
<1>3. ASSUME NEW t \in Token, Issued(t)'
      PROVE  (refresh[t].user \in User /\ refresh[t].family \in Token /\ Issued(refresh[t].family))'
    <2>1. ASSUME NEW w \in Worker, StoreRefreshToken(w)
          PROVE  (refresh[t].user \in User /\ refresh[t].family \in Token /\ Issued(refresh[t].family))'
        <3>1. PICK s \in Token :
                 /\ ~Issued(s)
                 /\ refresh'[s].user = req[w].user /\ refresh'[s].family = FamilyOf(w, s)
                 /\ refresh'[s].status = "live"
                 /\ \A x \in Token \ {s} : refresh'[x] = refresh[x]
            BY <2>1, StoreEffect
        <3>2. req[w].user \in User
            BY <2>1 DEF StoreRefreshToken, References
        <3>3. FamilyOf(w, s) \in Token /\ (FamilyOf(w, s) = s \/ Issued(FamilyOf(w, s)))
            BY DEF FamilyOf, References, TypeOK, Request
        <3>4. CASE t = s
            BY <1>2, <3>1, <3>2, <3>3, <3>4 DEF Issued
        <3>5. CASE t # s
            BY <1>2, <1>3, <3>1, <3>5 DEF Issued, References
        <3> QED BY <3>4, <3>5
    <2>2. CASE \A w \in Worker : ~StoreRefreshToken(w)
        <3>1. RowKept(t) /\ Issued(t)
            BY <1>3, <2>2, RowsKept DEF RowKept
        <3>2. refresh[t].user \in User /\ refresh[t].family \in Token /\ Issued(refresh[t].family)
            BY <3>1 DEF References
        <3> QED BY <1>2, <3>1, <3>2 DEF RowKept, Issued
    <2> QED BY <2>1, <2>2
<1>4. ASSUME NEW r \in ResetToken, reset'[r].status # "none" PROVE reset'[r].user \in User
    <2>1. ASSUME NEW u \in User, RequestPasswordReset(u) PROVE reset'[r].user \in User
        BY <1>4, <2>1 DEF RequestPasswordReset, References, TypeOK
    <2> QED BY <1>4, <2>1, ResetsKept DEF References
<1>5. \A r \in ResetToken : reset[r].status # "none" => reset'[r].status # "none"
    <2>1. ASSUME NEW u \in User, RequestPasswordReset(u)
          PROVE  \A r \in ResetToken : reset[r].status # "none" => reset'[r].status # "none"
        BY <2>1 DEF RequestPasswordReset, TypeOK
    <2> QED BY <2>1, ResetsKept
<1>6. ASSUME NEW v \in Worker
      PROVE  /\ req'[v].token # None => Issued(req'[v].token)
             /\ req'[v].reset # None => reset[req'[v].reset].status # "none"
             /\ req'[v].stage \notin {"idle", "signOut"} => req'[v].user \in User
    <2> DEFINE Good == /\ req'[v].token # None => Issued(req'[v].token)
                       /\ req'[v].reset # None => reset[req'[v].reset].status # "none"
                       /\ req'[v].stage \notin {"idle", "signOut"} => req'[v].user \in User
    <2>1. RequestKept(v) => Good
        BY DEF RequestKept, References
    <2>2. RequestMoved(v) => Good
        BY DEF RequestMoved, Moves, References, Idle
    <2>3. UNCHANGED req => Good
        BY DEF References
    <2>4. ASSUME NEW w \in Worker, Arrive(w) PROVE Good
        <3>1. CASE v = w
            BY <2>4, <3>1, ArriveMoves
        <3>2. CASE v # w
            BY <2>1, <2>4, <3>2, ArriveMoves
        <3> QED BY <3>1, <3>2
    <2>5. ASSUME NEW w \in Worker, Step(w) \/ Abort(w) \/ DeadlockVictim(w) PROVE Good
        BY <2>1, <2>2, <2>5, StepMoves
    <2> HIDE DEF Good
    <2> QED BY <2>3, <2>4, <2>5, OthersKeepRequests DEF Next, Good
<1>7. ASSUME NEW v \in Worker
      PROVE  (/\ req[v].token # None => Issued(req[v].token)
              /\ req[v].reset # None => reset[req[v].reset].status # "none")'
    <2>1. /\ req'[v].token # None => req'[v].token \in Token
          /\ req'[v].reset # None => req'[v].reset \in ResetToken
        BY <1>1 DEF TypeOK, Request
    <2> QED BY <1>2, <1>5, <1>6, <2>1 DEF Issued
<1> QED BY <1>3, <1>4, <1>6, <1>7 DEF References

-----------------------------------------------------------------------------
(* Rotation chains *)

\* Only a claim that wins starts a rotation.
LEMMA RotatingKept ==
    ASSUME TypeOK, References, [Next]_vars, NEW v \in Worker, Rotating(v)',
           ~(RefreshClaim(v) /\ Claimable(req[v].token))
    PROVE  Rotating(v) /\ req'[v].token = req[v].token
<1> USE DEF Rotating
<1>1. CASE RequestKept(v)
    BY <1>1 DEF RequestKept
<1>2. CASE UNCHANGED req
    BY <1>2
<1>3. ASSUME NEW w \in Worker, Arrive(w) PROVE RequestKept(v)
    BY <1>3, ArriveMoves
<1>4. ASSUME NEW w \in Worker, Step(w) \/ Abort(w) \/ DeadlockVictim(w), v # w PROVE RequestKept(v)
    BY <1>4, StepMoves
<1>5. CASE Step(v) \/ Abort(v) \/ DeadlockVictim(v)
    <2>1. RequestMoved(v)
        BY <1>5, StepMoves
    <2>2. req'[v] # Idle
        BY DEF Idle
    <2>3. req[v].stage # "claim"
        <3>1. ASSUME req[v].stage = "claim" PROVE req'[v] = Idle
            <4>1. ~SignAccessToken(v) /\ ~StoreRefreshToken(v) /\ ~SignOutRevoke(v) /\ ~Begin(v)
                  /\ ~ClaimReset(v) /\ ~SetPassword(v) /\ ~RevokeAll(v) /\ ~LockRow(v) /\ ~BumpAndCommit(v)
                BY <3>1 DEF SignAccessToken, StoreRefreshToken, SignOutRevoke, Begin, ClaimReset,
                            SetPassword, RevokeAll, LockRow, BumpAndCommit
            <4>2. CASE RefreshClaim(v)
                BY <4>2, BecomeEffect DEF RefreshClaim, ClaimLost, Finish
            <4>3. CASE Abort(v) \/ DeadlockVictim(v)
                BY <4>3, BecomeEffect DEF Abort, DeadlockVictim, Finish
            <4> QED BY <1>5, <4>1, <4>2, <4>3 DEF Step
        <3> QED BY <2>2, <3>1
    <2> QED BY <2>1, <2>2, <2>3 DEF RequestMoved, Moves
<1> QED BY <1>1, <1>2, <1>3, <1>4, <1>5, OthersKeepRequests DEF Next

LEMMA ChainsNext ==
    ASSUME TypeOK, References, ChainsHaveOneHolder, [Next]_vars
    PROVE  ChainsHaveOneHolder'
<1>1. ASSUME NEW w \in Worker, StoreRefreshToken(w) PROVE ChainsHaveOneHolder'
    <2>1. PICK t \in Token :
             /\ ~Issued(t) /\ refresh'[t].family = FamilyOf(w, t)
             /\ \A s \in Token \ {t} : refresh'[s] = refresh[s]
        BY <1>1, StoreEffect
    <2>2. req'[w] = Idle
        BY <1>1, BecomeEffect DEF StoreRefreshToken, Finish
    <2>3. ASSUME NEW s \in Token \ {t}, Live(s)
          PROVE  refresh[s].family # FamilyOf(w, t)
        <3>1. CASE req[w].token = None
            BY <2>1, <2>3, <3>1 DEF FamilyOf, References, Issued, Live
        <3>2. CASE req[w].token # None
            BY <1>1, <2>3, <3>2 DEF FamilyOf, StoreRefreshToken, ChainsHaveOneHolder, Rotating, ChainOf
        <3> QED BY <3>1, <3>2
    <2>4. SingleLiveToken'
        BY <2>1, <2>3 DEF SingleLiveToken, Live, ChainsHaveOneHolder
    <2>5. ASSUME NEW v \in Worker, Rotating(v)'
          PROVE  v # w /\ Rotating(v) /\ req'[v].token = req[v].token
                 /\ ChainOf(v)' = ChainOf(v) /\ ChainOf(v) # FamilyOf(w, t)
        <3>1. v # w
            BY <2>2, <2>5 DEF Rotating, Idle
        <3>2. Rotating(v) /\ req'[v].token = req[v].token
            BY <1>1, <2>5, <3>1, BecomeEffect DEF StoreRefreshToken, Finish, Rotating
        <3>3. req[v].token \in Token /\ Issued(req[v].token)
            BY <3>2 DEF Rotating, References, TypeOK, Request
        <3>4. ChainOf(v)' = ChainOf(v) /\ Issued(ChainOf(v))
            BY <2>1, <3>2, <3>3 DEF ChainOf, References
        <3>5. CASE req[w].token = None
            BY <2>1, <3>1, <3>2, <3>4, <3>5 DEF FamilyOf
        <3>6. CASE req[w].token # None
            <4>1. Rotating(w) /\ FamilyOf(w, t) = ChainOf(w)
                BY <1>1, <3>6 DEF FamilyOf, ChainOf, Rotating, StoreRefreshToken
            <4> QED BY <3>1, <3>2, <3>4, <4>1 DEF ChainsHaveOneHolder
        <3> QED BY <3>1, <3>2, <3>4, <3>5, <3>6
    <2>6. ASSUME NEW v \in Worker, Rotating(v)', NEW s \in Token, Live(s)'
          PROVE  refresh'[s].family # ChainOf(v)'
        <3>1. CASE s = t
            BY <2>1, <2>5, <2>6, <3>1
        <3>2. CASE s # t
            BY <2>1, <2>5, <2>6, <3>2 DEF ChainsHaveOneHolder, Live
        <3> QED BY <3>1, <3>2
    <2>7. ASSUME NEW v \in Worker, Rotating(v)', NEW x \in Worker, Rotating(x)', ChainOf(x)' = ChainOf(v)'
          PROVE  x = v
        BY <2>5, <2>7 DEF ChainsHaveOneHolder
    <2> QED BY <2>4, <2>6, <2>7 DEF ChainsHaveOneHolder
<1>2. CASE \A w \in Worker : ~StoreRefreshToken(w)
    <2>1. \A t \in Token : RowKept(t)
        BY <1>2, RowsKept
    <2>2. SingleLiveToken'
        BY <2>1 DEF RowKept, SingleLiveToken, ChainsHaveOneHolder
    <2>3. ASSUME NEW v \in Worker, Rotating(v)' PROVE req'[v].token \in Token
        <3>1. TypeOK'
            BY TypeNext
        <3> QED BY <2>3, <3>1 DEF Rotating, TypeOK, Request
    <2>4. ASSUME NEW w \in Worker, RefreshClaim(w), Claimable(req[w].token)
          PROVE  ChainsHaveOneHolder'
        <3> DEFINE t == req[w].token
        <3>1. \A v \in Worker \ {w} : req'[v] = req[v]
            BY <2>4, BecomeEffect DEF RefreshClaim, Goto
        <3>2. req'[w].token = t
            BY <2>4, BecomeEffect DEF RefreshClaim, Goto, TypeOK, Request
        <3>3. t \in Token => refresh'[t].status = "revoked" /\ Live(t)
            <4>1. t \in Token => refresh[t] \in RefreshRow /\ refresh \in [Token -> RefreshRow]
                BY DEF TypeOK
            <4>2. Live(t) /\ refresh' = [refresh EXCEPT ![t].status = "revoked"]
                BY <2>4 DEF RefreshClaim, Claimable
            <4> QED BY <4>1, <4>2 DEF Live, RefreshRow
        <3>4. ASSUME NEW v \in Worker, Rotating(v)', NEW s \in Token, Live(s)'
              PROVE  refresh'[s].family # ChainOf(v)'
            <4>1. Live(s)
                BY <2>1, <3>4 DEF RowKept
            <4>2. ChainOf(v)' = refresh[req'[v].token].family
                BY <2>1, <2>3, <3>4 DEF RowKept, ChainOf
            <4>3. CASE v = w
                BY <2>1, <2>3, <3>2, <3>3, <3>4, <4>1, <4>2, <4>3
                   DEF RowKept, ChainsHaveOneHolder, SingleLiveToken, Live
            <4>4. CASE v # w
                BY <2>1, <3>1, <3>4, <4>1, <4>2, <4>4
                   DEF RowKept, ChainsHaveOneHolder, Rotating, ChainOf
            <4> QED BY <4>3, <4>4
        <3>5. ASSUME NEW v \in Worker \ {w}, Rotating(v)', Rotating(w)'
              PROVE  ChainOf(v)' # ChainOf(w)'
            <4>1. ChainOf(v)' = ChainOf(v) /\ Rotating(v)
                BY <2>1, <2>3, <3>1, <3>5 DEF RowKept, ChainOf, Rotating
            <4>2. ChainOf(w)' = refresh[t].family /\ Live(t) /\ t \in Token
                BY <2>1, <2>3, <3>2, <3>3, <3>5 DEF RowKept, ChainOf
            <4> QED BY <4>1, <4>2 DEF ChainsHaveOneHolder
        <3>6. ASSUME NEW v \in Worker \ {w}, Rotating(v)', NEW x \in Worker \ {w}, Rotating(x)',
                     ChainOf(x)' = ChainOf(v)'
              PROVE  x = v
            <4>1. /\ ChainOf(v)' = ChainOf(v) /\ Rotating(v)
                  /\ ChainOf(x)' = ChainOf(x) /\ Rotating(x)
                BY <2>1, <2>3, <3>1, <3>6 DEF RowKept, ChainOf, Rotating
            <4> QED BY <3>6, <4>1 DEF ChainsHaveOneHolder
        <3> QED BY <2>2, <3>4, <3>5, <3>6 DEF ChainsHaveOneHolder
    <2>5. CASE \A w \in Worker : ~(RefreshClaim(w) /\ Claimable(req[w].token))
        <3>1. ASSUME NEW v \in Worker, Rotating(v)'
              PROVE  Rotating(v) /\ ChainOf(v)' = ChainOf(v)
            <4>1. Rotating(v) /\ req'[v].token = req[v].token
                BY <2>5, <3>1, RotatingKept
            <4> QED BY <2>1, <2>3, <3>1, <4>1 DEF RowKept, ChainOf
        <3> QED BY <2>1, <2>2, <3>1 DEF RowKept, ChainsHaveOneHolder
    <2> QED BY <2>4, <2>5
<1> QED BY <1>1, <1>2

-----------------------------------------------------------------------------
(* Reset tokens *)

\* Only a claim that wins gives a transaction the reset row.
LEMMA HoldsResetKept ==
    ASSUME TypeOK, References, [Next]_vars, NEW v \in Worker, HoldsReset(v)',
           ~(ClaimReset(v) /\ ResetClaimable(req[v].reset))
    PROVE  HoldsReset(v) /\ req'[v].reset = req[v].reset
<1> USE DEF HoldsReset
<1>1. CASE RequestKept(v)
    BY <1>1 DEF RequestKept
<1>2. CASE UNCHANGED req
    BY <1>2
<1>3. ASSUME NEW w \in Worker, Arrive(w) PROVE RequestKept(v)
    BY <1>3, ArriveMoves
<1>4. ASSUME NEW w \in Worker, Step(w) \/ Abort(w) \/ DeadlockVictim(w), v # w PROVE RequestKept(v)
    BY <1>4, StepMoves
<1>5. CASE Step(v) \/ Abort(v) \/ DeadlockVictim(v)
    <2>1. RequestMoved(v)
        BY <1>5, StepMoves
    <2>2. req'[v] # Idle
        BY DEF Idle
    <2>3. ~Abort(v) /\ ~DeadlockVictim(v)
        BY <2>2, BecomeEffect DEF Abort, DeadlockVictim, Finish
    <2>4. req[v].stage # "begin"
        <3> SUFFICES ASSUME req[v].stage = "begin" PROVE FALSE
            OBVIOUS
        <3>1. Begin(v)
            BY <1>5, <2>3 DEF Step, SignAccessToken, StoreRefreshToken, RefreshClaim, SignOutRevoke,
                              ClaimReset, SetPassword, RevokeAll, LockRow, BumpAndCommit
        <3>2. req'[v].stage = "claimReset"
            <4>1. req[v].reset # None
                BY <2>1, <2>2 DEF RequestMoved
            <4>2. req[v] \in Request
                BY DEF TypeOK
            <4>3. req'[v] = [req[v] EXCEPT !.txStart = now,
                       !.stage = IF req[v].reset = None THEN "revokeAll" ELSE "claimReset"]
                BY <3>1, BecomeEffect DEF Begin
            <4> QED BY <4>1, <4>2, <4>3 DEF Request
        <3> QED BY <3>2
    <2>5. req[v].stage # "claimReset"
        <3> SUFFICES ASSUME req[v].stage = "claimReset" PROVE FALSE
            OBVIOUS
        <3>1. ClaimReset(v)
            BY <1>5, <2>3 DEF Step, SignAccessToken, StoreRefreshToken, RefreshClaim, SignOutRevoke,
                              Begin, SetPassword, RevokeAll, LockRow, BumpAndCommit
        <3> QED BY <2>2, <3>1, BecomeEffect DEF ClaimReset, ClaimLost, Finish
    <2> QED BY <2>1, <2>2, <2>4, <2>5 DEF RequestMoved, Moves
<1> QED BY <1>1, <1>2, <1>3, <1>4, <1>5, OthersKeepRequests DEF Next

LEMMA ResetsNext ==
    ASSUME TypeOK, References, ResetClaimsExclusive, [Next]_vars
    PROVE  ResetClaimsExclusive'
<1> DEFINE Holder(v) == HoldsReset(v) /\ req'[v].reset = req[v].reset
<1>0. ASSUME NEW v \in Worker, HoldsReset(v) PROVE req[v].reset \in ResetToken
    BY <1>0 DEF HoldsReset, TypeOK, Request
<1>1. \A r \in ResetToken : reset[r] \in ResetRow
    BY DEF TypeOK
<1>2. ASSUME \A v \in Worker : HoldsReset(v)' => Holder(v),
             \A v \in Worker : HoldsReset(v)' => reset'[req[v].reset] = reset[req[v].reset],
             ResetSingleUse'
      PROVE  ResetClaimsExclusive'
    BY <1>2 DEF ResetClaimsExclusive
<1>3. ASSUME NEW w \in Worker, ClaimReset(w), ResetClaimable(req[w].reset)
      PROVE  ResetClaimsExclusive'
    <2> DEFINE r == req[w].reset
    <2>1. /\ UNCHANGED reset /\ req'[w].reset = r
          /\ \A v \in Worker \ {w} : req'[v] = req[v]
        BY <1>3, BecomeEffect DEF ClaimReset, Goto, TypeOK, Request
    <2>2. reset[r].status = "fresh" /\ \A v \in Worker \ {w} : ~(HoldsReset(v) /\ req[v].reset = r)
        BY <1>3 DEF ClaimReset, ResetClaimable, ResetLocked
    <2>3. \A v \in Worker \ {w} : HoldsReset(v)' => Holder(v) /\ req[v].reset # r
        BY <2>1, <2>2 DEF HoldsReset
    <2> QED BY <2>1, <2>2, <2>3 DEF ResetClaimsExclusive, ResetSingleUse
<1>4. ASSUME NEW w \in Worker, BumpAndCommit(w) PROVE ResetClaimsExclusive'
    <2>1. req'[w] = Idle
        BY <1>4 DEF BumpAndCommit
    <2>2. \A v \in Worker : HoldsReset(v)' => Holder(v) /\ v # w
        BY <1>4, <2>1, StepMoves DEF Step, RequestKept, HoldsReset, Idle
    <2>3. CASE req[w].reset = None
        <3>1. UNCHANGED reset
            BY <1>4, <2>3 DEF BumpAndCommit
        <3> QED BY <1>2, <2>2, <3>1 DEF ResetClaimsExclusive, ResetSingleUse
    <2>4. CASE req[w].reset # None
        <3> DEFINE r == req[w].reset
        <3>1. HoldsReset(w)
            BY <1>4, <2>4 DEF BumpAndCommit, HoldsReset
        <3>2. reset[r].status = "fresh" /\ reset[r].uses = 0 /\ r \in ResetToken
            BY <1>0, <3>1 DEF ResetClaimsExclusive, ResetSingleUse
        <3>3. reset' = [reset EXCEPT ![r] = [reset[r] EXCEPT !.status = "used", !.uses = @ + 1]]
            BY <1>4, <2>4 DEF BumpAndCommit
        <3>4. /\ reset'[r].status = "used" /\ reset'[r].uses = 1
              /\ \A s \in ResetToken \ {r} : reset'[s] = reset[s]
            BY <1>1, <3>2, <3>3 DEF TypeOK, ResetRow
        <3>5. ResetSingleUse'
            BY <3>4 DEF ResetClaimsExclusive, ResetSingleUse
        <3>6. \A v \in Worker : HoldsReset(v)' => req[v].reset # r /\ req[v].reset \in ResetToken
            BY <1>0, <2>2, <3>1 DEF ResetClaimsExclusive
        <3> QED BY <1>2, <2>2, <3>4, <3>5, <3>6
    <2> QED BY <2>3, <2>4
<1>5. CASE SweepReset
    <2>1. ASSUME NEW r \in ResetToken
          PROVE  \/ reset'[r] = reset[r]
                 \/ /\ reset'[r].status = "swept" /\ reset'[r].uses = reset[r].uses
                    /\ \A w \in Worker : ~(HoldsReset(w) /\ req[w].reset = r)
        BY <1>1, <1>5 DEF SweepReset, ResetRow
    <2>2. UNCHANGED req
        BY <1>5, OthersKeepRequests
    <2>3. \A v \in Worker : HoldsReset(v)' => Holder(v)
        BY <2>2 DEF HoldsReset
    <2>4. ResetSingleUse'
        BY <2>1 DEF ResetClaimsExclusive, ResetSingleUse
    <2> QED BY <1>0, <1>2, <2>1, <2>3, <2>4
<1>6. ASSUME NEW u \in User, RequestPasswordReset(u) PROVE ResetClaimsExclusive'
    <2>1. PICK r \in ResetToken :
             /\ reset[r].status = "none"
             /\ reset' = [reset EXCEPT ![r] = [status |-> "fresh", user |-> u,
                                               expires |-> now + ResetTTL, uses |-> 0]]
        BY <1>6 DEF RequestPasswordReset
    <2>2. /\ reset'[r].status = "fresh" /\ reset'[r].uses = 0
          /\ \A s \in ResetToken \ {r} : reset'[s] = reset[s]
        BY <2>1 DEF TypeOK
    <2>3. UNCHANGED req
        BY <1>6, OthersKeepRequests
    <2>4. \A v \in Worker : HoldsReset(v)' => Holder(v)
        BY <2>3 DEF HoldsReset
    <2>5. ResetSingleUse'
        BY <2>2 DEF ResetClaimsExclusive, ResetSingleUse
    <2> QED BY <1>0, <1>2, <2>1, <2>2, <2>4, <2>5 DEF ResetClaimsExclusive
<1>7. CASE /\ \A w \in Worker : ~(ClaimReset(w) /\ ResetClaimable(req[w].reset))
           /\ UNCHANGED reset
    <2>1. \A v \in Worker : HoldsReset(v)' => Holder(v)
        BY <1>7, HoldsResetKept
    <2> QED BY <1>2, <1>7, <2>1 DEF ResetClaimsExclusive, ResetSingleUse
<1> QED BY <1>3, <1>4, <1>5, <1>6, <1>7, ResetUntouched

-----------------------------------------------------------------------------
(* Lockdowns *)

\* A lockdown under way has just taken its snapshot, has just locked a row, or
\* is as it was.
LEMMA LockStage ==
    ASSUME TypeOK, References, [Next]_vars, NEW v \in Worker, req'[v].stage = "lock"
    PROVE  RequestKept(v) \/ RevokeAll(v) \/ LockRow(v)
<1>1. UNCHANGED req => RequestKept(v)
    BY DEF RequestKept
<1>2. ASSUME NEW w \in Worker, Arrive(w) PROVE RequestKept(v)
    BY <1>2, ArriveMoves
<1>3. ASSUME NEW w \in Worker, Step(w) \/ Abort(w) \/ DeadlockVictim(w), v # w PROVE RequestKept(v)
    BY <1>3, StepMoves
<1>4. ASSUME Step(v) \/ Abort(v) \/ DeadlockVictim(v) PROVE RevokeAll(v) \/ LockRow(v)
    <2>1. req'[v] # Idle
        BY DEF Idle
    <2>2. req[v].stage \in {"revokeAll", "lock"}
        BY <1>4, <2>1, StepMoves DEF RequestMoved, Moves
    <2>3. ~Abort(v) /\ ~DeadlockVictim(v) /\ ~BumpAndCommit(v)
        BY <2>1, BecomeEffect DEF Abort, DeadlockVictim, Finish, BumpAndCommit
    <2> QED BY <1>4, <2>2, <2>3 DEF Step, SignAccessToken, StoreRefreshToken, RefreshClaim,
                SignOutRevoke, Begin, ClaimReset, SetPassword
<1> QED BY <1>1, <1>2, <1>3, <1>4, OthersKeepRequests DEF Next

\* What a commit does to one row.
LEMMA CommitEffect ==
    ASSUME TypeOK, NEW w \in Worker, BumpAndCommit(w), NEW t \in Token
    PROVE  \/ refresh[t].user # req[w].user /\ refresh'[t] = refresh[t]
           \/ /\ refresh[t].user = req[w].user
              /\ t \in req[w].held => ~Live(t)'
              /\ refresh'[t].outlived # {}
<1>1. refresh[t] \in RefreshRow
    BY DEF TypeOK
<1>2. CASE refresh[t].user # req[w].user
    BY <1>2 DEF BumpAndCommit
<1>3. CASE refresh[t].user = req[w].user
    <2>1. refresh'[t] = [refresh[t] EXCEPT !.outlived = @ \cup {KillOf(w)},
                 !.status = IF t \in req[w].held /\ Live(t) THEN "revoked" ELSE @]
        BY <1>3 DEF BumpAndCommit
    <2>2. refresh'[t].outlived = refresh[t].outlived \cup {KillOf(w)}
        BY <1>1, <2>1 DEF RefreshRow
    <2>3. refresh'[t].status = IF t \in req[w].held /\ Live(t) THEN "revoked" ELSE refresh[t].status
        BY <1>1, <2>1 DEF RefreshRow
    <2> QED BY <1>3, <2>2, <2>3 DEF Live
<1> QED BY <1>2, <1>3

\* Only an insert or a commit writes the history of a row.
LEMMA OutlivedKept ==
    ASSUME TypeOK, [Next]_vars,
           \A w \in Worker : ~StoreRefreshToken(w) /\ ~BumpAndCommit(w)
    PROVE  \A t \in Token : refresh'[t].outlived = refresh[t].outlived
<1> SUFFICES ASSUME NEW t \in Token PROVE refresh'[t].outlived = refresh[t].outlived
    OBVIOUS
<1>0. refresh[t] \in RefreshRow
    BY DEF TypeOK
<1>1. ASSUME NEW w \in Worker, RefreshClaim(w) \/ SignOutRevoke(w)
      PROVE  refresh'[t].outlived = refresh[t].outlived
    <2>1. \/ refresh' = refresh
          \/ refresh' = [refresh EXCEPT ![req[w].token].status = "revoked"]
        BY <1>1 DEF RefreshClaim, SignOutRevoke
    <2>2. refresh'[t] = refresh[t] \/ refresh'[t] = [refresh[t] EXCEPT !.status = "revoked"]
        BY <2>1 DEF TypeOK
    <2> QED BY <1>0, <2>2 DEF RefreshRow
<1>2. CASE SweepRefresh
    <2>1. refresh'[t] = refresh[t] \/ refresh'[t] = [refresh[t] EXCEPT !.status = "swept"]
        BY <1>2 DEF SweepRefresh
    <2> QED BY <1>0, <2>1 DEF RefreshRow
<1>3. ASSUME NEW w \in Worker, Arrive(w) \/ Abort(w) \/ DeadlockVictim(w) PROVE UNCHANGED refresh
    BY <1>3 DEF Arrive, SignUp, SignIn, RefreshFind, SignOutFind, ResetFind, Abort, DeadlockVictim
<1>4. ASSUME NEW w \in Worker, Step(w), ~RefreshClaim(w), ~SignOutRevoke(w)
      PROVE  UNCHANGED refresh
    BY <1>4 DEF Step, SignAccessToken, Begin, ClaimReset, SetPassword, RevokeAll, LockRow
<1>5. ASSUME \/ \E u \in User : MarkEmailVerified(u) \/ RequestPasswordReset(u)
             \/ SweepReset \/ SweepFails \/ Tick \/ UNCHANGED vars
      PROVE  UNCHANGED refresh
    BY <1>5 DEF MarkEmailVerified, RequestPasswordReset, SweepReset, SweepFails, Tick, vars
<1> QED BY <1>1, <1>2, <1>3, <1>4, <1>5 DEF Next

LEMMA LockdownNext ==
    ASSUME TypeOK, References, LockdownHasAll, [Next]_vars
    PROVE  LockdownHasAll'
<1>1. ASSUME NEW w \in Worker, StoreRefreshToken(w) PROVE LockdownHasAll'
    <2>1. PICK t \in Token :
             /\ refresh'[t].user = req[w].user
             /\ refresh'[t].raced = (req[w].outlived # {} \/ LockdownUnderWay(req[w].user))
             /\ refresh'[t].outlived = req[w].outlived
             /\ \A s \in Token \ {t} : refresh'[s] = refresh[s]
        BY <1>1, StoreEffect
    <2>2. LockdownKillsStored'
        BY <2>1 DEF LockdownHasAll, LockdownKillsStored, Live
    <2>3. ASSUME NEW v \in Worker, req'[v].stage = "lock"
          PROVE  RequestKept(v) /\ (req[v].user = req[w].user => refresh'[t].raced)
        <3>1. v # w
            BY <1>1, <2>3, BecomeEffect DEF StoreRefreshToken, Finish, Idle
        <3>2. RequestKept(v)
            BY <1>1, <3>1, StepMoves DEF Step
        <3>3. req[v].user = req[w].user => LockdownUnderWay(req[w].user)
            BY <2>3, <3>2 DEF LockdownUnderWay, RequestKept
        <3> QED BY <2>1, <3>2, <3>3
    <2>4. ASSUME NEW v \in Worker, req'[v].stage = "lock", NEW s \in Token, Live(s)',
                 refresh'[s].user = req'[v].user, ~refresh'[s].raced
          PROVE  s \in req'[v].todo \cup req'[v].held
        <3>1. RequestKept(v) /\ s # t
            <4>1. RequestKept(v)
                BY <2>3, <2>4
            <4>2. ASSUME s = t PROVE FALSE
                <5>1. req[v].user = req[w].user
                    BY <2>1, <2>4, <4>1, <4>2 DEF RequestKept
                <5>2. refresh'[t].raced
                    BY <2>3, <2>4, <5>1
                <5> QED BY <2>4, <4>2, <5>2
            <4> QED BY <4>1, <4>2
        <3> QED BY <2>1, <2>4, <3>1 DEF RequestKept, LockdownHasAll, Live
    <2> QED BY <2>2, <2>4 DEF LockdownHasAll
<1>2. CASE \A w \in Worker : ~StoreRefreshToken(w)
    <2>1. \A t \in Token : RowKept(t)
        BY <1>2, RowsKept
    <2>2. LockdownKillsStored'
        <3>1. ASSUME NEW w \in Worker, BumpAndCommit(w), NEW t \in Token, Live(t)', ~refresh'[t].raced
              PROVE  refresh'[t].outlived = {}
            <4>1. Live(t) /\ ~refresh[t].raced
                BY <2>1, <3>1 DEF RowKept
            <4>2. refresh[t].user = req[w].user => t \in req[w].held
                BY <3>1, <4>1 DEF LockdownHasAll, BumpAndCommit
            <4>3. refresh'[t] = refresh[t]
                BY <3>1, <4>2, CommitEffect
            <4> QED BY <4>1, <4>3 DEF LockdownHasAll, LockdownKillsStored
        <3>2. CASE \A w \in Worker : ~BumpAndCommit(w)
            BY <1>2, <2>1, <3>2, OutlivedKept DEF RowKept, LockdownHasAll, LockdownKillsStored
        <3> QED BY <3>1, <3>2 DEF LockdownKillsStored
    <2>3. ASSUME NEW v \in Worker, req'[v].stage = "lock", NEW t \in Token, Live(t)',
                 refresh'[t].user = req'[v].user, ~refresh'[t].raced
          PROVE  t \in req'[v].todo \cup req'[v].held
        <3>1. Live(t) /\ refresh[t].user = req'[v].user /\ ~refresh[t].raced
            BY <2>1, <2>3 DEF RowKept
        <3>2. req[v] \in Request
            BY DEF TypeOK
        <3>3. CASE RequestKept(v)
            BY <2>3, <3>1, <3>3 DEF RequestKept, LockdownHasAll
        <3>4. CASE RevokeAll(v)
            <4>1. req'[v].user = req[v].user /\ req'[v].todo = LiveTokensOf(req[v].user)
                <5>1. req'[v] = [req[v] EXCEPT !.stage = "lock", !.todo = Snapshot(v)]
                    BY <3>4, BecomeEffect DEF RevokeAll
                <5> QED BY <3>2, <5>1 DEF Snapshot, Request
            <4> QED BY <3>1, <4>1 DEF LiveTokensOf
        <3>5. CASE LockRow(v)
            <4>1. PICK s \in req[v].todo :
                    Become(v, [req[v] EXCEPT !.todo = @ \ {s},
                                             !.held = IF Stored(s) THEN @ \cup {s} ELSE @])
                BY <3>5 DEF LockRow
            <4>2. /\ req'[v].user = req[v].user /\ req'[v].todo = req[v].todo \ {s}
                  /\ req'[v].held = IF Stored(s) THEN req[v].held \cup {s} ELSE req[v].held
                <5>1. req'[v] = [req[v] EXCEPT !.todo = @ \ {s},
                                               !.held = IF Stored(s) THEN @ \cup {s} ELSE @]
                    BY <4>1, BecomeEffect
                <5> QED BY <3>2, <5>1 DEF Request
            <4>3. t \in req[v].todo \cup req[v].held
                BY <3>1, <3>5, <4>2 DEF LockRow, LockdownHasAll
            <4>4. Stored(t)
                BY <3>1 DEF Live, Stored
            <4> QED BY <4>2, <4>3, <4>4
        <3> QED BY <2>3, <3>3, <3>4, <3>5, LockStage
    <2> QED BY <2>2, <2>3 DEF LockdownHasAll
<1> QED BY <1>1, <1>2

-----------------------------------------------------------------------------
(* Watermarks *)

\* Only a commit writes a watermark.
LEMMA WatermarkKept ==
    ASSUME TypeOK, [Next]_vars, \A w \in Worker : ~BumpAndCommit(w), NEW u \in User
    PROVE  account'[u].validAfter = account[u].validAfter
<1>0. account[u] \in Account
    BY DEF TypeOK
<1>1. ASSUME NEW x \in User, NEW w \in Worker, SignUp(w, x)
      PROVE  account'[u].validAfter = account[u].validAfter
    <2>1. account'[u] = account[u] \/ account'[u] = [account[u] EXCEPT !.registered = TRUE]
        BY <1>1 DEF SignUp, TypeOK
    <2> QED BY <1>0, <2>1 DEF Account
<1>2. ASSUME NEW x \in User, MarkEmailVerified(x)
      PROVE  account'[u].validAfter = account[u].validAfter
    <2>1. account'[u] = account[u] \/ account'[u] = [account[u] EXCEPT !.verified = TRUE]
        BY <1>2 DEF MarkEmailVerified, TypeOK
    <2> QED BY <1>0, <2>1 DEF Account
<1>3. ASSUME NEW w \in Worker, Arrive(w) \/ Abort(w) \/ DeadlockVictim(w),
             \A x \in User : ~SignUp(w, x)
      PROVE  UNCHANGED account
    BY <1>3 DEF Arrive, SignIn, RefreshFind, SignOutFind, ResetFind, Abort, DeadlockVictim
<1>4. ASSUME NEW w \in Worker, Step(w) PROVE UNCHANGED account
    BY <1>4 DEF Step, SignAccessToken, StoreRefreshToken, RefreshClaim, SignOutRevoke, Begin,
                ClaimReset, SetPassword, RevokeAll, LockRow
<1>5. ASSUME (\E x \in User : RequestPasswordReset(x)) \/ SweepRefresh \/ SweepReset \/ SweepFails
               \/ Tick \/ UNCHANGED vars
      PROVE  UNCHANGED account
    BY <1>5 DEF RequestPasswordReset, SweepRefresh, SweepReset, SweepFails, Tick, vars
<1> QED BY <1>1, <1>2, <1>3, <1>4, <1>5 DEF Next

\* A commit writes the watermark of its own user only.
LEMMA CommitWatermark ==
    ASSUME TypeOK, NEW w \in Worker, BumpAndCommit(w), NEW u \in User
    PROVE  account'[u].validAfter =
             IF u = req[w].user THEN req[w].txStart ELSE account[u].validAfter
<1>1. account[u] \in Account
    BY DEF TypeOK
<1>2. account'[u] = IF u = req[w].user THEN [account[u] EXCEPT !.validAfter = req[w].txStart]
                    ELSE account[u]
    BY DEF BumpAndCommit, Watermark, TypeOK
<1> QED BY <1>1, <1>2 DEF Account

\* Time does not run backwards.
LEMMA TimePasses == ASSUME TypeOK, [Next]_vars PROVE now' \in Nat /\ now <= now'
<1>1. CASE Tick
    BY <1>1 DEF Tick, TypeOK
<1>2. CASE UNCHANGED now
    BY <1>2 DEF TypeOK
<1>3. ASSUME NEW w \in Worker, Arrive(w) \/ Abort(w) \/ DeadlockVictim(w) PROVE UNCHANGED now
    BY <1>3 DEF Arrive, SignUp, SignIn, RefreshFind, SignOutFind, ResetFind, Abort, DeadlockVictim
<1>4. ASSUME NEW w \in Worker, Step(w) PROVE UNCHANGED now
    BY <1>4 DEF Step, SignAccessToken, StoreRefreshToken, RefreshClaim, SignOutRevoke, Begin,
                ClaimReset, SetPassword, RevokeAll, LockRow, BumpAndCommit
<1>5. ASSUME \/ \E u \in User : MarkEmailVerified(u) \/ RequestPasswordReset(u)
             \/ SweepRefresh \/ SweepReset \/ SweepFails \/ UNCHANGED vars
      PROVE  UNCHANGED now
    BY <1>5 DEF MarkEmailVerified, RequestPasswordReset, SweepRefresh, SweepReset, SweepFails, vars
<1> QED BY <1>1, <1>2, <1>3, <1>4, <1>5 DEF Next

\* No step but a commit touches the record of another request.
LEMMA OthersSame ==
    ASSUME TypeOK, NEW w \in Worker, ~BumpAndCommit(w),
           Arrive(w) \/ Step(w) \/ Abort(w) \/ DeadlockVictim(w)
    PROVE  \A v \in Worker \ {w} : req'[v] = req[v]
<1>1. CASE Arrive(w)
    BY <1>1, BecomeEffect DEF Arrive, SignUp, SignIn, RefreshFind, SignOutFind, ResetFind, Start
<1>2. CASE Abort(w) \/ DeadlockVictim(w)
    BY <1>2, BecomeEffect DEF Abort, DeadlockVictim, Finish
<1>3. CASE Step(w)
    BY <1>3, BecomeEffect DEF Step, SignAccessToken, StoreRefreshToken, RefreshClaim, SignOutRevoke,
       Begin, ClaimReset, SetPassword, RevokeAll, LockRow, Goto, Finish, ClaimLost
<1> QED BY <1>1, <1>2, <1>3

LEMMA WatermarksNext ==
    ASSUME TypeOK, References, WatermarksPast, [Next]_vars
    PROVE  WatermarksPast'
<1>0. TypeOK' /\ References'
    BY TypeNext, ReferencesNext
<1>1. now' \in Nat /\ now \in Nat /\ now <= now'
    BY TimePasses DEF TypeOK
<1>2. ASSUME NEW v \in Worker PROVE req'[v].txStart <= now'
    <2>1. req[v].txStart \in Nat /\ req[v].txStart <= now
        BY DEF TypeOK, Request, WatermarksPast
    <2>2. RequestKept(v) => req'[v].txStart <= now'
        BY <1>1, <2>1 DEF RequestKept
    <2>3. RequestMoved(v) => req'[v].txStart <= now'
        BY <1>1, <2>1 DEF RequestMoved, Idle
    <2>4. UNCHANGED req => req'[v].txStart <= now'
        BY <1>1, <2>1
    <2>5. ASSUME NEW w \in Worker, Arrive(w) PROVE req'[v].txStart <= now'
        <3>1. CASE v = w
            BY <1>1, <2>5, <3>1, ArriveMoves
        <3>2. CASE v # w
            BY <2>2, <2>5, <3>2, ArriveMoves
        <3> QED BY <3>1, <3>2
    <2>6. ASSUME NEW w \in Worker, Step(w) \/ Abort(w) \/ DeadlockVictim(w)
          PROVE  req'[v].txStart <= now'
        BY <2>2, <2>3, <2>6, StepMoves
    <2> QED BY <2>4, <2>5, <2>6, OthersKeepRequests DEF Next
<1>3. ASSUME NEW u \in User PROVE account'[u].validAfter <= now'
    <2>1. account[u].validAfter \in Nat /\ account[u].validAfter <= now
        BY DEF TypeOK, Account, WatermarksPast
    <2>2. ASSUME NEW w \in Worker, BumpAndCommit(w) PROVE account'[u].validAfter <= now'
        <3>1. req[w].txStart \in Nat /\ req[w].txStart <= now
            BY DEF TypeOK, Request, WatermarksPast
        <3> QED BY <1>1, <2>1, <2>2, <3>1, CommitWatermark
    <2>3. CASE \A w \in Worker : ~BumpAndCommit(w)
        BY <1>1, <2>1, <2>3, WatermarkKept
    <2> QED BY <2>2, <2>3
<1>4. ASSUME NEW t \in Token, Issued(t)', refresh'[t].outlived = {}
      PROVE  account'[refresh'[t].user].validAfter <= refresh'[t].issuedAt
    <2>1. ASSUME NEW w \in Worker, BumpAndCommit(w)
          PROVE  account'[refresh'[t].user].validAfter <= refresh'[t].issuedAt
        <3>1. refresh[t].user # req[w].user /\ refresh'[t] = refresh[t]
            BY <1>4, <2>1, CommitEffect
        <3>2. Issued(t) /\ refresh[t].user \in User
            BY <1>4, <3>1 DEF Issued, References
        <3>3. account'[refresh[t].user].validAfter = account[refresh[t].user].validAfter
            BY <2>1, <3>1, <3>2, CommitWatermark
        <3> QED BY <1>4, <3>1, <3>2, <3>3 DEF WatermarksPast
    <2>2. CASE \A w \in Worker : ~BumpAndCommit(w)
        <3>1. refresh'[t].user \in User
            BY <1>0, <1>4 DEF References
        <3>2. account'[refresh'[t].user].validAfter = account[refresh'[t].user].validAfter
            BY <2>2, <3>1, WatermarkKept
        <3>3. ASSUME NEW w \in Worker, StoreRefreshToken(w)
              PROVE  account[refresh'[t].user].validAfter <= refresh'[t].issuedAt
            <4>1. PICK s \in Token :
                    /\ refresh'[s].user = req[w].user /\ refresh'[s].issuedAt = req[w].issuedAt
                    /\ refresh'[s].outlived = req[w].outlived
                    /\ \A x \in Token \ {s} : refresh'[x] = refresh[x]
                BY <3>3, StoreEffect
            <4>2. CASE t = s
                BY <1>4, <3>3, <4>1, <4>2 DEF StoreRefreshToken, WatermarksPast
            <4>3. CASE t # s
                BY <1>4, <4>1, <4>3 DEF Issued, WatermarksPast
            <4> QED BY <4>2, <4>3
        <3>4. CASE \A w \in Worker : ~StoreRefreshToken(w)
            <4>1. RowKept(t) /\ refresh'[t].outlived = refresh[t].outlived
                BY <2>2, <3>4, RowsKept, OutlivedKept
            <4>2. Issued(t) /\ refresh[t].outlived = {}
                BY <1>4, <4>1 DEF RowKept
            <4>3. account[refresh[t].user].validAfter <= refresh[t].issuedAt
                BY <4>2 DEF WatermarksPast
            <4> QED BY <3>2, <4>1, <4>3 DEF RowKept
        <3> QED BY <3>2, <3>3, <3>4
    <2> QED BY <2>1, <2>2
<1>5. ASSUME NEW v \in Worker, req'[v].stage = "store", req'[v].outlived = {}
      PROVE  account'[req'[v].user].validAfter <= req'[v].issuedAt
    <2>0. req'[v].user \in User /\ req[v] \in Request
        BY <1>0, <1>5 DEF References, TypeOK
    <2>1. ASSUME NEW w \in Worker, BumpAndCommit(w)
          PROVE  account'[req'[v].user].validAfter <= req'[v].issuedAt
        <3>1. v # w
            BY <1>5, <2>1 DEF BumpAndCommit, Idle
        <3>2. RequestKept(v)
            BY <2>1, <3>1, StepMoves DEF Step
        <3>3. req'[v] = IF Issuing(v) /\ req[v].user = req[w].user
                        THEN [req[v] EXCEPT !.outlived = @ \cup {KillOf(w)}] ELSE req[v]
            BY <2>1, <3>1 DEF BumpAndCommit
        <3>4. req[v].user # req[w].user
            <4>1. Issuing(v)
                BY <1>5, <3>2 DEF RequestKept, Issuing
            <4> QED BY <1>5, <2>0, <3>3, <4>1 DEF Request
        <3>5. req'[v] = req[v]
            BY <3>3, <3>4
        <3>6. account'[req[v].user].validAfter = account[req[v].user].validAfter
            BY <2>0, <2>1, <3>4, <3>5, CommitWatermark
        <3> QED BY <1>5, <3>5, <3>6 DEF WatermarksPast
    <2>2. CASE \A w \in Worker : ~BumpAndCommit(w)
        <3>1. account'[req'[v].user].validAfter = account[req'[v].user].validAfter
            BY <2>0, <2>2, WatermarkKept
        <3>2. CASE req'[v] = req[v]
            BY <1>5, <3>1, <3>2 DEF WatermarksPast
        <3>3. CASE SignAccessToken(v)
            <4>1. req'[v] = [req[v] EXCEPT !.stage = "store", !.issuedAt = now]
                BY <3>3, BecomeEffect DEF SignAccessToken
            <4>2. req'[v].issuedAt = now
                BY <2>0, <4>1 DEF Request
            <4> QED BY <2>0, <3>1, <4>2 DEF WatermarksPast
        <3>4. ASSUME NEW w \in Worker, Arrive(w) \/ Step(w) \/ Abort(w) \/ DeadlockVictim(w)
              PROVE  req'[v] = req[v] \/ SignAccessToken(v)
            <4>1. CASE v # w
                BY <2>2, <3>4, <4>1, OthersSame
            <4>2. CASE v = w /\ Arrive(w)
                BY <1>5, <4>2, ArriveMoves
            <4>3. CASE v = w /\ (Step(w) \/ Abort(w) \/ DeadlockVictim(w))
                <5>1. req'[v] # Idle
                    BY <1>5 DEF Idle
                <5>2. req[v].stage = "sign"
                    BY <1>5, <4>3, <5>1, StepMoves DEF RequestMoved, Moves
                <5>3. ~Abort(v) /\ ~DeadlockVictim(v)
                    BY <5>1, BecomeEffect DEF Abort, DeadlockVictim, Finish
                <5> QED BY <4>3, <5>2, <5>3 DEF Step, StoreRefreshToken, RefreshClaim, SignOutRevoke,
                           Begin, ClaimReset, SetPassword, RevokeAll, LockRow, BumpAndCommit
            <4> QED BY <3>4, <4>1, <4>2, <4>3
        <3> QED BY <3>2, <3>3, <3>4, OthersKeepRequests DEF Next
    <2> QED BY <2>1, <2>2
<1> QED BY <1>2, <1>3, <1>4, <1>5 DEF WatermarksPast

-----------------------------------------------------------------------------
(* The theorems *)

LEMMA InvariantInit == Init => IInv
<1> SUFFICES ASSUME Init PROVE IInv
    OBVIOUS
<1>1. TypeOK
    BY TypeInit
<1>2. \A w \in Worker : req[w] = Idle
    BY DEF Init
<1>3. \A t \in Token : refresh[t] = NoRefreshRow
    BY DEF Init
<1>4. \A r \in ResetToken : reset[r] = NoResetRow
    BY DEF Init
<1>5. References
    BY <1>2, <1>3, <1>4 DEF References, Issued, Idle, NoRefreshRow, NoResetRow
<1>6. ChainsHaveOneHolder
    BY <1>2, <1>3 DEF ChainsHaveOneHolder, SingleLiveToken, Live, Rotating, Idle, NoRefreshRow
<1>7. ResetClaimsExclusive
    BY <1>2, <1>4 DEF ResetClaimsExclusive, ResetSingleUse, HoldsReset, Idle, NoResetRow
<1>8. LockdownHasAll
    BY <1>2, <1>3 DEF LockdownHasAll, LockdownKillsStored, Live, Idle, NoRefreshRow
<1>9. WatermarksPast
    <2>1. now = 1 /\ \A u \in User : account[u].validAfter = 0
        BY DEF Init
    <2> QED BY <1>2, <1>3, <2>1 DEF WatermarksPast, Issued, Idle, NoRefreshRow
<1> QED BY <1>1, <1>5, <1>6, <1>7, <1>8, <1>9 DEF IInv

LEMMA InvariantNext == IInv /\ [Next]_vars => IInv'
BY TypeNext, ReferencesNext, ChainsNext, ResetsNext, LockdownNext, WatermarksNext DEF IInv

\* The inductive invariant holds in every reachable state.
THEOREM Invariance == Spec => []IInv
BY InvariantInit, InvariantNext, PTL DEF Spec

\* At most one token of a rotation chain is live, whatever the interleaving of
\* refreshes, sign-outs, lockdowns, failures and sweeps.
THEOREM ChainNeverForks == Spec => []SingleLiveToken
<1>1. IInv => SingleLiveToken
    BY DEF IInv, ChainsHaveOneHolder
<1> QED BY <1>1, Invariance, PTL

\* A reset link changes the password at most once.
THEOREM ResetOnce == Spec => []ResetSingleUse
<1>1. IInv => ResetSingleUse
    BY DEF IInv, ResetClaimsExclusive
<1> QED BY <1>1, Invariance, PTL

\* A committed lockdown leaves alive no session it could see.
THEOREM LockdownComplete == Spec => []LockdownKillsStored
<1>1. IInv => LockdownKillsStored
    BY DEF IInv, LockdownHasAll
<1> QED BY <1>1, Invariance, PTL

\* No watermark refuses a session that began after the lockdowns committed.
THEOREM WatermarkFair == Spec => []NewSessionAccepted
<1>1. IInv => NewSessionAccepted
    BY DEF IInv, TypeOK, References, WatermarksPast, NewSessionAccepted, AccessAccepted, RefreshRow, Account
<1> QED BY <1>1, Invariance, PTL
=============================================================================
