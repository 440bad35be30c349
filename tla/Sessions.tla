------------------------------ MODULE Sessions ------------------------------
(***************************************************************************)
(* Login sessions of the EasyRent API (internal/auth): refresh-token       *)
(* rotation with reuse detection, sign-in, sign-out, password reset, the   *)
(* access-token watermark, and the janitor that sweeps expired rows.       *)
(*                                                                         *)
(* Every HTTP request is a Worker.  A request is a sequence of statements  *)
(* on Postgres (READ COMMITTED); each autocommitted statement is one       *)
(* action, and the two multi-statement transactions (RevokeAllUserTokens   *)
(* and CompletePasswordReset) take one action per blocking statement, hold *)
(* their row locks in between, and become visible at commit.  Work that    *)
(* touches no shared state is merged with the statement before it.  A      *)
(* request that is refused without changing anything is a stuttering step: *)
(* the early return is the guard of the action it would have reached.      *)
(***************************************************************************)
EXTENDS Naturals, FiniteSets

CONSTANTS
    User,        \* users.id, one account each
    Token,       \* refresh_tokens.id, standing for the raw token it hashes
    ResetToken,  \* password_reset_tokens.id
    Worker,      \* requests that may be in flight together
    None,        \* "no row"
    AccessTTL,   \* seconds in which an access token is accepted
    RefreshTTL, ResetTTL,  \* seconds after which a row is at its expiry
    MaxTime      \* bound on the clock

ASSUME TTLAssumption ==
    AccessTTL \in Nat /\ RefreshTTL \in Nat /\ ResetTTL \in Nat
ASSUME TimeAssumption == MaxTime \in Nat \ {0}
ASSUME NoneAssumption == None \notin User \cup Token \cup ResetToken

VARIABLES
    now,      \* the clock in whole seconds, read by the API and by Postgres
    account,  \* users rows: sign-up and verification flags, the watermark
    refresh,  \* refresh_tokens rows, each with the access token issued beside it
    reset,    \* password_reset_tokens rows
    req,      \* what each request in flight holds in its local variables
    janitor   \* which DELETE of the sweep comes next

vars == <<now, account, refresh, reset, req, janitor>>

-----------------------------------------------------------------------------
(* The data.  Fields after "history" record the past for the properties    *)
(* and guard nothing.                                                      *)

Kill == {"lockdown", "reset"}

\* validAfter = 0 is SQL NULL: the clock starts at 1.
Account == [registered: BOOLEAN, verified: BOOLEAN, validAfter: Nat]

\* "live" is revoked_at IS NULL; "swept" is a row the janitor deleted, kept so
\* that a random token value is never issued twice.
RefreshRow ==
    [status: {"none", "live", "revoked", "swept"},
     user: User \cup {None}, expires: Nat, issuedAt: Nat,
     \* history: the first token of the rotation chain; whether the row was
     \* inserted while a lockdown was under way; the kinds of lockdown that
     \* committed since the credentials behind it were read
     family: Token \cup {None}, raced: BOOLEAN, outlived: SUBSET Kill]

ResetRow ==
    [status: {"none", "fresh", "used", "swept"},
     user: User \cup {None}, expires: Nat,
     uses: Nat]   \* history: password changes committed with this token

Stage == {"idle", "claim", "sign", "store", "signOut",
          "begin", "claimReset", "setPassword", "revokeAll", "lock"}

Request ==
    [stage: Stage, user: User \cup {None}, token: Token \cup {None},
     reset: ResetToken \cup {None}, issuedAt: Nat, txStart: Nat,
     todo: SUBSET Token,       \* rows its revoke statement has yet to lock
     held: SUBSET Token,       \* rows its transaction has locked
     outlived: SUBSET Kill]    \* history, as in RefreshRow

NoRefreshRow == [status |-> "none", user |-> None, expires |-> 0, issuedAt |-> 0,
                 family |-> None, raced |-> FALSE, outlived |-> {}]
NoResetRow == [status |-> "none", user |-> None, expires |-> 0, uses |-> 0]
Idle == [stage |-> "idle", user |-> None, token |-> None, reset |-> None,
         issuedAt |-> 0, txStart |-> 0, todo |-> {}, held |-> {}, outlived |-> {}]

TypeOK ==
    /\ now \in Nat
    /\ account \in [User -> Account]
    /\ refresh \in [Token -> RefreshRow]
    /\ reset \in [ResetToken -> ResetRow]
    /\ req \in [Worker -> Request]
    /\ janitor \in {"refresh", "reset"}

-----------------------------------------------------------------------------
(* Rows and locks *)

Live(t) == refresh[t].status = "live"
Issued(t) == refresh[t].status # "none"
Stored(t) == refresh[t].status \in {"live", "revoked"}
Expired(row) == now > row.expires

\* What "UPDATE ... SET revoked_at = now() WHERE user_id = $1 AND revoked_at
\* IS NULL" selects.
LiveTokensOf(u) == {t \in Token : Live(t) /\ refresh[t].user = u}

\* CompletePasswordReset holds the reset row from its claim, and the users row
\* from its password update, until it commits or rolls back.
HoldsReset(w) == req[w].reset # None /\ req[w].stage \in {"setPassword", "revokeAll", "lock"}
HoldsUser(w) == req[w].reset # None /\ req[w].stage \in {"revokeAll", "lock"}

TokenLocked(w, t) == \E v \in Worker \ {w} : t \in req[v].held
ResetLocked(w, r) == \E v \in Worker \ {w} : HoldsReset(v) /\ req[v].reset = r
UserLocked(u) == \E v \in Worker : HoldsUser(v) /\ req[v].user = u

\* The revoke statement of a lockdown of u has taken its snapshot, and its
\* transaction has not ended.
LockdownUnderWay(u) == \E v \in Worker : req[v].stage = "lock" /\ req[v].user = u

\* Bound of the model: a request that may insert a row starts only while a
\* token value is left for it.
Issuing(w) == req[w].stage \in {"claim", "sign", "store"}
TokenLeft == Cardinality({w \in Worker : Issuing(w)})
               < Cardinality({t \in Token : ~Issued(t)})

\* RequireAuth on the access token issued beside refresh row t.
AccessAccepted(t) ==
    /\ Issued(t)
    /\ now < refresh[t].issuedAt + AccessTTL
    /\ refresh[t].issuedAt >= account[refresh[t].user].validAfter

-----------------------------------------------------------------------------
Init ==
    /\ now = 1
    /\ account = [u \in User |-> [registered |-> FALSE, verified |-> FALSE, validAfter |-> 0]]
    /\ refresh = [t \in Token |-> NoRefreshRow]
    /\ reset = [r \in ResetToken |-> NoResetRow]
    /\ req = [w \in Worker |-> Idle]
    /\ janitor = "refresh"

Become(w, request) == req' = [req EXCEPT ![w] = request]
Goto(w, stage) == Become(w, [req[w] EXCEPT !.stage = stage])
Finish(w) == Become(w, Idle)

\* Mutant: ask again until the claim succeeds.
ClaimLostRetried(w) == UNCHANGED req

\* A lost claim (no row updated) ends the request with an error: no retry.
ClaimLost(w) == Finish(w)

Start(w, request) == req[w] = Idle /\ Become(w, request)

-----------------------------------------------------------------------------
(* Sign-up, e-mail verification and sign-in *)

\* SignUp up to its last call: the users row and its verification token are
\* stored, then issueTokens runs.  (Uniqueness and the token belong to the
\* account life cycle, abstracted here to one step.)
SignUp(w, u) ==
    /\ TokenLeft
    /\ ~account[u].registered
    /\ account' = [account EXCEPT ![u].registered = TRUE]
    /\ Start(w, [Idle EXCEPT !.stage = "sign", !.user = u])
    /\ UNCHANGED <<now, refresh, reset, janitor>>

MarkEmailVerified(u) ==
    /\ account[u].registered /\ ~account[u].verified
    /\ ~UserLocked(u)
    /\ account' = [account EXCEPT ![u].verified = TRUE]
    /\ UNCHANGED <<now, refresh, reset, req, janitor>>

\* SignIn reads the row, checks the password and the verified flag, and goes
\* on to issueTokens holding only what it read.
MaySignIn(u) == account[u].registered /\ account[u].verified
SignIn(w, u) ==
    /\ TokenLeft
    /\ MaySignIn(u)
    /\ Start(w, [Idle EXCEPT !.stage = "sign", !.user = u])
    /\ UNCHANGED <<now, account, refresh, reset, janitor>>

-----------------------------------------------------------------------------
(* issueTokens: mint the access token, then insert the refresh row *)

SignAccessToken(w) ==
    /\ req[w].stage = "sign"
    /\ Become(w, [req[w] EXCEPT !.stage = "store", !.issuedAt = now])
    /\ UNCHANGED <<now, account, refresh, reset, janitor>>

\* Rotation continues the chain of the token it claimed.
FamilyOf(w, t) == IF req[w].token = None THEN t ELSE refresh[req[w].token].family

StoreRefreshToken(w) ==
    /\ req[w].stage = "store"
    /\ \E t \in Token :
        /\ ~Issued(t)
        /\ refresh' = [refresh EXCEPT ![t] =
             [status |-> "live", user |-> req[w].user, expires |-> now + RefreshTTL,
              issuedAt |-> req[w].issuedAt,
              family |-> FamilyOf(w, t),
              raced |-> req[w].outlived # {} \/ LockdownUnderWay(req[w].user),
              outlived |-> req[w].outlived]]
    /\ Finish(w)
    /\ UNCHANGED <<now, account, reset, janitor>>

-----------------------------------------------------------------------------
(* Refresh: find, then claim; a revoked token starts a lockdown instead *)

RefreshFind(w, t) ==
    /\ Stored(t)
    /\ \/ /\ Live(t) /\ ~Expired(refresh[t])
          /\ TokenLeft
          /\ Start(w, [Idle EXCEPT !.stage = "claim", !.user = refresh[t].user, !.token = t])
       \/ /\ ~Live(t)
          /\ Start(w, [Idle EXCEPT !.stage = "begin", !.user = refresh[t].user])
    /\ UNCHANGED <<now, account, refresh, reset, janitor>>

\* Mutant: "AND revoked_at IS NULL" dropped.
ClaimableTwice(t) == Stored(t)

\* The WHERE clause of claimRefreshTokenQuery.
Claimable(t) == Live(t)
RefreshClaim(w) ==
    LET t == req[w].token IN
    /\ req[w].stage = "claim"
    /\ ~TokenLocked(w, t)
    /\ IF Claimable(t)
       THEN /\ refresh' = [refresh EXCEPT ![t].status = "revoked"]
            /\ Goto(w, "sign")
       ELSE ClaimLost(w) /\ UNCHANGED refresh
    /\ UNCHANGED <<now, account, reset, janitor>>

(* SignOut: find, then revoke unconditionally *)

SignOutFind(w, t) ==
    /\ Stored(t)
    /\ Start(w, [Idle EXCEPT !.stage = "signOut", !.token = t])
    /\ UNCHANGED <<now, account, refresh, reset, janitor>>

SignOutRevoke(w) ==
    LET t == req[w].token IN
    /\ req[w].stage = "signOut"
    /\ ~TokenLocked(w, t)
    /\ refresh' = IF Stored(t) THEN [refresh EXCEPT ![t].status = "revoked"] ELSE refresh
    /\ Finish(w)
    /\ UNCHANGED <<now, account, reset, janitor>>

-----------------------------------------------------------------------------
(* Password reset up to its transaction *)

RequestPasswordReset(u) ==
    /\ account[u].registered
    /\ \E r \in ResetToken :
        /\ reset[r].status = "none"
        /\ reset' = [reset EXCEPT ![r] = [status |-> "fresh", user |-> u,
                                          expires |-> now + ResetTTL, uses |-> 0]]
    /\ UNCHANGED <<now, account, refresh, req, janitor>>

ResetFind(w, r) ==
    /\ reset[r].status = "fresh" /\ ~Expired(reset[r])
    /\ Start(w, [Idle EXCEPT !.stage = "begin", !.user = reset[r].user, !.reset = r])
    /\ UNCHANGED <<now, account, refresh, reset, janitor>>

-----------------------------------------------------------------------------
(* The two transactions.  Both start with BEGIN, which fixes now(), and end *)
(* with revokeAllUserTokensQuery, bumpTokensValidAfterQuery and COMMIT.     *)

Begin(w) ==
    /\ req[w].stage = "begin"
    /\ Become(w, [req[w] EXCEPT !.txStart = now,
                    !.stage = IF req[w].reset = None THEN "revokeAll" ELSE "claimReset"])
    /\ UNCHANGED <<now, account, refresh, reset, janitor>>

\* Mutant: "AND used_at IS NULL" dropped.
ResetClaimableTwice(r) == reset[r].status \in {"fresh", "used"}

\* The WHERE clause of claimPasswordResetTokenQuery, on the committed row.
ResetClaimable(r) == reset[r].status = "fresh"
ClaimReset(w) ==
    LET r == req[w].reset IN
    /\ req[w].stage = "claimReset"
    /\ ~ResetLocked(w, r)
    /\ IF ResetClaimable(r) THEN Goto(w, "setPassword") ELSE ClaimLost(w)
    /\ UNCHANGED <<now, account, refresh, reset, janitor>>

SetPassword(w) ==
    /\ req[w].stage = "setPassword"
    /\ ~UserLocked(req[w].user)
    /\ Goto(w, "revokeAll")
    /\ UNCHANGED <<now, account, refresh, reset, janitor>>

\* Mutant: rows another transaction has locked are skipped.
SnapshotSkipLocked(w) == {t \in LiveTokensOf(req[w].user) : ~TokenLocked(w, t)}

Snapshot(w) == LiveTokensOf(req[w].user)

\* revokeAllUserTokensQuery takes its snapshot, then locks the rows of the
\* snapshot one by one, in the order the scan meets them, waiting for each.
\* A row inserted after the snapshot is not seen.
RevokeAll(w) ==
    /\ req[w].stage = "revokeAll"
    /\ Become(w, [req[w] EXCEPT !.stage = "lock", !.todo = Snapshot(w)])
    /\ UNCHANGED <<now, account, refresh, reset, janitor>>

LockRow(w) ==
    /\ req[w].stage = "lock"
    /\ \E t \in req[w].todo :
        /\ ~TokenLocked(w, t)
        /\ Become(w, [req[w] EXCEPT !.todo = @ \ {t},
                                    !.held = IF Stored(t) THEN @ \cup {t} ELSE @])
    /\ UNCHANGED <<now, account, refresh, reset, janitor>>

\* Mutants: a margin of two seconds; the second rounded up.
WatermarkBackdated(w) == req[w].txStart - 2
WatermarkRoundedUp(w) == req[w].txStart + 1

\* date_trunc('second', now()): now() is the start of the transaction.
Watermark(w) == req[w].txStart

KillOf(w) == IF req[w].reset = None THEN "lockdown" ELSE "reset"

\* The effects of the whole transaction, visible at once.
BumpAndCommit(w) ==
    LET u == req[w].user
        killed == {KillOf(w)}
    IN
    /\ req[w].stage = "lock" /\ req[w].todo = {}
    /\ HoldsUser(w) \/ ~UserLocked(u)
    /\ account' = [account EXCEPT ![u].validAfter = Watermark(w)]
    /\ refresh' = [t \in Token |->
         IF refresh[t].user # u THEN refresh[t]
         ELSE [refresh[t] EXCEPT !.outlived = @ \cup killed,
                                 !.status = IF t \in req[w].held /\ Live(t) THEN "revoked" ELSE @]]
    /\ reset' = IF req[w].reset = None THEN reset
                ELSE [reset EXCEPT ![req[w].reset].status = "used",
                                   ![req[w].reset].uses = @ + 1]
    /\ req' = [v \in Worker |->
         IF v = w THEN Idle
         ELSE IF Issuing(v) /\ req[v].user = u
              THEN [req[v] EXCEPT !.outlived = @ \cup killed]
              ELSE req[v]]
    /\ UNCHANGED <<now, janitor>>

-----------------------------------------------------------------------------
(* Failures, the janitor and time *)

\* A request stops at any point: a query fails, the client hangs up and its
\* context is cancelled, or the process dies.  Its transaction rolls back.
Abort(w) ==
    /\ req[w] # Idle
    /\ Finish(w)
    /\ UNCHANGED <<now, account, refresh, reset, janitor>>

\* w waits for a row that v has locked.  A reset holds the users row and wants
\* refresh rows; a lockdown takes them in the other order.
WaitsFor(w, v) ==
    /\ v # w /\ req[w].stage = "lock"
    /\ IF req[w].todo = {} THEN ~HoldsUser(w) /\ HoldsUser(v) /\ req[v].user = req[w].user
                           ELSE req[w].todo \cap req[v].held # {}

\* Postgres aborts one transaction of a cycle; the service returns its error.
DeadlockVictim(w) ==
    /\ \E S \in SUBSET Worker :
        /\ w \in S
        /\ \A v \in S : (\E x \in S : WaitsFor(v, x)) /\ (\E x \in S : WaitsFor(x, v))
    /\ Finish(w)
    /\ UNCHANGED <<now, account, refresh, reset, janitor>>

\* DeleteExpiredSessions: one DELETE per table, no transaction around them.
SweepRefresh ==
    LET expired == {t \in Token : Stored(t) /\ Expired(refresh[t])} IN
    /\ janitor = "refresh"
    /\ \A t \in expired, w \in Worker : t \notin req[w].held
    /\ refresh' = [t \in Token |-> IF t \in expired
                                   THEN [refresh[t] EXCEPT !.status = "swept"] ELSE refresh[t]]
    /\ janitor' = "reset"
    /\ UNCHANGED <<now, account, reset, req>>

SweepReset ==
    LET expired == {r \in ResetToken : reset[r].status \in {"fresh", "used"} /\ Expired(reset[r])} IN
    /\ janitor = "reset"
    /\ \A r \in expired, w \in Worker : ~(HoldsReset(w) /\ req[w].reset = r)
    /\ reset' = [r \in ResetToken |-> IF r \in expired
                                      THEN [reset[r] EXCEPT !.status = "swept"] ELSE reset[r]]
    /\ janitor' = "refresh"
    /\ UNCHANGED <<now, account, refresh, req>>

\* The first DELETE succeeded, the second failed or the process restarted.
SweepFails ==
    /\ janitor = "reset"
    /\ janitor' = "refresh"
    /\ UNCHANGED <<now, account, refresh, reset, req>>

Tick ==
    /\ now < MaxTime
    /\ now' = now + 1
    /\ UNCHANGED <<account, refresh, reset, req, janitor>>

-----------------------------------------------------------------------------
\* The next statement of a request that is under way.
Step(w) ==
    \/ SignAccessToken(w) \/ StoreRefreshToken(w)
    \/ RefreshClaim(w) \/ SignOutRevoke(w)
    \/ Begin(w) \/ ClaimReset(w) \/ SetPassword(w)
    \/ RevokeAll(w) \/ LockRow(w) \/ BumpAndCommit(w)

Arrive(w) ==
    \/ \E u \in User : SignUp(w, u) \/ SignIn(w, u)
    \/ \E t \in Token : RefreshFind(w, t) \/ SignOutFind(w, t)
    \/ \E r \in ResetToken : ResetFind(w, r)

Next ==
    \/ \E w \in Worker : Arrive(w) \/ Step(w) \/ Abort(w) \/ DeadlockVictim(w)
    \/ \E u \in User : MarkEmailVerified(u) \/ RequestPasswordReset(u)
    \/ SweepRefresh \/ SweepReset \/ SweepFails
    \/ Tick

Spec == Init /\ [][Next]_vars

\* A request that can take its next statement infinitely often takes it:
\* Postgres serves the waiters of a row lock in turn, and breaks deadlocks.
\* Nothing is assumed of clients, failures, the janitor or the clock.
Fairness == \A w \in Worker : SF_vars(Step(w)) /\ WF_vars(DeadlockVictim(w))
FairSpec == Spec /\ Fairness

-----------------------------------------------------------------------------
(* Properties that hold *)

\* A rotation chain never forks: whatever the interleaving of refreshes,
\* sign-outs, lockdowns and sweeps, at most one token of a chain can still be
\* exchanged ("concurrent rotations of the same token succeed exactly once",
\* ClaimRefreshToken).
SingleLiveToken ==
    \A s, t \in Token :
        Live(s) /\ Live(t) /\ refresh[s].family = refresh[t].family => s = t

\* A reset link changes the password at most once, even when two requests that
\* both found it fresh meet in their transactions, one of them is rolled back,
\* or the janitor runs in between (CompletePasswordReset).
ResetSingleUse ==
    \A r \in ResetToken : reset[r].uses <= 1 /\ (reset[r].status = "fresh" => reset[r].uses = 0)

\* A session that was in the table when a lockdown or a reset took its
\* snapshot, and whose credentials were read after the lockdown before it, is
\* dead once that transaction commits (RevokeAllUserTokens): no rotation,
\* sign-out, sweep, deadlock or failed lockdown in between saves it.  A row that
\* was inserted while a lockdown was under way is excused for good, also when
\* that lockdown is rolled back and a later one commits.
LockdownKillsStored ==
    \A t \in Token : Live(t) /\ ~refresh[t].raced => refresh[t].outlived = {}

\* The watermark refuses no access token of a session that began after the
\* last lockdown of its user committed, though now() is the start of a
\* transaction that may have waited long for its locks and watermarks may be
\* written out of order (bumpTokensValidAfterQuery, RequireAuth).  The clock of
\* the API's host, which dates the token, is taken to be that of Postgres,
\* which dates the watermark.
NewSessionAccepted ==
    \A t \in Token :
        Issued(t) /\ refresh[t].outlived = {} /\ now < refresh[t].issuedAt + AccessTTL
            => AccessAccepted(t)

\* Every request ends: none waits for ever for a row lock, though a reset and
\* a lockdown lock the users row and the refresh rows in opposite orders.
RequestsFinish == \A w \in Worker : req[w] # Idle ~> req[w] = Idle

-----------------------------------------------------------------------------
(* The inductive invariant behind the safety properties *)

\* Rows, requests and chains refer to rows that exist.
References ==
    /\ \A t \in Token : Issued(t) =>
        refresh[t].user \in User /\ refresh[t].family \in Token /\ Issued(refresh[t].family)
    /\ \A r \in ResetToken : reset[r].status # "none" => reset[r].user \in User
    /\ \A w \in Worker :
        /\ req[w].token # None => Issued(req[w].token)
        /\ req[w].reset # None => reset[req[w].reset].status # "none"
        /\ req[w].stage \notin {"idle", "signOut"} => req[w].user \in User

\* A rotation between its claim and its insert: the chain has no live token.
Rotating(w) == req[w].stage \in {"sign", "store"} /\ req[w].token # None
ChainOf(w) == refresh[req[w].token].family

ChainsHaveOneHolder ==
    /\ SingleLiveToken
    /\ \A w \in Worker : Rotating(w) =>
        /\ \A t \in Token : Live(t) => refresh[t].family # ChainOf(w)
        /\ \A v \in Worker : Rotating(v) /\ ChainOf(v) = ChainOf(w) => v = w

\* A reset transaction works on a fresh row that is its own.
ResetClaimsExclusive ==
    /\ ResetSingleUse
    /\ \A w \in Worker : HoldsReset(w) =>
        /\ reset[req[w].reset].status = "fresh"
        /\ \A v \in Worker : HoldsReset(v) /\ req[v].reset = req[w].reset => v = w

\* A lockdown under way has on its list, or locked, every row that must die.
LockdownHasAll ==
    /\ LockdownKillsStored
    /\ \A w \in Worker, t \in Token :
        req[w].stage = "lock" /\ Live(t) /\ refresh[t].user = req[w].user /\ ~refresh[t].raced
            => t \in req[w].todo \cup req[w].held

\* Watermarks lie in the past, and before what was minted since.
WatermarksPast ==
    /\ \A w \in Worker : req[w].txStart <= now
    /\ \A u \in User : account[u].validAfter <= now
    /\ \A t \in Token : Issued(t) /\ refresh[t].outlived = {} =>
        account[refresh[t].user].validAfter <= refresh[t].issuedAt
    /\ \A w \in Worker : req[w].stage = "store" /\ req[w].outlived = {} =>
        account[req[w].user].validAfter <= req[w].issuedAt

\* What every step preserves; each conjunct is stable beside TypeOK and References.
IInv ==
    /\ TypeOK /\ References
    /\ ChainsHaveOneHolder /\ ResetClaimsExclusive /\ LockdownHasAll /\ WatermarksPast

-----------------------------------------------------------------------------
(* The refinement: sessions as chains *)

IsHead(f) == Issued(f) /\ refresh[f].family = f
LiveIn(f) == {t \in Token : Live(t) /\ refresh[t].family = f}
InRotation(f) == \E w \in Worker : Rotating(w) /\ ChainOf(w) = f

ChainNow(f) ==
    [state |-> IF ~IsHead(f) THEN "none"
               ELSE IF InRotation(f) THEN "passing"
               ELSE IF LiveIn(f) # {} THEN "held" ELSE "closed",
     holder |-> IF IsHead(f) THEN LiveIn(f) ELSE {}]

Chains == INSTANCE SessionChains
            WITH chain <- [f \in Token |-> ChainNow(f)], used <- {t \in Token : Issued(t)}

\* The code implements SessionChains: a session passes from token to token,
\* never to two, and one that was signed out, locked, reset, swept or lost in a
\* failed refresh never comes back, whatever requests were still in flight.
ChainsSpec == Chains!Spec

-----------------------------------------------------------------------------
(* What the repository says and the code does not keep *)

\* service.go:260-262: "every refresh token of the user is revoked so stolen
\* sessions die with the old password": no session survives a reset.
ResetEndsSessions == \A t \in Token : Live(t) => "reset" \notin refresh[t].outlived

\* auth.go:27-29: tokens_valid_after is "the instant before which access
\* tokens are rejected", bumped when every session must die: a token rejected
\* once stays rejected.
RejectedStaysRejected ==
    [][\A t \in Token : Issued(t) /\ ~AccessAccepted(t) => ~AccessAccepted(t)']_vars
=============================================================================
