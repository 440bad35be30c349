------------------------------ MODULE Process ------------------------------
(***************************************************************************)
(* The life of the API process (cmd/api, internal/config, internal/db):    *)
(* it loads its configuration, opens the pool, serves, and ends by a       *)
(* signal or with its listener; meanwhile the handlers of requests and the *)
(* token janitor take connections from the pool, one for each statement.   *)
(*                                                                         *)
(* What the statements do is the business of the other modules.            *)
(***************************************************************************)
EXTENDS Integers, FiniteSets

CONSTANTS
    Request,      \* requests being handled at a time
    Janitor,      \* the token janitor
    Statements,   \* how many statements a handler may make
    MaxOpenConns,
    Env,          \* environments the process may be started in
    Second, Day,  \* in nanoseconds
    IntBound      \* Go's int64 holds -IntBound .. IntBound - 1

VARIABLES
    phase,    \* how far run is
    env,      \* the environment of the process
    config,   \* the two lifetimes of tokens
    server,   \* the goroutine of ListenAndServe
    signal,   \* SIGINT or SIGTERM waits in the channel
    expired,  \* the context of Shutdown ran out
    pool, inUse,  \* the pool, and its connections that are lent
    user      \* requests and the janitor

vars == <<phase, env, config, server, signal, expired, pool, inUse, user>>

User == Request \cup {Janitor}

\* Required variables are there or not; the two lifetimes are integers.
Environment == [DATABASE_URL: BOOLEAN, ACCESS_TOKEN_SECRET: BOOLEAN,
                BREVO_API_KEY: BOOLEAN, BREVO_API: BOOLEAN,
                ACCESS_TOKEN_TTL_SECONDS: Int, REFRESH_TOKEN_TTL_DAYS: Int]

ASSUME UserAssumption == IsFiniteSet(Request) /\ Janitor \notin Request
ASSUME ConstantAssumption ==
    /\ Env \subseteq Environment /\ Statements \subseteq Nat
    /\ MaxOpenConns \in Nat \ {0}
    /\ Second \in Nat /\ Day \in Nat /\ IntBound \in Nat \ {0}

TypeOK ==
    /\ phase \in {"load", "open", "start", "notify", "select", "shutdown", "close",
                  "cancel", "ended", "killed"}
    /\ env \in Env
    /\ config \in [access: Int, refresh: Int]
    /\ server \in {"off", "binding", "up", "failed", "closed"}
    /\ signal \in BOOLEAN /\ expired \in BOOLEAN
    /\ pool \in {"none", "open", "closed"}
    /\ inUse \in 0 .. MaxOpenConns
    /\ user \in [User -> [stage: {"none", "run", "wait", "hold", "cut"}, left: Nat, conns: 0 .. 1]]

NoUser == [stage |-> "none", left |-> 0, conns |-> 0]

Init ==
    /\ phase = "load" /\ env \in Env /\ config = [access |-> 0, refresh |-> 0]
    /\ server = "off" /\ signal = FALSE /\ expired = FALSE
    /\ pool = "none" /\ inUse = 0
    /\ user = [u \in User |-> NoUser]

Alive == phase \notin {"ended", "killed"}
At(u, stage) == user[u].stage = stage
Active(u) == user[u].stage \in {"run", "wait", "hold"}

\* With the process its goroutines end.
Cut == [u \in User |-> IF Active(u) THEN [user[u] EXCEPT !.stage = "cut"] ELSE user[u]]
Ends(p) == phase' = p /\ user' = Cut

-----------------------------------------------------------------------------
(* Start *)

Wrap(n) == ((n + IntBound) % (2 * IntBound)) - IntBound
AccessTokenTTL == Wrap(env.ACCESS_TOKEN_TTL_SECONDS * Second)
RefreshTokenTTL == Wrap(env.REFRESH_TOKEN_TTL_DAYS * Day)

\* Mutant: the numbers are checked before they are multiplied.
ValidNumbers == env.ACCESS_TOKEN_TTL_SECONDS > 0 /\ env.REFRESH_TOKEN_TTL_DAYS > 0

ValidTTLs == AccessTokenTTL > 0 /\ RefreshTokenTTL > 0

Loads ==
    /\ env.DATABASE_URL /\ env.ACCESS_TOKEN_SECRET
    /\ ValidTTLs
    /\ env.BREVO_API_KEY \/ env.BREVO_API

Load ==
    /\ phase = "load"
    /\ IF Loads
       THEN phase' = "open" /\ config' = [access |-> AccessTokenTTL, refresh |-> RefreshTokenTTL]
       ELSE phase' = "ended" /\ UNCHANGED config
    /\ UNCHANGED <<env, server, signal, expired, pool, inUse, user>>

\* The ping fails, or not within 20 seconds.
Open ==
    /\ phase = "open"
    /\ \/ phase' = "start" /\ pool' = "open"
       \/ phase' = "ended" /\ UNCHANGED pool
    /\ UNCHANGED <<env, config, server, signal, expired, inUse, user>>

\* The janitor and the server are started.
Serve ==
    /\ phase = "start"
    /\ phase' = "notify" /\ server' = "binding"
    /\ UNCHANGED <<env, config, signal, expired, pool, inUse, user>>

Notify ==
    /\ phase = "notify"
    /\ phase' = "select"
    /\ UNCHANGED <<env, config, server, signal, expired, pool, inUse, user>>

\* ListenAndServe binds, or it fails then or later.
Listen ==
    /\ Alive
    /\ \/ server = "binding" /\ server' \in {"up", "failed"}
       \/ server = "up" /\ server' = "failed"
    /\ UNCHANGED <<phase, env, config, signal, expired, pool, inUse, user>>

-----------------------------------------------------------------------------
(* End *)

\* Until Notify is called a signal kills; later ones than the first are dropped.
Signal ==
    /\ Alive
    /\ IF phase \in {"load", "open", "start", "notify"}
       THEN Ends("killed") /\ UNCHANGED signal
       ELSE ~signal /\ signal' = TRUE /\ UNCHANGED <<phase, user>>
    /\ UNCHANGED <<env, config, server, expired, pool, inUse>>

\* Mutant: the pool is closed before the server is shut down.
ClosesFirst == [select |-> "close", close |-> "shutdown", shutdown |-> "cancel",
                failed |-> "close", cancel |-> "ended"]

\* After the signal; "failed": after the listener.  Deferred calls run last
\* first: pool.Close, then cancel.
Order == [select |-> "shutdown", shutdown |-> "close", close |-> "cancel",
          failed |-> "close", cancel |-> "ended"]

\* Mutant: main waits for a signal only.
ServeErrIgnored == FALSE

ServeErr == server = "failed"

Select ==
    /\ phase = "select"
    /\ \/ ServeErr /\ phase' = Order["failed"] /\ UNCHANGED <<server, signal>>
       \/ /\ signal
          /\ phase' = Order["select"]
          /\ signal' = FALSE
          /\ server' = IF server = "failed" THEN server ELSE "closed"
    /\ UNCHANGED <<env, config, expired, pool, inUse, user>>

\* Mutant: Shutdown without a deadline.
DeadlineNever == FALSE

Deadline == TRUE

\* Shutdown ends when no request is left, or after ten seconds.
Shutdown ==
    /\ phase = "shutdown"
    /\ \/ (\A r \in Request : ~Active(r)) /\ UNCHANGED expired
       \/ (\E r \in Request : Active(r)) /\ Deadline /\ expired' = TRUE
    /\ phase' = Order[phase]
    /\ UNCHANGED <<env, config, server, signal, pool, inUse, user>>

\* Statements under way are not waited for.
Close ==
    /\ phase = "close"
    /\ pool' = "closed"
    /\ phase' = Order[phase]
    /\ UNCHANGED <<env, config, server, signal, expired, inUse, user>>

\* cancel, and main returns.
Exit ==
    /\ phase = "cancel"
    /\ Ends(Order[phase])
    /\ UNCHANGED <<env, config, server, signal, expired, pool, inUse>>

-----------------------------------------------------------------------------
(* Requests, the janitor and the pool *)

UsesPool(u, stage, left, conns, lent) ==
    /\ user' = [user EXCEPT ![u] = [stage |-> stage, left |-> left, conns |-> conns]]
    /\ inUse' = lent
    /\ UNCHANGED <<phase, env, config, server, signal, expired, pool>>

Accept(r) ==
    /\ Alive /\ server = "up" /\ At(r, "none")
    /\ \E n \in Statements : UsesPool(r, "run", n, 0, inUse)

\* DeleteExpiredSessions: two statements.
Tick ==
    /\ Alive /\ phase \notin {"load", "open", "start"} /\ At(Janitor, "none")
    /\ UsesPool(Janitor, "run", 2, 0, inUse)

Free == inUse < MaxOpenConns

\* database/sql hands a connection that comes back to one that waits.
Query(u) ==
    LET held == user[u].conns IN
    /\ At(u, "run") /\ user[u].left > 0
    /\ IF pool = "closed" THEN UsesPool(u, "run", 0, 0, inUse - held)
       ELSE IF Free /\ \A o \in User : ~At(o, "wait")
            THEN UsesPool(u, "hold", user[u].left, held + 1, inUse + 1)
            ELSE UsesPool(u, "wait", user[u].left, held, inUse)

Granted(u) ==
    /\ At(u, "wait") /\ pool = "open" /\ Free
    /\ UsesPool(u, "hold", user[u].left, user[u].conns + 1, inUse + 1)

\* Those who wait when the pool is closed get an error.
Refused(u) ==
    /\ At(u, "wait") /\ pool = "closed"
    /\ UsesPool(u, "run", 0, 0, inUse - user[u].conns)

\* Mutant: rows stay open until the handler returns.
ReturnedAtEnd(u) == IF user[u].left = 1 THEN user[u].conns ELSE 0

\* Rows are read to their end before the next statement.
Returned(u) == user[u].conns

EndStatement(u) ==
    /\ At(u, "hold")
    /\ UsesPool(u, "run", user[u].left - 1, user[u].conns - Returned(u), inUse - Returned(u))

\* Mutant: rows are not closed on the way out.
GivenBackNever(u) == 0

\* defer rows.Close.
GivenBack(u) == user[u].conns

\* An error, a hang-up of the client or a panic: the handler makes no further
\* statement, and withRecover answers for a panic.
Fail(u) ==
    /\ Active(u) /\ user[u].left > 0
    /\ UsesPool(u, "run", 0, 0, inUse - GivenBack(u))

Answer(u) ==
    /\ At(u, "run") /\ user[u].left = 0
    /\ UsesPool(u, "none", 0, 0, inUse)

-----------------------------------------------------------------------------
Main == Load \/ Open \/ Serve \/ Notify \/ Select \/ Shutdown \/ Close \/ Exit

Proceed(u) == Query(u) \/ Refused(u) \/ Answer(u)

Next ==
    \/ Main \/ Listen \/ Signal \/ Tick
    \/ \E r \in Request : Accept(r)
    \/ \E u \in User : Proceed(u) \/ Granted(u) \/ EndStatement(u) \/ Fail(u)

\* main goes on whatever the requests do.
Spec == Init /\ [][Next]_vars /\ WF_vars(Main)

\* Statements end and handlers go on; one of those who wait is chosen at random,
\* so nobody is passed over forever.
HandlersGoOn ==
    \A u \in User : WF_vars(Proceed(u)) /\ WF_vars(EndStatement(u)) /\ SF_vars(Granted(u))

-----------------------------------------------------------------------------
(* Properties *)

\* A request is cut off, or finds the pool closed, only if Shutdown gave up on
\* it after ten seconds, the listener failed, or a signal came before Notify:
\* run waits for the requests before its deferred calls take the pool away.
RequestsWaitedFor ==
    \A r \in Request :
        At(r, "cut") \/ (Active(r) /\ pool = "closed")
            => expired \/ server = "failed" \/ phase = "killed"

\* A connection is lent to somebody who is in a statement, and nobody holds two:
\* errors, hang-ups and panics leave none behind (defer rows.Close, and rows
\* read to their end before AttachListMeta's next statement).
NoConnectionLost ==
    Alive => inUse = Cardinality({u \in User : At(u, "hold")})

\* Whatever multiplications did to the numbers that were configured, the
\* lifetimes in use are positive, and one whose product fits is the product: so
\* zero never gets past Load, and a negative number only if its product wraps.
InForce(ttl, product) ==
    ttl > 0 /\ (-IntBound <= product /\ product < IntBound => ttl = product)
TTLsAsConfigured ==
    phase \notin {"load", "ended", "killed"} =>
        /\ InForce(config.access, env.ACCESS_TOKEN_TTL_SECONDS * Second)
        /\ InForce(config.refresh, env.REFRESH_TOKEN_TTL_DAYS * Day)

\* If statements end, every request ends, however many more there are than
\* connections: no handler waits for a connection while it holds one.
RequestsServed == HandlersGoOn => \A r \in Request : Active(r) ~> ~Active(r)

\* A signal ends the process though requests may hang.
SignalEnds == signal ~> ~Alive

\* "a bind failure must end the process instead of leaving it waiting on a
\* signal forever".
BindFailureEnds == server = "failed" ~> ~Alive
=============================================================================
