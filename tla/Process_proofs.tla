--------------------------- MODULE Process_proofs ---------------------------
(* However many requests, connections and environments there are: requests *)
(* are cut off only for the reasons that RequestsWaitedFor names, no        *)
(* connection is lost, and the lifetimes in use are those configured.       *)
EXTENDS Process, FiniteSetTheorems, TLAPS

USE UserAssumption, ConstantAssumption

Holders == {u \in User : At(u, "hold")}

\* A connection is held in a statement and at no other time.
ConnsWhenHeld ==
    \A u \in User : ~At(u, "cut") => user[u].conns = IF At(u, "hold") THEN 1 ELSE 0

\* Who waits or holds is in one of the statements that are left.
StatementsLeft == \A u \in User : user[u].stage \in {"wait", "hold"} => user[u].left > 0

\* Handlers run between the start of the server and the end of the process.
UsersInside ==
    /\ phase \in {"load", "open", "start"} => \A u \in User : user[u] = NoUser
    /\ Alive => \A u \in User : ~At(u, "cut")
    /\ ~Alive => \A u \in User : ~Active(u)

\* What run has done to the server and the pool when it is that far.
RunSoFar ==
    /\ phase \in {"load", "open", "start"} => server = "off"
    /\ phase \in {"notify", "select"} => server \in {"binding", "up", "failed"}
    /\ phase \in {"shutdown", "close", "cancel"} => server \in {"closed", "failed"}
    /\ pool = "closed" => phase \in {"cancel", "ended"}
    /\ phase \in {"close", "cancel"} =>
        expired \/ server = "failed" \/ \A r \in Request : ~Active(r)

IInv == TypeOK /\ ConnsWhenHeld /\ StatementsLeft /\ UsersInside /\ NoConnectionLost
            /\ RunSoFar /\ RequestsWaitedFor /\ TTLsAsConfigured

UserState == [stage: {"none", "run", "wait", "hold", "cut"}, left: Nat, conns: 0 .. 1]

-----------------------------------------------------------------------------
(* The pool *)

LEMMA UserFinite == IsFiniteSet(User)
BY FS_AddElement DEF User

LEMMA HoldersCount == IsFiniteSet(Holders) /\ Cardinality(Holders) \in Nat
BY UserFinite, FS_Subset, FS_CardinalityType DEF Holders

LEMMA WrapType == \A n \in Int : Wrap(n) \in Int
BY DEF Wrap

\* Go's int64 changes nothing that fits.
LEMMA WrapInForce == \A n \in Int : Wrap(n) > 0 => InForce(Wrap(n), n)
BY DEF Wrap, InForce

\* After Load nothing touches the configuration.
LEMMA TTLsKept ==
    ASSUME TTLsAsConfigured, UNCHANGED <<env, config>>,
           phase' = phase \/ (phase # "load" /\ Alive) \/ phase' \in {"load", "ended", "killed"}
    PROVE  TTLsAsConfigured'
BY DEF TTLsAsConfigured, Alive

\* One user takes a step with the pool.
LEMMA UsesPoolStep ==
    ASSUME TypeOK, ConnsWhenHeld, StatementsLeft, NoConnectionLost, Alive,
           NEW u \in User, NEW stage \in {"none", "run", "wait", "hold"}, NEW left \in Nat,
           NEW conns, NEW lent, UsesPool(u, stage, left, conns, lent),
           ~At(u, "cut"), stage \in {"wait", "hold"} => left > 0,
           conns = IF stage = "hold" THEN 1 ELSE 0,
           lent = inUse + conns - user[u].conns, lent <= MaxOpenConns
    PROVE  TypeOK' /\ ConnsWhenHeld' /\ StatementsLeft' /\ NoConnectionLost'
<1>1. /\ user[u] \in UserState
      /\ user[u].conns = IF At(u, "hold") THEN 1 ELSE 0
      /\ inUse = Cardinality(Holders) /\ inUse \in Nat
    BY DEF TypeOK, UserState, ConnsWhenHeld, NoConnectionLost, Holders
<1>2. /\ user'[u] = [stage |-> stage, left |-> left, conns |-> conns]
      /\ \A o \in User \ {u} : user'[o] = user[o]
      /\ user' \in [User -> UserState]
    <2>1. [stage |-> stage, left |-> left, conns |-> conns] \in UserState
        BY DEF UserState
    <2> QED BY <2>1 DEF UsesPool, TypeOK, UserState
<1>3. Holders' = IF stage = "hold" THEN Holders \cup {u} ELSE Holders \ {u}
    BY <1>2 DEF Holders, At
<1>4. u \in Holders <=> At(u, "hold")
    BY DEF Holders
<1>5. lent = Cardinality(Holders')
    <2>1. CASE stage = "hold"
        <3>1. Cardinality(Holders \cup {u}) = IF u \in Holders THEN inUse ELSE inUse + 1
            BY <1>1, HoldersCount, FS_AddElement
        <3> QED BY <2>1, <3>1, <1>1, <1>3, <1>4, HoldersCount
    <2>2. CASE stage # "hold"
        <3>1. Cardinality(Holders \ {u}) = IF u \in Holders THEN inUse - 1 ELSE inUse
            BY <1>1, HoldersCount, FS_RemoveElement
        <3> QED BY <2>2, <3>1, <1>1, <1>3, <1>4, HoldersCount
    <2> QED BY <2>1, <2>2
<1>6. NoConnectionLost'
    BY <1>5 DEF NoConnectionLost, UsesPool, Holders
<1>7. lent \in 0 .. MaxOpenConns
    <2>1. IsFiniteSet(Holders')
        BY <1>3, HoldersCount, FS_AddElement, FS_RemoveElement
    <2> QED BY <1>5, <2>1, FS_CardinalityType
<1>8. TypeOK'
    BY <1>2, <1>7 DEF TypeOK, UsesPool, UserState
<1>9. ConnsWhenHeld'
    BY <1>2 DEF ConnsWhenHeld, At
<1>10. StatementsLeft'
    BY <1>2 DEF StatementsLeft
<1> QED BY <1>6, <1>8, <1>9, <1>10

\* What a step with the pool does to one user, and to nothing else.
PoolStep(u) ==
    /\ UNCHANGED <<phase, env, config, server, signal, expired, pool>>
    /\ \A o \in User \ {u} : user'[o] = user[o]
    /\ ~At(u, "cut")' /\ (Active(u)' => Active(u) \/ (u \in Request /\ server = "up") \/ u = Janitor)
    /\ Alive /\ phase \notin {"load", "open", "start"}

LEMMA PoolMoves ==
    ASSUME IInv, NEW u \in User,
           \/ u \in Request /\ Accept(u)
           \/ u = Janitor /\ Tick
           \/ Proceed(u) \/ Granted(u) \/ EndStatement(u) \/ Fail(u)
    PROVE  TypeOK' /\ ConnsWhenHeld' /\ StatementsLeft' /\ NoConnectionLost' /\ PoolStep(u)
<1>1. /\ user[u] \in UserState /\ inUse \in 0 .. MaxOpenConns
      /\ ~At(u, "cut") => user[u].conns = IF At(u, "hold") THEN 1 ELSE 0
    BY DEF IInv, TypeOK, UserState, ConnsWhenHeld
<1>2. Alive /\ ~At(u, "cut") /\ phase \notin {"load", "open", "start"}
    <2>1. At(u, "none") \/ Active(u)
        BY DEF Accept, Tick, Proceed, Query, Refused, Answer, Granted, EndStatement, Fail, Active, At
    <2>2. CASE Active(u)
        BY <2>2 DEF IInv, UsersInside, Active, At, NoUser, Alive
    <2>3. CASE At(u, "none")
        BY <2>3 DEF IInv, UsersInside, RunSoFar, Accept, Tick, Proceed, Query, Refused, Answer,
                    Granted, EndStatement, Fail, Active, At, Alive
    <2> QED BY <2>1, <2>2, <2>3
<1>3. \E stage \in {"none", "run", "wait", "hold"}, left \in Nat :
        \E conns, lent :
            /\ UsesPool(u, stage, left, conns, lent)
            /\ conns = IF stage = "hold" THEN 1 ELSE 0
            /\ lent = inUse + conns - user[u].conns /\ lent <= MaxOpenConns
            /\ stage \in {"wait", "hold"} => left > 0
            /\ stage # "none" => Active(u) \/ (u \in Request /\ server = "up") \/ u = Janitor
    <2>1. CASE u \in Request /\ Accept(u)
        BY <2>1, <1>1, <1>2 DEF Accept, At, UserState
    <2>2. CASE u = Janitor /\ Tick
        BY <2>2, <1>1, <1>2 DEF Tick, At, UserState
    <2>3. CASE Query(u)
        BY <2>3, <1>1, <1>2 DEF Query, At, UserState, Free, Active
    <2>4. CASE Refused(u) \/ Answer(u)
        BY <2>4, <1>1, <1>2 DEF Refused, Answer, At, UserState, Active
    <2>5. CASE Granted(u)
        BY <2>5, <1>1, <1>2 DEF Granted, At, UserState, Free, Active, IInv, StatementsLeft
    <2>6. CASE EndStatement(u)
        <3>1. user[u].left - 1 \in Nat
            BY <2>6, <1>1 DEF IInv, StatementsLeft, EndStatement, At, UserState
        <3> QED BY <2>6, <3>1, <1>1, <1>2 DEF EndStatement, At, UserState, Returned, Active
    <2>7. CASE Fail(u)
        BY <2>7, <1>1, <1>2 DEF Fail, At, UserState, GivenBack, Active
    <2> QED BY <2>1, <2>2, <2>3, <2>4, <2>5, <2>6, <2>7 DEF Proceed
<1>4. PICK stage \in {"none", "run", "wait", "hold"}, left \in Nat :
        \E conns, lent :
            /\ UsesPool(u, stage, left, conns, lent)
            /\ conns = IF stage = "hold" THEN 1 ELSE 0
            /\ lent = inUse + conns - user[u].conns /\ lent <= MaxOpenConns
            /\ stage \in {"wait", "hold"} => left > 0
            /\ stage # "none" => Active(u) \/ (u \in Request /\ server = "up") \/ u = Janitor
    BY <1>3
<1>5. TypeOK' /\ ConnsWhenHeld' /\ StatementsLeft' /\ NoConnectionLost'
    BY <1>2, <1>4, UsesPoolStep DEF IInv
<1>6. PoolStep(u)
    BY <1>2, <1>4 DEF PoolStep, UsesPool, IInv, TypeOK, At, Active
<1> QED BY <1>5, <1>6

\* Requests and the janitor come and go where run is.
LEMMA PoolKeeps ==
    ASSUME IInv, NEW u \in User, PoolStep(u)
    PROVE  UsersInside' /\ RunSoFar' /\ RequestsWaitedFor' /\ TTLsAsConfigured'
<1>1. \A r \in Request : /\ Active(r)' => Active(r) \/ server = "up"
                         /\ At(r, "cut")' => At(r, "cut")
    BY DEF PoolStep, Active, At, User
<1>2. UsersInside'
    BY DEF PoolStep, IInv, UsersInside, Alive, Active, At, NoUser
<1>3. RunSoFar'
    BY <1>1 DEF PoolStep, IInv, RunSoFar
<1>4. RequestsWaitedFor'
    BY <1>1 DEF PoolStep, IInv, RunSoFar, RequestsWaitedFor, UsersInside, Alive
<1>5. TTLsAsConfigured'
    BY TTLsKept DEF PoolStep, IInv
<1> QED BY <1>2, <1>3, <1>4, <1>5

-----------------------------------------------------------------------------
(* Run *)

\* A step that leaves requests and pool alone.
LEMMA QuietKeeps ==
    ASSUME IInv, Alive, UNCHANGED <<inUse, user>>
    PROVE  ConnsWhenHeld' /\ StatementsLeft' /\ NoConnectionLost'
BY DEF IInv, ConnsWhenHeld, StatementsLeft, NoConnectionLost, At

\* The end cuts off who is still there.
LEMMA EndsKeeps ==
    ASSUME IInv, Alive, NEW p \in {"ended", "killed"}, Ends(p), UNCHANGED inUse
    PROVE  /\ user' \in [User -> UserState]
           /\ ConnsWhenHeld' /\ StatementsLeft' /\ NoConnectionLost' /\ UsersInside'
           /\ \A u \in User : At(u, "cut")' => Active(u)
<1>1. user \in [User -> UserState] /\ \A u \in User : ~At(u, "cut")
    BY DEF IInv, TypeOK, UserState, UsersInside
<1>2. user' = [u \in User |-> IF Active(u) THEN [user[u] EXCEPT !.stage = "cut"] ELSE user[u]]
    BY DEF Ends, Cut
<1>3. ASSUME NEW u \in User
      PROVE  /\ user'[u] \in UserState
             /\ user'[u].stage \notin {"run", "wait", "hold"}
             /\ user'[u].stage = "cut" <=> user[u].stage \in {"run", "wait", "hold"}
             /\ user'[u].stage # "cut" => user'[u] = user[u]
    <2>1. user[u] \in UserState /\ user[u].stage # "cut"
        BY <1>1 DEF At
    <2>2. CASE Active(u)
        <3>1. user'[u] = [user[u] EXCEPT !.stage = "cut"]
            BY <1>2, <2>2
        <3> QED BY <2>1, <2>2, <3>1 DEF UserState, Active
    <2>3. CASE ~Active(u)
        BY <1>2, <2>1, <2>3 DEF Active
    <2> QED BY <2>2, <2>3
<1>4. /\ user' \in [User -> UserState]
      /\ \A u \in User : ~Active(u)' /\ ~At(u, "hold")' /\ (At(u, "cut")' <=> Active(u))
    BY <1>2, <1>3 DEF Active, At
<1>5. ~Alive' /\ phase' \notin {"load", "open", "start"}
    BY DEF Ends, Alive
<1>6. ConnsWhenHeld' /\ StatementsLeft'
    BY <1>1, <1>3 DEF IInv, ConnsWhenHeld, StatementsLeft, At
<1>7. UsersInside' /\ NoConnectionLost'
    BY <1>4, <1>5 DEF UsersInside, NoConnectionLost
<1> QED BY <1>4, <1>6, <1>7

LEMMA MainKeeps ==
    ASSUME IInv, Main \/ Listen \/ Signal
    PROVE  IInv'
<1> USE DEF IInv
<1>1. CASE Load
    <2>1. AccessTokenTTL \in Int /\ RefreshTokenTTL \in Int
        <3>1. /\ env.ACCESS_TOKEN_TTL_SECONDS \in Int /\ env.REFRESH_TOKEN_TTL_DAYS \in Int
            BY DEF TypeOK, Environment
        <3>2. env.ACCESS_TOKEN_TTL_SECONDS * Second \in Int /\ env.REFRESH_TOKEN_TTL_DAYS * Day \in Int
            BY <3>1
        <3> QED BY <3>2, WrapType DEF AccessTokenTTL, RefreshTokenTTL
    <2>2. TypeOK'
        BY <1>1, <2>1 DEF TypeOK, Load
    <2>3. phase = "load" /\ phase' \in {"open", "ended"} /\ UNCHANGED <<server, expired, pool, inUse, user>>
        BY <1>1 DEF Load
    <2>4. ConnsWhenHeld' /\ StatementsLeft' /\ NoConnectionLost'
        BY <2>3, QuietKeeps DEF Alive
    <2>5. \A u \in User : user[u] = NoUser /\ user'[u] = NoUser /\ ~Active(u)' /\ ~At(u, "cut")'
        BY <2>3 DEF UsersInside, Active, At, NoUser
    <2>6. UsersInside' /\ RunSoFar' /\ RequestsWaitedFor'
        BY <2>3, <2>5 DEF UsersInside, RunSoFar, RequestsWaitedFor, User
    <2>7. TTLsAsConfigured'
        <3> DEFINE access == env.ACCESS_TOKEN_TTL_SECONDS * Second
                   refresh == env.REFRESH_TOKEN_TTL_DAYS * Day
        <3>1. access \in Int /\ refresh \in Int
            BY DEF IInv, TypeOK, Environment
        <3>2. phase' = "open" => /\ Wrap(access) > 0 /\ Wrap(refresh) > 0
                                 /\ config' = [access |-> Wrap(access), refresh |-> Wrap(refresh)]
            BY <1>1 DEF Load, Loads, ValidTTLs, AccessTokenTTL, RefreshTokenTTL
        <3>3. TTLsAsConfigured' \/ phase' = "open"
            BY <2>3 DEF TTLsAsConfigured
        <3>4. ASSUME phase' = "open"
              PROVE  InForce(config'.access, access) /\ InForce(config'.refresh, refresh)
            <4> HIDE DEF access, refresh
            <4> QED BY <3>1, <3>2, <3>4, WrapInForce
        <3>5. env' = env
            BY <1>1 DEF Load
        <3> QED BY <3>3, <3>4, <3>5 DEF TTLsAsConfigured
    <2> QED BY <2>2, <2>4, <2>6, <2>7
<1>2. CASE Open \/ Serve \/ Notify
    <2>1. TypeOK'
        BY <1>2 DEF TypeOK, Open, Serve, Notify
    <2>2. ConnsWhenHeld' /\ StatementsLeft' /\ NoConnectionLost'
        BY <1>2, QuietKeeps DEF Alive, Open, Serve, Notify
    <2>3. UsersInside' /\ RunSoFar' /\ RequestsWaitedFor'
        <3>1. CASE Open \/ Serve
            <4>1. \A u \in User : user[u] = NoUser /\ user'[u] = NoUser /\ ~Active(u)' /\ ~At(u, "cut")'
                BY <3>1 DEF UsersInside, Active, At, NoUser, Open, Serve
            <4> QED BY <3>1, <4>1 DEF UsersInside, RunSoFar, RequestsWaitedFor, User, Open, Serve
        <3>2. CASE Notify
            BY <3>2 DEF Notify, UsersInside, Alive, RunSoFar, RequestsWaitedFor, Active, At
        <3> QED BY <1>2, <3>1, <3>2
    <2>4. TTLsAsConfigured'
        BY <1>2, TTLsKept DEF Open, Serve, Notify, Alive
    <2> QED BY <2>1, <2>2, <2>3, <2>4
<1>3. CASE Listen
    <2>1. TypeOK'
        BY <1>3 DEF TypeOK, Listen
    <2>2. ConnsWhenHeld' /\ StatementsLeft' /\ NoConnectionLost'
        BY <1>3, QuietKeeps DEF Listen
    <2>3. UsersInside' /\ TTLsAsConfigured'
        BY <1>3, TTLsKept DEF Listen, UsersInside, Alive, Active, At
    <2>4. RunSoFar' /\ RequestsWaitedFor'
        BY <1>3 DEF Listen, RunSoFar, RequestsWaitedFor, Active, At
    <2> QED BY <2>1, <2>2, <2>3, <2>4
<1>4. CASE Signal
    <2>1. CASE phase \in {"load", "open", "start", "notify"}
        <3>1. Ends("killed") /\ Alive /\ UNCHANGED <<env, config, server, signal, expired, pool, inUse>>
            BY <1>4, <2>1 DEF Signal
        <3>2. /\ ConnsWhenHeld' /\ StatementsLeft' /\ NoConnectionLost' /\ UsersInside'
              /\ user' \in [User -> UserState] /\ phase' = "killed"
            BY <3>1, EndsKeeps DEF Ends
        <3>3. TypeOK'
            BY <3>1, <3>2 DEF TypeOK, UserState
        <3>4. RunSoFar' /\ RequestsWaitedFor' /\ TTLsAsConfigured'
            BY <2>1, <3>1, <3>2, TTLsKept DEF RunSoFar, RequestsWaitedFor
        <3> QED BY <3>2, <3>3, <3>4
    <2>2. CASE phase \notin {"load", "open", "start", "notify"}
        <3>1. signal' = TRUE /\ Alive /\ UNCHANGED <<phase, env, config, server, expired, pool, inUse, user>>
            BY <1>4, <2>2 DEF Signal
        <3>2. ConnsWhenHeld' /\ StatementsLeft' /\ NoConnectionLost'
            BY <3>1, QuietKeeps
        <3>3. TypeOK' /\ UsersInside'
            BY <3>1 DEF TypeOK, UsersInside, Alive, Active, At
        <3>4. RunSoFar' /\ RequestsWaitedFor' /\ TTLsAsConfigured'
            BY <3>1, TTLsKept DEF RunSoFar, RequestsWaitedFor, Active, At
        <3> QED BY <3>2, <3>3, <3>4
    <2> QED BY <2>1, <2>2
<1>5. CASE Select \/ Shutdown \/ Close
    <2>1. /\ Order["select"] = "shutdown" /\ Order["shutdown"] = "close"
          /\ Order["close"] = "cancel" /\ Order["failed"] = "close"
        BY DEF Order
    <2>2. Alive /\ Alive' /\ UNCHANGED <<env, config, inUse, user>> /\ phase # "load" /\ phase' \in {"shutdown", "close", "cancel"}
        BY <1>5, <2>1 DEF Select, Shutdown, Close, Alive
    <2>3. TypeOK'
        BY <1>5, <2>2 DEF TypeOK, Select, Shutdown, Close
    <2>4. ConnsWhenHeld' /\ StatementsLeft' /\ NoConnectionLost'
        BY <2>2, QuietKeeps
    <2>5. UsersInside' /\ TTLsAsConfigured'
        BY <2>2, TTLsKept DEF UsersInside, Alive, Active, At
    <2>6. RunSoFar' /\ RequestsWaitedFor'
        <3>1. CASE Select
            BY <2>1, <3>1 DEF Select, ServeErr, RunSoFar, RequestsWaitedFor, Active, At
        <3>2. CASE Shutdown
            BY <2>1, <3>2 DEF Shutdown, RunSoFar, RequestsWaitedFor, Active, At
        <3>3. CASE Close
            BY <2>1, <3>3 DEF Close, RunSoFar, RequestsWaitedFor, UsersInside, Alive, Active, At, User
        <3> QED BY <1>5, <3>1, <3>2, <3>3
    <2> QED BY <2>3, <2>4, <2>5, <2>6
<1>6. CASE Exit
    <2>1. Ends("ended") /\ phase = "cancel" /\ Alive
          /\ UNCHANGED <<env, config, server, signal, expired, pool, inUse>>
        BY <1>6 DEF Exit, Order, Alive
    <2>2. /\ ConnsWhenHeld' /\ StatementsLeft' /\ NoConnectionLost' /\ UsersInside'
          /\ user' \in [User -> UserState] /\ phase' = "ended"
          /\ \A u \in User : At(u, "cut")' => Active(u)
          /\ \A u \in User : ~Active(u)'
        BY <2>1, EndsKeeps DEF Ends, UsersInside, Alive
    <2>3. TypeOK'
        BY <2>1, <2>2 DEF TypeOK, UserState
    <2>4. RunSoFar' /\ RequestsWaitedFor' /\ TTLsAsConfigured'
        BY <2>1, <2>2, TTLsKept DEF RunSoFar, RequestsWaitedFor, User
    <2> QED BY <2>2, <2>3, <2>4
<1> QED BY <1>1, <1>2, <1>3, <1>4, <1>5, <1>6 DEF Main

-----------------------------------------------------------------------------
(* The theorems *)

LEMMA InitIInv == Init => IInv
<1> SUFFICES ASSUME Init PROVE IInv
    OBVIOUS
<1>1. \A u \in User : user[u] = NoUser /\ ~At(u, "hold") /\ ~At(u, "cut") /\ ~Active(u)
    BY DEF Init, NoUser, At, Active
<1>2. TypeOK
    <2>1. NoUser \in UserState
        BY DEF NoUser, UserState
    <2>2. user \in [User -> UserState] /\ inUse \in 0 .. MaxOpenConns
        BY <2>1 DEF Init
    <2>3. phase \in {"load"} /\ env \in Env /\ server = "off" /\ signal = FALSE
          /\ expired = FALSE /\ pool = "none" /\ config \in [access: Int, refresh: Int]
        BY DEF Init
    <2> QED BY <2>2, <2>3 DEF TypeOK, UserState
<1>3. ConnsWhenHeld /\ StatementsLeft /\ UsersInside
    BY <1>1 DEF ConnsWhenHeld, StatementsLeft, UsersInside, NoUser
<1>4. NoConnectionLost
    <2>1. {u \in User : At(u, "hold")} = {}
        BY <1>1
    <2> QED BY <2>1, FS_EmptySet DEF NoConnectionLost, Init
<1>5. RunSoFar /\ RequestsWaitedFor /\ TTLsAsConfigured
    BY <1>1 DEF Init, RunSoFar, RequestsWaitedFor, TTLsAsConfigured, User
<1> QED BY <1>2, <1>3, <1>4, <1>5 DEF IInv

LEMMA NextIInv == IInv /\ [Next]_vars => IInv'
<1> SUFFICES ASSUME IInv, [Next]_vars PROVE IInv'
    OBVIOUS
<1>1. ASSUME NEW u \in User,
             \/ u \in Request /\ Accept(u)
             \/ u = Janitor /\ Tick
             \/ Proceed(u) \/ Granted(u) \/ EndStatement(u) \/ Fail(u)
      PROVE  IInv'
    BY <1>1, PoolMoves, PoolKeeps DEF IInv
<1>2. CASE UNCHANGED vars
    BY <1>2 DEF vars, IInv, TypeOK, ConnsWhenHeld, StatementsLeft, UsersInside, NoConnectionLost,
                RunSoFar, RequestsWaitedFor, TTLsAsConfigured, Alive, Active, At
<1> QED BY <1>1, <1>2, MainKeeps DEF Next, User

\* The inductive invariant behind the other theorems.
THEOREM Invariant == Spec => []IInv
BY InitIInv, NextIInv, PTL DEF Spec

\* Every variable keeps its type, for any requests, pool and environments.
THEOREM TypeCorrect == Spec => []TypeOK
<1>1. IInv => TypeOK
    BY DEF IInv
<1> QED BY <1>1, Invariant, PTL

\* Requests are waited for, unless ten seconds, the listener or an early
\* signal ended them (run: Shutdown, then pool.Close).
THEOREM WaitsForRequests == Spec => []RequestsWaitedFor
<1>1. IInv => RequestsWaitedFor
    BY DEF IInv
<1> QED BY <1>1, Invariant, PTL

\* Lent connections are those of statements under way, whatever failed
\* (rows.Close in Store.list).
THEOREM ConnectionsReturn == Spec => []NoConnectionLost
<1>1. IInv => NoConnectionLost
    BY DEF IInv
<1> QED BY <1>1, Invariant, PTL

\* Lifetimes in use are positive, and the configured ones if they fit, for any
\* numbers and any width of int (Load).
THEOREM LifetimesConfigured == Spec => []TTLsAsConfigured
<1>1. IInv => TTLsAsConfigured
    BY DEF IInv
<1> QED BY <1>1, Invariant, PTL
=============================================================================
