------------------------ MODULE SessionChains_proofs ------------------------
(* Sessions implements SessionChains: its initial states map to the initial *)
(* state of the chains, and each of its steps to a step of a chain or none. *)
EXTENDS Sessions_proofs

\* The family of a token is the head of a chain.
FamiliesHaveHeads == \A t \in Token : Issued(t) => IsHead(refresh[t].family)

\* Rows keep their families, except for the one inserted.
LEMMA HeadsNext ==
    ASSUME TypeOK, References, FamiliesHaveHeads, [Next]_vars
    PROVE  FamiliesHaveHeads'
<1>1. ASSUME NEW w \in Worker, StoreRefreshToken(w) PROVE FamiliesHaveHeads'
    <2>1. PICK t \in Token :
             /\ ~Issued(t) /\ refresh'[t].status = "live" /\ refresh'[t].family = FamilyOf(w, t)
             /\ \A s \in Token \ {t} : refresh'[s] = refresh[s]
        BY <1>1, StoreEffect
    <2>2. PICK f \in Token : f = FamilyOf(w, t) /\ (f = t \/ IsHead(f))
        <3>1. CASE req[w].token = None
            BY <3>1 DEF FamilyOf
        <3>2. CASE req[w].token # None
            <4>1. req[w].token \in Token /\ Issued(req[w].token)
                BY <3>2 DEF TypeOK, Request, References
            <4> QED BY <3>2, <4>1 DEF FamilyOf, FamiliesHaveHeads, References
        <3> QED BY <3>1, <3>2
    <2>3. IsHead(f)'
        BY <2>1, <2>2 DEF IsHead, Issued
    <2> SUFFICES ASSUME NEW s \in Token, Issued(s)' PROVE IsHead(refresh[s].family)'
        BY DEF FamiliesHaveHeads
    <2>4. CASE s = t
        BY <2>1, <2>2, <2>3, <2>4 DEF IsHead, Issued
    <2>5. CASE s # t
        <3>1. Issued(s) /\ refresh'[s] = refresh[s]
            BY <2>1, <2>5 DEF Issued
        <3>2. PICK g \in Token : g = refresh[s].family /\ IsHead(g)
            BY <3>1 DEF FamiliesHaveHeads, References
        <3>3. IsHead(g)'
            BY <2>1, <3>2 DEF IsHead, Issued
        <3> QED BY <3>1, <3>2, <3>3 DEF IsHead, Issued
    <2> QED BY <2>4, <2>5
<1>2. ASSUME \A w \in Worker : ~StoreRefreshToken(w) PROVE FamiliesHaveHeads'
    <2>1. \A t \in Token : RowKept(t)
        BY <1>2, RowsKept
    <2> SUFFICES ASSUME NEW t \in Token, Issued(t)' PROVE IsHead(refresh[t].family)'
        BY DEF FamiliesHaveHeads
    <2>2. refresh[t].family \in Token /\ IsHead(refresh[t].family) /\ refresh'[t].family = refresh[t].family
        BY <2>1 DEF RowKept, FamiliesHaveHeads, References
    <2> QED BY <2>1, <2>2 DEF RowKept, IsHead
<1> QED BY <1>1, <1>2

\* A request about to claim knows which token.
ClaimsNameTokens == \A w \in Worker : req[w].stage = "claim" => req[w].token \in Token

LEMMA ClaimsNext ==
    ASSUME TypeOK, References, ClaimsNameTokens, [Next]_vars
    PROVE  ClaimsNameTokens'
<1> SUFFICES ASSUME NEW v \in Worker, req'[v].stage = "claim" PROVE req'[v].token \in Token
    BY DEF ClaimsNameTokens
<1>1. CASE RequestKept(v)
    BY <1>1 DEF RequestKept, ClaimsNameTokens
<1>2. CASE UNCHANGED req
    BY <1>2 DEF ClaimsNameTokens
<1>3. ASSUME NEW w \in Worker, Arrive(w), v # w PROVE RequestKept(v)
    BY <1>3, ArriveMoves
<1>4. ASSUME NEW w \in Worker, Step(w) \/ Abort(w) \/ DeadlockVictim(w), v # w PROVE RequestKept(v)
    BY <1>4, StepMoves
<1>5. CASE Step(v) \/ Abort(v) \/ DeadlockVictim(v)
    BY <1>5, StepMoves DEF RequestMoved, Moves, Idle
<1>6. CASE Arrive(v)
    <2>1. CASE \E u \in User : SignUp(v, u) \/ SignIn(v, u)
        <3>1. \E u \in User : req'[v] = [Idle EXCEPT !.stage = "sign", !.user = u]
            BY <2>1, BecomeEffect DEF SignUp, SignIn, Start
        <3> QED BY <3>1 DEF Idle
    <2>2. CASE \E r \in ResetToken : ResetFind(v, r)
        <3>1. \E r \in ResetToken :
                req'[v] = [Idle EXCEPT !.stage = "begin", !.user = reset[r].user, !.reset = r]
            BY <2>2, BecomeEffect DEF ResetFind, Start
        <3> QED BY <3>1 DEF Idle
    <2>3. CASE \E t \in Token : RefreshFind(v, t) \/ SignOutFind(v, t)
        <3>1. PICK t \in Token :
                req'[v] \in {[Idle EXCEPT !.stage = "claim", !.user = refresh[t].user, !.token = t],
                             [Idle EXCEPT !.stage = "begin", !.user = refresh[t].user],
                             [Idle EXCEPT !.stage = "signOut", !.token = t]}
            BY <2>3, BecomeEffect DEF RefreshFind, SignOutFind, Start
        <3> QED BY <3>1 DEF Idle
    <2> QED BY <1>6, <2>1, <2>2, <2>3 DEF Arrive
<1> QED BY <1>1, <1>2, <1>3, <1>4, <1>5, <1>6, OthersKeepRequests DEF Next

-----------------------------------------------------------------------------
(* The chains a step leaves alone *)

\* A chain in rotation holds no token; a chain held is held by one.
LEMMA ChainShape ==
    ASSUME References, ChainsHaveOneHolder, NEW f \in Token
    PROVE  /\ InRotation(f) => LiveIn(f) = {}
           /\ \A s, t \in LiveIn(f) : s = t
BY DEF InRotation, LiveIn, ChainsHaveOneHolder, SingleLiveToken

\* ChainNow depends on whether f is a head, in rotation, and on who holds it.
LEMMA ChainSame ==
    ASSUME NEW f \in Token,
           IsHead(f)' <=> IsHead(f), InRotation(f)' <=> InRotation(f), LiveIn(f)' = LiveIn(f)
    PROVE  ChainNow(f)' = ChainNow(f)
BY DEF ChainNow

\* A chain that loses its token or its rotation is closed.
LEMMA ChainLoses ==
    ASSUME References, ChainsHaveOneHolder, NEW f \in Token,
           IsHead(f)' <=> IsHead(f), InRotation(f)' => InRotation(f), LiveIn(f)' \subseteq LiveIn(f)
    PROVE  \/ ChainNow(f)' = ChainNow(f)
           \/ ChainNow(f).state \in {"held", "passing"} /\ ChainNow(f)' = Chains!Closed
<1>1. CASE (InRotation(f)' <=> InRotation(f)) /\ LiveIn(f)' = LiveIn(f)
    BY <1>1, ChainSame
<1>2. CASE InRotation(f) /\ ~InRotation(f)'
    <2>1. LiveIn(f)' = {}
        BY <1>2, ChainShape
    <2> QED BY <1>2, <2>1 DEF ChainNow, Chains!Closed
<1>3. CASE (InRotation(f)' <=> InRotation(f)) /\ LiveIn(f)' # LiveIn(f)
    <2>1. LiveIn(f)' = {} /\ LiveIn(f) # {}
        BY <1>3, ChainShape
    <2>2. ~InRotation(f) /\ ~InRotation(f)'
        BY <1>3, <2>1, ChainShape
    <2> QED BY <2>1, <2>2 DEF ChainNow, Chains!Closed
<1> QED BY <1>1, <1>2, <1>3

-----------------------------------------------------------------------------
(* The steps *)

\* The abstract variables.
chain == [f \in Token |-> ChainNow(f)]
used == {t \in Token : Issued(t)}

\* Where no token is issued and none claimed, chains can only be closed.
LEMMA OthersClose ==
    ASSUME TypeOK, References, ChainsHaveOneHolder, [Next]_vars,
           \A w \in Worker : ~StoreRefreshToken(w) /\ ~(RefreshClaim(w) /\ Claimable(req[w].token))
    PROVE  \E F \in SUBSET Token : Chains!Close(F)
<1>1. \A t \in Token : RowKept(t)
    BY RowsKept
<1>2. ASSUME NEW f \in Token
      PROVE  \/ ChainNow(f)' = ChainNow(f)
             \/ ChainNow(f).state \in {"held", "passing"} /\ ChainNow(f)' = Chains!Closed
    <2>1. IsHead(f)' <=> IsHead(f)
        BY <1>1 DEF IsHead, RowKept
    <2>2. LiveIn(f)' \subseteq LiveIn(f)
        BY <1>1 DEF LiveIn, RowKept
    <2>3. ASSUME InRotation(f)' PROVE InRotation(f)
        <3>1. PICK v \in Worker : Rotating(v)' /\ ChainOf(v)' = f
            BY <2>3 DEF InRotation
        <3>2. Rotating(v) /\ req'[v].token = req[v].token
            BY <3>1, RotatingKept
        <3>3. req[v].token \in Token
            BY <3>2 DEF Rotating, TypeOK, Request
        <3>4. ChainOf(v)' = ChainOf(v)
            BY <1>1, <3>2, <3>3 DEF ChainOf, RowKept
        <3> QED BY <3>1, <3>2, <3>4 DEF InRotation
    <2> QED BY <2>1, <2>2, <2>3, ChainLoses
<1> DEFINE F == {f \in Token : ChainNow(f)' # ChainNow(f)}
<1>3. \A f \in F : chain[f].state \in {"held", "passing"}
    BY <1>2 DEF chain
<1>4. chain' = [f \in Token |-> IF f \in F THEN Chains!Closed ELSE chain[f]]
    BY <1>2 DEF chain
<1>5. used' = used
    BY <1>1 DEF used, RowKept
<1>6. Chains!Close(F)
    BY <1>3, <1>4, <1>5 DEF Chains!Close, chain, used
<1> QED BY <1>6

\* A claim that wins takes the token of its chain.
LEMMA ClaimTakes ==
    ASSUME IInv, FamiliesHaveHeads, ClaimsNameTokens, [Next]_vars,
           NEW w \in Worker, RefreshClaim(w), Claimable(req[w].token)
    PROVE  \E f \in Token : Chains!Take(f)
<1> USE DEF IInv
<1>0. IInv'
    BY InvariantNext
<1>1. PICK t \in Token : t = req[w].token /\ Live(t) /\ Issued(t)
    BY DEF Claimable, Live, Issued, RefreshClaim, ClaimsNameTokens
<1>2. PICK f \in Token : f = refresh[t].family /\ IsHead(f)
    BY <1>1 DEF References, FamiliesHaveHeads
<1>3. /\ req'[w] = [req[w] EXCEPT !.stage = "sign"]
      /\ \A v \in Worker \ {w} : req'[v] = req[v]
    BY BecomeEffect DEF RefreshClaim, Goto
<1>4. /\ refresh' = [refresh EXCEPT ![t].status = "revoked"]
      /\ refresh'[t].status = "revoked"
      /\ \A s \in Token : refresh'[s].family = refresh[s].family /\ (Issued(s)' <=> Issued(s))
      /\ \A s \in Token \ {t} : refresh'[s] = refresh[s]
    <2>1. refresh \in [Token -> RefreshRow]
        BY DEF TypeOK
    <2>2. refresh' = [refresh EXCEPT ![t].status = "revoked"]
        BY <1>1 DEF RefreshClaim
    <2> QED BY <1>1, <2>1, <2>2 DEF Issued, RefreshRow
<1>5. /\ req[w].stage = "claim" /\ req'[w].stage = "sign" /\ req'[w].token = t /\ t # None
    BY <1>1, <1>3, NoneAssumption DEF RefreshClaim, TypeOK, Request
<1>6. Rotating(w)' /\ ChainOf(w)' = f /\ ~Rotating(w)
    BY <1>1, <1>2, <1>4, <1>5 DEF Rotating, ChainOf
<1>7. ASSUME NEW v \in Worker \ {w}
      PROVE  (Rotating(v)' <=> Rotating(v)) /\ (Rotating(v) => ChainOf(v)' = ChainOf(v))
    <2>1. Rotating(v) => req[v].token \in Token
        BY DEF Rotating, TypeOK, Request
    <2> QED BY <1>3, <1>4, <2>1 DEF Rotating, ChainOf
<1>8. ASSUME NEW g \in Token \ {f} PROVE ChainNow(g)' = ChainNow(g)
    <2>1. IsHead(g)' <=> IsHead(g)
        BY <1>4 DEF IsHead
    <2>2. InRotation(g)' <=> InRotation(g)
        BY <1>6, <1>7 DEF InRotation
    <2>3. LiveIn(g)' = LiveIn(g)
        BY <1>1, <1>2, <1>4 DEF LiveIn, Live
    <2> QED BY <2>1, <2>2, <2>3, ChainSame
<1>9. ChainNow(f).state = "held"
    <2>1. t \in LiveIn(f)
        BY <1>1, <1>2 DEF LiveIn
    <2> QED BY <1>2, <2>1, ChainShape DEF ChainNow
<1>10. ChainNow(f)' = Chains!Passing
    <2>1. IsHead(f)' /\ InRotation(f)'
        BY <1>2, <1>4, <1>6 DEF IsHead, InRotation
    <2>2. LiveIn(f)' = {}
        <3>1. \A s \in Token : Live(s)' => refresh'[s].family # ChainOf(w)'
            BY <1>0, <1>6 DEF ChainsHaveOneHolder
        <3> QED BY <1>6, <3>1 DEF LiveIn
    <2> QED BY <2>1, <2>2 DEF ChainNow, Chains!Passing
<1>11. chain' = [chain EXCEPT ![f] = Chains!Passing]
    BY <1>2, <1>8, <1>10 DEF chain
<1>12. used' = used
    BY <1>4 DEF used
<1>13. Chains!Take(f)
    BY <1>2, <1>9, <1>11, <1>12 DEF Chains!Take, chain, used
<1> QED BY <1>2, <1>13

\* An insert opens a chain, or gives a rotation's chain its next token.
LEMMA StoreGives ==
    ASSUME IInv, FamiliesHaveHeads, [Next]_vars, NEW w \in Worker, StoreRefreshToken(w)
    PROVE  \/ \E t \in Token : Chains!Open(t)
           \/ \E f, t \in Token : Chains!Give(f, t)
<1> USE DEF IInv
<1>0. IInv'
    BY InvariantNext
<1>1. PICK t \in Token :
         /\ ~Issued(t) /\ refresh'[t].status = "live" /\ refresh'[t].family = FamilyOf(w, t)
         /\ \A s \in Token \ {t} : refresh'[s] = refresh[s]
    BY StoreEffect
<1>2. PICK f \in Token : f = FamilyOf(w, t)
    <2>1. req[w].token # None => req[w].token \in Token /\ Issued(req[w].token)
        BY DEF TypeOK, Request, References
    <2> QED BY <2>1 DEF FamilyOf, References
<1>3. /\ req[w].stage = "store" /\ ~Rotating(w)'
      /\ \A v \in Worker \ {w} : req'[v] = req[v]
    BY BecomeEffect DEF StoreRefreshToken, Finish, Rotating, Idle
<1>4. ASSUME NEW v \in Worker \ {w}
      PROVE  (Rotating(v)' <=> Rotating(v)) /\ (Rotating(v) => ChainOf(v)' = ChainOf(v) /\ ChainOf(v) # f)
    <2>1. Rotating(v) => req[v].token \in Token /\ Issued(req[v].token) /\ Issued(ChainOf(v))
        BY DEF Rotating, TypeOK, Request, References, ChainOf
    <2>2. Rotating(v) => ChainOf(v)' = ChainOf(v)
        BY <1>1, <1>3, <2>1 DEF ChainOf
    <2>3. Rotating(v) => ChainOf(v) # f
        <3>1. CASE req[w].token = None
            BY <1>1, <1>2, <2>1, <3>1 DEF FamilyOf
        <3>2. CASE req[w].token # None
            <4>1. Rotating(w) /\ ChainOf(w) = f
                BY <1>2, <1>3, <3>2 DEF Rotating, ChainOf, FamilyOf
            <4> QED BY <4>1 DEF ChainsHaveOneHolder
        <3> QED BY <3>1, <3>2
    <2> QED BY <1>3, <2>2, <2>3 DEF Rotating
<1>5. ~InRotation(f)'
    BY <1>3, <1>4 DEF InRotation
<1>6. \A s \in Token \ {t} : (Issued(s)' <=> Issued(s)) /\ (Live(s)' <=> Live(s))
    BY <1>1 DEF Issued, Live
<1>7. Issued(t)' /\ Live(t)' /\ ~Live(t)
    BY <1>1 DEF Issued, Live
<1>8. LiveIn(f)' = {t}
    <2>1. t \in LiveIn(f)'
        BY <1>1, <1>2, <1>7 DEF LiveIn
    <2>2. \A s, r \in LiveIn(f)' : s = r
        BY <1>0, <1>2 DEF LiveIn, ChainsHaveOneHolder, SingleLiveToken
    <2> QED BY <2>1, <2>2
<1>9. IsHead(f)'
    <2>1. FamiliesHaveHeads'
        BY HeadsNext
    <2>2. IsHead(refresh[t].family)'
        BY <1>7, <2>1 DEF FamiliesHaveHeads
    <2>3. refresh'[t].family = f
        BY <1>1, <1>2
    <2> QED BY <2>2, <2>3 DEF IsHead, Issued
<1>10. ChainNow(f)' = Chains!HeldBy(t)
    BY <1>5, <1>8, <1>9 DEF ChainNow, Chains!HeldBy
<1>11. ASSUME NEW g \in Token \ {f} PROVE ChainNow(g)' = ChainNow(g)
    <2>1. CASE IsHead(g) \/ IsHead(g)'
        <3>1. g # t
            BY <1>1, <1>2, <2>1 DEF IsHead
        <3>2. IsHead(g)' <=> IsHead(g)
            BY <1>1, <1>6, <3>1 DEF IsHead
        <3>3. Rotating(w) => ChainOf(w) = f
            BY <1>2 DEF Rotating, ChainOf, FamilyOf
        <3>4. InRotation(g)' <=> InRotation(g)
            BY <1>3, <1>4, <3>3 DEF InRotation
        <3>5. LiveIn(g)' = LiveIn(g)
            BY <1>1, <1>2, <1>6, <1>7 DEF LiveIn
        <3> QED BY <3>2, <3>4, <3>5, ChainSame
    <2>2. CASE ~IsHead(g) /\ ~IsHead(g)'
        BY <2>2 DEF ChainNow
    <2> QED BY <2>1, <2>2
<1>12. chain' = [chain EXCEPT ![f] = Chains!HeldBy(t)]
    BY <1>2, <1>10, <1>11 DEF chain
<1>13. used' = used \cup {t} /\ t \notin used
    BY <1>1, <1>6, <1>7 DEF used
<1>14. CASE req[w].token = None
    <2>1. f = t
        BY <1>2, <1>14 DEF FamilyOf
    <2>2. chain[t] = Chains!Unopened
        BY <1>1 DEF chain, ChainNow, IsHead, Chains!Unopened
    <2>3. Chains!Open(t)
        BY <1>12, <1>13, <2>1, <2>2 DEF Chains!Open, chain, used
    <2> QED BY <2>3
<1>15. CASE req[w].token # None
    <2>1. Rotating(w) /\ ChainOf(w) = f
        BY <1>2, <1>3, <1>15 DEF Rotating, ChainOf, FamilyOf
    <2>2. IsHead(f)
        <3>1. req[w].token \in Token /\ Issued(req[w].token)
            BY <1>15 DEF TypeOK, Request, References
        <3> QED BY <2>1, <3>1 DEF FamiliesHaveHeads, ChainOf
    <2>3. InRotation(f) /\ LiveIn(f) = {}
        BY <1>2, <2>1, ChainShape DEF InRotation
    <2>4. chain[f] = Chains!Passing
        BY <1>2, <2>2, <2>3 DEF chain, ChainNow, Chains!Passing
    <2>5. Chains!Give(f, t)
        BY <1>12, <1>13, <2>4 DEF Chains!Give, chain, used
    <2> QED BY <1>2, <2>5
<1> QED BY <1>14, <1>15

-----------------------------------------------------------------------------
(* The theorem *)

\* Whatever requests interleave, a login session is a chain: held by one token
\* at a time, passed on to fresh tokens only, and closed for good.
THEOREM Refinement == Spec => ChainsSpec
<1> DEFINE I == IInv /\ FamiliesHaveHeads /\ ClaimsNameTokens
<1>1. Init => I
    <2> SUFFICES ASSUME Init PROVE FamiliesHaveHeads /\ ClaimsNameTokens
        BY InvariantInit
    <2>1. \A t \in Token : ~Issued(t)
        BY DEF Init, Issued, NoRefreshRow
    <2>2. \A w \in Worker : req[w].stage = "idle"
        BY DEF Init, Idle
    <2> QED BY <2>1, <2>2 DEF FamiliesHaveHeads, ClaimsNameTokens
<1>2. I /\ [Next]_vars => I'
    BY InvariantNext, HeadsNext, ClaimsNext DEF IInv
<1>3. Init => Chains!Init
    <2> SUFFICES ASSUME Init PROVE Chains!Init
        OBVIOUS
    <2>1. \A t \in Token : ~Issued(t)
        BY DEF Init, Issued, NoRefreshRow
    <2> QED BY <2>1 DEF Chains!Init, Chains!Unopened, ChainNow, IsHead
<1>4. I /\ [Next]_vars => [Chains!Next]_(Chains!vars)
    <2> SUFFICES ASSUME I, [Next]_vars PROVE Chains!Next
        OBVIOUS
    <2>1. CASE \E w \in Worker : StoreRefreshToken(w)
        BY <2>1, StoreGives DEF Chains!Next
    <2>2. CASE \E w \in Worker : RefreshClaim(w) /\ Claimable(req[w].token)
        BY <2>2, ClaimTakes DEF Chains!Next
    <2>3. CASE \A w \in Worker : ~StoreRefreshToken(w) /\ ~(RefreshClaim(w) /\ Claimable(req[w].token))
        BY <2>3, OthersClose DEF Chains!Next, IInv
    <2> QED BY <2>1, <2>2, <2>3
<1> QED BY <1>1, <1>2, <1>3, <1>4, PTL DEF Spec, ChainsSpec, Chains!Spec
=============================================================================
