------------------------------ MODULE Accounts ------------------------------
(***************************************************************************)
(* The life of an account of the EasyRent API (internal/auth): sign-up     *)
(* over the unique indexes of users, the verification link and its mail,   *)
(* verification, and the avatar only a verified account may set.           *)
(*                                                                         *)
(* Every request is a Worker and runs one autocommitted statement per      *)
(* action; the e-mail service is a call that delivers or fails.  A request *)
(* refused before it wrote anything is a stuttering step unless what it    *)
(* was told matters to a property.                                         *)
(***************************************************************************)
EXTENDS Integers

CONSTANTS
    User,     \* users.id
    Address,  \* e-mail addresses as submitted
    Lower,    \* strings.ToLower, and lower() of SQL
    Phone,
    Link,     \* verification tokens
    Worker,   \* requests that may be in flight together
    None,     \* SQL NULL, and "no row"
    LinkTTL,  \* VerificationTTL: ticks after which a link is at its expiry
    MaxTime   \* bound on the clock

ASSUME LowerAssumption ==
    Lower \in [Address -> Address] /\ \A a \in Address : Lower[Lower[a]] = Lower[a]
ASSUME LinkTTLAssumption == LinkTTL \in Nat /\ MaxTime \in Nat
ASSUME NullAssumption == None \notin User \cup Address \cup Phone \cup Link

VARIABLES
    now,
    users,  \* the rows; a row whose email is None is not there
    inbox,  \* the links mail delivered, and where to
    req,    \* what each request holds
    told    \* history: what sign-ups were answered, by address

vars == <<now, users, inbox, req, told>>

UserRow == [email: Address \cup {None}, phone: Phone \cup {None}, verified: BOOLEAN,
            link: Link \cup {None}, expires: Nat, avatar: BOOLEAN]

Stage == {"idle", "create", "store", "mail", "issue", "mark", "avatar"}
Request == [stage: Stage, email: Address \cup {None}, phone: Phone \cup {None},
            user: User \cup {None}, link: Link \cup {None}]

NoUser == [email |-> None, phone |-> None, verified |-> FALSE,
           link |-> None, expires |-> 0, avatar |-> FALSE]
Idle == [stage |-> "idle", email |-> None, phone |-> None, user |-> None, link |-> None]

TypeOK ==
    /\ now \in Nat
    /\ users \in [User -> UserRow]
    /\ inbox \subseteq [email: Address, link: Link]
    /\ req \in [Worker -> Request]
    /\ told \subseteq [email: Address, answer: {"created", "email taken"}]

Init ==
    /\ now = 0
    /\ users = [u \in User |-> NoUser]
    /\ inbox = {}
    /\ req = [w \in Worker |-> Idle]
    /\ told = {}

-----------------------------------------------------------------------------
Row(u) == users[u].email # None

\* A random link is nobody's yet.
FreshLink(l) ==
    /\ \A u \in User : users[u].link # l
    /\ \A w \in Worker : req[w].link # l
    /\ \A m \in inbox : m.link # l

Start(w, request) == req[w] = Idle /\ req' = [req EXCEPT ![w] = request]
Finish(w) == req' = [req EXCEPT ![w] = Idle]
Tell(w, answer) == told' = told \cup {[email |-> req[w].email, answer |-> answer]}

\* FindByEmail.
HasEmail(u, e) == Row(u) /\ Lower[users[u].email] = Lower[e]

\* The index on lower(email).
EmailKey(u, e) == Row(u) /\ Lower[users[u].email] = Lower[e]

\* Mutant: an address is unique only by the look-up before the insert.
ConflictsPhoneOnly(u, e, p) == Row(u) /\ users[u].phone = p

\* Unique on email and phone, and on lower(email), which implies the first.
Conflicts(u, e, p) == EmailKey(u, e) \/ (Row(u) /\ users[u].phone = p)

\* Mutant: the mail goes out before the link is stored.
FollowingMailFirst == [create |-> "mail", mail |-> "store", store |-> "issue"]

\* The statements of SignUp in their order.
Following == [create |-> "store", store |-> "mail", mail |-> "issue"]

-----------------------------------------------------------------------------
(* SignUp: look the address up, then insert; the indexes have the last word *)

SignUp(w, a, p) ==
    /\ \A u \in User : ~HasEmail(u, Lower[a])
    /\ Start(w, [Idle EXCEPT !.stage = "create", !.email = Lower[a], !.phone = p])
    /\ UNCHANGED <<now, users, inbox, told>>

SignUpTaken(a) ==
    /\ \E u \in User : HasEmail(u, Lower[a])
    /\ told' = told \cup {[email |-> Lower[a], answer |-> "email taken"]}
    /\ UNCHANGED <<now, users, inbox, req>>

CreateUser(w) ==
    LET e == req[w].email
        p == req[w].phone
    IN
    /\ req[w].stage = "create"
    /\ IF \E u \in User : Conflicts(u, e, p)
       THEN Finish(w) /\ Tell(w, "email taken") /\ UNCHANGED users
       ELSE /\ \E u \in User :
                /\ ~Row(u)
                /\ users' = [users EXCEPT ![u].email = e, ![u].phone = p]
                /\ \E l \in Link :
                    /\ FreshLink(l)
                    /\ req' = [req EXCEPT ![w].stage = Following[@], ![w].user = u, ![w].link = l]
            /\ UNCHANGED told
    /\ UNCHANGED <<now, inbox>>

Goto(w, stage) == req' = [req EXCEPT ![w].stage = stage]

\* Mutant: only logged, as a failing mail is.
StoreFailedIgnored(w) == Goto(w, Following["store"]) /\ UNCHANGED users

StoreFailed(w) == Finish(w) /\ UNCHANGED users

\* Mutant: the lifetime subtracted.
LinkExpiryPast == now - LinkTTL - 1

LinkExpiry == now + LinkTTL

StoreVerificationToken(w) ==
    /\ req[w].stage = "store"
    /\ \/ /\ users' = [users EXCEPT ![req[w].user].link = req[w].link,
                                    ![req[w].user].expires = LinkExpiry]
          /\ Goto(w, Following["store"])
       \/ StoreFailed(w)
    /\ UNCHANGED <<now, inbox, told>>

\* A failing mail is logged, and the sign-up goes on.
SendVerificationEmail(w) ==
    /\ req[w].stage = "mail"
    /\ \/ inbox' = inbox \cup {[email |-> req[w].email, link |-> req[w].link]}
       \/ UNCHANGED inbox
    /\ Goto(w, Following["mail"])
    /\ UNCHANGED <<now, users, told>>

\* issueTokens writes no row of users (module Sessions); the answer is 201.
IssueTokens(w) ==
    /\ req[w].stage = "issue"
    /\ Tell(w, "created")
    /\ Finish(w)
    /\ UNCHANGED <<now, users, inbox>>

-----------------------------------------------------------------------------
(* VerifyEmail: find by link, then mark by id *)

\* Mutant: NULL compares equal.
CarriesNull(u, l) == Row(u) /\ users[u].link \in {l, None}

\* The WHERE clause of findUserByVerificationTokenQuery.
Carries(u, l) == Row(u) /\ users[u].link = l

VerifyEmail(w, l) ==
    /\ \E m \in inbox : m.link = l
    /\ \E u \in User :
        /\ Carries(u, l)
        /\ now <= users[u].expires
        /\ Start(w, [Idle EXCEPT !.stage = "mark", !.user = u])
    /\ UNCHANGED <<now, users, inbox, told>>

MarkEmailVerified(w) ==
    /\ req[w].stage = "mark"
    /\ users' = [users EXCEPT ![req[w].user].verified = TRUE,
                              ![req[w].user].link = None, ![req[w].user].expires = 0]
    /\ Finish(w)
    /\ UNCHANGED <<now, inbox, told>>

-----------------------------------------------------------------------------
(* updateAvatar, behind RequireVerified *)

\* Mutant: RequireAuth alone.
MaySetAvatarUnverified(u) == Row(u)

MaySetAvatar(u) == Row(u) /\ users[u].verified

RequireVerified(w, u) ==
    /\ MaySetAvatar(u)
    /\ Start(w, [Idle EXCEPT !.stage = "avatar", !.user = u])
    /\ UNCHANGED <<now, users, inbox, told>>

\* An empty URL clears the avatar.
UpdateAvatar(w) ==
    /\ req[w].stage = "avatar"
    /\ \E set \in BOOLEAN : users' = [users EXCEPT ![req[w].user].avatar = set]
    /\ Finish(w)
    /\ UNCHANGED <<now, inbox, told>>

-----------------------------------------------------------------------------
\* A query fails, the client hangs up, or the process dies.
Abort(w) ==
    /\ req[w] # Idle
    /\ Finish(w)
    /\ UNCHANGED <<now, users, inbox, told>>

Tick ==
    /\ now < MaxTime
    /\ now' = now + 1
    /\ UNCHANGED <<users, inbox, req, told>>

Step(w) ==
    \/ CreateUser(w) \/ StoreVerificationToken(w) \/ SendVerificationEmail(w) \/ IssueTokens(w)
    \/ MarkEmailVerified(w) \/ UpdateAvatar(w) \/ Abort(w)

Next ==
    \/ \E w \in Worker :
        \/ \E a \in Address, p \in Phone : SignUp(w, a, p)
        \/ \E l \in Link : VerifyEmail(w, l)
        \/ \E u \in User : RequireVerified(w, u)
        \/ Step(w)
    \/ \E a \in Address : SignUpTaken(a)
    \/ Tick

Spec == Init /\ [][Next]_vars

-----------------------------------------------------------------------------
(* Properties *)

\* Racing sign-ups never make two accounts with one address, whatever the case
\* of its letters, or with one phone ("the unique constraint is the arbiter", SignUp).
OneAccountPerContact ==
    \A u, v \in User :
        Row(u) /\ Row(v) /\ (Lower[users[u].email] = Lower[users[v].email]
                              \/ users[u].phone = users[v].phone) => u = v

\* A client told that its account was created has one that is verified or
\* carries a link, whatever failed or raced on the way (SignUp).
CreatedCanVerify ==
    \A t \in told : t.answer = "created" =>
        \E u \in User : HasEmail(u, t.email) /\ (users[u].verified \/ users[u].link # None)

\* A delivered link is the one its account carries until the account is
\* verified: none is lost to a failure or to another sign-up (SignUp).
MailedLinkWorks ==
    \A m \in inbox :
        \E u \in User : HasEmail(u, m.email) /\ (users[u].verified \/ users[u].link = m.link)

\* An account is verified, or shows an avatar, only after a link reached its
\* own address (VerifyEmail, RequireVerified).
VerifiedByMail ==
    \A u \in User : users[u].verified \/ users[u].avatar =>
        users[u].verified /\ \E m \in inbox : HasEmail(u, m.email)

\* errors.go:6: ErrEmailTaken is "email already registered", the answer to
\* "a sign-up race" (service.go:38-39): an address called taken has an account.
EmailTakenTruthful ==
    \A t \in told : t.answer = "email taken" => \E u \in User : HasEmail(u, t.email)

-----------------------------------------------------------------------------
(* The abstract specification *)

AccountOf(u) == [email |-> users[u].email, phone |-> users[u].phone,
                 verified |-> users[u].verified, avatar |-> users[u].avatar]
Reached(u) == \E m \in inbox : HasEmail(u, m.email)

Atomic == INSTANCE Registry WITH
    account <- [u \in User |-> AccountOf(u)],
    reached <- [u \in User |-> Reached(u)]

\* Through all their statements, races and failures, sign-up, verification by
\* link and the avatar do what one step each would: contacts are taken once and
\* kept, no verification is undone or reaches another account than the one
\* whose mail was read (SignUp, VerifyEmail, updateAvatar).
RegistrySpec == Atomic!Spec
=============================================================================
