---------------------------- MODULE Accounts_proofs ----------------------------
(* Whatever the users, addresses, links and requests: one account for each  *)
(* contact, a working link for each account that was announced or mailed,   *)
(* and no verified account without a mail to its own address.               *)
EXTENDS Accounts, TLAPS

USE LowerAssumption, LinkTTLAssumption, NullAssumption

\* A mailed link that an account carries was mailed to its address.
LinksOwn ==
    \A m \in inbox, u \in User : users[u].link = m.link => HasEmail(u, m.email)

\* Two sign-ups past their insert have different users and links.
PendingApart ==
    \A w, v \in Worker :
        w # v /\ req[w].link # None /\ req[v].link # None =>
            req[w].link # req[v].link /\ req[w].user # req[v].user

\* What a request relies on.
PendingHolds(w) ==
    LET held == req[w] IN
    /\ held.stage = "create" => held.email \in Address /\ held.phone \in Phone
    /\ held.link # None => held.stage \in {"store", "mail", "issue"}
    /\ held.stage \in {"store", "mail", "issue"} =>
        /\ held.user \in User /\ held.link \in Link /\ held.email \in Address
        /\ users[held.user].email = held.email
        /\ \A v \in User : users[v].link = held.link => v = held.user
    /\ held.stage \in {"store", "mail"} => \A m \in inbox : m.link # held.link
    /\ held.stage = "store" => \A m \in inbox : ~HasEmail(held.user, m.email)
    /\ held.stage \in {"mail", "issue"} =>
        users[held.user].verified \/ users[held.user].link = held.link
    /\ held.stage = "mark" =>
        held.user \in User /\ \E m \in inbox : HasEmail(held.user, m.email)
    /\ held.stage = "avatar" => held.user \in User /\ users[held.user].verified

Mails == MailedLinkWorks /\ VerifiedByMail /\ LinksOwn

\* The inductive invariant.
IInv ==
    /\ TypeOK
    /\ OneAccountPerContact /\ CreatedCanVerify /\ Mails
    /\ PendingApart /\ \A w \in Worker : PendingHolds(w)

-----------------------------------------------------------------------------
LEMMA IdleType == /\ Idle \in Request /\ Idle.stage = "idle" /\ Idle.link = None
                  /\ Idle.user = None /\ Idle.email = None /\ Idle.phone = None
BY DEF Idle, Request, Stage

LEMMA MailsKept ==
    ASSUME OneAccountPerContact, Mails, UNCHANGED <<users, inbox>>
    PROVE  OneAccountPerContact' /\ Mails'
BY DEF OneAccountPerContact, Mails, MailedLinkWorks, VerifiedByMail, LinksOwn, HasEmail, Row

LEMMA PendingKept ==
    ASSUME UNCHANGED <<users, inbox>>, NEW w \in Worker, req'[w] = req[w], PendingHolds(w)
    PROVE  PendingHolds(w)'
BY DEF PendingHolds, HasEmail, Row

LEMMA ApartKept ==
    ASSUME PendingApart, NEW w \in Worker, \A v \in Worker \ {w} : req'[v] = req[v],
           req'[w].link = None
    PROVE  PendingApart'
BY DEF PendingApart

\* What a sign-up was told stays true, and more is told that is true.
LEMMA CreatedKept ==
    ASSUME CreatedCanVerify, UNCHANGED users,
           \A t \in told' \ told : t.answer = "created" =>
                \E u \in User : HasEmail(u, t.email) /\ (users[u].verified \/ users[u].link # None)
    PROVE  CreatedCanVerify'
BY DEF CreatedCanVerify, HasEmail, Row

ToldType == told \subseteq [email: Address, answer: {"created", "email taken"}]

\* A step that leaves the rows and the mail alone and gives one request other
\* things to hold.
LEMMA Quiet ==
    ASSUME IInv, UNCHANGED <<users, inbox>>, now' \in Nat, ToldType',
           \A t \in told' \ told : t.answer = "created" =>
                \E u \in User : HasEmail(u, t.email) /\ (users[u].verified \/ users[u].link # None),
           NEW w \in Worker, NEW new \in Request, new.link = None,
           req' = [req EXCEPT ![w] = new], PendingHolds(w)'
    PROVE  IInv'
<1>1. TypeOK'
    BY DEF IInv, TypeOK, ToldType
<1>2. OneAccountPerContact' /\ Mails'
    BY MailsKept DEF IInv
<1>3. CreatedCanVerify'
    BY CreatedKept DEF IInv
<1>4. req'[w] = new /\ \A v \in Worker \ {w} : req'[v] = req[v]
    BY DEF IInv, TypeOK
<1>5. PendingApart'
    BY <1>4, ApartKept DEF IInv
<1>6. \A v \in Worker \ {w} : PendingHolds(v)'
    BY <1>4, PendingKept DEF IInv
<1> QED BY <1>1, <1>2, <1>3, <1>5, <1>6 DEF IInv

LEMMA FinishQuiet ==
    ASSUME IInv, NEW w \in Worker, Finish(w), UNCHANGED <<now, users, inbox>>, ToldType',
           \A t \in told' \ told : t.answer = "created" =>
                \E u \in User : HasEmail(u, t.email) /\ (users[u].verified \/ users[u].link # None)
    PROVE  IInv'
<1>1. req'[w] = Idle /\ req' = [req EXCEPT ![w] = Idle]
    BY DEF Finish, IInv, TypeOK
<1>2. PendingHolds(w)'
    BY <1>1, IdleType DEF PendingHolds
<1>3. now' \in Nat
    BY DEF IInv, TypeOK
<1> QED BY <1>1, <1>2, <1>3, IdleType, Quiet

LEMMA SignUpStep ==
    ASSUME IInv, NEW w \in Worker, NEW a \in Address, NEW p \in Phone, SignUp(w, a, p)
    PROVE  IInv'
<1> DEFINE new == [Idle EXCEPT !.stage = "create", !.email = Lower[a], !.phone = p]
<1>1. req' = [req EXCEPT ![w] = new] /\ UNCHANGED <<now, users, inbox, told>>
    BY DEF SignUp, Start
<1>2. /\ new \in Request /\ new.link = None /\ new.stage = "create"
      /\ new.email \in Address /\ new.phone \in Phone
    BY DEF Request, Idle, Stage
<1> HIDE DEF new
<1>3. req'[w] = new
    BY <1>1, <1>2 DEF IInv, TypeOK
<1>4. PendingHolds(w)'
    BY <1>2, <1>3 DEF PendingHolds
<1> QED BY <1>1, <1>2, <1>4, Quiet DEF IInv, TypeOK, ToldType

LEMMA VerifyEmailStep ==
    ASSUME IInv, NEW w \in Worker, NEW l \in Link, VerifyEmail(w, l)
    PROVE  IInv'
<1>1. PICK m \in inbox : m.link = l
    BY DEF VerifyEmail
<1>2. PICK u \in User : Carries(u, l) /\ Start(w, [Idle EXCEPT !.stage = "mark", !.user = u])
    BY DEF VerifyEmail
<1> DEFINE new == [Idle EXCEPT !.stage = "mark", !.user = u]
<1>3. req' = [req EXCEPT ![w] = new] /\ UNCHANGED <<now, users, inbox, told>>
    BY <1>2 DEF VerifyEmail, Start
<1>4. new \in Request /\ new.link = None /\ new.stage = "mark" /\ new.user = u
    BY DEF Request, Idle, Stage
<1> HIDE DEF new
<1>5. req'[w] = new
    BY <1>3, <1>4 DEF IInv, TypeOK
<1>6. HasEmail(u, m.email)
    BY <1>1, <1>2 DEF IInv, Mails, LinksOwn, Carries
<1>7. PendingHolds(w)'
    BY <1>3, <1>4, <1>5, <1>6 DEF PendingHolds, HasEmail, Row
<1> QED BY <1>3, <1>4, <1>7, Quiet DEF IInv, TypeOK, ToldType

LEMMA RequireVerifiedStep ==
    ASSUME IInv, NEW w \in Worker, NEW u \in User, RequireVerified(w, u)
    PROVE  IInv'
<1> DEFINE new == [Idle EXCEPT !.stage = "avatar", !.user = u]
<1>1. /\ req' = [req EXCEPT ![w] = new] /\ UNCHANGED <<now, users, inbox, told>>
      /\ users[u].verified
    BY DEF RequireVerified, Start, MaySetAvatar
<1>2. new \in Request /\ new.link = None /\ new.stage = "avatar" /\ new.user = u
    BY DEF Request, Idle, Stage
<1> HIDE DEF new
<1>3. req'[w] = new
    BY <1>1, <1>2 DEF IInv, TypeOK
<1>4. PendingHolds(w)'
    BY <1>1, <1>2, <1>3 DEF PendingHolds
<1> QED BY <1>1, <1>2, <1>4, Quiet DEF IInv, TypeOK, ToldType

LEMMA IssueTokensStep ==
    ASSUME IInv, NEW w \in Worker, IssueTokens(w)
    PROVE  IInv'
<1>1. /\ req[w].stage = "issue" /\ Finish(w) /\ UNCHANGED <<now, users, inbox>>
      /\ told' = told \cup {[email |-> req[w].email, answer |-> "created"]}
    BY DEF IssueTokens, Tell
<1>2. PendingHolds(w)
    BY DEF IInv
<1>3. /\ req[w].user \in User /\ HasEmail(req[w].user, req[w].email) /\ req[w].email \in Address
      /\ users[req[w].user].verified \/ users[req[w].user].link # None
    BY <1>1, <1>2 DEF PendingHolds, HasEmail, Row
<1>4. ToldType'
    <2>1. [email |-> req[w].email, answer |-> "created"]
            \in [email: Address, answer: {"created", "email taken"}]
        BY <1>3
    <2>2. ToldType
        BY DEF IInv, TypeOK, ToldType
    <2> QED BY <1>1, <2>1, <2>2 DEF ToldType
<1>5. \A t \in told' \ told : t.email = req[w].email
    BY <1>1
<1> QED BY <1>1, <1>3, <1>4, <1>5, FinishQuiet

LEMMA SignUpTakenStep ==
    ASSUME IInv, NEW a \in Address, SignUpTaken(a)
    PROVE  IInv'
<1>1. /\ UNCHANGED <<now, users, inbox, req>>
      /\ told' = told \cup {[email |-> Lower[a], answer |-> "email taken"]}
    BY DEF SignUpTaken
<1>2. TypeOK'
    <2>1. [email |-> Lower[a], answer |-> "email taken"]
            \in [email: Address, answer: {"created", "email taken"}]
        OBVIOUS
    <2>2. ToldType /\ TypeOK
        BY DEF IInv, TypeOK, ToldType
    <2>3. ToldType'
        BY <1>1, <2>1, <2>2 DEF ToldType
    <2> QED BY <1>1, <2>2, <2>3 DEF TypeOK, ToldType
<1>3. CreatedCanVerify'
    <2> DEFINE new == [email |-> Lower[a], answer |-> "email taken"]
    <2>1. \A t \in told' \ told : t.answer # "created"
        <3>1. told' = told \cup {new} /\ new.answer # "created"
            BY <1>1
        <3> HIDE DEF new
        <3> QED BY <3>1
    <2> QED BY <1>1, <2>1, CreatedKept DEF IInv
<1>4. OneAccountPerContact' /\ Mails' /\ PendingApart'
    BY <1>1, MailsKept DEF IInv, PendingApart
<1>5. \A w \in Worker : PendingHolds(w)'
    BY <1>1, PendingKept DEF IInv
<1> QED BY <1>2, <1>3, <1>4, <1>5 DEF IInv

LEMMA StandStill ==
    ASSUME IInv, UNCHANGED <<users, inbox, req, told>>, now' \in Nat
    PROVE  IInv'
<1>1. TypeOK'
    BY DEF IInv, TypeOK
<1>2. OneAccountPerContact' /\ Mails' /\ PendingApart'
    BY MailsKept DEF IInv, PendingApart
<1>3. CreatedCanVerify'
    BY CreatedKept DEF IInv
<1>4. \A w \in Worker : PendingHolds(w)'
    BY PendingKept DEF IInv
<1> QED BY <1>1, <1>2, <1>3, <1>4 DEF IInv

-----------------------------------------------------------------------------
(* Writes of rows *)

\* The insert that the indexes let through: its row and link are nobody's.
LEMMA CreateRow ==
    ASSUME IInv, NEW w \in Worker, NEW u \in User, NEW l \in Link,
           req[w].stage = "create", ~Row(u), FreshLink(l),
           \A v \in User : ~Conflicts(v, req[w].email, req[w].phone),
           users' = [users EXCEPT ![u].email = req[w].email, ![u].phone = req[w].phone],
           req' = [req EXCEPT ![w].stage = "store", ![w].user = u, ![w].link = l],
           UNCHANGED <<now, inbox, told>>
    PROVE  IInv'
<1> DEFINE e == req[w].email
           p == req[w].phone
<1>1. e \in Address /\ p \in Phone
    BY DEF IInv, PendingHolds
<1>2. users[u] \in UserRow /\ req[w] \in Request
    BY DEF IInv, TypeOK
<1>3. /\ users' \in [User -> UserRow]
      /\ users'[u].email = e /\ users'[u].phone = p /\ users'[u].link = users[u].link
      /\ users'[u].verified = users[u].verified /\ users'[u].avatar = users[u].avatar
      /\ \A v \in User \ {u} : users'[v] = users[v]
    <2> HIDE DEF e, p
    <2> QED BY <1>1, <1>2 DEF IInv, TypeOK, UserRow, e, p
<1>4. /\ req' \in [Worker -> Request]
      /\ req'[w].stage = "store" /\ req'[w].user = u /\ req'[w].link = l /\ req'[w].email = e
      /\ \A v \in Worker \ {w} : req'[v] = req[v]
    BY <1>2 DEF IInv, TypeOK, Request, Stage
<1> HIDE DEF e, p
<1>5. TypeOK'
    BY <1>3, <1>4 DEF IInv, TypeOK
<1>7. \A v \in User : \A a : HasEmail(v, a) => HasEmail(v, a)' /\ v # u
    BY <1>3 DEF HasEmail, Row
<1>8. \A v \in User : \A a : v # u => (HasEmail(v, a)' <=> HasEmail(v, a))
    BY <1>3 DEF HasEmail, Row
<1>9. \A a : HasEmail(u, a)' <=> Lower[e] = Lower[a]
    BY <1>1, <1>3 DEF HasEmail, Row
<1>10. \A v \in User : Row(v) => Lower[users[v].email] # Lower[e] /\ users[v].phone # p
    BY DEF Conflicts, EmailKey, e, p
<1>11. \A v \in User : v # u => (Row(v)' <=> Row(v))
    BY <1>3 DEF Row
<1>12. OneAccountPerContact'
    BY <1>3, <1>10, <1>11 DEF IInv, OneAccountPerContact
<1>13. \A v \in User : users[v].verified => v # u
    BY DEF IInv, Mails, VerifiedByMail, HasEmail
<1>14. CreatedCanVerify'
    BY <1>3, <1>7 DEF IInv, CreatedCanVerify
<1>15. MailedLinkWorks'
    BY <1>3, <1>7 DEF IInv, Mails, MailedLinkWorks
<1>16. VerifiedByMail'
    BY <1>3, <1>7 DEF IInv, Mails, VerifiedByMail
<1>17. LinksOwn'
    BY <1>3, <1>7 DEF IInv, Mails, LinksOwn
<1>18. \A v \in Worker \ {w} : req[v].link # None => req[v].link # l /\ req[v].user # u
    <2>1. \A v \in Worker : req[v].link # l
        BY DEF FreshLink
    <2>2. ASSUME NEW v \in Worker, req[v].link # None
          PROVE  req[v].user # u
        <3>1. req[v].user \in User /\ users[req[v].user].email \in Address
            BY <2>2 DEF IInv, PendingHolds
        <3> QED BY <3>1 DEF Row
    <2> QED BY <2>1, <2>2
<1>19. PendingApart'
    BY <1>4, <1>18 DEF IInv, PendingApart
<1>20. PendingHolds(w)'
    <2>1. \A v \in User : users'[v].link = l => v = u
        BY <1>3 DEF FreshLink
    <2>2. \A m \in inbox : m.link # l
        BY DEF FreshLink
    <2>3. ASSUME NEW m \in inbox
          PROVE  ~HasEmail(u, m.email)'
        <3>1. PICK v \in User : HasEmail(v, m.email)
            BY DEF IInv, Mails, MailedLinkWorks
        <3> QED BY <1>9, <1>10, <3>1 DEF HasEmail
    <2> QED BY <1>1, <1>3, <1>4, <2>1, <2>2, <2>3 DEF PendingHolds
<1>21. ASSUME NEW v \in Worker \ {w}
       PROVE  PendingHolds(v)'
    <2>1. PendingHolds(v) /\ req'[v] = req[v]
        BY <1>4 DEF IInv
    <2>2. req[v].stage \in {"store", "mail", "issue"} =>
            /\ req[v].user \in User \ {u} /\ users'[req[v].user] = users[req[v].user]
            /\ \A k \in User : users'[k].link = req[v].link => k = req[v].user
        BY <1>3, <1>18, <2>1 DEF PendingHolds
    <2>3. req[v].stage = "store" => \A m \in inbox : ~HasEmail(req[v].user, m.email)'
        BY <1>8, <2>1, <2>2 DEF PendingHolds
    <2>4. req[v].stage = "mark" =>
            req[v].user \in User /\ \E m \in inbox : HasEmail(req[v].user, m.email)'
        BY <1>7, <2>1 DEF PendingHolds
    <2>5. req[v].stage = "avatar" => req[v].user \in User /\ users'[req[v].user].verified
        BY <1>3, <2>1 DEF PendingHolds
    <2> QED BY <2>1, <2>2, <2>3, <2>4, <2>5 DEF PendingHolds
<1> QED BY <1>5, <1>12, <1>14, <1>15, <1>16, <1>17, <1>19, <1>20, <1>21 DEF IInv, Mails

LEMMA CreateUserStep ==
    ASSUME IInv, NEW w \in Worker, CreateUser(w)
    PROVE  IInv'
<1>1. req[w].stage = "create" /\ UNCHANGED <<now, inbox>>
    BY DEF CreateUser
<1>2. CASE Finish(w) /\ Tell(w, "email taken") /\ UNCHANGED users
    <2>1. req[w].email \in Address
        BY <1>1 DEF IInv, PendingHolds
    <2> DEFINE new == [email |-> req[w].email, answer |-> "email taken"]
    <2>2. told' = told \cup {new}
        BY <1>2 DEF Tell
    <2>3. new \in [email: Address, answer: {"created", "email taken"}] /\ new.answer # "created"
        BY <2>1
    <2> HIDE DEF new
    <2>4. ToldType
        BY DEF IInv, TypeOK, ToldType
    <2>5. ToldType' /\ \A t \in told' \ told : t.answer # "created"
        BY <2>2, <2>3, <2>4 DEF ToldType
    <2> QED BY <1>1, <1>2, <2>5, FinishQuiet
<1>3. CASE ~\E u \in User : Conflicts(u, req[w].email, req[w].phone)
    <2>1. PICK u \in User :
            /\ ~Row(u)
            /\ users' = [users EXCEPT ![u].email = req[w].email, ![u].phone = req[w].phone]
            /\ \E l \in Link :
                /\ FreshLink(l)
                /\ req' = [req EXCEPT ![w].stage = Following[@], ![w].user = u, ![w].link = l]
        BY <1>3 DEF CreateUser
    <2>2. PICK l \in Link :
            /\ FreshLink(l)
            /\ req' = [req EXCEPT ![w].stage = Following[@], ![w].user = u, ![w].link = l]
        BY <2>1
    <2>3. Following[req[w].stage] = "store"
        BY <1>1 DEF Following
    <2>4. req' = [req EXCEPT ![w].stage = "store", ![w].user = u, ![w].link = l]
        BY <2>2, <2>3
    <2>5. told' = told
        BY <1>3 DEF CreateUser
    <2> QED BY <1>1, <1>3, <2>1, <2>2, <2>4, <2>5, CreateRow
<1> QED BY <1>2, <1>3 DEF CreateUser

\* The link is stored before it is mailed: no mail knows it yet.
LEMMA StoreRow ==
    ASSUME IInv, NEW w \in Worker, req[w].stage = "store",
           users' = [users EXCEPT ![req[w].user].link = req[w].link,
                                  ![req[w].user].expires = LinkExpiry],
           req' = [req EXCEPT ![w].stage = "mail"],
           UNCHANGED <<now, inbox, told>>
    PROVE  IInv'
<1> DEFINE u == req[w].user
           l == req[w].link
<1>1. PendingHolds(w) /\ req[w] \in Request
    BY DEF IInv, TypeOK
<1>2. /\ u \in User /\ l \in Link /\ req[w].email \in Address /\ users[u].email = req[w].email
      /\ \A v \in User : users[v].link = l => v = u
      /\ \A m \in inbox : m.link # l /\ ~HasEmail(u, m.email)
    BY <1>1 DEF PendingHolds
<1>3. users[u] \in UserRow /\ LinkExpiry \in Nat
    <2>1. now \in Nat /\ users \in [User -> UserRow]
        BY DEF IInv, TypeOK
    <2> QED BY <1>2, <2>1 DEF LinkExpiry
<1> HIDE DEF u, l
<1>4. /\ users' \in [User -> UserRow]
      /\ users'[u].email = users[u].email /\ users'[u].phone = users[u].phone
      /\ users'[u].link = l /\ users'[u].verified = users[u].verified
      /\ users'[u].avatar = users[u].avatar
      /\ \A v \in User \ {u} : users'[v] = users[v]
    BY <1>2, <1>3 DEF IInv, TypeOK, UserRow, u, l
<1>5. /\ req' \in [Worker -> Request]
      /\ req'[w].stage = "mail" /\ req'[w].user = u /\ req'[w].link = l
      /\ req'[w].email = req[w].email
      /\ \A v \in Worker \ {w} : req'[v] = req[v]
    BY <1>1 DEF IInv, TypeOK, Request, Stage, u, l
<1>6. TypeOK'
    BY <1>4, <1>5 DEF IInv, TypeOK
<1>7. \A v \in User : /\ users'[v].email = users[v].email /\ users'[v].phone = users[v].phone
                      /\ users'[v].verified = users[v].verified
                      /\ users'[v].avatar = users[v].avatar
    BY <1>4
<1>8. \A v \in User : (Row(v)' <=> Row(v)) /\ \A a : HasEmail(v, a)' <=> HasEmail(v, a)
    BY <1>7 DEF HasEmail, Row
<1>9. OneAccountPerContact'
    BY <1>7, <1>8 DEF IInv, OneAccountPerContact
<1>10. l # None
    BY <1>2 DEF l
<1>11. CreatedCanVerify'
    <2>1. ASSUME NEW t \in told, t.answer = "created"
          PROVE  \E v \in User : HasEmail(v, t.email)' /\ (users'[v].verified \/ users'[v].link # None)
        <3>1. PICK v \in User : HasEmail(v, t.email) /\ (users[v].verified \/ users[v].link # None)
            BY <2>1 DEF IInv, CreatedCanVerify
        <3>2. users'[v].verified \/ users'[v].link # None
            BY <1>4, <1>10, <3>1
        <3> QED BY <1>8, <3>1, <3>2
    <2> QED BY <2>1 DEF CreatedCanVerify
<1>12. MailedLinkWorks'
    <2>1. ASSUME NEW m \in inbox
          PROVE  \E v \in User : HasEmail(v, m.email)' /\ (users'[v].verified \/ users'[v].link = m.link)
        <3>1. PICK v \in User : HasEmail(v, m.email) /\ (users[v].verified \/ users[v].link = m.link)
            BY DEF IInv, Mails, MailedLinkWorks
        <3>2. v # u
            BY <1>2, <3>1 DEF u
        <3> QED BY <1>4, <1>8, <3>1, <3>2
    <2> QED BY <2>1 DEF MailedLinkWorks
<1>13. VerifiedByMail'
    BY <1>7, <1>8 DEF IInv, Mails, VerifiedByMail
<1>14. LinksOwn'
    <2>1. ASSUME NEW m \in inbox, NEW v \in User, users'[v].link = m.link
          PROVE  HasEmail(v, m.email)'
        <3>1. v # u
            BY <1>2, <1>4, <2>1 DEF l
        <3>2. users[v].link = m.link
            BY <1>4, <2>1, <3>1
        <3>3. HasEmail(v, m.email)
            BY <3>2 DEF IInv, Mails, LinksOwn
        <3> QED BY <1>8, <3>3
    <2> QED BY <2>1 DEF LinksOwn
<1>15. PendingApart'
    BY <1>5 DEF IInv, PendingApart, u, l
<1>16. PendingHolds(w)'
    BY <1>2, <1>4, <1>5 DEF PendingHolds
<1>17. ASSUME NEW v \in Worker \ {w}
       PROVE  PendingHolds(v)'
    <2>1. PendingHolds(v) /\ req'[v] = req[v]
        BY <1>5 DEF IInv
    <2>2. ASSUME req[v].stage \in {"store", "mail", "issue"}
          PROVE  /\ req[v].user \in User \ {u} /\ req[v].link # l
                 /\ users'[req[v].user].email = req[v].email
                 /\ \A k \in User : users'[k].link = req[v].link => k = req[v].user
        <3>1. /\ req[v].user \in User /\ req[v].link \in Link
              /\ users[req[v].user].email = req[v].email
              /\ \A k \in User : users[k].link = req[v].link => k = req[v].user
            BY <2>1, <2>2 DEF PendingHolds
        <3>2. req[v].link # None
            BY <3>1
        <3>3. req[v].user # u /\ req[v].link # l
            BY <1>10, <3>2 DEF IInv, PendingApart, u, l
        <3>4. ASSUME NEW k \in User, users'[k].link = req[v].link
              PROVE  k = req[v].user
            <4>1. k # u
                BY <1>4, <3>3, <3>4
            <4>2. users'[k] = users[k]
                BY <1>4, <4>1
            <4> QED BY <3>1, <3>4, <4>2
        <3>5. users'[req[v].user].email = req[v].email
            BY <1>7, <3>1
        <3> QED BY <3>1, <3>3, <3>4, <3>5
    <2>3. req[v].stage = "store" => \A m \in inbox : ~HasEmail(req[v].user, m.email)'
        BY <1>8, <2>1, <2>2 DEF PendingHolds
    <2>4. req[v].stage = "mark" =>
            req[v].user \in User /\ \E m \in inbox : HasEmail(req[v].user, m.email)'
        BY <1>8, <2>1 DEF PendingHolds
    <2>5. req[v].stage = "avatar" => req[v].user \in User /\ users'[req[v].user].verified
        BY <1>7, <2>1 DEF PendingHolds
    <2>6. req[v].stage \in {"mail", "issue"} =>
            users'[req[v].user].verified \/ users'[req[v].user].link = req[v].link
        BY <1>4, <2>1, <2>2 DEF PendingHolds
    <2>7. /\ req[v].stage = "create" => req[v].email \in Address /\ req[v].phone \in Phone
          /\ req[v].link # None => req[v].stage \in {"store", "mail", "issue"}
          /\ req[v].stage \in {"store", "mail", "issue"} => req[v].link \in Link /\ req[v].email \in Address
          /\ req[v].stage \in {"store", "mail"} => \A m \in inbox : m.link # req[v].link
        BY <2>1 DEF PendingHolds
    <2> QED BY <2>1, <2>2, <2>3, <2>4, <2>5, <2>6, <2>7 DEF PendingHolds
<1> QED BY <1>6, <1>9, <1>11, <1>12, <1>13, <1>14, <1>15, <1>16, <1>17 DEF IInv, Mails

LEMMA StoreStep ==
    ASSUME IInv, NEW w \in Worker, StoreVerificationToken(w)
    PROVE  IInv'
<1>1. req[w].stage = "store" /\ UNCHANGED <<now, inbox, told>>
    BY DEF StoreVerificationToken
<1>2. CASE StoreFailed(w)
    <2>1. ToldType'
        BY <1>1 DEF IInv, TypeOK, ToldType
    <2> QED BY <1>1, <1>2, <2>1, FinishQuiet DEF StoreFailed
<1>3. CASE /\ users' = [users EXCEPT ![req[w].user].link = req[w].link,
                                     ![req[w].user].expires = LinkExpiry]
           /\ Goto(w, Following["store"])
    <2>1. req' = [req EXCEPT ![w].stage = "mail"]
        BY <1>3 DEF Goto, Following
    <2> QED BY <1>1, <1>3, <2>1, StoreRow
<1> QED BY <1>2, <1>3 DEF StoreVerificationToken

\* The mail, delivered or not.
LEMMA MailStep ==
    ASSUME IInv, NEW w \in Worker, SendVerificationEmail(w)
    PROVE  IInv'
<1> DEFINE u == req[w].user
           l == req[w].link
           e == req[w].email
           mail == [email |-> e, link |-> l]
<1>1. /\ req[w].stage = "mail" /\ UNCHANGED <<now, users, told>>
      /\ inbox' \in {inbox, inbox \cup {mail}}
      /\ req' = [req EXCEPT ![w].stage = "issue"]
    BY DEF SendVerificationEmail, Goto, Following
<1>2. PendingHolds(w) /\ req[w] \in Request
    BY DEF IInv, TypeOK
<1>3. /\ u \in User /\ l \in Link /\ e \in Address /\ users[u].email = e
      /\ \A v \in User : users[v].link = l => v = u
      /\ users[u].verified \/ users[u].link = l
      /\ mail \in [email: Address, link: Link] /\ mail.email = e /\ mail.link = l
    BY <1>1, <1>2 DEF PendingHolds
<1>4. /\ req' \in [Worker -> Request]
      /\ req'[w].stage = "issue" /\ req'[w].user = u /\ req'[w].link = l /\ req'[w].email = e
      /\ \A v \in Worker \ {w} : req'[v] = req[v]
    BY <1>1, <1>2 DEF IInv, TypeOK, Request, Stage
<1>5. HasEmail(u, e) /\ l # None
    BY <1>3 DEF HasEmail, Row
<1>6. PendingApart'
    BY <1>4 DEF IInv, PendingApart
<1>7. ASSUME NEW v \in Worker \ {w}, req[v].stage \in {"store", "mail"}
      PROVE  req[v].link # l /\ ~(req[v].stage = "store" /\ HasEmail(req[v].user, e))
    <2>1. /\ req[v].user \in User /\ req[v].link # None /\ users[req[v].user].email \in Address
        BY <1>7 DEF IInv, PendingHolds
    <2>2. req[v].link # l /\ req[v].user # u
        BY <1>5, <2>1 DEF IInv, PendingApart
    <2> QED BY <1>3, <1>5, <2>1, <2>2 DEF IInv, OneAccountPerContact, HasEmail
<1> HIDE DEF u, l, e, mail
<1>8. inbox' \subseteq inbox \cup {mail} /\ inbox \subseteq inbox'
    BY <1>1
<1>9. TypeOK'
    BY <1>1, <1>3, <1>4, <1>8 DEF IInv, TypeOK
<1>10. OneAccountPerContact' /\ CreatedCanVerify'
    BY <1>1 DEF IInv, OneAccountPerContact, CreatedCanVerify, HasEmail, Row
<1>11. \A v \in User : \A a : HasEmail(v, a)' <=> HasEmail(v, a)
    BY <1>1 DEF HasEmail, Row
<1>12. MailedLinkWorks'
    BY <1>1, <1>3, <1>5, <1>8, <1>11 DEF IInv, Mails, MailedLinkWorks
<1>13. VerifiedByMail'
    BY <1>1, <1>8, <1>11 DEF IInv, Mails, VerifiedByMail
<1>14. LinksOwn'
    BY <1>1, <1>3, <1>5, <1>8, <1>11 DEF IInv, Mails, LinksOwn
<1>15. PendingHolds(w)'
    BY <1>1, <1>3, <1>4 DEF PendingHolds
<1>16. ASSUME NEW v \in Worker \ {w}
       PROVE  PendingHolds(v)'
    <2>1. PendingHolds(v) /\ req'[v] = req[v] /\ users' = users
        BY <1>1, <1>4 DEF IInv
    <2>2. req[v].stage \in {"store", "mail"} => \A m \in inbox' : m.link # req[v].link
        BY <1>3, <1>7, <1>8, <2>1 DEF PendingHolds
    <2>3. req[v].stage = "store" => \A m \in inbox' : ~HasEmail(req[v].user, m.email)'
        BY <1>3, <1>7, <1>8, <1>11, <2>1 DEF PendingHolds
    <2>4. req[v].stage = "mark" =>
            req[v].user \in User /\ \E m \in inbox' : HasEmail(req[v].user, m.email)'
        BY <1>8, <1>11, <2>1 DEF PendingHolds
    <2> QED BY <2>1, <2>2, <2>3, <2>4 DEF PendingHolds
<1> QED BY <1>6, <1>9, <1>10, <1>12, <1>13, <1>14, <1>15, <1>16 DEF IInv, Mails

\* Marking an account verified takes its link, of which a mail is the witness.
\* The row keeps its contacts; other rows stay as they are.
LEMMA Marked ==
    ASSUME IInv, NEW w \in Worker, NEW u \in User, NEW new \in UserRow,
           UNCHANGED <<now, inbox, told>>, Finish(w),
           users' = [users EXCEPT ![u] = new],
           new.email = users[u].email, new.phone = users[u].phone,
           new.verified, new.link \in {users[u].link, None},
           \E m \in inbox : HasEmail(u, m.email)
    PROVE  IInv'
<1>1. /\ users' \in [User -> UserRow] /\ users'[u] = new
      /\ \A v \in User \ {u} : users'[v] = users[v]
    BY DEF IInv, TypeOK
<1>2. req' \in [Worker -> Request] /\ req'[w] = Idle /\ \A v \in Worker \ {w} : req'[v] = req[v]
    BY IdleType DEF Finish, IInv, TypeOK
<1>3. TypeOK'
    BY <1>1, <1>2 DEF IInv, TypeOK
<1>4. \A v \in User : /\ users'[v].email = users[v].email /\ users'[v].phone = users[v].phone
                      /\ users[v].verified => users'[v].verified
                      /\ users'[v].verified \/ users'[v].link = users[v].link
                      /\ users'[v].link \in {users[v].link, None}
                      /\ v # u => users'[v] = users[v]
    BY <1>1
<1>5. \A v \in User : (Row(v)' <=> Row(v)) /\ \A a : HasEmail(v, a)' <=> HasEmail(v, a)
    BY <1>4 DEF HasEmail, Row
<1>6. OneAccountPerContact'
    BY <1>4, <1>5 DEF IInv, OneAccountPerContact
<1>7. CreatedCanVerify'
    <2>1. ASSUME NEW t \in told, t.answer = "created"
          PROVE  \E v \in User : HasEmail(v, t.email)' /\ (users'[v].verified \/ users'[v].link # None)
        <3>1. PICK v \in User : HasEmail(v, t.email) /\ (users[v].verified \/ users[v].link # None)
            BY <2>1 DEF IInv, CreatedCanVerify
        <3>2. users'[v].verified \/ users'[v].link # None
            BY <1>4, <3>1
        <3> QED BY <1>5, <3>1, <3>2
    <2> QED BY <2>1 DEF CreatedCanVerify
<1>8. MailedLinkWorks'
    <2>1. ASSUME NEW m \in inbox
          PROVE  \E v \in User : HasEmail(v, m.email)' /\ (users'[v].verified \/ users'[v].link = m.link)
        <3>1. PICK v \in User : HasEmail(v, m.email) /\ (users[v].verified \/ users[v].link = m.link)
            BY DEF IInv, Mails, MailedLinkWorks
        <3>2. users'[v].verified \/ users'[v].link = m.link
            BY <1>4, <3>1
        <3> QED BY <1>5, <3>1, <3>2
    <2> QED BY <2>1 DEF MailedLinkWorks
<1>9. VerifiedByMail'
    <2>1. ASSUME NEW v \in User, users'[v].verified \/ users'[v].avatar
          PROVE  users'[v].verified /\ \E m \in inbox : HasEmail(v, m.email)'
        <3>1. CASE v = u
            BY <1>1, <1>5, <3>1
        <3>2. CASE v # u
            <4>1. users[v].verified /\ \E m \in inbox : HasEmail(v, m.email)
                BY <1>1, <2>1, <3>2 DEF IInv, Mails, VerifiedByMail
            <4> QED BY <1>1, <1>5, <3>2, <4>1
        <3> QED BY <3>1, <3>2
    <2> QED BY <2>1 DEF VerifiedByMail
<1>10. \A m \in inbox : m.link \in Link
    BY DEF IInv, TypeOK
<1>11. LinksOwn'
    <2>1. ASSUME NEW m \in inbox, NEW v \in User, users'[v].link = m.link
          PROVE  HasEmail(v, m.email)'
        <3>1. users[v].link = m.link
            BY <1>4, <1>10, <2>1
        <3> QED BY <1>5, <3>1 DEF IInv, Mails, LinksOwn
    <2> QED BY <2>1 DEF LinksOwn
<1>12. PendingApart'
    BY <1>2, IdleType, ApartKept DEF IInv
<1>13. PendingHolds(w)'
    BY <1>2, IdleType DEF PendingHolds
<1>14. ASSUME NEW v \in Worker \ {w}
       PROVE  PendingHolds(v)'
    <2>1. PendingHolds(v) /\ req'[v] = req[v]
        BY <1>2 DEF IInv
    <2>2. ASSUME req[v].stage \in {"store", "mail", "issue"}
          PROVE  /\ req[v].user \in User /\ req[v].link \in Link /\ req[v].email \in Address
                 /\ users'[req[v].user].email = req[v].email
                 /\ \A k \in User : users'[k].link = req[v].link => k = req[v].user
        <3>1. /\ req[v].user \in User /\ req[v].link \in Link /\ req[v].email \in Address
              /\ users[req[v].user].email = req[v].email
              /\ \A k \in User : users[k].link = req[v].link => k = req[v].user
            BY <2>1, <2>2 DEF PendingHolds
        <3>2. \A k \in User : users'[k].link = req[v].link => users[k].link = req[v].link
            BY <1>4, <3>1
        <3> QED BY <1>4, <3>1, <3>2
    <2>3. req[v].stage = "store" => \A m \in inbox : ~HasEmail(req[v].user, m.email)'
        BY <1>5, <2>1, <2>2 DEF PendingHolds
    <2>4. req[v].stage = "mark" =>
            req[v].user \in User /\ \E m \in inbox : HasEmail(req[v].user, m.email)'
        BY <1>5, <2>1 DEF PendingHolds
    <2>5. req[v].stage = "avatar" => req[v].user \in User /\ users'[req[v].user].verified
        BY <1>4, <2>1 DEF PendingHolds
    <2>6. req[v].stage \in {"mail", "issue"} =>
            users'[req[v].user].verified \/ users'[req[v].user].link = req[v].link
        BY <1>4, <2>1, <2>2 DEF PendingHolds
    <2>7. /\ req[v].stage = "create" => req[v].email \in Address /\ req[v].phone \in Phone
          /\ req[v].link # None => req[v].stage \in {"store", "mail", "issue"}
          /\ req[v].stage \in {"store", "mail"} => \A m \in inbox : m.link # req[v].link
        BY <2>1 DEF PendingHolds
    <2> QED BY <2>1, <2>2, <2>3, <2>4, <2>5, <2>6, <2>7 DEF PendingHolds
<1> QED BY <1>3, <1>6, <1>7, <1>8, <1>9, <1>11, <1>12, <1>13, <1>14 DEF IInv, Mails

LEMMA MarkStep ==
    ASSUME IInv, NEW w \in Worker, MarkEmailVerified(w)
    PROVE  IInv'
<1> DEFINE u == req[w].user
           old == users[u]
           new == [old EXCEPT !.verified = TRUE, !.link = None, !.expires = 0]
<1>1. /\ req[w].stage = "mark" /\ Finish(w) /\ UNCHANGED <<now, inbox, told>>
      /\ users' = [users EXCEPT ![u].verified = TRUE, ![u].link = None, ![u].expires = 0]
    BY DEF MarkEmailVerified
<1>2. u \in User /\ \E m \in inbox : HasEmail(u, m.email)
    BY <1>1 DEF IInv, PendingHolds
<1>3. old \in UserRow /\ users \in [User -> UserRow]
    BY <1>2 DEF IInv, TypeOK
<1> HIDE DEF u
<1>4. users' = [users EXCEPT ![u] = new]
    BY <1>1, <1>2, <1>3 DEF UserRow
<1> HIDE DEF old
<1>5. /\ new \in UserRow /\ new.verified /\ new.link = None
      /\ new.email = old.email /\ new.phone = old.phone
    BY <1>3 DEF UserRow
<1> HIDE DEF new
<1> QED BY <1>1, <1>2, <1>4, <1>5, Marked DEF old

LEMMA UpdateAvatarStep ==
    ASSUME IInv, NEW w \in Worker, UpdateAvatar(w)
    PROVE  IInv'
<1> DEFINE u == req[w].user
           old == users[u]
           new(set) == [old EXCEPT !.avatar = set]
<1>1. PICK set \in BOOLEAN : users' = [users EXCEPT ![u].avatar = set]
    BY DEF UpdateAvatar
<1>2. req[w].stage = "avatar" /\ Finish(w) /\ UNCHANGED <<now, inbox, told>>
    BY DEF UpdateAvatar
<1>3. u \in User /\ old.verified
    BY <1>2 DEF IInv, PendingHolds
<1>4. \E m \in inbox : HasEmail(u, m.email)
    BY <1>3 DEF IInv, Mails, VerifiedByMail
<1>5. old \in UserRow /\ users \in [User -> UserRow]
    BY <1>3 DEF IInv, TypeOK
<1> HIDE DEF u
<1>6. users' = [users EXCEPT ![u] = new(set)]
    BY <1>1, <1>3, <1>5 DEF UserRow
<1> HIDE DEF old
<1>7. /\ new(set) \in UserRow /\ new(set).verified /\ new(set).link = old.link
      /\ new(set).email = old.email /\ new(set).phone = old.phone
    BY <1>3, <1>5 DEF UserRow
<1> HIDE DEF new
<1> QED BY <1>2, <1>3, <1>4, <1>6, <1>7, Marked DEF old

-----------------------------------------------------------------------------
(* Theorems *)

LEMMA InitHolds == Init => IInv
<1> SUFFICES ASSUME Init PROVE IInv
    OBVIOUS
<1>1. NoUser \in UserRow
    BY DEF NoUser, UserRow
<1>2. TypeOK
    BY <1>1, IdleType DEF Init, TypeOK
<1>3. OneAccountPerContact /\ CreatedCanVerify
    BY DEF Init, OneAccountPerContact, CreatedCanVerify, Row, NoUser
<1>4. Mails /\ PendingApart
    BY IdleType DEF Init, Mails, MailedLinkWorks, VerifiedByMail, LinksOwn, PendingApart, NoUser
<1>5. \A w \in Worker : PendingHolds(w)
    BY IdleType DEF Init, PendingHolds
<1> QED BY <1>2, <1>3, <1>4, <1>5 DEF IInv

LEMMA NextHolds ==
    ASSUME IInv, [Next]_vars
    PROVE  IInv'
<1>1. ASSUME NEW w \in Worker, Step(w)
      PROVE  IInv'
    <2>1. ASSUME Abort(w)
          PROVE  IInv'
        <3>1. ToldType'
            BY <2>1 DEF Abort, IInv, TypeOK, ToldType
        <3> QED BY <2>1, <3>1, FinishQuiet DEF Abort
    <2> QED BY <1>1, <2>1, CreateUserStep, StoreStep, MailStep, IssueTokensStep, MarkStep,
               UpdateAvatarStep DEF Step
<1>2. ASSUME Tick
      PROVE  IInv'
    <2>1. now' \in Nat
        <3>1. now \in Nat
            BY DEF IInv, TypeOK
        <3> QED BY <1>2, <3>1 DEF Tick
    <2> QED BY <1>2, <2>1, StandStill DEF Tick
<1>3. ASSUME UNCHANGED vars
      PROVE  IInv'
    <2>1. now' \in Nat
        BY <1>3 DEF vars, IInv, TypeOK
    <2> QED BY <1>3, <2>1, StandStill DEF vars
<1> QED BY <1>1, <1>2, <1>3, SignUpStep, SignUpTakenStep, VerifyEmailStep, RequireVerifiedStep DEF Next

\* Every reachable state satisfies the inductive invariant.
THEOREM Invariant == Spec => []IInv
BY InitHolds, NextHolds, PTL DEF Spec

\* Rows, mails, requests and answers keep their types.
THEOREM TypeCorrect == Spec => []TypeOK
<1>1. IInv => TypeOK
    BY DEF IInv
<1> QED BY <1>1, Invariant, PTL

\* However many sign-ups race, no two accounts share an address or a phone
\* (SignUp, the unique indexes of users).
THEOREM UniqueContacts == Spec => []OneAccountPerContact
<1>1. IInv => OneAccountPerContact
    BY DEF IInv
<1> QED BY <1>1, Invariant, PTL

\* An announced account can be verified or is (SignUp answers 201 only after
\* the link was stored).
THEOREM CreatedVerifiable == Spec => []CreatedCanVerify
<1>1. IInv => CreatedCanVerify
    BY DEF IInv
<1> QED BY <1>1, Invariant, PTL

\* A delivered link stays good until its account is verified (SignUp stores
\* the link, then mails it; no other sign-up writes that row).
THEOREM MailedLinksWork == Spec => []MailedLinkWorks
<1>1. IInv => MailedLinkWorks
    BY DEF IInv, Mails
<1> QED BY <1>1, Invariant, PTL

\* Whoever is verified, or shows an avatar, was reached at his own address
\* (VerifyEmail, RequireVerified).
THEOREM VerificationNeedsMail == Spec => []VerifiedByMail
<1>1. IInv => VerifiedByMail
    BY DEF IInv, Mails
<1> QED BY <1>1, Invariant, PTL

-----------------------------------------------------------------------------
(* The abstract specification *)

\* The accounts, and whom mail has reached, as Registry knows them.
Accts == [u \in User |-> AccountOf(u)]
Mailed == [u \in User |-> Reached(u)]

LEMMA SameAccounts ==
    ASSUME \A u \in User : AccountOf(u)' = AccountOf(u)
    PROVE  Accts' = Accts
BY DEF Accts

LEMMA SameReached ==
    ASSUME UNCHANGED inbox, \A u \in User : users'[u].email = users[u].email
    PROVE  Mailed' = Mailed
<1>1. \A u \in User : Reached(u)' = Reached(u)
    BY DEF Reached, HasEmail, Row
<1> QED BY <1>1 DEF Mailed

LEMMA OneAccount ==
    ASSUME NEW u \in User, \A v \in User \ {u} : users'[v] = users[v]
    PROVE  Accts' = [Accts EXCEPT ![u] = AccountOf(u)']
<1>1. \A v \in User \ {u} : AccountOf(v)' = AccountOf(v)
    BY DEF AccountOf
<1>2. Accts' = [v \in User |-> AccountOf(v)'] /\ Accts = [v \in User |-> AccountOf(v)]
    BY DEF Accts
<1> HIDE DEF Accts
<1> QED BY <1>1, <1>2

\* A step that writes one row.
LEMMA OneRow ==
    ASSUME IInv, NEW u \in User, NEW new, users' = [users EXCEPT ![u] = new]
    PROVE  users'[u] = new /\ \A v \in User \ {u} : users'[v] = users[v]
BY DEF IInv, TypeOK

\* A step that writes no row and sends no mail is none of Registry's.
LEMMA NoAccountStep ==
    ASSUME UNCHANGED <<users, inbox>>
    PROVE  UNCHANGED <<Accts, Mailed>>
BY SameAccounts, SameReached DEF AccountOf

\* No mail went to an address before it had an account, and mail never goes to
\* one that is gone: the row is new and nobody has been written to at it.
LEMMA CreateRegisters ==
    ASSUME IInv, NEW w \in Worker, CreateUser(w)
    PROVE  \/ \E u \in User, e \in Address, p \in Phone : Atomic!Register(u, e, p)
           \/ UNCHANGED <<Accts, Mailed>>
<1> DEFINE e == req[w].email
           p == req[w].phone
<1>1. CASE UNCHANGED users
    BY <1>1, NoAccountStep DEF CreateUser
<1>2. ASSUME NEW u \in User, ~Row(u), \A v \in User : ~Conflicts(v, e, p),
             users' = [users EXCEPT ![u].email = e, ![u].phone = p], UNCHANGED inbox
      PROVE  Atomic!Register(u, e, p) /\ e \in Address /\ p \in Phone
    <2>1. e \in Address /\ p \in Phone
        BY DEF CreateUser, IInv, PendingHolds
    <2> HIDE DEF e, p
    <2>2. users \in [User -> UserRow]
        BY DEF IInv, TypeOK
    <2>3. ~users[u].verified /\ ~users[u].avatar
        BY <1>2 DEF IInv, Mails, VerifiedByMail, HasEmail
    <2>4. /\ users'[u].email = e /\ users'[u].phone = p
          /\ users'[u].verified = FALSE /\ users'[u].avatar = FALSE
          /\ \A v \in User \ {u} : users'[v] = users[v]
        <3>1. /\ users'[u].email = e /\ users'[u].phone = p
              /\ users'[u].verified = users[u].verified /\ users'[u].avatar = users[u].avatar
              /\ \A v \in User \ {u} : users'[v] = users[v]
            BY <1>2, <2>2 DEF UserRow
        <3>2. users[u].verified \in BOOLEAN /\ users[u].avatar \in BOOLEAN
            BY <2>2 DEF UserRow
        <3> QED BY <2>3, <3>1, <3>2
    <2>5. Accts' = [Accts EXCEPT ![u] =
                      [email |-> e, phone |-> p, verified |-> FALSE, avatar |-> FALSE]]
        <3>1. AccountOf(u)' = [email |-> e, phone |-> p, verified |-> FALSE, avatar |-> FALSE]
            BY <2>4 DEF AccountOf
        <3> QED BY <2>4, <3>1, OneAccount
    <2>6. Mailed' = Mailed
        <3>1. \A m \in inbox : ~HasEmail(u, m.email) /\ ~HasEmail(u, m.email)'
            <4> SUFFICES ASSUME NEW m \in inbox
                         PROVE  ~HasEmail(u, m.email) /\ ~HasEmail(u, m.email)'
                OBVIOUS
            <4>1. PICK v \in User : HasEmail(v, m.email)
                BY DEF IInv, Mails, MailedLinkWorks
            <4>2. v # u /\ Lower[users[v].email] = Lower[m.email]
                BY <1>2, <4>1 DEF HasEmail
            <4>3. Lower[e] # Lower[m.email]
                BY <1>2, <4>1, <4>2 DEF Conflicts, EmailKey, HasEmail
            <4> QED BY <1>2, <2>4, <4>3 DEF HasEmail, Row
        <3>2. \A v \in User \ {u} : Reached(v)' = Reached(v)
            BY <1>2, <2>4 DEF Reached, HasEmail, Row
        <3>3. Reached(u)' = FALSE /\ Reached(u) = FALSE
            BY <1>2, <3>1 DEF Reached
        <3> QED BY <3>2, <3>3 DEF Mailed
    <2>7. Accts[u].email = None
        BY <1>2 DEF Accts, AccountOf, Row
    <2>8. \A v \in User : ~(Accts[v].email # None
                             /\ (Lower[Accts[v].email] = Lower[e] \/ Accts[v].phone = p))
        BY <1>2 DEF Accts, AccountOf, Row, Conflicts, EmailKey
    <2> QED BY <2>1, <2>5, <2>6, <2>7, <2>8
            DEF Atomic!Register, Atomic!Exists, Atomic!Uses, Accts, Mailed
<1> QED BY <1>1, <1>2 DEF CreateUser

\* Storing a link leaves what others see of the account.
LEMMA StoreUnseen ==
    ASSUME IInv, NEW w \in Worker, StoreVerificationToken(w)
    PROVE  UNCHANGED <<Accts, Mailed>>
<1>1. CASE UNCHANGED users
    BY <1>1, NoAccountStep DEF StoreVerificationToken
<1>2. ASSUME NEW u \in User, UNCHANGED inbox,
             users' = [users EXCEPT ![u].link = req[w].link, ![u].expires = LinkExpiry]
      PROVE  UNCHANGED <<Accts, Mailed>>
    <2>1. users \in [User -> UserRow] /\ users[u] \in UserRow
        BY <1>2 DEF IInv, TypeOK
    <2>2. PICK new : new = [users[u] EXCEPT !.link = req[w].link, !.expires = LinkExpiry]
        OBVIOUS
    <2>3. users' = [users EXCEPT ![u] = new]
        BY <1>2, <2>1, <2>2 DEF UserRow
    <2>4. /\ new.email = users[u].email /\ new.phone = users[u].phone
          /\ new.verified = users[u].verified /\ new.avatar = users[u].avatar
        BY <2>1, <2>2 DEF UserRow
    <2>5. users'[u] = new /\ \A v \in User \ {u} : users'[v] = users[v]
        BY <1>2, <2>3, OneRow
    <2>6. \A v \in User : users'[v].email = users[v].email
        BY <2>4, <2>5
    <2>7. AccountOf(u)' = AccountOf(u)
        BY <2>4, <2>5 DEF AccountOf
    <2>8. \A v \in User \ {u} : AccountOf(v)' = AccountOf(v)
        BY <2>5 DEF AccountOf
    <2> QED BY <1>2, <2>6, <2>7, <2>8, SameAccounts, SameReached
<1>3. req[w].stage = "store" => req[w].user \in User
    BY DEF IInv, PendingHolds
<1> QED BY <1>1, <1>2, <1>3 DEF StoreVerificationToken, StoreFailed

\* Mail reaches the account that the sign-up made, and no other.
LEMMA MailReaches ==
    ASSUME IInv, NEW w \in Worker, SendVerificationEmail(w)
    PROVE  (\E u \in User : Atomic!Reach(u)) \/ UNCHANGED <<Accts, Mailed>>
<1>1. CASE UNCHANGED inbox
    BY <1>1, NoAccountStep DEF SendVerificationEmail
<1>2. CASE inbox' = inbox \cup {[email |-> req[w].email, link |-> req[w].link]}
    <2>1. PICK u \in User : users[u].email = req[w].email /\ users[u].email \in Address
        BY DEF SendVerificationEmail, IInv, PendingHolds
    <2>2. PICK mail : mail = [email |-> req[w].email, link |-> req[w].link]
        OBVIOUS
    <2>3. inbox' = inbox \cup {mail} /\ mail.email = req[w].email
        BY <1>2, <2>2
    <2>4. HasEmail(u, mail.email) /\ \A v \in User \ {u} : ~HasEmail(v, mail.email)
        BY <2>1, <2>3 DEF HasEmail, Row, IInv, OneAccountPerContact
    <2>5. \A v \in User : \A a : HasEmail(v, a)' <=> HasEmail(v, a)
        BY DEF SendVerificationEmail, HasEmail, Row
    <2>6. \A v \in User \ {u} : Reached(v)' = Reached(v)
        BY <2>3, <2>4, <2>5 DEF Reached
    <2>7. Reached(u)'
        <3>1. HasEmail(u, mail.email)'
            BY <2>4, <2>5
        <3> QED BY <2>3, <3>1 DEF Reached
    <2>8. Mailed' = [Mailed EXCEPT ![u] = TRUE]
        <3>1. Reached(u)' = TRUE
            BY <2>7 DEF Reached
        <3> QED BY <2>6, <3>1 DEF Mailed
    <2>9. Accts' = Accts
        BY SameAccounts DEF SendVerificationEmail, AccountOf
    <2>10. Accts[u].email # None
        BY <2>1 DEF Accts, AccountOf
    <2> QED BY <2>8, <2>9, <2>10 DEF Atomic!Reach, Atomic!Exists, Accts, Mailed
<1> QED BY <1>1, <1>2 DEF SendVerificationEmail

\* The account that is marked is one whose mail was read.
LEMMA MarkVerifies ==
    ASSUME IInv, NEW w \in Worker, MarkEmailVerified(w)
    PROVE  \E u \in User : Atomic!Verify(u)
<1>1. PICK u \in User : u = req[w].user /\ \E m \in inbox : HasEmail(u, m.email)
    BY DEF MarkEmailVerified, IInv, PendingHolds
<1>2. /\ users' = [users EXCEPT ![u].verified = TRUE, ![u].link = None, ![u].expires = 0]
      /\ UNCHANGED inbox
    BY <1>1 DEF MarkEmailVerified
<1>3. users \in [User -> UserRow] /\ users[u] \in UserRow
    BY <1>1 DEF IInv, TypeOK
<1>4. PICK new : new = [users[u] EXCEPT !.verified = TRUE, !.link = None, !.expires = 0]
    OBVIOUS
<1>5. users' = [users EXCEPT ![u] = new]
    BY <1>1, <1>2, <1>3, <1>4 DEF UserRow
<1>6. /\ new.email = users[u].email /\ new.phone = users[u].phone
      /\ new.verified = TRUE /\ new.avatar = users[u].avatar
    BY <1>3, <1>4 DEF UserRow
<1>7. users'[u] = new /\ \A v \in User \ {u} : users'[v] = users[v]
    BY <1>5, OneRow
<1>8. Accts' = [Accts EXCEPT ![u].verified = TRUE]
    <2>1. PICK yes : yes = TRUE
        OBVIOUS
    <2>2. AccountOf(u)' = [email |-> users[u].email, phone |-> users[u].phone,
                           verified |-> yes, avatar |-> users[u].avatar]
        BY <1>6, <1>7, <2>1 DEF AccountOf
    <2>3. AccountOf(u)' = [AccountOf(u) EXCEPT !.verified = yes]
        BY <2>2 DEF AccountOf
    <2>4. Accts' = [Accts EXCEPT ![u] = AccountOf(u)'] /\ Accts[u] = AccountOf(u)
        BY <1>7, OneAccount DEF Accts
    <2>5. Accts' = [Accts EXCEPT ![u].verified = yes]
        BY <2>3, <2>4
    <2> QED BY <2>1, <2>5
<1>9. Mailed[u] /\ Mailed' = Mailed
    <2>1. \A v \in User : users'[v].email = users[v].email
        BY <1>6, <1>7
    <2> QED BY <1>1, <1>2, <2>1, SameReached DEF Mailed, Reached
<1> QED BY <1>8, <1>9 DEF Atomic!Verify, Accts, Mailed

LEMMA AvatarSets ==
    ASSUME IInv, NEW w \in Worker, UpdateAvatar(w)
    PROVE  \E u \in User, set \in BOOLEAN : Atomic!SetAvatar(u, set)
<1>1. PICK u \in User : u = req[w].user /\ users[u].verified
    BY DEF UpdateAvatar, IInv, PendingHolds
<1>2. PICK set \in BOOLEAN : users' = [users EXCEPT ![u].avatar = set] /\ UNCHANGED inbox
    BY <1>1 DEF UpdateAvatar
<1>3. users \in [User -> UserRow] /\ users[u] \in UserRow
    BY <1>1 DEF IInv, TypeOK
<1>4. PICK new : new = [users[u] EXCEPT !.avatar = set]
    OBVIOUS
<1>5. users' = [users EXCEPT ![u] = new]
    BY <1>1, <1>2, <1>3, <1>4 DEF UserRow
<1>6. /\ new.email = users[u].email /\ new.phone = users[u].phone
      /\ new.verified = users[u].verified /\ new.avatar = set
    BY <1>3, <1>4 DEF UserRow
<1>7. users'[u] = new /\ \A v \in User \ {u} : users'[v] = users[v]
    BY <1>5, OneRow
<1>8. Accts' = [Accts EXCEPT ![u].avatar = set]
    <2>1. AccountOf(u)' = [email |-> users[u].email, phone |-> users[u].phone,
                           verified |-> users[u].verified, avatar |-> set]
        BY <1>6, <1>7 DEF AccountOf
    <2>2. AccountOf(u)' = [AccountOf(u) EXCEPT !.avatar = set]
        BY <2>1 DEF AccountOf
    <2>3. Accts' = [Accts EXCEPT ![u] = AccountOf(u)'] /\ Accts[u] = AccountOf(u)
        BY <1>7, OneAccount DEF Accts
    <2> QED BY <2>2, <2>3
<1>9. Accts[u].verified /\ Mailed' = Mailed
    <2>1. \A v \in User : users'[v].email = users[v].email
        BY <1>6, <1>7
    <2> QED BY <1>1, <1>2, <2>1, SameReached DEF Accts, AccountOf
<1> QED BY <1>8, <1>9 DEF Atomic!SetAvatar, Accts, Mailed

\* Sign-up, verification and the avatar, statement by statement, implement the
\* single steps of Registry, whatever races, fails or dies on the way.
THEOREM RegistryRefinement == Spec => RegistrySpec
<1>1. Init => Atomic!Init
    BY DEF Init, NoUser, AccountOf, Reached, Atomic!Init, Atomic!Nobody
<1>2. ASSUME IInv, [Next]_vars
      PROVE  Atomic!Next \/ UNCHANGED <<Accts, Mailed>>
    <2>1. ASSUME NEW w \in Worker, CreateUser(w)
          PROVE  Atomic!Next \/ UNCHANGED <<Accts, Mailed>>
        BY <1>2, <2>1, CreateRegisters DEF Atomic!Next
    <2>2. ASSUME NEW w \in Worker, StoreVerificationToken(w)
          PROVE  UNCHANGED <<Accts, Mailed>>
        BY <1>2, <2>2, StoreUnseen
    <2>3. ASSUME NEW w \in Worker, SendVerificationEmail(w)
          PROVE  Atomic!Next \/ UNCHANGED <<Accts, Mailed>>
        BY <1>2, <2>3, MailReaches DEF Atomic!Next
    <2>4. ASSUME NEW w \in Worker, MarkEmailVerified(w)
          PROVE  Atomic!Next
        BY <1>2, <2>4, MarkVerifies DEF Atomic!Next
    <2>5. ASSUME NEW w \in Worker, UpdateAvatar(w)
          PROVE  Atomic!Next
        BY <1>2, <2>5, AvatarSets DEF Atomic!Next
    <2>6. CASE UNCHANGED <<users, inbox>>
        BY <2>6, NoAccountStep
    <2>7. ASSUME NEW w \in Worker, IssueTokens(w) \/ Abort(w)
          PROVE  UNCHANGED <<users, inbox>>
        BY <2>7 DEF IssueTokens, Abort
    <2>8. (\E w \in Worker : Step(w)) \/ UNCHANGED <<users, inbox>>
        BY <1>2 DEF Next, SignUp, VerifyEmail, RequireVerified, SignUpTaken, Tick, vars
    <2> QED BY <2>1, <2>2, <2>3, <2>4, <2>5, <2>6, <2>7, <2>8 DEF Step
<1>3. IInv /\ [Next]_vars => [Atomic!Next]_Atomic!vars
    BY <1>2 DEF Atomic!vars, Accts, Mailed
<1> QED BY <1>1, <1>3, Invariant, PTL DEF Spec, RegistrySpec, Atomic!Spec
=============================================================================
