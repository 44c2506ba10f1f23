----------------------------- MODULE PanelProofs -----------------------------
(* What holds of the parts of Panel for every value of the constants. Each   *)
(* section is about one part: the inductive invariant, its lemmas, one per   *)
(* kind of step, and the theorem.                                            *)
EXTENDS Panel, FiniteSetTheorems, WellFoundedInduction, TLAPS
-----------------------------------------------------------------------------
(* Accounts                                                                  *)
Mailable == Addresses \cup {None}
AccountRow == [is : {"new", "live", "gone"}, addr : Mailable, ok : BOOLEAN, has : SUBSET Accounts!AllGoods,
               via : {"none", "open", "code", "admin", "oauth"}, banned : BOOLEAN, cut : BOOLEAN]
IdentityRow == [user : Users, prov : BOOLEAN]
LoginRow == [user : Users, by : {"panel", "provider"}]
Asking == [at : {"create"}, via : {"open", "code", "admin"}, verify : BOOLEAN, addr : Mailable, user : {None}]
Making == [at : {"mail", "provision", "spend", "session"}, via : {"open", "code", "admin"},
           verify : BOOLEAN, addr : Mailable, user : Users]
Granting == [at : {"provision"}, user : Users, via : {"grant", "verify"}]
Linking == [at : {"verified", "link"}, user : Users]
Entering == [at : {"bind", "supply", "mark", "oauthSession"}, subject : Subjects, user : Users]
Errand == {Accounts!Idle} \cup Asking \cup Making \cup Granting \cup Linking
          \cup [at : {"asked"}, user : Users \cup {None}]
          \cup [at : {"enter"}, subject : Subjects, user : {None}] \cup Entering

AccountsTyped ==
  /\ user \in [Users -> AccountRow]
  /\ identity \in [Subjects -> IdentityRow \cup {None}]
  /\ session \subseteq LoginRow /\ token \subseteq Users
  /\ job \in [Jobs -> Errand]

\* Accounts that hold a place of the code which they have not paid for yet
Unspent == {job[j].user : j \in {i \in Jobs : job[i].at \in {"provision", "spend"} /\ job[i].via = "code"}}
Invited == {u \in Users : Accounts!Live(u) /\ user[u].via = "code" /\ ~user[u].cut}

PlacesKept ==
  /\ code.used \in Nat /\ code.used <= MaxUses /\ code \in [state : {"on", "off", "gone"}, used : Nat]
  /\ Cardinality(Invited \ Unspent) <= code.used
  /\ \A j \in Jobs : job[j].at = "create" /\ job[j].verify => job[j].via # "code"

\* An account the provider made has everything
Complete(u) == user[u].via = "oauth" => user[u].has = Accounts!AllGoods

\* An identity leads to a live account, and an account the provider made has one
IdentitiesLead ==
  /\ \A s \in Subjects : identity[s] # None =>
       Accounts!Live(identity[s].user) /\ (identity[s].prov => Complete(identity[s].user))
  /\ \A u \in Users : Accounts!Live(u) /\ user[u].via = "oauth" =>
       \E s \in Subjects : identity[s] # None /\ identity[s].user = u

\* What a callback still has to do is about the account of its identity
CallbacksFollow ==
  \A j \in Jobs :
    /\ job[j].at \in {"supply", "mark"} =>
         LET s == job[j].subject IN
           identity[s] # None /\ user[identity[s].user].via = "oauth" => identity[s].user = job[j].user
    /\ job[j].at \in {"mark", "oauthSession"} /\ Accounts!Live(job[j].user) => Complete(job[j].user)

LoginsComplete == \A s \in session : Accounts!Live(s.user) /\ (s.by = "provider" => Complete(s.user))

AccountsInv == AccountsTyped /\ PlacesKept /\ IdentitiesLead /\ CallbacksFollow /\ LoginsComplete

LEMMA NoAccountYet == Accounts!Row("new", None) \in AccountRow /\ Accounts!Row("gone", None) \in AccountRow
BY DEF Accounts!Row, AccountRow, Mailable

LEMMA AccountsInit == ASSUME AccountsSane, Accounts!Init PROVE AccountsInv
<1>1. user \in [Users -> AccountRow] /\ \A u \in Users : ~Accounts!Live(u)
      BY NoAccountYet DEF Accounts!Init, Accounts!Live, Accounts!Row
<1>2. job \in [Jobs -> Errand] /\ \A j \in Jobs : job[j].at = "idle"
      BY DEF Accounts!Init, Errand, Accounts!Idle
<1>3. AccountsTyped
      BY <1>1, <1>2 DEF Accounts!Init, AccountsTyped
<1>4. Invited \ Unspent = {}
      BY <1>1 DEF Invited
<1>5. PlacesKept
      BY <1>2, <1>4, FS_EmptySet DEF Accounts!Init, PlacesKept, AccountsSane
<1>6. IdentitiesLead /\ CallbacksFollow /\ LoginsComplete
      BY <1>1, <1>2 DEF Accounts!Init, IdentitiesLead, CallbacksFollow, LoginsComplete
<1> QED BY <1>3, <1>5, <1>6 DEF AccountsInv

\* A request at each step is of its shape
LEMMA Errands ==
  ASSUME AccountsTyped, NEW j \in Jobs
  PROVE  /\ job[j].at = "create" => job[j] \in Asking
         /\ job[j].at \in {"mail", "spend", "session"} => job[j] \in Making
         /\ job[j].at = "provision" => job[j] \in Making \cup Granting
         /\ job[j].at \in {"verified", "link"} => job[j].user \in Users
         /\ job[j].at = "asked" => job[j].user \in Users \cup {None}
         /\ job[j].at = "enter" => job[j].subject \in Subjects
         /\ job[j].at \in {"bind", "supply", "mark", "oauthSession"} => job[j] \in Entering
BY DEF AccountsTyped, Errand, Accounts!Idle, Asking, Making, Granting, Linking, Entering

-----------------------------------------------------------------------------
(* What a step does to the accounts                                          *)

\* An account goes with its identities, links and sessions
Goes(u) ==
  /\ Accounts!Live(u)
  /\ user' = [user EXCEPT ![u] = Accounts!Row("gone", None)]
  /\ token' = token \ {u}
  /\ session' = {s \in session : s.user # u}
  /\ \A s \in Subjects : identity'[s] = IF identity[s] # None /\ identity[s].user = u THEN None ELSE identity[s]
  /\ identity' \in [Subjects -> IdentityRow \cup {None}]

LEMMA ErasedGoes == ASSUME AccountsTyped, NEW u, Accounts!Live(u), Accounts!Erased(u) PROVE Goes(u)
BY DEF Accounts!Erased, Goes, AccountsTyped

\* A row that is written stays live, keeps how it came to be, and loses nothing
Edited(x, y) ==
  /\ y \in AccountRow /\ y.is = x.is /\ y.via = x.via /\ x.has \subseteq y.has /\ (x.cut => y.cut)

LEMMA EditsKeep ==
  ASSUME NEW x \in AccountRow
  PROVE  /\ Edited(x, x)
         /\ \A g \in SUBSET Accounts!AllGoods : Edited(x, [x EXCEPT !.has = x.has \cup g])
         /\ \A b \in BOOLEAN : Edited(x, [x EXCEPT !.ok = b]) /\ Edited(x, [x EXCEPT !.banned = b])
         /\ \A a \in Mailable, b \in BOOLEAN : Edited(x, [x EXCEPT !.addr = a, !.ok = b])
         /\ Edited(x, [x EXCEPT !.cut = TRUE])
BY DEF AccountRow, Edited

\* A new row becomes an account
Opened(u, y) ==
  /\ u \in Users /\ user[u].is = "new" /\ y \in AccountRow /\ y.is = "live"
  /\ user' = [user EXCEPT ![u] = y] /\ UNCHANGED <<session, token, code>>

Turn(j) ==
  \/ Accounts!Register(j) \/ Accounts!AdminCreateUser(j) \/ Accounts!CreateUser(j) \/ Accounts!CreateVerifyToken(j)
  \/ Accounts!ProvisionClient(j) \/ Accounts!FinalizeRegCode(j) \/ Accounts!IssueLogin(j)
  \/ Accounts!UseVerifyToken(j) \/ Accounts!SetEmailVerified(j) \/ Accounts!BindEmail(j) \/ Accounts!ResendVerify(j)
  \/ Accounts!CreateEmailToken(j) \/ Accounts!GrantPackage(j)
  \/ Accounts!StartOAuth(j) \/ Accounts!OAuthCallback(j) \/ Accounts!BindOAuthIdentity(j) \/ Accounts!OAuthLoginUser(j)
  \/ Accounts!ProvisionOAuth(j) \/ Accounts!MarkOAuthProvisioned(j) \/ Accounts!IssueOAuthLogin(j)

LEMMA NewIsNew == ASSUME Accounts!New # {}, NEW u, u = CHOOSE x \in Accounts!New : TRUE PROVE u \in Users /\ user[u].is = "new"
BY DEF Accounts!New

\* Registration: the request goes on with the id
LEMMA CreateOpens ==
  ASSUME AccountsTyped, NEW j \in Jobs, Accounts!CreateUser(j), NEW u, u = CHOOSE x \in Accounts!New : TRUE
  PROVE  \/ job' = [job EXCEPT ![j] = Accounts!Idle] /\ UNCHANGED <<user, session, token, code, identity>>
         \/ /\ Opened(u, Accounts!Account(job[j].addr, job[j].via, job[j].via = "admin")) /\ UNCHANGED identity
            /\ job'[j] \in Making /\ job'[j].user = u /\ job'[j].via = job[j].via
            /\ job'[j].at = IF job[j].verify THEN "mail" ELSE "provision"
            /\ \A i \in Jobs \ {j} : job'[i] = job[i]
            /\ Accounts!Account(job[j].addr, job[j].via, job[j].via = "admin").via = job[j].via
<1>1. job[j] \in Asking
      BY Errands DEF Accounts!CreateUser
<1>2. CASE Accounts!AddressTaken(job[j].addr) \/ Accounts!New = {}
      BY <1>2 DEF Accounts!CreateUser, Accounts!Go
<1>3. CASE ~(Accounts!AddressTaken(job[j].addr) \/ Accounts!New = {})
  <2> DEFINE at == IF job[j].verify THEN "mail" ELSE "provision"
             next == [job[j] EXCEPT !.user = u, !.at = at]
             y == Accounts!Account(job[j].addr, job[j].via, job[j].via = "admin")
  <2>1. user' = [user EXCEPT ![u] = y] /\ job' = [job EXCEPT ![j] = next] /\ UNCHANGED <<session, token, code, identity>>
        BY <1>3 DEF Accounts!CreateUser, Accounts!Go
  <2>2. u \in Users /\ user[u].is = "new"
        BY <1>3, NewIsNew
  <2>3. y \in AccountRow /\ y.is = "live" /\ y.via = job[j].via
    <3>1. \A b \in BOOLEAN : LET x == Accounts!Account(job[j].addr, job[j].via, b) IN
            x \in AccountRow /\ x.is = "live" /\ x.via = job[j].via
          BY <1>1 DEF Accounts!Account, Accounts!Row, AccountRow, Asking, Mailable
    <3>2. (job[j].via = "admin") \in BOOLEAN
          OBVIOUS
    <3> QED BY <3>1, <3>2
  <2>4. at \in {"mail", "provision"}
        OBVIOUS
  <2> HIDE DEF at, y
  <2>5. next \in Making /\ next.user = u /\ next.via = job[j].via /\ next.at = at
        BY <1>1, <2>2, <2>4 DEF Asking, Making
  <2> HIDE DEF next
  <2>6. job'[j] = next /\ \A i \in Jobs \ {j} : job'[i] = job[i]
        BY <2>1 DEF AccountsTyped
  <2> QED BY <2>1, <2>2, <2>3, <2>5, <2>6 DEF Opened, at, y
<1> QED BY <1>2, <1>3

\* A subject without an identity gets one, and an account for it
FirstLogin(j, s, u, z) ==
  /\ s \in Subjects /\ identity[s] = None /\ Opened(u, z) /\ z.via = "oauth"
  /\ identity' \in [Subjects -> IdentityRow \cup {None}]
  /\ \A x \in Subjects : identity'[x] = IF x = s THEN [user |-> u, prov |-> FALSE] ELSE identity[x]
  /\ job'[j] \in Entering /\ job'[j].at = "supply" /\ job'[j].subject = s /\ job'[j].user = u

\* The identity provider: the account of the identity, or a new one with it
LEMMA ProviderOpens ==
  ASSUME AccountsTyped, AccountsSane, NEW j \in Jobs, Accounts!OAuthLoginUser(j), NEW s, s = job[j].subject
  PROVE  /\ s \in Subjects /\ Accounts!Finalizing = {} /\ UNCHANGED <<session, token, code>>
         /\ \A i \in Jobs \ {j} : job'[i] = job[i]
         /\ \/ UNCHANGED <<user, identity>> /\ job'[j] = Accounts!Idle
            \/ /\ UNCHANGED <<user, identity>> /\ identity[s] # None /\ job'[j] \in Entering
               /\ job'[j].at = (IF identity[s].prov THEN "oauthSession" ELSE "supply")
               /\ job'[j].subject = s /\ job'[j].user = identity[s].user
            \/ \E u, z : FirstLogin(j, s, u, z)
<1>1. s \in Subjects /\ job \in [Jobs -> Errand] /\ UNCHANGED <<session, token, code>> /\ Accounts!Finalizing = {}
      BY Errands DEF Accounts!OAuthLoginUser, AccountsTyped
<1> DEFINE u == CHOOSE x \in Accounts!New : TRUE
<1>2. CASE /\ identity[s] # None
           /\ Accounts!Go(j, IF user[identity[s].user].banned THEN Accounts!Idle
                             ELSE [at |-> IF identity[s].prov THEN "oauthSession" ELSE "supply",
                                   subject |-> s, user |-> identity[s].user])
           /\ UNCHANGED <<user, identity>>
  <2> DEFINE at == IF identity[s].prov THEN "oauthSession" ELSE "supply"
             next == [at |-> at, subject |-> s, user |-> identity[s].user]
  <2>1. job' = [job EXCEPT ![j] = IF user[identity[s].user].banned THEN Accounts!Idle ELSE next]
        BY <1>2 DEF Accounts!Go
  <2>2. identity[s].user \in Users
        BY <1>1, <1>2 DEF AccountsTyped, IdentityRow
  <2>3. next \in Entering /\ next.at = at /\ next.subject = s /\ next.user = identity[s].user
    <3>1. at \in {"supply", "oauthSession"}
          OBVIOUS
    <3> HIDE DEF at
    <3> QED BY <1>1, <2>2, <3>1 DEF Entering
  <2> HIDE DEF next
  <2>4. job'[j] \in {Accounts!Idle, next} /\ \A i \in Jobs \ {j} : job'[i] = job[i]
        BY <1>1, <2>1
  <2> QED BY <1>1, <1>2, <2>3, <2>4
<1>3. CASE /\ identity[s] = None
           /\ \E auto \in BOOLEAN, a \in Addresses \cup {None} :
                IF auto /\ ~Accounts!AddressTaken(a) /\ Accounts!New # {}
                  THEN /\ user' = [user EXCEPT ![u] = [Accounts!Account(a, "oauth", a # None) EXCEPT !.has = {"client"}]]
                       /\ identity' = [identity EXCEPT ![s] = [user |-> u, prov |-> FALSE]]
                       /\ Accounts!Go(j, [at |-> "supply", subject |-> s, user |-> u])
                  ELSE Accounts!Go(j, Accounts!Idle) /\ UNCHANGED <<user, identity>>
  <2>1. CASE Accounts!Go(j, Accounts!Idle) /\ UNCHANGED <<user, identity>>
        BY <1>1, <2>1 DEF Accounts!Go
  <2>2. ASSUME NEW a \in Addresses \cup {None}, Accounts!New # {},
               user' = [user EXCEPT ![u] = [Accounts!Account(a, "oauth", a # None) EXCEPT !.has = {"client"}]],
               identity' = [identity EXCEPT ![s] = [user |-> u, prov |-> FALSE]],
               Accounts!Go(j, [at |-> "supply", subject |-> s, user |-> u])
        PROVE  (\E v, z : FirstLogin(j, s, v, z)) /\ \A i \in Jobs \ {j} : job'[i] = job[i]
    <3> DEFINE y == [Accounts!Account(a, "oauth", a # None) EXCEPT !.has = {"client"}]
    <3>1. u \in Users /\ user[u].is = "new"
          BY <2>2, NewIsNew
    <3>2. y \in AccountRow /\ y.is = "live" /\ y.via = "oauth"
      <4>1. {"client"} \in SUBSET Accounts!AllGoods
            BY DEF Accounts!AllGoods, Accounts!Goods
      <4>2. \A b \in BOOLEAN, g \in SUBSET Accounts!AllGoods : LET x == [Accounts!Account(a, "oauth", b) EXCEPT !.has = g] IN
              x \in AccountRow /\ x.is = "live" /\ x.via = "oauth"
            BY <2>2 DEF Accounts!Account, Accounts!Row, AccountRow, Mailable
      <4>3. (a # None) \in BOOLEAN
            OBVIOUS
      <4> QED BY <4>1, <4>2, <4>3
    <3>3. Opened(u, y)
          BY <1>1, <2>2, <3>1, <3>2 DEF Opened
    <3>4. [at |-> "supply", subject |-> s, user |-> u] \in Entering
          BY <1>1, <3>1 DEF Entering
    <3>5. job'[j] = [at |-> "supply", subject |-> s, user |-> u] /\ \A i \in Jobs \ {j} : job'[i] = job[i]
          BY <1>1, <2>2 DEF Accounts!Go
    <3>6. [user |-> u, prov |-> FALSE] \in IdentityRow
          BY <3>1 DEF IdentityRow
    <3>7. /\ identity' \in [Subjects -> IdentityRow \cup {None}]
          /\ \A x \in Subjects : identity'[x] = IF x = s THEN [user |-> u, prov |-> FALSE] ELSE identity[x]
          BY <1>1, <2>2, <3>6 DEF AccountsTyped
    <3> HIDE DEF y, u
    <3>8. FirstLogin(j, s, u, y)
          BY <1>1, <1>3, <3>2, <3>3, <3>4, <3>5, <3>7 DEF FirstLogin
    <3> QED BY <3>5, <3>8
  <2> HIDE DEF u
  <2> QED BY <1>1, <1>3, <2>1, <2>2
<1> QED BY <1>2, <1>3 DEF Accounts!OAuthLoginUser

Amended == user' \in [Users -> AccountRow] /\ \A v \in Users : Edited(user[v], user'[v])

LEMMA OneAmended ==
  ASSUME AccountsTyped, NEW u \in Users, NEW y, Edited(user[u], y), user' = [user EXCEPT ![u] = y]
  PROVE  Amended
<1>1. \A v \in Users : Edited(user[v], user[v])
      BY EditsKeep DEF AccountsTyped
<1>2. y \in AccountRow
      BY DEF Edited
<1> QED BY <1>1, <1>2 DEF Amended, AccountsTyped

LEMMA AccountsStay == ASSUME AccountsTyped, UNCHANGED user PROVE Amended
BY EditsKeep DEF AccountsTyped, Amended

LEMMA UptoIsGoods == (\A n \in 0..Len(Accounts!Goods) : Accounts!Upto(n) \in SUBSET Accounts!AllGoods) /\ Accounts!Upto(Len(Accounts!Goods)) = Accounts!AllGoods
<1>1. Len(Accounts!Goods) = 5 /\ DOMAIN Accounts!Goods = 1..5
      BY DEF Accounts!Goods
<1> QED BY <1>1 DEF Accounts!Upto, Accounts!AllGoods

\* Steps of a registration
LEMMA ProvisionMoves ==
  ASSUME AccountsTyped, NEW j \in Jobs, Accounts!ProvisionClient(j), NEW u, u = job[j].user
  PROVE  \/ /\ Amended /\ UNCHANGED <<token, session, identity, code>>
            /\ \/ job' = [job EXCEPT ![j] = Accounts!Idle] /\ (job[j].via = "code" => ~Accounts!Live(u))
               \/ /\ job' = [job EXCEPT ![j] = [job[j] EXCEPT !.at = IF job[j].via = "code" THEN "spend" ELSE "session"]]
                  /\ job[j] \in Making
         \/ Goes(u) /\ UNCHANGED code /\ job' = [job EXCEPT ![j] = Accounts!Idle]
<1> DEFINE undo == job[j].via \in {"open", "code", "admin"}
           on == IF job[j].via = "code" THEN "spend" ELSE "session"
<1>1. PICK n \in 0..Len(Accounts!Goods), fails \in BOOLEAN :
        /\ ~Accounts!Live(u) => n = 0
        /\ n < Len(Accounts!Goods) => fails
        /\ IF fails /\ undo
             THEN Accounts!EraseIfLive(u) /\ Accounts!Go(j, Accounts!Idle)
             ELSE /\ user' = IF Accounts!Live(u) THEN [user EXCEPT ![u].has = user[u].has \cup Accounts!Upto(n)] ELSE user
                  /\ IF fails \/ ~undo THEN Accounts!Go(j, Accounts!Idle) ELSE Accounts!To(j, on)
                  /\ UNCHANGED <<token, session, identity>>
      BY DEF Accounts!ProvisionClient
<1>2. UNCHANGED code
      BY DEF Accounts!ProvisionClient
<1>u. u \in Users
      BY Errands DEF Accounts!ProvisionClient, Making, Granting
<1> HIDE DEF undo, on
<1>3. CASE fails /\ undo
  <2>1. CASE Accounts!Live(u)
        BY <1>1, <1>2, <1>3, <2>1, ErasedGoes DEF Accounts!EraseIfLive, Accounts!Go
  <2>2. CASE ~Accounts!Live(u)
        BY <1>1, <1>2, <1>3, <2>2, AccountsStay DEF Accounts!EraseIfLive, Accounts!Go
  <2> QED BY <2>1, <2>2
<1>4. CASE ~(fails /\ undo)
  <2>1. user' = IF Accounts!Live(u) THEN [user EXCEPT ![u] = [user[u] EXCEPT !.has = user[u].has \cup Accounts!Upto(n)]] ELSE user
        BY <1>1, <1>4
  <2>2. Edited(user[u], [user[u] EXCEPT !.has = user[u].has \cup Accounts!Upto(n)])
        BY <1>1, <1>u, EditsKeep, UptoIsGoods DEF AccountsTyped
  <2>3. Amended
        BY <1>u, <2>1, <2>2, OneAmended, AccountsStay
  <2>4. CASE fails \/ ~undo
    <3>1. job[j].via # "code"
          BY <1>4, <2>4 DEF undo
    <3> QED BY <1>1, <1>2, <1>4, <2>3, <2>4, <3>1 DEF Accounts!Go
  <2>5. CASE ~fails /\ undo
    <3>1. job[j] \in Making
          BY <2>5, Errands DEF Accounts!ProvisionClient, Granting, undo
    <3>2. job' = [job EXCEPT ![j] = [job[j] EXCEPT !.at = on]]
          BY <1>1, <1>4, <2>5 DEF Accounts!To, Accounts!Go
    <3> QED BY <1>1, <1>2, <1>4, <2>3, <3>1, <3>2 DEF on
  <2> QED BY <1>4, <2>4, <2>5
<1> QED BY <1>3, <1>4

\* What happens to the rows of users
LEMMA AccountsMove ==
  ASSUME AccountsTyped, AccountsSane, [Accounts!Next]_(Accounts!vars)
  PROVE  \/ Amended
         \/ \E u \in Users : Goes(u) /\ UNCHANGED code
         \/ \E j \in Jobs : \E u, y : Opened(u, y) /\ (Accounts!CreateUser(j) \/ Accounts!OAuthLoginUser(j))
<1>t. user \in [Users -> AccountRow]
      BY DEF AccountsTyped
<1>1. CASE UNCHANGED user
      BY <1>1, AccountsStay
<1>2. ASSUME NEW u, Accounts!EraseIfLive(u), UNCHANGED code PROVE Amended \/ \E v \in Users : Goes(v) /\ UNCHANGED code
      BY <1>2, ErasedGoes, AccountsStay DEF Accounts!EraseIfLive, Accounts!Live
<1>3. ASSUME NEW j \in Jobs, Accounts!CreateVerifyToken(j) \/ Accounts!FinalizeRegCode(j)
      PROVE  UNCHANGED user \/ \E u : Accounts!EraseIfLive(u) /\ UNCHANGED code
  <2>1. CASE Accounts!CreateVerifyToken(j)
        BY <2>1 DEF Accounts!CreateVerifyToken
  <2>2. CASE Accounts!FinalizeRegCode(j)
        BY <2>2 DEF Accounts!FinalizeRegCode
  <2> QED BY <1>3, <2>1, <2>2
<1>4. ASSUME NEW j \in Jobs, Accounts!ProvisionClient(j) PROVE Amended \/ \E v \in Users : Goes(v) /\ UNCHANGED code
      BY <1>4, ProvisionMoves DEF Goes, Accounts!Live
<1>5. ASSUME NEW j \in Jobs, Accounts!ProvisionOAuth(j) PROVE Amended
  <2>1. PICK n \in 1..Len(Accounts!Goods) :
          user' = IF Accounts!Live(job[j].user) THEN [user EXCEPT ![job[j].user].has = user[job[j].user].has \cup Accounts!Upto(n)] ELSE user
        BY <1>5 DEF Accounts!ProvisionOAuth
  <2>2. job[j].user \in Users
        BY <1>5, Errands DEF Accounts!ProvisionOAuth, Entering
  <2>3. n \in 0..Len(Accounts!Goods)
    <3>1. Len(Accounts!Goods) = 5
          BY DEF Accounts!Goods
    <3> QED BY <2>1, <3>1
  <2>4. Edited(user[job[j].user], [user[job[j].user] EXCEPT !.has = user[job[j].user].has \cup Accounts!Upto(n)])
        BY <1>t, <2>2, <2>3, EditsKeep, UptoIsGoods
  <2> QED BY <2>1, <2>2, <2>4, OneAmended, AccountsStay
<1>6. ASSUME NEW j \in Jobs, Accounts!SetEmailVerified(j) PROVE Amended
  <2>1. job[j].user \in Users
        BY <1>6, Errands DEF Accounts!SetEmailVerified
  <2>2. UNCHANGED user \/ user' = [user EXCEPT ![job[j].user] = [user[job[j].user] EXCEPT !.ok = TRUE]]
        BY <1>6 DEF Accounts!SetEmailVerified
  <2>3. Edited(user[job[j].user], [user[job[j].user] EXCEPT !.ok = TRUE])
        BY <1>t, <2>1, EditsKeep
  <2> QED BY <2>1, <2>2, <2>3, OneAmended, AccountsStay
<1>7. ASSUME NEW j \in Jobs, Accounts!BindEmail(j) PROVE Amended
  <2>1. PICK s \in session, a \in Addresses :
          Accounts!Live(s.user) /\ user' = [user EXCEPT ![s.user].addr = a, ![s.user].ok = FALSE]
        BY <1>7 DEF Accounts!BindEmail
  <2>2. s.user \in Users
        BY <2>1 DEF Accounts!Live
  <2>3. user' = [user EXCEPT ![s.user] = [user[s.user] EXCEPT !.addr = a, !.ok = FALSE]]
        BY <1>t, <2>1, <2>2 DEF AccountRow
  <2>4. Edited(user[s.user], [user[s.user] EXCEPT !.addr = a, !.ok = FALSE])
        BY <1>t, <2>2, EditsKeep DEF Mailable
  <2> QED BY <2>2, <2>3, <2>4, OneAmended
<1>8. CASE Accounts!AdminSetUserEmail
  <2>1. PICK u \in Users, a \in Addresses \cup {None} :
          user' = [user EXCEPT ![u].addr = a, ![u].ok = a # None]
        BY <1>8 DEF Accounts!AdminSetUserEmail
  <2>2. user' = [user EXCEPT ![u] = [user[u] EXCEPT !.addr = a, !.ok = a # None]]
        BY <1>t, <2>1 DEF AccountRow
  <2>3. (a # None) \in BOOLEAN
        OBVIOUS
  <2>4. Edited(user[u], [user[u] EXCEPT !.addr = a, !.ok = a # None])
        BY <1>t, <2>3, EditsKeep DEF Mailable
  <2> QED BY <2>2, <2>4, OneAmended
<1>9. CASE Accounts!AdminUpdateUser
  <2>1. PICK u \in Users : user' = [user EXCEPT ![u] = [user[u] EXCEPT !.banned = ~user[u].banned]]
        BY <1>9 DEF Accounts!AdminUpdateUser
  <2>2. (~user[u].banned) \in BOOLEAN
        OBVIOUS
  <2>3. Edited(user[u], [user[u] EXCEPT !.banned = ~user[u].banned])
        BY <1>t, <2>2, EditsKeep
  <2> QED BY <2>1, <2>3, OneAmended
<1>10. CASE Accounts!PanelRestarts
  <2>1. /\ user' = [u \in Users |-> user'[u]]
        /\ \A u \in Users : user'[u] \in {user[u], [user[u] EXCEPT !.cut = TRUE]}
        BY <1>10 DEF Accounts!PanelRestarts
  <2>2. \A u \in Users : Edited(user[u], user'[u])
        BY <1>t, <2>1, EditsKeep
  <2> QED BY <2>1, <2>2 DEF Amended, Edited
<1>11. CASE Accounts!DeleteUser
       BY <1>11, ErasedGoes DEF Accounts!DeleteUser
<1>12. ASSUME NEW j \in Jobs, Accounts!CreateUser(j) \/ Accounts!OAuthLoginUser(j)
       PROVE  UNCHANGED user \/ \E u, y : Opened(u, y)
       BY <1>12, CreateOpens, ProviderOpens DEF FirstLogin
<1>13. \/ UNCHANGED user \/ Accounts!AdminSetUserEmail \/ Accounts!AdminUpdateUser \/ Accounts!PanelRestarts \/ Accounts!DeleteUser
       \/ \E j \in Jobs : \/ Accounts!CreateVerifyToken(j) \/ Accounts!FinalizeRegCode(j) \/ Accounts!ProvisionClient(j) \/ Accounts!ProvisionOAuth(j)
                          \/ Accounts!SetEmailVerified(j) \/ Accounts!BindEmail(j) \/ Accounts!CreateUser(j) \/ Accounts!OAuthLoginUser(j)
       BY DEF Accounts!Next, Accounts!vars, Accounts!Register, Accounts!AdminCreateUser, Accounts!IssueLogin, Accounts!UseVerifyToken, Accounts!ResendVerify, Accounts!CreateEmailToken,
              Accounts!GrantPackage, Accounts!StartOAuth, Accounts!OAuthCallback, Accounts!BindOAuthIdentity, Accounts!MarkOAuthProvisioned, Accounts!IssueOAuthLogin,
              Accounts!Login, Accounts!Logout, Accounts!SetRegCodeEnabled, Accounts!DeleteRegCode
<1> QED BY <1>1, <1>2, <1>3, <1>4, <1>5, <1>6, <1>7, <1>8, <1>9, <1>10, <1>11, <1>12, <1>13

-----------------------------------------------------------------------------
(* What a step does to the requests                                          *)

\* A turn moves one request
LEMMA TurnGoes ==
  ASSUME NEW j \in Jobs, Turn(j), AccountsTyped
  PROVE  \E next : Accounts!Go(j, next)
<1>1. CASE Accounts!Register(j) \/ Accounts!AdminCreateUser(j) \/ Accounts!CreateVerifyToken(j) \/ Accounts!IssueLogin(j) \/ Accounts!UseVerifyToken(j)
      BY <1>1 DEF Accounts!Register, Accounts!AdminCreateUser, Accounts!CreateVerifyToken, Accounts!IssueLogin, Accounts!UseVerifyToken
<1>2. CASE Accounts!BindEmail(j) \/ Accounts!ResendVerify(j) \/ Accounts!CreateEmailToken(j) \/ Accounts!GrantPackage(j)
      BY <1>2 DEF Accounts!BindEmail, Accounts!ResendVerify, Accounts!CreateEmailToken, Accounts!GrantPackage
<1>3. CASE Accounts!StartOAuth(j) \/ Accounts!BindOAuthIdentity(j) \/ Accounts!IssueOAuthLogin(j)
      BY <1>3 DEF Accounts!StartOAuth, Accounts!BindOAuthIdentity, Accounts!IssueOAuthLogin
<1>4. CASE Accounts!CreateUser(j)
      BY <1>4 DEF Accounts!CreateUser
<1>5. CASE Accounts!ProvisionClient(j)
  <2>1. (\E next : job' = [job EXCEPT ![j] = next])
        BY <1>5, ProvisionMoves
  <2> QED BY <2>1 DEF Accounts!Go
<1>6. CASE Accounts!FinalizeRegCode(j)
      BY <1>6 DEF Accounts!FinalizeRegCode, Accounts!To
<1>7. CASE Accounts!SetEmailVerified(j)
      BY <1>7 DEF Accounts!SetEmailVerified
<1>8. CASE Accounts!OAuthCallback(j)
      BY <1>8 DEF Accounts!OAuthCallback
<1>9. CASE Accounts!OAuthLoginUser(j)
      BY <1>9 DEF Accounts!OAuthLoginUser
<1>10. CASE Accounts!ProvisionOAuth(j)
       BY <1>10 DEF Accounts!ProvisionOAuth, Accounts!To
<1>11. CASE Accounts!MarkOAuthProvisioned(j)
       BY <1>11 DEF Accounts!MarkOAuthProvisioned, Accounts!To
<1> QED BY <1>1, <1>2, <1>3, <1>4, <1>5, <1>6, <1>7, <1>8, <1>9, <1>10, <1>11 DEF Turn

\* A request moves in a turn of its own, or the panel restarts
LEMMA OwnTurn ==
  ASSUME AccountsTyped, [Accounts!Next]_(Accounts!vars)
  PROVE  /\ job' = [i \in Jobs |-> job'[i]]
         /\ \A i \in Jobs : job'[i] = job[i] \/ Accounts!PanelRestarts \/ Turn(i)
<1>0. job \in [Jobs -> Errand]
      BY DEF AccountsTyped
<1>1. ASSUME NEW j \in Jobs, Turn(j)
      PROVE  job' = [i \in Jobs |-> job'[i]] /\ \A i \in Jobs : job'[i] = job[i] \/ i = j
      BY <1>0, <1>1, TurnGoes DEF Accounts!Go
<1>2. CASE UNCHANGED job
      BY <1>0, <1>2
<1>3. Accounts!PanelRestarts => job' = [i \in Jobs |-> job'[i]]
      BY DEF Accounts!PanelRestarts
<1> QED BY <1>1, <1>2, <1>3 DEF Accounts!Next, Accounts!vars, Turn, Accounts!Login, Accounts!Logout, Accounts!AdminSetUserEmail, Accounts!DeleteUser, Accounts!AdminUpdateUser,
           Accounts!SetRegCodeEnabled, Accounts!DeleteRegCode

\* Where a request goes in its turn, when that matters
LEMMA TurnMoves ==
  ASSUME AccountsTyped, AccountsSane, NEW j \in Jobs, Turn(j)
  PROVE  /\ job'[j] \in Errand
         /\ job'[j].at = "create" => Accounts!Register(j) \/ Accounts!AdminCreateUser(j)
         /\ job'[j].at = "supply" => Accounts!OAuthLoginUser(j)
         /\ job'[j].at = "mark" => Accounts!ProvisionOAuth(j)
         /\ job'[j].at = "oauthSession" => Accounts!OAuthLoginUser(j) \/ Accounts!MarkOAuthProvisioned(j)
<1>0. job \in [Jobs -> Errand] /\ identity \in [Subjects -> IdentityRow \cup {None}] /\ session \subseteq LoginRow
      /\ token \subseteq Users /\ user \in [Users -> AccountRow]
      BY DEF AccountsTyped
<1> DEFINE Plain == job'[j] \in Errand /\ job'[j].at \notin {"create", "supply", "mark", "oauthSession"}
<1>1. ASSUME NEW next \in Errand, Accounts!Go(j, next) PROVE job'[j] = next
      BY <1>0, <1>1 DEF Accounts!Go
<1>2. Accounts!Idle \in Errand /\ Accounts!Idle.at = "idle"
      BY DEF Errand, Accounts!Idle
<1>3. CASE Accounts!CreateVerifyToken(j) \/ Accounts!IssueLogin(j) \/ Accounts!CreateEmailToken(j) \/ Accounts!BindOAuthIdentity(j) \/ Accounts!IssueOAuthLogin(j)
  <2>1. Accounts!Go(j, Accounts!Idle)
        BY <1>3 DEF Accounts!CreateVerifyToken, Accounts!IssueLogin, Accounts!CreateEmailToken, Accounts!BindOAuthIdentity, Accounts!IssueOAuthLogin
  <2> QED BY <1>1, <1>2, <2>1
<1>4. ASSUME NEW at \in {"spend", "session"}, Accounts!To(j, at), job[j] \in Making PROVE Plain
  <2>1. [job[j] EXCEPT !.at = at] \in Making /\ [job[j] EXCEPT !.at = at].at = at
        BY <1>4 DEF Making
  <2>2. [job[j] EXCEPT !.at = at] \in Errand
        BY <2>1 DEF Errand
  <2> QED BY <1>1, <1>4, <2>1, <2>2 DEF Accounts!To
<1>5. ASSUME NEW at \in {"mark", "oauthSession"}, Accounts!To(j, at), job[j] \in Entering
      PROVE  job'[j] \in Errand /\ job'[j].at = at
  <2>1. [job[j] EXCEPT !.at = at] \in Entering /\ [job[j] EXCEPT !.at = at].at = at
        BY <1>5 DEF Entering
  <2>2. [job[j] EXCEPT !.at = at] \in Errand
        BY <2>1 DEF Errand
  <2> QED BY <1>1, <1>5, <2>1, <2>2 DEF Accounts!To
<1>6. CASE Accounts!FinalizeRegCode(j)
  <2>1. job[j] \in Making
        BY <1>6, Errands DEF Accounts!FinalizeRegCode
  <2>2. Accounts!To(j, "session") \/ Accounts!Go(j, Accounts!Idle)
        BY <1>6 DEF Accounts!FinalizeRegCode
  <2> QED BY <1>1, <1>2, <1>4, <2>1, <2>2
<1>7. CASE Accounts!ProvisionClient(j)
  <2>1. \/ job' = [job EXCEPT ![j] = Accounts!Idle]
        \/ job[j] \in Making /\ \E at \in {"spend", "session"} : job' = [job EXCEPT ![j] = [job[j] EXCEPT !.at = at]]
        BY <1>7, ProvisionMoves
  <2>2. ASSUME job' = [job EXCEPT ![j] = Accounts!Idle] PROVE Plain
        BY <1>0, <1>2, <2>2
  <2> QED BY <1>4, <2>1, <2>2 DEF Accounts!To, Accounts!Go
<1>8. CASE Accounts!CreateUser(j)
  <2>1. job' = [job EXCEPT ![j] = Accounts!Idle] \/ (job'[j] \in Making /\ job'[j].at \in {"mail", "provision"})
        BY <1>8, CreateOpens
  <2>2. Making \subseteq Errand
        BY DEF Errand
  <2> QED BY <1>0, <1>2, <2>1, <2>2
<1>9. CASE Accounts!OAuthLoginUser(j)
  <2>1. job'[j] = Accounts!Idle \/ (job'[j] \in Entering /\ job'[j].at \in {"supply", "oauthSession"})
        BY <1>9, ProviderOpens DEF FirstLogin
  <2>2. Entering \subseteq Errand
        BY DEF Errand
  <2> QED BY <1>2, <1>9, <2>1, <2>2
<1>10. CASE Accounts!ProvisionOAuth(j) \/ Accounts!MarkOAuthProvisioned(j)
  <2>1. job[j] \in Entering
        BY <1>10, Errands DEF Accounts!ProvisionOAuth, Accounts!MarkOAuthProvisioned
  <2>2. Accounts!Go(j, Accounts!Idle) \/ (Accounts!ProvisionOAuth(j) /\ Accounts!To(j, "mark")) \/ (Accounts!MarkOAuthProvisioned(j) /\ Accounts!To(j, "oauthSession"))
        BY <1>10 DEF Accounts!ProvisionOAuth, Accounts!MarkOAuthProvisioned
  <2> QED BY <1>1, <1>2, <1>5, <2>1, <2>2
<1>11. CASE Accounts!Register(j) \/ Accounts!AdminCreateUser(j)
  <2>1. PICK via \in {"open", "code", "admin"}, verify \in BOOLEAN, a \in Addresses \cup {None} :
          Accounts!Go(j, [at |-> "create", via |-> via, verify |-> verify, addr |-> a, user |-> None])
        BY <1>11 DEF Accounts!Register, Accounts!AdminCreateUser
  <2>2. [at |-> "create", via |-> via, verify |-> verify, addr |-> a, user |-> None] \in Asking
        BY DEF Asking, Mailable
  <2>3. [at |-> "create", via |-> via, verify |-> verify, addr |-> a, user |-> None] \in Errand
        BY <2>2 DEF Errand
  <2> QED BY <1>1, <1>11, <2>1, <2>3
<1>12. CASE Accounts!UseVerifyToken(j) \/ Accounts!BindEmail(j) \/ Accounts!ResendVerify(j) \/ Accounts!GrantPackage(j)
  <2>1. PICK u \in Users : \/ Accounts!Go(j, [at |-> "verified", user |-> u]) \/ Accounts!Go(j, [at |-> "link", user |-> u])
                           \/ Accounts!Go(j, [at |-> "provision", user |-> u, via |-> "grant"])
        BY <1>0, <1>12 DEF Accounts!UseVerifyToken, Accounts!BindEmail, Accounts!ResendVerify, Accounts!GrantPackage, LoginRow
  <2>2. /\ [at |-> "verified", user |-> u] \in Errand /\ [at |-> "link", user |-> u] \in Errand
        /\ [at |-> "provision", user |-> u, via |-> "grant"] \in Errand
        BY DEF Errand, Linking, Granting
  <2> QED BY <1>1, <2>1, <2>2
<1>13. CASE Accounts!SetEmailVerified(j)
  <2>1. job[j].user \in Users /\ (Accounts!Go(j, Accounts!Idle) \/ Accounts!Go(j, [at |-> "provision", user |-> job[j].user, via |-> "verify"]))
        BY <1>13, Errands DEF Accounts!SetEmailVerified
  <2>2. [at |-> "provision", user |-> job[j].user, via |-> "verify"] \in Errand
        BY <2>1 DEF Errand, Granting
  <2> QED BY <1>1, <1>2, <2>1, <2>2
<1>14. CASE Accounts!StartOAuth(j)
  <2>1. \E u \in Users \cup {None} : Accounts!Go(j, [at |-> "asked", user |-> u])
        BY <1>0, <1>14 DEF Accounts!StartOAuth, LoginRow
  <2>2. \A u \in Users \cup {None} : [at |-> "asked", user |-> u] \in Errand
        BY DEF Errand
  <2> QED BY <1>1, <2>1, <2>2
<1>15. CASE Accounts!OAuthCallback(j)
  <2>1. job[j].user \in Users \cup {None}
        BY <1>15, Errands DEF Accounts!OAuthCallback
  <2>2. \/ Accounts!Go(j, Accounts!Idle)
        \/ \E s \in Subjects : Accounts!Go(j, [at |-> "enter", subject |-> s, user |-> None])
        \/ \E s \in Subjects : job[j].user # None /\ Accounts!Go(j, [at |-> "bind", subject |-> s, user |-> job[j].user])
        BY <1>15 DEF Accounts!OAuthCallback
  <2>3. \A s \in Subjects :
          /\ [at |-> "enter", subject |-> s, user |-> None] \in Errand
          /\ job[j].user # None => [at |-> "bind", subject |-> s, user |-> job[j].user] \in Errand
        BY <2>1 DEF Errand, Entering
  <2>4. ASSUME NEW s \in Subjects, Accounts!Go(j, [at |-> "enter", subject |-> s, user |-> None]) PROVE Plain
    <3>1. [at |-> "enter", subject |-> s, user |-> None] \in Errand
          BY <2>3
    <3>2. job'[j] = [at |-> "enter", subject |-> s, user |-> None]
          BY <1>1, <2>4, <3>1
    <3> QED BY <3>1, <3>2
  <2>5. ASSUME NEW s \in Subjects, job[j].user # None, Accounts!Go(j, [at |-> "bind", subject |-> s, user |-> job[j].user])
        PROVE  Plain
    <3>1. [at |-> "bind", subject |-> s, user |-> job[j].user] \in Errand
          BY <2>3, <2>5
    <3>2. job'[j] = [at |-> "bind", subject |-> s, user |-> job[j].user]
          BY <1>1, <2>5, <3>1
    <3> QED BY <3>1, <3>2
  <2>6. Accounts!Go(j, Accounts!Idle) => Plain
        BY <1>1, <1>2
  <2> HIDE DEF Plain
  <2>7. Plain
        BY <2>2, <2>4, <2>5, <2>6
  <2> QED BY <2>7 DEF Plain
<1> QED BY <1>3, <1>6, <1>7, <1>8, <1>9, <1>10, <1>11, <1>12, <1>13, <1>14, <1>15 DEF Turn

\* Who writes sessions and identities
LEMMA LoginsWritten ==
  ASSUME AccountsTyped, [Accounts!Next]_(Accounts!vars)
  PROVE  session' \subseteq session \/ Accounts!Login \/ \E j \in Jobs : Accounts!IssueLogin(j) \/ Accounts!IssueOAuthLogin(j)
<1>1. ASSUME NEW j \in Jobs, Accounts!ProvisionClient(j) PROVE session' \subseteq session
      BY <1>1, ProvisionMoves DEF Goes
<1>2. ASSUME NEW j \in Jobs, Accounts!CreateUser(j) \/ Accounts!OAuthLoginUser(j) PROVE session' \subseteq session
      BY <1>2 DEF Accounts!CreateUser, Accounts!OAuthLoginUser
<1>3. ASSUME NEW j \in Jobs, Accounts!CreateVerifyToken(j) \/ Accounts!FinalizeRegCode(j) PROVE session' \subseteq session
      BY <1>3 DEF Accounts!CreateVerifyToken, Accounts!FinalizeRegCode, Accounts!EraseIfLive, Accounts!Erased
<1> QED BY <1>1, <1>2, <1>3 DEF Accounts!Next, Accounts!vars, Accounts!Register, Accounts!AdminCreateUser, Accounts!UseVerifyToken, Accounts!SetEmailVerified, Accounts!BindEmail,
           Accounts!ResendVerify, Accounts!CreateEmailToken, Accounts!GrantPackage, Accounts!StartOAuth, Accounts!OAuthCallback, Accounts!BindOAuthIdentity,
           Accounts!ProvisionOAuth, Accounts!MarkOAuthProvisioned, Accounts!Logout, Accounts!AdminSetUserEmail, Accounts!DeleteUser, Accounts!Erased, Accounts!AdminUpdateUser,
           Accounts!SetRegCodeEnabled, Accounts!DeleteRegCode, Accounts!PanelRestarts

LEMMA IdentitiesWritten ==
  ASSUME AccountsTyped, [Accounts!Next]_(Accounts!vars)
  PROVE  \/ UNCHANGED identity \/ \E u \in Users : Goes(u)
         \/ \E j \in Jobs : (Accounts!BindOAuthIdentity(j) \/ Accounts!MarkOAuthProvisioned(j)) /\ UNCHANGED user
         \/ \E j \in Jobs : Accounts!OAuthLoginUser(j)
<1>1. ASSUME NEW j \in Jobs, Accounts!ProvisionClient(j) PROVE UNCHANGED identity \/ \E u \in Users : Goes(u)
      BY <1>1, ProvisionMoves DEF Goes, Accounts!Live
<1>2. ASSUME NEW j \in Jobs, Accounts!CreateVerifyToken(j) \/ Accounts!FinalizeRegCode(j)
      PROVE  UNCHANGED identity \/ \E u \in Users : Goes(u)
  <2>1. \A u : Accounts!EraseIfLive(u) => UNCHANGED identity \/ \E v \in Users : Goes(v)
        BY ErasedGoes DEF Accounts!EraseIfLive, Accounts!Live
  <2> QED BY <1>2, <2>1 DEF Accounts!CreateVerifyToken, Accounts!FinalizeRegCode
<1>3. Accounts!DeleteUser => \E u \in Users : Goes(u)
      BY ErasedGoes DEF Accounts!DeleteUser
<1>4. ASSUME NEW j \in Jobs, Accounts!BindOAuthIdentity(j) \/ Accounts!MarkOAuthProvisioned(j) PROVE UNCHANGED user
      BY <1>4 DEF Accounts!BindOAuthIdentity, Accounts!MarkOAuthProvisioned
<1> QED BY <1>1, <1>2, <1>3, <1>4 DEF Accounts!Next, Accounts!vars, Accounts!Register, Accounts!AdminCreateUser, Accounts!CreateUser, Accounts!UseVerifyToken, Accounts!SetEmailVerified,
           Accounts!BindEmail, Accounts!ResendVerify, Accounts!CreateEmailToken, Accounts!GrantPackage, Accounts!StartOAuth, Accounts!OAuthCallback, Accounts!IssueLogin,
           Accounts!ProvisionOAuth, Accounts!IssueOAuthLogin, Accounts!Login, Accounts!Logout, Accounts!AdminSetUserEmail, Accounts!AdminUpdateUser,
           Accounts!SetRegCodeEnabled, Accounts!DeleteRegCode, Accounts!PanelRestarts

\* Binding puts an identity where none is, and marking changes one field
LEMMA BindWrites ==
  ASSUME AccountsTyped, NEW j \in Jobs, Accounts!BindOAuthIdentity(j), NEW s, NEW u, s = job[j].subject, u = job[j].user
  PROVE  \/ UNCHANGED identity
         \/ /\ Accounts!Live(u) /\ s \in Subjects /\ identity[s] = None
            /\ \A x \in Subjects : identity[x] # None => identity[x].user # u
            /\ identity' \in [Subjects -> IdentityRow \cup {None}]
            /\ \A x \in Subjects : identity'[x] = IF x = s THEN [user |-> u, prov |-> TRUE] ELSE identity[x]
<1>1. s \in Subjects /\ u \in Users /\ identity \in [Subjects -> IdentityRow \cup {None}]
      BY Errands DEF Accounts!BindOAuthIdentity, Entering, AccountsTyped
<1>2. [user |-> u, prov |-> TRUE] \in IdentityRow
      BY <1>1 DEF IdentityRow
<1> QED BY <1>1, <1>2 DEF Accounts!BindOAuthIdentity

LEMMA MarkWrites ==
  ASSUME AccountsTyped, NEW j \in Jobs, Accounts!MarkOAuthProvisioned(j), NEW s, s = job[j].subject
  PROVE  \/ UNCHANGED identity
         \/ /\ s \in Subjects /\ identity[s] # None /\ identity'[s].user = identity[s].user /\ identity'[s] \in IdentityRow
            /\ identity' \in [Subjects -> IdentityRow \cup {None}]
            /\ \A x \in Subjects \ {s} : identity'[x] = identity[x]
<1>1. s \in Subjects /\ identity \in [Subjects -> IdentityRow \cup {None}]
      BY Errands DEF Accounts!MarkOAuthProvisioned, Entering, AccountsTyped
<1>2. CASE identity[s] # None /\ ~UNCHANGED identity
  <2>1. identity[s] \in IdentityRow
        BY <1>1, <1>2
  <2>2. [identity[s] EXCEPT !.prov = TRUE] \in IdentityRow /\ [identity[s] EXCEPT !.prov = TRUE].user = identity[s].user
        BY <2>1 DEF IdentityRow
  <2>3. identity' = [identity EXCEPT ![s] = [identity[s] EXCEPT !.prov = TRUE]]
        BY <1>2 DEF Accounts!MarkOAuthProvisioned
  <2> QED BY <1>1, <1>2, <2>2, <2>3
<1> QED BY <1>2 DEF Accounts!MarkOAuthProvisioned

LEMMA AccountsTypedStep ==
  ASSUME AccountsSane, AccountsTyped, [Accounts!Next]_(Accounts!vars)
  PROVE  AccountsTyped'
<1>1. user' \in [Users -> AccountRow]
  <2>1. \A u \in Users : Goes(u) => user' \in [Users -> AccountRow]
        BY NoAccountYet DEF Goes, AccountsTyped
  <2>2. \A u, y : Opened(u, y) => user' \in [Users -> AccountRow]
        BY DEF Opened, AccountsTyped
  <2> QED BY <2>1, <2>2, AccountsMove DEF Amended
<1>2. identity' \in [Subjects -> IdentityRow \cup {None}]
  <2>1. ASSUME NEW j \in Jobs, Accounts!OAuthLoginUser(j) PROVE identity' \in [Subjects -> IdentityRow \cup {None}]
    <3>1. UNCHANGED identity \/ \E s, u, z : FirstLogin(j, s, u, z)
          BY <2>1, ProviderOpens
    <3> QED BY <3>1 DEF AccountsTyped, FirstLogin
  <2> QED BY <2>1, IdentitiesWritten, BindWrites, MarkWrites DEF AccountsTyped, Goes
<1>3. session' \subseteq LoginRow
  <2>1. \A u \in Users, by \in {"panel", "provider"} : [user |-> u, by |-> by] \in LoginRow
        BY DEF LoginRow
  <2>2. Accounts!Login => session' \subseteq LoginRow
        BY <2>1 DEF Accounts!Login, AccountsTyped
  <2>3. ASSUME NEW j \in Jobs, Accounts!IssueLogin(j) \/ Accounts!IssueOAuthLogin(j) PROVE session' \subseteq LoginRow
    <3>1. CASE Accounts!IssueLogin(j)
      <4>1. Accounts!Live(job[j].user) => [user |-> job[j].user, by |-> "panel"] \in LoginRow
            BY <2>1 DEF Accounts!Live
      <4> QED BY <3>1, <4>1 DEF Accounts!IssueLogin, AccountsTyped
    <3>2. CASE Accounts!IssueOAuthLogin(j)
      <4>1. Accounts!Live(job[j].user) => [user |-> job[j].user, by |-> "provider"] \in LoginRow
            BY <2>1 DEF Accounts!Live
      <4> QED BY <3>2, <4>1 DEF Accounts!IssueOAuthLogin, AccountsTyped
    <3> QED BY <2>3, <3>1, <3>2
  <2> QED BY <2>2, <2>3, LoginsWritten DEF AccountsTyped
<1>4. token' \subseteq Users
  <2>1. ASSUME NEW u, Accounts!EraseIfLive(u) PROVE token' \subseteq Users
        BY <2>1 DEF Accounts!EraseIfLive, Accounts!Erased, AccountsTyped
  <2>2. ASSUME NEW j \in Jobs, Accounts!ProvisionClient(j) PROVE token' \subseteq Users
        BY <2>2, ProvisionMoves DEF Goes, AccountsTyped
  <2>3. ASSUME NEW j \in Jobs, Accounts!CreateVerifyToken(j) \/ Accounts!FinalizeRegCode(j) \/ Accounts!CreateEmailToken(j)
        PROVE  token' \subseteq Users
        BY <2>1, <2>3 DEF Accounts!CreateVerifyToken, Accounts!FinalizeRegCode, Accounts!CreateEmailToken, AccountsTyped, Accounts!Live
  <2> QED BY <2>2, <2>3 DEF Accounts!Next, Accounts!vars, AccountsTyped, Accounts!Register, Accounts!AdminCreateUser, Accounts!CreateUser, Accounts!UseVerifyToken, Accounts!SetEmailVerified,
           Accounts!BindEmail, Accounts!ResendVerify, Accounts!GrantPackage, Accounts!StartOAuth, Accounts!OAuthCallback, Accounts!IssueLogin, Accounts!BindOAuthIdentity, Accounts!OAuthLoginUser,
           Accounts!ProvisionOAuth, Accounts!MarkOAuthProvisioned, Accounts!IssueOAuthLogin, Accounts!Login, Accounts!Logout, Accounts!AdminSetUserEmail, Accounts!AdminUpdateUser,
           Accounts!SetRegCodeEnabled, Accounts!DeleteRegCode, Accounts!PanelRestarts, Accounts!DeleteUser, Accounts!Erased
<1>5. job' \in [Jobs -> Errand]
  <2>1. Accounts!PanelRestarts => \A i \in Jobs : job'[i] \in Errand
        BY DEF Accounts!PanelRestarts, AccountsTyped, Errand
  <2>2. \A i \in Jobs : job'[i] \in Errand
        BY <2>1, OwnTurn, TurnMoves DEF AccountsTyped
  <2> QED BY <2>2, OwnTurn
<1> QED BY <1>1, <1>2, <1>3, <1>4, <1>5 DEF AccountsTyped

-----------------------------------------------------------------------------
(* Accounts before and after a step                                          *)

\* An account that stays live keeps how it came to be and what it has
LEMMA AccountRowKept ==
  ASSUME AccountsTyped, AccountsSane, [Accounts!Next]_(Accounts!vars), NEW u \in Users, Accounts!Live(u), Accounts!Live(u)'
  PROVE  user'[u].via = user[u].via /\ (Complete(u) => Complete(u)') /\ (user[u].cut => user'[u].cut)
<1>1. CASE Amended
  <2>1. Edited(user[u], user'[u])
        BY <1>1 DEF Amended
  <2>2. /\ user'[u].via = user[u].via /\ user[u].has \subseteq user'[u].has /\ user'[u].has \subseteq Accounts!AllGoods
        /\ user[u].cut => user'[u].cut
        BY <2>1 DEF Edited, AccountRow
  <2> QED BY <2>2 DEF Complete
<1>2. ASSUME NEW v \in Users, NEW y, user' = [user EXCEPT ![v] = y], v # u \/ y.is # "live" \/ user[v].is = "new"
      PROVE  user'[u] = user[u]
  <2>1. v # u
        BY <1>2 DEF Accounts!Live, AccountsTyped
  <2> QED BY <1>2, <2>1 DEF AccountsTyped
<1>3. ASSUME NEW v \in Users, Goes(v) PROVE user'[u] = user[u]
  <2>1. Accounts!Row("gone", None).is # "live"
        BY DEF Accounts!Row
  <2> QED BY <1>2, <1>3, <2>1 DEF Goes
<1>4. ASSUME NEW v, NEW y, Opened(v, y) PROVE user'[u] = user[u]
      BY <1>2, <1>4 DEF Opened
<1>5. user'[u] = user[u] => (Complete(u) => Complete(u)')
      BY DEF Complete
<1> QED BY <1>1, <1>3, <1>4, <1>5, AccountsMove

\* Only a registration or a first login makes an account
LEMMA AccountRowMade ==
  ASSUME AccountsTyped, AccountsSane, [Accounts!Next]_(Accounts!vars), NEW u \in Users, ~Accounts!Live(u), Accounts!Live(u)'
  PROVE  \E j \in Jobs : \/ /\ Accounts!CreateUser(j) /\ job'[j] \in Making /\ job'[j].user = u /\ job'[j].via = user'[u].via
                            /\ job'[j].at = IF job[j].verify THEN "mail" ELSE "provision"
                         \/ Accounts!OAuthLoginUser(j) /\ user'[u].via = "oauth"
<1>1. Amended => ~Accounts!Live(u)'
  <2>1. Amended => Edited(user[u], user'[u])
        BY DEF Amended
  <2> QED BY <2>1 DEF Edited, Accounts!Live
<1>2. ASSUME NEW v \in Users, Goes(v) PROVE ~Accounts!Live(u)'
  <2>1. Accounts!Row("gone", None).is # "live"
        BY DEF Accounts!Row
  <2> QED BY <1>2, <2>1 DEF Goes, Accounts!Live, AccountsTyped
<1>3. PICK j \in Jobs : Accounts!CreateUser(j) \/ Accounts!OAuthLoginUser(j)
      BY <1>1, <1>2, AccountsMove
<1>4. ASSUME NEW v, NEW y, Opened(v, y) PROVE v = u /\ user'[u] = y
      BY <1>4 DEF Opened, Accounts!Live, AccountsTyped
<1>5. user' # user
      BY DEF Accounts!Live
<1>6. CASE Accounts!CreateUser(j)
      BY <1>4, <1>5, <1>6, CreateOpens
<1>7. CASE Accounts!OAuthLoginUser(j)
  <2>1. \E s, v, z : FirstLogin(j, s, v, z)
        BY <1>5, <1>7, ProviderOpens
  <2>2. \E v, z : Opened(v, z) /\ z.via = "oauth"
        BY <2>1 DEF FirstLogin
  <2> QED BY <1>4, <1>7, <2>2
<1> QED BY <1>3, <1>6, <1>7

LEMMA IdentitiesLeadStep ==
  ASSUME AccountsSane, AccountsTyped, IdentitiesLead, CallbacksFollow, [Accounts!Next]_(Accounts!vars)
  PROVE  IdentitiesLead'
<1>0. /\ identity \in [Subjects -> IdentityRow \cup {None}] /\ \A x \in IdentityRow : x.user \in Users /\ x # None
      /\ user \in [Users -> AccountRow]
      BY DEF AccountsTyped, IdentityRow, AccountsSane
<1>1. ASSUME NEW u \in Users, Goes(u) PROVE IdentitiesLead'
  <2>1. ~Accounts!Live(u)' /\ \A v \in Users \ {u} : user'[v] = user[v]
        BY <1>0, <1>1 DEF Goes, Accounts!Live, Accounts!Row
  <2>2. \A s \in Subjects : identity'[s] = IF identity[s] # None /\ identity[s].user = u THEN None ELSE identity[s]
        BY <1>1 DEF Goes
  <2>3. ASSUME NEW s \in Subjects, identity'[s] # None
        PROVE  Accounts!Live(identity[s].user)' /\ (identity[s].prov => Complete(identity[s].user)') /\ identity'[s] = identity[s]
    <3>1. identity'[s] = identity[s] /\ identity[s].user # u
          BY <2>2, <2>3
    <3>2. Accounts!Live(identity[s].user) /\ (identity[s].prov => Complete(identity[s].user))
          BY <2>3, <3>1 DEF IdentitiesLead
    <3>3. user'[identity[s].user] = user[identity[s].user] /\ identity'[s].user = identity[s].user
          BY <2>1, <3>1, <3>2 DEF Accounts!Live
    <3> QED BY <3>1, <3>2, <3>3 DEF Accounts!Live, Complete
  <2>4. ASSUME NEW v \in Users, Accounts!Live(v)', user'[v].via = "oauth"
        PROVE  \E s \in Subjects : identity'[s] # None /\ identity'[s].user = v
    <3>1. v # u /\ user'[v] = user[v]
          BY <2>1, <2>4
    <3>2. Accounts!Live(v) /\ user[v].via = "oauth"
          BY <2>4, <3>1 DEF Accounts!Live
    <3>3. PICK s \in Subjects : identity[s] # None /\ identity[s].user = v
          BY <3>2 DEF IdentitiesLead
    <3> QED BY <2>2, <3>1, <3>3
  <2> QED BY <2>3, <2>4 DEF IdentitiesLead
<1>2. CASE UNCHANGED identity /\ Amended
  <2>1. \A u \in Users : Edited(user[u], user'[u])
        BY <1>2 DEF Amended
  <2>2. \A u \in Users : (Accounts!Live(u)' <=> Accounts!Live(u)) /\ user'[u].via = user[u].via
        BY <2>1 DEF Edited, Accounts!Live
  <2>3. \A u \in Users : Accounts!Live(u) /\ Complete(u) => Complete(u)'
        BY <2>2, AccountRowKept
  <2> QED BY <1>0, <1>2, <2>2, <2>3 DEF IdentitiesLead
<1>3. ASSUME NEW j \in Jobs, Accounts!CreateUser(j) PROVE IdentitiesLead'
  <2>1. UNCHANGED identity
        BY <1>3 DEF Accounts!CreateUser
  <2>2. \A u \in Users : Accounts!Live(u) => Accounts!Live(u)'
    <3>1. \A v, y : Opened(v, y) => \A u \in Users : Accounts!Live(u) => Accounts!Live(u)'
          BY DEF Opened, Accounts!Live, AccountsTyped
    <3>2. UNCHANGED user => \A u \in Users : Accounts!Live(u) => Accounts!Live(u)'
          BY DEF Accounts!Live
    <3> QED BY <1>3, <3>1, <3>2, CreateOpens
  <2>3. \A u \in Users : Accounts!Live(u)' /\ user'[u].via = "oauth" => Accounts!Live(u) /\ user[u].via = "oauth"
    <3>1. ASSUME NEW v, NEW y, Opened(v, y), y.via # "oauth"
          PROVE  \A u \in Users : Accounts!Live(u)' /\ user'[u].via = "oauth" => Accounts!Live(u) /\ user[u].via = "oauth"
          BY <3>1 DEF Opened, Accounts!Live, AccountsTyped
    <3>2. \A x \in Making : x.via # "oauth"
          BY DEF Making
    <3>3. UNCHANGED user => \A u \in Users : Accounts!Live(u)' /\ user'[u].via = "oauth" => Accounts!Live(u) /\ user[u].via = "oauth"
          BY DEF Accounts!Live
    <3> QED BY <1>3, <3>1, <3>2, <3>3, CreateOpens
  <2>4. ASSUME NEW u \in Users, Accounts!Live(u), Complete(u) PROVE Complete(u)'
        BY <2>2, <2>4, AccountRowKept
  <2> QED BY <1>0, <2>1, <2>2, <2>3, <2>4 DEF IdentitiesLead
<1>4. ASSUME NEW j \in Jobs, Accounts!OAuthLoginUser(j), NEW s, s = job[j].subject
      PROVE  IdentitiesLead'
  <2>1. CASE UNCHANGED <<user, identity>>
        BY <2>1 DEF IdentitiesLead, Accounts!Live, Complete
  <2>2. ASSUME NEW u, NEW z, FirstLogin(j, s, u, z)
        PROVE  IdentitiesLead'
    <3>1. u \in Users /\ Accounts!Live(u)' /\ ~Accounts!Live(u) /\ \A v \in Users \ {u} : user'[v] = user[v]
          BY <1>0, <2>2 DEF FirstLogin, Opened, Accounts!Live
    <3>2. /\ s \in Subjects /\ identity[s] = None
          /\ identity'[s] = [user |-> u, prov |-> FALSE] /\ \A x \in Subjects \ {s} : identity'[x] = identity[x]
          BY <1>0, <2>2 DEF FirstLogin
    <3>3. \A v \in Users \ {u} : (Accounts!Live(v)' <=> Accounts!Live(v)) /\ (Complete(v)' <=> Complete(v))
          BY <3>1 DEF Accounts!Live, Complete
    <3>4. [user |-> u, prov |-> FALSE] # None
      <4>1. [user |-> u, prov |-> FALSE] \in [user : Users, prov : BOOLEAN]
            BY <3>1
      <4> QED BY <4>1 DEF AccountsSane
    <3>5. ASSUME NEW x \in Subjects, identity'[x] # None
          PROVE  Accounts!Live(identity[x].user)' /\ (identity'[x].prov => Complete(identity[x].user)')
      <4>1. CASE x = s
        <5>1. identity'[x].user = u /\ identity'[x].prov = FALSE
              BY <3>2, <4>1
        <5> QED BY <3>1, <5>1 DEF Accounts!Live
      <4>2. CASE x # s
        <5>1. identity'[x] = identity[x] /\ Accounts!Live(identity[x].user) /\ (identity[x].prov => Complete(identity[x].user))
              BY <3>2, <3>5, <4>2 DEF IdentitiesLead
        <5>2. identity[x].user \in Users \ {u}
              BY <3>1, <5>1 DEF Accounts!Live
        <5> QED BY <3>1, <5>1, <5>2 DEF Accounts!Live, Complete
      <4> QED BY <4>1, <4>2
    <3>6. ASSUME NEW v \in Users, Accounts!Live(v)', user'[v].via = "oauth"
          PROVE  \E x \in Subjects : identity'[x] # None /\ identity'[x].user = v
      <4>1. CASE v = u
            BY <3>2, <3>4, <4>1
      <4>2. CASE v # u
        <5>1. PICK x \in Subjects : identity[x] # None /\ identity[x].user = v
              BY <3>1, <3>3, <3>6, <4>2 DEF IdentitiesLead
        <5> QED BY <3>2, <5>1
      <4> QED BY <4>1, <4>2
    <3> QED BY <3>5, <3>6 DEF IdentitiesLead
  <2>3. UNCHANGED <<user, identity>> \/ \E u, z : FirstLogin(j, s, u, z)
        BY <1>4, ProviderOpens
  <2> QED BY <2>1, <2>2, <2>3
<1>5. ASSUME NEW j \in Jobs, Accounts!BindOAuthIdentity(j), UNCHANGED user, NEW s, s = job[j].subject, NEW u, u = job[j].user
      PROVE  IdentitiesLead'
  <2>1. CASE UNCHANGED identity
        BY <1>5, <2>1 DEF IdentitiesLead, Accounts!Live, Complete
  <2>2. CASE /\ Accounts!Live(u) /\ s \in Subjects /\ identity[s] = None
             /\ \A x \in Subjects : identity[x] # None => identity[x].user # u
             /\ \A x \in Subjects : identity'[x] = IF x = s THEN [user |-> u, prov |-> TRUE] ELSE identity[x]
    <3>1. Complete(u)
          BY <2>2 DEF IdentitiesLead, Complete, Accounts!Live
    <3>2. ASSUME NEW x \in Subjects, identity'[x] # None
          PROVE  Accounts!Live(identity[x].user)' /\ (identity'[x].prov => Complete(identity[x].user)')
      <4>1. CASE x = s
        <5>1. identity'[x].user = u
              BY <2>2, <4>1
        <5> QED BY <1>5, <2>2, <3>1, <5>1 DEF Accounts!Live, Complete
      <4>2. CASE x # s
        <5>1. identity'[x] = identity[x] /\ Accounts!Live(identity[x].user) /\ (identity[x].prov => Complete(identity[x].user))
              BY <2>2, <3>2, <4>2 DEF IdentitiesLead
        <5> QED BY <1>5, <5>1 DEF Accounts!Live, Complete
      <4> QED BY <4>1, <4>2
    <3>3. ASSUME NEW v \in Users, Accounts!Live(v)', user'[v].via = "oauth"
          PROVE  \E x \in Subjects : identity'[x] # None /\ identity'[x].user = v
      <4>1. PICK x \in Subjects : identity[x] # None /\ identity[x].user = v
            BY <1>5, <3>3 DEF IdentitiesLead, Accounts!Live
      <4> QED BY <2>2, <4>1
    <3> QED BY <3>2, <3>3 DEF IdentitiesLead
  <2> QED BY <1>5, <2>1, <2>2, BindWrites
<1>6. ASSUME NEW j \in Jobs, Accounts!MarkOAuthProvisioned(j), UNCHANGED user, NEW s, s = job[j].subject
      PROVE  IdentitiesLead'
  <2>1. CASE UNCHANGED identity
        BY <1>6, <2>1 DEF IdentitiesLead, Accounts!Live, Complete
  <2>2. CASE /\ s \in Subjects /\ identity[s] # None /\ identity'[s].user = identity[s].user /\ identity'[s] \in IdentityRow
             /\ \A x \in Subjects \ {s} : identity'[x] = identity[x]
    <3>1. Accounts!Live(identity[s].user) /\ Complete(identity[s].user)
      <4>1. job[j].at = "mark"
            BY <1>6 DEF Accounts!MarkOAuthProvisioned
      <4>2. /\ user[identity[s].user].via = "oauth" => identity[s].user = job[j].user
            /\ Accounts!Live(job[j].user) => Complete(job[j].user)
            BY <1>6, <2>2, <4>1 DEF CallbacksFollow
      <4>3. Accounts!Live(identity[s].user)
            BY <2>2 DEF IdentitiesLead
      <4> QED BY <4>2, <4>3 DEF Complete
    <3>2. ASSUME NEW x \in Subjects, identity'[x] # None
          PROVE  Accounts!Live(identity[x].user)' /\ (identity'[x].prov => Complete(identity[x].user)')
      <4>1. CASE x = s
            BY <1>6, <2>2, <3>1, <4>1 DEF Accounts!Live, Complete
      <4>2. CASE x # s
        <5>1. identity'[x] = identity[x] /\ Accounts!Live(identity[x].user) /\ (identity[x].prov => Complete(identity[x].user))
              BY <2>2, <3>2, <4>2 DEF IdentitiesLead
        <5> QED BY <1>6, <5>1 DEF Accounts!Live, Complete
      <4> QED BY <4>1, <4>2
    <3>3. ASSUME NEW v \in Users, Accounts!Live(v)', user'[v].via = "oauth"
          PROVE  \E x \in Subjects : identity'[x] # None /\ identity'[x].user = v
      <4>1. PICK x \in Subjects : identity[x] # None /\ identity[x].user = v
            BY <1>6, <3>3 DEF IdentitiesLead, Accounts!Live
      <4>2. identity'[s] # None
            BY <1>0, <2>2
      <4>3. CASE x = s
            BY <2>2, <4>1, <4>2, <4>3
      <4>4. CASE x # s
            BY <2>2, <4>1, <4>4
      <4> QED BY <4>3, <4>4
    <3> QED BY <3>2, <3>3 DEF IdentitiesLead
  <2> QED BY <1>6, <2>1, <2>2, MarkWrites
<1> QED BY <1>1, <1>2, <1>3, <1>4, <1>5, <1>6, AccountsMove, IdentitiesWritten

LEMMA CallbacksFollowStep ==
  ASSUME AccountsSane, AccountsTyped, IdentitiesLead, CallbacksFollow, [Accounts!Next]_(Accounts!vars)
  PROVE  CallbacksFollow'
<1>0. /\ identity \in [Subjects -> IdentityRow \cup {None}] /\ \A x \in IdentityRow : x.user \in Users /\ x # None
      /\ user \in [Users -> AccountRow] /\ \A s \in Subjects : identity[s] # None => Accounts!Live(identity[s].user)
      BY DEF AccountsTyped, IdentityRow, AccountsSane, IdentitiesLead
<1> DEFINE Follows(i) ==
      /\ job[i].at \in {"supply", "mark"} =>
           (identity[job[i].subject] # None /\ user[identity[job[i].subject].user].via = "oauth"
             => identity[job[i].subject].user = job[i].user)
      /\ job[i].at \in {"mark", "oauthSession"} /\ Accounts!Live(job[i].user) => Complete(job[i].user)
<1>f. \A i \in Jobs : Follows(i)
      BY DEF CallbacksFollow
<1>1. ASSUME NEW i \in Jobs, Accounts!PanelRestarts PROVE Follows(i)'
  <2>1. job'[i].at \in {"asked", "idle"}
        BY <1>1 DEF Accounts!PanelRestarts, Accounts!Idle
  <2> QED BY <2>1
\* A callback that does not move stays where its account and identity are
<1>2. ASSUME NEW i \in Jobs, job'[i] = job[i], job[i].at \in {"supply", "mark", "oauthSession"}
      PROVE  Follows(i)'
  <2>1. \A j \in Jobs : ~Accounts!OAuthLoginUser(j)
        BY <1>2, ProviderOpens DEF Accounts!Finalizing
  <2>2. job[i].subject \in Subjects /\ job[i].user \in Users
        BY <1>2, Errands DEF Entering
  <2>3. ASSUME NEW v \in Users, Accounts!Live(v)', user'[v].via = "oauth" PROVE Accounts!Live(v) /\ user[v].via = "oauth"
    <3>1. \A x \in Making : x.via # "oauth"
          BY DEF Making
    <3>2. Accounts!Live(v)
          BY <2>1, <2>3, <3>1, AccountRowMade
    <3> QED BY <2>3, <3>2, AccountRowKept
  <2>4. ASSUME NEW v \in Users, Accounts!Live(v)', Accounts!Live(v) => Complete(v) PROVE Complete(v)'
    <3>1. CASE Accounts!Live(v)
          BY <2>4, <3>1, AccountRowKept
    <3>2. CASE ~Accounts!Live(v)
      <4>1. user'[v].via # "oauth"
            BY <2>3, <2>4, <3>2
      <4> QED BY <4>1 DEF Complete
    <3> QED BY <3>1, <3>2
  <2>5. ASSUME NEW s \in Subjects, identity'[s] # None, user'[identity'[s].user].via = "oauth", Accounts!Live(identity[s].user)'
        PROVE  identity[s] # None /\ identity'[s].user = identity[s].user /\ user[identity[s].user].via = "oauth"
    <3>1. identity'[s].user \in Users /\ Accounts!Live(identity'[s].user) /\ user[identity'[s].user].via = "oauth"
          BY <2>3, <2>5 DEF Accounts!Live
    <3>2. identity[s] # None /\ identity'[s].user = identity[s].user
      <4>1. ASSUME NEW j \in Jobs, Accounts!BindOAuthIdentity(j) PROVE identity'[s] = identity[s]
        <5>1. ASSUME NEW u, Accounts!Live(u), \A x \in Subjects : identity[x] # None => identity[x].user # u
              PROVE  user[u].via # "oauth"
              BY <5>1 DEF IdentitiesLead, Accounts!Live
        <5> DEFINE u == job[j].user
        <5>2. \/ UNCHANGED identity
              \/ /\ Accounts!Live(u) /\ \A x \in Subjects : identity[x] # None => identity[x].user # u
                 /\ \A x \in Subjects : identity'[x] = IF x = job[j].subject THEN [user |-> u, prov |-> TRUE] ELSE identity[x]
              BY <4>1, BindWrites
        <5> HIDE DEF u
        <5>3. CASE UNCHANGED identity
              BY <5>3
        <5>4. CASE user[u].via # "oauth" /\ identity'[s] = [user |-> u, prov |-> TRUE]
              BY <3>1, <5>4
        <5> QED BY <5>1, <5>2, <5>3, <5>4
      <4>2. ASSUME NEW j \in Jobs, Accounts!MarkOAuthProvisioned(j)
            PROVE  identity'[s] = identity[s] \/ (identity[s] # None /\ identity'[s].user = identity[s].user)
            BY <4>2, MarkWrites
      <4>3. \A u \in Users : Goes(u) => identity'[s] = identity[s]
            BY <2>5 DEF Goes
      <4> QED BY <2>1, <2>5, <4>1, <4>2, <4>3, IdentitiesWritten
    <3> QED BY <3>1, <3>2
  <2>6. IdentitiesLead'
        BY IdentitiesLeadStep
  <2>7. ASSUME job[i].at \in {"supply", "mark"}, identity'[job[i].subject] # None,
               user'[identity'[job[i].subject].user].via = "oauth"
        PROVE  identity'[job[i].subject].user = job[i].user
    <3>2. \A s \in Subjects : identity'[s] # None => Accounts!Live(identity[s].user)'
          BY <2>6 DEF IdentitiesLead
    <3> QED BY <1>f, <2>2, <2>5, <2>7, <3>2
  <2>8. ASSUME job[i].at \in {"mark", "oauthSession"}, Accounts!Live(job[i].user)' PROVE Complete(job[i].user)'
    <3>1. Accounts!Live(job[i].user) => Complete(job[i].user)
          BY <1>f, <2>8
    <3>2. \A v \in Users : Accounts!Live(v)' /\ (Accounts!Live(v) => Complete(v)) => Complete(v)'
          BY <2>4
    <3>3. user'[job'[i].user].is = "live"
          BY <1>2, <2>8 DEF Accounts!Live
    <3> QED BY <1>2, <2>2, <3>1, <3>2, <3>3 DEF Accounts!Live, Complete
  <2> QED BY <1>2, <2>7, <2>8 DEF Accounts!Live, Complete
<1>3. ASSUME NEW i \in Jobs, Turn(i), job'[i].at \in {"supply", "mark", "oauthSession"} PROVE Follows(i)'
  <2>1. CASE Accounts!OAuthLoginUser(i)
    <3>1. CASE UNCHANGED <<user, identity>>
      <4>1. /\ identity[job[i].subject] # None /\ job'[i].subject = job[i].subject
            /\ job'[i].user = identity[job[i].subject].user
            /\ job'[i].at = IF identity[job[i].subject].prov THEN "oauthSession" ELSE "supply"
        <5>1. Accounts!Idle.at = "idle"
              BY DEF Accounts!Idle
        <5>2. \A s, u, z : FirstLogin(i, s, u, z) => user' # user
              BY <1>0 DEF FirstLogin, Opened
        <5> QED BY <1>3, <2>1, <3>1, <5>1, <5>2, ProviderOpens
      <4>2. job[i].subject \in Subjects
            BY <2>1, ProviderOpens
      <4>3. identity[job[i].subject].prov => Complete(identity[job[i].subject].user)
            BY <4>1, <4>2 DEF IdentitiesLead
      <4> QED BY <3>1, <4>1, <4>3 DEF Accounts!Live, Complete
    <3>2. ASSUME NEW s, NEW u, NEW z, FirstLogin(i, s, u, z) PROVE Follows(i)'
      <4>1. /\ job'[i].at = "supply" /\ job'[i].subject = s /\ job'[i].user = u
            /\ identity'[s] = [user |-> u, prov |-> FALSE]
            BY <3>2 DEF FirstLogin
      <4> QED BY <4>1
    <3> QED BY <2>1, <3>1, <3>2, ProviderOpens
  <2>2. CASE Accounts!ProvisionOAuth(i)
    <3>1. job[i] \in Entering /\ job[i].at = "supply" /\ UNCHANGED identity
          BY <2>2, Errands DEF Accounts!ProvisionOAuth
    <3>2. job[i].user \in Users
          BY <3>1 DEF Entering
    <3>3. job'[i].at = "mark" /\ job'[i].user = job[i].user /\ job'[i].subject = job[i].subject
      <4>1. Accounts!Go(i, Accounts!Idle) \/ Accounts!To(i, "mark")
            BY <2>2 DEF Accounts!ProvisionOAuth
      <4>2. ~Accounts!Go(i, Accounts!Idle)
            BY <1>3 DEF Accounts!Go, Accounts!Idle, AccountsTyped
      <4> QED BY <3>1, <4>1, <4>2 DEF Accounts!To, Accounts!Go, Entering, AccountsTyped
    <3> DEFINE u == job[i].user
    <3>4. \/ user' = [user EXCEPT ![u] = [user[u] EXCEPT !.has = user[u].has \cup Accounts!AllGoods]]
          \/ ~Accounts!Live(u) /\ UNCHANGED user
      <4>1. PICK n \in 1..Len(Accounts!Goods) :
              /\ user' = IF Accounts!Live(u) THEN [user EXCEPT ![u] = [user[u] EXCEPT !.has = user[u].has \cup Accounts!Upto(n)]] ELSE user
              /\ IF n = Len(Accounts!Goods) THEN Accounts!To(i, "mark") ELSE Accounts!Go(i, Accounts!Idle)
            BY <2>2 DEF Accounts!ProvisionOAuth
      <4>2. ~Accounts!Go(i, Accounts!Idle)
            BY <1>3 DEF Accounts!Go, Accounts!Idle, AccountsTyped
      <4>3. Accounts!Upto(n) = Accounts!AllGoods
            BY <4>1, <4>2, UptoIsGoods
      <4>4. CASE Accounts!Live(u)
        <5>1. user' = [user EXCEPT ![u] = [user[u] EXCEPT !.has = user[u].has \cup Accounts!Upto(n)]]
              BY <4>1, <4>4
        <5> HIDE DEF u
        <5> QED BY <4>3, <5>1, Zenon
      <4> QED BY <4>1, <4>4
    <3>5. Accounts!Live(u) => user'[u].has = Accounts!AllGoods
      <4>1. user[u].has \subseteq Accounts!AllGoods /\ user[u] \in AccountRow
            BY <1>0, <3>2 DEF AccountRow
      <4>2. [user[u] EXCEPT !.has = user[u].has \cup Accounts!AllGoods].has = Accounts!AllGoods
            BY <4>1 DEF AccountRow
      <4> HIDE DEF u
      <4> QED BY <1>0, <3>2, <3>4, <4>2 DEF u
    <3>6. \A v \in Users : user'[v].via = user[v].via /\ user'[v].is = user[v].is
          BY <1>0, <3>2, <3>4 DEF AccountRow
    <3>7. \A s \in Subjects : identity[s] # None => identity[s].user \in Users
          BY <1>0
    <3>8. job[i].subject \in Subjects
          BY <3>1 DEF Entering
    <3>9. identity[job[i].subject] # None /\ user[identity[job[i].subject].user].via = "oauth"
             => identity[job[i].subject].user = job[i].user
          BY <1>f, <3>1
    <3>10. Accounts!Live(job[i].user)' => Complete(job[i].user)'
      <4>1. user'[job'[i].user].is = "live" => user'[job'[i].user].has = Accounts!AllGoods
            BY <3>2, <3>3, <3>5, <3>6 DEF Accounts!Live
      <4> QED BY <4>1 DEF Accounts!Live, Complete
    <3> QED BY <3>1, <3>3, <3>6, <3>7, <3>8, <3>9, <3>10
  <2>3. CASE Accounts!MarkOAuthProvisioned(i)
    <3>1. job[i] \in Entering /\ job[i].at = "mark" /\ UNCHANGED user
          BY <2>3, Errands DEF Accounts!MarkOAuthProvisioned
    <3>2. job'[i].at = "oauthSession" /\ job'[i].user = job[i].user
      <4>1. Accounts!Go(i, Accounts!Idle) \/ Accounts!To(i, "oauthSession")
            BY <2>3 DEF Accounts!MarkOAuthProvisioned
      <4>2. ~Accounts!Go(i, Accounts!Idle)
            BY <1>3 DEF Accounts!Go, Accounts!Idle, AccountsTyped
      <4> QED BY <3>1, <4>1, <4>2 DEF Accounts!To, Accounts!Go, Entering, AccountsTyped
    <3>3. Accounts!Live(job[i].user) => Complete(job[i].user)
          BY <1>f, <3>1
    <3> QED BY <3>1, <3>2, <3>3 DEF Accounts!Live, Complete
  <2> QED BY <1>3, <2>1, <2>2, <2>3, TurnMoves
<1>4. ASSUME NEW i \in Jobs, job'[i].at \notin {"supply", "mark", "oauthSession"} PROVE Follows(i)'
      BY <1>4
<1>5. \A i \in Jobs : Follows(i)'
  <2> HIDE DEF Follows
  <2> QED BY <1>1, <1>2, <1>3, <1>4, OwnTurn
<1> QED BY <1>5 DEF CallbacksFollow

LEMMA LoginsCompleteStep ==
  ASSUME AccountsSane, AccountsTyped, LoginsComplete, CallbacksFollow, [Accounts!Next]_(Accounts!vars)
  PROVE  LoginsComplete'
<1>1. ASSUME NEW s \in session, s \in session' PROVE Accounts!Live(s.user)' /\ (s.by = "provider" => Complete(s.user)')
  <2>1. Accounts!Live(s.user) /\ (s.by = "provider" => Complete(s.user))
        BY DEF LoginsComplete
  <2>2. Accounts!Live(s.user)'
    <3>1. Amended => Accounts!Live(s.user)'
      <4>1. Amended => Edited(user[s.user], user'[s.user])
            BY <2>1 DEF Amended, Accounts!Live
      <4> QED BY <2>1, <4>1 DEF Edited, Accounts!Live
    <3>2. ASSUME NEW u \in Users, Goes(u) PROVE Accounts!Live(s.user)'
      <4>1. s.user # u
            BY <1>1, <3>2 DEF Goes
      <4> QED BY <2>1, <3>2, <4>1 DEF Goes, Accounts!Live, AccountsTyped
    <3>3. \A u, y : Opened(u, y) => Accounts!Live(s.user)'
          BY <2>1 DEF Opened, Accounts!Live, AccountsTyped
    <3> QED BY <3>1, <3>2, <3>3, AccountsMove
  <2>3. s.user \in Users
        BY <2>1 DEF Accounts!Live
  <2> QED BY <2>1, <2>2, <2>3, AccountRowKept
<1>2. CASE session' \subseteq session
      BY <1>1, <1>2 DEF LoginsComplete
<1>3. ASSUME UNCHANGED user, NEW u, Accounts!Live(u), NEW by, by = "provider" => Complete(u),
             session' \subseteq session \cup {[user |-> u, by |-> by]}
      PROVE  LoginsComplete'
  <2>1. ASSUME NEW s \in session' PROVE Accounts!Live(s.user)' /\ (s.by = "provider" => Complete(s.user)')
    <3>1. CASE s \in session
          BY <1>1, <3>1
    <3>2. CASE s = [user |-> u, by |-> by]
      <4>1. s.user = u /\ s.by = by
            BY <3>2
      <4> QED BY <1>3, <4>1 DEF Accounts!Live, Complete
    <3> QED BY <1>3, <3>1, <3>2
  <2> QED BY <2>1 DEF LoginsComplete
<1>4. CASE Accounts!Login
  <2>1. PICK u \in Users : Accounts!Live(u) /\ session' = session \cup {[user |-> u, by |-> "panel"]}
        BY <1>4 DEF Accounts!Login
  <2>2. UNCHANGED user
        BY <1>4 DEF Accounts!Login
  <2> QED BY <1>3, <2>1, <2>2
<1>5. ASSUME NEW j \in Jobs, Accounts!IssueLogin(j) PROVE LoginsComplete'
  <2>1. UNCHANGED user
        BY <1>5 DEF Accounts!IssueLogin
  <2>2. session' \subseteq session \/ (Accounts!Live(job[j].user) /\ session' = session \cup {[user |-> job[j].user, by |-> "panel"]})
        BY <1>5 DEF Accounts!IssueLogin
  <2> QED BY <1>2, <1>3, <2>1, <2>2
<1>6. ASSUME NEW j \in Jobs, Accounts!IssueOAuthLogin(j) PROVE LoginsComplete'
  <2>1. UNCHANGED user /\ job[j].at = "oauthSession"
        BY <1>6 DEF Accounts!IssueOAuthLogin
  <2>2. session' \subseteq session \/ (Accounts!Live(job[j].user) /\ session' = session \cup {[user |-> job[j].user, by |-> "provider"]})
        BY <1>6 DEF Accounts!IssueOAuthLogin
  <2>3. Accounts!Live(job[j].user) => Complete(job[j].user)
        BY <2>1 DEF CallbacksFollow
  <2> QED BY <1>2, <1>3, <2>1, <2>2, <2>3
<1> QED BY <1>2, <1>4, <1>5, <1>6, LoginsWritten

-----------------------------------------------------------------------------
(* Places of the code                                                        *)

\* What the code does in a step
LEMMA CodeMoves ==
  ASSUME PlacesKept, AccountsSane, AccountsTyped, [Accounts!Next]_(Accounts!vars)
  PROVE  /\ code' \in [state : {"on", "off", "gone"}, used : Nat]
         /\ \/ code'.used = code.used
            \/ \E j \in Jobs : Accounts!FinalizeRegCode(j) /\ Accounts!CodeUsable
<1>0. code \in [state : {"on", "off", "gone"}, used : Nat]
      BY DEF PlacesKept
<1>1. CASE Accounts!SetRegCodeEnabled
  <2>1. \A x \in {"on", "off", "gone"} : LET c == [code EXCEPT !.state = x] IN
          c \in [state : {"on", "off", "gone"}, used : Nat] /\ c.used = code.used
        BY <1>0
  <2> QED BY <1>1, <2>1 DEF Accounts!SetRegCodeEnabled
<1>2. CASE Accounts!DeleteRegCode
      BY <1>0, <1>2 DEF Accounts!DeleteRegCode
<1>3. ASSUME NEW j \in Jobs, Accounts!FinalizeRegCode(j)
      PROVE  code' \in [state : {"on", "off", "gone"}, used : Nat] /\ (~Accounts!CodeUsable => UNCHANGED code)
  <2>1. LET c == [code EXCEPT !.used = code.used + 1] IN c \in [state : {"on", "off", "gone"}, used : Nat]
        BY <1>0
  <2> QED BY <1>0, <1>3, <2>1 DEF Accounts!FinalizeRegCode
<1>4. ASSUME NEW j \in Jobs, Accounts!ProvisionClient(j) PROVE UNCHANGED code
      BY <1>4 DEF Accounts!ProvisionClient
<1> QED BY <1>0, <1>1, <1>2, <1>3, <1>4 DEF Accounts!Next, Accounts!vars, Accounts!Register, Accounts!AdminCreateUser, Accounts!CreateUser, Accounts!CreateVerifyToken, Accounts!UseVerifyToken,
           Accounts!SetEmailVerified, Accounts!BindEmail, Accounts!ResendVerify, Accounts!CreateEmailToken, Accounts!GrantPackage, Accounts!StartOAuth, Accounts!OAuthCallback,
           Accounts!BindOAuthIdentity, Accounts!OAuthLoginUser, Accounts!IssueLogin, Accounts!ProvisionOAuth, Accounts!MarkOAuthProvisioned, Accounts!IssueOAuthLogin, Accounts!Login,
           Accounts!Logout, Accounts!AdminSetUserEmail, Accounts!AdminUpdateUser, Accounts!PanelRestarts, Accounts!DeleteUser

\* Only two handlers move a registration that has still to pay
LEMMA UnpaidTurn ==
  ASSUME AccountsTyped, NEW j \in Jobs, Turn(j)
  PROVE  (job[j].at = "provision" => Accounts!ProvisionClient(j)) /\ (job[j].at = "spend" => Accounts!FinalizeRegCode(j))
<1> DEFINE unpaid == job[j].at \in {"provision", "spend"}
<1>1. Accounts!Register(j) \/ Accounts!AdminCreateUser(j) \/ Accounts!UseVerifyToken(j) \/ Accounts!BindEmail(j) \/ Accounts!ResendVerify(j) \/ Accounts!GrantPackage(j)
        \/ Accounts!StartOAuth(j) => ~unpaid
      BY DEF Accounts!Idle, Accounts!Register, Accounts!AdminCreateUser, Accounts!UseVerifyToken, Accounts!BindEmail, Accounts!ResendVerify, Accounts!GrantPackage, Accounts!StartOAuth
<1>2. Accounts!CreateUser(j) \/ Accounts!CreateVerifyToken(j) \/ Accounts!IssueLogin(j) \/ Accounts!SetEmailVerified(j) \/ Accounts!CreateEmailToken(j) => ~unpaid
      BY DEF Accounts!CreateUser, Accounts!CreateVerifyToken, Accounts!IssueLogin, Accounts!SetEmailVerified, Accounts!CreateEmailToken
<1>3. Accounts!OAuthCallback(j) \/ Accounts!BindOAuthIdentity(j) \/ Accounts!OAuthLoginUser(j) \/ Accounts!ProvisionOAuth(j) \/ Accounts!MarkOAuthProvisioned(j)
        \/ Accounts!IssueOAuthLogin(j) => ~unpaid
      BY DEF Accounts!OAuthCallback, Accounts!BindOAuthIdentity, Accounts!OAuthLoginUser, Accounts!ProvisionOAuth, Accounts!MarkOAuthProvisioned, Accounts!IssueOAuthLogin
<1>4. (Accounts!ProvisionClient(j) => job[j].at = "provision") /\ (Accounts!FinalizeRegCode(j) => job[j].at = "spend")
      BY DEF Accounts!ProvisionClient, Accounts!FinalizeRegCode
<1> QED BY <1>1, <1>2, <1>3, <1>4 DEF Turn

\* An account that is done paying was done before, unless it pays now
LEMMA PaysNow ==
  ASSUME AccountsSane, AccountsTyped, PlacesKept, [Accounts!Next]_(Accounts!vars), NEW x \in Users, x \in Invited', x \notin Unspent'
  PROVE  x \in Invited \ Unspent \/ \E j \in Jobs : Accounts!FinalizeRegCode(j) /\ Accounts!CodeUsable /\ x = job[j].user
<1>1. Accounts!Live(x)' /\ user'[x].via = "code" /\ ~user'[x].cut
      BY DEF Invited
<1>2. Accounts!Live(x)
  <2>1. SUFFICES ASSUME ~Accounts!Live(x) PROVE FALSE
        OBVIOUS
  <2>2. PICK j \in Jobs : /\ Accounts!CreateUser(j) /\ job'[j].user = x /\ job'[j].via = "code"
                          /\ job'[j].at = IF job[j].verify THEN "mail" ELSE "provision"
        BY <1>1, <2>1, AccountRowMade
  <2>3. job[j].at = "create" /\ job[j] \in Asking
        BY <2>2, Errands DEF Accounts!CreateUser
  <2>4. job[j].via = "code"
    <3>1. job'[j].at # "idle"
          BY <2>2
    <3> QED BY <2>2, <3>1, CreateOpens DEF Accounts!Idle, AccountsTyped
  <2>5. ~job[j].verify
        BY <2>3, <2>4 DEF PlacesKept
  <2> QED BY <2>2, <2>5 DEF Unspent
<1>3. x \in Invited
      BY <1>1, <1>2, AccountRowKept DEF Invited
<1>4. ASSUME NEW i \in Jobs, job[i].at \in {"provision", "spend"}, job[i].via = "code", job[i].user = x
      PROVE  Accounts!FinalizeRegCode(i) /\ Accounts!CodeUsable
  <2>1. job'[i] # job[i]
        BY <1>4 DEF Unspent
  <2>2. CASE Accounts!PanelRestarts
    <3>1. user'[x] = [user[x] EXCEPT !.cut = TRUE]
          BY <1>2, <1>4, <2>2 DEF Accounts!PanelRestarts
    <3>2. user[x] \in AccountRow
          BY DEF AccountsTyped
    <3>3. user'[x].cut
          BY <3>1, <3>2 DEF AccountRow
    <3> QED BY <1>1, <3>3
  <2>3. ASSUME NEW u, u = x, Goes(u) PROVE FALSE
    <3>1. user'[x] = Accounts!Row("gone", None)
          BY <2>3 DEF Goes, AccountsTyped
    <3> QED BY <1>1, <3>1 DEF Accounts!Row, Accounts!Live
  <2>4. CASE Turn(i) /\ job[i].at = "provision"
    <3>1. Accounts!ProvisionClient(i)
          BY <2>4, UnpaidTurn
    <3>2. \/ job' = [job EXCEPT ![i] = [job[i] EXCEPT !.at = "spend"]] /\ job[i] \in Making
          \/ Goes(x)
          BY <1>2, <1>4, <3>1, ProvisionMoves
    <3>3. job'[i].at = "spend" /\ job'[i].via = "code" /\ job'[i].user = x
          BY <1>4, <2>3, <3>2 DEF Making, AccountsTyped
    <3> QED BY <3>3 DEF Unspent
  <2>5. CASE Turn(i) /\ job[i].at = "spend"
    <3>1. Accounts!FinalizeRegCode(i)
          BY <2>5, UnpaidTurn
    <3>2. CASE ~Accounts!CodeUsable
      <4>1. Accounts!Erased(x)
            BY <1>2, <1>4, <3>1, <3>2 DEF Accounts!FinalizeRegCode, Accounts!EraseIfLive
      <4>2. Goes(x)
            BY <1>2, <4>1, ErasedGoes
      <4> QED BY <2>3, <4>2
    <3> QED BY <3>1, <3>2
  <2> QED BY <1>4, <2>1, <2>2, <2>4, <2>5, OwnTurn
<1> QED BY <1>3, <1>4 DEF Unspent

\* One more member makes a finite set larger by one at most
LEMMA OneMore ==
  ASSUME NEW S, NEW x, IsFiniteSet(S)
  PROVE  IsFiniteSet(S \cup {x}) /\ Cardinality(S \cup {x}) <= Cardinality(S) + 1
<1>1. Cardinality(S) \in Nat
      BY FS_CardinalityType
<1>2. IsFiniteSet(S \cup {x}) /\ Cardinality(S \cup {x}) \in {Cardinality(S), Cardinality(S) + 1}
      BY FS_AddElement
<1> QED BY <1>1, <1>2

LEMMA PlacesKeptStep ==
  ASSUME AccountsSane, AccountsTyped, PlacesKept, [Accounts!Next]_(Accounts!vars)
  PROVE  PlacesKept'
<1> DEFINE Paid == Invited \ Unspent
<1>0. code \in [state : {"on", "off", "gone"}, used : Nat] /\ code.used <= MaxUses /\ Cardinality(Paid) <= code.used
      BY DEF PlacesKept
<1>1. Paid \subseteq Users /\ IsFiniteSet(Paid) /\ Cardinality(Paid) \in Nat
  <2>1. Paid \subseteq Users
        BY DEF Invited
  <2> QED BY <2>1, FS_Subset, FS_CardinalityType DEF AccountsSane
<1>2. /\ code'.used \in Nat /\ code'.used <= MaxUses
      /\ code' \in [state : {"on", "off", "gone"}, used : Nat]
      /\ Cardinality(Paid') <= code'.used
  <2>1. ASSUME NEW j \in Jobs, Accounts!FinalizeRegCode(j), Accounts!CodeUsable
        PROVE  code'.used = code.used + 1 /\ code'.used <= MaxUses /\ Cardinality(Paid') <= code'.used
    <3>1. code' = [code EXCEPT !.used = code.used + 1]
          BY <2>1 DEF Accounts!FinalizeRegCode
    <3>2. code'.used = code.used + 1 /\ code.used < MaxUses
          BY <1>0, <2>1, <3>1 DEF Accounts!CodeUsable
    <3>3. Paid' \subseteq Paid \cup {job[j].user}
      <4>1. ASSUME NEW x \in Paid', NEW i \in Jobs, Accounts!FinalizeRegCode(i), x = job[i].user PROVE x = job[j].user
        <5>1. job[j].at = "spend" /\ job[i].at = "spend" /\ Accounts!To(j, "session") /\ job \in [Jobs -> Errand]
              BY <2>1, <4>1 DEF Accounts!FinalizeRegCode, AccountsTyped
        <5>2. job[i] \in Making
              BY <5>1, Errands
        <5>3. job'[i] # job[i]
          <6>1. job'[i] = Accounts!Idle \/ job'[i] = [job[i] EXCEPT !.at = "session"]
                BY <4>1, <5>1 DEF Accounts!FinalizeRegCode, Accounts!To, Accounts!Go
          <6>2. Accounts!Idle.at # "spend" /\ [job[i] EXCEPT !.at = "session"].at # "spend"
                BY <5>2 DEF Accounts!Idle, Making
          <6> QED BY <5>1, <6>1, <6>2
        <5> QED BY <4>1, <5>1, <5>3 DEF Accounts!To, Accounts!Go
      <4>2. \A x \in Paid' : x \in Users
            BY DEF Invited
      <4> QED BY <4>1, <4>2, PaysNow
    <3> HIDE DEF Paid
    <3>4. IsFiniteSet(Paid \cup {job[j].user}) /\ Cardinality(Paid \cup {job[j].user}) <= Cardinality(Paid) + 1
          BY <1>1, OneMore
    <3>5. Cardinality(Paid') <= Cardinality(Paid \cup {job[j].user}) /\ Cardinality(Paid') \in Nat
          BY <3>3, <3>4, FS_Subset, FS_CardinalityType
    <3>6. Cardinality(Paid \cup {job[j].user}) \in Nat
          BY <3>4, FS_CardinalityType
    <3> QED BY <1>0, <1>1, <3>2, <3>4, <3>5, <3>6 DEF AccountsSane
  <2>2. CASE code'.used = code.used /\ \A j \in Jobs : ~(Accounts!FinalizeRegCode(j) /\ Accounts!CodeUsable)
    <3>1. Paid' \subseteq Paid
      <4>1. \A x \in Paid' : x \in Users
            BY DEF Invited
      <4> QED BY <2>2, <4>1, PaysNow
    <3> HIDE DEF Paid
    <3>2. Cardinality(Paid') <= Cardinality(Paid) /\ Cardinality(Paid') \in Nat
          BY <1>1, <3>1, FS_Subset, FS_CardinalityType
    <3>3. code' \in [state : {"on", "off", "gone"}, used : Nat]
          BY CodeMoves
    <3>4. code'.used \in Nat
          BY <3>3
    <3> QED BY <1>0, <1>1, <2>2, <3>2, <3>3, <3>4
  <2> HIDE DEF Paid
  <2> QED BY <1>0, <2>1, <2>2, CodeMoves
<1>3. ASSUME NEW j \in Jobs, job'[j].at = "create", job'[j].verify PROVE job'[j].via # "code"
  <2>1. CASE job'[j] = job[j]
        BY <1>3, <2>1 DEF PlacesKept
  <2>2. CASE Accounts!PanelRestarts
        BY <1>3, <2>2 DEF Accounts!PanelRestarts, Accounts!Idle
  <2>3. CASE Accounts!Register(j)
    <3>1. PICK via \in {"open", "code"}, verify \in BOOLEAN, a \in Addresses \cup {None} :
            /\ via = "code" => ~verify
            /\ Accounts!Go(j, [at |-> "create", via |-> via, verify |-> verify, addr |-> a, user |-> None])
          BY <2>3 DEF Accounts!Register
    <3>2. job'[j].via = via /\ job'[j].verify = verify
          BY <3>1 DEF Accounts!Go, AccountsTyped
    <3> QED BY <1>3, <3>1, <3>2
  <2>4. CASE Accounts!AdminCreateUser(j)
        BY <2>4 DEF Accounts!AdminCreateUser, Accounts!Go, AccountsTyped
  <2> QED BY <1>3, <2>1, <2>2, <2>3, <2>4, OwnTurn, TurnMoves
<1> QED BY <1>2, <1>3 DEF PlacesKept

LEMMA AccountsStep == ASSUME AccountsSane, AccountsInv, [Accounts!Next]_(Accounts!vars) PROVE AccountsInv'
BY AccountsTypedStep, PlacesKeptStep, IdentitiesLeadStep, CallbacksFollowStep, LoginsCompleteStep DEF AccountsInv

\* The module counts as the library does
LEMMA SameCountAccounts == \A S : Accounts!Cardinality(S) = Cardinality(S)
  BY DEF Accounts!Cardinality, Cardinality

LEMMA AccountsSettle == AccountsSane /\ AccountsInv => Accounts!AdmissionIsSettled
<1> SUFFICES ASSUME AccountsSane, AccountsInv PROVE Accounts!AdmissionIsSettled
    OBVIOUS
<1> DEFINE awaited == {job[j].user : j \in {i \in Jobs : job[i].at \in {"provision", "spend"}}}
           admitted == {u \in Users : Accounts!Live(u) /\ user[u].via = "code" /\ ~user[u].cut}
<1>1. code.used <= MaxUses /\ Cardinality(Invited \ Unspent) <= code.used /\ code.used \in Nat
      BY DEF AccountsInv, PlacesKept
<1>2. Cardinality(admitted \ awaited) <= code.used
  <2>1. admitted \ awaited \subseteq Invited \ Unspent /\ Invited \ Unspent \subseteq Users
        BY DEF Invited, Unspent
  <2>2. IsFiniteSet(Invited \ Unspent)
        BY <2>1, FS_Subset DEF AccountsSane
  <2> HIDE DEF awaited, admitted
  <2>3. Cardinality(admitted \ awaited) <= Cardinality(Invited \ Unspent) /\ IsFiniteSet(admitted \ awaited)
        BY <2>1, <2>2, FS_Subset
  <2>4. Cardinality(admitted \ awaited) \in Nat /\ Cardinality(Invited \ Unspent) \in Nat
        BY <2>2, <2>3, FS_CardinalityType
  <2> QED BY <1>1, <2>3, <2>4
<1>3. \A s \in Subjects :
        identity[s] # None /\ identity[s].prov /\ user[identity[s].user].via = "oauth"
          => user[identity[s].user].has = Accounts!AllGoods
      BY DEF AccountsInv, IdentitiesLead, Complete
<1>4. \A s \in session : s.by = "provider" /\ user[s.user].via = "oauth" => user[s.user].has = Accounts!AllGoods
      BY DEF AccountsInv, LoginsComplete, Complete
<1> QED BY <1>1, <1>2, <1>3, <1>4, SameCountAccounts DEF Accounts!AdmissionIsSettled

\* However registrations, logins, callbacks, deletions and restarts interleave, a code admits no
\* more accounts than it has places (FinalizeRegCode), and an account the identity provider made
\* has everything before its identity counts as provisioned or its session begins
\* (provisionOAuth, MarkOAuthProvisioned), for any users, subjects, codes and requests.
THEOREM AdmissionsSettle == Spec => []AdmissionIsSettled
<1> DEFINE Inv == scenario = "accounts" => AccountsInv
<1>1. Init => Inv
      BY AccountsInit, PanelIsSane DEF Init
<1>2. Inv /\ [Next]_vars => Inv'
  <2> SUFFICES ASSUME Inv, [Next]_vars, scenario = "accounts"
               PROVE  AccountsInv'
      BY DEF Next, vars
  <2>1. [Accounts!Next]_(Accounts!vars)
        BY DEF Next, vars, Accounts!vars, accountsOnly
  <2> QED BY <2>1, AccountsStep, PanelIsSane
<1>3. Inv => AdmissionIsSettled
      BY AccountsSettle, PanelIsSane DEF AdmissionIsSettled
<1> QED BY <1>1, <1>2, <1>3, PTL DEF Spec
-----------------------------------------------------------------------------
(* Monitoring                                                                *)
AlertRow == [type : Monitoring!Types, ts : Nat, read : BOOLEAN]

WatchTyped ==
  /\ now \in Nat /\ machine.setting \in Int
  /\ streak \in [Monitoring!Types -> Nat] /\ judged \in [Monitoring!Types -> [n : Int, at : Int]]
  /\ \A ty \in Monitoring!Types : judged[ty].n >= -1
  /\ sweep.at \in {"expiry", "traffic"} =>
       sweep = [at |-> sweep.at, row |-> sweep.row, start |-> sweep.start, used |-> sweep.used, day |-> sweep.day]

\* Alerts are of the past, and no type has two unread ones
OpenTidy ==
  /\ open \subseteq AlertRow
  /\ \A a \in open : a.ts <= now
  /\ \A a, b \in open : a.type = b.type /\ ~a.read /\ ~b.read => a = b

\* What was last found is what is open
Covers(ty) ==
  /\ judged[ty].n = -1 => Monitoring!Of(open, ty) = {}
  /\ judged[ty].n >= Monitoring!Needed(ty) => \E a \in Monitoring!Of(open, ty) : judged[ty].at - a.ts < Monitoring!Window
Covered == \A ty \in Monitoring!Types : Covers(ty)

\* The streaks in memory count at least the checks in a row
Counts(ty) == judged[ty].n >= 0 => streak[ty] >= Monitoring!Lesser(judged[ty].n, Monitoring!AlertStreakRequired)
StreaksCount == \A ty \in Monitoring!Flappy : Counts(ty)

\* The cursor of a budget knows of a message about it
Heard(c, s) == c.kind = s[1] /\ c.key = s[2] /\ (IF s[1] = "expiry" THEN c.day >= s[3] ELSE c.n >= 1)

CursorTidy ==
  /\ \A c \in cursor : c.n \in Nat /\ c.day \in Int /\ c.day <= now
  /\ \A c, d \in cursor : c.kind = d.kind /\ c.key = d.key => c = d

\* Every message is on record, and the one about to be sent is due
MessagesOnRecord ==
  /\ told \in [Monitoring!Slots -> {0, 1}]
  /\ \A s \in Monitoring!Slots : told[s] = 1 => \E c \in cursor : Heard(c, s)
  /\ sweep.at \in {"expiry", "traffic"} => sweep.day \in Int /\ sweep.day <= now
  /\ sweep.at = "expiry" => \A c \in cursor : c.kind = "expiry" /\ c.key = sweep.row.expiry => c.day < sweep.day

DeliveriesKept == lost \/ (CursorTidy /\ MessagesOnRecord)

MonitoringInv == WatchTyped /\ OpenTidy /\ Covered /\ StreaksCount /\ DeliveriesKept

LEMMA SettingAsked == ASSUME WatchTyped PROVE Monitoring!AlertStreakRequired \in Int /\ Monitoring!AlertStreakRequired >= 1
BY DEF WatchTyped, Monitoring!AlertStreakRequired

LEMMA NeededAsked == ASSUME WatchTyped, NEW ty PROVE Monitoring!Needed(ty) \in Int /\ Monitoring!Needed(ty) >= 1
BY SettingAsked DEF Monitoring!Needed

LEMMA MonitoringInit == ASSUME MonitoringSane, Monitoring!Init PROVE MonitoringInv
<1>1. /\ now = 1 /\ machine.setting \in Int /\ streak = [ty \in Monitoring!Types |-> 0] /\ open = {} /\ cursor = {}
      /\ judged = [ty \in Monitoring!Types |-> [n |-> -1, at |-> 0]] /\ sweep.at = "idle"
      BY DEF Monitoring!Init, MonitoringSane
<1>2. WatchTyped
      BY <1>1 DEF WatchTyped
<1>3. OpenTidy
      BY <1>1 DEF OpenTidy
<1>4. Covered
  <2>1. ASSUME NEW ty \in Monitoring!Types PROVE judged[ty].n = -1 /\ ~(judged[ty].n >= Monitoring!Needed(ty)) /\ Monitoring!Of(open, ty) = {}
        BY <1>1, <1>2, NeededAsked DEF Monitoring!Of
  <2> QED BY <2>1 DEF Covered, Covers
<1>5. StreaksCount
      BY <1>1 DEF StreaksCount, Counts, Monitoring!Flappy, Monitoring!Types
<1>6. CursorTidy /\ MessagesOnRecord
      BY <1>1 DEF Monitoring!Init, CursorTidy, MessagesOnRecord
<1> QED BY <1>2, <1>3, <1>4, <1>5, <1>6 DEF MonitoringInv, DeliveriesKept

-----------------------------------------------------------------------------
(* Alert rows                                                                *)

LEMMA NewestExists == ASSUME NEW S, S \subseteq 0..now, S # {}, now \in Nat PROVE Monitoring!Greatest(S) \in S
<1> DEFINE T == {now - x : x \in S}
<1>1. PICK R : IsWellFoundedOn(R, Nat) /\ \A x, y \in Nat : y < x => <<y, x>> \in R
  <2>1. IsWellFoundedOn(OpToRel(<, Nat), Nat)
        BY Zenon, NatLessThanWellFounded
  <2>2. \A x, y \in Nat : y < x => <<y, x>> \in OpToRel(<, Nat)
        BY Zenon DEF OpToRel
  <2> QED BY Zenon, <2>1, <2>2
<1>2. T \subseteq Nat /\ T # {}
  <2>1. \A x \in S : now - x \in Nat
        OBVIOUS
  <2> QED BY <2>1
<1> HIDE DEF T
<1>3. PICK t \in T : \A y \in T : <<y, t>> \notin R
      BY <1>1, <1>2, WFMin
<1>4. \A y \in T : t \in Nat /\ y \in Nat /\ ~(y < t)
      BY <1>1, <1>2, <1>3
<1>5. PICK x \in S : t = now - x
      BY <1>3 DEF T
<1>6. \A y \in S : y <= x
      BY <1>4, <1>5 DEF T
<1> QED BY <1>6 DEF Monitoring!Greatest

\* One observation leaves one unread alert at most, and one from the last day
LEMMA Observed ==
  ASSUME WatchTyped, OpenTidy, NEW ty \in Monitoring!Types
  PROVE  /\ Monitoring!InsertAlert(ty) \subseteq AlertRow
         /\ \A a \in Monitoring!InsertAlert(ty) : a.type = ty /\ a.ts <= now
         /\ \A a, b \in Monitoring!InsertAlert(ty) : ~a.read /\ ~b.read => a = b
         /\ \E a \in Monitoring!InsertAlert(ty) : now - a.ts < Monitoring!Window
<1> DEFINE mine == Monitoring!Of(open, ty)
           new == [type |-> ty, ts |-> now, read |-> FALSE]
<1>1. mine \subseteq AlertRow /\ \A a \in mine : a.type = ty /\ a.ts <= now /\ a.ts \in Nat
      BY DEF Monitoring!Of, OpenTidy, AlertRow
<1>2. new \in AlertRow /\ new.type = ty /\ new.ts <= now /\ now - new.ts < Monitoring!Window /\ ~new.read
      BY DEF AlertRow, WatchTyped, Monitoring!Window
<1>3. \A a, b \in mine : ~a.read /\ ~b.read => a = b
      BY DEF Monitoring!Of, OpenTidy
<1>4. mine # {} => Monitoring!Greatest({a.ts : a \in mine}) \in {a.ts : a \in mine}
  <2>1. {a.ts : a \in mine} \subseteq 0..now
        BY <1>1 DEF WatchTyped
  <2>2. mine # {} => {a.ts : a \in mine} # {}
        OBVIOUS
  <2> QED BY <2>1, <2>2, NewestExists DEF WatchTyped
<1>5. Monitoring!InsertAlert(ty) = IF \E a \in mine : ~a.read THEN {IF a.read THEN a ELSE new : a \in mine}
                                   ELSE IF mine # {} /\ now - Monitoring!Greatest({a.ts : a \in mine}) < Monitoring!Window THEN mine
                                   ELSE mine \cup {new}
      BY DEF Monitoring!InsertAlert
<1> HIDE DEF mine, new
<1>6. CASE \E a \in mine : ~a.read
  <2>1. Monitoring!InsertAlert(ty) = {IF a.read THEN a ELSE new : a \in mine}
        BY <1>5, <1>6
  <2>2. new \in Monitoring!InsertAlert(ty) /\ \A b \in Monitoring!InsertAlert(ty) : b = new \/ (b \in mine /\ b.read)
        BY <1>6, <2>1
  <2> QED BY <1>1, <1>2, <2>2
<1>7. CASE ~(\E a \in mine : ~a.read) /\ mine # {} /\ now - Monitoring!Greatest({a.ts : a \in mine}) < Monitoring!Window
      BY <1>1, <1>4, <1>5, <1>7
<1>8. CASE ~(\E a \in mine : ~a.read) /\ ~(mine # {} /\ now - Monitoring!Greatest({a.ts : a \in mine}) < Monitoring!Window)
  <2>1. Monitoring!InsertAlert(ty) = mine \cup {new}
        BY <1>5, <1>8
  <2> QED BY <1>1, <1>2, <1>8, <2>1
<1> QED BY <1>6, <1>7, <1>8

-----------------------------------------------------------------------------
(* What a check does about one type                                          *)

LeftAlone(ty) == judged'[ty] = judged[ty] /\ Monitoring!Of(open', ty) = Monitoring!Of(open, ty)
Dropped(ty) == judged'[ty] = Monitoring!Uncounted(ty) /\ Monitoring!Of(open', ty) = Monitoring!Of(open, ty)
Closed(ty) == judged'[ty] = Monitoring!Judged(ty, FALSE) /\ Monitoring!Of(open', ty) = {}
Raised(ty) == judged'[ty] = Monitoring!Judged(ty, TRUE) /\ Monitoring!Of(open', ty) = Monitoring!InsertAlert(ty)
Waited(ty) ==
  /\ ty \in Monitoring!Flappy /\ judged'[ty] = Monitoring!Judged(ty, TRUE) /\ Monitoring!Of(open', ty) = Monitoring!Of(open, ty)
  /\ streak'[ty] < Monitoring!AlertStreakRequired
Settled(ty) == LeftAlone(ty) \/ Dropped(ty) \/ Closed(ty) \/ Raised(ty) \/ Waited(ty)

LEMMA Checked ==
  ASSUME WatchTyped, OpenTidy, Monitoring!CheckProbeAlerts
  PROVE  /\ \A a \in open' : a.type \in Monitoring!Types
         /\ streak' \in [Monitoring!Types -> Nat] /\ judged' = [ty \in Monitoring!Types |-> judged'[ty]]
         /\ \A ty \in Monitoring!Types :
              /\ Settled(ty)
              /\ \/ judged'[ty] = judged[ty] /\ streak'[ty] = streak[ty]
                 \/ judged'[ty] = Monitoring!Uncounted(ty)
                 \/ judged'[ty] = Monitoring!Judged(ty, FALSE)
                 \/ judged'[ty] = Monitoring!Judged(ty, TRUE) /\ (ty \in Monitoring!Flappy => streak'[ty] = Monitoring!ObserveStreak(ty))
<1> DEFINE r == sweep.row
           watched == r.is = "row" /\ (Monitoring!local => samples # <<>>)
           counts(ty) == watched /\ r.probe /\ Monitoring!Holds(ty, r)
           left(ty) == ~watched \/ (r.probe /\ Monitoring!Unjudged(ty))
           raise(ty) == counts(ty) /\ (ty \in Monitoring!Flappy => streak'[ty] >= Monitoring!AlertStreakRequired)
           part(ty) == IF raise(ty) THEN Monitoring!InsertAlert(ty)
                       ELSE IF counts(ty) \/ left(ty) THEN Monitoring!Of(open, ty) ELSE Monitoring!ResolveAlert(ty)
<1>1. /\ streak' = [ty \in Monitoring!Types |-> IF ~watched THEN 0
                                               ELSE IF counts(ty) /\ ty \in Monitoring!Flappy THEN Monitoring!ObserveStreak(ty)
                                               ELSE IF left(ty) \/ counts(ty) THEN streak[ty] ELSE 0]
      /\ open' = UNION {part(ty) : ty \in Monitoring!Types}
      /\ judged' = [ty \in Monitoring!Types |-> IF ~watched THEN Monitoring!Uncounted(ty)
                                                ELSE IF left(ty) THEN judged[ty] ELSE Monitoring!Judged(ty, counts(ty))]
      BY DEF Monitoring!CheckProbeAlerts
<1>2. ASSUME NEW ty PROVE ~(counts(ty) /\ left(ty))
      BY DEF Monitoring!Holds, Monitoring!Unjudged
<1>3. \A ty \in Monitoring!Types : (counts(ty) \in BOOLEAN) /\ (left(ty) \in BOOLEAN) /\ (raise(ty) => counts(ty))
      OBVIOUS
<1>r. ~watched => \A ty \in Monitoring!Types : left(ty)
      OBVIOUS
<1>4. \A ty \in Monitoring!Types : \A a \in part(ty) : a.type = ty
      BY Observed DEF Monitoring!Of, Monitoring!ResolveAlert
<1>5. \A ty \in Monitoring!Types : Monitoring!ObserveStreak(ty) \in Nat
      BY SettingAsked DEF Monitoring!ObserveStreak, Monitoring!Lesser, WatchTyped
<1>6. ASSUME NEW ty \in Monitoring!Types PROVE Monitoring!Of(open', ty) = part(ty)
  <2> HIDE DEF part
  <2> QED BY <1>1, <1>4 DEF Monitoring!Of
<1>7. \A a \in open' : a.type \in Monitoring!Types
  <2> HIDE DEF part
  <2> QED BY <1>1, <1>4
<1>8. ASSUME NEW ty \in Monitoring!Types
      PROVE  /\ streak'[ty] = IF ~watched THEN 0
                              ELSE IF counts(ty) /\ ty \in Monitoring!Flappy THEN Monitoring!ObserveStreak(ty)
                              ELSE IF left(ty) \/ counts(ty) THEN streak[ty] ELSE 0
             /\ judged'[ty] = IF ~watched THEN Monitoring!Uncounted(ty)
                              ELSE IF left(ty) THEN judged[ty] ELSE Monitoring!Judged(ty, counts(ty))
             /\ Monitoring!Of(open', ty) = IF raise(ty) THEN Monitoring!InsertAlert(ty)
                                           ELSE IF counts(ty) \/ left(ty) THEN Monitoring!Of(open, ty) ELSE {}
  <2>1. Monitoring!Of(open', ty) = IF raise(ty) THEN Monitoring!InsertAlert(ty)
                                   ELSE IF counts(ty) \/ left(ty) THEN Monitoring!Of(open, ty) ELSE {}
        BY <1>6 DEF Monitoring!ResolveAlert
  <2> HIDE DEF watched, counts, left, raise, part, r
  <2> QED BY <1>1, <2>1
<1>9. \A ty \in Monitoring!Types : ~raise(ty) /\ counts(ty) => ty \in Monitoring!Flappy /\ ~(streak'[ty] >= Monitoring!AlertStreakRequired)
      OBVIOUS
<1> HIDE DEF watched, counts, left, raise, part, r
<1>10. streak' \in [Monitoring!Types -> Nat]
  <2>1. \A ty \in Monitoring!Types : streak'[ty] \in Nat
        BY <1>5, <1>8 DEF WatchTyped
  <2>2. streak' = [ty \in Monitoring!Types |-> streak'[ty]]
        BY <1>1
  <2> QED BY <2>1, <2>2
<1>11. ASSUME NEW ty \in Monitoring!Types
       PROVE  /\ Settled(ty)
              /\ \/ judged'[ty] = judged[ty] /\ streak'[ty] = streak[ty]
                 \/ judged'[ty] = Monitoring!Uncounted(ty)
                 \/ judged'[ty] = Monitoring!Judged(ty, FALSE)
                 \/ judged'[ty] = Monitoring!Judged(ty, TRUE) /\ (ty \in Monitoring!Flappy => streak'[ty] = Monitoring!ObserveStreak(ty))
  <2>1. CASE left(ty)
    <3>1. Monitoring!Of(open', ty) = Monitoring!Of(open, ty)
          BY <1>2, <1>3, <1>8, <2>1
    <3>2. CASE ~watched
          BY <1>8, <3>1, <3>2 DEF Settled, Dropped
    <3>3. CASE watched
      <4>1. judged'[ty] = judged[ty] /\ streak'[ty] = streak[ty]
            BY <1>2, <1>8, <2>1, <3>3
      <4> QED BY <3>1, <4>1 DEF Settled, LeftAlone
    <3> QED BY <3>2, <3>3
  <2>r. ~left(ty) => watched
        BY <1>r
  <2>2. CASE ~left(ty) /\ ~counts(ty)
    <3>1. counts(ty) = FALSE
          BY <1>3, <2>2
    <3>2. judged'[ty] = Monitoring!Judged(ty, FALSE) /\ Monitoring!Of(open', ty) = {}
          BY <1>3, <1>8, <2>2, <2>r, <3>1
    <3> QED BY <3>2 DEF Settled, Closed
  <2>3. CASE ~left(ty) /\ counts(ty)
    <3>1. counts(ty) = TRUE
          BY <1>3, <2>3
    <3>2. judged'[ty] = Monitoring!Judged(ty, TRUE) /\ (ty \in Monitoring!Flappy => streak'[ty] = Monitoring!ObserveStreak(ty))
          BY <1>8, <2>3, <2>r, <3>1
    <3>3. CASE raise(ty)
      <4>1. Monitoring!Of(open', ty) = Monitoring!InsertAlert(ty)
            BY <1>8, <3>3
      <4> QED BY <3>2, <4>1 DEF Settled, Raised
    <3>4. CASE ~raise(ty)
      <4>1. Monitoring!Of(open', ty) = Monitoring!Of(open, ty) /\ ty \in Monitoring!Flappy /\ ~(streak'[ty] >= Monitoring!AlertStreakRequired)
            BY <1>8, <1>9, <2>3, <3>4
      <4>2. streak'[ty] < Monitoring!AlertStreakRequired
            BY <1>10, <4>1, SettingAsked
      <4> QED BY <3>2, <4>1, <4>2 DEF Settled, Waited
    <3> QED BY <3>2, <3>3, <3>4
  <2> QED BY <2>1, <2>2, <2>3
<1> QED BY <1>1, <1>7, <1>10, <1>11

\* The last pass judges the traffic of the cycle
LEMMA TrafficChecked ==
  ASSUME WatchTyped, OpenTidy, Monitoring!NotifyDeviceTraffic
  PROVE  /\ \A a \in open' : a.type \in Monitoring!Types
         /\ UNCHANGED streak /\ judged' = [ty \in Monitoring!Types |-> judged'[ty]]
         /\ \A ty \in Monitoring!Types : Settled(ty) /\ (ty \in Monitoring!Flappy => judged'[ty] = judged[ty])
<1> DEFINE turned == sweep.row.limit > 0 /\ (sweep.used.calibrated \/ sweep.used.n >= 2)
                      /\ sweep.used.total >= sweep.row.limit
           part == IF turned THEN Monitoring!InsertAlert("traffic") ELSE Monitoring!ResolveAlert("traffic")
<1>1. /\ open' = (open \ Monitoring!Of(open, "traffic")) \cup part
      /\ judged' = [judged EXCEPT !["traffic"] = Monitoring!Judged("traffic", turned)] /\ UNCHANGED streak
      BY DEF Monitoring!NotifyDeviceTraffic
<1>2. turned \in BOOLEAN
      OBVIOUS
<1>3. part = IF turned THEN Monitoring!InsertAlert("traffic") ELSE {}
      BY DEF Monitoring!ResolveAlert
<1> HIDE DEF turned, part
<1>4. \A a \in part : a.type = "traffic"
      BY <1>3, Observed DEF Monitoring!Types
<1>5. "traffic" \in Monitoring!Types /\ "traffic" \notin Monitoring!Flappy
      BY DEF Monitoring!Types, Monitoring!Flappy
<1>6. \A ty \in Monitoring!Types \ {"traffic"} : judged'[ty] = judged[ty] /\ Monitoring!Of(open', ty) = Monitoring!Of(open, ty)
      BY <1>1, <1>4 DEF Monitoring!Of, WatchTyped
<1>7. judged'["traffic"] = Monitoring!Judged("traffic", turned) /\ Monitoring!Of(open', "traffic") = part
      BY <1>1, <1>4, <1>5 DEF Monitoring!Of, WatchTyped
<1>8. Settled("traffic")
  <2>1. CASE turned
    <3>1. turned = TRUE
          BY <1>2, <2>1
    <3> QED BY <1>3, <1>7, <3>1 DEF Settled, Raised
  <2>2. CASE ~turned
    <3>1. turned = FALSE
          BY <1>2, <2>2
    <3> QED BY <1>3, <1>7, <3>1 DEF Settled, Closed
  <2> QED BY <2>1, <2>2
<1>9. \A ty \in Monitoring!Types : Settled(ty) /\ (ty \in Monitoring!Flappy => judged'[ty] = judged[ty])
      BY <1>5, <1>6, <1>8 DEF Settled, LeftAlone
<1>10. judged' = [ty \in Monitoring!Types |-> judged'[ty]]
       BY <1>1 DEF WatchTyped
<1>11. \A a \in open' : a.type \in Monitoring!Types
       BY <1>1, <1>4, <1>5 DEF OpenTidy, AlertRow
<1> QED BY <1>1, <1>9, <1>10, <1>11

-----------------------------------------------------------------------------
(* Steps                                                                     *)

LEMMA AlertsMove ==
  ASSUME WatchTyped, [Monitoring!Next]_(Monitoring!vars)
  PROVE  /\ UNCHANGED machine /\ (now' = now \/ (now' = now + 1 /\ UNCHANGED Monitoring!alerts))
         /\ \/ UNCHANGED Monitoring!alerts \/ Monitoring!MarkAlertRead \/ Monitoring!MarkAllAlertsRead \/ Monitoring!CheckProbeAlerts
            \/ Monitoring!NotifyDeviceTraffic \/ Monitoring!Restart
BY DEF Monitoring!Next, Monitoring!vars, Monitoring!alerts, Monitoring!MonitorReport, Monitoring!LocalMetrics, Monitoring!CalibrateServerTraffic, Monitoring!MarkAlertRead, Monitoring!MarkAllAlertsRead,
       Monitoring!ListServers, Monitoring!CheckProbeAlerts, Monitoring!SweepDeviceNotifications, Monitoring!NotifyDeviceExpiry, Monitoring!NotifyDeviceTraffic,
       Monitoring!ReadServerMonitor, Monitoring!UpdateServerMonitor, Monitoring!DeleteServer, Monitoring!Restart, Monitoring!Tick

LEMMA SweepsMove ==
  ASSUME [Monitoring!Next]_(Monitoring!vars)
  PROVE  \/ UNCHANGED sweep \/ Monitoring!ListServers \/ Monitoring!CheckProbeAlerts \/ Monitoring!SweepDeviceNotifications
         \/ Monitoring!NotifyDeviceExpiry \/ Monitoring!NotifyDeviceTraffic \/ Monitoring!Restart
BY DEF Monitoring!Next, Monitoring!vars, Monitoring!MonitorReport, Monitoring!LocalMetrics, Monitoring!CalibrateServerTraffic, Monitoring!MarkAlertRead, Monitoring!MarkAllAlertsRead,
       Monitoring!ReadServerMonitor, Monitoring!UpdateServerMonitor, Monitoring!DeleteServer, Monitoring!Tick

LEMMA SweepsGo ==
  /\ Monitoring!ListServers => sweep'.at = "check" /\ sweep'.row = row /\ row' = row /\ UNCHANGED Monitoring!alerts
  /\ Monitoring!CheckProbeAlerts => sweep'.at = "budgets"
  /\ Monitoring!SweepDeviceNotifications => (row.is = "row" /\ sweep'.at \in {"expiry", "traffic"}) \/ sweep'.at = "idle"
  /\ Monitoring!NotifyDeviceTraffic => sweep'.at = "idle"
  /\ Monitoring!Restart => sweep'.at = "idle"
<1>1. Monitoring!CheckProbeAlerts => sweep'.at = "budgets"
      BY DEF Monitoring!CheckProbeAlerts
<1>2. Monitoring!SweepDeviceNotifications => (row.is = "row" /\ sweep'.at \in {"expiry", "traffic"}) \/ sweep'.at = "idle"
      BY DEF Monitoring!SweepDeviceNotifications
<1>3. Monitoring!NotifyDeviceTraffic => sweep'.at = "idle"
      BY DEF Monitoring!NotifyDeviceTraffic
<1>4. Monitoring!ListServers => sweep'.at = "check" /\ sweep'.row = row /\ row' = row /\ UNCHANGED Monitoring!alerts
      BY DEF Monitoring!ListServers, Monitoring!data
<1> QED BY <1>1, <1>2, <1>3, <1>4 DEF Monitoring!Restart

LEMMA JudgedTyped ==
  ASSUME WatchTyped, NEW ty \in Monitoring!Types
  PROVE  /\ \A b \in BOOLEAN : Monitoring!Judged(ty, b) \in [n : Int, at : Int] /\ Monitoring!Judged(ty, b).n >= -1 /\ Monitoring!Judged(ty, b).at = now
         /\ Monitoring!Judged(ty, FALSE).n = -1 /\ Monitoring!Judged(ty, TRUE).n >= 1
         /\ judged[ty].n < 0 => Monitoring!Judged(ty, TRUE).n = 1
         /\ judged[ty].n >= 0 => Monitoring!Judged(ty, TRUE).n <= judged[ty].n + 1
         /\ Monitoring!Uncounted(ty) \in [n : Int, at : Int] /\ Monitoring!Uncounted(ty).at = judged[ty].at
         /\ Monitoring!Uncounted(ty).n = IF judged[ty].n < 0 THEN -1 ELSE 0
BY DEF Monitoring!Uncounted, Monitoring!Judged, Monitoring!Lesser, WatchTyped

\* What a restart does to the history of checks
LEMMA Restarted ==
  ASSUME WatchTyped, Monitoring!Restart
  PROVE  /\ UNCHANGED open /\ streak' = [ty \in Monitoring!Types |-> 0] /\ judged' = [ty \in Monitoring!Types |-> judged'[ty]]
         /\ \A ty \in Monitoring!Types : judged'[ty] = Monitoring!Uncounted(ty)
BY DEF Monitoring!Restart

LEMMA WatchTypedStep == ASSUME WatchTyped, OpenTidy, [Monitoring!Next]_(Monitoring!vars) PROVE WatchTyped'
<1>0. sweep'.at \in {"expiry", "traffic"} =>
        sweep' = [at |-> sweep'.at, row |-> sweep'.row, start |-> sweep'.start, used |-> sweep'.used, day |-> sweep'.day]
  <2>1. CASE UNCHANGED sweep
        BY <2>1 DEF WatchTyped
  <2>2. CASE Monitoring!SweepDeviceNotifications /\ row.is = "row"
        BY <2>2 DEF Monitoring!SweepDeviceNotifications
  <2>3. CASE Monitoring!NotifyDeviceExpiry
        BY <2>3 DEF Monitoring!NotifyDeviceExpiry, WatchTyped
  <2>4. UNCHANGED sweep \/ (Monitoring!SweepDeviceNotifications /\ row.is = "row") \/ Monitoring!NotifyDeviceExpiry
          \/ sweep'.at \in {"idle", "check", "budgets"}
        BY SweepsMove, SweepsGo
  <2> QED BY <2>1, <2>2, <2>3, <2>4
<1>1. now' \in Nat /\ machine'.setting \in Int
      BY AlertsMove DEF WatchTyped
<1>2. ASSUME judged' = [ty \in Monitoring!Types |-> judged'[ty]], \A ty \in Monitoring!Types : judged'[ty] \in [n : Int, at : Int] /\ judged'[ty].n >= -1
      PROVE  judged' \in [Monitoring!Types -> [n : Int, at : Int]] /\ \A ty \in Monitoring!Types : judged'[ty].n >= -1
      BY <1>2
<1>t. ASSUME NEW ty \in Monitoring!Types, NEW j \in {judged[ty], Monitoring!Uncounted(ty), Monitoring!Judged(ty, FALSE), Monitoring!Judged(ty, TRUE)}
      PROVE  j \in [n : Int, at : Int] /\ j.n >= -1
  <2>1. judged[ty] \in [n : Int, at : Int] /\ judged[ty].n >= -1
        BY DEF WatchTyped
  <2>2. Monitoring!Uncounted(ty) \in [n : Int, at : Int] /\ Monitoring!Uncounted(ty).n >= -1
    <3>1. Monitoring!Uncounted(ty) \in [n : Int, at : Int]
          BY JudgedTyped
    <3>2. Monitoring!Uncounted(ty).n = -1 \/ Monitoring!Uncounted(ty).n = 0
          BY Zenon, JudgedTyped
    <3> QED BY <3>1, <3>2
  <2>3. \A b \in BOOLEAN : Monitoring!Judged(ty, b) \in [n : Int, at : Int] /\ Monitoring!Judged(ty, b).n >= -1
        BY JudgedTyped
  <2> QED BY <2>1, <2>2, <2>3
<1>3. CASE UNCHANGED <<streak, judged>>
      BY <1>0, <1>1, <1>3 DEF WatchTyped
<1>4. CASE Monitoring!CheckProbeAlerts
  <2>1. \A ty \in Monitoring!Types : judged'[ty] \in {judged[ty], Monitoring!Uncounted(ty), Monitoring!Judged(ty, FALSE), Monitoring!Judged(ty, TRUE)}
        BY <1>4, Checked
  <2>2. \A ty \in Monitoring!Types : judged'[ty] \in [n : Int, at : Int] /\ judged'[ty].n >= -1
        BY <1>t, <2>1
  <2> QED BY <1>0, <1>1, <1>2, <1>4, <2>2, Checked DEF WatchTyped
<1>5. CASE Monitoring!NotifyDeviceTraffic
  <2>1. \A ty \in Monitoring!Types : judged'[ty] \in {judged[ty], Monitoring!Uncounted(ty), Monitoring!Judged(ty, FALSE), Monitoring!Judged(ty, TRUE)}
        BY <1>5, TrafficChecked DEF Settled, LeftAlone, Dropped, Closed, Raised, Waited
  <2>2. \A ty \in Monitoring!Types : judged'[ty] \in [n : Int, at : Int] /\ judged'[ty].n >= -1
        BY <1>t, <2>1
  <2> QED BY <1>0, <1>1, <1>2, <1>5, <2>2, TrafficChecked DEF WatchTyped
<1>6. CASE Monitoring!Restart
  <2>1. \A ty \in Monitoring!Types : judged'[ty] \in [n : Int, at : Int] /\ judged'[ty].n >= -1
        BY <1>t, <1>6, Restarted
  <2> QED BY <1>0, <1>1, <1>2, <1>6, <2>1, Restarted DEF WatchTyped
<1>7. Monitoring!MarkAlertRead \/ Monitoring!MarkAllAlertsRead => UNCHANGED <<streak, judged>>
      BY DEF Monitoring!MarkAlertRead, Monitoring!MarkAllAlertsRead
<1> QED BY <1>3, <1>4, <1>5, <1>6, <1>7, AlertsMove DEF Monitoring!alerts

\* The rows of each type after a check are tidy
LEMMA SettledTidy ==
  ASSUME WatchTyped, OpenTidy, UNCHANGED now, \A a \in open' : a.type \in Monitoring!Types, \A ty \in Monitoring!Types : Settled(ty)
  PROVE  OpenTidy'
<1> DEFINE Tidy(S) == /\ S \subseteq AlertRow /\ \A a \in S : a.ts <= now
                      /\ \A a, b \in S : ~a.read /\ ~b.read => a = b
<1>1. \A ty \in Monitoring!Types : Tidy(Monitoring!Of(open, ty))
      BY DEF OpenTidy, Monitoring!Of
<1>2. \A ty \in Monitoring!Types : Tidy(Monitoring!InsertAlert(ty))
  <2> SUFFICES ASSUME NEW ty \in Monitoring!Types PROVE Tidy(Monitoring!InsertAlert(ty))
      OBVIOUS
  <2> QED BY Observed
<1>3. Tidy({})
      OBVIOUS
<1> HIDE DEF Tidy
<1>4. \A ty \in Monitoring!Types : Tidy(Monitoring!Of(open', ty))
      BY <1>1, <1>2, <1>3 DEF Settled, LeftAlone, Dropped, Closed, Raised, Waited
<1>5. \A a \in open' : a \in Monitoring!Of(open', a.type)
      BY DEF Monitoring!Of
<1> USE DEF Tidy
<1>6. \A a \in open' : a \in AlertRow /\ a.ts <= now
      BY <1>4, <1>5
<1>7. ASSUME NEW a \in open', NEW b \in open', a.type = b.type, ~a.read, ~b.read PROVE a = b
  <2>1. Tidy(Monitoring!Of(open', a.type)) /\ a \in Monitoring!Of(open', a.type) /\ b \in Monitoring!Of(open', a.type)
        BY <1>4, <1>5, <1>7
  <2> QED BY <1>7, <2>1
<1> QED BY <1>6, <1>7 DEF OpenTidy

LEMMA OpenTidyStep == ASSUME WatchTyped, OpenTidy, [Monitoring!Next]_(Monitoring!vars) PROVE OpenTidy'
<1>1. CASE UNCHANGED open
  <2>1. now' \in Nat /\ now' >= now /\ \A a \in open : a.ts \in Nat
        BY AlertsMove DEF WatchTyped, OpenTidy, AlertRow
  <2> QED BY <1>1, <2>1 DEF OpenTidy, WatchTyped
<1>2. CASE Monitoring!CheckProbeAlerts
      BY <1>2, Checked, SettledTidy DEF Monitoring!CheckProbeAlerts
<1>3. CASE Monitoring!NotifyDeviceTraffic
      BY <1>3, TrafficChecked, SettledTidy DEF Monitoring!NotifyDeviceTraffic
<1>4. \A a \in AlertRow : LET m == [a EXCEPT !.read = TRUE] IN m \in AlertRow /\ m.type = a.type /\ m.ts = a.ts /\ m.read
      BY DEF AlertRow
<1>5. CASE Monitoring!MarkAlertRead
  <2>1. PICK a \in open : ~a.read /\ open' = (open \ {a}) \cup {[a EXCEPT !.read = TRUE]}
        BY <1>5 DEF Monitoring!MarkAlertRead
  <2>2. UNCHANGED now
        BY <1>5 DEF Monitoring!MarkAlertRead
  <2> DEFINE m == [a EXCEPT !.read = TRUE]
  <2>3. m \in AlertRow /\ m.type = a.type /\ m.ts = a.ts /\ m.read
        BY <1>4, <2>1 DEF OpenTidy
  <2>4. open' = (open \ {a}) \cup {m}
        BY <2>1
  <2> HIDE DEF m
  <2> QED BY <2>1, <2>2, <2>3, <2>4 DEF OpenTidy
<1>6. CASE Monitoring!MarkAllAlertsRead
  <2>1. open' = {[a EXCEPT !.read = TRUE] : a \in open} /\ UNCHANGED now
        BY <1>6 DEF Monitoring!MarkAllAlertsRead
  <2>2. \A a \in open : LET m == [a EXCEPT !.read = TRUE] IN m \in AlertRow /\ m.ts <= now /\ m.read
        BY <1>4 DEF OpenTidy
  <2>3. \A b \in open' : b \in AlertRow /\ b.ts <= now /\ b.read
        BY <2>1, <2>2
  <2> QED BY <2>1, <2>3 DEF OpenTidy
<1>7. Monitoring!Restart => UNCHANGED open
      BY DEF Monitoring!Restart
<1> QED BY <1>1, <1>2, <1>3, <1>5, <1>6, <1>7, AlertsMove DEF Monitoring!alerts

\* A streak counts along with the checks
LEMMA CountsStep ==
  ASSUME WatchTyped, OpenTidy, [Monitoring!Next]_(Monitoring!vars), NEW ty \in Monitoring!Flappy, Counts(ty)
  PROVE  Counts(ty)'
<1>0. ty \in Monitoring!Types
      BY DEF Monitoring!Flappy, Monitoring!Types
<1>a. Monitoring!AlertStreakRequired' \in Int /\ Monitoring!AlertStreakRequired' >= 1
      BY SettingAsked, AlertsMove DEF Monitoring!AlertStreakRequired
<1>b. ASSUME judged'[ty] = Monitoring!Uncounted(ty), streak'[ty] \in Nat PROVE Counts(ty)'
  <2>1. judged'[ty].n \in {-1, 0}
        BY <1>0, <1>b, JudgedTyped
  <2> QED BY <1>a, <1>b, <2>1 DEF Counts, Monitoring!Lesser
<1>1. CASE UNCHANGED <<streak, judged>>
      BY <1>1, AlertsMove DEF Counts, Monitoring!AlertStreakRequired
<1>2. CASE Monitoring!NotifyDeviceTraffic
  <2>1. judged'[ty] = judged[ty] /\ UNCHANGED streak
        BY <1>0, <1>2, TrafficChecked
  <2> QED BY <2>1, AlertsMove DEF Counts, Monitoring!AlertStreakRequired
<1>3. CASE Monitoring!CheckProbeAlerts
  <2>1. CASE judged'[ty] = judged[ty] /\ streak'[ty] = streak[ty]
        BY <2>1, AlertsMove DEF Counts, Monitoring!AlertStreakRequired
  <2>2. CASE judged'[ty] = Monitoring!Uncounted(ty)
        BY <1>0, <1>3, <1>b, <2>2, Checked
  <2>3. CASE judged'[ty] = Monitoring!Judged(ty, FALSE)
    <3>1. judged'[ty].n = -1
          BY <1>0, <2>3, JudgedTyped
    <3> QED BY <3>1 DEF Counts
  <2>4. CASE judged'[ty] = Monitoring!Judged(ty, TRUE) /\ streak'[ty] = Monitoring!ObserveStreak(ty)
    <3> DEFINE R == Monitoring!AlertStreakRequired
    <3>1. R \in Int /\ R >= 1 /\ R' = R /\ streak[ty] \in Nat /\ judged[ty].n \in Int
          BY <1>0, SettingAsked, AlertsMove DEF Monitoring!AlertStreakRequired, WatchTyped
    <3>2. streak'[ty] = Monitoring!Lesser(streak[ty] + 1, R)
          BY <2>4 DEF Monitoring!ObserveStreak
    <3>3. /\ judged'[ty].n \in Int
          /\ judged[ty].n < 0 => judged'[ty].n = 1
          /\ judged[ty].n >= 0 => judged'[ty].n <= judged[ty].n + 1
          BY <1>0, <2>4, JudgedTyped
    <3>4. judged[ty].n >= 0 => streak[ty] >= Monitoring!Lesser(judged[ty].n, R)
          BY DEF Counts
    <3> HIDE DEF R
    <3>5. streak'[ty] >= Monitoring!Lesser(judged'[ty].n, R')
          BY <3>1, <3>2, <3>3, <3>4 DEF Monitoring!Lesser
    <3> QED BY <3>5 DEF Counts, R
  <2> QED BY <1>0, <1>3, <2>1, <2>2, <2>3, <2>4, Checked
<1>4. CASE Monitoring!Restart
  <2>1. streak'[ty] = 0 /\ judged'[ty] = Monitoring!Uncounted(ty)
        BY <1>0, <1>4, Restarted
  <2> QED BY <1>b, <2>1
<1>5. Monitoring!MarkAlertRead \/ Monitoring!MarkAllAlertsRead => UNCHANGED <<streak, judged>>
      BY DEF Monitoring!MarkAlertRead, Monitoring!MarkAllAlertsRead
<1> QED BY <1>1, <1>2, <1>3, <1>4, <1>5, AlertsMove DEF Monitoring!alerts

LEMMA StreaksCountStep == ASSUME WatchTyped, OpenTidy, StreaksCount, [Monitoring!Next]_(Monitoring!vars) PROVE StreaksCount'
BY CountsStep DEF StreaksCount

LEMMA CoveredStep ==
  ASSUME WatchTyped, OpenTidy, Covered, StreaksCount, [Monitoring!Next]_(Monitoring!vars) PROVE Covered'
<1>0. Monitoring!AlertStreakRequired' = Monitoring!AlertStreakRequired /\ \A ty : Monitoring!Needed(ty)' = Monitoring!Needed(ty)
      BY AlertsMove DEF Monitoring!AlertStreakRequired, Monitoring!Needed
<1>1. ASSUME NEW ty \in Monitoring!Types, LeftAlone(ty) PROVE Covers(ty)'
      BY <1>0, <1>1 DEF Covered, Covers, LeftAlone
<1>d. ASSUME NEW ty \in Monitoring!Types, judged'[ty] = Monitoring!Uncounted(ty), Monitoring!Of(open', ty) = Monitoring!Of(open, ty)
      PROVE  Covers(ty)'
  <2>1. judged'[ty].n = (IF judged[ty].n < 0 THEN -1 ELSE 0) /\ judged[ty].n \in Int /\ judged[ty].n >= -1
        BY <1>d, JudgedTyped DEF WatchTyped
  <2>2. Monitoring!Needed(ty)' \in Int /\ Monitoring!Needed(ty)' >= 1
        BY <1>0, NeededAsked
  <2> QED BY <1>d, <2>1, <2>2 DEF Covered, Covers
<1>2. ASSUME NEW ty \in Monitoring!Types, Closed(ty) PROVE Covers(ty)'
  <2>1. judged'[ty].n = -1 /\ Monitoring!Of(open', ty) = {}
        BY <1>2, JudgedTyped DEF Closed
  <2>2. ~(judged'[ty].n >= Monitoring!Needed(ty)')
        BY <1>0, <2>1, NeededAsked
  <2> QED BY <2>1, <2>2 DEF Covers
<1>3. ASSUME NEW ty \in Monitoring!Types, Raised(ty) PROVE Covers(ty)'
  <2>1. judged'[ty].n >= 1 /\ judged'[ty].at = now /\ judged'[ty].n \in Int
        BY <1>3, JudgedTyped DEF Raised
  <2>2. \E a \in Monitoring!Of(open', ty) : now - a.ts < Monitoring!Window
        BY <1>3, Observed DEF Raised
  <2> QED BY <2>1, <2>2 DEF Covers
<1>4. ASSUME NEW ty \in Monitoring!Types, Waited(ty), Monitoring!CheckProbeAlerts PROVE Covers(ty)'
  <2>1. judged'[ty].n >= 1 /\ judged'[ty].n \in Int
        BY <1>4, JudgedTyped DEF Waited
  <2>2. Counts(ty)'
        BY <1>4, CountsStep DEF StreaksCount, Waited
  <2>3. streak'[ty] < Monitoring!AlertStreakRequired /\ streak'[ty] \in Nat /\ Monitoring!Needed(ty) = Monitoring!AlertStreakRequired
        BY <1>4, Checked DEF Waited, Monitoring!Needed
  <2>4. ~(judged'[ty].n >= Monitoring!Needed(ty)')
        BY <1>0, <2>1, <2>2, <2>3, SettingAsked DEF Counts, Monitoring!Lesser
  <2> QED BY <2>1, <2>4 DEF Covers
<1>5. CASE Monitoring!CheckProbeAlerts
  <2>1. \A ty \in Monitoring!Types : Settled(ty)
        BY <1>5, Checked
  <2>2. \A ty \in Monitoring!Types : Covers(ty)'
        BY <1>1, <1>d, <1>2, <1>3, <1>4, <1>5, <2>1 DEF Settled, Dropped
  <2> QED BY <2>2 DEF Covered
<1>6. CASE Monitoring!NotifyDeviceTraffic
  <2>1. \A ty \in Monitoring!Types : Settled(ty) /\ (Waited(ty) => LeftAlone(ty))
        BY <1>6, TrafficChecked DEF Waited, LeftAlone
  <2>2. \A ty \in Monitoring!Types : Covers(ty)'
        BY <1>1, <1>d, <1>2, <1>3, <2>1 DEF Settled, Dropped
  <2> QED BY <2>2 DEF Covered
<1>7. CASE Monitoring!Restart
  <2>1. UNCHANGED open /\ \A ty \in Monitoring!Types : judged'[ty] = Monitoring!Uncounted(ty)
        BY <1>7, Restarted
  <2>2. \A ty \in Monitoring!Types : Covers(ty)'
        BY <1>d, <2>1
  <2> QED BY <2>2 DEF Covered
<1>8. ASSUME UNCHANGED judged, \A a \in open : \E b \in open' : b.type = a.type /\ b.ts = a.ts,
             \A b \in open' : \E a \in open : b.type = a.type
      PROVE  Covered'
  <2>1. ASSUME NEW ty \in Monitoring!Types PROVE Covers(ty)'
    <3>1. Monitoring!Of(open, ty) = {} => Monitoring!Of(open', ty) = {}
          BY <1>8 DEF Monitoring!Of
    <3>2. ASSUME NEW a \in Monitoring!Of(open, ty), judged[ty].at - a.ts < Monitoring!Window
          PROVE  \E b \in Monitoring!Of(open', ty) : judged'[ty].at - b.ts < Monitoring!Window
          BY <1>8, <3>2 DEF Monitoring!Of
    <3> QED BY <1>0, <1>8, <3>1, <3>2 DEF Covered, Covers
  <2> QED BY <2>1 DEF Covered
<1>9. CASE UNCHANGED Monitoring!alerts
      BY <1>8, <1>9 DEF Monitoring!alerts
<1>10. \A a \in AlertRow : LET m == [a EXCEPT !.read = TRUE] IN m.type = a.type /\ m.ts = a.ts
       BY DEF AlertRow
<1>11. CASE Monitoring!MarkAlertRead
  <2>1. PICK a \in open : open' = (open \ {a}) \cup {[a EXCEPT !.read = TRUE]}
        BY <1>11 DEF Monitoring!MarkAlertRead
  <2> DEFINE m == [a EXCEPT !.read = TRUE]
  <2>2. m.type = a.type /\ m.ts = a.ts /\ open' = (open \ {a}) \cup {m}
        BY <1>10, <2>1 DEF OpenTidy
  <2> HIDE DEF m
  <2>3. UNCHANGED judged
        BY <1>11 DEF Monitoring!MarkAlertRead
  <2>4. \A x \in open : \E b \in open' : b.type = x.type /\ b.ts = x.ts
        BY <2>2
  <2>5. \A b \in open' : \E x \in open : b.type = x.type
        BY <2>2
  <2> QED BY <1>8, <2>3, <2>4, <2>5
<1>12. CASE Monitoring!MarkAllAlertsRead
  <2>1. open' = {[a EXCEPT !.read = TRUE] : a \in open} /\ UNCHANGED judged
        BY <1>12 DEF Monitoring!MarkAllAlertsRead
  <2>2. \A a \in open : [a EXCEPT !.read = TRUE].type = a.type /\ [a EXCEPT !.read = TRUE].ts = a.ts
        BY <1>10 DEF OpenTidy
  <2>3. \A x \in open : \E b \in open' : b.type = x.type /\ b.ts = x.ts
        BY <2>1, <2>2
  <2>4. \A b \in open' : \E x \in open : b.type = x.type
        BY <2>1, <2>2
  <2> QED BY <1>8, <2>1, <2>3, <2>4
<1> QED BY <1>5, <1>6, <1>7, <1>9, <1>11, <1>12, AlertsMove

-----------------------------------------------------------------------------
(* Messages                                                                  *)

LEMMA StateOf ==
  ASSUME CursorTidy, NEW kind, NEW key, NEW st, st = Monitoring!DeviceNotifyState(kind, key)
  PROVE  /\ \A c \in cursor : c.kind = kind /\ c.key = key => st = c
         /\ (\A c \in cursor : ~(c.kind = kind /\ c.key = key)) => st = [n |-> 0, day |-> 0]
         /\ st.n \in Nat
<1> DEFINE mine == {c \in cursor : c.kind = kind /\ c.key = key}
<1>1. st = IF mine = {} THEN [n |-> 0, day |-> 0] ELSE CHOOSE c \in mine : TRUE
      BY DEF Monitoring!DeviceNotifyState
<1>2. \A c, d \in mine : c = d /\ c.n \in Nat
      BY DEF CursorTidy
<1>3. mine # {} => st \in mine
  <2> HIDE DEF mine
  <2> QED BY <1>1
<1> QED BY <1>1, <1>2, <1>3

\* A message that is due is the first in its slot, and what is recorded of it covers the slot
LEMMA DueSent ==
  ASSUME CursorTidy, MessagesOnRecord, now \in Nat, UNCHANGED now,
         NEW kind \in {"expiry", "traffic"}, NEW key, NEW day \in Int, day <= now, Monitoring!SendDeviceOps(kind, key, day),
         \A c \in cursor : c.kind = kind /\ c.key = key => IF kind = "expiry" THEN c.day < day ELSE c.n = 0
  PROVE  \/ lost'
         \/ /\ CursorTidy' /\ told' \in [Monitoring!Slots -> {0, 1}]
            /\ \A s \in Monitoring!Slots : told'[s] = 1 => \E c \in cursor' : Heard(c, s)
<1>1. CASE UNCHANGED Monitoring!mail
      BY <1>1 DEF Monitoring!mail, CursorTidy, MessagesOnRecord
<1>2. CASE /\ told' = [told EXCEPT ![Monitoring!Slot(kind, key, day)] = told[Monitoring!Slot(kind, key, day)] + 1]
           /\ Monitoring!MarkDeviceNotifySent(kind, key, day)
  <2> DEFINE st == Monitoring!DeviceNotifyState(kind, key)
             new == [kind |-> kind, key |-> key, n |-> Monitoring!Lesser(st.n + 1, 2), day |-> day]
             here == Monitoring!Slot(kind, key, day)
  <2>1. cursor' = {c \in cursor : c.kind # kind \/ c.key # key} \cup {new}
        BY <1>2 DEF Monitoring!MarkDeviceNotifySent
  <2>2. st.n \in Nat
        BY StateOf
  <2>3. new.kind = kind /\ new.key = key /\ new.n \in Nat /\ new.n >= 1 /\ new.day = day
    <3> HIDE DEF st
    <3> QED BY <2>2 DEF Monitoring!Lesser
  <2> HIDE DEF st, new
  <2>4. CursorTidy'
        BY <2>1, <2>3 DEF CursorTidy
  <2>5. \A s \in Monitoring!Slots : s[1] = "expiry" => s[3] \in Int
        BY DEF Monitoring!Slots
  <2>6. here[1] = kind /\ here[2] = key /\ (kind = "expiry" => here[3] = day)
        BY DEF Monitoring!Slot
  <2> HIDE DEF here
  <2>7. here \in Monitoring!Slots => told[here] = 0
    <3>1. ASSUME here \in Monitoring!Slots, NEW c \in cursor, Heard(c, here) PROVE FALSE
          BY <2>6, <3>1 DEF Heard, CursorTidy
    <3> QED BY <3>1 DEF MessagesOnRecord
  <2>8. told' = [told EXCEPT ![here] = told[here] + 1]
        BY <1>2 DEF here
  <2>9. told' \in [Monitoring!Slots -> {0, 1}] /\ \A s \in Monitoring!Slots : s # here => told'[s] = told[s]
    <3>1. told \in [Monitoring!Slots -> {0, 1}]
          BY DEF MessagesOnRecord
    <3>2. CASE here \in Monitoring!Slots
          BY <2>7, <2>8, <3>1, <3>2
    <3>3. CASE here \notin Monitoring!Slots
          BY <2>8, <3>1, <3>3
    <3> QED BY <3>2, <3>3
  <2>10. ASSUME NEW s \in Monitoring!Slots, told'[s] = 1 PROVE \E c \in cursor' : Heard(c, s)
    <3>1. new \in cursor'
          BY <2>1
    <3>2. CASE s = here
          BY <2>3, <2>6, <3>1, <3>2 DEF Heard
    <3>3. CASE s # here
      <4>1. PICK c \in cursor : Heard(c, s)
            BY <2>9, <2>10, <3>3 DEF MessagesOnRecord
      <4>2. CASE c.kind = kind /\ c.key = key
        <5>1. c.day \in Int /\ s[1] = kind /\ s[2] = key
              BY <4>1, <4>2 DEF Heard, CursorTidy
        <5>2. CASE kind = "expiry"
          <6>1. s[3] \in Int /\ c.day >= s[3] /\ c.day < day
                BY <2>5, <4>1, <4>2, <5>1, <5>2 DEF Heard
          <6>2. day >= s[3]
                BY <5>1, <6>1
          <6> QED BY <2>3, <3>1, <5>1, <5>2, <6>2 DEF Heard
        <5>3. CASE kind # "expiry"
              BY <2>3, <3>1, <5>1, <5>3 DEF Heard
        <5> QED BY <5>2, <5>3
      <4>3. CASE ~(c.kind = kind /\ c.key = key)
            BY <2>1, <4>1, <4>3
      <4> QED BY <4>2, <4>3
    <3> QED BY <3>2, <3>3
  <2> QED BY <2>4, <2>9, <2>10
<1> QED BY <1>1, <1>2 DEF Monitoring!SendDeviceOps

LEMMA DeliveriesKeptStep ==
  ASSUME WatchTyped, DeliveriesKept, [Monitoring!Next]_(Monitoring!vars) PROVE DeliveriesKept'
<1>0. lost => lost'
      BY DEF Monitoring!Next, Monitoring!vars, Monitoring!mail, Monitoring!MonitorReport, Monitoring!LocalMetrics, Monitoring!CalibrateServerTraffic, Monitoring!MarkAlertRead, Monitoring!MarkAllAlertsRead,
         Monitoring!ListServers, Monitoring!CheckProbeAlerts, Monitoring!SweepDeviceNotifications, Monitoring!NotifyDeviceExpiry, Monitoring!NotifyDeviceTraffic,
         Monitoring!ReadServerMonitor, Monitoring!UpdateServerMonitor, Monitoring!DeleteServer, Monitoring!Restart, Monitoring!Tick, Monitoring!SendDeviceOps
<1> SUFFICES ASSUME CursorTidy, MessagesOnRecord PROVE DeliveriesKept'
    BY <1>0 DEF DeliveriesKept
<1>1. now \in Nat /\ now' \in Nat /\ now' >= now
      BY AlertsMove DEF WatchTyped
<1>2. CASE Monitoring!NotifyDeviceExpiry
  <2>1. /\ sweep.at = "expiry" /\ Monitoring!SendDeviceOps("expiry", sweep.row.expiry, sweep.day) /\ UNCHANGED now
        /\ sweep' = [sweep EXCEPT !.at = "traffic"]
        BY <1>2 DEF Monitoring!NotifyDeviceExpiry
  <2>2. sweep.day \in Int /\ sweep.day <= now
        /\ \A c \in cursor : c.kind = "expiry" /\ c.key = sweep.row.expiry => c.day < sweep.day
        BY <2>1 DEF MessagesOnRecord
  <2>3. sweep'.at = "traffic" /\ sweep'.day = sweep.day
        BY <2>1 DEF WatchTyped
  <2>4. \/ lost'
        \/ /\ CursorTidy' /\ told' \in [Monitoring!Slots -> {0, 1}]
           /\ \A s \in Monitoring!Slots : told'[s] = 1 => \E c \in cursor' : Heard(c, s)
        BY <1>1, <2>1, <2>2, DueSent
  <2> QED BY <2>1, <2>2, <2>3, <2>4 DEF DeliveriesKept, MessagesOnRecord, Heard
<1>3. CASE Monitoring!NotifyDeviceTraffic
  <2>1. sweep.at = "traffic" /\ UNCHANGED now /\ sweep'.at = "idle"
        BY <1>3 DEF Monitoring!NotifyDeviceTraffic
  <2>2. sweep.day \in Int /\ sweep.day <= now
        BY <2>1 DEF MessagesOnRecord
  <2>3. CASE UNCHANGED Monitoring!mail
        BY <2>1, <2>3 DEF Monitoring!mail, DeliveriesKept, CursorTidy, MessagesOnRecord, Heard
  <2>4. CASE Monitoring!DeviceNotifyState("traffic", sweep.start).n = 0 /\ Monitoring!SendDeviceOps("traffic", sweep.start, sweep.day)
    <3>1. \A c \in cursor : c.kind = "traffic" /\ c.key = sweep.start => c.n = 0
          BY <2>4, StateOf
    <3>2. \/ lost'
          \/ /\ CursorTidy' /\ told' \in [Monitoring!Slots -> {0, 1}]
             /\ \A s \in Monitoring!Slots : told'[s] = 1 => \E c \in cursor' : Heard(c, s)
          BY <1>1, <2>1, <2>2, <2>4, <3>1, DueSent
    <3> QED BY <2>1, <3>2 DEF DeliveriesKept, MessagesOnRecord, Heard
  <2>5. UNCHANGED Monitoring!mail \/ (Monitoring!DeviceNotifyState("traffic", sweep.start).n = 0 /\ Monitoring!SendDeviceOps("traffic", sweep.start, sweep.day))
        BY <1>3 DEF Monitoring!NotifyDeviceTraffic
  <2> QED BY <2>3, <2>4, <2>5
<1>4. ASSUME UNCHANGED <<cursor, told>> PROVE CursorTidy' /\ \A s \in Monitoring!Slots : told'[s] = 1 => \E c \in cursor' : Heard(c, s)
      BY <1>1, <1>4 DEF CursorTidy, MessagesOnRecord, Heard
<1>5. CASE Monitoring!SweepDeviceNotifications
  <2>1. UNCHANGED <<cursor, told>> /\ UNCHANGED now
        BY <1>5 DEF Monitoring!SweepDeviceNotifications, Monitoring!mail
  <2>2. CASE sweep'.at = "idle"
        BY <1>4, <2>1, <2>2 DEF DeliveriesKept, MessagesOnRecord
  <2>3. CASE row.is = "row"
    <3>1. /\ sweep'.at = IF Monitoring!ExpiryDue(row) THEN "expiry" ELSE "traffic"
          /\ sweep'.row = row /\ sweep'.day = now
          BY <1>5, <2>3 DEF Monitoring!SweepDeviceNotifications
    <3>2. ASSUME Monitoring!ExpiryDue(row), NEW c \in cursor, c.kind = "expiry", c.key = row.expiry PROVE c.day < now
      <4>1. Monitoring!DeviceNotifyState("expiry", row.expiry) = c
            BY <3>2, StateOf
      <4>2. c.day # now
            BY <3>2, <4>1 DEF Monitoring!ExpiryDue
      <4> QED BY <1>1, <4>2 DEF CursorTidy
    <3> QED BY <1>1, <1>4, <2>1, <3>1, <3>2 DEF DeliveriesKept, MessagesOnRecord
  <2> QED BY <1>5, <2>2, <2>3, SweepsGo
<1>6. CASE Monitoring!ListServers \/ Monitoring!CheckProbeAlerts \/ Monitoring!Restart
  <2>1. UNCHANGED <<cursor, told>>
        BY <1>6 DEF Monitoring!ListServers, Monitoring!CheckProbeAlerts, Monitoring!Restart, Monitoring!mail
  <2>2. sweep'.at \in {"check", "budgets", "idle"}
        BY <1>6, SweepsGo
  <2> QED BY <1>4, <2>1, <2>2 DEF DeliveriesKept, MessagesOnRecord
<1>7. CASE UNCHANGED <<cursor, told, sweep>>
      BY <1>1, <1>4, <1>7 DEF DeliveriesKept, MessagesOnRecord
<1>8. UNCHANGED <<cursor, told, sweep>> \/ Monitoring!ListServers \/ Monitoring!CheckProbeAlerts \/ Monitoring!SweepDeviceNotifications
        \/ Monitoring!NotifyDeviceExpiry \/ Monitoring!NotifyDeviceTraffic \/ Monitoring!Restart
      BY DEF Monitoring!Next, Monitoring!vars, Monitoring!mail, Monitoring!MonitorReport, Monitoring!LocalMetrics, Monitoring!CalibrateServerTraffic, Monitoring!MarkAlertRead, Monitoring!MarkAllAlertsRead,
         Monitoring!ReadServerMonitor, Monitoring!UpdateServerMonitor, Monitoring!DeleteServer, Monitoring!Tick
<1> QED BY <1>2, <1>3, <1>5, <1>6, <1>7, <1>8

LEMMA MonitoringStep == ASSUME MonitoringSane, MonitoringInv, [Monitoring!Next]_(Monitoring!vars) PROVE MonitoringInv'
BY WatchTypedStep, OpenTidyStep, StreaksCountStep, CoveredStep, DeliveriesKeptStep DEF MonitoringInv

\* The module counts as the library does
LEMMA SameCountAlerts == \A S : Monitoring!Cardinality(S) = Cardinality(S)
  BY DEF Monitoring!Cardinality, Cardinality

LEMMA EpisodesFollow == MonitoringInv => Monitoring!EpisodesFollowConditions
<1> SUFFICES ASSUME MonitoringInv, NEW ty \in Monitoring!Types
             PROVE  /\ judged[ty].n = -1 => Monitoring!Of(open, ty) = {}
                    /\ judged[ty].n >= Monitoring!Needed(ty) => \E a \in Monitoring!Of(open, ty) : a.read => judged[ty].at - a.ts < Monitoring!Window
                    /\ Monitoring!Cardinality({a \in Monitoring!Of(open, ty) : ~a.read}) <= 1
    BY DEF Monitoring!EpisodesFollowConditions
<1> DEFINE unread == {a \in Monitoring!Of(open, ty) : ~a.read}
<1>1. \A a, b \in unread : a = b
      BY DEF MonitoringInv, OpenTidy, Monitoring!Of
<1> HIDE DEF unread
<1>2. ASSUME unread = {} PROVE Monitoring!Cardinality(unread) <= 1
      BY <1>2, FS_EmptySet, SameCountAlerts
<1>3. ASSUME NEW x \in unread PROVE Monitoring!Cardinality(unread) <= 1
  <2>1. unread = {x}
        BY <1>1, <1>3
  <2>2. Monitoring!Cardinality({x}) = 1
        BY FS_Singleton, SameCountAlerts
  <2> QED BY <2>1, <2>2
<1>4. Monitoring!Cardinality(unread) <= 1
      BY <1>2, <1>3
<1> USE DEF unread
<1> QED BY <1>4 DEF MonitoringInv, Covered, Covers

LEMMA ToldOnce == MonitoringInv => Monitoring!TellsOnce
BY DEF MonitoringInv, DeliveriesKept, MessagesOnRecord, Monitoring!TellsOnce

\* However checks, reads, edits, deletions and restarts interleave, a condition that was found as
\* often as the setting asks has its alert, one that was found over has none, and no condition
\* has two unread ones (InsertAlert, ResolveAlert, CheckProbeAlerts), for any machine.
THEOREM AlertsFollow == Spec => []EpisodesFollowConditions
<1> DEFINE Inv == scenario = "monitoring" => MonitoringInv
<1>1. Init => Inv
      BY MonitoringInit, PanelIsSane DEF Init
<1>2. Inv /\ [Next]_vars => Inv'
  <2> SUFFICES ASSUME Inv, [Next]_vars, scenario = "monitoring"
               PROVE  MonitoringInv'
      BY DEF Next, vars
  <2>1. [Monitoring!Next]_(Monitoring!vars)
        BY DEF Next, vars, Monitoring!vars, monitoringOnly
  <2> QED BY <2>1, MonitoringStep, PanelIsSane
<1>3. Inv => EpisodesFollowConditions
      BY EpisodesFollow, PanelIsSane DEF EpisodesFollowConditions
<1> QED BY <1>1, <1>2, <1>3, PTL DEF Spec

\* However sweeps, checks, edits and restarts interleave, a management chat hears of one expiry
\* once a day and of one billing cycle once, unless a delivery could not be recorded
\* (DeviceNotifyState, MarkDeviceNotifySent), for any machine.
THEOREM OneMessageEach == Spec => []TellsOnce
<1> DEFINE Inv == scenario = "monitoring" => MonitoringInv
<1>1. Init => Inv
      BY MonitoringInit, PanelIsSane DEF Init
<1>2. Inv /\ [Next]_vars => Inv'
  <2> SUFFICES ASSUME Inv, [Next]_vars, scenario = "monitoring"
               PROVE  MonitoringInv'
      BY DEF Next, vars
  <2>1. [Monitoring!Next]_(Monitoring!vars)
        BY DEF Next, vars, Monitoring!vars, monitoringOnly
  <2> QED BY <2>1, MonitoringStep, PanelIsSane
<1>3. Inv => TellsOnce
      BY ToldOnce, PanelIsSane DEF TellsOnce
<1> QED BY <1>1, <1>2, <1>3, PTL DEF Spec
-----------------------------------------------------------------------------
(* Upgrades                                                                  *)
V == Versions \cup {None}
Sidecar == [label : V, bytes : V, snap : Nat]
Pair == [prev : V, meta : Sidecar \cup {None}]
Steps == {"fetch", "snapshot", "publish", "stage", "prev", "meta", "swap", "probes", "restart"}
JobRow == [at : Steps, kind : {"latest", "pinned", "rollback"}, target : V, had : BOOLEAN,
           tmp : V, snap : Nat, kept : Pair \cup {None}, new : Sidecar \cup {None}]

UpgradeTyped ==
  /\ exe \in V /\ prev \in V /\ process \in V
  /\ meta \in Sidecar \cup {None}
  /\ snaps \subseteq [id : Nat, source : V]
  /\ count \in Nat
  /\ job \in JobRow \cup {Upgrades!Idle}
  /\ spoiled \in BOOLEAN /\ adrift \in BOOLEAN

Taken(id, by) == \E s \in snaps : s.id = id /\ s.source = by

\* A sidecar that may be in place, now or after the pair is restored
Backed(m) == m # None => Taken(m.snap, m.label) /\ (~adrift => m.label = m.bytes)
Usable(p, m) == p # None /\ (m # None => m.bytes = p)

Upgrading ==
  /\ job.at \in {"fetch", "snapshot", "publish", "stage", "prev"} /\ job.had => Usable(prev, meta)
  /\ job.at = "stage" => Taken(job.snap, process)
  /\ job.at \in {"prev", "meta", "swap"} =>
       /\ job.kept \in Pair /\ Backed(job.kept.meta)
       /\ job.had => Usable(job.kept.prev, job.kept.meta)
       /\ job.new \in Sidecar /\ Backed(job.new)

UpgradeInv == UpgradeTyped /\ Backed(meta) /\ Upgrading /\ ~spoiled

LEMMA UpgradeInit == ASSUME UpgradesSane PROVE Upgrades!Init => UpgradeInv
<1> SUFFICES ASSUME Upgrades!Init PROVE UpgradeInv
    OBVIOUS
<1>1. /\ exe = 1 /\ process = 1 /\ prev \in {None, 1} /\ meta = None /\ snaps = {} /\ count = 0
      /\ job = Upgrades!Idle /\ adrift = FALSE /\ spoiled = FALSE
      BY DEF Upgrades!Init
<1>2. UpgradeTyped
      BY <1>1 DEF UpgradesSane, UpgradeTyped, V
<1>3. Upgrading
      BY <1>1 DEF Upgrading, Upgrades!Idle
<1> QED BY <1>1, <1>2, <1>3 DEF UpgradeInv, Backed

\* The job advances without touching what the invariant reads
LEMMA PruningKeepsTheWayBack ==
  ASSUME UpgradeInv, job # Upgrades!Idle, Upgrades!At("snapshot"), Upgrades!CreateUpgradeSnapshot
  PROVE  UpgradeInv'
<1>1. job \in JobRow
      BY DEF UpgradeInv, UpgradeTyped
<1>2. /\ UNCHANGED <<exe, prev, meta, process, count, adrift>>
      BY DEF Upgrades!CreateUpgradeSnapshot, Upgrades!files
<1>3. CASE Upgrades!Fail /\ UNCHANGED snaps
  <2>1. job' = Upgrades!Idle /\ snaps' = snaps
        BY <1>3 DEF Upgrades!Fail
  <2>2. job.had => Usable(prev, meta)
        BY DEF UpgradeInv, Upgrading, Upgrades!At
  <2>3. spoiled' = FALSE
        BY <1>2, <1>3, <2>2 DEF Upgrades!Fail, Upgrades!CheckBackup, Usable, UpgradeInv, UpgradeTyped
  <2> QED BY <1>2, <2>1, <2>3 DEF UpgradeInv, UpgradeTyped, Upgrading, Backed, Taken, Upgrades!Idle
<1>4. CASE snaps' = Upgrades!PruneSnapshots(Retention - 1) /\ Upgrades!To("publish") /\ UNCHANGED spoiled
  <2>1. job' = [job EXCEPT !.at = "publish"]
        BY <1>4 DEF Upgrades!To
  <2>2. job' \in JobRow /\ job'.at = "publish" /\ job'.had = job.had
        BY <1>1, <2>1 DEF JobRow, Steps
  <2>3. /\ snaps' \subseteq snaps
        /\ \A s \in snaps : s.id = Upgrades!Protected => s \in snaps'
        BY <1>4 DEF Upgrades!PruneSnapshots
  <2>4. meta # None => Taken(meta.snap, meta.label)'
    <3>1. meta # None => Taken(meta.snap, meta.label) /\ Upgrades!Protected = meta.snap
          BY DEF UpgradeInv, Backed, Upgrades!Protected
    <3> QED BY <1>2, <2>3, <3>1 DEF Taken
  <2>5. UpgradeTyped'
        BY <1>2, <1>4, <2>2, <2>3 DEF UpgradeInv, UpgradeTyped
  <2>6. Backed(meta)'
        BY <1>2, <2>4 DEF UpgradeInv, Backed
  <2>7. Upgrading'
        BY <1>2, <2>2 DEF UpgradeInv, Upgrading, Usable, Upgrades!At
  <2> QED BY <1>4, <2>5, <2>6, <2>7 DEF UpgradeInv
<1> QED BY <1>3, <1>4 DEF Upgrades!CreateUpgradeSnapshot
\* An install that fails leaves the files usable if they were
LEMMA FailIsHarmless ==
  ASSUME UpgradeInv, Upgrades!Fail, UNCHANGED <<exe, process, adrift>>, count' \in Nat,
         snaps \subseteq snaps', snaps' \subseteq [id : Nat, source : V],
         \/ /\ UNCHANGED <<prev, meta>>
            /\ job.at \in {"fetch", "snapshot", "publish", "stage", "prev"}
         \/ Upgrades!RestorePair /\ job.at \in {"meta", "swap"}
  PROVE  UpgradeInv'
<1>1. job' = Upgrades!Idle
      BY DEF Upgrades!Fail
<1>2. Backed(meta') /\ meta' \in Sidecar \cup {None} /\ prev' \in V
  <2>1. CASE UNCHANGED <<prev, meta>>
        BY <2>1 DEF UpgradeInv, UpgradeTyped
  <2>2. CASE Upgrades!RestorePair /\ job.at \in {"meta", "swap"}
        BY <2>2 DEF Upgrades!RestorePair, UpgradeInv, Upgrading, Pair
  <2> QED BY <2>1, <2>2
<1>3. job.had => Usable(prev', meta')
  <2>1. CASE UNCHANGED <<prev, meta>> /\ job.at \in {"fetch", "snapshot", "publish", "stage", "prev"}
        BY <2>1 DEF UpgradeInv, Upgrading
  <2>2. CASE Upgrades!RestorePair /\ job.at \in {"meta", "swap"}
        BY <2>2 DEF Upgrades!RestorePair, UpgradeInv, Upgrading
  <2> QED BY <2>1, <2>2
<1>4. spoiled' = FALSE
      BY <1>3 DEF Upgrades!Fail, Upgrades!CheckBackup, Usable, UpgradeInv, UpgradeTyped
<1>5. Backed(meta)'
      BY <1>2 DEF Backed, Taken
<1>6. UpgradeTyped'
      BY <1>1, <1>2, <1>4 DEF UpgradeInv, UpgradeTyped
<1>7. Upgrading'
      BY <1>1 DEF Upgrading, Upgrades!Idle
<1> QED BY <1>4, <1>5, <1>6, <1>7 DEF UpgradeInv

\* A step that leaves the files and the histories alone
LEMMA FilesStay ==
  ASSUME UpgradeInv, UNCHANGED <<prev, meta, adrift, spoiled>>,
         exe' \in V, process' \in V, count' \in Nat,
         snaps \subseteq snaps', snaps' \subseteq [id : Nat, source : V],
         job' \in JobRow \cup {Upgrades!Idle}, Upgrading'
  PROVE  UpgradeInv'
<1>1. Backed(meta)'
      BY DEF UpgradeInv, Backed, Taken
<1>2. UpgradeTyped'
      BY DEF UpgradeInv, UpgradeTyped
<1> QED BY <1>1, <1>2 DEF UpgradeInv

\* A job past the first rename keeps what it put aside
LEMMA UpgradingStays ==
  ASSUME UpgradeInv, UNCHANGED <<prev, meta, adrift, process, job>>, snaps \subseteq snaps'
  PROVE  Upgrading'
  BY DEF UpgradeInv, Upgrading, Backed, Taken

LEMMA StagedIsBacked ==
  ASSUME UpgradeInv, Upgrades!StageBackupMeta PROVE UpgradeInv'
<1>1. CASE Upgrades!Fail
  <2>1. CASE UNCHANGED adrift
        BY <1>1, <2>1, FailIsHarmless DEF Upgrades!StageBackupMeta, Upgrades!At, Upgrades!files, UpgradeInv, UpgradeTyped
  <2> QED BY <1>1, <2>1 DEF Upgrades!StageBackupMeta, Upgrades!Fail, Upgrades!Idle
<1>2. CASE job' = [job EXCEPT !.at = "prev", !.kept = [prev |-> prev, meta |-> meta],
                              !.new = [label |-> process, bytes |-> exe, snap |-> job.snap]]
           /\ adrift' = (adrift \/ exe # process) /\ UNCHANGED spoiled
  <2>1. /\ job \in JobRow /\ job.at = "stage"
        /\ UNCHANGED <<exe, prev, meta, snaps, process, count>>
        BY DEF Upgrades!StageBackupMeta, Upgrades!At, Upgrades!files, UpgradeInv, UpgradeTyped, Upgrades!Idle
  <2>2. /\ job'.at = "prev" /\ job'.had = job.had
        /\ job'.kept = [prev |-> prev, meta |-> meta]
        /\ job'.new = [label |-> process, bytes |-> exe, snap |-> job.snap]
        BY <1>2, <2>1 DEF JobRow
  <2>3. job'.kept \in Pair /\ job'.new \in Sidecar
        BY <2>1, <2>2 DEF UpgradeInv, UpgradeTyped, Pair, Sidecar, JobRow
  <2>4. job' \in JobRow
        BY <1>2, <2>1, <2>3, <2>2 DEF JobRow, Steps
  <2>5. ~adrift' => ~adrift /\ exe = process
        BY <1>2
  <2>6. /\ Backed(meta)' /\ Backed(job.kept.meta)'
        /\ Backed(job.new)'
    <3>1. Backed(meta) /\ Taken(job.snap, process)
          BY <2>1 DEF UpgradeInv, Upgrading
    <3> QED BY <2>1, <2>2, <2>5, <3>1 DEF Backed, Taken
  <2>7. job'.had => Usable(prev, meta)'
        BY <2>1, <2>2 DEF UpgradeInv, Upgrading, Usable
  <2>8. Upgrading'
        BY <2>2, <2>3, <2>6, <2>7, <2>1 DEF Upgrading, Usable
  <2>9. UpgradeTyped'
        BY <1>2, <2>1, <2>4 DEF UpgradeInv, UpgradeTyped
  <2> QED BY <1>2, <2>6, <2>8, <2>9 DEF UpgradeInv
<1> QED BY <1>1, <1>2 DEF Upgrades!StageBackupMeta
LEMMA RenamesKeepTheWayBack ==
  ASSUME UpgradeInv, Upgrades!RenamePrev \/ Upgrades!RenameMeta \/ Upgrades!RenameExe PROVE UpgradeInv'
<1>1. /\ job \in JobRow /\ job.at \in {"prev", "meta", "swap"}
      /\ UNCHANGED <<snaps, process, count, adrift>>
      BY DEF Upgrades!RenamePrev, Upgrades!RenameMeta, Upgrades!RenameExe, Upgrades!At, UpgradeInv, UpgradeTyped, Upgrades!Idle
<1>2. /\ job.kept \in Pair /\ job.new \in Sidecar
      /\ Backed(job.kept.meta) /\ Backed(job.new)
      /\ job.had => Usable(job.kept.prev, job.kept.meta)
      BY <1>1 DEF UpgradeInv, Upgrading
<1>3. CASE Upgrades!Fail
  <2>1. /\ exe' = exe
        /\ \/ UNCHANGED <<prev, meta>> /\ job.at = "prev"
           \/ Upgrades!RestorePair /\ job.at \in {"meta", "swap"}
        BY <1>1, <1>3 DEF Upgrades!RenamePrev, Upgrades!RenameMeta, Upgrades!RenameExe, Upgrades!At, Upgrades!To, Upgrades!Fail, Upgrades!Idle, JobRow, Steps
  <2> QED BY <1>1, <1>3, <2>1, FailIsHarmless DEF UpgradeInv, UpgradeTyped
<1>4. CASE ~Upgrades!Fail
  <2>1. \E pc \in {"meta", "swap", "restart", "probes"} : job' = [job EXCEPT !.at = pc]
        BY <1>4 DEF Upgrades!RenamePrev, Upgrades!RenameMeta, Upgrades!RenameExe, Upgrades!To
  <2>2. /\ job' \in JobRow /\ job'.kept = job.kept /\ job'.new = job.new /\ job'.had = job.had
        /\ job'.at \in {"meta", "swap", "restart", "probes"}
        BY <1>1, <2>1 DEF JobRow, Steps
  <2>3. /\ spoiled' = spoiled
        /\ exe' \in {exe, job.tmp} /\ prev' \in {prev, job.new.bytes} /\ meta' \in {meta, job.new}
        BY <1>4 DEF Upgrades!RenamePrev, Upgrades!RenameMeta, Upgrades!RenameExe
  <2>4. exe' \in V /\ prev' \in V /\ meta' \in Sidecar \cup {None} /\ Backed(meta')
        BY <1>1, <1>2, <2>3 DEF UpgradeInv, UpgradeTyped, JobRow, Sidecar
  <2>5. UpgradeTyped'
        BY <1>1, <2>2, <2>3, <2>4 DEF UpgradeInv, UpgradeTyped
  <2>6. Backed(meta)' /\ Backed(job.kept.meta)' /\ Backed(job.new)'
        BY <1>1, <1>2, <2>2, <2>4 DEF Backed, Taken
  <2>7. Upgrading'
        BY <1>2, <2>2, <2>6 DEF Upgrading
  <2> QED BY <2>3, <2>5, <2>6, <2>7 DEF UpgradeInv
<1> QED BY <1>3, <1>4

LEMMA PublishedIsTaken ==
  ASSUME UpgradeInv, Upgrades!PublishSnapshot PROVE UpgradeInv'
<1>1. /\ job \in JobRow /\ job.at = "publish"
      /\ UNCHANGED <<exe, prev, meta, process, adrift>>
      BY DEF Upgrades!PublishSnapshot, Upgrades!At, Upgrades!files, UpgradeInv, UpgradeTyped, Upgrades!Idle
<1>2. CASE Upgrades!Fail /\ UNCHANGED <<snaps, count>>
      BY <1>1, <1>2, FailIsHarmless DEF UpgradeInv, UpgradeTyped
<1>3. CASE /\ count' = count + 1
           /\ snaps' = snaps \cup {[id |-> count', source |-> process]}
           /\ job' = [job EXCEPT !.at = "stage", !.snap = count'] /\ UNCHANGED spoiled
  <2>1. count' \in Nat /\ process \in V
        BY <1>3 DEF UpgradeInv, UpgradeTyped
  <2>2. snaps \subseteq snaps' /\ snaps' \subseteq [id : Nat, source : V]
        BY <1>3, <2>1 DEF UpgradeInv, UpgradeTyped
  <2>3. job' \in JobRow /\ job'.at = "stage" /\ job'.snap = count' /\ job'.had = job.had
        BY <1>1, <1>3, <2>1 DEF JobRow, Steps
  <2>4. Taken(job.snap, process)'
    <3>1. [id |-> count', source |-> process] \in snaps'
          BY <1>3
    <3> QED BY <1>1, <2>3, <3>1 DEF Taken
  <2>5. Upgrading'
        BY <1>1, <2>3, <2>4 DEF UpgradeInv, Upgrading, Usable
  <2> QED BY <1>1, <1>3, <2>1, <2>2, <2>3, <2>5, FilesStay DEF UpgradeInv, UpgradeTyped
<1> QED BY <1>2, <1>3 DEF Upgrades!PublishSnapshot

\* Asking for a version or a rollback, and the download
LEMMA FetchingKeepsTheWayBack ==
  ASSUME UpgradeInv, Upgrades!ApplyVersion \/ Upgrades!Rollback \/ Upgrades!RunFetch \/ Upgrades!RestorePreviousBinary
  PROVE  UpgradeInv'
<1>1. UNCHANGED <<exe, prev, meta, snaps, process, count, adrift>>
      BY DEF Upgrades!ApplyVersion, Upgrades!Rollback, Upgrades!RunFetch, Upgrades!RestorePreviousBinary, Upgrades!files
<1>2. exe' \in V /\ process' \in V /\ count' \in Nat /\ snaps' \subseteq [id : Nat, source : V]
      BY <1>1 DEF UpgradeInv, UpgradeTyped
<1>3. ASSUME NEW kind \in {"latest", "pinned", "rollback"}, NEW v \in V,
             job' = Upgrades!Job(kind, v), spoiled' = spoiled
      PROVE  UpgradeInv'
  <2>1. /\ job' \in JobRow /\ job'.at = "fetch" /\ job'.had = Upgrades!CheckBackup
        BY <1>3 DEF Upgrades!Job, JobRow, Steps, Upgrades!CheckBackup, V
  <2>2. Upgrading'
        BY <1>1, <2>1 DEF Upgrading, Upgrades!CheckBackup, Usable
  <2> QED BY <1>1, <1>2, <1>3, <2>1, <2>2, FilesStay
<1>4. CASE Upgrades!ApplyVersion
      BY <1>3, <1>4 DEF Upgrades!ApplyVersion, V
<1>5. CASE Upgrades!Rollback
  <2>1. Upgrades!RollbackState.target \in V
        BY DEF Upgrades!RollbackState, UpgradeInv, UpgradeTyped, Sidecar, V
  <2> QED BY <1>3, <1>5, <2>1 DEF Upgrades!Rollback
<1>6. CASE Upgrades!RunFetch \/ Upgrades!RestorePreviousBinary
  <2>1. job \in JobRow /\ job.at = "fetch"
        BY <1>6 DEF Upgrades!RunFetch, Upgrades!RestorePreviousBinary, Upgrades!At, UpgradeInv, UpgradeTyped, Upgrades!Idle
  <2>2. CASE Upgrades!Fail
        BY <1>1, <1>2, <2>1, <2>2, FailIsHarmless
  <2>3. ASSUME NEW v \in V, job' = [job EXCEPT !.at = "snapshot", !.tmp = v], UNCHANGED spoiled
        PROVE  UpgradeInv'
    <3>1. job' \in JobRow /\ job'.at = "snapshot" /\ job'.had = job.had
          BY <2>1, <2>3 DEF JobRow, Steps
    <3>2. Upgrading'
          BY <1>1, <2>1, <3>1 DEF UpgradeInv, Upgrading, Usable
    <3> QED BY <1>1, <1>2, <2>3, <3>1, <3>2, FilesStay
  <2>4. job.target \in V /\ prev \in V
        BY <2>1 DEF JobRow, UpgradeInv, UpgradeTyped
  <2> QED BY <1>6, <2>2, <2>3, <2>4 DEF Upgrades!RunFetch, Upgrades!RestorePreviousBinary
<1> QED BY <1>4, <1>5, <1>6

\* The probes, the restart and a stop of the machine
LEMMA RestartKeepsTheWayBack ==
  ASSUME UpgradeInv, Upgrades!RefreshHostedProbes \/ Upgrades!SyncHostedProbes \/ Upgrades!RestartSelf \/ Upgrades!Stop
  PROVE  UpgradeInv'
<1>1. UNCHANGED <<meta, snaps, count, adrift, spoiled>>
      BY DEF Upgrades!RefreshHostedProbes, Upgrades!SyncHostedProbes, Upgrades!RestartSelf, Upgrades!Stop, Upgrades!files
<1>2. /\ exe' \in {exe, prev} /\ process' \in {exe, process} /\ prev' \in {prev, None}
      BY DEF Upgrades!RefreshHostedProbes, Upgrades!SyncHostedProbes, Upgrades!RestartSelf, Upgrades!Stop, Upgrades!files
<1>3. exe' \in V /\ process' \in V /\ count' \in Nat /\ prev' \in V
      BY <1>1, <1>2 DEF UpgradeInv, UpgradeTyped, V
<1>4. CASE Upgrades!RefreshHostedProbes
  <2>1. job \in JobRow /\ prev' = prev
        BY <1>4 DEF Upgrades!RefreshHostedProbes, Upgrades!At, UpgradeInv, UpgradeTyped, Upgrades!Idle, Upgrades!files
  <2>2. job' \in JobRow /\ job'.at = "restart"
        BY <1>4, <2>1 DEF Upgrades!RefreshHostedProbes, Upgrades!To, JobRow, Steps
  <2>3. Upgrading'
        BY <2>2 DEF Upgrading
  <2> QED BY <1>1, <1>3, <2>1, <2>2, <2>3, FilesStay DEF UpgradeInv, UpgradeTyped
<1>5. CASE Upgrades!SyncHostedProbes
  <2>1. UNCHANGED <<exe, prev, process, job>>
        BY <1>5 DEF Upgrades!SyncHostedProbes, Upgrades!files
  <2>2. Upgrading'
        BY <1>1, <2>1, UpgradingStays
  <2> QED BY <1>1, <1>3, <2>1, <2>2, FilesStay DEF UpgradeInv, UpgradeTyped
<1>6. CASE Upgrades!RestartSelf \/ Upgrades!Stop
  <2>1. job' = Upgrades!Idle
        BY <1>6 DEF Upgrades!RestartSelf, Upgrades!Stop
  <2>2. Upgrading'
        BY <2>1 DEF Upgrading, Upgrades!Idle
  <2>3. UpgradeTyped'
        BY <1>1, <1>3, <2>1 DEF UpgradeInv, UpgradeTyped
  <2>4. Backed(meta)'
        BY <1>1 DEF UpgradeInv, Backed, Taken
  <2> QED BY <1>1, <2>2, <2>3, <2>4 DEF UpgradeInv
<1> QED BY <1>4, <1>5, <1>6

LEMMA UpgradeStep == ASSUME UpgradeInv, [Upgrades!Next]_(Upgrades!vars) PROVE UpgradeInv'
<1>1. CASE Upgrades!CreateUpgradeSnapshot
  <2>1. job # Upgrades!Idle /\ Upgrades!At("snapshot")
        BY <1>1 DEF Upgrades!CreateUpgradeSnapshot, Upgrades!At, Upgrades!Idle
  <2> QED BY <1>1, <2>1, PruningKeepsTheWayBack
<1>2. CASE UNCHANGED Upgrades!vars
  <2>1. UNCHANGED <<exe, prev, meta, snaps, process, job, count, adrift, spoiled>>
        BY <1>2 DEF Upgrades!vars
  <2>2. Upgrading'
        BY <2>1, UpgradingStays
  <2> QED BY <2>1, <2>2, FilesStay DEF UpgradeInv, UpgradeTyped
<1> QED BY <1>1, <1>2, FetchingKeepsTheWayBack, PublishedIsTaken, StagedIsBacked, RenamesKeepTheWayBack,
           RestartKeepsTheWayBack DEF Upgrades!Next

LEMMA UpgradeInvIsWhole == UpgradeInv => Upgrades!RollbackIsWhole
  BY DEF UpgradeInv, UpgradeTyped, Backed, Taken, Upgrades!RollbackIsWhole

\* However updates, rollbacks, crashes and restarts interleave, the pair kept for a rollback is
\* complete and its database snapshot there (selfupdate.go, upgrade_snapshot.go).
THEOREM RollbacksAreWhole == Spec => []RollbackIsWhole
<1> DEFINE Inv == scenario = "upgrades" => UpgradeInv
<1>1. Init => Inv
      BY UpgradeInit, PanelIsSane DEF Init
<1>2. Inv /\ [Next]_vars => Inv'
  <2> SUFFICES ASSUME Inv, [Next]_vars, scenario = "upgrades"
               PROVE  UpgradeInv'
      BY DEF Next, vars
  <2>1. [Upgrades!Next]_(Upgrades!vars)
        BY DEF Next, vars, Upgrades!vars, upgradesOnly
  <2> QED BY <2>1, UpgradeStep, PanelIsSane
<1>3. Inv => RollbackIsWhole
      BY UpgradeInvIsWhole, PanelIsSane DEF RollbackIsWhole
<1> QED BY <1>1, <1>2, <1>3, PTL DEF Spec
-----------------------------------------------------------------------------
(* Remote backup                                                             *)
RecordRow == [id : Nat, status : {"pending", "failed", "completed"}, expires : Nat]
BackupJob == [at : {"snapshot", "put", "record", "cleanup", "remove"}, id : Nat, bucket : Buckets,
              read : SUBSET RecordRow, keep : SUBSET RecordRow, doomed : SUBSET RecordRow, gone : BOOLEAN]
Deletion == [at : {"remove", "save"}, record : RecordRow, read : SUBSET RecordRow, bucket : Buckets]

BackupTyped ==
  /\ config \in Buckets /\ schedule \in RemoteBackup!Schedules /\ taken \in Nat /\ now \in Nat
  /\ records \subseteq RecordRow /\ IsFiniteSet(records)
  /\ job \in BackupJob \cup {RemoteBackup!Idle} /\ delete \in Deletion \cup {RemoteBackup!Idle}

\* SaveRecords would cut nothing
Fits(S) == \A r \in S : Cardinality({x \in S : x.id > r.id}) < MaxRecords

RecordsInOrder ==
  /\ \A r, s \in records : r.id = s.id => r = s
  /\ \A r \in records : r.id <= taken
  /\ Fits(records)

\* A job's bucket is the one of the setting as long as there is a record; its own record is
\* not a completed one until it is
JobInOrder ==
  /\ running <=> job # RemoteBackup!Idle
  /\ job # RemoteBackup!Idle =>
       /\ job.id <= taken
       /\ job.bucket = config \/ records = {}
       /\ job.at \in {"snapshot", "put", "record"} => \A r \in RemoteBackup!Completed(records) : r.id # job.id
       /\ job.at = "record" => <<job.bucket, job.id>> \in objects
       /\ job.at = "remove" =>
            /\ job.doomed \subseteq RemoteBackup!Completed(job.read) /\ job.keep \subseteq job.read
            /\ job.doomed \cap job.keep = {}
            /\ ~job.gone => job.read \subseteq job.keep \cup job.doomed
            /\ \A r \in RemoteBackup!Completed(job.read) \ (job.keep \cup job.doomed) : <<job.bucket, r.id>> \notin objects

DeletionInOrder ==
  delete # RemoteBackup!Idle =>
    /\ delete.record \in delete.read /\ delete.record.id <= taken
    /\ delete.bucket = config \/ \A r \in records : r.id # delete.record.id
    /\ delete.record.status = "completed" =>
         /\ job.at \in {"snapshot", "put", "record"} => job.id # delete.record.id
         /\ delete.at = "save" => <<delete.bucket, delete.record.id>> \notin objects

\* Records and objects, but for what a step under way has already changed
Stored ==
  /\ \A r \in RemoteBackup!Completed(records) :
       \/ <<config, r.id>> \in objects
       \/ delete.at = "save" /\ delete.record.id = r.id
       \/ job.at = "remove" /\ \E s \in job.read \ (job.keep \cup job.doomed) : s.id = r.id
  /\ \A o \in objects : \/ \E r \in RemoteBackup!Completed(records) : o = <<config, r.id>>
                        \/ job.at = "record" /\ o = <<job.bucket, job.id>>

BackupOk == BackupTyped /\ RecordsInOrder /\ JobInOrder /\ DeletionInOrder /\ Stored
BackupInv == excused \/ BackupOk
-----------------------------------------------------------------------------
LEMMA BackupInit == RemoteBackup!Init => BackupInv
<1> SUFFICES ASSUME RemoteBackup!Init PROVE BackupOk
    BY DEF BackupInv
<1> USE DEF RemoteBackup!Init
<1>1. BackupTyped
      BY FS_EmptySet DEF BackupTyped
<1>2. RecordsInOrder
      BY DEF RecordsInOrder, Fits
<1>3. JobInOrder
      BY DEF JobInOrder
<1>4. DeletionInOrder
      BY DEF DeletionInOrder
<1>5. Stored
      BY DEF Stored, RemoteBackup!Completed
<1> QED BY <1>1, <1>2, <1>3, <1>4, <1>5 DEF BackupOk

\* What SaveRecords keeps of a set that fits, of a part of one, and of any
\* Newest counts, as Fits does
LEMMA NewestAre ==
  \A S, n : RemoteBackup!Newest(S, n) = {r \in S : Cardinality({x \in S : x.id > r.id}) < n}
  BY DEF RemoteBackup!Newest, RemoteBackup!Cardinality, Cardinality

LEMMA SavingAll == ASSUME NEW S, Fits(S) PROVE RemoteBackup!Newest(S, MaxRecords) = S
  BY NewestAre DEF Fits

LEMMA PartFits ==
  ASSUME BackupSane, NEW S, NEW T \in SUBSET S, IsFiniteSet(S),
         \A r \in T : Cardinality({x \in S : x.id > r.id}) < MaxRecords
  PROVE  Fits(T) /\ IsFiniteSet(T)
<1>1. ASSUME NEW r \in T PROVE Cardinality({x \in T : x.id > r.id}) < MaxRecords
  <2> DEFINE A == {x \in S : x.id > r.id}
             B == {x \in T : x.id > r.id}
  <2>1. IsFiniteSet(A) /\ B \subseteq A
        BY FS_Subset
  <2>2. Cardinality(B) <= Cardinality(A) /\ Cardinality(A) \in Nat /\ Cardinality(B) \in Nat
        BY <2>1, FS_Subset, FS_CardinalityType
  <2>3. Cardinality(A) < MaxRecords
        OBVIOUS
  <2> HIDE DEF A, B
  <2>4. Cardinality(B) < MaxRecords
        BY <2>2, <2>3 DEF BackupSane
  <2> QED BY <2>4 DEF B
<1> QED BY <1>1, FS_Subset DEF Fits

\* A record takes the place of the one with its id
LEMMA OtherStatusFits ==
  ASSUME BackupSane, NEW S \in SUBSET RecordRow, IsFiniteSet(S), Fits(S),
         \A x, y \in S : x.id = y.id => x = y,
         NEW old \in S, NEW r \in RecordRow, r.id = old.id
  PROVE  /\ {x \in S : x.id # r.id} \cup {r} = (S \ {old}) \cup {r}
         /\ IsFiniteSet((S \ {old}) \cup {r})
         /\ Fits((S \ {old}) \cup {r})
<1> DEFINE T == (S \ {old}) \cup {r}
<1>1. {x \in S : x.id # r.id} \cup {r} = T
      OBVIOUS
<1>2. IsFiniteSet(T)
      BY FS_RemoveElement, FS_AddElement
<1>3. ASSUME NEW y \in T PROVE Cardinality({x \in T : x.id > y.id}) < MaxRecords
  <2> DEFINE z == IF y = r THEN old ELSE y
             A == {x \in S : x.id > z.id}
             B == {x \in T : x.id > y.id}
  <2>1. z \in S /\ z.id = y.id /\ y.id \in Int /\ r.id \in Int /\ \A x \in S : x.id \in Int
        BY DEF RecordRow
  <2>2. IsFiniteSet(A) /\ Cardinality(A) \in Nat /\ Cardinality(A) < MaxRecords
        BY <2>1, FS_Subset, FS_CardinalityType DEF Fits
  <2>3. CASE r.id > y.id
    <3>1. old \in A /\ B = (A \ {old}) \cup {r}
          BY <2>1, <2>3
    <3>2. IsFiniteSet(A \ {old}) /\ Cardinality(A \ {old}) = Cardinality(A) - 1
          BY <2>2, <3>1, FS_RemoveElement
    <3>3. Cardinality((A \ {old}) \cup {r}) \in {Cardinality(A \ {old}), Cardinality(A \ {old}) + 1}
          BY <3>2, FS_AddElement
    <3> HIDE DEF A, B
    <3>4. Cardinality(B) < MaxRecords
          BY <2>2, <3>1, <3>2, <3>3 DEF BackupSane
    <3> QED BY <3>4 DEF B
  <2>4. CASE ~(r.id > y.id)
    <3>1. B = A
          BY <2>1, <2>4
    <3> QED BY <2>2, <3>1
  <2> QED BY <2>3, <2>4
<1> QED BY <1>1, <1>2, <1>3 DEF Fits

\* The record of a job that is there takes another status
LEMMA UpdatedInPlace ==
  ASSUME BackupSane, BackupTyped, RecordsInOrder, NEW r \in RecordRow, RemoteBackup!Recorded(r.id), RemoteBackup!UpdateRecord(r)
  PROVE  \E old \in records : /\ old.id = r.id /\ records' = (records \ {old}) \cup {r}
                              /\ IsFiniteSet(records') /\ Fits(records')
<1>1. PICK old \in records : old.id = r.id
      BY DEF RemoteBackup!Recorded
<1>2. records' = RemoteBackup!Newest({x \in records : x.id # r.id} \cup {r}, MaxRecords)
      BY DEF RemoteBackup!UpdateRecord, RemoteBackup!SaveRecords
<1>3. /\ {x \in records : x.id # r.id} \cup {r} = (records \ {old}) \cup {r}
      /\ IsFiniteSet((records \ {old}) \cup {r}) /\ Fits((records \ {old}) \cup {r})
      BY <1>1, OtherStatusFits DEF BackupTyped, RecordsInOrder
<1>4. records' = (records \ {old}) \cup {r}
      BY <1>2, <1>3, SavingAll
<1> QED BY <1>1, <1>3, <1>4
\* A step that leaves the records and the bucket alone, but for the objects it says
LEMMA RecordsStay ==
  ASSUME BackupOk, UNCHANGED <<config, records, taken>>
  PROVE  RecordsInOrder'
  BY DEF BackupOk, RecordsInOrder, Fits

LEMMA FailedIsRecorded ==
  ASSUME BackupSane, BackupOk, job.at \in {"snapshot", "put"}, RemoteBackup!FailRecord,
         UNCHANGED <<config, schedule, objects, delete, taken, now>>
  PROVE  BackupOk'
<1> DEFINE r == RemoteBackup!Record(job.id, "failed", 0)
<1>1. job \in BackupJob /\ job # RemoteBackup!Idle /\ r \in RecordRow /\ r.id = job.id /\ r.status = "failed"
      BY DEF BackupOk, BackupTyped, RemoteBackup!Idle, BackupJob, RecordRow, RemoteBackup!Record
<1>2. job' = RemoteBackup!Idle /\ running' = FALSE /\ RemoteBackup!UpdateRecord(r)
      BY DEF RemoteBackup!FailRecord
<1>3. \/ records' = records
      \/ \E old \in records : /\ old.id = r.id /\ records' = (records \ {old}) \cup {r}
                              /\ IsFiniteSet(records') /\ Fits(records')
      BY <1>1, <1>2, UpdatedInPlace DEF RemoteBackup!UpdateRecord, BackupOk
<1>4. BackupTyped'
      BY <1>1, <1>2, <1>3 DEF BackupOk, BackupTyped
<1>5. RecordsInOrder'
  <2>1. CASE records' = records
        BY <2>1, RecordsStay
  <2>2. CASE \E old \in records : /\ old.id = r.id /\ records' = (records \ {old}) \cup {r}
                                 /\ IsFiniteSet(records') /\ Fits(records')
    <3>1. PICK old \in records : old.id = r.id /\ records' = (records \ {old}) \cup {r} /\ Fits(records')
          BY <2>2
    <3>2. \A x \in records' : x.id <= taken
          BY <1>1, <3>1 DEF BackupOk, RecordsInOrder
    <3>3. \A x, y \in records' : x.id = y.id => x = y
          BY <3>1 DEF BackupOk, RecordsInOrder
    <3> QED BY <3>1, <3>2, <3>3 DEF RecordsInOrder
  <2> QED BY <1>3, <2>1, <2>2
<1>6. JobInOrder'
      BY <1>2 DEF JobInOrder
<1>7. \A x \in records' : \E y \in records : y.id = x.id
      BY <1>3
<1>8. DeletionInOrder'
      BY <1>2, <1>7 DEF BackupOk, DeletionInOrder, RemoteBackup!Idle
<1>9. RemoteBackup!Completed(records') = RemoteBackup!Completed(records)
      BY <1>1, <1>3 DEF BackupOk, JobInOrder, RemoteBackup!Completed
<1>10. Stored'
      BY <1>2, <1>9, <1>1 DEF BackupOk, Stored
<1> QED BY <1>4, <1>5, <1>6, <1>8, <1>10 DEF BackupOk

\* A job goes from one step to the next
LEMMA StepOfAJob ==
  ASSUME BackupOk, job # RemoteBackup!Idle, NEW pc \in {"put", "record"}, RemoteBackup!To(pc)
  PROVE  /\ job \in BackupJob /\ job' \in BackupJob /\ job' # RemoteBackup!Idle
         /\ job'.at = pc /\ job'.id = job.id /\ job'.bucket = job.bucket
<1>1. job \in BackupJob
      BY DEF BackupOk, BackupTyped
<1>2. job' = [job EXCEPT !.at = pc]
      BY DEF RemoteBackup!To
<1>3. /\ job' \in BackupJob
      /\ job'.at = pc /\ job'.id = job.id /\ job'.bucket = job.bucket
      BY <1>1, <1>2 DEF BackupJob
<1> QED BY <1>1, <1>3 DEF RemoteBackup!Idle

LEMMA SnapshotKeeps ==
  ASSUME BackupSane, BackupOk, RemoteBackup!Snapshot PROVE BackupOk'
<1>1. /\ job.at = "snapshot"
      /\ UNCHANGED <<config, schedule, objects, delete, taken, now>>
      BY DEF RemoteBackup!Snapshot, RemoteBackup!settings
<1>2. CASE RemoteBackup!FailRecord
      BY <1>1, <1>2, FailedIsRecorded
<1>3. CASE RemoteBackup!To("put") /\ UNCHANGED <<records, running>>
  <2>1. job # RemoteBackup!Idle
        BY <1>1 DEF RemoteBackup!Idle
  <2>2. /\ job' \in BackupJob /\ job' # RemoteBackup!Idle
        /\ job'.at = "put" /\ job'.id = job.id /\ job'.bucket = job.bucket
        BY <1>3, <2>1, StepOfAJob
  <2>3. BackupTyped' /\ RecordsInOrder'
        BY <1>1, <1>3, <2>2, RecordsStay DEF BackupOk, BackupTyped
  <2>4. JobInOrder'
        BY <1>1, <1>3, <2>1, <2>2 DEF BackupOk, JobInOrder, RemoteBackup!Completed
  <2>5. DeletionInOrder'
        BY <1>1, <1>3, <2>2 DEF BackupOk, DeletionInOrder
  <2>6. Stored'
        BY <1>1, <1>3, <2>2 DEF BackupOk, Stored, RemoteBackup!Completed
  <2> QED BY <2>3, <2>4, <2>5, <2>6 DEF BackupOk
<1> QED BY <1>2, <1>3 DEF RemoteBackup!Snapshot

LEMMA UploadKeeps ==
  ASSUME BackupSane, BackupOk, ~excused', RemoteBackup!RunBackup PROVE BackupOk'
<1>1. /\ job.at = "put"
      /\ UNCHANGED <<config, schedule, delete, taken, now>>
      BY DEF RemoteBackup!RunBackup, RemoteBackup!settings
<1>2. CASE RemoteBackup!FailRecord /\ excused' = (excused \/ objects' # objects)
  <2>1. objects' = objects
        BY <1>2
  <2> QED BY <1>1, <1>2, <2>1, FailedIsRecorded
<1>3. CASE /\ objects' = objects \cup {<<job.bucket, job.id>>}
           /\ RemoteBackup!To("record") /\ UNCHANGED <<records, running>>
  <2>1. job # RemoteBackup!Idle
        BY <1>1 DEF RemoteBackup!Idle
  <2>2. /\ job' \in BackupJob /\ job' # RemoteBackup!Idle
        /\ job'.at = "record" /\ job'.id = job.id /\ job'.bucket = job.bucket
        BY <1>3, <2>1, StepOfAJob
  <2>3. BackupTyped' /\ RecordsInOrder'
        BY <1>1, <1>3, <2>2, RecordsStay DEF BackupOk, BackupTyped
  <2>4. JobInOrder'
        BY <1>1, <1>3, <2>1, <2>2 DEF BackupOk, JobInOrder, RemoteBackup!Completed
  <2>5. DeletionInOrder'
        BY <1>1, <1>3, <2>2 DEF BackupOk, DeletionInOrder
  <2>6. Stored'
        BY <1>1, <1>3, <2>2 DEF BackupOk, Stored, RemoteBackup!Completed
  <2> QED BY <2>3, <2>4, <2>5, <2>6 DEF BackupOk
<1> QED BY <1>2, <1>3 DEF RemoteBackup!RunBackup

LEMMA CompleteKeeps ==
  ASSUME BackupSane, BackupOk, ~excused', RemoteBackup!Complete PROVE BackupOk'
<1> DEFINE r == RemoteBackup!Record(job.id, "completed", IF schedule.days > 0 THEN now + schedule.days ELSE 0)
<1>1. /\ job.at = "record" /\ RemoteBackup!Recorded(job.id) /\ RemoteBackup!UpdateRecord(r)
      /\ job' = [job EXCEPT !.at = "cleanup"]
      /\ UNCHANGED <<config, schedule, objects, running, delete, taken, now>>
      BY DEF RemoteBackup!Complete, RemoteBackup!settings, RemoteBackup!To
<1>2. job \in BackupJob /\ job # RemoteBackup!Idle
      BY <1>1 DEF BackupOk, BackupTyped, RemoteBackup!Idle
<1>3. /\ job' \in BackupJob /\ job' # RemoteBackup!Idle
      /\ job'.at = "cleanup" /\ job'.id = job.id /\ job'.bucket = job.bucket
  <2>1. /\ job' \in BackupJob
        /\ job'.at = "cleanup" /\ job'.id = job.id /\ job'.bucket = job.bucket
        BY <1>1, <1>2 DEF BackupJob
  <2> QED BY <2>1 DEF RemoteBackup!Idle
<1>4. r \in RecordRow /\ r.id = job.id /\ r.status = "completed"
  <2>1. schedule.days \in Nat /\ now \in Nat
        BY DEF BackupOk, BackupTyped, RemoteBackup!Schedules
  <2>2. job.id \in Nat /\ (IF schedule.days > 0 THEN now + schedule.days ELSE 0) \in Nat
        BY <1>2, <2>1 DEF BackupJob
  <2> QED BY <2>2 DEF RecordRow, RemoteBackup!Record
<1>5. PICK old \in records : /\ old.id = r.id /\ records' = (records \ {old}) \cup {r}
                            /\ IsFiniteSet(records') /\ Fits(records')
      BY <1>1, <1>4, UpdatedInPlace DEF BackupOk
<1> HIDE DEF r
<1>6. BackupTyped'
      BY <1>1, <1>3, <1>4, <1>5 DEF BackupOk, BackupTyped
<1>7. RecordsInOrder'
  <2>1. \A x \in records' : x.id <= taken
        BY <1>5 DEF BackupOk, RecordsInOrder
  <2>2. \A x, y \in records' : x.id = y.id => x = y
        BY <1>5 DEF BackupOk, RecordsInOrder
  <2> QED BY <1>1, <1>5, <2>1, <2>2 DEF RecordsInOrder
<1>8. JobInOrder'
      BY <1>1, <1>2, <1>3, <1>5 DEF BackupOk, JobInOrder
<1>9. DeletionInOrder'
      BY <1>1, <1>3, <1>5 DEF BackupOk, DeletionInOrder
<1>10. RemoteBackup!Completed(records') = RemoteBackup!Completed(records) \cup {r}
       BY <1>1, <1>4, <1>5, <1>2 DEF BackupOk, JobInOrder, RemoteBackup!Completed
<1>11. <<job.bucket, job.id>> \in objects /\ job.bucket = config
       BY <1>1, <1>2 DEF BackupOk, JobInOrder, RemoteBackup!Recorded
<1>12. Stored'
       BY <1>1, <1>3, <1>4, <1>10, <1>11 DEF BackupOk, Stored
<1> QED BY <1>6, <1>7, <1>8, <1>9, <1>12 DEF BackupOk
\* Settings and time; the bucket only changes while nothing is stored
LEMMA SettingsKeep ==
  ASSUME BackupOk, ~excused', RemoteBackup!SaveConfig \/ RemoteBackup!SaveSchedule \/ RemoteBackup!Tick PROVE BackupOk'
<1>1. /\ UNCHANGED <<records, objects, running, job, delete, taken>>
      /\ config' \in Buckets /\ schedule' \in RemoteBackup!Schedules /\ now' \in Nat
      BY DEF RemoteBackup!SaveConfig, RemoteBackup!SaveSchedule, RemoteBackup!Tick, RemoteBackup!settings, BackupOk, BackupTyped
<1>2. config' = config \/ (records = {} /\ objects = {})
      BY DEF RemoteBackup!SaveConfig, RemoteBackup!SaveSchedule, RemoteBackup!Tick, RemoteBackup!settings
<1>3. BackupTyped' /\ RecordsInOrder'
      BY <1>1 DEF BackupOk, BackupTyped, RecordsInOrder, Fits
<1>4. JobInOrder'
      BY <1>1, <1>2 DEF BackupOk, JobInOrder
<1>5. DeletionInOrder'
      BY <1>1, <1>2 DEF BackupOk, DeletionInOrder
<1>6. Stored'
      BY <1>1, <1>2 DEF BackupOk, Stored, RemoteBackup!Completed
<1> QED BY <1>3, <1>4, <1>5, <1>6 DEF BackupOk

LEMMA StartKeeps ==
  ASSUME BackupSane, BackupOk, ~excused', RemoteBackup!StartBackup PROVE BackupOk'
<1> DEFINE r == RemoteBackup!Record(taken', "pending", 0)
           all == records \cup {r}
           none == {}
<1>1. /\ ~running /\ taken' = taken + 1 /\ running' = TRUE
      /\ records' = RemoteBackup!Newest(all, MaxRecords) /\ ~RemoteBackup!Cut(all)
      /\ UNCHANGED <<config, schedule, objects, delete, now>>
      BY DEF RemoteBackup!StartBackup, RemoteBackup!SaveRecords, RemoteBackup!settings
<1>2. job = RemoteBackup!Idle /\ taken \in Nat /\ taken' \in Nat
      BY <1>1 DEF BackupOk, JobInOrder, BackupTyped
<1>3. job' = [at |-> "snapshot", id |-> taken', bucket |-> config, read |-> {}, keep |-> {}, doomed |-> {},
              gone |-> FALSE]
      BY DEF RemoteBackup!StartBackup
<1>4. job'.at = "snapshot" /\ job'.id = taken' /\ job'.bucket = config /\ job' # RemoteBackup!Idle
      BY <1>3 DEF RemoteBackup!Idle
<1>5. job' \in BackupJob
      BY <1>2, <1>3 DEF BackupOk, BackupTyped, BackupJob
<1>6. r \in RecordRow /\ r.id = taken + 1 /\ r.status = "pending"
      BY <1>1, <1>2 DEF RemoteBackup!Record, RecordRow
<1>7. all \subseteq RecordRow /\ IsFiniteSet(all)
      BY <1>6, FS_AddElement DEF BackupOk, BackupTyped
<1> HIDE DEF r
<1>8. records' \subseteq all /\ IsFiniteSet(records') /\ Fits(records')
  <2>1. records' \in SUBSET all
        /\ \A x \in records' : Cardinality({y \in all : y.id > x.id}) < MaxRecords
        BY <1>1, NewestAre
  <2> QED BY <1>7, <2>1, PartFits
<1>9. RemoteBackup!Completed(records') = RemoteBackup!Completed(records)
      BY <1>1, <1>6, <1>8 DEF RemoteBackup!Cut, RemoteBackup!Completed
<1>10. BackupTyped'
       BY <1>1, <1>2, <1>5, <1>7, <1>8 DEF BackupOk, BackupTyped
<1>11. RecordsInOrder'
  <2>1. \A x \in records : x.id \in Nat /\ x.id <= taken
        BY DEF BackupOk, RecordsInOrder, BackupTyped, RecordRow
  <2>2. \A x \in records' : x.id <= taken'
    <3>1. taken' = taken + 1 /\ r.id = taken'
          BY <1>1, <1>6
    <3>2. \A x \in all : x = r \/ x \in records
          OBVIOUS
    <3>3. \A x \in all : x.id <= taken'
          BY <1>2, <2>1, <3>1, <3>2
    <3> QED BY <1>8, <3>3
  <2>3. \A x, y \in all : x.id = y.id => x = y
        BY <1>2, <1>6, <2>1 DEF BackupOk, RecordsInOrder
  <2> QED BY <1>8, <2>2, <2>3 DEF RecordsInOrder
<1>12. JobInOrder'
  <2>1. \A x \in RemoteBackup!Completed(records) : x.id # taken'
        BY <1>1, <1>2 DEF BackupOk, RecordsInOrder, BackupTyped, RecordRow, RemoteBackup!Completed
  <2> QED BY <1>1, <1>2, <1>4, <1>9, <2>1 DEF JobInOrder
<1>13. DeletionInOrder'
  <2>1. CASE delete = RemoteBackup!Idle
        BY <1>1, <2>1 DEF DeletionInOrder
  <2>2. CASE delete # RemoteBackup!Idle
    <3>1. delete \in Deletion /\ delete.record.id \in Nat
          BY <2>2 DEF BackupOk, BackupTyped, Deletion, RecordRow
    <3>2. delete.record.id <= taken /\ delete.record.id # taken'
          BY <1>1, <1>2, <2>2, <3>1 DEF BackupOk, DeletionInOrder
    <3>3. delete.bucket = config \/ \A x \in records' : x.id # delete.record.id
          BY <1>1, <1>6, <1>8, <2>2, <3>2 DEF BackupOk, DeletionInOrder
    <3>4. delete.record.id <= taken'
          BY <1>1, <1>2, <3>1, <3>2
    <3> QED BY <1>1, <1>4, <2>2, <3>2, <3>3, <3>4 DEF BackupOk, DeletionInOrder
  <2> QED BY <2>1, <2>2
<1>14. Stored'
       BY <1>1, <1>2, <1>4, <1>9 DEF BackupOk, Stored, RemoteBackup!Idle
<1> QED BY <1>10, <1>11, <1>12, <1>13, <1>14 DEF BackupOk

LEMMA CleanupKeeps ==
  ASSUME BackupOk, RemoteBackup!Cleanup PROVE BackupOk'
<1> DEFINE old == RemoteBackup!Completed(records) \ RemoteBackup!Kept(records)
<1>1. /\ job.at = "cleanup"
      /\ job' = [job EXCEPT !.at = "remove", !.read = records, !.doomed = old, !.keep = records \ old]
      /\ UNCHANGED <<config, schedule, records, objects, running, delete, taken, now>>
      BY DEF RemoteBackup!Cleanup, RemoteBackup!settings
<1>2. job \in BackupJob /\ job # RemoteBackup!Idle /\ old \subseteq RemoteBackup!Completed(records) /\ RemoteBackup!Completed(records) \subseteq records
      BY <1>1 DEF BackupOk, BackupTyped, RemoteBackup!Idle, RemoteBackup!Completed
<1> HIDE DEF old
<1>3. /\ job'.at = "remove" /\ job'.id = job.id /\ job'.bucket = job.bucket
      /\ job'.read = records /\ job'.doomed = old /\ job'.keep = records \ old
      BY <1>1, <1>2 DEF BackupJob
<1>4. job' \in BackupJob
  <2>1. records \in SUBSET RecordRow /\ old \in SUBSET RecordRow /\ (records \ old) \in SUBSET RecordRow
        BY <1>2 DEF BackupOk, BackupTyped
  <2> QED BY <1>1, <1>2, <2>1 DEF BackupJob
<1>5. BackupTyped' /\ RecordsInOrder'
      BY <1>1, <1>4, RecordsStay DEF BackupOk, BackupTyped
<1>6. JobInOrder'
  <2>1. job' # RemoteBackup!Idle
        BY <1>3 DEF RemoteBackup!Idle
  <2>2. job.id <= taken /\ (job.bucket = config \/ records = {}) /\ running
        BY <1>2 DEF BackupOk, JobInOrder
  <2>3. /\ job'.doomed \subseteq RemoteBackup!Completed(job'.read) /\ job'.keep \subseteq job'.read
        /\ job'.doomed \cap job'.keep = {} /\ job'.read \subseteq job'.keep \cup job'.doomed
        BY <1>2, <1>3
  <2>4. RemoteBackup!Completed(job'.read) \ (job'.keep \cup job'.doomed) = {}
        BY <2>3 DEF RemoteBackup!Completed
  <2> QED BY <1>1, <1>3, <2>1, <2>2, <2>3, <2>4 DEF JobInOrder
<1>7. DeletionInOrder'
      BY <1>1, <1>3 DEF BackupOk, DeletionInOrder
<1>8. Stored'
      BY <1>1, <1>3 DEF BackupOk, Stored
<1> QED BY <1>5, <1>6, <1>7, <1>8 DEF BackupOk
LEMMA RemovalKeeps ==
  ASSUME BackupOk, RemoteBackup!RemoveExpired PROVE BackupOk'
<1>1. /\ job.at = "remove"
      /\ UNCHANGED <<config, schedule, records, running, delete, taken, now>>
      BY DEF RemoteBackup!RemoveExpired, RemoteBackup!settings
<1>2. job \in BackupJob /\ job # RemoteBackup!Idle
      BY <1>1 DEF BackupOk, BackupTyped, RemoteBackup!Idle
<1>3. /\ job.doomed \subseteq RemoteBackup!Completed(job.read) /\ job.keep \subseteq job.read
      /\ job.doomed \cap job.keep = {}
      /\ ~job.gone => job.read \subseteq job.keep \cup job.doomed
      /\ \A r \in RemoteBackup!Completed(job.read) \ (job.keep \cup job.doomed) : <<job.bucket, r.id>> \notin objects
      /\ RemoteBackup!Completed(job.read) \subseteq job.read
      BY <1>1, <1>2 DEF BackupOk, JobInOrder, RemoteBackup!Completed
<1>4. PICK r \in job.doomed :
        \/ /\ objects' = objects \ {<<job.bucket, r.id>>}
           /\ job' = [job EXCEPT !.doomed = @ \ {r}, !.gone = TRUE]
        \/ job' = [job EXCEPT !.doomed = @ \ {r}, !.keep = @ \cup {r}] /\ UNCHANGED objects
      BY DEF RemoteBackup!RemoveExpired
<1>5. /\ job'.at = "remove" /\ job'.id = job.id /\ job'.bucket = job.bucket /\ job'.read = job.read
      /\ job'.doomed = job.doomed \ {r}
      BY <1>1, <1>2, <1>4 DEF BackupJob
<1>6. \/ /\ objects' = objects \ {<<job.bucket, r.id>>}
         /\ job'.keep = job.keep /\ job'.gone = TRUE
      \/ /\ objects' = objects /\ job'.keep = job.keep \cup {r} /\ job'.gone = job.gone
      BY <1>2, <1>4 DEF BackupJob
<1>7. job' \in BackupJob /\ job' # RemoteBackup!Idle
  <2>1. r \in RecordRow /\ job.doomed \in SUBSET RecordRow /\ job.keep \in SUBSET RecordRow
        BY <1>2, <1>4 DEF BackupJob
  <2>2. (job.doomed \ {r}) \in SUBSET RecordRow /\ (job.keep \cup {r}) \in SUBSET RecordRow
        BY <2>1
  <2>3. ASSUME NEW D \in SUBSET RecordRow PROVE [job EXCEPT !.doomed = D, !.gone = TRUE] \in BackupJob
        BY <1>2 DEF BackupJob
  <2>4. ASSUME NEW D \in SUBSET RecordRow, NEW K \in SUBSET RecordRow
        PROVE  [job EXCEPT !.doomed = D, !.keep = K] \in BackupJob
        BY <1>2 DEF BackupJob
  <2>5. job' = [job EXCEPT !.doomed = @ \ {r}, !.gone = TRUE] => job' \in BackupJob
        BY <2>2, <2>3
  <2>6. job' = [job EXCEPT !.doomed = @ \ {r}, !.keep = @ \cup {r}] => job' \in BackupJob
    <3>1. [job EXCEPT !.doomed = @ \ {r}].keep = job.keep
          BY <1>2 DEF BackupJob
    <3> QED BY <2>2, <2>4, <3>1
  <2> QED BY <1>4, <1>5, <2>5, <2>6 DEF RemoteBackup!Idle
<1>8. BackupTyped' /\ RecordsInOrder'
      BY <1>1, <1>7, RecordsStay DEF BackupOk, BackupTyped
<1>9. JobInOrder'
  <2>1. /\ job'.doomed \subseteq RemoteBackup!Completed(job'.read) /\ job'.keep \subseteq job'.read
        /\ job'.doomed \cap job'.keep = {}
        BY <1>3, <1>5, <1>6
  <2>2. ~job'.gone => job'.read \subseteq job'.keep \cup job'.doomed
        BY <1>3, <1>5, <1>6
  <2>3. \A x \in RemoteBackup!Completed(job'.read) \ (job'.keep \cup job'.doomed) : <<job'.bucket, x.id>> \notin objects'
        BY <1>3, <1>5, <1>6
  <2>4. job.id <= taken /\ (job.bucket = config \/ records = {}) /\ running
        BY <1>2 DEF BackupOk, JobInOrder
  <2> QED BY <1>1, <1>5, <1>7, <2>1, <2>2, <2>3, <2>4 DEF JobInOrder
<1>10. DeletionInOrder'
       BY <1>1, <1>5, <1>6 DEF BackupOk, DeletionInOrder
<1>11. Stored'
  <2>1. ASSUME NEW x \in RemoteBackup!Completed(records)
        PROVE  \/ <<config, x.id>> \in objects'
               \/ delete.at = "save" /\ delete.record.id = x.id
               \/ \E s \in job'.read \ (job'.keep \cup job'.doomed) : s.id = x.id
    <3>1. \/ <<config, x.id>> \in objects
          \/ delete.at = "save" /\ delete.record.id = x.id
          \/ \E s \in job.read \ (job.keep \cup job.doomed) : s.id = x.id
          BY DEF BackupOk, Stored
    <3>2. job.read \ (job.keep \cup job.doomed) \subseteq job'.read \ (job'.keep \cup job'.doomed)
          BY <1>4, <1>5, <1>6
    <3>3. CASE <<config, x.id>> \in objects \ objects'
      <4>1. x.id = r.id /\ job'.keep = job.keep
            BY <1>6, <3>3
      <4>2. r \in job'.read \ (job'.keep \cup job'.doomed)
            BY <1>3, <1>4, <1>5, <4>1
      <4> QED BY <4>1, <4>2
    <3> QED BY <3>1, <3>2, <3>3
  <2>2. \A o \in objects' : \E x \in RemoteBackup!Completed(records) : o = <<config, x.id>>
        BY <1>1, <1>6 DEF BackupOk, Stored
  <2> QED BY <1>1, <1>5, <2>1, <2>2 DEF Stored
<1> QED BY <1>8, <1>9, <1>10, <1>11 DEF BackupOk

\* Some of the records go, those left being stored
LEMMA FewerRecords ==
  ASSUME BackupSane, BackupOk, NEW S \in SUBSET records
  PROVE  /\ RemoteBackup!Newest(S, MaxRecords) = S /\ IsFiniteSet(S) /\ Fits(S)
         /\ S \subseteq RecordRow
         /\ \A x, y \in S : x.id = y.id => x = y
         /\ \A x \in S : x.id <= taken
<1>1. IsFiniteSet(records) /\ \A r \in S : Cardinality({x \in records : x.id > r.id}) < MaxRecords
      BY DEF BackupOk, BackupTyped, RecordsInOrder, Fits
<1>2. IsFiniteSet(S) /\ Fits(S)
      BY <1>1, PartFits
<1> QED BY <1>2, SavingAll DEF BackupOk, BackupTyped, RecordsInOrder

LEMMA SaveRemainingKeeps ==
  ASSUME BackupSane, BackupOk, ~excused', RemoteBackup!SaveRemaining PROVE BackupOk'
<1>1. /\ job.at = "remove" /\ job.doomed = {} /\ records = job.read
      /\ records' = RemoteBackup!Newest(job.keep, MaxRecords) /\ job' = RemoteBackup!Idle /\ running' = FALSE
      /\ UNCHANGED <<config, schedule, objects, delete, taken, now>>
      BY DEF RemoteBackup!SaveRemaining, RemoteBackup!settings, RemoteBackup!SaveRecords
<1>2. job # RemoteBackup!Idle
      BY <1>1 DEF RemoteBackup!Idle
<1>3. /\ job.keep \subseteq records
      /\ \A r \in RemoteBackup!Completed(records) \ job.keep : <<job.bucket, r.id>> \notin objects
      /\ job.bucket = config \/ records = {}
      BY <1>1, <1>2 DEF BackupOk, JobInOrder
<1>4. /\ records' = job.keep /\ IsFiniteSet(records') /\ Fits(records') /\ records' \subseteq RecordRow
      /\ \A x, y \in records' : x.id = y.id => x = y
      /\ \A x \in records' : x.id <= taken
      BY <1>1, <1>3, FewerRecords
<1>5. BackupTyped' /\ RecordsInOrder'
      BY <1>1, <1>4 DEF BackupOk, BackupTyped, RecordsInOrder
<1>6. JobInOrder'
      BY <1>1 DEF JobInOrder
<1>7. DeletionInOrder'
      BY <1>1, <1>3, <1>4 DEF BackupOk, DeletionInOrder, RemoteBackup!Idle
<1>8. RemoteBackup!Completed(records') = RemoteBackup!Completed(records) \cap job.keep
      BY <1>3, <1>4 DEF RemoteBackup!Completed
<1>9. Stored'
  <2>1. ASSUME NEW x \in RemoteBackup!Completed(records')
        PROVE  <<config, x.id>> \in objects \/ (delete.at = "save" /\ delete.record.id = x.id)
    <3>1. x \in RemoteBackup!Completed(records) /\ x \in records /\ x \in job.keep
          BY <1>8 DEF RemoteBackup!Completed
    <3>2. ~\E s \in job.read \ (job.keep \cup job.doomed) : s.id = x.id
          BY <1>1, <3>1 DEF BackupOk, RecordsInOrder
    <3> QED BY <3>1, <3>2 DEF BackupOk, Stored
  <2>2. ASSUME NEW o \in objects
        PROVE  \E x \in RemoteBackup!Completed(records') : o = <<config, x.id>>
    <3>1. PICK x \in RemoteBackup!Completed(records) : o = <<config, x.id>>
          BY <1>1 DEF BackupOk, Stored
    <3>2. x \in job.keep
          BY <1>3, <3>1 DEF RemoteBackup!Completed
    <3> QED BY <1>8, <3>1, <3>2
  <2> QED BY <1>1, <2>1, <2>2 DEF Stored
<1> QED BY <1>5, <1>6, <1>7, <1>9 DEF BackupOk

LEMMA ReadKeeps ==
  ASSUME BackupOk, RemoteBackup!ReadRecords PROVE BackupOk'
<1>1. UNCHANGED <<config, schedule, records, objects, running, job, taken, now>> /\ delete = RemoteBackup!Idle
      BY DEF RemoteBackup!ReadRecords, RemoteBackup!settings
<1>2. PICK r \in records : delete' = [at |-> "remove", record |-> r, read |-> records, bucket |-> config]
      BY DEF RemoteBackup!ReadRecords
<1>3. delete' \in Deletion
      BY <1>2 DEF BackupOk, BackupTyped, Deletion
<1>4. BackupTyped' /\ RecordsInOrder'
      BY <1>1, <1>3, RecordsStay DEF BackupOk, BackupTyped
<1>5. JobInOrder'
      BY <1>1 DEF BackupOk, JobInOrder, RemoteBackup!Completed
<1>6. DeletionInOrder'
  <2>1. r.status = "completed" => (job.at \in {"snapshot", "put", "record"} => job.id # r.id)
        BY <1>2 DEF BackupOk, JobInOrder, RemoteBackup!Completed, RemoteBackup!Idle
  <2> QED BY <1>1, <1>2, <2>1 DEF BackupOk, DeletionInOrder, RecordsInOrder
<1>7. Stored'
      BY <1>1, <1>2 DEF BackupOk, Stored, RemoteBackup!Completed, RemoteBackup!Idle
<1> QED BY <1>4, <1>5, <1>6, <1>7 DEF BackupOk

LEMMA RemoveObjectKeeps ==
  ASSUME BackupOk, RemoteBackup!RemoveObject PROVE BackupOk'
<1>1. /\ delete.at = "remove"
      /\ UNCHANGED <<config, schedule, records, running, job, taken, now>>
      BY DEF RemoteBackup!RemoveObject, RemoteBackup!settings
<1>2. delete \in Deletion /\ delete # RemoteBackup!Idle
      BY <1>1 DEF BackupOk, BackupTyped, RemoteBackup!Idle
<1>3. CASE delete' = RemoteBackup!Idle /\ UNCHANGED objects
  <2>1. BackupTyped' /\ RecordsInOrder'
        BY <1>1, <1>3, RecordsStay DEF BackupOk, BackupTyped
  <2>2. JobInOrder' /\ DeletionInOrder'
        BY <1>1, <1>3 DEF BackupOk, JobInOrder, DeletionInOrder, RemoteBackup!Completed
  <2>3. Stored'
        BY <1>1, <1>3 DEF BackupOk, Stored, RemoteBackup!Completed
  <2> QED BY <2>1, <2>2, <2>3 DEF BackupOk
<1>4. CASE /\ objects' = IF delete.record.status = "completed"
                         THEN objects \ {<<delete.bucket, delete.record.id>>} ELSE objects
           /\ delete' = [delete EXCEPT !.at = "save"]
  <2>1. /\ delete' \in Deletion /\ delete'.at = "save" /\ delete'.record = delete.record
        /\ delete'.read = delete.read /\ delete'.bucket = delete.bucket
        BY <1>2, <1>4 DEF Deletion
  <2>2. BackupTyped' /\ RecordsInOrder'
        BY <1>1, <2>1, RecordsStay DEF BackupOk, BackupTyped
  <2>3. JobInOrder'
    <3>1. job.at = "record" => <<job.bucket, job.id>> \in objects'
      <4>1. job.at = "record" => <<job.bucket, job.id>> \in objects
            BY DEF BackupOk, JobInOrder, RemoteBackup!Idle
      <4>2. job.at = "record" /\ delete.record.status = "completed" => job.id # delete.record.id
            BY <1>2 DEF BackupOk, DeletionInOrder
      <4> QED BY <1>4, <4>1, <4>2
    <3>2. objects' \subseteq objects
          BY <1>4
    <3> QED BY <1>1, <3>1, <3>2 DEF BackupOk, JobInOrder, RemoteBackup!Completed
  <2>4. DeletionInOrder'
        BY <1>1, <1>2, <1>4, <2>1 DEF BackupOk, DeletionInOrder
  <2>5. Stored'
    <3>1. ASSUME NEW x \in RemoteBackup!Completed(records), <<config, x.id>> \in objects \ objects'
          PROVE  delete.record.id = x.id
          BY <1>4, <3>1
    <3> QED BY <1>1, <1>4, <2>1, <3>1 DEF BackupOk, Stored
  <2> QED BY <2>2, <2>3, <2>4, <2>5 DEF BackupOk
<1> QED BY <1>3, <1>4 DEF RemoteBackup!RemoveObject

LEMMA DeleteKeeps ==
  ASSUME BackupSane, BackupOk, ~excused', RemoteBackup!Delete PROVE BackupOk'
<1> DEFINE d == delete.record
<1>1. /\ delete.at = "save" /\ records = delete.read /\ delete' = RemoteBackup!Idle
      /\ records' = RemoteBackup!Newest(records \ {d}, MaxRecords)
      /\ UNCHANGED <<config, schedule, objects, running, job, taken, now>>
      BY DEF RemoteBackup!Delete, RemoteBackup!settings, RemoteBackup!SaveRecords
<1>2. delete # RemoteBackup!Idle
      BY <1>1 DEF RemoteBackup!Idle
<1>3. /\ d \in records /\ delete.bucket = config
      /\ d.status = "completed" => <<config, d.id>> \notin objects
      BY <1>1, <1>2 DEF BackupOk, DeletionInOrder
<1> HIDE DEF d
<1>4. /\ records' = records \ {d} /\ IsFiniteSet(records') /\ Fits(records') /\ records' \subseteq RecordRow
      /\ \A x, y \in records' : x.id = y.id => x = y
      /\ \A x \in records' : x.id <= taken
      BY <1>1, FewerRecords
<1>5. BackupTyped' /\ RecordsInOrder'
      BY <1>1, <1>4 DEF BackupOk, BackupTyped, RecordsInOrder
<1>6. RemoteBackup!Completed(records') = RemoteBackup!Completed(records) \ {d}
      BY <1>4 DEF RemoteBackup!Completed
<1>7. JobInOrder'
      BY <1>1, <1>3, <1>6, <1>4 DEF BackupOk, JobInOrder
<1>8. DeletionInOrder'
      BY <1>1 DEF DeletionInOrder
<1>9. Stored'
  <2>1. ASSUME NEW x \in RemoteBackup!Completed(records')
        PROVE  delete.record.id # x.id
        BY <1>3, <1>6 DEF d, BackupOk, RecordsInOrder, RemoteBackup!Completed
  <2>2. ASSUME NEW o \in objects
        PROVE  \/ \E x \in RemoteBackup!Completed(records') : o = <<config, x.id>>
               \/ job.at = "record" /\ o = <<job.bucket, job.id>>
    <3>1. CASE \E x \in RemoteBackup!Completed(records) : o = <<config, x.id>>
      <4>1. PICK x \in RemoteBackup!Completed(records) : o = <<config, x.id>>
            BY <3>1
      <4>2. x # d
            BY <1>3, <4>1 DEF RemoteBackup!Completed
      <4> QED BY <1>6, <4>1, <4>2
    <3> QED BY <3>1 DEF BackupOk, Stored
  <2> QED BY <1>1, <1>6, <2>1, <2>2 DEF BackupOk, Stored
<1> QED BY <1>5, <1>7, <1>8, <1>9 DEF BackupOk

LEMMA RestartKeeps ==
  ASSUME BackupOk, ~excused', RemoteBackup!Restart PROVE BackupOk'
<1>1. /\ job' = RemoteBackup!Idle /\ delete' = RemoteBackup!Idle /\ running' = FALSE
      /\ job.at # "record" /\ ~(job.at = "remove" /\ job.gone) /\ delete.at # "save"
      /\ UNCHANGED <<config, schedule, records, objects, taken, now>>
      BY DEF RemoteBackup!Restart
<1>2. BackupTyped' /\ RecordsInOrder'
      BY <1>1, RecordsStay DEF BackupOk, BackupTyped
<1>3. JobInOrder' /\ DeletionInOrder'
      BY <1>1 DEF JobInOrder, DeletionInOrder
<1>4. job.at = "remove" => job.read \ (job.keep \cup job.doomed) = {}
      BY <1>1 DEF BackupOk, JobInOrder, RemoteBackup!Idle
<1>5. Stored'
      BY <1>1, <1>4 DEF BackupOk, Stored, RemoteBackup!Completed
<1> QED BY <1>2, <1>3, <1>5 DEF BackupOk

LEMMA BackupStep == ASSUME BackupSane, BackupInv, [RemoteBackup!Next]_(RemoteBackup!vars) PROVE BackupInv'
<1> SUFFICES ASSUME ~excused' PROVE BackupOk'
    BY DEF BackupInv
<1>1. ~excused
      BY DEF RemoteBackup!Next, RemoteBackup!vars, RemoteBackup!SaveConfig, RemoteBackup!SaveSchedule, RemoteBackup!StartBackup, RemoteBackup!Snapshot, RemoteBackup!RunBackup, RemoteBackup!Complete, RemoteBackup!Cleanup,
             RemoteBackup!RemoveExpired, RemoteBackup!SaveRemaining, RemoteBackup!ReadRecords, RemoteBackup!RemoveObject, RemoteBackup!Delete, RemoteBackup!Restart, RemoteBackup!Tick
<1>2. BackupOk
      BY <1>1 DEF BackupInv
<1>3. CASE UNCHANGED RemoteBackup!vars
  <2>1. UNCHANGED <<config, schedule, records, objects, running, job, delete, taken, now>>
        BY <1>3 DEF RemoteBackup!vars
  <2>2. BackupTyped' /\ RecordsInOrder'
        BY <1>2, <2>1, RecordsStay DEF BackupOk, BackupTyped
  <2> QED BY <1>2, <2>1, <2>2 DEF BackupOk, JobInOrder, DeletionInOrder, Stored, RemoteBackup!Completed
<1> QED BY <1>2, <1>3, SettingsKeep, StartKeeps, SnapshotKeeps, UploadKeeps, CompleteKeeps, CleanupKeeps,
           RemovalKeeps, SaveRemainingKeeps, ReadKeeps, RemoveObjectKeeps, DeleteKeeps, RestartKeeps DEF RemoteBackup!Next

LEMMA BackupInvAccounts == BackupInv => RemoteBackup!BackupsAreAccountedFor
<1> SUFFICES ASSUME BackupOk, delete = RemoteBackup!Idle, job.at \in {"idle", "snapshot", "put", "cleanup"}
             PROVE  /\ \A r \in RemoteBackup!Completed(records) : <<config, r.id>> \in objects
                    /\ \A o \in objects : \E r \in RemoteBackup!Completed(records) : r.id = o[2] /\ config = o[1]
                    /\ running <=> job # RemoteBackup!Idle
    BY DEF BackupInv, RemoteBackup!BackupsAreAccountedFor
<1>1. running <=> job # RemoteBackup!Idle
      BY DEF BackupOk, JobInOrder
<1>2. \A r \in RemoteBackup!Completed(records) : <<config, r.id>> \in objects
      BY DEF BackupOk, Stored, RemoteBackup!Idle
<1>3. \A o \in objects : \E r \in RemoteBackup!Completed(records) : r.id = o[2] /\ config = o[1]
      BY DEF BackupOk, Stored
<1> QED BY <1>1, <1>2, <1>3

\* Between the steps of backups, retention, deletions by hand and restarts that touch the
\* bucket, every completed record has its object and every object its record, and a backup
\* counts as running exactly while one is (RunBackup, CleanupExpired, DeleteRecord), unless one
\* of the things the program is seen to leave behind happened.
THEOREM BackupsAgree == Spec => []BackupsAreAccountedFor
<1> DEFINE Inv == scenario = "backup" => BackupInv
<1>1. Init => Inv
      BY BackupInit, PanelIsSane DEF Init
<1>2. Inv /\ [Next]_vars => Inv'
  <2> SUFFICES ASSUME Inv, [Next]_vars, scenario = "backup"
               PROVE  BackupInv'
      BY DEF Next, vars
  <2>1. [RemoteBackup!Next]_(RemoteBackup!vars)
        BY DEF Next, vars, RemoteBackup!vars, backupOnly
  <2> QED BY <2>1, BackupStep, PanelIsSane
<1>3. Inv => BackupsAreAccountedFor
      BY BackupInvAccounts, PanelIsSane DEF BackupsAreAccountedFor
<1> QED BY <1>1, <1>2, <1>3, PTL DEF Spec
-----------------------------------------------------------------------------
(* Point codes                                                               *)
AuditRow == [user : Users, code : Codes, amount : Nat, after : Nat]

CodesTyped ==
  /\ code \in [Codes -> CodeRow \cup {None}]
  /\ attempt \in [Users -> AttemptRow \cup {None}]
  /\ balance \in [Users -> Nat]
  /\ ledger \in Seq(AuditRow)
  /\ wrong \in [Users -> Seq(Nat)]
  /\ now \in Nat

\* Every row pays a code that exists, and the member the code names
CodesBooked ==
  /\ \A i, k \in DOMAIN ledger : ledger[i].code = ledger[k].code => i = k
  /\ \A i \in DOMAIN ledger : /\ code[ledger[i].code] # None
                              /\ code[ledger[i].code].by = ledger[i].user
  /\ \A c \in PointCodes!Printed : code[c].by # None => \E i \in DOMAIN ledger : ledger[i].code = c
  /\ \A u \in Users : PointCodes!LastRowSays(u)

\* What a typed ledger gives
LEMMA RowsAreTyped ==
  ASSUME CodesTyped
  PROVE  /\ Len(ledger) \in Nat /\ DOMAIN ledger = 1..Len(ledger)
         /\ \A i \in DOMAIN ledger :
              /\ ledger[i] \in AuditRow
              /\ ledger[i].code \in Codes /\ ledger[i].user \in Users
<1>1. ledger \in Seq(AuditRow)
      BY DEF CodesTyped
<1>2. Len(ledger) \in Nat /\ DOMAIN ledger = 1..Len(ledger)
      BY <1>1
<1>3. \A i \in 1..Len(ledger) : ledger[i] \in AuditRow
      BY <1>1
<1> QED BY <1>2, <1>3 DEF AuditRow

\* Guesses are recorded in the order they were made
InOrder(w, t) ==
  /\ \A i \in 1..Len(w) : w[i] <= t
  /\ \A i, k \in 1..Len(w) : i <= k => w[i] <= w[k]

\* The row of a member counts the guesses since the last lock, which ended before
\* the first of them; a lock under way began with the last guess
Counted(w, a) ==
  /\ a = None => w = <<>>
  /\ a # None /\ a.until = 0 =>
       /\ a.failures \in 1..(Limit - 1) /\ a.failures <= Len(w)
       /\ LET p == Len(w) - a.failures IN p > 0 => w[p + 1] >= w[p] + Lock
  /\ a # None /\ a.until > 0 => Len(w) > 0 /\ a.until = w[Len(w)] + Lock

\* The row Fail writes over a
CountOf(a) == IF a = None \/ a.until > 0 THEN 0 ELSE a.failures
Judged(a, t) == [failures |-> CountOf(a) + 1,
                 until |-> IF CountOf(a) + 1 >= Limit THEN t + Lock ELSE 0]

\* Limit + 1 guesses span a lock
Slow(w) == \A i \in 1..(Len(w) - Limit) : w[i + Limit] - w[i] >= Lock

Guarded(w, a, t) == InOrder(w, t) /\ Counted(w, a) /\ Slow(w)

CodesInv == CodesTyped /\ CodesBooked /\ \A u \in Users : Guarded(wrong[u], attempt[u], now)
------------------------------------------------------------------------------
\* Fail on one member's row: one more guess, counted from the end of the last lock,
\* and the lock set at the limit
LEMMA GuessIsCounted ==
  ASSUME CodesSane, NEW w \in Seq(Nat), NEW a \in AttemptRow \cup {None}, NEW t \in Nat,
         Guarded(w, a, t), a # None => a.until <= t
  PROVE  Judged(a, t) \in AttemptRow /\ Guarded(Append(w, t), Judged(a, t), t)
<1> DEFINE v == Append(w, t)
           n == Len(w)
           f == CountOf(a)
           b == Judged(a, t)
<1> USE DEF CodesSane, AttemptRow
<1>1. /\ n \in Nat /\ Len(v) = n + 1 /\ v[n + 1] = t
      /\ \A i \in 1..n : v[i] = w[i] /\ w[i] \in Nat
      OBVIOUS
<1>21. f = (IF a = None \/ a.until > 0 THEN 0 ELSE a.failures)
      BY DEF CountOf
<1>22. b = [failures |-> f + 1, until |-> IF f + 1 >= Limit THEN t + Lock ELSE 0]
      BY DEF Judged
<1> HIDE DEF f, b
<1>2. f \in Nat /\ f < Limit /\ b \in AttemptRow /\ b # None
      BY <1>21, <1>22 DEF Guarded, Counted
<1>3. /\ \A i \in 1..n : w[i] <= t
      /\ \A i, k \in 1..n : i <= k => w[i] <= w[k]
      BY DEF Guarded, InOrder
<1>4. f <= n /\ (n - f > 0 => v[n - f + 1] >= w[n - f] + Lock)
  <2>1. CASE a = None \/ a.until > 0
    <3>1. f = 0 /\ (n > 0 => t >= w[n] + Lock)
          BY <2>1, <1>21 DEF Guarded, Counted
    <3> HIDE DEF n, v
    <3>2. n - f = n
          BY <3>1, <1>1
    <3> QED BY <3>1, <3>2, <1>1
  <2>2. CASE a # None /\ a.until = 0
    <3>1. /\ f = a.failures /\ f \in 1..(Limit - 1) /\ f <= n
          /\ n - f > 0 => w[n - f + 1] >= w[n - f] + Lock
          BY <2>2, <1>21 DEF Guarded, Counted
    <3> HIDE DEF n, v
    <3>2. f >= 1 /\ f \in Nat /\ n \in Nat
          BY <1>1, <1>2, <3>1
    <3>3. n - f > 0 => n - f + 1 \in 1..n
          BY <3>2
    <3>4. n - f > 0 => v[n - f + 1] = w[n - f + 1]
          BY <1>1, <3>3
    <3> QED BY <3>1, <3>4
  <2>3. a = None \/ a.until > 0 \/ a.until = 0
        OBVIOUS
  <2> QED BY <2>1, <2>2, <2>3
<1> HIDE DEF v, n
<1>5. /\ \A i \in 1..(n + 1) : v[i] \in Nat /\ v[i] <= t
      /\ \A i, k \in 1..(n + 1) : i <= k => v[i] <= v[k]
  <2>1. ASSUME NEW i \in 1..(n + 1) PROVE v[i] \in Nat /\ v[i] <= t
    <3>1. i = n + 1 \/ i \in 1..n
          BY <1>1
    <3> QED BY <1>1, <1>3, <3>1
  <2>2. ASSUME NEW i \in 1..(n + 1), NEW k \in 1..(n + 1), i <= k PROVE v[i] <= v[k]
    <3>1. CASE k = n + 1
          BY <2>1, <3>1, <1>1
    <3>2. CASE k # n + 1
      <4>1. i \in 1..n /\ k \in 1..n
            BY <2>2, <3>2, <1>1
      <4> QED BY <4>1, <2>2, <1>1, <1>3
    <3> QED BY <3>1, <3>2
  <2> QED BY <2>1, <2>2
<1>6. Counted(v, b)
  <2>1. CASE f + 1 >= Limit
    <3>1. b.until = t + Lock /\ b.until > 0
          BY <2>1, <1>2, <1>22
    <3> QED BY <3>1, <1>1, <1>2 DEF Counted
  <2>2. CASE f + 1 < Limit
    <3>1. b.until = 0 /\ b.failures = f + 1
          BY <2>2, <1>2, <1>22
    <3>2. n - f > 0 => v[n - f] = w[n - f]
          BY <1>1, <1>2
    <3>3. Len(v) = n + 1 /\ n \in Nat /\ f \in Nat
          BY <1>1, <1>2
    <3>4. Len(v) - b.failures = n - f
          BY <3>1, <3>3
    <3>5. n - f > 0 => v[n - f + 1] >= v[n - f] + Lock
          BY <3>2, <1>4
    <3>6. b.failures \in 1..(Limit - 1) /\ b.failures <= Len(v)
          BY <3>1, <3>3, <2>2, <1>4
    <3> QED BY <3>1, <3>4, <3>5, <3>6, <1>2 DEF Counted
  <2> QED BY <2>1, <2>2, <1>2
<1>7. Slow(v)
  <2> SUFFICES ASSUME NEW i \in 1..(Len(v) - Limit) PROVE v[i + Limit] - v[i] >= Lock
      BY DEF Slow
  <2>1. CASE i + Limit <= n
    <3>1. i \in 1..(n - Limit) /\ i \in 1..n /\ i + Limit \in 1..n
          BY <2>1, <1>1
    <3>2. w[i + Limit] - w[i] >= Lock
          BY <3>1 DEF Guarded, Slow, n
    <3> QED BY <3>1, <3>2, <1>1
  <2>2. CASE i + Limit = n + 1
    <3>1. n - f \in 1..n /\ i \in 1..n /\ i <= n - f
          BY <2>2, <1>1, <1>2, <1>4
    <3>2. w[i] <= w[n - f]
          BY <3>1, <1>3
    <3>4. v[n - f + 1] \in Nat /\ v[n - f + 1] <= t /\ v[n - f + 1] >= w[n - f] + Lock
      <4>1. n - f + 1 \in 1..(n + 1) /\ n - f > 0
            BY <3>1, <1>1, <1>2
      <4>2. v[n - f + 1] \in Nat /\ v[n - f + 1] <= t
            BY <4>1, <1>5
      <4> QED BY <4>1, <4>2, <1>4
    <3>3. w[i] \in Nat /\ w[n - f] \in Nat /\ v[i] = w[i] /\ v[i + Limit] = t
          BY <2>2, <3>1, <1>1
    <3> DEFINE x == w[i]
               y == w[n - f]
               z == v[n - f + 1]
    <3>5. x <= y /\ z <= t /\ z >= y + Lock /\ x \in Nat /\ y \in Nat /\ z \in Nat
          BY <3>2, <3>3, <3>4
    <3> HIDE DEF x, y, z
    <3>6. t - x >= Lock
          BY <3>5
    <3> QED BY <3>3, <3>6 DEF x
  <2> QED BY <2>1, <2>2, <1>1
<1>8. b \in AttemptRow
      BY <1>2
<1>9. InOrder(v, t)
      BY <1>1, <1>5 DEF InOrder
<1> QED BY <1>6, <1>7, <1>8, <1>9 DEF Guarded, v, b

\* Time alone disturbs no row
LEMMA TimeKeepsGuard ==
  ASSUME NEW w \in Seq(Nat), NEW a, NEW t \in Nat, Guarded(w, a, t)
  PROVE  Guarded(w, a, t + 1)
  BY DEF Guarded, InOrder

\* A member who has not guessed since the last good code
LEMMA CleanIsGuarded ==
  ASSUME CodesSane, NEW t \in Nat PROVE Guarded(<<>>, None, t)
  BY DEF Guarded, InOrder, Counted, Slow, CodesSane

LEMMA CodesInit == ASSUME CodesSane PROVE PointCodes!Init => CodesInv
<1> SUFFICES ASSUME PointCodes!Init PROVE CodesInv
    OBVIOUS
<1>1. CodesTyped
      BY DEF PointCodes!Init, CodesTyped
<1>2. CodesBooked
      BY DEF PointCodes!Init, CodesBooked, PointCodes!LastRowSays, PointCodes!Printed
<1>3. \A u \in Users : Guarded(wrong[u], attempt[u], now)
      BY CleanIsGuarded DEF PointCodes!Init
<1> QED BY <1>1, <1>2, <1>3 DEF CodesInv
------------------------------------------------------------------------------
\* Batches: printing touches codes no row names, disabling only a mark
LEMMA BatchKeepsCodes ==
  ASSUME CodesSane, CodesInv, PointCodes!GeneratePointCodes \/ PointCodes!DisablePointCodes PROVE CodesInv'
<1>1. ASSUME PointCodes!GeneratePointCodes PROVE CodesInv'
  <2>1. PICK batch \in SUBSET (Codes \ PointCodes!Printed) \ {{}}, points \in Worth, days \in 1..2 :
          /\ code' = [c \in Codes |-> IF c \in batch
               THEN [points |-> points, expires |-> now + days, disabled |-> FALSE, by |-> None]
               ELSE code[c]]
          /\ UNCHANGED <<attempt, balance, banned, ledger, wrong, now>>
        BY <1>1 DEF PointCodes!GeneratePointCodes
  <2>2. \A c \in Codes \ batch : code'[c] = code[c]
        BY <2>1
  <2>3. \A c \in batch : code[c] = None /\ code'[c].by = None /\ code'[c] \in CodeRow
        BY <2>1 DEF PointCodes!Printed, CodesSane, CodeRow, CodesInv, CodesTyped
  <2>4. CodesTyped'
        BY <2>1, <2>3 DEF CodesInv, CodesTyped
  <2>5. CodesBooked'
    <3>1. \A i \in DOMAIN ledger : ledger[i].code \in Codes \ batch
          BY <2>3, RowsAreTyped DEF CodesInv, CodesBooked
    <3> QED BY <2>1, <2>2, <2>3, <3>1 DEF CodesInv, CodesBooked, PointCodes!LastRowSays, PointCodes!Printed
  <2> QED BY <2>1, <2>4, <2>5 DEF CodesInv
<1>2. ASSUME PointCodes!DisablePointCodes PROVE CodesInv'
  <2>1. PICK ids \in SUBSET PointCodes!Printed \ {{}} :
          /\ code' = [c \in Codes |-> IF c \in ids /\ code[c].by = None
                                 THEN [code[c] EXCEPT !.disabled = TRUE] ELSE code[c]]
          /\ UNCHANGED <<attempt, balance, banned, ledger, wrong, now>>
        BY <1>2 DEF PointCodes!DisablePointCodes
  <2>2. ASSUME NEW c \in Codes
        PROVE  /\ code'[c] \in CodeRow \cup {None}
               /\ code'[c] = None <=> code[c] = None
               /\ code[c] # None => code'[c].by = code[c].by
    <3>1. CASE c \in ids
          BY <2>1, <3>1 DEF CodesInv, CodesTyped, CodeRow, PointCodes!Printed, CodesSane
    <3>2. CASE c \notin ids
          BY <2>1, <3>2 DEF CodesInv, CodesTyped
    <3> QED BY <3>1, <3>2
  <2>3. CodesTyped'
        BY <2>1, <2>2 DEF CodesInv, CodesTyped
  <2>4. CodesBooked'
    <3>1. \A i \in DOMAIN ledger : ledger[i].code \in Codes
          BY RowsAreTyped DEF CodesInv
    <3> QED BY <2>1, <2>2, <3>1 DEF CodesInv, CodesBooked, PointCodes!LastRowSays, PointCodes!Printed
  <2> QED BY <2>1, <2>3, <2>4 DEF CodesInv
<1> QED BY <1>1, <1>2

\* A wrong guess touches the row of its member and the book not at all
LEMMA FailKeepsCodes ==
  ASSUME CodesSane, CodesInv, NEW u \in Users, PointCodes!Admitted(u), PointCodes!Fail(u),
         UNCHANGED <<code, balance, ledger, now>>
  PROVE  CodesInv'
<1> DEFINE b == Judged(attempt[u], now)
<1>1. /\ attempt' = [attempt EXCEPT ![u] = b]
      /\ wrong' = [wrong EXCEPT ![u] = Append(wrong[u], now)]
      BY DEF PointCodes!Fail, PointCodes!Failures, Judged, CountOf
<1>2. b \in AttemptRow /\ Guarded(Append(wrong[u], now), b, now)
  <2>1. /\ wrong[u] \in Seq(Nat) /\ attempt[u] \in AttemptRow \cup {None} /\ now \in Nat
        /\ Guarded(wrong[u], attempt[u], now)
        /\ attempt[u] # None => attempt[u].until <= now
        BY DEF CodesInv, CodesTyped, PointCodes!Admitted
  <2> QED BY <2>1, GuessIsCounted
<1> HIDE DEF b
<1>3. CodesTyped'
      BY <1>1, <1>2 DEF CodesInv, CodesTyped
<1>4. CodesBooked'
      BY DEF CodesInv, CodesBooked, PointCodes!LastRowSays, PointCodes!Printed
<1>5. \A m \in Users : Guarded(wrong'[m], attempt'[m], now')
      BY <1>1, <1>2 DEF CodesInv, CodesTyped
<1> QED BY <1>3, <1>4, <1>5 DEF CodesInv

\* A good code: one row more, of a code no row names yet
LEMMA PayKeepsCodes ==
  ASSUME CodesSane, CodesInv, NEW u \in Users, NEW c \in Codes,
         PointCodes!RedeemPointCode(u, c), PointCodes!Payable(c)
  PROVE  CodesInv'
<1> DEFINE new == [user |-> u, code |-> c, amount |-> code[c].points,
                   after |-> balance[u] + code[c].points]
<1>1. /\ balance' = [balance EXCEPT ![u] = balance[u] + code[c].points]
      /\ code' = [code EXCEPT ![c].by = u]
      /\ attempt' = [attempt EXCEPT ![u] = None]
      /\ wrong' = [wrong EXCEPT ![u] = <<>>]
      /\ UNCHANGED now
      BY DEF PointCodes!RedeemPointCode
<1>2. code[c] \in CodeRow /\ code[c].by = None /\ code[c] # None
      BY DEF PointCodes!Payable, PointCodes!Printed, CodesInv, CodesTyped
<1>3. balance'[u] = balance[u] + code[c].points /\ new \in AuditRow /\ balance[u] \in Nat
      BY <1>1, <1>2 DEF CodesInv, CodesTyped, CodeRow, AuditRow
<1>4. ledger' = Append(ledger, new)
      BY <1>3 DEF PointCodes!RedeemPointCode
<1>5. /\ Len(ledger) \in Nat /\ DOMAIN ledger = 1..Len(ledger)
      /\ DOMAIN ledger' = 1..(Len(ledger) + 1)
      /\ \A i \in 1..Len(ledger) : ledger'[i] = ledger[i] /\ ledger[i] \in AuditRow
      /\ ledger'[Len(ledger) + 1] = new
      BY <1>3, <1>4 DEF CodesInv, CodesTyped
<1>6. code'[c] \in CodeRow /\ code'[c].by = u /\ \A d \in Codes \ {c} : code'[d] = code[d]
      BY <1>1, <1>2 DEF CodesInv, CodesTyped, CodeRow
<1>7. \A i \in 1..Len(ledger) : ledger[i].code \in Codes \ {c}
      BY <1>2, <1>5 DEF CodesInv, CodesBooked, AuditRow, CodesSane
<1>8. new.user = u /\ new.code = c /\ new.after = balance'[u]
      BY <1>3
<1> HIDE DEF new
<1>9. CodesTyped'
  <2>1. code' \in [Codes -> CodeRow \cup {None}]
        BY <1>1, <1>6 DEF CodesInv, CodesTyped
  <2>2. attempt' \in [Users -> AttemptRow \cup {None}] /\ wrong' \in [Users -> Seq(Nat)]
        BY <1>1 DEF CodesInv, CodesTyped
  <2>3. balance' \in [Users -> Nat] /\ ledger' \in Seq(AuditRow) /\ now' \in Nat
        BY <1>1, <1>2, <1>3, <1>4 DEF CodesInv, CodesTyped, CodeRow
  <2> QED BY <2>1, <2>2, <2>3 DEF CodesTyped
<1>10. CodesBooked'
  <2>1. \A i, k \in DOMAIN ledger' : ledger'[i].code = ledger'[k].code => i = k
        BY <1>5, <1>7, <1>8 DEF CodesInv, CodesBooked
  <2>2. \A i \in DOMAIN ledger' : /\ code'[ledger'[i].code] # None
                                  /\ code'[ledger'[i].code].by = ledger'[i].user
        BY <1>5, <1>6, <1>7, <1>8 DEF CodesInv, CodesBooked, CodesSane
  <2>3. \A d \in Codes : code'[d] # None /\ code'[d].by # None
                            => \E i \in DOMAIN ledger' : ledger'[i].code = d
        BY <1>5, <1>6, <1>8 DEF CodesInv, CodesBooked, PointCodes!Printed
  <2>4. ASSUME NEW m \in Users PROVE PointCodes!LastRowSays(m)'
    <3>1. CASE m = u
      <4>1. Len(ledger) + 1 \in {i \in DOMAIN ledger' : ledger'[i].user = m}
            BY <3>1, <1>5, <1>8
      <4> QED BY <3>1, <4>1, <1>5, <1>8 DEF PointCodes!LastRowSays
    <3>2. CASE m # u
      <4>1. {i \in DOMAIN ledger' : ledger'[i].user = m} = {i \in DOMAIN ledger : ledger[i].user = m}
            BY <3>2, <1>5, <1>8
      <4>2. balance'[m] = balance[m]
            BY <3>2, <1>1 DEF CodesInv, CodesTyped
      <4> QED BY <4>1, <4>2, <1>5 DEF PointCodes!LastRowSays, CodesInv, CodesBooked
    <3> QED BY <3>1, <3>2
  <2> QED BY <2>1, <2>2, <2>3, <2>4 DEF CodesBooked, PointCodes!Printed
<1>11. \A m \in Users : Guarded(wrong'[m], attempt'[m], now')
       BY <1>1, CleanIsGuarded DEF CodesInv, CodesTyped
<1> QED BY <1>9, <1>10, <1>11 DEF CodesInv

LEMMA CodesStep == ASSUME CodesSane, CodesInv, [PointCodes!Next]_(PointCodes!vars) PROVE CodesInv'
<1>1. CASE PointCodes!GeneratePointCodes \/ PointCodes!DisablePointCodes
      BY <1>1, BatchKeepsCodes
<1>2. CASE PointCodes!SetStatus
  <2>1. UNCHANGED <<code, attempt, balance, ledger, wrong, now>>
        BY <1>2 DEF PointCodes!SetStatus
  <2> QED BY <2>1 DEF CodesInv, CodesTyped, CodesBooked, PointCodes!LastRowSays, PointCodes!Printed
<1>3. CASE PointCodes!Tick
  <2>1. /\ now' = now + 1
        /\ UNCHANGED <<code, attempt, balance, banned, ledger, wrong>>
        BY <1>3 DEF PointCodes!Tick
  <2>2. CodesTyped' /\ CodesBooked'
        BY <2>1 DEF CodesInv, CodesTyped, CodesBooked, PointCodes!LastRowSays, PointCodes!Printed
  <2>3. \A u \in Users : Guarded(wrong[u], attempt[u], now + 1)
        BY TimeKeepsGuard DEF CodesInv, CodesTyped
  <2> QED BY <2>1, <2>2, <2>3 DEF CodesInv
<1>4. ASSUME NEW u \in Users, PointCodes!GuessWrong(u) PROVE CodesInv'
      BY <1>4, FailKeepsCodes DEF PointCodes!GuessWrong
<1>5. ASSUME NEW u \in Users, NEW c \in Codes, PointCodes!RedeemPointCode(u, c) PROVE CodesInv'
  <2>1. CASE PointCodes!Payable(c)
        BY <1>5, <2>1, PayKeepsCodes
  <2>2. CASE ~PointCodes!Payable(c)
        BY <1>5, <2>2, FailKeepsCodes DEF PointCodes!RedeemPointCode
  <2> QED BY <2>1, <2>2
<1>6. CASE UNCHANGED PointCodes!vars
      BY <1>6 DEF PointCodes!vars, CodesInv, CodesTyped, CodesBooked, PointCodes!LastRowSays, PointCodes!Printed
<1> QED BY <1>1, <1>2, <1>3, <1>4, <1>5, <1>6 DEF PointCodes!Next

LEMMA CodesInvPays == CodesInv => PointCodes!CodesPayOnce
      BY DEF CodesInv, CodesBooked, Guarded, Slow, PointCodes!CodesPayOnce

\* A code pays once, the balance and the audit rows agree, and Limit + 1 wrong guesses
\* span a whole lock, for RedeemPointCode under any order of bans, batches and guesses.
THEOREM CodesAreSafe == Spec => []CodesPayOnce
<1> DEFINE Inv == scenario = "codes" => CodesInv
<1>1. Init => Inv
      BY CodesInit, PanelIsSane DEF Init
<1>2. Inv /\ [Next]_vars => Inv'
  <2> SUFFICES ASSUME Inv, [Next]_vars, scenario = "codes"
               PROVE  CodesInv'
      BY DEF Next, vars
  <2>1. [PointCodes!Next]_(PointCodes!vars)
        BY DEF Next, vars, PointCodes!vars, codesOnly
  <2> QED BY <2>1, CodesStep, PanelIsSane
<1>3. Inv => CodesPayOnce
      BY CodesInvPays, PanelIsSane DEF CodesPayOnce
<1> QED BY <1>1, <1>2, <1>3, PTL DEF Spec
-----------------------------------------------------------------------------
(* Credentials                                                               *)
Passwords == {None} \cup [secret : Nat] \cup [own : Names]
MemberRow == [status : {"active", "banned", "gone"}, secret : Nat, reset : Int, password : Nat,
              renewed : BOOLEAN, name : [Credentials!Places -> Names \cup {None}],
              pass : [Credentials!Rows \cup Credentials!Places -> Passwords]]
SessionRow == [user : Users, device : Devices, jti : Nat, password : Nat, late : BOOLEAN]
TokenRow == [user : Users, revoked : BOOLEAN, held : BOOLEAN]
NameJob == [at : {"name"}, user : Users, place : Credentials!Places, name : Names]
LoginJob == [at : {"login"}, user : Users, device : Devices, jti : Nat, late : BOOLEAN, password : Nat]
ChangeJob == [at : {"change", "others"}, user : Users, jti : Nat]
EditJob == [at : {"password", "kick", "update", "expel"}, user : Users, status : {"active", "banned"}]
Request == {Credentials!Idle} \cup [at : {"reset"}, user : Users, cutoff : Int] \cup NameJob \cup LoginJob
           \cup ChangeJob \cup [at : {"token"}, user : Users] \cup EditJob

CredsTyped ==
  /\ user \in [Users -> MemberRow] /\ job \in [Jobs -> Request]
  /\ session \subseteq SessionRow /\ apiToken \subseteq TokenRow
  /\ now \in Nat /\ ops \in Nat

\* The secret of a member is newer than its aliases and than what was revoked
SecretsMove ==
  /\ alias \subseteq [user : Users, secret : Nat, until : {Grace}]
  /\ dead \subseteq [user : Users, secret : Nat]
  /\ \A a \in alias : a.secret < user[a.user].secret
  /\ \A d \in dead : d.secret < user[d.user].secret
  /\ \A d \in dead, a \in alias : d.user = a.user => d.secret # a.secret
  /\ \A j \in Jobs : job[j].at = "reset" => job[j].cutoff <= now - Cooldown
  /\ ~hasty

\* Each member is told a login per bucket, and it works
LoginsHold == kept = [u \in Users |-> kept[u]] /\ Credentials!LoginsAreKept

\* A request that found a name free is the only one that can have taken it
NamesFree ==
  \A j \in Jobs : job[j].at = "name" /\ job[j].name \notin raced =>
    /\ \A v \in Users, p \in Credentials!Places : user[v].name[p] = job[j].name => <<v, p>> = <<job[j].user, job[j].place>>
    /\ \A i \in Jobs \ {j} : job[i].at = "name" => job[i].name # job[j].name

\* The request in i is about to end session s
Ends(i, s) ==
  /\ job[i].user = s.user
  /\ job[i].at \in {"kick", "expel"} \/ (job[i].at = "others" /\ job[i].jti # s.jti)

Fresh(s) == s.password = user[s.user].password /\ user[s.user].status = "active"

SessionsFair ==
  /\ \A s \in session : s.late \/ Fresh(s) \/ \E i \in Jobs : Ends(i, s)
  /\ \A i \in Jobs : job[i].at = "login" /\ ~job[i].late /\ Credentials!Live(job[i].user) => Fresh(job[i])

HeldAreRevoked == \A t \in apiToken : t.held => t.revoked

CredsInv == /\ CredsTyped /\ SecretsMove /\ LoginsHold /\ Credentials!NamesMeterOne /\ NamesFree
            /\ SessionsFair /\ HeldAreRevoked

LEMMA CredsInit == ASSUME CredsSane, Credentials!Init PROVE CredsInv
<1>1. Credentials!NewRow \in MemberRow
      BY DEF CredsSane, Credentials!NewRow, MemberRow, Passwords
<1>2. user \in [Users -> MemberRow] /\ job \in [Jobs -> Request] /\ \A i \in Jobs : job[i].at = "idle"
      BY <1>1 DEF Credentials!Init, Request, Credentials!Idle
<1>3. (CHOOSE d \in Devices : TRUE) \in Devices
      BY DEF CredsSane
<1>4. CredsTyped
  <2>1. session \subseteq SessionRow
    <3> DEFINE d == CHOOSE d \in Devices : TRUE
    <3>1. session = [user : Users, device : {d}, jti : {0}, password : {0}, late : {FALSE}]
          BY DEF Credentials!Init
    <3>2. d \in Devices
          BY <1>3
    <3> HIDE DEF d
    <3>3. \A D, F : D \subseteq Devices /\ F \subseteq BOOLEAN =>
            [user : Users, device : D, jti : {0}, password : {0}, late : F] \subseteq SessionRow
          BY DEF SessionRow
    <3>4. {d} \subseteq Devices /\ {FALSE} \subseteq BOOLEAN
          BY <3>2
    <3> QED BY <3>1, <3>3, <3>4
  <2> QED BY <1>2, <2>1 DEF Credentials!Init, CredsTyped
<1>5. SecretsMove
      BY <1>2 DEF Credentials!Init, SecretsMove, Credentials!NewRow
<1>6. LoginsHold
  <2>1. ASSUME NEW u \in Users, NEW r \in Credentials!Bought(user[u]) PROVE Credentials!Login(user[u], r) = kept[u][r]
        BY DEF Credentials!Init, Credentials!Logins
  <2>2. kept = [u \in Users |-> kept[u]]
        BY DEF Credentials!Init
  <2> QED BY <2>1, <2>2 DEF LoginsHold, Credentials!LoginsAreKept
<1>7. Credentials!NamesMeterOne /\ NamesFree
      BY <1>2 DEF Credentials!Init, Credentials!NamesMeterOne, NamesFree, Credentials!NewRow, CredsSane
<1>8. SessionsFair
      BY <1>2 DEF Credentials!Init, SessionsFair, Fresh, Credentials!NewRow
<1>9. HeldAreRevoked
      BY DEF Credentials!Init, HeldAreRevoked
<1> QED BY <1>4, <1>5, <1>6, <1>7, <1>8, <1>9 DEF CredsInv

-----------------------------------------------------------------------------
(* What the steps write                                                      *)

\* A reset moves the secret and no proxy login
LEMMA PinnedKeeps ==
  ASSUME CredsSane, now \in Nat, NEW x \in MemberRow
  PROVE  /\ Credentials!Pinned(x) \in MemberRow /\ Credentials!Bought(Credentials!Pinned(x)) = Credentials!Bought(x)
         /\ Credentials!Pinned(x).secret = x.secret + 1 /\ Credentials!Pinned(x).reset = now
         /\ Credentials!Pinned(x).name = x.name /\ Credentials!Pinned(x).password = x.password /\ Credentials!Pinned(x).status = x.status
         /\ \A r \in Credentials!Bought(x) : Credentials!Login(Credentials!Pinned(x), r) = Credentials!Login(x, r)
<1> DEFINE y == Credentials!Pinned(x)
            pins == [r \in DOMAIN x.pass |-> IF x.pass[r] = None /\ r \in Credentials!Bought(x) \cup {"line"}
                                              THEN [secret |-> x.secret] ELSE x.pass[r]]
<1>1. x.secret \in Nat /\ x.pass \in [Credentials!Rows \cup Credentials!Places -> Passwords] /\ DOMAIN x.pass = Credentials!Rows \cup Credentials!Places
      BY DEF MemberRow
<1>3. pins \in [Credentials!Rows \cup Credentials!Places -> Passwords]
      BY <1>1 DEF Passwords
<1>2. y = [x EXCEPT !.secret = x.secret + 1, !.reset = now, !.pass = pins]
      BY DEF Credentials!Pinned
<1> HIDE DEF y, pins
<1>a. y \in MemberRow
  <2>1. x.secret + 1 \in Nat /\ now \in Int /\ pins \in [Credentials!Rows \cup Credentials!Places -> Passwords]
        BY <1>1, <1>3
  <2>2. \A s \in Nat, r \in Int, p \in [Credentials!Rows \cup Credentials!Places -> Passwords] :
          [x EXCEPT !.secret = s, !.reset = r, !.pass = p] \in MemberRow
        BY DEF MemberRow
  <2> QED BY <1>2, <2>1, <2>2
<1>b. /\ y.name = x.name /\ y.renewed = x.renewed /\ y.password = x.password /\ y.status = x.status
      BY <1>2 DEF MemberRow
<1>4. /\ y \in MemberRow /\ y.pass = pins /\ y.name = x.name /\ y.renewed = x.renewed
      /\ y.secret = x.secret + 1 /\ y.reset = now /\ y.password = x.password /\ y.status = x.status
      BY <1>a, <1>b, <1>2 DEF MemberRow
<1>5. Credentials!Bought(y) = Credentials!Bought(x)
      BY <1>4 DEF Credentials!Bought
<1>6. ASSUME NEW r \in Credentials!Bought(x) PROVE Credentials!Login(y, r) = Credentials!Login(x, r)
  <2> USE DEF pins
  <2>1. Credentials!Bought(x) \subseteq Credentials!Rows /\ r \in Credentials!Rows
        BY DEF Credentials!Bought
  <2>2. [secret |-> x.secret] # None
        BY <1>1 DEF CredsSane
  <2>3. pins[r] = (IF x.pass[r] = None THEN [secret |-> x.secret] ELSE x.pass[r])
        BY <1>1, <2>1
  <2>4. pins["line"] = (IF x.pass["line"] = None THEN [secret |-> x.secret] ELSE x.pass["line"])
        BY <1>1 DEF Credentials!Places
  <2>5. pins[r] # None /\ pins["line"] # None
        BY <2>2, <2>3, <2>4
  <2> QED BY <1>4, <2>3, <2>4, <2>5 DEF Credentials!Login
<1> QED BY <1>4, <1>5, <1>6 DEF y

\* A request moves on
LEMMA RequestsMove ==
  ASSUME CredsTyped, NEW j \in Jobs, NEW next \in Request, NEW u, Credentials!Go(j, next) \/ Credentials!GoLate(j, next, u)
  PROVE  /\ job' \in [Jobs -> Request] /\ job'[j] = next
         /\ \A i \in Jobs \ {j} : job'[i] = job[i] \/ (job[i].at = "login" /\ job'[i] = [job[i] EXCEPT !.late = TRUE])
<1>1. CASE Credentials!Go(j, next)
      BY <1>1 DEF Credentials!Go, CredsTyped
<1>2. CASE Credentials!GoLate(j, next, u)
  <2>1. ASSUME NEW i \in Jobs, job[i].at = "login" PROVE [job[i] EXCEPT !.late = TRUE] \in Request
    <3>1. job[i] \in LoginJob
          BY <2>1 DEF CredsTyped, Request, Credentials!Idle, NameJob, LoginJob, ChangeJob, EditJob
    <3>2. [job[i] EXCEPT !.late = TRUE] \in LoginJob
          BY <3>1 DEF LoginJob
    <3> QED BY <3>2 DEF Request
  <2> QED BY <1>2, <2>1 DEF Credentials!GoLate, CredsTyped
<1> QED BY <1>1, <1>2

\* The request at each step is of its shape
LEMMA Requests ==
  ASSUME CredsTyped, NEW j \in Jobs
  PROVE  /\ job[j].at = "reset" => job[j].user \in Users /\ job[j].cutoff \in Int
         /\ job[j].at = "name" => job[j] \in NameJob
         /\ job[j].at = "login" => job[j] \in LoginJob
         /\ job[j].at \in {"change", "others"} => job[j] \in ChangeJob
         /\ job[j].at = "token" => job[j].user \in Users
         /\ job[j].at \in {"password", "kick", "update", "expel"} => job[j] \in EditJob
         /\ job[j] # Credentials!Idle => job[j].user \in Users
BY DEF CredsTyped, Request, Credentials!Idle, NameJob, LoginJob, ChangeJob, EditJob

\* A reset writes one row
LEMMA ResetWrites ==
  ASSUME CredsSane, CredsTyped, NEW u \in Users, Credentials!RotateNodeCredentials(u)
  PROVE  /\ user' \in [Users -> MemberRow] /\ user' = [user EXCEPT ![u] = Credentials!Pinned(user[u])]
         /\ user'[u].status = user[u].status /\ user'[u].password = user[u].password
         /\ user'[u].name = user[u].name /\ user'[u].secret = user[u].secret + 1
<1>1. user' = [user EXCEPT ![u] = Credentials!Pinned(user[u])] /\ user[u] \in MemberRow
      BY DEF Credentials!RotateNodeCredentials, CredsTyped
<1>2. Credentials!Pinned(user[u]) \in MemberRow
      BY <1>1, PinnedKeeps DEF CredsTyped
<1> QED BY <1>1, <1>2, PinnedKeeps DEF CredsTyped

\* A name is written into one place, or not at all
LEMMA NameWrites ==
  ASSUME CredsSane, CredsTyped, NEW j \in Jobs, Credentials!WriteName(j), ~UNCHANGED <<user, kept>>,
         NEW u, NEW n, NEW place, u = job[j].user, n = job[j].name, place = job[j].place
  PROVE  /\ u \in Users /\ place \in Credentials!Places /\ n \in Names
         /\ user' \in [Users -> MemberRow] /\ \A v \in Users \ {u} : user'[v] = user[v]
         /\ user'[u].status = user[u].status /\ user'[u].password = user[u].password
         /\ user'[u].secret = user[u].secret /\ user'[u].reset = user[u].reset
         /\ user'[u].name = [user[u].name EXCEPT ![place] = n]
         /\ kept' = [kept EXCEPT ![u] = Credentials!Logins(user'[u])]
<1> DEFINE name == [user[u].name EXCEPT ![place] = n]
           pass == [user[u].pass EXCEPT ![place] = [own |-> n]]
           x == [user[u] EXCEPT !.name = name, !.pass = pass]
<1>1. u \in Users /\ n \in Names /\ place \in Credentials!Places /\ user[u] \in MemberRow
      BY Requests DEF Credentials!WriteName, NameJob, CredsTyped
<1>2. user' = [user EXCEPT ![u].name[place] = n, ![u].pass[place] = [own |-> n]]
      /\ kept' = [kept EXCEPT ![u] = Credentials!Logins(user'[u])]
      BY DEF Credentials!WriteName
<1>3. name \in [Credentials!Places -> Names \cup {None}] /\ pass \in [Credentials!Rows \cup Credentials!Places -> Passwords]
      BY <1>1 DEF MemberRow, Passwords
<1>4. user' = [user EXCEPT ![u] = x]
      BY <1>1, <1>2 DEF CredsTyped, MemberRow
<1> HIDE DEF name, pass
<1>5. /\ x \in MemberRow /\ x.name = name /\ x.status = user[u].status
      /\ x.password = user[u].password /\ x.secret = user[u].secret /\ x.reset = user[u].reset
      BY <1>1, <1>3 DEF MemberRow
<1> HIDE DEF x
<1>6. user' \in [Users -> MemberRow] /\ user'[u] = x /\ \A v \in Users \ {u} : user'[v] = user[v]
      BY <1>1, <1>4, <1>5 DEF CredsTyped
<1> QED BY <1>1, <1>2, <1>5, <1>6 DEF name

\* The other writes of a row move no secret and no login
Elsewhere(x, y) ==
  /\ y \in MemberRow /\ y.secret = x.secret /\ y.reset = x.reset
  /\ y.name = x.name /\ y.pass = x.pass

LEMMA EditWrites ==
  ASSUME CredsSane, CredsTyped, NEW j \in Jobs, Credentials!ChangePassword(j) \/ Credentials!UpdatePassword(j) \/ Credentials!AdminUpdateUser(j)
  PROVE  /\ user' \in [Users -> MemberRow] /\ job[j].user \in Users
         /\ \A v \in Users : Elsewhere(user[v], user'[v]) /\ user'[v].renewed = user[v].renewed
         /\ \A v \in Users : v # job[j].user => user'[v] = user[v]
         /\ Credentials!ChangePassword(j) \/ Credentials!UpdatePassword(j) => user'[job[j].user].status = user[job[j].user].status
         /\ Credentials!AdminUpdateUser(j) =>
              /\ user'[job[j].user].password = user[job[j].user].password
              /\ user'[job[j].user].status = IF Credentials!Live(job[j].user) THEN job[j].status ELSE "gone"
<1> DEFINE u == job[j].user
<1>1. u \in Users /\ user[u] \in MemberRow /\ (job[j].at = "update" => job[j].status \in {"active", "banned"})
      BY Requests DEF Credentials!ChangePassword, Credentials!UpdatePassword, Credentials!AdminUpdateUser, EditJob, ChangeJob, CredsTyped
<1>2. CASE Credentials!ChangePassword(j) \/ Credentials!UpdatePassword(j)
  <2> DEFINE x == [user[u] EXCEPT !.password = user[u].password + 1]
  <2>1. UNCHANGED user \/ user' = [user EXCEPT ![u] = x]
        BY <1>2 DEF Credentials!ChangePassword, Credentials!UpdatePassword
  <2>2. x \in MemberRow /\ Elsewhere(user[u], x) /\ x.renewed = user[u].renewed /\ x.status = user[u].status
        BY <1>1 DEF MemberRow, Elsewhere
  <2>3. \A v \in Users : Elsewhere(user[v], user[v])
        BY DEF Elsewhere, CredsTyped
  <2>4. ~Credentials!AdminUpdateUser(j)
        BY <1>2 DEF Credentials!ChangePassword, Credentials!UpdatePassword, Credentials!AdminUpdateUser
  <2> HIDE DEF x, u
  <2>5. /\ user' \in [Users -> MemberRow] /\ \A v \in Users : v # u => user'[v] = user[v]
        /\ user'[u] \in {x, user[u]}
        BY <1>1, <2>1, <2>2 DEF CredsTyped
  <2>6. \A v \in Users : Elsewhere(user[v], user'[v]) /\ user'[v].renewed = user[v].renewed
        BY <1>1, <2>2, <2>3, <2>5
  <2> QED BY <1>1, <2>2, <2>4, <2>5, <2>6 DEF u
<1>3. CASE Credentials!AdminUpdateUser(j)
  <2> DEFINE x == [user[u] EXCEPT !.status = job[j].status]
  <2>1. user' = IF Credentials!Live(u) THEN [user EXCEPT ![u] = x] ELSE user
        BY <1>3 DEF Credentials!AdminUpdateUser
  <2>2. x \in MemberRow /\ Elsewhere(user[u], x) /\ x.renewed = user[u].renewed
        /\ x.status = job[j].status /\ x.password = user[u].password
        BY <1>1, <1>3 DEF MemberRow, Elsewhere, Credentials!AdminUpdateUser
  <2>3. \A v \in Users : Elsewhere(user[v], user[v])
        BY DEF Elsewhere, CredsTyped
  <2>4. ~Credentials!ChangePassword(j) /\ ~Credentials!UpdatePassword(j)
        BY <1>3 DEF Credentials!ChangePassword, Credentials!UpdatePassword, Credentials!AdminUpdateUser
  <2> HIDE DEF x, u
  <2>5. /\ user' \in [Users -> MemberRow] /\ \A v \in Users : v # u => user'[v] = user[v]
        /\ user'[u] = IF Credentials!Live(u) THEN x ELSE user[u]
        BY <1>1, <2>1, <2>2 DEF CredsTyped
  <2>6. \A v \in Users : Elsewhere(user[v], user'[v]) /\ user'[v].renewed = user[v].renewed
        BY <1>1, <2>2, <2>3, <2>5
  <2>7. user'[u].password = user[u].password /\ user'[u].status = IF Credentials!Live(u) THEN job[j].status ELSE "gone"
        BY <1>1, <2>2, <2>5 DEF Credentials!Live
  <2> QED BY <1>1, <2>4, <2>5, <2>6, <2>7 DEF u
<1> QED BY <1>2, <1>3

\* A renewal, and what goes with a member
LEMMA RenewalWrites ==
  ASSUME CredsSane, CredsTyped, Credentials!BuyRenewal
  PROVE  /\ user' \in [Users -> MemberRow]
         /\ \A v \in Users : Elsewhere(user[v], user'[v]) /\ user'[v].status = user[v].status
                                /\ user'[v].password = user[v].password
<1>1. PICK u \in Users : user' = [user EXCEPT ![u] = [user[u] EXCEPT !.renewed = TRUE]]
      BY DEF Credentials!BuyRenewal
<1> DEFINE x == [user[u] EXCEPT !.renewed = TRUE]
<1>2. \A v \in Users : user[v] \in MemberRow
      BY DEF CredsTyped
<1>3. x \in MemberRow /\ Elsewhere(user[u], x) /\ x.status = user[u].status /\ x.password = user[u].password
      BY <1>2 DEF MemberRow, Elsewhere
<1>4. \A v \in Users : Elsewhere(user[v], user[v])
      BY <1>2 DEF Elsewhere
<1> HIDE DEF x
<1> QED BY <1>1, <1>3, <1>4 DEF CredsTyped, x

LEMMA DeletionWrites ==
  ASSUME CredsSane, CredsTyped, Credentials!DeleteUser
  PROVE  \E u \in Users :
           /\ user' \in [Users -> MemberRow] /\ \A v \in Users \ {u} : user'[v] = user[v]
           /\ user'[u].secret = user[u].secret /\ user'[u].status = "gone"
           /\ user'[u].name = [p \in Credentials!Places |-> None]
           /\ alias' = {a \in alias : a.user # u} /\ apiToken' = {t \in apiToken : t.user # u}
           /\ session' = {s \in session : s.user # u} /\ kept' = [kept EXCEPT ![u] = Credentials!Logins(user'[u])]
<1>1. PICK u \in Users :
           /\ user' = [user EXCEPT ![u].status = "gone", ![u].name = [p \in Credentials!Places |-> None]]
           /\ alias' = {a \in alias : a.user # u} /\ apiToken' = {t \in apiToken : t.user # u}
           /\ session' = {s \in session : s.user # u} /\ kept' = [kept EXCEPT ![u] = Credentials!Logins(user'[u])]
      BY DEF Credentials!DeleteUser
<1> DEFINE none == [p \in Credentials!Places |-> None]
           x == [user[u] EXCEPT !.status = "gone", !.name = none]
<1>2. user' = [user EXCEPT ![u] = x]
      BY <1>1 DEF CredsTyped, MemberRow
<1>3. none \in [Credentials!Places -> Names \cup {None}]
      OBVIOUS
<1> HIDE DEF none
<1>4. x \in MemberRow /\ x.secret = user[u].secret /\ x.status = "gone" /\ x.name = none
      BY <1>3 DEF MemberRow, CredsTyped
<1> HIDE DEF x
<1>5. user' \in [Users -> MemberRow] /\ user'[u] = x /\ \A v \in Users \ {u} : user'[v] = user[v]
      BY <1>2, <1>4 DEF CredsTyped
<1> QED BY <1>1, <1>4, <1>5 DEF none

LEMMA RequestsTyped ==
  ASSUME CredsSane, CredsTyped, [Credentials!Next]_(Credentials!vars)
  PROVE  /\ job' \in [Jobs -> Request] /\ session' \subseteq SessionRow /\ apiToken' \subseteq TokenRow
         /\ now' \in Nat /\ ops' \in Nat
<1>t. now \in Nat /\ ops \in Nat /\ user \in [Users -> MemberRow] /\ session \subseteq SessionRow
      BY DEF CredsTyped
<1>1. now' \in Nat /\ ops' \in Nat
  <2>1. UNCHANGED ops \/ Credentials!Spend
        BY DEF Credentials!Next, Credentials!vars, Credentials!Tick, Credentials!SetResetSwitch, Credentials!HandleResetNodeCreds, Credentials!ResetOwn,
         Credentials!HandleAdminResetNodeCreds, Credentials!BuyRenewal, Credentials!CheckName, Credentials!WriteName, Credentials!HandleLogin, Credentials!CreateSession,
         Credentials!HandleChangePassword, Credentials!ChangePassword, Credentials!DeleteUserSessionsExcept, Credentials!RevokeSession,
         Credentials!HandleAdminCreateAPIToken, Credentials!CreateAPIToken, Credentials!RevokeAPIToken, Credentials!HandleAdminUpdateUser,
         Credentials!UpdatePassword, Credentials!DeleteUserSessions, Credentials!AdminUpdateUser, Credentials!DeleteUser
  <2>2. UNCHANGED now \/ Credentials!Tick
        BY DEF Credentials!Next, Credentials!vars, Credentials!SetResetSwitch, Credentials!HandleResetNodeCreds, Credentials!ResetOwn,
         Credentials!HandleAdminResetNodeCreds, Credentials!BuyRenewal, Credentials!CheckName, Credentials!WriteName, Credentials!HandleLogin, Credentials!CreateSession,
         Credentials!HandleChangePassword, Credentials!ChangePassword, Credentials!DeleteUserSessionsExcept, Credentials!RevokeSession,
         Credentials!HandleAdminCreateAPIToken, Credentials!CreateAPIToken, Credentials!RevokeAPIToken, Credentials!HandleAdminUpdateUser,
         Credentials!UpdatePassword, Credentials!DeleteUserSessions, Credentials!AdminUpdateUser, Credentials!DeleteUser
  <2> QED BY <1>t, <2>1, <2>2 DEF Credentials!Spend, Credentials!Tick
<1>2. \A j \in Jobs, next \in Request : \A u : Credentials!Go(j, next) \/ Credentials!GoLate(j, next, u) => job' \in [Jobs -> Request]
      BY RequestsMove
<1>3. CASE UNCHANGED <<job, session, apiToken>>
      BY <1>1, <1>3 DEF CredsTyped
<1>4. ASSUME NEW j \in Jobs, Credentials!HandleResetNodeCreds(j) \/ Credentials!CheckName(j) \/ Credentials!HandleLogin(j)
                               \/ Credentials!HandleChangePassword(j) \/ Credentials!HandleAdminCreateAPIToken(j)
                               \/ Credentials!HandleAdminUpdateUser(j)
      PROVE  job' \in [Jobs -> Request] /\ UNCHANGED <<session, apiToken>>
  <2>0. \A s \in session : s.user \in Users /\ s.jti \in Nat
        BY <1>t DEF SessionRow
  <2>1. CASE Credentials!HandleResetNodeCreds(j)
    <3>1. PICK s \in session : Credentials!Go(j, [at |-> "reset", user |-> s.user, cutoff |-> now - Cooldown])
          BY <2>1 DEF Credentials!HandleResetNodeCreds
    <3>2. [at |-> "reset", user |-> s.user, cutoff |-> now - Cooldown] \in Request
          BY <2>0, <1>t DEF Request, CredsSane
    <3> QED BY <1>2, <2>1, <3>1, <3>2 DEF Credentials!HandleResetNodeCreds
  <2>2. CASE Credentials!CheckName(j)
    <3>1. PICK s \in session, place \in Credentials!Places, n \in Names :
            Credentials!Go(j, [at |-> "name", user |-> s.user, place |-> place, name |-> n])
          BY <2>2 DEF Credentials!CheckName
    <3>2. [at |-> "name", user |-> s.user, place |-> place, name |-> n] \in Request
          BY <2>0 DEF Request, NameJob
    <3> QED BY <1>2, <2>2, <3>1, <3>2 DEF Credentials!CheckName
  <2>3. CASE Credentials!HandleLogin(j)
    <3>1. PICK u \in Users, d \in Devices :
            Credentials!Go(j, [at |-> "login", user |-> u, device |-> d, jti |-> ops', late |-> FALSE,
                               password |-> user[u].password])
          BY <2>3 DEF Credentials!HandleLogin
    <3>2. user[u].password \in Nat
          BY <1>t DEF MemberRow
    <3>3. [at |-> "login", user |-> u, device |-> d, jti |-> ops', late |-> FALSE,
           password |-> user[u].password] \in LoginJob
          BY <1>1, <3>2 DEF LoginJob
    <3>4. [at |-> "login", user |-> u, device |-> d, jti |-> ops', late |-> FALSE,
           password |-> user[u].password] \in Request
          BY <3>3 DEF Request
    <3> QED BY <1>2, <2>3, <3>1, <3>4 DEF Credentials!HandleLogin
  <2>4. CASE Credentials!HandleChangePassword(j)
    <3>1. PICK s \in session : Credentials!Go(j, [at |-> "change", user |-> s.user, jti |-> s.jti])
          BY <2>4 DEF Credentials!HandleChangePassword
    <3>2. [at |-> "change", user |-> s.user, jti |-> s.jti] \in Request
          BY <2>0 DEF Request, ChangeJob
    <3> QED BY <1>2, <2>4, <3>1, <3>2 DEF Credentials!HandleChangePassword
  <2>5. CASE Credentials!HandleAdminCreateAPIToken(j)
    <3>1. PICK s \in session : Credentials!Go(j, [at |-> "token", user |-> s.user])
          BY <2>5 DEF Credentials!HandleAdminCreateAPIToken
    <3>2. [at |-> "token", user |-> s.user] \in Request
          BY <2>0 DEF Request
    <3> QED BY <1>2, <2>5, <3>1, <3>2 DEF Credentials!HandleAdminCreateAPIToken
  <2>6. CASE Credentials!HandleAdminUpdateUser(j)
    <3>1. PICK u \in Users, password \in BOOLEAN, status \in {None, "active", "banned"} :
            /\ Credentials!Live(u)
            /\ Credentials!Go(j, [at |-> IF password THEN "password" ELSE "update", user |-> u,
                                  status |-> IF status = None THEN user[u].status ELSE status])
          BY <2>6 DEF Credentials!HandleAdminUpdateUser
    <3> DEFINE at == IF password THEN "password" ELSE "update"
               new == IF status = None THEN user[u].status ELSE status
    <3>2. at \in {"password", "update"} /\ new \in {"active", "banned"}
          BY <1>t, <3>1 DEF MemberRow, Credentials!Live
    <3> HIDE DEF at, new
    <3>3. [at |-> at, user |-> u, status |-> new] \in Request
          BY <3>2 DEF Request, EditJob
    <3> USE DEF at, new
    <3> QED BY <1>2, <2>6, <3>1, <3>3 DEF Credentials!HandleAdminUpdateUser
  <2> QED BY <1>4, <2>1, <2>2, <2>3, <2>4, <2>5, <2>6
<1>5. ASSUME NEW j \in Jobs, Credentials!ResetOwn(j) \/ Credentials!WriteName(j)
      PROVE  job' \in [Jobs -> Request] /\ UNCHANGED <<session, apiToken>>
      BY <1>2, <1>5 DEF Credentials!ResetOwn, Credentials!WriteName, Request
<1>6. ASSUME NEW j \in Jobs, Credentials!CreateSession(j)
      PROVE  job' \in [Jobs -> Request] /\ session' \subseteq SessionRow /\ UNCHANGED apiToken
  <2> DEFINE fresh == [user |-> job[j].user, device |-> job[j].device, jti |-> job[j].jti,
                       password |-> job[j].password, late |-> job[j].late]
  <2>1. session' \subseteq session \cup {fresh} /\ job[j] \in LoginJob
        BY <1>6, Requests DEF Credentials!CreateSession
  <2>2. fresh \in SessionRow
        BY <2>1 DEF LoginJob, SessionRow
  <2>3. job' \in [Jobs -> Request] /\ UNCHANGED apiToken
        BY <1>2, <1>6 DEF Credentials!CreateSession, Request
  <2> QED BY <1>t, <2>1, <2>2, <2>3
<1>7. ASSUME NEW j \in Jobs, Credentials!ChangePassword(j)
      PROVE  job' \in [Jobs -> Request] /\ session' \subseteq SessionRow /\ UNCHANGED apiToken
  <2>1. job[j] \in ChangeJob
        BY <1>7, Requests DEF Credentials!ChangePassword
  <2>2. [job[j] EXCEPT !.at = "others"] \in Request /\ Credentials!Idle \in Request
        BY <2>1 DEF ChangeJob, Request
  <2>3. user[job[j].user].password + 1 \in Nat
        BY <1>t, <2>1 DEF ChangeJob, MemberRow
  <2>4. \A s \in session, p \in Nat : [s EXCEPT !.password = p] \in SessionRow
        BY <1>t DEF SessionRow
  <2>5. \A s \in session : [s EXCEPT !.password = user[job[j].user].password + 1] \in SessionRow
        BY <2>3, <2>4
  <2>6. session' \subseteq SessionRow
        BY <1>t, <1>7, <2>5 DEF Credentials!ChangePassword
  <2> QED BY <1>2, <1>7, <2>2, <2>6 DEF Credentials!ChangePassword
<1>8. ASSUME NEW j \in Jobs, Credentials!UpdatePassword(j) \/ Credentials!DeleteUserSessions(j) \/ Credentials!DeleteUserSessionsExcept(j)
      PROVE  job' \in [Jobs -> Request] /\ session' \subseteq session /\ UNCHANGED apiToken
  <2>1. job[j].at \in {"password", "kick"} => \A at \in {"kick", "update"} : [job[j] EXCEPT !.at = at] \in Request
    <3>1. job[j].at \in {"password", "kick"} => job[j] \in EditJob
          BY Requests
    <3> QED BY <3>1 DEF EditJob, Request
  <2>2. Credentials!Idle \in Request
        BY DEF Request
  <2> QED BY <1>2, <1>8, <2>1, <2>2 DEF Credentials!UpdatePassword, Credentials!DeleteUserSessions, Credentials!DeleteUserSessionsExcept
<1>9. ASSUME NEW j \in Jobs, Credentials!CreateAPIToken(j)
      PROVE  job' \in [Jobs -> Request] /\ UNCHANGED session /\ apiToken' \subseteq TokenRow
  <2>1. job[j].user \in Users
        BY <1>9, Requests DEF Credentials!CreateAPIToken
  <2>2. [user |-> job[j].user, revoked |-> FALSE, held |-> FALSE] \in TokenRow
        BY <2>1 DEF TokenRow
  <2> QED BY <1>2, <1>9, <2>2 DEF Credentials!CreateAPIToken, Request, CredsTyped
<1>10. ASSUME NEW j \in Jobs, Credentials!AdminUpdateUser(j)
       PROVE  job' \in [Jobs -> Request] /\ UNCHANGED session /\ apiToken' \subseteq TokenRow
  <2>1. job[j] \in EditJob
        BY <1>10, Requests DEF Credentials!AdminUpdateUser
  <2>2. [job[j] EXCEPT !.at = "expel"] \in Request /\ Credentials!Idle \in Request
        BY <2>1 DEF EditJob, Request
  <2>3. \A t \in TokenRow : [t EXCEPT !.revoked = TRUE, !.held = TRUE] \in TokenRow
        BY DEF TokenRow
  <2>4. apiToken' \subseteq TokenRow
        BY <1>10, <2>3 DEF Credentials!AdminUpdateUser, CredsTyped
  <2> QED BY <1>2, <1>10, <2>2, <2>4 DEF Credentials!AdminUpdateUser
<1>11. CASE Credentials!RevokeSession \/ Credentials!DeleteUser
       BY <1>1, <1>11 DEF Credentials!RevokeSession, Credentials!DeleteUser, CredsTyped
<1>12. CASE Credentials!RevokeAPIToken
  <2>1. \A t \in TokenRow : [t EXCEPT !.revoked = TRUE] \in TokenRow
        BY DEF TokenRow
  <2> QED BY <1>1, <1>12, <2>1 DEF Credentials!RevokeAPIToken, CredsTyped
<1>13. CASE Credentials!SetResetSwitch \/ Credentials!HandleAdminResetNodeCreds \/ Credentials!BuyRenewal \/ Credentials!Tick
       BY <1>3, <1>13 DEF Credentials!SetResetSwitch, Credentials!HandleAdminResetNodeCreds, Credentials!BuyRenewal, Credentials!Tick
<1>14. CASE UNCHANGED Credentials!vars
       BY <1>3, <1>14 DEF Credentials!vars
<1> QED BY <1>1, <1>t, <1>4, <1>5, <1>6, <1>7, <1>8, <1>9, <1>10, <1>11, <1>12, <1>13, <1>14 DEF Credentials!Next, CredsTyped

\* Which steps write the rows of members
LEMMA WhoWrites ==
  ASSUME CredsTyped, [Credentials!Next]_(Credentials!vars)
  PROVE  \/ UNCHANGED <<user, kept, alias, dead, hasty>>
         \/ \E u \in Users : Credentials!RotateNodeCredentials(u) /\ UNCHANGED <<kept, apiToken, session>>
         \/ Credentials!BuyRenewal \/ Credentials!DeleteUser
         \/ \E j \in Jobs : Credentials!WriteName(j) \/ Credentials!ChangePassword(j) \/ Credentials!UpdatePassword(j) \/ Credentials!AdminUpdateUser(j)
<1>1. CASE \E j \in Jobs : Credentials!ResetOwn(j)
      BY <1>1, Requests DEF Credentials!ResetOwn
<1>2. CASE Credentials!HandleAdminResetNodeCreds
      BY <1>2 DEF Credentials!HandleAdminResetNodeCreds
<1> QED BY <1>1, <1>2 DEF Credentials!Next, Credentials!vars, Credentials!Tick, Credentials!SetResetSwitch, Credentials!HandleResetNodeCreds, Credentials!CheckName, Credentials!HandleLogin,
             Credentials!CreateSession, Credentials!HandleChangePassword, Credentials!DeleteUserSessionsExcept, Credentials!RevokeSession,
             Credentials!HandleAdminCreateAPIToken, Credentials!CreateAPIToken, Credentials!RevokeAPIToken, Credentials!HandleAdminUpdateUser, Credentials!DeleteUserSessions

LEMMA CredsTypedStep ==
  ASSUME CredsSane, CredsTyped, [Credentials!Next]_(Credentials!vars)
  PROVE  CredsTyped'
<1>1. user' \in [Users -> MemberRow]
  <2>1. CASE UNCHANGED user
        BY <2>1 DEF CredsTyped
  <2>2. ASSUME NEW u \in Users, Credentials!RotateNodeCredentials(u) PROVE user' \in [Users -> MemberRow]
        BY <2>2, ResetWrites
  <2>3. ASSUME NEW j \in Jobs, Credentials!WriteName(j) \/ Credentials!ChangePassword(j) \/ Credentials!UpdatePassword(j) \/ Credentials!AdminUpdateUser(j)
        PROVE  user' \in [Users -> MemberRow]
        BY <2>1, <2>3, NameWrites, EditWrites
  <2>4. CASE Credentials!BuyRenewal \/ Credentials!DeleteUser
        BY <2>4, RenewalWrites, DeletionWrites
  <2> QED BY <2>1, <2>2, <2>3, <2>4, WhoWrites
<1> QED BY <1>1, RequestsTyped DEF CredsTyped

-----------------------------------------------------------------------------
(* Node secrets                                                              *)

\* Where requests of three kinds come from
LEMMA RequestsStart ==
  ASSUME CredsTyped, [Credentials!Next]_(Credentials!vars), NEW j \in Jobs
  PROVE  /\ job'[j].at = "reset" => job'[j] = job[j] \/ Credentials!HandleResetNodeCreds(j)
         /\ job'[j].at = "name" => job'[j] = job[j] \/ Credentials!CheckName(j)
         /\ job'[j].at = "login" =>
              job'[j] = job[j] \/ Credentials!HandleLogin(j) \/ (job[j].at = "login" /\ job'[j] = [job[j] EXCEPT !.late = TRUE])
<1>0. job \in [Jobs -> Request]
      BY DEF CredsTyped
<1>1. CASE UNCHANGED job
      BY <1>1
<1>2. ASSUME NEW i \in Jobs, NEW next, Credentials!Go(i, next) PROVE job' = [job EXCEPT ![i] = next]
      BY <1>2 DEF Credentials!Go
<1>3. ASSUME NEW i \in Jobs, i # j, NEW next, NEW u, Credentials!Go(i, next) \/ Credentials!GoLate(i, next, u)
      PROVE  job'[j] = job[j] \/ (job[j].at = "login" /\ job'[j] = [job[j] EXCEPT !.late = TRUE])
      BY <1>0, <1>3 DEF Credentials!Go, Credentials!GoLate
<1>4. ASSUME NEW next, NEW u, Credentials!Go(j, next) \/ Credentials!GoLate(j, next, u), next.at \notin {"reset", "name", "login"}
      PROVE  job'[j].at \notin {"reset", "name", "login"}
      BY <1>0, <1>4 DEF Credentials!Go, Credentials!GoLate
<1>5. ASSUME NEW i \in Jobs, i # j, Credentials!HandleResetNodeCreds(i) \/ Credentials!CheckName(i) \/ Credentials!HandleLogin(i)
      PROVE  \E next : Credentials!Go(i, next)
      BY <1>5 DEF Credentials!HandleResetNodeCreds, Credentials!CheckName, Credentials!HandleLogin
<1>6. ASSUME NEW i \in Jobs, Credentials!HandleChangePassword(i) \/ Credentials!HandleAdminCreateAPIToken(i) \/ Credentials!HandleAdminUpdateUser(i)
      PROVE  \E next : Credentials!Go(i, next) /\ next.at \notin {"reset", "name", "login"}
  <2>1. CASE Credentials!HandleChangePassword(i)
        BY <2>1 DEF Credentials!HandleChangePassword
  <2>2. CASE Credentials!HandleAdminCreateAPIToken(i)
        BY <2>2 DEF Credentials!HandleAdminCreateAPIToken
  <2>3. CASE Credentials!HandleAdminUpdateUser(i)
    <3>1. PICK u \in Users, password \in BOOLEAN, status \in {None, "active", "banned"} :
            Credentials!Go(i, [at |-> IF password THEN "password" ELSE "update", user |-> u,
                               status |-> IF status = None THEN user[u].status ELSE status])
          BY <2>3 DEF Credentials!HandleAdminUpdateUser
    <3> QED BY <3>1
  <2> QED BY <1>6, <2>1, <2>2, <2>3
<1>7. ASSUME NEW i \in Jobs, ~UNCHANGED job,
             \/ Credentials!ResetOwn(i) \/ Credentials!WriteName(i) \/ Credentials!CreateSession(i) \/ Credentials!DeleteUserSessionsExcept(i) \/ Credentials!CreateAPIToken(i)
      PROVE  Credentials!Go(i, Credentials!Idle) /\ Credentials!Idle.at = "idle"
      BY <1>7 DEF Credentials!ResetOwn, Credentials!WriteName, Credentials!CreateSession, Credentials!DeleteUserSessionsExcept, Credentials!CreateAPIToken, Credentials!Idle
<1>8. ASSUME NEW i \in Jobs, Credentials!ChangePassword(i) \/ Credentials!UpdatePassword(i) \/ Credentials!DeleteUserSessions(i) \/ Credentials!AdminUpdateUser(i)
      PROVE  \E next, u : (Credentials!Go(i, next) \/ Credentials!GoLate(i, next, u)) /\ next.at \notin {"reset", "name", "login"}
  <2>0. Credentials!Idle.at = "idle"
        BY DEF Credentials!Idle
  <2>1. job[i].at \in {"change", "password", "kick", "update"} =>
          \A at \in {"others", "kick", "update", "expel"} : [job[i] EXCEPT !.at = at].at = at
        BY <1>0, Requests DEF ChangeJob, EditJob
  <2>2. CASE Credentials!ChangePassword(i)
        BY <2>0, <2>1, <2>2 DEF Credentials!ChangePassword
  <2>3. CASE Credentials!UpdatePassword(i)
        BY <2>1, <2>3 DEF Credentials!UpdatePassword
  <2>4. CASE Credentials!DeleteUserSessions(i)
        BY <2>0, <2>1, <2>4 DEF Credentials!DeleteUserSessions
  <2>5. CASE Credentials!AdminUpdateUser(i)
        BY <2>0, <2>1, <2>5 DEF Credentials!AdminUpdateUser
  <2> QED BY <1>8, <2>2, <2>3, <2>4, <2>5
<1>9. ASSUME NEW i \in Jobs, NEW next, NEW u, Credentials!Go(i, next) \/ Credentials!GoLate(i, next, u),
             i = j => next.at \notin {"reset", "name", "login"}
      PROVE  \/ job'[j].at \notin {"reset", "name", "login"}
             \/ job'[j] = job[j] \/ (job[j].at = "login" /\ job'[j] = [job[j] EXCEPT !.late = TRUE])
      BY <1>3, <1>4, <1>9
<1>10. CASE \E i \in Jobs : Credentials!HandleResetNodeCreds(i) \/ Credentials!CheckName(i) \/ Credentials!HandleLogin(i)
  <2>1. PICK i \in Jobs : Credentials!HandleResetNodeCreds(i) \/ Credentials!CheckName(i) \/ Credentials!HandleLogin(i)
        BY <1>10
  <2>2. CASE i # j
    <3>1. job[j].at = "login" /\ job'[j] = [job[j] EXCEPT !.late = TRUE] => job'[j].at = "login"
          BY Requests DEF LoginJob
    <3> QED BY <1>3, <1>5, <2>1, <2>2, <3>1
  <2>3. CASE i = j
    <3>1. Credentials!HandleResetNodeCreds(j) => job'[j].at = "reset"
          BY <1>0 DEF Credentials!HandleResetNodeCreds, Credentials!Go
    <3>2. Credentials!CheckName(j) => job'[j].at = "name"
          BY <1>0 DEF Credentials!CheckName, Credentials!Go
    <3>3. Credentials!HandleLogin(j) => job'[j].at = "login"
          BY <1>0 DEF Credentials!HandleLogin, Credentials!Go
    <3> QED BY <2>1, <2>3, <3>1, <3>2, <3>3
  <2> QED BY <2>2, <2>3
<1>11. \/ job'[j].at \notin {"reset", "name", "login"}
       \/ job'[j] = job[j] \/ (job[j].at = "login" /\ job'[j] = [job[j] EXCEPT !.late = TRUE])
       \/ \E i \in Jobs : Credentials!HandleResetNodeCreds(i) \/ Credentials!CheckName(i) \/ Credentials!HandleLogin(i)
       BY <1>1, <1>6, <1>7, <1>8, <1>9 DEF Credentials!Next, Credentials!vars, Credentials!SetResetSwitch, Credentials!HandleAdminResetNodeCreds,
        Credentials!BuyRenewal, Credentials!RevokeSession, Credentials!RevokeAPIToken, Credentials!DeleteUser, Credentials!Tick
<1>12. job[j].at = "login" /\ job'[j] = [job[j] EXCEPT !.late = TRUE] => job'[j].at = "login"
       BY Requests DEF LoginJob
<1> QED BY <1>10, <1>11, <1>12

\* Time moves on
LEMMA TimeMoves ==
  ASSUME CredsTyped, [Credentials!Next]_(Credentials!vars)
  PROVE  now' \in Nat /\ now' >= now
<1>1. UNCHANGED now \/ Credentials!Tick
      BY DEF Credentials!Next, Credentials!vars, Credentials!SetResetSwitch, Credentials!HandleResetNodeCreds, Credentials!ResetOwn,
         Credentials!HandleAdminResetNodeCreds, Credentials!BuyRenewal, Credentials!CheckName, Credentials!WriteName, Credentials!HandleLogin, Credentials!CreateSession,
         Credentials!HandleChangePassword, Credentials!ChangePassword, Credentials!DeleteUserSessionsExcept, Credentials!RevokeSession,
         Credentials!HandleAdminCreateAPIToken, Credentials!CreateAPIToken, Credentials!RevokeAPIToken, Credentials!HandleAdminUpdateUser,
         Credentials!UpdatePassword, Credentials!DeleteUserSessions, Credentials!AdminUpdateUser, Credentials!DeleteUser
<1> QED BY <1>1 DEF CredsTyped, Credentials!Tick

\* A reset looks at a cutoff no later than now
LEMMA CutoffsHold ==
  ASSUME CredsSane, CredsTyped, SecretsMove, [Credentials!Next]_(Credentials!vars), NEW j \in Jobs, job'[j].at = "reset"
  PROVE  job'[j].cutoff <= now' - Cooldown
<1>0. Cooldown \in Nat /\ now \in Nat /\ now' \in Nat /\ now' >= now
      BY TimeMoves DEF CredsTyped, CredsSane
<1>1. CASE job'[j] = job[j]
      BY <1>0, <1>1, Requests DEF SecretsMove
<1>2. CASE Credentials!HandleResetNodeCreds(j)
  <2>1. PICK s \in session : Credentials!Go(j, [at |-> "reset", user |-> s.user, cutoff |-> now - Cooldown])
        BY <1>2 DEF Credentials!HandleResetNodeCreds
  <2>2. job'[j].cutoff = now - Cooldown
        BY <2>1 DEF Credentials!Go, CredsTyped
  <2>3. now' = now /\ now - Cooldown \in Int
        BY <1>0, <1>2 DEF Credentials!HandleResetNodeCreds
  <2> QED BY <2>2, <2>3
<1> QED BY <1>1, <1>2, RequestsStart

\* No reset comes before the cooldown
LEMMA NoHaste ==
  ASSUME CredsSane, CredsTyped, SecretsMove, [Credentials!Next]_(Credentials!vars)
  PROVE  ~hasty'
<1>1. ASSUME NEW j \in Jobs, Credentials!ResetOwn(j) PROVE ~hasty'
  <2> DEFINE u == job[j].user
  <2>1. u \in Users /\ job[j].cutoff \in Int /\ job[j].cutoff <= now - Cooldown
        BY <1>1, Requests DEF Credentials!ResetOwn, SecretsMove
  <2>2. user[u].reset \in Int /\ now \in Nat /\ Cooldown \in Nat
        BY <2>1 DEF CredsTyped, MemberRow, CredsSane
  <2>3. user[u].reset <= job[j].cutoff => ~(now - user[u].reset < Cooldown)
        BY <2>1, <2>2
  <2> QED BY <1>1, <2>3 DEF Credentials!ResetOwn, SecretsMove
<1>2. UNCHANGED hasty \/ \E j \in Jobs : Credentials!ResetOwn(j)
      BY DEF Credentials!Next, Credentials!vars, Credentials!SetResetSwitch, Credentials!HandleResetNodeCreds, Credentials!Tick,
         Credentials!HandleAdminResetNodeCreds, Credentials!BuyRenewal, Credentials!CheckName, Credentials!WriteName, Credentials!HandleLogin, Credentials!CreateSession,
         Credentials!HandleChangePassword, Credentials!ChangePassword, Credentials!DeleteUserSessionsExcept, Credentials!RevokeSession,
         Credentials!HandleAdminCreateAPIToken, Credentials!CreateAPIToken, Credentials!RevokeAPIToken, Credentials!HandleAdminUpdateUser,
         Credentials!UpdatePassword, Credentials!DeleteUserSessions, Credentials!AdminUpdateUser, Credentials!DeleteUser
<1> QED BY <1>1, <1>2 DEF SecretsMove

LEMMA SecretsStep ==
  ASSUME CredsSane, CredsTyped, SecretsMove, [Credentials!Next]_(Credentials!vars)
  PROVE  SecretsMove'
<1> DEFINE Newer == /\ \A a \in alias : a.secret < user[a.user].secret
                    /\ \A d \in dead : d.secret < user[d.user].secret
                    /\ \A d \in dead, a \in alias : d.user = a.user => d.secret # a.secret
           Shaped == alias \subseteq [user : Users, secret : Nat, until : {Grace}]
                     /\ dead \subseteq [user : Users, secret : Nat]
<1>1. CASE /\ \A v \in Users : user'[v].secret = user[v].secret
           /\ alias' \subseteq alias /\ UNCHANGED dead
  <2>1. Shaped'
        BY <1>1 DEF SecretsMove
  <2>2. Newer'
        BY <1>1 DEF SecretsMove
  <2> QED BY <2>1, <2>2, CutoffsHold, NoHaste DEF SecretsMove
<1>2. ASSUME NEW u \in Users, Credentials!RotateNodeCredentials(u) PROVE SecretsMove'
  <2>1. /\ dead' = dead \cup {[user |-> u, secret |-> s] : s \in Credentials!Accepted(u)}
        /\ alias' = {a \in alias : a.user # u}
        BY <1>2 DEF Credentials!RotateNodeCredentials
  <2>2. \A v \in Users : user[v].secret \in Nat
        BY DEF CredsTyped, MemberRow
  <2>3. \A s \in Credentials!Accepted(u) : s \in Nat /\ s <= user[u].secret
        BY <2>2 DEF Credentials!Accepted, SecretsMove
  <2>4. user'[u].secret = user[u].secret + 1 /\ \A v \in Users \ {u} : user'[v].secret = user[v].secret
        BY <1>2, ResetWrites DEF CredsTyped
  <2>5. Shaped'
        BY <2>1, <2>3 DEF SecretsMove
  <2>6. \A a \in alias' : a.secret < user'[a.user].secret
        BY <2>1, <2>4 DEF SecretsMove
  <2>7. \A d \in dead' : d.secret < user'[d.user].secret
    <3>1. ASSUME NEW d \in dead PROVE d.secret < user'[d.user].secret
      <4>1. d.user \in Users /\ d.secret \in Nat /\ d.secret < user[d.user].secret
            BY DEF SecretsMove
      <4> QED BY <2>2, <2>4, <4>1
    <3>2. ASSUME NEW s \in Credentials!Accepted(u) PROVE s < user'[u].secret
          BY <2>2, <2>3, <2>4
    <3> QED BY <2>1, <3>1, <3>2
  <2>8. \A d \in dead', a \in alias' : d.user = a.user => d.secret # a.secret
        BY <2>1 DEF SecretsMove
  <2> QED BY <2>5, <2>6, <2>7, <2>8, CutoffsHold, NoHaste DEF SecretsMove
<1>3. ASSUME NEW j \in Jobs, Credentials!WriteName(j)
      PROVE  (\A v \in Users : user'[v].secret = user[v].secret) /\ UNCHANGED <<alias, dead>>
      BY <1>3, NameWrites DEF Credentials!WriteName
<1>4. ASSUME NEW j \in Jobs, Credentials!ChangePassword(j) \/ Credentials!UpdatePassword(j) \/ Credentials!AdminUpdateUser(j)
      PROVE  (\A v \in Users : user'[v].secret = user[v].secret) /\ UNCHANGED <<alias, dead>>
      BY <1>4, EditWrites DEF Elsewhere, Credentials!ChangePassword, Credentials!UpdatePassword, Credentials!AdminUpdateUser
<1>5. Credentials!BuyRenewal => (\A v \in Users : user'[v].secret = user[v].secret) /\ UNCHANGED <<alias, dead>>
      BY RenewalWrites DEF Credentials!BuyRenewal, Elsewhere
<1>6. Credentials!DeleteUser => (\A v \in Users : user'[v].secret = user[v].secret) /\ alias' \subseteq alias /\ UNCHANGED dead
      BY DeletionWrites DEF Credentials!DeleteUser
<1> QED BY <1>1, <1>2, <1>3, <1>4, <1>5, <1>6, WhoWrites

-----------------------------------------------------------------------------
(* Proxy logins                                                              *)

LEMMA LoginsStep ==
  ASSUME CredsSane, CredsTyped, LoginsHold, [Credentials!Next]_(Credentials!vars)
  PROVE  LoginsHold'
<1>t. \A v \in Users : user[v] \in MemberRow
      BY DEF CredsTyped
<1>k. kept = [v \in Users |-> kept[v]] /\ \A v \in Users : \A r \in Credentials!Bought(user[v]) : Credentials!Login(user[v], r) = kept[v][r]
      BY DEF LoginsHold, Credentials!LoginsAreKept
\* The rows that are written leave the logins as they are, or those who hold them are told
<1>1. CASE /\ UNCHANGED kept
           /\ \A v \in Users : /\ Credentials!Bought(user'[v]) = Credentials!Bought(user[v])
                               /\ \A r \in Credentials!Bought(user[v]) : Credentials!Login(user'[v], r) = Credentials!Login(user[v], r)
      BY <1>k, <1>1 DEF LoginsHold, Credentials!LoginsAreKept
<1>2. ASSUME NEW u \in Users, kept' = [kept EXCEPT ![u] = Credentials!Logins(user'[u])],
             \A v \in Users \ {u} : user'[v] = user[v]
      PROVE  LoginsHold'
  <2>1. kept' = [v \in Users |-> kept'[v]] /\ kept'[u] = Credentials!Logins(user'[u]) /\ \A v \in Users \ {u} : kept'[v] = kept[v]
        BY <1>k, <1>2
  <2>2. \A r \in Credentials!Bought(user'[u]) : Credentials!Login(user'[u], r) = kept'[u][r]
        BY <2>1 DEF Credentials!Logins
  <2>3. \A v \in Users \ {u} : \A r \in Credentials!Bought(user'[v]) : Credentials!Login(user'[v], r) = kept'[v][r]
        BY <1>k, <1>2, <2>1
  <2> QED BY <2>1, <2>2, <2>3 DEF LoginsHold, Credentials!LoginsAreKept
<1>3. \A x, y : Elsewhere(x, y) => \A r : Credentials!Login(y, r) = Credentials!Login(x, r)
      BY DEF Elsewhere, Credentials!Login
<1>4. \A v \in Users : user'[v] = user[v] \/ (Elsewhere(user[v], user'[v]) /\ user'[v].renewed = user[v].renewed) =>
        /\ Credentials!Bought(user'[v]) = Credentials!Bought(user[v])
        /\ \A r \in Credentials!Bought(user[v]) : Credentials!Login(user'[v], r) = Credentials!Login(user[v], r)
      BY <1>3 DEF Credentials!Bought
<1>5. ASSUME NEW u \in Users, Credentials!RotateNodeCredentials(u) /\ UNCHANGED kept PROVE LoginsHold'
  <2>1. \A v \in Users : user'[v] = IF v = u THEN Credentials!Pinned(user[u]) ELSE user[v]
        BY <1>5, ResetWrites DEF CredsTyped
  <2>2. /\ Credentials!Bought(Credentials!Pinned(user[u])) = Credentials!Bought(user[u])
        /\ \A r \in Credentials!Bought(user[u]) : Credentials!Login(Credentials!Pinned(user[u]), r) = Credentials!Login(user[u], r)
        BY <1>t, PinnedKeeps DEF CredsTyped
  <2> QED BY <1>1, <1>5, <2>1, <2>2
<1>6. ASSUME NEW j \in Jobs, Credentials!ChangePassword(j) \/ Credentials!UpdatePassword(j) \/ Credentials!AdminUpdateUser(j) PROVE LoginsHold'
  <2>1. UNCHANGED kept
        BY <1>6 DEF Credentials!ChangePassword, Credentials!UpdatePassword, Credentials!AdminUpdateUser
  <2>2. \A v \in Users : Elsewhere(user[v], user'[v]) /\ user'[v].renewed = user[v].renewed
        BY <1>6, EditWrites
  <2> QED BY <1>1, <1>4, <2>1, <2>2
<1>7. ASSUME NEW j \in Jobs, Credentials!WriteName(j) PROVE LoginsHold'
  <2>1. CASE UNCHANGED <<user, kept>>
        BY <1>1, <1>4, <2>1
  <2>2. CASE ~UNCHANGED <<user, kept>>
        BY <1>2, <1>7, <2>2, NameWrites
  <2> QED BY <2>1, <2>2
<1>8. CASE Credentials!DeleteUser
      BY <1>2, <1>8, DeletionWrites
<1>9. CASE Credentials!BuyRenewal
  <2>1. PICK u \in Users :
          /\ ~user[u].renewed /\ user' = [user EXCEPT ![u] = [user[u] EXCEPT !.renewed = TRUE]]
          /\ kept' = [kept EXCEPT ![u] = [r \in Credentials!Rows |->
               IF r = "renewal" THEN Credentials!Login(user[u], r) ELSE kept[u][r]]]
        BY <1>9 DEF Credentials!BuyRenewal
  <2>2. /\ \A v \in Users \ {u} : user'[v] = user[v] /\ kept'[v] = kept[v]
        /\ kept' = [v \in Users |-> kept'[v]]
        BY <1>k, <2>1 DEF CredsTyped
  <2>3. \A r \in Credentials!Rows : kept'[u][r] = IF r = "renewal" THEN Credentials!Login(user[u], r) ELSE kept[u][r]
        BY <1>k, <2>1
  <2>4. Credentials!Bought(user[u]) = Credentials!Rows \ {"renewal"} /\ Credentials!Bought(user'[u]) \subseteq Credentials!Rows
        BY <2>1 DEF Credentials!Bought
  <2>5. \A r \in Credentials!Rows : Credentials!Login(user'[u], r) = kept'[u][r]
        BY <1>3, <1>9, <1>k, <2>3, <2>4, RenewalWrites
  <2> QED BY <1>k, <2>2, <2>4, <2>5 DEF LoginsHold, Credentials!LoginsAreKept
<1>10. CASE UNCHANGED <<user, kept>>
       BY <1>1, <1>4, <1>10
<1> QED BY <1>5, <1>6, <1>7, <1>8, <1>9, <1>10, WhoWrites

\* The names a step writes
LEMMA NamesWritten ==
  ASSUME CredsSane, CredsTyped, [Credentials!Next]_(Credentials!vars)
  PROVE  \/ \A v \in Users, p \in Credentials!Places : user'[v].name[p] \in {user[v].name[p], None}
         \/ \E j \in Jobs :
              /\ Credentials!WriteName(j) /\ job[j] \in NameJob
              /\ \A v \in Users, p \in Credentials!Places :
                   user'[v].name[p] = IF <<v, p>> = <<job[j].user, job[j].place>> THEN job[j].name
                                      ELSE user[v].name[p]
<1>1. CASE UNCHANGED user
      BY <1>1
<1>2. ASSUME NEW u \in Users, Credentials!RotateNodeCredentials(u)
      PROVE  \A v \in Users : user'[v].name = user[v].name
      BY <1>2, ResetWrites DEF CredsTyped
<1>3. ASSUME NEW j \in Jobs, Credentials!ChangePassword(j) \/ Credentials!UpdatePassword(j) \/ Credentials!AdminUpdateUser(j)
      PROVE  \A v \in Users : user'[v].name = user[v].name
      BY <1>3, EditWrites DEF Elsewhere
<1>4. Credentials!BuyRenewal => \A v \in Users : user'[v].name = user[v].name
      BY RenewalWrites DEF Elsewhere
<1>5. Credentials!DeleteUser => \A v \in Users, p \in Credentials!Places : user'[v].name[p] \in {user[v].name[p], None}
  <2> SUFFICES ASSUME Credentials!DeleteUser PROVE \A v \in Users, p \in Credentials!Places : user'[v].name[p] \in {user[v].name[p], None}
      OBVIOUS
  <2>1. PICK u \in Users : /\ \A v \in Users \ {u} : user'[v] = user[v]
                           /\ user'[u].name = [p \in Credentials!Places |-> None]
        BY DeletionWrites
  <2> QED BY <2>1
<1>6. ASSUME NEW j \in Jobs, Credentials!WriteName(j), ~UNCHANGED user
      PROVE  /\ job[j] \in NameJob
             /\ \A v \in Users, p \in Credentials!Places :
                  user'[v].name[p] = IF <<v, p>> = <<job[j].user, job[j].place>> THEN job[j].name
                                     ELSE user[v].name[p]
  <2>1. job[j] \in NameJob
        BY <1>6, Requests DEF Credentials!WriteName
  <2>2. /\ job[j].user \in Users /\ job[j].place \in Credentials!Places
        /\ \A v \in Users \ {job[j].user} : user'[v] = user[v]
        /\ user'[job[j].user].name = [user[job[j].user].name EXCEPT ![job[j].place] = job[j].name]
        BY <1>6, NameWrites
  <2>3. user[job[j].user].name \in [Credentials!Places -> Names \cup {None}]
        BY <2>2 DEF CredsTyped, MemberRow
  <2> QED BY <2>1, <2>2, <2>3
<1> QED BY <1>1, <1>2, <1>3, <1>4, <1>5, <1>6, WhoWrites

\* A check finds the name in no other row, and tells when another request has it
LEMMA CheckedNames ==
  ASSUME CredsTyped, NEW j \in Jobs, Credentials!CheckName(j)
  PROVE  /\ UNCHANGED user /\ raced \subseteq raced' /\ job'[j].at = "name"
         /\ \A i \in Jobs \ {j} : job'[i] = job[i]
         /\ \A v \in Users, p \in Credentials!Places :
              user[v].name[p] = job'[j].name => <<v, p>> = <<job'[j].user, job'[j].place>>
         /\ \A i \in Jobs \ {j} : job[i].at = "name" /\ job[i].name = job'[j].name => job'[j].name \in raced'
<1>1. PICK s \in session, place \in Credentials!Places, n \in Names :
        /\ ~Credentials!ProxyNameTaken(n, s.user, place)
        /\ Credentials!Go(j, [at |-> "name", user |-> s.user, place |-> place, name |-> n])
        /\ raced' = IF \E i \in Jobs \ {j} : job[i].at = "name" /\ job[i].name = n
                      THEN raced \cup {n} ELSE raced
      BY DEF Credentials!CheckName
<1>2. /\ job'[j].at = "name" /\ job'[j].user = s.user /\ job'[j].place = place /\ job'[j].name = n
      /\ \A i \in Jobs \ {j} : job'[i] = job[i]
      BY <1>1 DEF Credentials!Go, CredsTyped
<1>3. \A v \in Users, p \in Credentials!Places : user[v].name[p] = n => <<v, p>> = <<s.user, place>>
      BY <1>1 DEF Credentials!ProxyNameTaken
<1>4. UNCHANGED user
      BY DEF Credentials!CheckName
<1> QED BY <1>1, <1>2, <1>3, <1>4

LEMMA RacesStay == ASSUME CredsTyped, [Credentials!Next]_(Credentials!vars) PROVE raced \subseteq raced'
<1>1. UNCHANGED raced \/ \E j \in Jobs : Credentials!CheckName(j)
      BY DEF Credentials!Next, Credentials!vars, Credentials!SetResetSwitch, Credentials!HandleResetNodeCreds, Credentials!Tick, Credentials!ResetOwn,
         Credentials!HandleAdminResetNodeCreds, Credentials!BuyRenewal, Credentials!WriteName, Credentials!HandleLogin, Credentials!CreateSession,
         Credentials!HandleChangePassword, Credentials!ChangePassword, Credentials!DeleteUserSessionsExcept, Credentials!RevokeSession,
         Credentials!HandleAdminCreateAPIToken, Credentials!CreateAPIToken, Credentials!RevokeAPIToken, Credentials!HandleAdminUpdateUser,
         Credentials!UpdatePassword, Credentials!DeleteUserSessions, Credentials!AdminUpdateUser, Credentials!DeleteUser
<1> QED BY <1>1, CheckedNames

LEMMA NamesStep ==
  ASSUME CredsSane, CredsTyped, Credentials!NamesMeterOne, NamesFree, [Credentials!Next]_(Credentials!vars)
  PROVE  Credentials!NamesMeterOne' /\ NamesFree'
<1>n. \A n \in Names : n # None
      BY DEF CredsSane
<1>a. \A i \in Jobs : job[i].at = "name" => job[i].name \in Names
      BY Requests DEF NameJob
<1>b. \A i \in Jobs : job'[i].at = "name" => job'[i].name \in Names
  <2>1. CredsTyped'
        BY CredsTypedStep
  <2>2. \A i \in Jobs : job'[i].at = "name" => job'[i] \in NameJob
        BY <2>1 DEF CredsTyped, Request, Credentials!Idle, NameJob, LoginJob, ChangeJob, EditJob
  <2> QED BY <2>2 DEF NameJob
<1>c. ASSUME NEW j \in Jobs, Credentials!WriteName(j) PROVE job'[j].at = "idle" /\ job[j].at = "name"
      BY <1>c DEF Credentials!WriteName, Credentials!Go, CredsTyped, Credentials!Idle
<1>1. Credentials!NamesMeterOne'
  <2> SUFFICES ASSUME NEW n \in Names, n \notin raced',
                      NEW x \in Users \X Credentials!Places, NEW y \in Users \X Credentials!Places,
                      user'[x[1]].name[x[2]] = n, user'[y[1]].name[y[2]] = n
               PROVE  x = y
      BY DEF Credentials!NamesMeterOne
  <2>0. n \notin raced /\ x[1] \in Users /\ x[2] \in Credentials!Places /\ y[1] \in Users /\ y[2] \in Credentials!Places
        /\ x = <<x[1], x[2]>> /\ y = <<y[1], y[2]>>
        BY RacesStay
  <2>1. CASE \A v \in Users, p \in Credentials!Places : user'[v].name[p] \in {user[v].name[p], None}
    <3>1. user[x[1]].name[x[2]] = n /\ user[y[1]].name[y[2]] = n
          BY <1>n, <2>0, <2>1
    <3> QED BY <2>0, <3>1 DEF Credentials!NamesMeterOne
  <2>2. ASSUME NEW j \in Jobs, Credentials!WriteName(j),
               \A v \in Users, p \in Credentials!Places :
                  user'[v].name[p] = IF <<v, p>> = <<job[j].user, job[j].place>> THEN job[j].name
                                     ELSE user[v].name[p]
        PROVE  x = y
    <3>1. \A z \in Users \X Credentials!Places : user'[z[1]].name[z[2]] = n =>
            \/ z = <<job[j].user, job[j].place>> /\ job[j].name = n
            \/ user[z[1]].name[z[2]] = n
          BY <2>2
    <3>2. job[j].name = n => \A z \in Users \X Credentials!Places :
             user[z[1]].name[z[2]] = n => z = <<job[j].user, job[j].place>>
          BY <1>c, <2>0, <2>2 DEF NamesFree
    <3> QED BY <2>0, <3>1, <3>2 DEF Credentials!NamesMeterOne
  <2> QED BY <2>1, <2>2, NamesWritten
<1>2. NamesFree'
  <2> SUFFICES ASSUME NEW j \in Jobs, job'[j].at = "name", job'[j].name \notin raced'
               PROVE  /\ \A v \in Users, p \in Credentials!Places : user'[v].name[p] = job'[j].name =>
                            <<v, p>> = <<job'[j].user, job'[j].place>>
                      /\ \A i \in Jobs \ {j} : job'[i].at = "name" => job'[i].name # job'[j].name
      BY DEF NamesFree
  <2>1. CASE Credentials!CheckName(j)
    <3>1. \A i \in Jobs \ {j} : job'[i].at = "name" => job'[i].name # job'[j].name
          BY <2>1, CheckedNames
    <3> QED BY <2>1, <3>1, CheckedNames
  <2>2. CASE job'[j] = job[j]
    <3>0. job[j].name \notin raced /\ job[j].at = "name"
          BY <2>2, RacesStay
    <3>1. /\ \A v \in Users, p \in Credentials!Places : user[v].name[p] = job[j].name => <<v, p>> = <<job[j].user, job[j].place>>
          /\ \A i \in Jobs \ {j} : job[i].at = "name" => job[i].name # job[j].name
          BY <3>0 DEF NamesFree
    <3>2. ASSUME NEW i \in Jobs \ {j}, job'[i].at = "name" PROVE job'[i].name # job[j].name
      <4>1. CASE job'[i] = job[i]
            BY <3>1, <3>2, <4>1
      <4>2. CASE Credentials!CheckName(i)
            BY <2>2, <3>0, <4>2, CheckedNames
      <4> QED BY <3>2, <4>1, <4>2, RequestsStart
    <3>3. ASSUME NEW v \in Users, NEW p \in Credentials!Places, user'[v].name[p] = job[j].name
          PROVE  <<v, p>> = <<job[j].user, job[j].place>>
      <4>1. job[j].name # None
            BY <1>a, <1>n, <3>0
      <4>2. CASE user'[v].name[p] \in {user[v].name[p], None}
            BY <3>1, <3>3, <4>1, <4>2
      <4>3. ASSUME NEW i \in Jobs, Credentials!WriteName(i),
                   user'[v].name[p] = IF <<v, p>> = <<job[i].user, job[i].place>> THEN job[i].name
                                      ELSE user[v].name[p]
            PROVE  <<v, p>> = <<job[j].user, job[j].place>>
        <5>1. i # j
              BY <1>c, <4>3
        <5>2. job[i].name # job[j].name
              BY <1>c, <3>1, <4>3, <5>1
        <5> QED BY <3>1, <3>3, <4>3, <5>2
      <4> QED BY <4>2, <4>3, NamesWritten
    <3> QED BY <2>2, <3>2, <3>3
  <2> QED BY <2>1, <2>2, RequestsStart
<1> QED BY <1>1, <1>2

-----------------------------------------------------------------------------
(* Sessions and machine tokens                                               *)

\* A machine token that was there at a ban stays revoked
LEMMA TokensStep ==
  ASSUME CredsSane, CredsTyped, HeldAreRevoked, [Credentials!Next]_(Credentials!vars)
  PROVE  HeldAreRevoked'
<1>0. apiToken \subseteq TokenRow
      BY DEF CredsTyped
<1>1. CASE apiToken' \subseteq apiToken
      BY <1>1 DEF HeldAreRevoked
<1>2. ASSUME NEW j \in Jobs, Credentials!CreateAPIToken(j) PROVE HeldAreRevoked'
      BY <1>2 DEF Credentials!CreateAPIToken, HeldAreRevoked
<1>3. ASSUME NEW j \in Jobs, Credentials!AdminUpdateUser(j) PROVE HeldAreRevoked'
  <2>1. \A t \in TokenRow : [t EXCEPT !.revoked = TRUE, !.held = TRUE].revoked
        BY DEF TokenRow
  <2> QED BY <1>0, <1>3, <2>1 DEF Credentials!AdminUpdateUser, HeldAreRevoked
<1>4. CASE Credentials!RevokeAPIToken
  <2>1. \A t \in TokenRow : [t EXCEPT !.revoked = TRUE].revoked
        BY DEF TokenRow
  <2> QED BY <1>0, <1>4, <2>1 DEF Credentials!RevokeAPIToken, HeldAreRevoked
<1>5. CASE Credentials!DeleteUser
      BY <1>1, <1>5 DEF Credentials!DeleteUser
<1> QED BY <1>1, <1>2, <1>3, <1>4, <1>5 DEF Credentials!Next, Credentials!vars, Credentials!SetResetSwitch, Credentials!HandleResetNodeCreds, Credentials!Tick, Credentials!ResetOwn,
         Credentials!HandleAdminResetNodeCreds, Credentials!BuyRenewal, Credentials!CheckName, Credentials!WriteName, Credentials!HandleLogin, Credentials!CreateSession,
         Credentials!HandleChangePassword, Credentials!ChangePassword, Credentials!DeleteUserSessionsExcept, Credentials!RevokeSession,
         Credentials!HandleAdminCreateAPIToken, Credentials!HandleAdminUpdateUser, Credentials!UpdatePassword, Credentials!DeleteUserSessions

\* A request on its way to end sessions gets there
LEMMA EndersStay ==
  ASSUME CredsTyped, [Credentials!Next]_(Credentials!vars), NEW i \in Jobs, job[i].at \in {"kick", "expel", "others"}
  PROVE  job'[i] = job[i] \/ Credentials!DeleteUserSessions(i) \/ Credentials!DeleteUserSessionsExcept(i)
<1>0. job \in [Jobs -> Request] /\ job[i] # Credentials!Idle
      BY DEF CredsTyped, Credentials!Idle
<1>1. ASSUME NEW j \in Jobs, j # i, NEW next, NEW u, Credentials!Go(j, next) \/ Credentials!GoLate(j, next, u) PROVE job'[i] = job[i]
      BY <1>0, <1>1 DEF Credentials!Go, Credentials!GoLate
<1>2. ASSUME NEW j \in Jobs, Credentials!HandleResetNodeCreds(j) \/ Credentials!CheckName(j) \/ Credentials!HandleLogin(j) \/ Credentials!HandleChangePassword(j)
                             \/ Credentials!HandleAdminCreateAPIToken(j)
      PROVE  job'[i] = job[i]
  <2>1. j # i /\ \E next : Credentials!Go(j, next)
        BY <1>0, <1>2 DEF Credentials!HandleResetNodeCreds, Credentials!CheckName, Credentials!HandleLogin, Credentials!HandleChangePassword,
                          Credentials!HandleAdminCreateAPIToken
  <2> QED BY <1>1, <2>1
<1>3. ASSUME NEW j \in Jobs, Credentials!HandleAdminUpdateUser(j) PROVE job'[i] = job[i]
  <2>1. j # i /\ \E next : Credentials!Go(j, next)
        BY <1>0, <1>3 DEF Credentials!HandleAdminUpdateUser
  <2> QED BY <1>1, <2>1
<1>4. ASSUME NEW j \in Jobs, Credentials!ResetOwn(j) \/ Credentials!WriteName(j) \/ Credentials!CreateSession(j) \/ Credentials!CreateAPIToken(j)
      PROVE  job'[i] = job[i]
  <2>1. j # i /\ Credentials!Go(j, Credentials!Idle)
        BY <1>4 DEF Credentials!ResetOwn, Credentials!WriteName, Credentials!CreateSession, Credentials!CreateAPIToken
  <2> QED BY <1>1, <2>1
<1>5. ASSUME NEW j \in Jobs, Credentials!ChangePassword(j) \/ Credentials!UpdatePassword(j) \/ Credentials!AdminUpdateUser(j) PROVE job'[i] = job[i]
  <2>1. j # i /\ \E next, u : Credentials!Go(j, next) \/ Credentials!GoLate(j, next, u)
        BY <1>5 DEF Credentials!ChangePassword, Credentials!UpdatePassword, Credentials!AdminUpdateUser
  <2> QED BY <1>1, <2>1
<1>6. ASSUME NEW j \in Jobs, j # i, Credentials!DeleteUserSessions(j) \/ Credentials!DeleteUserSessionsExcept(j) PROVE job'[i] = job[i]
  <2>1. \E next : Credentials!Go(j, next)
        BY <1>6 DEF Credentials!DeleteUserSessions, Credentials!DeleteUserSessionsExcept
  <2> QED BY <1>1, <1>6, <2>1
<1> QED BY <1>2, <1>3, <1>4, <1>5, <1>6 DEF Credentials!Next, Credentials!vars, Credentials!SetResetSwitch, Credentials!HandleAdminResetNodeCreds,
        Credentials!BuyRenewal, Credentials!RevokeSession, Credentials!RevokeAPIToken, Credentials!DeleteUser, Credentials!Tick

\* A session that stays, of a member whose password and status stay, is as it was
LEMMA StaysFair ==
  ASSUME CredsTyped, [Credentials!Next]_(Credentials!vars), NEW s \in session, s \in session', SessionsFair, Fresh(s) => Fresh(s)'
  PROVE  s.late \/ Fresh(s)' \/ \E i \in Jobs : Ends(i, s)'
<1>1. CASE s.late \/ Fresh(s)
      BY <1>1
<1>2. ASSUME NEW i \in Jobs, Ends(i, s) PROVE Ends(i, s)'
  <2>1. CASE job'[i] = job[i]
        BY <1>2, <2>1 DEF Ends
  <2>2. ~Credentials!DeleteUserSessions(i)
        BY <1>2 DEF Ends, Credentials!DeleteUserSessions
  <2>3. ~Credentials!DeleteUserSessionsExcept(i)
        BY <1>2 DEF Ends, Credentials!DeleteUserSessionsExcept
  <2> QED BY <1>2, <2>1, <2>2, <2>3, EndersStay DEF Ends
<1> QED BY <1>1, <1>2 DEF SessionsFair

\* Whose password or status a step writes
LEMMA PasswordsWritten ==
  ASSUME CredsSane, CredsTyped, [Credentials!Next]_(Credentials!vars), NEW v \in Users
  PROVE  \/ user'[v].password = user[v].password /\ user'[v].status = user[v].status
         \/ user'[v].status = "gone" /\ Credentials!DeleteUser
         \/ \E j \in Jobs : (Credentials!ChangePassword(j) \/ Credentials!UpdatePassword(j) \/ Credentials!AdminUpdateUser(j)) /\ job[j].user = v
<1>1. CASE UNCHANGED user
      BY <1>1
<1>2. ASSUME NEW u \in Users, Credentials!RotateNodeCredentials(u)
      PROVE  user'[v].password = user[v].password /\ user'[v].status = user[v].status
      BY <1>2, ResetWrites DEF CredsTyped
<1>3. ASSUME NEW j \in Jobs, Credentials!WriteName(j)
      PROVE  user'[v].password = user[v].password /\ user'[v].status = user[v].status
      BY <1>3, NameWrites
<1>4. ASSUME NEW j \in Jobs, Credentials!ChangePassword(j) \/ Credentials!UpdatePassword(j) \/ Credentials!AdminUpdateUser(j), job[j].user # v
      PROVE  user'[v] = user[v]
      BY <1>4, EditWrites
<1>5. CASE Credentials!BuyRenewal
      BY <1>5, RenewalWrites
<1>6. CASE Credentials!DeleteUser
      BY <1>6, DeletionWrites
<1> QED BY <1>1, <1>2, <1>3, <1>4, <1>5, <1>6, WhoWrites

\* A password or a status that changes: the sessions of the member are fresh or to be
\* ended, and its logins under way are told apart
LEMMA ChangesAreFair ==
  ASSUME CredsSane, CredsTyped, SessionsFair, [Credentials!Next]_(Credentials!vars), NEW j \in Jobs,
         Credentials!ChangePassword(j) \/ Credentials!UpdatePassword(j) \/ Credentials!AdminUpdateUser(j)
  PROVE  /\ \A s \in session' : s.late \/ Fresh(s)' \/ \E i \in Jobs : Ends(i, s)'
         /\ \A i \in Jobs : job[i].at = "login" /\ job[i].user = job[j].user /\ ~job'[i].late =>
              user'[job[i].user].password = user[job[i].user].password
              /\ (user[job[i].user].status = "active" => user'[job[i].user].status = "active")
<1> DEFINE u == job[j].user
<1>0. /\ u \in Users /\ job \in [Jobs -> Request] /\ session \subseteq SessionRow
      /\ \A v \in Users : v # u => user'[v] = user[v]
      BY EditWrites DEF CredsTyped
<1>1. ASSUME NEW next, Credentials!GoLate(j, next, u), next.at \in {"kick", "others", "expel"} /\ next.user = u
      PROVE  /\ job'[j] = next
             /\ \A i \in Jobs : job[i].at = "login" /\ job[i].user = u => i = j \/ job'[i].late
  <2>1. job'[j] = next
        BY <1>1 DEF Credentials!GoLate
  <2>2. ASSUME NEW i \in Jobs, i # j, job[i].at = "login", job[i].user = u PROVE job'[i].late
    <3>1. job'[i] = [job[i] EXCEPT !.late = TRUE]
          BY <1>1, <2>2 DEF Credentials!GoLate
    <3>2. job[i] \in LoginJob
          BY <2>2, Requests
    <3> QED BY <3>1, <3>2 DEF LoginJob
  <2> QED BY <2>1, <2>2
<1>2. job[j].at # "login"
      BY DEF Credentials!ChangePassword, Credentials!UpdatePassword, Credentials!AdminUpdateUser
<1>3. CASE UNCHANGED <<user, session>>
      BY <1>3, StaysFair DEF Fresh
<1>4. CASE Credentials!ChangePassword(j) /\ ~UNCHANGED <<user, session>>
  <2>1. /\ Credentials!Live(u) /\ Credentials!GoLate(j, [job[j] EXCEPT !.at = "others"], u)
        /\ session' = {IF s.jti = job[j].jti /\ s.user = u
                             THEN [s EXCEPT !.password = user[u].password + 1] ELSE s : s \in session}
        /\ user' = [user EXCEPT ![u].password = user[u].password + 1]
        BY <1>4 DEF Credentials!ChangePassword
  <2>2. job[j] \in ChangeJob
        BY <1>4, Requests DEF Credentials!ChangePassword
  <2>3. /\ [job[j] EXCEPT !.at = "others"].at = "others" /\ [job[j] EXCEPT !.at = "others"].user = u
        /\ [job[j] EXCEPT !.at = "others"].jti = job[j].jti
        BY <2>2 DEF ChangeJob
  <2>4. job'[j].at = "others" /\ job'[j].user = u /\ job'[j].jti = job[j].jti
        /\ \A i \in Jobs : job[i].at = "login" /\ job[i].user = u => job'[i].late
        BY <1>1, <1>2, <2>1, <2>3
  <2>5. user'[u].password = user[u].password + 1 /\ user'[u].status = user[u].status
        BY <1>0, <1>4, <2>1, EditWrites DEF CredsTyped, MemberRow
  <2>6. ASSUME NEW s \in session, s.user # u PROVE s.late \/ Fresh(s)' \/ \E i \in Jobs : Ends(i, s)'
    <3>1. s \in session' /\ s.user \in Users
          BY <1>0, <2>1, <2>6 DEF SessionRow
    <3>2. Fresh(s) => Fresh(s)'
          BY <1>0, <2>6, <3>1 DEF Fresh
    <3> QED BY <3>1, <3>2, StaysFair
  <2>7. ASSUME NEW s \in session, s.user = u, s.jti # job[j].jti PROVE Ends(j, s)'
        BY <2>4, <2>7 DEF Ends
  <2>8. ASSUME NEW s \in session, NEW t, s.user = u, s.jti = job[j].jti,
               t = [s EXCEPT !.password = user[u].password + 1]
        PROVE  t.late \/ Fresh(t)' \/ \E i \in Jobs : Ends(i, t)'
    <3>1. t.late = s.late /\ t.password = user[u].password + 1 /\ t.user = u /\ t.jti = s.jti
          BY <1>0, <2>8 DEF SessionRow
    <3>2. Fresh(s) => Fresh(t)'
          BY <2>5, <2>8, <3>1 DEF Fresh
    <3>3. ASSUME NEW i \in Jobs, Ends(i, s) PROVE Ends(i, t)'
      <4>1. job'[i] = job[i]
        <5>1. ~Credentials!DeleteUserSessions(i) /\ ~Credentials!DeleteUserSessionsExcept(i)
              BY <1>0, <1>4, <2>4 DEF Credentials!DeleteUserSessions, Credentials!DeleteUserSessionsExcept, Credentials!Go, Credentials!ChangePassword
        <5> QED BY <3>3, <5>1, EndersStay DEF Ends
      <4> QED BY <2>8, <3>1, <3>3, <4>1 DEF Ends
    <3> QED BY <3>1, <3>2, <3>3 DEF SessionsFair
  <2>9. \A t \in session' : t.late \/ Fresh(t)' \/ \E i \in Jobs : Ends(i, t)'
        BY <2>1, <2>6, <2>7, <2>8
  <2> QED BY <2>4, <2>9
<1>5. CASE Credentials!UpdatePassword(j)
  <2>1. Credentials!GoLate(j, [job[j] EXCEPT !.at = "kick"], u) /\ UNCHANGED session
        BY <1>5 DEF Credentials!UpdatePassword
  <2>2. job[j] \in EditJob
        BY <1>5, Requests DEF Credentials!UpdatePassword
  <2>3. [job[j] EXCEPT !.at = "kick"].at = "kick" /\ [job[j] EXCEPT !.at = "kick"].user = u
        BY <2>2 DEF EditJob
  <2>4. job'[j].at = "kick" /\ job'[j].user = u
        /\ \A i \in Jobs : job[i].at = "login" /\ job[i].user = u => job'[i].late
        BY <1>1, <1>2, <2>1, <2>3
  <2>5. ASSUME NEW s \in session PROVE s.late \/ Fresh(s)' \/ \E i \in Jobs : Ends(i, s)'
    <3>1. CASE s.user = u
          BY <2>4, <3>1 DEF Ends
    <3>2. CASE s.user # u
      <4>1. Fresh(s) => Fresh(s)'
            BY <1>0, <3>2 DEF Fresh, SessionRow
      <4> QED BY <2>1, <4>1, StaysFair
    <3> QED BY <3>1, <3>2
  <2> QED BY <2>1, <2>4, <2>5
<1>6. CASE Credentials!AdminUpdateUser(j) /\ job[j].status = "banned"
  <2>1. Credentials!GoLate(j, [job[j] EXCEPT !.at = "expel"], u) /\ UNCHANGED session
        BY <1>6 DEF Credentials!AdminUpdateUser
  <2>2. job[j] \in EditJob
        BY <1>6, Requests DEF Credentials!AdminUpdateUser
  <2>3. [job[j] EXCEPT !.at = "expel"].at = "expel" /\ [job[j] EXCEPT !.at = "expel"].user = u
        BY <2>2 DEF EditJob
  <2>4. job'[j].at = "expel" /\ job'[j].user = u
        /\ \A i \in Jobs : job[i].at = "login" /\ job[i].user = u => job'[i].late
        BY <1>1, <1>2, <2>1, <2>3
  <2>5. ASSUME NEW s \in session PROVE s.late \/ Fresh(s)' \/ \E i \in Jobs : Ends(i, s)'
    <3>1. CASE s.user = u
          BY <2>4, <3>1 DEF Ends
    <3>2. CASE s.user # u
      <4>1. Fresh(s) => Fresh(s)'
            BY <1>0, <3>2 DEF Fresh, SessionRow
      <4> QED BY <2>1, <4>1, StaysFair
    <3> QED BY <3>1, <3>2
  <2> QED BY <2>1, <2>4, <2>5
<1>7. CASE Credentials!AdminUpdateUser(j) /\ job[j].status # "banned"
  <2>1. job[j].status = "active" /\ UNCHANGED session
        BY <1>7, Requests DEF Credentials!AdminUpdateUser, EditJob
  <2>2. /\ user'[u].password = user[u].password
        /\ user'[u].status = IF Credentials!Live(u) THEN "active" ELSE "gone"
        BY <1>7, <2>1, EditWrites
  <2>3. user[u].status = "active" => user'[u].status = "active"
        BY <2>2 DEF Credentials!Live
  <2>4. \A s \in session : Fresh(s) => Fresh(s)'
        BY <1>0, <2>2, <2>3 DEF Fresh, SessionRow
  <2> QED BY <2>1, <2>2, <2>3, <2>4, StaysFair
<1> QED BY <1>3, <1>4, <1>5, <1>6, <1>7

LEMMA SessionsStep ==
  ASSUME CredsSane, CredsTyped, SessionsFair, [Credentials!Next]_(Credentials!vars)
  PROVE  SessionsFair'
<1>t. session \subseteq SessionRow /\ session' \subseteq SessionRow /\ CredsTyped'
      BY CredsTypedStep DEF CredsTyped
<1>1. CASE \E j \in Jobs : Credentials!ChangePassword(j) \/ Credentials!UpdatePassword(j) \/ Credentials!AdminUpdateUser(j)
  <2>1. PICK j \in Jobs : Credentials!ChangePassword(j) \/ Credentials!UpdatePassword(j) \/ Credentials!AdminUpdateUser(j)
        BY <1>1
  <2>2. ASSUME NEW i \in Jobs, job'[i].at = "login", ~job'[i].late, Credentials!Live(job[i].user)' PROVE Fresh(job[i])'
    <3>1. job'[i] = job[i]
      <4>1. ~Credentials!HandleLogin(i)
        <5>1. UNCHANGED ops
              BY <2>1 DEF Credentials!ChangePassword, Credentials!UpdatePassword, Credentials!AdminUpdateUser
        <5>2. Credentials!HandleLogin(i) => ops' = ops + 1 /\ ops \in Nat
              BY DEF Credentials!HandleLogin, Credentials!Spend, CredsTyped
        <5> QED BY <5>1, <5>2
      <4>2. job[i].at = "login" => [job[i] EXCEPT !.late = TRUE].late
            BY Requests DEF LoginJob
      <4> QED BY <2>2, <4>1, <4>2, RequestsStart
    <3>2. job[i].at = "login" /\ ~job[i].late /\ job[i].user \in Users /\ job[j].user \in Users
          BY <2>1, <2>2, <3>1, Requests, EditWrites DEF LoginJob
    <3>3. CASE job[i].user = job[j].user
      <4>1. user'[job[i].user].password = user[job[i].user].password
            /\ (user[job[i].user].status = "active" => user'[job[i].user].status = "active")
            BY <2>1, <2>2, <3>1, <3>2, <3>3, ChangesAreFair
      <4>2. Credentials!Live(job[i].user)
        <5>1. Credentials!ChangePassword(j) \/ Credentials!UpdatePassword(j) => user'[job[i].user].status = user[job[i].user].status
              BY <2>1, <3>3, EditWrites
        <5>2. Credentials!AdminUpdateUser(j) => Credentials!Live(job[i].user) \/ user'[job[i].user].status = "gone"
              BY <2>1, <3>3, EditWrites
        <5> QED BY <2>1, <2>2, <3>1, <5>1, <5>2 DEF Credentials!Live
      <4> QED BY <3>1, <3>2, <4>1, <4>2 DEF SessionsFair, Fresh
    <3>4. CASE job[i].user # job[j].user
      <4>1. user'[job[i].user] = user[job[i].user]
            BY <2>1, <3>2, <3>4, EditWrites
      <4> QED BY <2>2, <3>1, <3>2, <4>1 DEF SessionsFair, Fresh, Credentials!Live
    <3> QED BY <3>3, <3>4
  <2>3. \A s \in session' : s.late \/ Fresh(s)' \/ \E i \in Jobs : Ends(i, s)'
        BY <2>1, ChangesAreFair
  <2> QED BY <2>2, <2>3 DEF SessionsFair
<1>2. CASE ~\E j \in Jobs : Credentials!ChangePassword(j) \/ Credentials!UpdatePassword(j) \/ Credentials!AdminUpdateUser(j)
  <2>1. \A v \in Users : \/ user'[v].password = user[v].password /\ user'[v].status = user[v].status
                         \/ user'[v].status = "gone" /\ Credentials!DeleteUser
        BY <1>2, PasswordsWritten
  <2>2. ASSUME NEW i \in Jobs, job'[i].at = "login", ~job'[i].late, Credentials!Live(job[i].user)' PROVE Fresh(job[i])'
    <3>1. CASE job'[i] = job[i]
      <4>1. job[i].user \in Users /\ job[i].at = "login"
            BY <2>2, <3>1, Requests DEF LoginJob
      <4> QED BY <2>1, <2>2, <3>1, <4>1 DEF SessionsFair, Fresh, Credentials!Live
    <3>2. CASE Credentials!HandleLogin(i)
      <4>1. PICK u \in Users, d \in Devices :
              /\ user[u].status = "active"
              /\ Credentials!Go(i, [at |-> "login", user |-> u, device |-> d, jti |-> ops', late |-> FALSE,
                                    password |-> user[u].password])
            BY <3>2 DEF Credentials!HandleLogin
      <4>2. job'[i].user = u /\ job'[i].password = user[u].password /\ UNCHANGED user
            BY <3>2, <4>1 DEF Credentials!Go, CredsTyped, Credentials!HandleLogin
      <4> QED BY <4>1, <4>2 DEF Fresh
    <3>3. job[i].at = "login" => [job[i] EXCEPT !.late = TRUE].late
          BY Requests DEF LoginJob
    <3> QED BY <2>2, <3>1, <3>2, <3>3, RequestsStart
  <2>3. ASSUME NEW s \in session' PROVE s.late \/ Fresh(s)' \/ \E i \in Jobs : Ends(i, s)'
    <3>1. CASE s \in session
      <4>1. CASE Credentials!DeleteUser
        <5>1. PICK u \in Users : session' = {x \in session : x.user # u} /\ \A v \in Users \ {u} : user'[v] = user[v]
              BY <4>1, DeletionWrites
        <5>2. Fresh(s) => Fresh(s)'
              BY <1>t, <5>1 DEF Fresh, SessionRow
        <5> QED BY <3>1, <5>2, StaysFair
      <4>2. CASE ~Credentials!DeleteUser
        <5>1. Fresh(s) => Fresh(s)'
              BY <1>t, <2>1, <4>2 DEF Fresh, SessionRow
        <5> QED BY <3>1, <5>1, StaysFair
      <4> QED BY <4>1, <4>2
    <3>2. ASSUME NEW j \in Jobs, Credentials!CreateSession(j), s \notin session PROVE s.late \/ Fresh(s)'
      <4>1. /\ Credentials!Live(job[j].user) /\ UNCHANGED user /\ job[j].at = "login"
            /\ s = [user |-> job[j].user, device |-> job[j].device, jti |-> job[j].jti,
                    password |-> job[j].password, late |-> job[j].late]
            BY <3>2 DEF Credentials!CreateSession
      <4> QED BY <4>1 DEF SessionsFair, Fresh
    <3>3. s \in session \/ \E j \in Jobs : Credentials!CreateSession(j)
          BY <1>2 DEF Credentials!Next, Credentials!vars, Credentials!SetResetSwitch, Credentials!HandleResetNodeCreds, Credentials!Tick, Credentials!ResetOwn, Credentials!RotateNodeCredentials,
           Credentials!HandleAdminResetNodeCreds, Credentials!BuyRenewal, Credentials!CheckName, Credentials!WriteName, Credentials!HandleLogin,
           Credentials!HandleChangePassword, Credentials!DeleteUserSessionsExcept, Credentials!RevokeSession,
           Credentials!HandleAdminCreateAPIToken, Credentials!CreateAPIToken, Credentials!RevokeAPIToken, Credentials!HandleAdminUpdateUser,
           Credentials!DeleteUserSessions, Credentials!DeleteUser
    <3> QED BY <3>1, <3>2, <3>3
  <2> QED BY <2>2, <2>3 DEF SessionsFair
<1> QED BY <1>1, <1>2

LEMMA CredsInvStep == ASSUME CredsSane, CredsInv, [Credentials!Next]_(Credentials!vars) PROVE CredsInv'
BY CredsTypedStep, SecretsStep, LoginsStep, NamesStep, SessionsStep, TokensStep DEF CredsInv

LEMMA CredsInvSettles == CredsInv => Credentials!CredentialsAreSettled
<1> SUFFICES ASSUME CredsInv PROVE Credentials!CredentialsAreSettled
    OBVIOUS
<1>1. Credentials!RevokedIsRefused
  <2>1. ASSUME NEW d \in dead PROVE d.secret \notin Credentials!Accepted(d.user)
    <3>1. d.user \in Users /\ d.secret \in Nat /\ d.secret < user[d.user].secret /\ user[d.user].secret \in Nat
          BY DEF CredsInv, SecretsMove, CredsTyped, MemberRow
    <3>2. \A a \in alias : a.user = d.user => a.secret # d.secret
          BY DEF CredsInv, SecretsMove
    <3> QED BY <3>1, <3>2 DEF Credentials!Accepted
  <2> QED BY <2>1 DEF Credentials!RevokedIsRefused, CredsInv, SecretsMove
<1>2. Credentials!SessionsEnd
      BY DEF CredsInv, SessionsFair, Credentials!SessionsEnd, Fresh, Ends
<1>3. \A t \in apiToken : t.held => ~Credentials!Usable(t)
      BY DEF CredsInv, HeldAreRevoked, Credentials!Usable
<1> QED BY <1>1, <1>2, <1>3 DEF CredsInv, LoginsHold, Credentials!CredentialsAreSettled

\* However requests interleave, a revoked node secret is refused, a reset keeps the proxy logins
\* that were handed out, a name meters one bucket unless two requests chose it together, and a
\* new password or a ban ends the sessions and tokens it should (Pinned, ProxyNameTaken,
\* DeleteUserSessionsExcept, AdminUpdateUser).
THEOREM WhatIsTakenStaysAway == Spec => []CredentialsAreSettled
<1> DEFINE Inv == scenario = "credentials" => CredsInv
<1>1. Init => Inv
      BY CredsInit, PanelIsSane DEF Init
<1>2. Inv /\ [Next]_vars => Inv'
  <2> SUFFICES ASSUME Inv, [Next]_vars, scenario = "credentials"
               PROVE  CredsInv'
      BY DEF Next, vars
  <2>1. [Credentials!Next]_(Credentials!vars)
        BY DEF Next, vars, Credentials!vars, credentialsOnly
  <2> QED BY <2>1, CredsInvStep, PanelIsSane
<1>3. Inv => CredentialsAreSettled
      BY CredsInvSettles, PanelIsSane DEF CredentialsAreSettled
<1> QED BY <1>1, <1>2, <1>3, PTL DEF Spec
-----------------------------------------------------------------------------
(* Notifications                                                             *)
LinkRow == [user : Members, used : BOOLEAN, binds : {0, 1}]
BindRow == [chat : Chats, expiry : BOOLEAN, traffic : BOOLEAN]
Sent == [chat : Chats, what : {"start", "unbind"}, token : Nat]
MailTo == {None, "a", "b"}
Mailbox == [address : MailTo, on : BOOLEAN]
PlanRead == [level : {"none", "enough", "low", "out"}, end : {"far", "soon", "past", "old"},
             renewed : BOOLEAN, edition : Nat]
NoticeKeys == Notifications!Media \X Members \X {"traffic_low", "traffic_exhausted", "expiry_soon", "expired"} \X Nat
Listed == [user : Members, medium : Notifications!Media, bound : BindRow \cup {None}]
SweepState == [at : {"idle", "user", "notice", "send"}, left : Seq(Listed), todo : Seq(NoticeKeys),
               user : Members \cup {None}, dest : Chats \cup MailTo]
Recipient == [status : {"pending", "sending", "sent", "failed", "skipped"}, to : Chats \cup MailTo,
              heard : {0, 1}]
Worker == [at : {"idle", "start", "list", "claim", "send", "record"}, row : (Members \X Notifications!Media) \cup {None},
           result : {"sent", "failed", "skipped"}]

\* A link binds when it is spent, and is spent once
LinksSpent ==
  /\ tokens \in Seq(LinkRow)
  /\ \A t \in DOMAIN tokens : tokens[t].binds = 1 => tokens[t].used

\* How often each key was heard, and how often the panel took that for a failure: one count a key
ToldRight ==
  /\ told \subseteq NoticeKeys \X Nat \X Nat
  /\ \A x \in told : x[2] \in {x[3], x[3] + 1} /\ (x[1][1] = "email" => x[3] = 0)
  /\ \A x, y \in told : x[1] = y[1] => x = y

NoticesTyped ==
  /\ bind \in [Members -> BindRow \cup {None}]
  /\ updates \in Seq(Sent) /\ offset \in Nat /\ offset <= Len(updates)
  /\ mail \in [Members -> Mailbox]
  /\ plan \in [Members -> PlanRead]
  /\ claims \subseteq NoticeKeys /\ ToldRight
  /\ sweep \in SweepState
  /\ \A i \in DOMAIN sweep.left : sweep.left[i].medium = "telegram" => sweep.left[i].bound # None

\* The panel took every delivery for a failure
Unanswered(x) == x[2] = x[3]

\* What was told and is no longer claimed is of a condition that has passed, and the
\* sweep is not about to tell it
Passed(key) ==
  /\ <<key[3], key[4]>> \notin Notifications!Kinds(plan[key[2]])
  /\ \A i \in DOMAIN sweep.todo : sweep.todo[i] # key

NoticesKept ==
  /\ \A key \in claims \ (reached \cup unsure) : sweep.at = "send" /\ Head(sweep.todo) = key
  /\ sweep.at = "send" => /\ sweep.todo # <<>> /\ Head(sweep.todo) \in claims
                          /\ \A x \in told : x[1] # Head(sweep.todo) \/ Unanswered(x)
  /\ \A x \in told : Unanswered(x) \/ x[1] \in claims \/ Passed(x[1])

\* A row is marked sent when it was heard, and pending or skipped when not
RowTrue(x) == /\ x.status = "sent" => x.heard = 1
              /\ x.status \in {"pending", "skipped"} => x.heard = 0

\* What a worker will record of the row in its hands is what happened
WorkTrue(k, x) == /\ x.status \in {"sending", "failed"}
                  /\ k.at = "send" => x.heard = 0
                  /\ k.at = "record" /\ k.result = "sent" => x.heard = 1
                  /\ k.at = "record" /\ k.result = "skipped" => x.heard = 0

Deliverers == {"handler", "resume"}
Holds(k) == k.at \in {"send", "record"}

\* No row is in two workers' hands
RowsKept ==
  /\ DOMAIN rows \subseteq Members \X Notifications!Media /\ rows \in [DOMAIN rows -> Recipient]
  /\ workers \in [Deliverers -> Worker]
  /\ \A r \in DOMAIN rows : RowTrue(rows[r])
  /\ \A w \in Deliverers : Holds(workers[w]) =>
       workers[w].row \in DOMAIN rows /\ WorkTrue(workers[w], rows[workers[w].row])
  /\ \A v, w \in Deliverers : v # w /\ Holds(workers[v]) /\ Holds(workers[w]) => workers[v].row # workers[w].row

NoticesInv == LinksSpent /\ NoticesTyped /\ NoticesKept /\ RowsKept

LEMMA NoticesInit == ASSUME Notifications!Init PROVE NoticesInv
<1>1. LinksSpent
      BY DEF Notifications!Init, LinksSpent
<1>2. sweep \in SweepState
      BY DEF Notifications!Init, SweepState, Notifications!Idle, MailTo
<1>3. plan \in [Members -> PlanRead] /\ mail \in [Members -> Mailbox]
  <2>1. [level |-> "enough", end |-> "far", renewed |-> FALSE, edition |-> 0] \in PlanRead
        BY DEF PlanRead
  <2>2. {[address |-> None, on |-> TRUE], [address |-> "a", on |-> TRUE]} \subseteq Mailbox
        BY DEF Mailbox, MailTo
  <2> QED BY <2>1, <2>2 DEF Notifications!Init
<1>4. NoticesTyped
  <2>1. [chat : Chats, expiry : {TRUE}, traffic : {TRUE}] \subseteq BindRow
        BY DEF BindRow
  <2>2. bind \in [Members -> BindRow \cup {None}] /\ ToldRight
        BY <2>1 DEF Notifications!Init, ToldRight
  <2> QED BY <1>2, <1>3, <2>2 DEF Notifications!Init, NoticesTyped, Notifications!Idle
<1>5. NoticesKept
      BY DEF Notifications!Init, NoticesKept, Notifications!Idle
<1>6. workers \in [Deliverers -> Worker] /\ \A w \in Deliverers : ~Holds(workers[w])
      BY DEF Notifications!Init, Worker, Notifications!Rest, Holds, Deliverers
<1>7. RowsKept
  <2>1. rows = << >> /\ DOMAIN rows = {} /\ rows \in [DOMAIN rows -> Recipient]
        BY DEF Notifications!Init
  <2> QED BY <1>6, <2>1 DEF RowsKept
<1> QED BY <1>1, <1>4, <1>5, <1>7 DEF NoticesInv

-----------------------------------------------------------------------------
(* Binding                                                                   *)

LEMMA LinksStep ==
  ASSUME LinksSpent, NoticesTyped, [Notifications!Next]_(Notifications!vars)
  PROVE  LinksSpent'
<1>1. CASE UNCHANGED tokens
      BY <1>1 DEF LinksSpent
<1>2. CASE \E u \in Members : Notifications!CreateTelegramBindToken(u)
  <2>1. PICK u \in Members : Notifications!CreateTelegramBindToken(u)
        BY <1>2
  <2> DEFINE spent == [t \in DOMAIN tokens |-> IF tokens[t].user = u THEN [tokens[t] EXCEPT !.used = TRUE]
                                               ELSE tokens[t]]
             fresh == [user |-> u, used |-> FALSE, binds |-> 0]
  <2>2. tokens' = Append(spent, fresh)
        BY <2>1 DEF Notifications!CreateTelegramBindToken
  <2>3. \A t \in DOMAIN tokens : tokens[t] \in LinkRow
        BY DEF LinksSpent
  <2>4. \A t \in DOMAIN tokens : [tokens[t] EXCEPT !.used = TRUE] \in LinkRow
        BY <2>3 DEF LinkRow
  <2>5. spent \in Seq(LinkRow) /\ DOMAIN spent = DOMAIN tokens /\ Len(spent) = Len(tokens)
        BY <2>3, <2>4 DEF LinksSpent
  <2>6. \A t \in DOMAIN tokens : spent[t].binds = 1 => spent[t].used
        BY <2>3 DEF LinksSpent, LinkRow
  <2>7. fresh \in LinkRow
        BY DEF LinkRow
  <2>8. fresh.binds = 0
        OBVIOUS
  <2> HIDE DEF spent, fresh
  <2>9. tokens' \in Seq(LinkRow)
        BY <2>2, <2>5, <2>7
  <2>10. \A t \in DOMAIN tokens' : tokens'[t].binds = 1 => tokens'[t].used
        BY <2>2, <2>5, <2>6, <2>7, <2>8
  <2> QED BY <2>9, <2>10 DEF LinksSpent
<1>3. CASE Notifications!HandleTelegramUpdate /\ ~UNCHANGED tokens
  <2>1. PICK t, c : Notifications!BindTelegramWithToken(t, c) /\ ~UNCHANGED tokens
        BY <1>3 DEF Notifications!HandleTelegramUpdate, Notifications!UnbindTelegramByTelegramID
  <2>2. ~tokens[t].used /\ tokens' = [tokens EXCEPT ![t].used = TRUE, ![t].binds = @ + 1]
        BY <2>1 DEF Notifications!BindTelegramWithToken
  <2>3. tokens \in [1..Len(tokens) -> LinkRow] /\ Len(tokens) \in Nat /\ DOMAIN tokens = 1..Len(tokens)
        BY DEF LinksSpent
  <2>4. t \in DOMAIN tokens
        BY <2>1, <2>2, <2>3
  <2>5. tokens[t] \in LinkRow /\ tokens[t].binds = 0
        BY <2>2, <2>3, <2>4 DEF LinksSpent, LinkRow
  <2> DEFINE after == [user |-> tokens[t].user, used |-> TRUE, binds |-> 1]
  <2>6. after \in LinkRow
        BY <2>5 DEF LinkRow
  <2>7. tokens' = [tokens EXCEPT ![t] = after]
    <3>1. tokens[t] = [user |-> tokens[t].user, used |-> tokens[t].used, binds |-> tokens[t].binds]
          BY <2>5 DEF LinkRow
    <3> QED BY <2>2, <2>3, <2>4, <2>5, <3>1
  <2>8. after.used
        OBVIOUS
  <2> HIDE DEF after
  <2>9. tokens' \in [1..Len(tokens) -> LinkRow]
        BY <2>3, <2>6, <2>7
  <2>10. tokens' \in Seq(LinkRow) /\ DOMAIN tokens' = DOMAIN tokens
        BY <2>3, <2>9
  <2>11. \A s \in DOMAIN tokens : tokens'[s] = IF s = t THEN after ELSE tokens[s]
        BY <2>3, <2>7
  <2> QED BY <2>8, <2>10, <2>11 DEF LinksSpent
<1> QED BY <1>1, <1>2, <1>3 DEF Notifications!Next, Notifications!vars, Notifications!UnbindTelegram, Notifications!Command, Notifications!GetUpdates, Notifications!SetTelegramNotify, Notifications!SetMail,
       Notifications!Configure, Notifications!Turn, Notifications!SweepNotifies, Notifications!SweepUser, Notifications!SweepEnds, Notifications!ClaimNotify, Notifications!SendNotice, Notifications!CreateManualNotification,
       Notifications!ClaimManualNotificationRecipient, Notifications!NothingPending, Notifications!SetResult, Notifications!Deliver, Notifications!binding,
       Notifications!FailInterruptedManualNotifications, Notifications!ListPendingManualNotificationIDs, Notifications!Restart

LEMMA BindsTyped ==
  ASSUME LinksSpent, NoticesTyped, [Notifications!Next]_(Notifications!vars)
  PROVE  bind' \in [Members -> BindRow \cup {None}]
<1>0. bind \in [Members -> BindRow \cup {None}]
      BY DEF NoticesTyped
<1>1. CASE UNCHANGED bind
      BY <1>0, <1>1
<1>2. CASE Notifications!HandleTelegramUpdate
  <2>1. offset < Len(updates)
        BY <1>2 DEF Notifications!HandleTelegramUpdate
  <2>2. updates[offset + 1] \in Sent
        BY <2>1 DEF NoticesTyped
  <2> DEFINE m == updates[offset + 1]
  <2>3. m.chat \in Chats
        BY <2>2 DEF Sent
  <2> HIDE DEF m
  <2>4. CASE Notifications!BindTelegramWithToken(m.token, m.chat)
    <3>1. \/ UNCHANGED bind
          \/ \E u : bind' = [bind EXCEPT ![u] = IF @ = None THEN [chat |-> m.chat, expiry |-> TRUE, traffic |-> TRUE]
                                                ELSE [@ EXCEPT !.chat = m.chat]]
          BY <2>4 DEF Notifications!BindTelegramWithToken
    <3>2. ASSUME NEW u, bind' = [bind EXCEPT ![u] = IF @ = None THEN [chat |-> m.chat, expiry |-> TRUE, traffic |-> TRUE]
                                                ELSE [@ EXCEPT !.chat = m.chat]]
          PROVE  bind' \in [Members -> BindRow \cup {None}]
      <4>1. CASE u \notin Members
            BY <1>0, <3>2, <4>1
      <4>2. CASE u \in Members
        <5> DEFINE v == IF bind[u] = None THEN [chat |-> m.chat, expiry |-> TRUE, traffic |-> TRUE]
                                                ELSE [bind[u] EXCEPT !.chat = m.chat]
        <5>1. v \in BindRow \cup {None}
          <6>1. CASE bind[u] = None
                BY <2>3, <6>1 DEF BindRow
          <6>2. CASE bind[u] # None
            <7>1. bind[u] \in BindRow
                  BY <1>0, <4>2, <6>2
            <7> QED BY <2>3, <6>2, <7>1 DEF BindRow
          <6> QED BY <6>1, <6>2
        <5>2. bind' = [bind EXCEPT ![u] = v]
              BY <3>2
        <5> HIDE DEF v
        <5> QED BY <1>0, <5>1, <5>2
      <4> QED BY <4>1, <4>2
    <3> QED BY <1>0, <3>1, <3>2
  <2>5. CASE Notifications!UnbindTelegramByTelegramID(m.chat)
        BY <1>0, <2>5 DEF Notifications!UnbindTelegramByTelegramID
  <2> QED BY <1>2, <2>4, <2>5 DEF Notifications!HandleTelegramUpdate, m
<1>3. CASE \E u \in Members : Notifications!UnbindTelegram(u)
      BY <1>0, <1>3 DEF Notifications!UnbindTelegram
<1>4. CASE \E u \in Members, pref \in {"expiry", "traffic"} : Notifications!SetTelegramNotify(u, pref)
  <2>1. PICK u \in Members, pref \in {"expiry", "traffic"} : Notifications!SetTelegramNotify(u, pref)
        BY <1>4
  <2>2. bind[u] \in BindRow
        BY <1>0, <2>1 DEF Notifications!SetTelegramNotify
  <2>3. CASE pref = "expiry"
    <3> DEFINE v == [bind[u] EXCEPT !.expiry = ~@]
    <3>1. v \in BindRow
          BY <2>2 DEF BindRow
    <3>2. bind' = [bind EXCEPT ![u] = v]
          BY <2>1, <2>3 DEF Notifications!SetTelegramNotify
    <3> HIDE DEF v
    <3> QED BY <1>0, <3>1, <3>2
  <2>4. CASE pref # "expiry"
    <3> DEFINE v == [bind[u] EXCEPT !.traffic = ~@]
    <3>1. v \in BindRow
          BY <2>2 DEF BindRow
    <3>2. bind' = [bind EXCEPT ![u] = v]
          BY <2>1, <2>4 DEF Notifications!SetTelegramNotify
    <3> HIDE DEF v
    <3> QED BY <1>0, <3>1, <3>2
  <2> QED BY <2>3, <2>4
<1> QED BY <1>1, <1>2, <1>3, <1>4 DEF Notifications!Next, Notifications!vars, Notifications!CreateTelegramBindToken, Notifications!Command, Notifications!GetUpdates, Notifications!SetMail,
       Notifications!Configure, Notifications!Turn, Notifications!SweepNotifies, Notifications!SweepUser, Notifications!SweepEnds, Notifications!ClaimNotify, Notifications!SendNotice, Notifications!CreateManualNotification,
       Notifications!ClaimManualNotificationRecipient, Notifications!NothingPending, Notifications!SetResult, Notifications!Deliver, Notifications!binding,
       Notifications!FailInterruptedManualNotifications, Notifications!ListPendingManualNotificationIDs, Notifications!Restart

LEMMA UpdatesTyped ==
  ASSUME LinksSpent, NoticesTyped, [Notifications!Next]_(Notifications!vars)
  PROVE  updates' \in Seq(Sent) /\ offset' \in Nat /\ offset' <= Len(updates')
<1>0. updates \in Seq(Sent) /\ offset \in Nat /\ offset <= Len(updates)
      BY DEF NoticesTyped
<1>1. CASE UNCHANGED <<updates, offset>>
      BY <1>0, <1>1
<1>2. ASSUME NEW c \in Chats, NEW t \in Nat, NEW w \in {"start", "unbind"}, Notifications!Command(c, w, t)
      PROVE  updates' \in Seq(Sent) /\ offset' \in Nat /\ offset' <= Len(updates')
  <2>1. [chat |-> c, what |-> w, token |-> t] \in Sent
        BY DEF Sent
  <2>2. updates' = Append(updates, [chat |-> c, what |-> w, token |-> t]) /\ offset' = offset
        BY <1>2 DEF Notifications!Command
  <2> QED BY <1>0, <2>1, <2>2
<1>3. CASE \/ \E c \in Chats, t \in DOMAIN tokens : Notifications!Command(c, "start", t)
           \/ \E c \in Chats : Notifications!Command(c, "unbind", 0)
  <2>1. DOMAIN tokens \subseteq Nat
        BY DEF LinksSpent
  <2> QED BY <1>2, <1>3, <2>1
<1>4. CASE Notifications!HandleTelegramUpdate
      BY <1>0, <1>4 DEF Notifications!HandleTelegramUpdate
<1>5. CASE Notifications!GetUpdates
      BY <1>0, <1>5 DEF Notifications!GetUpdates
<1>6. CASE Notifications!Restart
      BY <1>0, <1>6 DEF Notifications!Restart
<1> QED BY <1>1, <1>3, <1>4, <1>5, <1>6 DEF Notifications!Next, Notifications!vars, Notifications!CreateTelegramBindToken, Notifications!UnbindTelegram, Notifications!SetTelegramNotify, Notifications!SetMail,
       Notifications!Configure, Notifications!Turn, Notifications!SweepNotifies, Notifications!SweepUser, Notifications!SweepEnds, Notifications!ClaimNotify, Notifications!SendNotice, Notifications!CreateManualNotification,
       Notifications!ClaimManualNotificationRecipient, Notifications!NothingPending, Notifications!SetResult, Notifications!Deliver, Notifications!binding,
       Notifications!FailInterruptedManualNotifications, Notifications!ListPendingManualNotificationIDs

LEMMA MailTyped ==
  ASSUME NoticesTyped, [Notifications!Next]_(Notifications!vars)
  PROVE  mail' \in [Members -> Mailbox]
<1>1. CASE \E u \in Members, a \in {None, "a", "b"}, on \in BOOLEAN : Notifications!SetMail(u, [address |-> a, on |-> on])
  <2>1. PICK u \in Members, a \in {None, "a", "b"}, on \in BOOLEAN : Notifications!SetMail(u, [address |-> a, on |-> on])
        BY <1>1
  <2>2. [address |-> a, on |-> on] \in Mailbox
        BY DEF Mailbox, MailTo
  <2> QED BY <2>1, <2>2 DEF Notifications!SetMail, NoticesTyped
<1>2. CASE UNCHANGED mail
      BY <1>2 DEF NoticesTyped
<1> QED BY <1>1, <1>2 DEF Notifications!Next, Notifications!vars, Notifications!CreateTelegramBindToken, Notifications!UnbindTelegram, Notifications!SetTelegramNotify, Notifications!HandleTelegramUpdate,
       Notifications!Command, Notifications!GetUpdates,
       Notifications!Configure, Notifications!Turn, Notifications!SweepNotifies, Notifications!SweepUser, Notifications!SweepEnds, Notifications!ClaimNotify, Notifications!SendNotice, Notifications!CreateManualNotification,
       Notifications!ClaimManualNotificationRecipient, Notifications!NothingPending, Notifications!SetResult, Notifications!Deliver, Notifications!binding,
       Notifications!FailInterruptedManualNotifications, Notifications!ListPendingManualNotificationIDs, Notifications!Restart

LEMMA TurnedTyped ==
  ASSUME NEW p \in PlanRead, NEW q \in Notifications!Turned(p) PROVE q \in PlanRead
<1> USE DEF PlanRead
<1>1. CASE \E l \in {"none", "enough", "low", "out"} : q = [p EXCEPT !.level = l]
      BY <1>1
<1>2. CASE q = [p EXCEPT !.end = IF p.end = "far" THEN "soon" ELSE IF p.end = "soon" THEN "past" ELSE "old"]
      BY <1>2
<1>3. CASE q = [p EXCEPT !.end = "far", !.edition = @ + 1]
  <2>1. p.edition + 1 \in Nat /\ p.level \in {"none", "enough", "low", "out"} /\ p.renewed \in BOOLEAN
        OBVIOUS
  <2>2. q = [level |-> p.level, end |-> "far", renewed |-> p.renewed, edition |-> p.edition + 1]
        BY <1>3
  <2> QED BY <2>1, <2>2
<1>4. CASE q = [p EXCEPT !.renewed = ~@]
      BY <1>4
<1> QED BY <1>1, <1>2, <1>3, <1>4 DEF Notifications!Turned

LEMMA PlansTyped ==
  ASSUME NoticesTyped, [Notifications!Next]_(Notifications!vars)
  PROVE  plan' \in [Members -> PlanRead]
<1>1. CASE \E u \in Members : \E p \in Notifications!Turned(plan[u]) : Notifications!Turn(u, p)
      BY <1>1, TurnedTyped DEF Notifications!Turn, NoticesTyped
<1>2. CASE UNCHANGED plan
      BY <1>2 DEF NoticesTyped
<1> QED BY <1>1, <1>2 DEF Notifications!Next, Notifications!vars, Notifications!CreateTelegramBindToken, Notifications!UnbindTelegram, Notifications!SetTelegramNotify, Notifications!HandleTelegramUpdate,
       Notifications!Command, Notifications!GetUpdates, Notifications!SetMail,
       Notifications!Configure, Notifications!SweepNotifies, Notifications!SweepUser, Notifications!SweepEnds, Notifications!ClaimNotify, Notifications!SendNotice, Notifications!CreateManualNotification,
       Notifications!ClaimManualNotificationRecipient, Notifications!NothingPending, Notifications!SetResult, Notifications!Deliver, Notifications!binding,
       Notifications!FailInterruptedManualNotifications, Notifications!ListPendingManualNotificationIDs, Notifications!Restart

-----------------------------------------------------------------------------
(* Reminders                                                                 *)

\* What the sweep tells a user of is true of the plan it read
LEMMA NoticesOfPlan ==
  ASSUME NoticesTyped, NEW medium \in Notifications!Media, NEW u \in Members, NEW a, NEW b
  PROVE  /\ Notifications!NotifyExpiry(medium, u, a) \o Notifications!NotifyTraffic(medium, u, b) \in Seq(NoticeKeys)
         /\ \A i \in DOMAIN (Notifications!NotifyExpiry(medium, u, a) \o Notifications!NotifyTraffic(medium, u, b)) :
              LET key == (Notifications!NotifyExpiry(medium, u, a) \o Notifications!NotifyTraffic(medium, u, b))[i]
              IN key[2] = u /\ <<key[3], key[4]>> \in Notifications!Kinds(plan[u])
<1> DEFINE p == plan[u]
           soon == <<medium, u, "expiry_soon", p.edition>>
           past == <<medium, u, "expired", p.edition>>
           low == <<medium, u, "traffic_low", 0>>
           out == <<medium, u, "traffic_exhausted", 0>>
<1>1. p \in PlanRead
      BY DEF NoticesTyped
<1>2. soon \in NoticeKeys /\ past \in NoticeKeys /\ low \in NoticeKeys /\ out \in NoticeKeys
      BY <1>1 DEF NoticeKeys, PlanRead
<1>3. \/ Notifications!NotifyExpiry(medium, u, a) = << >>
      \/ p.end = "soon" /\ Notifications!NotifyExpiry(medium, u, a) = <<soon>>
      \/ p.end = "past" /\ Notifications!NotifyExpiry(medium, u, a) = <<past>>
      BY DEF Notifications!NotifyExpiry, Notifications!Key
<1>4. \/ Notifications!NotifyTraffic(medium, u, b) = << >>
      \/ p.level = "low" /\ Notifications!NotifyTraffic(medium, u, b) = <<low>>
      \/ p.level = "out" /\ Notifications!NotifyTraffic(medium, u, b) = <<out>>
      BY DEF Notifications!NotifyTraffic, Notifications!Key
<1>5. /\ p.end = "soon" => <<soon[3], soon[4]>> \in Notifications!Kinds(p)
      /\ p.end = "past" => <<past[3], past[4]>> \in Notifications!Kinds(p)
      /\ p.level = "low" => <<low[3], low[4]>> \in Notifications!Kinds(p)
      /\ p.level = "out" => <<out[3], out[4]>> \in Notifications!Kinds(p)
      BY DEF Notifications!Kinds
<1>6. soon[2] = u /\ past[2] = u /\ low[2] = u /\ out[2] = u
      OBVIOUS
<1> DEFINE G == {k \in NoticeKeys : k[2] = u /\ <<k[3], k[4]>> \in Notifications!Kinds(p)}
           first == Notifications!NotifyExpiry(medium, u, a)
           second == Notifications!NotifyTraffic(medium, u, b)
<1>7. /\ p.end = "soon" => soon \in G
      /\ p.end = "past" => past \in G
      /\ p.level = "low" => low \in G
      /\ p.level = "out" => out \in G
      BY <1>2, <1>5, <1>6
<1> HIDE DEF soon, past, low, out, G
<1>s. << >> \in Seq(G) /\ \A k \in G : <<k>> \in Seq(G)
      OBVIOUS
<1> HIDE DEF first, second, p
<1>8. first \in Seq(G) /\ second \in Seq(G)
  <2>1. first \in Seq(G)
        BY <1>3, <1>7, <1>s DEF first
  <2>2. second \in Seq(G)
        BY <1>4, <1>7, <1>s DEF second
  <2> QED BY <2>1, <2>2
<1>9. first \o second \in Seq(G)
      BY <1>8
<1>10. \A i \in DOMAIN (first \o second) : (first \o second)[i] \in G
       BY <1>9
<1>11. first \o second \in Seq(NoticeKeys)
  <2>1. G \subseteq NoticeKeys
        BY DEF G
  <2> QED BY <1>9, <2>1
<1>12. \A k \in G : k[2] = u /\ <<k[3], k[4]>> \in Notifications!Kinds(p)
       BY DEF G
<1> QED BY <1>10, <1>11, <1>12 DEF first, second, p

\* The rest of a list
LEMMA HeadAndTail ==
  ASSUME NEW S, NEW s \in Seq(S), s # << >>
  PROVE  /\ Head(s) \in S /\ Tail(s) \in Seq(S) /\ Head(s) = s[1]
         /\ \A i \in DOMAIN Tail(s) : i + 1 \in DOMAIN s /\ Tail(s)[i] = s[i+1]
  OBVIOUS

Sweeping == /\ sweep \in SweepState
            /\ \A i \in DOMAIN sweep.left : sweep.left[i].medium = "telegram" => sweep.left[i].bound # None

\* The next user of the sweep
LEMMA NextUser ==
  ASSUME NoticesTyped, sweep.left # << >>
  PROVE  /\ Head(sweep.left).user \in Members /\ Head(sweep.left).medium \in Notifications!Media
         /\ Head(sweep.left).medium # "email" => Head(sweep.left).bound.chat \in Chats
         /\ Tail(sweep.left) \in Seq(Listed)
         /\ \A i \in DOMAIN Tail(sweep.left) :
              Tail(sweep.left)[i].medium = "telegram" => Tail(sweep.left)[i].bound # None
<1>1. sweep.left \in Seq(Listed)
      BY DEF NoticesTyped, SweepState
<1>2. /\ Head(sweep.left) \in Listed /\ Tail(sweep.left) \in Seq(Listed) /\ Head(sweep.left) = sweep.left[1]
      /\ \A i \in DOMAIN Tail(sweep.left) : i + 1 \in DOMAIN sweep.left /\ Tail(sweep.left)[i] = sweep.left[i+1]
      BY <1>1, HeadAndTail
<1>3. 1 \in DOMAIN sweep.left
      BY <1>1
<1>4. \A i \in DOMAIN sweep.left : sweep.left[i].medium = "telegram" => sweep.left[i].bound # None
      BY DEF NoticesTyped
<1> DEFINE b == Head(sweep.left)
<1>5. b.user \in Members /\ b.medium \in Notifications!Media /\ b.bound \in BindRow \cup {None}
      BY <1>2 DEF Listed
<1>6. b.medium = "telegram" => b.bound # None
      BY <1>2, <1>3, <1>4
<1>7. b.medium # "email" => b.bound \in BindRow
      BY <1>5, <1>6 DEF Notifications!Media
<1> HIDE DEF b
<1>8. b.medium # "email" => b.bound.chat \in Chats
      BY <1>7 DEF BindRow
<1> QED BY <1>2, <1>4, <1>5, <1>8 DEF b

LEMMA SweepTyped ==
  ASSUME NoticesSane, NoticesTyped, NoticesKept, [Notifications!Next]_(Notifications!vars)
  PROVE  Sweeping'
<1>0. sweep \in SweepState /\ Sweeping
      BY DEF NoticesTyped, Sweeping
<1>t. /\ sweep.at \in {"idle", "user", "notice", "send"} /\ sweep.left \in Seq(Listed)
      /\ sweep.todo \in Seq(NoticeKeys) /\ sweep.user \in Members \cup {None} /\ sweep.dest \in Chats \cup MailTo
      BY <1>0 DEF SweepState
<1>i. Notifications!Idle \in SweepState /\ Notifications!Idle.left = << >>
      BY DEF Notifications!Idle, SweepState, MailTo
<1>n. \A n \in 1..Notifications!Cardinality(Members) : n \in Nat
      BY FS_CardinalityType DEF NoticesSane, Notifications!Cardinality, Cardinality
<1>1. CASE UNCHANGED sweep
      BY <1>0, <1>1 DEF Sweeping
<1>2. CASE sweep' = Notifications!Idle
      BY <1>i, <1>2 DEF Sweeping
<1>3. ASSUME NEW medium \in Notifications!Media, NEW n \in Nat, NEW who \in [1..n -> Members], Notifications!SweepNotifies(medium, who)
      PROVE  Sweeping'
  <2> DEFINE left == [i \in DOMAIN who |-> [user |-> who[i], medium |-> medium,
                        bound |-> IF medium = "telegram" THEN bind[who[i]] ELSE None]]
  <2>1. sweep' = [at |-> "user", left |-> left, todo |-> << >>, user |-> None, dest |-> None]
        BY <1>3 DEF Notifications!SweepNotifies
  <2>2. {who[i] : i \in DOMAIN who} =
          {u \in Members : IF medium = "telegram" THEN bind[u] # None ELSE mail[u].address # None}
        BY <1>3 DEF Notifications!SweepNotifies
  <2>3. DOMAIN left = 1..n
        OBVIOUS
  <2>4. ASSUME NEW i \in 1..n
        PROVE  left[i] \in Listed /\ (left[i].medium = "telegram" => left[i].bound # None)
    <3>1. who[i] \in Members /\ (medium = "telegram" => bind[who[i]] # None)
          BY <2>2
    <3>2. bind[who[i]] \in BindRow \cup {None}
          BY <3>1 DEF NoticesTyped
    <3>3. left[i] = [user |-> who[i], medium |-> medium,
                        bound |-> IF medium = "telegram" THEN bind[who[i]] ELSE None]
          OBVIOUS
    <3> HIDE DEF left
    <3>4. left[i] \in Listed
          BY <3>1, <3>2, <3>3 DEF Listed
    <3> QED BY <3>1, <3>3, <3>4
  <2>5. left = [i \in 1..n |-> left[i]]
        OBVIOUS
  <2> HIDE DEF left
  <2>6. left \in Seq(Listed)
        BY <2>4, <2>5
  <2>7. sweep' \in SweepState
        BY <2>1, <2>6 DEF SweepState, MailTo
  <2>8. sweep'.left = left
        BY <2>1
  <2> QED BY <2>3, <2>4, <2>7, <2>8 DEF Sweeping
<1>4. CASE Notifications!SweepUser
  <2> DEFINE b == Head(sweep.left)
             on(pref) == IF b.medium = "email" THEN mail[b.user].on
                         ELSE IF pref = "expiry" THEN b.bound.expiry ELSE b.bound.traffic
             todo == Notifications!NotifyExpiry(b.medium, b.user, on("expiry")) \o Notifications!NotifyTraffic(b.medium, b.user, on("traffic"))
             dest == IF b.medium = "email" THEN mail[b.user].address ELSE b.bound.chat
  <2>1. \/ sweep' = Notifications!Idle
        \/ sweep' = [at |-> "notice", left |-> Tail(sweep.left), user |-> b.user, todo |-> todo, dest |-> dest]
        BY <1>4 DEF Notifications!SweepUser
  <2>2. sweep.left # << >>
        BY <1>4 DEF Notifications!SweepUser
  <2>3. /\ b.user \in Members /\ b.medium \in Notifications!Media
        /\ b.medium # "email" => b.bound.chat \in Chats
        /\ Tail(sweep.left) \in Seq(Listed)
        /\ \A i \in DOMAIN Tail(sweep.left) :
             Tail(sweep.left)[i].medium = "telegram" => Tail(sweep.left)[i].bound # None
        BY <2>2, NextUser
  <2>4. dest \in Chats \cup MailTo
    <3>1. mail[b.user].address \in MailTo
          BY <2>3 DEF NoticesTyped, Mailbox
    <3> QED BY <2>3, <3>1
  <2>5. todo \in Seq(NoticeKeys)
    <3> HIDE DEF b, on
    <3> QED BY <2>3, NoticesOfPlan
  <2> HIDE DEF todo, dest, b
  <2>6. CASE sweep' = [at |-> "notice", left |-> Tail(sweep.left), user |-> b.user, todo |-> todo, dest |-> dest]
    <3>1. sweep' \in SweepState
          BY <2>3, <2>4, <2>5, <2>6 DEF SweepState
    <3>2. sweep'.left = Tail(sweep.left)
          BY <2>6
    <3> QED BY <2>3, <3>1, <3>2 DEF Sweeping
  <2> QED BY <1>2, <2>1, <2>6
<1>5. CASE \E at \in {"idle", "user", "notice", "send"}, todo \in Seq(NoticeKeys) :
             sweep' = [sweep EXCEPT !.at = at, !.todo = todo]
      BY <1>0, <1>t, <1>5 DEF Sweeping, SweepState
<1>6. CASE Notifications!SweepEnds \/ (\E key \in {sweep.todo[i] : i \in DOMAIN sweep.todo} : Notifications!ClaimNotify(key))
           \/ (\E outcome \in {"sent", "refused", "queued", "lost"} : Notifications!SendNotice(outcome))
  <2>0. sweep.todo # << >> => Tail(sweep.todo) \in Seq(NoticeKeys)
        BY <1>t, HeadAndTail
  <2>1. CASE Notifications!SweepEnds
    <3>1. \/ sweep' = [sweep EXCEPT !.at = "user"]
          \/ sweep' = Notifications!Idle
          BY <2>1 DEF Notifications!SweepEnds
    <3> QED BY <1>0, <1>2, <1>t, <3>1 DEF Sweeping, SweepState
  <2>2. CASE \E key \in {sweep.todo[i] : i \in DOMAIN sweep.todo} : Notifications!ClaimNotify(key)
    <3>1. /\ sweep.todo # << >>
          /\ sweep' = [sweep EXCEPT !.at = "send"] \/ sweep' = [sweep EXCEPT !.todo = Tail(@)]
          BY <2>2 DEF Notifications!ClaimNotify
    <3>2. CASE sweep' = [sweep EXCEPT !.at = "send"]
          BY <1>0, <1>t, <3>2 DEF Sweeping, SweepState
    <3>3. CASE sweep' = [sweep EXCEPT !.todo = Tail(@)]
          BY <1>0, <1>t, <2>0, <3>1, <3>3 DEF Sweeping, SweepState
    <3> QED BY <3>1, <3>2, <3>3
  <2>3. CASE \E outcome \in {"sent", "refused", "queued", "lost"} : Notifications!SendNotice(outcome)
    <3>1. sweep' = [sweep EXCEPT !.at = "notice", !.todo = Tail(@)]
          BY <2>3 DEF Notifications!SendNotice
    <3>2. sweep.todo # << >>
          BY <2>3 DEF Notifications!SendNotice, NoticesKept
    <3> QED BY <1>5, <2>0, <3>1, <3>2
  <2> QED BY <1>6, <2>1, <2>2, <2>3
<1>7. CASE \E medium \in Notifications!Media : \E n \in 1..Notifications!Cardinality(Members) : \E who \in [1..n -> Members] : Notifications!SweepNotifies(medium, who)
      BY <1>3, <1>7, <1>n
<1> QED BY <1>1, <1>2, <1>4, <1>6, <1>7 DEF Notifications!Next, Notifications!vars, Notifications!Turn, Notifications!Restart, Notifications!CreateTelegramBindToken, Notifications!UnbindTelegram, Notifications!SetTelegramNotify, Notifications!HandleTelegramUpdate,
       Notifications!Command, Notifications!GetUpdates, Notifications!SetMail, Notifications!Configure, Notifications!CreateManualNotification, Notifications!ClaimManualNotificationRecipient,
       Notifications!NothingPending, Notifications!SetResult, Notifications!Deliver, Notifications!notices, Notifications!FailInterruptedManualNotifications,
       Notifications!ListPendingManualNotificationIDs

Claiming == claims \subseteq NoticeKeys /\ ToldRight

\* What has been told is a key of the claims' kind
LEMMA ToldKeys ==
  ASSUME NoticesTyped, NEW x \in told
  PROVE  /\ x[1] \in NoticeKeys
         /\ x[1][2] \in Members /\ x[1] = <<x[1][1], x[1][2], x[1][3], x[1][4]>> /\ x[1][1] \in Notifications!Media
<1>1. x \in NoticeKeys \X Nat \X Nat
      BY DEF NoticesTyped, ToldRight
<1>2. x[1] \in NoticeKeys
      BY <1>1
<1> QED BY <1>2 DEF NoticeKeys

LEMMA NextNotice ==
  ASSUME NoticesTyped, sweep.todo # << >>
  PROVE  /\ Head(sweep.todo) \in NoticeKeys
         /\ \E i \in DOMAIN sweep.todo : sweep.todo[i] = Head(sweep.todo)
         /\ \A i \in DOMAIN Tail(sweep.todo) : \E j \in DOMAIN sweep.todo : sweep.todo[j] = Tail(sweep.todo)[i]
<1>1. sweep.todo \in Seq(NoticeKeys)
      BY DEF NoticesTyped, SweepState
<1>2. 1 \in DOMAIN sweep.todo
      BY <1>1
<1> QED BY <1>1, <1>2, HeadAndTail

\* What has passed stays so while the plans stay and the list of notices only shrinks
LEMMA StaysPassed ==
  ASSUME NoticesKept, UNCHANGED plan,
         \A i \in DOMAIN sweep'.todo : \E j \in DOMAIN sweep.todo : sweep.todo[j] = sweep'.todo[i]
  PROVE  \A x \in told : Unanswered(x) \/ x[1] \in claims \/ Passed(x[1])'
<1> SUFFICES ASSUME NEW x \in told, ~Unanswered(x), x[1] \notin claims PROVE Passed(x[1])'
    OBVIOUS
<1>1. Passed(x[1])
      BY DEF NoticesKept
<1>2. <<x[1][3], x[1][4]>> \notin Notifications!Kinds(plan'[x[1][2]])
      BY <1>1 DEF Passed
<1>3. \A i \in DOMAIN sweep'.todo : sweep'.todo[i] # x[1]
      BY <1>1 DEF Passed
<1> QED BY <1>2, <1>3 DEF Passed

\* A plan turns: what begins anew is told anew
LEMMA AfterTurn ==
  ASSUME NoticesTyped, NoticesKept, NEW u \in Members, NEW p, Notifications!Turn(u, p)
  PROVE  NoticesKept' /\ Claiming'
<1>1. /\ plan' = [plan EXCEPT ![u] = p]
      /\ told' = {x \in told : ~\E k \in Notifications!Kinds(p) \ Notifications!Kinds(plan[u]) : \E m \in Notifications!Media : x[1] = Notifications!Key(m, u, k[1], k[2])}
      /\ UNCHANGED <<claims, reached, unsure, sweep>>
      BY DEF Notifications!Turn
<1>2. told' \subseteq told
      BY <1>1
<1>3. Claiming'
      BY <1>1, <1>2 DEF NoticesTyped, Claiming, ToldRight
<1>4. ASSUME NEW x \in told', ~Unanswered(x), x[1] \notin claims
      PROVE  Passed(x[1])'
  <2>1. x \in told /\ Passed(x[1])
        BY <1>2, <1>4 DEF NoticesKept
  <2>2. /\ x[1][2] \in Members /\ x[1] = <<x[1][1], x[1][2], x[1][3], x[1][4]>> /\ x[1][1] \in Notifications!Media
        BY <2>1, ToldKeys
  <2> DEFINE k == <<x[1][3], x[1][4]>>
  <2>3. k \notin Notifications!Kinds(plan[x[1][2]])
        BY <2>1 DEF Passed
  <2>4. k \notin Notifications!Kinds(plan'[x[1][2]])
    <3>1. CASE x[1][2] # u
      <4>1. plan'[x[1][2]] = plan[x[1][2]]
            BY <1>1, <3>1
      <4> HIDE DEF k
      <4> QED BY <2>3, <4>1
    <3>2. CASE x[1][2] = u
      <4>1. plan'[x[1][2]] = p
            BY <1>1, <2>2, <3>2 DEF NoticesTyped
      <4>2. x[1] = Notifications!Key(x[1][1], u, k[1], k[2])
            BY <2>2, <3>2 DEF Notifications!Key
      <4>3. k \notin Notifications!Kinds(p) \ Notifications!Kinds(plan[u])
            BY <1>1, <1>4, <2>2, <4>2
      <4> HIDE DEF k
      <4> QED BY <2>3, <3>2, <4>1, <4>3
    <3> QED BY <3>1, <3>2
  <2> QED BY <1>1, <2>1, <2>4 DEF Passed
<1>5. NoticesKept'
  <2>1. \A key \in (claims \ (reached \cup unsure))' : sweep'.at = "send" /\ Head(sweep'.todo) = key
        BY <1>1 DEF NoticesKept
  <2>2. sweep'.at = "send" => /\ sweep'.todo # <<>> /\ Head(sweep'.todo) \in claims'
                              /\ \A x \in told' : x[1] # Head(sweep'.todo) \/ Unanswered(x)
        BY <1>1, <1>2 DEF NoticesKept
  <2>3. \A x \in told' : Unanswered(x) \/ x[1] \in claims' \/ Passed(x[1])'
        BY <1>1, <1>4
  <2> QED BY <2>1, <2>2, <2>3 DEF NoticesKept
<1> QED BY <1>3, <1>5

\* A user of the sweep: claims go only of conditions that have passed
LEMMA AfterSweepUser ==
  ASSUME NoticesTyped, NoticesKept, Notifications!SweepUser
  PROVE  NoticesKept' /\ Claiming'
<1> DEFINE b == Head(sweep.left)
           on(pref) == IF b.medium = "email" THEN mail[b.user].on
                       ELSE IF pref = "expiry" THEN b.bound.expiry ELSE b.bound.traffic
           todo == Notifications!NotifyExpiry(b.medium, b.user, on("expiry")) \o Notifications!NotifyTraffic(b.medium, b.user, on("traffic"))
           dest == IF b.medium = "email" THEN mail[b.user].address ELSE b.bound.chat
<1>1. /\ sweep.at = "user" /\ sweep.left # << >>
      /\ UNCHANGED <<plan, told>>
      BY DEF Notifications!SweepUser
<1>2. \/ sweep' = Notifications!Idle /\ UNCHANGED <<claims, reached, unsure>>
      \/ /\ Notifications!Forget(Notifications!Recovered(b.medium, b.user))
         /\ sweep' = [at |-> "notice", left |-> Tail(sweep.left), user |-> b.user, todo |-> todo, dest |-> dest]
      BY DEF Notifications!SweepUser
<1>3. b.user \in Members /\ b.medium \in Notifications!Media
      BY <1>1, NextUser
<1> HIDE DEF b, dest
<1>4. claims' \subseteq claims /\ claims' \ (reached' \cup unsure') = {}
  <2>1. claims \ (reached \cup unsure) = {}
        BY <1>1 DEF NoticesKept
  <2> HIDE DEF todo
  <2> QED BY <1>2, <2>1 DEF Notifications!Forget
<1>5. sweep'.at # "send"
  <2> HIDE DEF todo
  <2> QED BY <1>2 DEF Notifications!Idle
<1>6. ASSUME NEW x \in told, ~Unanswered(x), x[1] \notin claims'
      PROVE  Passed(x[1])'
  <2>0. /\ x[1][2] \in Members /\ x[1] = <<x[1][1], x[1][2], x[1][3], x[1][4]>>
        BY ToldKeys
  <2>1. <<x[1][3], x[1][4]>> \notin Notifications!Kinds(plan[x[1][2]])
    <3>1. CASE x[1] \notin claims
          BY <1>6, <3>1 DEF NoticesKept, Passed
    <3>2. CASE x[1] \in claims
      <4>1. x[1] \in Notifications!Recovered(b.medium, b.user)
        <5> HIDE DEF todo
        <5> QED BY <1>2, <1>6, <3>2 DEF Notifications!Forget
      <4>2. \/ x[1] = <<b.medium, b.user, "traffic_low", 0>> /\ plan[b.user].level # "low"
            \/ x[1] = <<b.medium, b.user, "traffic_exhausted", 0>> /\ plan[b.user].level # "out"
            BY <4>1 DEF Notifications!Recovered, Notifications!Key
      <4> QED BY <4>2 DEF Notifications!Kinds
    <3> QED BY <3>1, <3>2
  <2>2. \A i \in DOMAIN todo : todo[i][2] = b.user /\ <<todo[i][3], todo[i][4]>> \in Notifications!Kinds(plan[b.user])
    <3> HIDE DEF on
    <3> QED BY <1>3, NoticesOfPlan
  <2> HIDE DEF todo
  <2>3. \A i \in DOMAIN todo : todo[i] # x[1]
        BY <2>1, <2>2
  <2>4. \A i \in DOMAIN sweep'.todo : sweep'.todo[i] # x[1]
        BY <1>2, <2>3 DEF Notifications!Idle
  <2> QED BY <1>1, <2>1, <2>4 DEF Passed
<1>7. NoticesKept'
  <2> HIDE DEF todo
  <2>1. \A x \in told' : Unanswered(x) \/ x[1] \in claims' \/ Passed(x[1])'
        BY <1>1, <1>6
  <2> QED BY <1>4, <1>5, <2>1 DEF NoticesKept
<1>8. Claiming'
      BY <1>1, <1>4 DEF NoticesTyped, Claiming, ToldRight
<1> QED BY <1>7, <1>8

\* A claim is made of what has not been told
LEMMA AfterClaim ==
  ASSUME NoticesTyped, NoticesKept, NEW key \in {sweep.todo[i] : i \in DOMAIN sweep.todo}, Notifications!ClaimNotify(key)
  PROVE  NoticesKept' /\ Claiming'
<1>1. /\ sweep.at = "notice" /\ sweep.todo # << >> /\ Head(sweep.todo) = key
      /\ \/ key \notin claims /\ claims' = claims \cup {key} /\ sweep' = [sweep EXCEPT !.at = "send"]
         \/ sweep' = [sweep EXCEPT !.todo = Tail(@)] /\ UNCHANGED claims
      /\ UNCHANGED <<plan, reached, told, unsure>>
      BY DEF Notifications!ClaimNotify
<1>2. /\ key \in NoticeKeys
      /\ \E i \in DOMAIN sweep.todo : sweep.todo[i] = key
      /\ \A i \in DOMAIN Tail(sweep.todo) : \E j \in DOMAIN sweep.todo : sweep.todo[j] = Tail(sweep.todo)[i]
      BY <1>1, NextNotice
<1>3. Claiming'
      BY <1>1, <1>2 DEF Claiming, NoticesTyped, ToldRight
<1>4. sweep \in SweepState
      BY DEF NoticesTyped
<1>5. claims \ (reached \cup unsure) = {}
      BY <1>1 DEF NoticesKept
<1>6. CASE key \notin claims /\ claims' = claims \cup {key} /\ sweep' = [sweep EXCEPT !.at = "send"]
  <2>1. sweep'.at = "send" /\ sweep'.todo = sweep.todo
        BY <1>4, <1>6 DEF SweepState
  <2>2. \A x \in told : x[1] # key \/ Unanswered(x)
        BY <1>2, <1>6 DEF NoticesKept, Passed
  <2>3. \A x \in told : Unanswered(x) \/ x[1] \in claims \/ Passed(x[1])'
        BY <1>1, <2>1, StaysPassed
  <2>4. claims' = claims \cup {key} /\ UNCHANGED <<reached, told, unsure>> /\ sweep.todo # << >>
        /\ Head(sweep.todo) = key
        BY <1>1, <1>6
  <2>5. \A k \in claims' \ (reached' \cup unsure') : k = key
        BY <1>5, <2>4
  <2>6. \A x \in told' : Unanswered(x) \/ x[1] \in claims' \/ Passed(x[1])'
        BY <2>3, <2>4
  <2>7. Head(sweep'.todo) = key /\ sweep'.todo # << >>
        BY <2>1, <2>4
  <2>8. \A x \in told' : x[1] # Head(sweep'.todo) \/ Unanswered(x)
        BY <2>2, <2>4, <2>7
  <2>9. Head(sweep'.todo) \in claims'
        BY <2>4, <2>7
  <2> HIDE <1>6
  <2> QED BY <1>3, <2>1, <2>5, <2>6, <2>7, <2>8, <2>9 DEF NoticesKept
<1>7. CASE sweep' = [sweep EXCEPT !.todo = Tail(@)] /\ UNCHANGED claims
  <2>1. sweep'.at = "notice" /\ sweep'.todo = Tail(sweep.todo)
        BY <1>1, <1>4, <1>7 DEF SweepState
  <2>2. \A x \in told : Unanswered(x) \/ x[1] \in claims \/ Passed(x[1])'
        BY <1>1, <1>2, <2>1, StaysPassed
  <2>3. UNCHANGED <<claims, reached, told, unsure>>
        BY <1>1, <1>7
  <2>4. \A x \in told' : Unanswered(x) \/ x[1] \in claims' \/ Passed(x[1])'
        BY <2>2, <2>3
  <2>5. claims' \ (reached' \cup unsure') = {}
        BY <1>5, <2>3
  <2>6. sweep'.at # "send"
        BY <2>1
  <2> QED BY <1>3, <2>4, <2>5, <2>6 DEF NoticesKept
<1> QED BY <1>1, <1>6, <1>7

\* What is told after a key was heard once more
Hears(key, unanswered) ==
  {x \in told : x[1] # key} \cup {<<key, Notifications!Told(key)[2] + 1, Notifications!Told(key)[3] + unanswered>>}

\* A key all of whose deliveries were taken for failures may be heard once more
LEMMA HeardAgain ==
  ASSUME NoticesTyped, NEW key \in NoticeKeys, \A x \in told : x[1] # key \/ Unanswered(x),
         NEW e \in {0, 1}, key[1] = "email" => e = 0, told' = Hears(key, e)
  PROVE  /\ ToldRight'
         /\ \A x \in told' : (x \in told /\ x[1] # key) \/ (x[1] = key /\ (e = 1 => Unanswered(x)))
<1> DEFINE old == Notifications!Told(key)
           new == <<key, old[2] + 1, old[3] + e>>
<1>1. old[2] \in Nat /\ old[3] = old[2] /\ (key[1] = "email" => old[3] = 0)
  <2>1. CASE \E p \in told : p[1] = key
    <3>1. old \in told /\ old[1] = key
          BY <2>1 DEF Notifications!Told
    <3> HIDE DEF old
    <3>2. old \in NoticeKeys \X Nat \X Nat /\ (old[1][1] = "email" => old[3] = 0) /\ Unanswered(old)
          BY <3>1 DEF NoticesTyped, ToldRight
    <3> QED BY <3>1, <3>2 DEF Unanswered
  <2>2. CASE ~\E p \in told : p[1] = key
    <3>1. old = <<key, 0, 0>>
          BY <2>2 DEF Notifications!Told
    <3> QED BY <3>1
  <2> QED BY <2>1, <2>2
<1> HIDE DEF old
<1>2. /\ new \in NoticeKeys \X Nat \X Nat /\ new[1] = key
      /\ new[2] \in {new[3], new[3] + 1} /\ (new[1][1] = "email" => new[3] = 0)
      /\ e = 1 => Unanswered(new)
      BY <1>1 DEF Unanswered
<1>3. told' = {x \in told : x[1] # key} \cup {new}
      BY DEF Hears, old
<1> HIDE DEF new
<1>4. ToldRight'
      BY <1>2, <1>3 DEF NoticesTyped, ToldRight
<1> QED BY <1>2, <1>3, <1>4

\* A send is of a notice that was claimed, whose deliveries were all taken for failures
LEMMA AfterSend ==
  ASSUME NoticesTyped, NoticesKept, NEW outcome \in {"sent", "refused", "queued", "lost"}, Notifications!SendNotice(outcome)
  PROVE  NoticesKept' /\ Claiming'
<1> DEFINE key == Head(sweep.todo)
<1>1. /\ sweep.at = "send"
      /\ \/ told' = Hears(key, 0) /\ reached' = reached \cup {key} /\ UNCHANGED <<claims, unsure>>
         \/ Notifications!Forget({key}) /\ UNCHANGED told
         \/ /\ unsure' = unsure \cup {key}
            /\ told' = Hears(key, 0) \/ UNCHANGED told
            /\ UNCHANGED <<claims, reached>>
         \/ key[1] # "email" /\ Notifications!Forget({key}) /\ told' = Hears(key, 1)
      /\ sweep' = [sweep EXCEPT !.at = "notice", !.todo = Tail(@)]
      /\ UNCHANGED plan
      BY DEF Notifications!SendNotice, Hears
<1>2. /\ sweep.todo # << >> /\ key \in claims /\ \A x \in told : x[1] # key \/ Unanswered(x)
      /\ claims \ (reached \cup unsure) \subseteq {key}
      BY <1>1 DEF NoticesKept
<1>3. /\ key \in NoticeKeys
      /\ \A i \in DOMAIN Tail(sweep.todo) : \E j \in DOMAIN sweep.todo : sweep.todo[j] = Tail(sweep.todo)[i]
      BY <1>2, NextNotice
<1> HIDE DEF key
<1>4. sweep'.at = "notice" /\ sweep'.todo = Tail(sweep.todo)
      BY <1>1 DEF NoticesTyped, SweepState
<1>5. \A x \in told : Unanswered(x) \/ x[1] \in claims \/ Passed(x[1])'
      BY <1>1, <1>3, <1>4, StaysPassed
<1> DEFINE Standing == \A x \in told' : Unanswered(x) \/ x[1] \in claims' \/ Passed(x[1])'
<1>6. ToldRight' /\ Standing
  <2>1. ASSUME told' = Hears(key, 0), UNCHANGED claims
        PROVE  ToldRight' /\ Standing
    <3>1. ToldRight' /\ \A x \in told' : (x \in told /\ x[1] # key) \/ x[1] = key
          BY <1>2, <1>3, <2>1, HeardAgain
    <3> QED BY <1>2, <1>5, <2>1, <3>1
  <2>2. ASSUME Notifications!Forget({key}), UNCHANGED told
        PROVE  ToldRight' /\ Standing
    <3>1. ToldRight'
          BY <2>2 DEF NoticesTyped, ToldRight
    <3> QED BY <1>2, <1>5, <2>2, <3>1 DEF Notifications!Forget
  <2>3. ASSUME key[1] # "email", Notifications!Forget({key}), told' = Hears(key, 1)
        PROVE  ToldRight' /\ Standing
    <3>1. ToldRight' /\ \A x \in told' : (x \in told /\ x[1] # key) \/ (x[1] = key /\ Unanswered(x))
          BY <1>2, <1>3, <2>3, HeardAgain
    <3> QED BY <1>5, <2>3, <3>1 DEF Notifications!Forget
  <2>4. ASSUME UNCHANGED <<told, claims>>
        PROVE  ToldRight' /\ Standing
    <3>1. ToldRight'
          BY <2>4 DEF NoticesTyped, ToldRight
    <3> QED BY <1>5, <2>4, <3>1
  <2> QED BY <1>1, <2>1, <2>2, <2>3, <2>4
<1>7. claims' \subseteq claims /\ claims' \ (reached' \cup unsure') = {}
      BY <1>1, <1>2 DEF Notifications!Forget
<1>8. Claiming'
      BY <1>6, <1>7 DEF Claiming, NoticesTyped
<1> QED BY <1>4, <1>6, <1>7, <1>8 DEF NoticesKept

\* The list is opened, worked off, or lost
LEMMA AfterTurns ==
  ASSUME NoticesTyped, NoticesKept,
         Notifications!Restart \/ Notifications!SweepEnds \/ (\E medium \in Notifications!Media : \E who : Notifications!SweepNotifies(medium, who))
  PROVE  NoticesKept' /\ Claiming'
<1>1. /\ UNCHANGED <<claims, reached, told, plan>>
      /\ sweep'.at # "send" /\ (\A i \in DOMAIN sweep'.todo : sweep'.todo[i] = sweep.todo[i] /\ i \in DOMAIN sweep.todo)
  <2>1. Notifications!Idle.at # "send" /\ Notifications!Idle.todo = << >>
        BY DEF Notifications!Idle
  <2>2. CASE Notifications!Restart
        BY <2>1, <2>2 DEF Notifications!Restart
  <2>3. CASE Notifications!SweepEnds
    <3>1. sweep' = [sweep EXCEPT !.at = "user"] \/ sweep' = Notifications!Idle
          BY <2>3 DEF Notifications!SweepEnds
    <3>2. sweep \in SweepState
          BY DEF NoticesTyped
    <3> QED BY <2>1, <2>3, <3>1, <3>2 DEF Notifications!SweepEnds, SweepState
  <2>4. CASE \E medium \in Notifications!Media : \E who : Notifications!SweepNotifies(medium, who)
        BY <2>4 DEF Notifications!SweepNotifies
  <2> QED BY <2>2, <2>3, <2>4
<1>2. claims \ (reached \cup unsure') = {}
  <2>1. CASE Notifications!Restart
        BY <2>1 DEF Notifications!Restart, NoticesKept
  <2>2. CASE ~Notifications!Restart
        BY <2>2 DEF Notifications!SweepEnds, Notifications!SweepNotifies, NoticesKept
  <2> QED BY <2>1, <2>2
<1>3. \A x \in told : Unanswered(x) \/ x[1] \in claims \/ Passed(x[1])'
      BY <1>1 DEF NoticesKept, Passed
<1>4. NoticesKept'
      BY <1>1, <1>2, <1>3 DEF NoticesKept
<1> QED BY <1>1, <1>4 DEF Claiming, NoticesTyped, ToldRight

LEMMA NoticesStep ==
  ASSUME NoticesTyped, NoticesKept, [Notifications!Next]_(Notifications!vars)
  PROVE  NoticesKept' /\ Claiming'
<1>1. CASE UNCHANGED <<claims, reached, told, unsure, sweep, plan>>
      BY <1>1 DEF NoticesKept, Passed, Claiming, NoticesTyped, ToldRight
<1> QED BY <1>1, AfterTurn, AfterSweepUser, AfterClaim, AfterSend, AfterTurns
        DEF Notifications!Next, Notifications!vars, Notifications!CreateTelegramBindToken, Notifications!UnbindTelegram, Notifications!SetTelegramNotify, Notifications!HandleTelegramUpdate,
       Notifications!Command, Notifications!GetUpdates, Notifications!SetMail, Notifications!Configure, Notifications!CreateManualNotification, Notifications!ClaimManualNotificationRecipient,
       Notifications!NothingPending, Notifications!SetResult, Notifications!Deliver, Notifications!notices, Notifications!FailInterruptedManualNotifications,
       Notifications!ListPendingManualNotificationIDs

-----------------------------------------------------------------------------
(* Broadcasts                                                                *)

\* A worker takes a step with one row
LEMMA OneRow ==
  ASSUME RowsKept, NEW w \in Deliverers, NEW k \in Worker, NEW r \in DOMAIN rows, NEW x \in Recipient,
         workers' = [workers EXCEPT ![w] = k], rows' = [rows EXCEPT ![r] = x],
         RowTrue(x), Holds(k) => k.row = r /\ WorkTrue(k, x),
         \A v \in Deliverers : v # w /\ Holds(workers[v]) => workers[v].row # r
  PROVE  RowsKept'
<1>1. /\ DOMAIN rows' = DOMAIN rows /\ rows' \in [DOMAIN rows' -> Recipient]
      /\ \A s \in DOMAIN rows : rows'[s] = IF s = r THEN x ELSE rows[s]
      BY DEF RowsKept
<1>2. /\ workers' \in [Deliverers -> Worker]
      /\ \A v \in Deliverers : workers'[v] = IF v = w THEN k ELSE workers[v]
      BY DEF RowsKept
<1>3. \A s \in DOMAIN rows' : RowTrue(rows'[s])
      BY <1>1 DEF RowsKept
<1>4. ASSUME NEW v \in Deliverers, Holds(workers'[v])
      PROVE  workers'[v].row \in DOMAIN rows' /\ WorkTrue(workers'[v], rows'[workers'[v].row])
  <2>1. CASE v = w
        BY <1>1, <1>2, <1>4, <2>1
  <2>2. CASE v # w
    <3>1. /\ Holds(workers[v]) /\ workers[v].row # r /\ workers[v].row \in DOMAIN rows
          /\ WorkTrue(workers[v], rows[workers[v].row])
          BY <1>2, <1>4, <2>2 DEF RowsKept
    <3> QED BY <1>1, <1>2, <2>2, <3>1
  <2> QED BY <2>1, <2>2
<1>5. \A u, v \in Deliverers : u # v /\ Holds(workers'[u]) /\ Holds(workers'[v]) => workers'[u].row # workers'[v].row
      BY <1>2 DEF RowsKept
<1> QED BY <1>1, <1>2, <1>3, <1>4, <1>5 DEF RowsKept

\* A worker takes a step without one
LEMMA NoRow ==
  ASSUME RowsKept, UNCHANGED rows, workers' \in [Deliverers -> Worker],
         \A w \in Deliverers : Holds(workers'[w]) => workers'[w] = workers[w]
  PROVE  RowsKept'
  BY DEF RowsKept

LEMMA RowsAreListed ==
  ASSUME NoticesTyped, RowsKept, NEW media \in SUBSET Notifications!Media, NEW who \in SUBSET Members,
         Notifications!CreateManualNotification(media, who)
  PROVE  RowsKept'
<1>1. /\ rows = << >> /\ workers["handler"].at = "idle"
      /\ rows' = [r \in who \X media |->
       IF r[2] = "telegram"
       THEN IF bind[r[1]] = None THEN Notifications!Row("skipped", None) ELSE Notifications!Row("pending", bind[r[1]].chat)
       ELSE IF mail[r[1]].address = None THEN Notifications!Row("skipped", None) ELSE Notifications!Row("pending", mail[r[1]].address)]
      /\ workers' = [workers EXCEPT !["handler"].at = "claim"]
      BY DEF Notifications!CreateManualNotification
<1>2. \A w \in Deliverers : ~Holds(workers[w])
      BY <1>1 DEF RowsKept
<1>3. ASSUME NEW r \in who \X media PROVE rows'[r] \in Recipient /\ RowTrue(rows'[r])
  <2>1. r[1] \in Members /\ r[2] \in Notifications!Media
        OBVIOUS
  <2>2. bind[r[1]] # None => bind[r[1]].chat \in Chats
        BY <2>1 DEF NoticesTyped, BindRow
  <2>3. mail[r[1]].address \in MailTo /\ None \in MailTo
        BY <2>1 DEF NoticesTyped, Mailbox, MailTo
  <2>4. \A to \in Chats \cup MailTo, st \in {"pending", "skipped"} : Notifications!Row(st, to) \in Recipient /\ RowTrue(Notifications!Row(st, to))
        BY DEF Notifications!Row, Recipient, RowTrue
  <2>5. \E to \in Chats \cup MailTo, st \in {"pending", "skipped"} : rows'[r] = Notifications!Row(st, to)
        BY <1>1, <2>2, <2>3
  <2> QED BY <2>4, <2>5
<1>4. DOMAIN rows' = who \X media /\ rows' \in [DOMAIN rows' -> Recipient]
      BY <1>1, <1>3
<1>5. workers' \in [Deliverers -> Worker] /\ \A w \in Deliverers : ~Holds(workers'[w])
  <2>1. workers \in [Deliverers -> Worker]
        BY DEF RowsKept
  <2>2. [workers["handler"] EXCEPT !.at = "claim"] \in Worker
        BY <2>1 DEF Worker, Deliverers
  <2>3. [workers["handler"] EXCEPT !.at = "claim"].at = "claim"
        BY <2>1 DEF Worker, Deliverers
  <2>4. workers' = [workers EXCEPT !["handler"] = [workers["handler"] EXCEPT !.at = "claim"]]
        BY <1>1
  <2> QED BY <1>2, <2>1, <2>2, <2>3, <2>4 DEF Holds
<1> QED BY <1>3, <1>4, <1>5 DEF RowsKept

LEMMA RowIsClaimed ==
  ASSUME RowsKept, NEW w \in DOMAIN workers, Notifications!ClaimManualNotificationRecipient(w)
  PROVE  RowsKept'
<1>0. w \in Deliverers /\ workers[w] \in Worker
      BY DEF RowsKept
<1>1. PICK r \in DOMAIN rows :
        /\ rows[r].status = "pending"
        /\ rows' = [rows EXCEPT ![r].status = "sending"]
        /\ workers' = [workers EXCEPT ![w].at = "send", ![w].row = r]
      BY DEF Notifications!ClaimManualNotificationRecipient
<1>2. rows[r] \in Recipient /\ r \in Members \X Notifications!Media /\ rows[r].heard = 0
      BY <1>1 DEF RowsKept, RowTrue
<1> DEFINE k == [workers[w] EXCEPT !.at = "send", !.row = r]
           x == [status |-> "sending", to |-> rows[r].to, heard |-> 0]
<1>3. k \in Worker /\ x \in Recipient /\ k.at = "send" /\ k.row = r
      BY <1>0, <1>2 DEF Worker, Recipient
<1>4. workers' = [workers EXCEPT ![w] = k]
  <2>1. workers \in [Deliverers -> Worker]
        BY DEF RowsKept
  <2> QED BY <1>1, <2>1
<1>5. rows' = [rows EXCEPT ![r] = x]
  <2>1. rows[r] = [status |-> rows[r].status, to |-> rows[r].to, heard |-> rows[r].heard]
        BY <1>2 DEF Recipient
  <2>2. rows \in [DOMAIN rows -> Recipient]
        BY DEF RowsKept
  <2>3. [rows[r] EXCEPT !.status = "sending"] = x
        BY <1>2, <2>1
  <2> HIDE DEF x
  <2>4. rows' = [rows EXCEPT ![r] = [rows[r] EXCEPT !.status = "sending"]]
        BY <1>1
  <2> QED BY <2>3, <2>4
<1>6. RowTrue(x) /\ WorkTrue(k, x)
      BY <1>3 DEF RowTrue, WorkTrue
<1>7. \A v \in Deliverers : v # w /\ Holds(workers[v]) => workers[v].row # r
      BY <1>1 DEF RowsKept, WorkTrue
<1> HIDE DEF k, x
<1> QED BY <1>0, <1>3, <1>4, <1>5, <1>6, <1>7, OneRow

LEMMA RowIsDelivered ==
  ASSUME RowsKept, NEW w \in DOMAIN workers, NEW outcome \in {"sent", "refused", "queued"}, Notifications!Deliver(w, outcome)
  PROVE  RowsKept'
<1> DEFINE r == workers[w].row
           live == IF r[2] = "telegram" THEN IF bind[r[1]] = None THEN None ELSE bind[r[1]].chat
                   ELSE IF mail[r[1]].on /\ "email" \in channels THEN mail[r[1]].address ELSE None
           skip == live # rows[r].to
           heard == ~skip /\ outcome \in {"sent", "queued"}
           result == IF skip THEN "skipped" ELSE IF outcome = "sent" THEN "sent" ELSE "failed"
<1>0. w \in Deliverers /\ workers[w] \in Worker
      BY DEF RowsKept
<1>1. /\ workers[w].at = "send"
      /\ rows' = IF heard THEN [rows EXCEPT ![r].heard = @ + 1] ELSE rows
      /\ workers' = [workers EXCEPT ![w].at = "record", ![w].result = result]
      BY DEF Notifications!Deliver
<1>2. heard \in BOOLEAN /\ result \in {"sent", "failed", "skipped"}
      /\ (result = "sent" => heard) /\ (result = "skipped" => ~heard)
      OBVIOUS
<1> HIDE DEF heard, result
<1>3. r \in DOMAIN rows /\ WorkTrue(workers[w], rows[r])
      BY <1>0, <1>1 DEF RowsKept, Holds
<1>4. rows[r] \in Recipient /\ rows[r].heard = 0 /\ rows[r].status \in {"sending", "failed"}
      BY <1>1, <1>3 DEF RowsKept, WorkTrue
<1>5. \A v \in Deliverers : v # w /\ Holds(workers[v]) => workers[v].row # r
      BY <1>0, <1>1 DEF RowsKept, Holds
<1> DEFINE k == [workers[w] EXCEPT !.at = "record", !.result = result]
           x == [status |-> rows[r].status, to |-> rows[r].to, heard |-> IF heard THEN 1 ELSE 0]
<1>6. k \in Worker /\ x \in Recipient /\ k.at = "record" /\ k.row = r /\ k.result = result
      BY <1>0, <1>2, <1>4 DEF Worker, Recipient
<1>7. workers' = [workers EXCEPT ![w] = k]
  <2>1. workers \in [Deliverers -> Worker]
        BY DEF RowsKept
  <2> QED BY <1>1, <2>1
<1>8. rows' = [rows EXCEPT ![r] = x]
  <2>1. rows[r] = [status |-> rows[r].status, to |-> rows[r].to, heard |-> rows[r].heard]
        BY <1>4 DEF Recipient
  <2>2. rows \in [DOMAIN rows -> Recipient]
        BY DEF RowsKept
  <2>3. heard => [rows[r] EXCEPT !.heard = rows[r].heard + 1] = x
        BY <1>4, <2>1
  <2>4. ~heard => rows[r] = x
        BY <1>4, <2>1
  <2>5. [rows EXCEPT ![r] = rows[r]] = rows
        BY <1>3, <2>2
  <2> HIDE DEF x
  <2>6. heard => rows' = [rows EXCEPT ![r] = [rows[r] EXCEPT !.heard = rows[r].heard + 1]]
        BY <1>1
  <2> QED BY <1>1, <2>3, <2>4, <2>5, <2>6
<1>9. RowTrue(x) /\ WorkTrue(k, x)
  <2> HIDE DEF k
  <2> QED BY <1>2, <1>4, <1>6 DEF RowTrue, WorkTrue
<1> HIDE DEF k, x, r
<1> QED BY <1>0, <1>3, <1>5, <1>6, <1>7, <1>8, <1>9, OneRow

LEMMA RowIsRecorded ==
  ASSUME RowsKept, NEW w \in DOMAIN workers, Notifications!SetResult(w)
  PROVE  RowsKept'
<1> DEFINE r == workers[w].row
           k == [Notifications!Rest EXCEPT !.at = "claim"]
           x == IF rows[r].status = "sending" THEN [rows[r] EXCEPT !.status = workers[w].result] ELSE rows[r]
<1>0. w \in Deliverers /\ workers[w] \in Worker
      BY DEF RowsKept
<1>1. /\ workers[w].at = "record"
      /\ rows' = IF rows[r].status = "sending" THEN [rows EXCEPT ![r].status = workers[w].result] ELSE rows
      /\ workers' = [workers EXCEPT ![w] = k]
      BY DEF Notifications!SetResult
<1>2. r \in DOMAIN rows /\ WorkTrue(workers[w], rows[r])
      BY <1>0, <1>1 DEF RowsKept, Holds
<1>3. rows[r] \in Recipient /\ workers[w].result \in {"sent", "failed", "skipped"}
      BY <1>0, <1>2 DEF RowsKept, Worker
<1>4. \A v \in Deliverers : v # w /\ Holds(workers[v]) => workers[v].row # r
      BY <1>0, <1>1 DEF RowsKept, Holds
<1>5. k \in Worker /\ ~Holds(k)
      BY DEF Notifications!Rest, Worker, Holds
<1>6. x \in Recipient /\ RowTrue(x)
  <2>1. CASE rows[r].status = "sending"
        BY <1>1, <1>2, <1>3, <2>1 DEF Recipient, RowTrue, WorkTrue
  <2>2. CASE rows[r].status # "sending"
        BY <1>2, <1>3, <2>2 DEF RowsKept
  <2> QED BY <2>1, <2>2
<1>7. rows' = [rows EXCEPT ![r] = x]
      BY <1>1, <1>2 DEF RowsKept
<1> HIDE DEF k, x, r
<1> QED BY <1>0, <1>1, <1>2, <1>4, <1>5, <1>6, <1>7, OneRow

LEMMA InterruptedRowsFail ==
  ASSUME RowsKept, Notifications!FailInterruptedManualNotifications
  PROVE  RowsKept'
<1>1. /\ workers["resume"].at = "start"
      /\ rows' = [r \in DOMAIN rows |-> IF rows[r].status = "sending" THEN [rows[r] EXCEPT !.status = "failed"] ELSE rows[r]]
      /\ workers' = [workers EXCEPT !["resume"].at = "list"]
      BY DEF Notifications!FailInterruptedManualNotifications
<1>2. ASSUME NEW r \in DOMAIN rows
      PROVE  /\ rows'[r] \in Recipient /\ RowTrue(rows'[r])
             /\ \A k : WorkTrue(k, rows[r]) => WorkTrue(k, rows'[r])
  <2>1. rows[r] \in Recipient /\ RowTrue(rows[r])
        BY DEF RowsKept
  <2>2. CASE rows[r].status = "sending"
    <3>1. rows'[r] = [rows[r] EXCEPT !.status = "failed"]
          BY <1>1, <2>2
    <3> QED BY <2>1, <2>2, <3>1 DEF Recipient, RowTrue, WorkTrue
  <2>3. CASE rows[r].status # "sending"
        BY <1>1, <2>1, <2>3
  <2> QED BY <2>2, <2>3
<1>3. DOMAIN rows' = DOMAIN rows /\ rows' \in [DOMAIN rows' -> Recipient]
      BY <1>1, <1>2
<1>4. /\ workers' \in [Deliverers -> Worker]
      /\ \A w \in Deliverers : Holds(workers'[w]) => workers'[w] = workers[w]
  <2>1. workers \in [Deliverers -> Worker] /\ workers["resume"] \in Worker
        BY DEF RowsKept, Deliverers
  <2> DEFINE k == [workers["resume"] EXCEPT !.at = "list"]
  <2>2. k \in Worker /\ ~Holds(k)
        BY <2>1 DEF Worker, Holds
  <2>3. workers' = [workers EXCEPT !["resume"] = k]
        BY <1>1
  <2> HIDE DEF k
  <2> QED BY <2>1, <2>2, <2>3
<1>5. \A w \in Deliverers : Holds(workers'[w]) =>
        workers'[w].row \in DOMAIN rows' /\ WorkTrue(workers'[w], rows'[workers'[w].row])
      BY <1>2, <1>3, <1>4 DEF RowsKept
<1>6. \A v, w \in Deliverers : v # w /\ Holds(workers'[v]) /\ Holds(workers'[w]) => workers'[v].row # workers'[w].row
      BY <1>4 DEF RowsKept
<1> QED BY <1>2, <1>3, <1>4, <1>5, <1>6 DEF RowsKept

LEMMA WorkersRest ==
  ASSUME RowsKept,
         \/ \E w \in DOMAIN workers : Notifications!NothingPending(w)
         \/ Notifications!ListPendingManualNotificationIDs \/ Notifications!Restart
  PROVE  RowsKept'
<1>0. workers \in [Deliverers -> Worker]
      BY DEF RowsKept
<1>r. Notifications!Rest \in Worker /\ [Notifications!Rest EXCEPT !.at = "start"] \in Worker /\ ~Holds(Notifications!Rest) /\ ~Holds([Notifications!Rest EXCEPT !.at = "start"])
      BY DEF Notifications!Rest, Worker, Holds
<1>1. CASE \E w \in DOMAIN workers : Notifications!NothingPending(w)
  <2>1. PICK w \in Deliverers : workers' = [workers EXCEPT ![w] = Notifications!Rest] /\ UNCHANGED rows
        BY <1>0, <1>1 DEF Notifications!NothingPending
  <2> QED BY <1>0, <1>r, <2>1, NoRow
<1>2. CASE Notifications!ListPendingManualNotificationIDs
  <2>1. PICK a \in {"claim", "idle"} : workers' = [workers EXCEPT !["resume"].at = a]
        BY <1>2 DEF Notifications!ListPendingManualNotificationIDs
  <2> DEFINE k == [workers["resume"] EXCEPT !.at = a]
  <2>2. k \in Worker /\ ~Holds(k)
    <3>1. workers["resume"] \in Worker
          BY <1>0 DEF Deliverers
    <3> QED BY <3>1 DEF Worker, Holds
  <2>3. workers' = [workers EXCEPT !["resume"] = k] /\ UNCHANGED rows
        BY <1>2, <2>1 DEF Notifications!ListPendingManualNotificationIDs
  <2> HIDE DEF k
  <2> QED BY <1>0, <2>2, <2>3, NoRow
<1>3. CASE Notifications!Restart
  <2>1. /\ UNCHANGED rows
        /\ workers' = [w \in DOMAIN workers |-> IF w = "resume" THEN [Notifications!Rest EXCEPT !.at = "start"] ELSE Notifications!Rest]
        BY <1>3 DEF Notifications!Restart
  <2> QED BY <1>0, <1>r, <2>1, NoRow
<1> QED BY <1>1, <1>2, <1>3

LEMMA RowsStep ==
  ASSUME NoticesTyped, RowsKept, [Notifications!Next]_(Notifications!vars)
  PROVE  RowsKept'
<1>1. CASE UNCHANGED <<rows, workers>>
      BY <1>1 DEF RowsKept
<1>2. CASE \E media \in SUBSET Notifications!Media \ {{}}, who \in SUBSET Members \ {{}} : Notifications!CreateManualNotification(media, who)
      BY <1>2, RowsAreListed
<1>3. CASE \E w \in DOMAIN workers :
       \/ Notifications!ClaimManualNotificationRecipient(w) \/ Notifications!NothingPending(w) \/ Notifications!SetResult(w)
       \/ \E outcome \in {"sent", "refused", "queued"} : Notifications!Deliver(w, outcome)
      BY <1>3, RowIsClaimed, RowIsRecorded, RowIsDelivered, WorkersRest
<1> QED BY <1>1, <1>2, <1>3, InterruptedRowsFail, WorkersRest
        DEF Notifications!Next, Notifications!vars, Notifications!manual, Notifications!CreateTelegramBindToken, Notifications!UnbindTelegram, Notifications!SetTelegramNotify, Notifications!HandleTelegramUpdate,
       Notifications!Command, Notifications!GetUpdates, Notifications!SetMail, Notifications!Configure, Notifications!Turn, Notifications!SweepNotifies, Notifications!SweepUser, Notifications!SweepEnds, Notifications!ClaimNotify, Notifications!SendNotice

LEMMA NoticesInvStep == ASSUME NoticesSane, NoticesInv, [Notifications!Next]_(Notifications!vars) PROVE NoticesInv'
<1>0. LinksSpent /\ NoticesTyped /\ NoticesKept /\ RowsKept
      BY DEF NoticesInv
<1>1. LinksSpent'
      BY <1>0, LinksStep
<1>2. NoticesTyped'
      BY <1>0, BindsTyped, UpdatesTyped, MailTyped, PlansTyped, SweepTyped, NoticesStep
      DEF NoticesTyped, Sweeping, Claiming
<1>3. NoticesKept' /\ RowsKept'
      BY <1>0, NoticesStep, RowsStep
<1> QED BY <1>1, <1>2, <1>3 DEF NoticesInv

LEMMA NoticesInvAccounts == NoticesInv => Notifications!MessagesAreAccountedFor
<1> SUFFICES ASSUME NoticesInv PROVE Notifications!MessagesAreAccountedFor
    OBVIOUS
<1>1. \A t \in DOMAIN tokens : tokens[t].binds <= 1
  <2>1. \A t \in DOMAIN tokens : tokens[t] \in LinkRow
        BY DEF NoticesInv, LinksSpent
  <2>2. \A t \in DOMAIN tokens : tokens[t].binds \in {0, 1}
        BY <2>1 DEF LinkRow
  <2> QED BY <2>2
<1>2. \A x \in told : x[2] <= 1 + x[3] /\ (x[1][1] = "email" => x[3] = 0)
  <2>1. \A x \in told : x \in NoticeKeys \X Nat \X Nat /\ x[2] \in {x[3], x[3] + 1} /\ (x[1][1] = "email" => x[3] = 0)
        BY DEF NoticesInv, NoticesTyped, ToldRight
  <2> QED BY <2>1
<1>3. \A r \in DOMAIN rows :
        /\ rows[r].heard <= 1
        /\ rows[r].status = "sent" => rows[r].heard = 1
        /\ rows[r].status \in {"pending", "skipped"} => rows[r].heard = 0
  <2>1. \A r \in DOMAIN rows : rows[r].heard \in {0, 1} /\ RowTrue(rows[r])
        BY DEF NoticesInv, RowsKept, Recipient
  <2> QED BY <2>1 DEF RowTrue
<1> QED BY <1>1, <1>2, <1>3 DEF NoticesInv, NoticesKept, Notifications!MessagesAreAccountedFor

\* A bind link binds once, a reminder by mail is heard at most once per episode and one by
\* Telegram once more for each delivery whose answer was lost, a claim stands only if its
\* reminder was delivered, is being sent or was cut off, and a broadcast reaches a recipient
\* at most once and is recorded as it went, whatever the crashes, repeated sweeps, lost
\* answers and overlapping workers, for any members, chats and plans
THEOREM MessagesAddUp == Spec => []MessagesAreAccountedFor
<1> DEFINE Inv == scenario = "notifications" => NoticesInv
<1>1. Init => Inv
      BY NoticesInit, PanelIsSane DEF Init
<1>2. Inv /\ [Next]_vars => Inv'
  <2> SUFFICES ASSUME Inv, [Next]_vars, scenario = "notifications"
               PROVE  NoticesInv'
      BY DEF Next, vars
  <2>1. [Notifications!Next]_(Notifications!vars)
        BY DEF Next, vars, Notifications!vars, notificationsOnly
  <2> QED BY <2>1, NoticesInvStep, PanelIsSane
<1>3. Inv => MessagesAreAccountedFor
      BY NoticesInvAccounts, PanelIsSane DEF MessagesAreAccountedFor
<1> QED BY <1>1, <1>2, <1>3, PTL DEF Spec
=============================================================================
