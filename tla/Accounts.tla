------------------------------ MODULE Accounts ------------------------------
(* How an account comes to be: registration, open or by invite code, by the  *)
(* administrator, or on the first login through the identity provider; the   *)
(* steps that give it a client, its buckets and a session; addresses and the *)
(* links mailed to them; deletion, bans and a panel that stops between two   *)
(* steps. Each handler is a chain of statements, so handlers interleave.     *)
(* Passwords, rate limits, expiry of tokens and the text of mails are left   *)
(* out.                                                                      *)
EXTENDS Integers, FiniteSets, Sequences

CONSTANTS
  Users,       \* ids of users, never used twice
  Addresses,   \* e-mail addresses
  Subjects,    \* subjects of the identity provider
  Jobs,        \* requests that can be under way together
  MaxUses,     \* max_uses of the invite code
  None,
  MaxOps       \* bound on requests

VARIABLES
  user,        \* per id: a row of users with what the account owns, or new, or gone
  code,        \* the invite code: state and used
  token,       \* unused verification links: the users they are for
  identity,    \* rows of oauth_identities: [subject -> user and provisioned], or None
  session,     \* live sessions: user and how it logged in
  job,         \* requests under way
  ops

vars == <<user, code, token, identity, session, job, ops>>

Goods == <<"client", "pool", "free", "proxy", "welcome">>
AllGoods == {Goods[i] : i \in DOMAIN Goods}
Upto(n) == {Goods[i] : i \in 1..n}

Live(u) == u \in Users /\ user[u].is = "live"
New == {u \in Users : user[u].is = "new"}
Idle == [at |-> "idle"]
Spend == ops < MaxOps /\ ops' = ops + 1
Go(j, next) == job' = [job EXCEPT ![j] = next]
To(j, at) == Go(j, [job[j] EXCEPT !.at = at])
AddressTaken(a) == a # None /\ \E u \in Users : Live(u) /\ user[u].addr = a

Row(is, a) ==
  [is |-> is, addr |-> a, ok |-> FALSE, has |-> {}, via |-> "none", banned |-> FALSE, cut |-> FALSE]
Account(a, via, ok) == [Row("live", a) EXCEPT !.via = via, !.ok = ok]

\* DeleteUser takes sessions, links and identities along
Erased(u) ==
  /\ user' = [user EXCEPT ![u] = Row("gone", None)]
  /\ token' = token \ {u}
  /\ session' = {s \in session : s.user # u}
  /\ identity' = [s \in Subjects |-> IF identity[s] # None /\ identity[s].user = u
                                      THEN None ELSE identity[s]]

EraseIfLive(u) ==
  IF Live(u) THEN Erased(u) ELSE UNCHANGED <<user, token, session, identity>>

CodeUsable == code.state = "on" /\ code.used < MaxUses
-----------------------------------------------------------------------------
(* Registration                                                              *)

\* The code is looked at here and spent at the end
Register(j) ==
  /\ job[j] = Idle /\ Spend
  /\ \E via \in {"open", "code"}, verify \in BOOLEAN, a \in Addresses \cup {None} :
       /\ via = "code" => ~verify /\ CodeUsable
       /\ verify => a # None
       /\ ~AddressTaken(a)
       /\ Go(j, [at |-> "create", via |-> via, verify |-> verify, addr |-> a, user |-> None])
  /\ UNCHANGED <<user, code, token, identity, session>>

AdminCreateUser(j) ==
  /\ job[j] = Idle /\ Spend
  /\ \E a \in Addresses \cup {None} :
       /\ ~AddressTaken(a)
       /\ Go(j, [at |-> "create", via |-> "admin", verify |-> FALSE, addr |-> a, user |-> None])
  /\ UNCHANGED <<user, code, token, identity, session>>

\* The unique address decides between two that passed the check together
CreateUser(j) ==
  /\ job[j].at = "create"
  /\ IF AddressTaken(job[j].addr) \/ New = {}
       THEN Go(j, Idle) /\ UNCHANGED user
       ELSE LET u == CHOOSE x \in New : TRUE IN
            /\ user' = [user EXCEPT ![u] = Account(job[j].addr, job[j].via, job[j].via = "admin")]
            /\ Go(j, [job[j] EXCEPT !.user = u, !.at = IF job[j].verify THEN "mail" ELSE "provision"])
  /\ UNCHANGED <<code, token, identity, session, ops>>

\* A link that cannot be stored takes the new account back
CreateVerifyToken(j) ==
  /\ job[j].at = "mail"
  /\ Go(j, Idle)
  /\ \/ /\ Live(job[j].user)
        /\ token' = token \cup {job[j].user}
        /\ UNCHANGED <<user, session, identity>>
     \/ EraseIfLive(job[j].user)
  /\ UNCHANGED <<code, ops>>

\* provisionClient: each statement may be the one that fails, and so may the
\* configuration at the end
ProvisionClient(j) ==
  /\ job[j].at = "provision"
  /\ LET u == job[j].user
         undo == job[j].via \in {"open", "code", "admin"}
     IN \E n \in 0..Len(Goods), fails \in BOOLEAN :
          /\ ~Live(u) => n = 0
          /\ n < Len(Goods) => fails
          /\ IF fails /\ undo
               THEN EraseIfLive(u) /\ Go(j, Idle)
               ELSE /\ user' = IF Live(u) THEN [user EXCEPT ![u].has = @ \cup Upto(n)] ELSE user
                    /\ IF fails \/ ~undo THEN Go(j, Idle)
                       ELSE To(j, IF job[j].via = "code" THEN "spend" ELSE "session")
                    /\ UNCHANGED <<token, session, identity>>
  /\ UNCHANGED <<code, ops>>

\* Mutant: the account stays when the code ran out meanwhile
FinalizeRegCodeKeep(j) ==
  /\ job[j].at = "spend"
  /\ IF CodeUsable THEN code' = [code EXCEPT !.used = @ + 1] ELSE UNCHANGED code
  /\ To(j, "session")
  /\ UNCHANGED <<user, token, session, identity, ops>>

\* The last place of the code may have gone to another: the account goes again
FinalizeRegCode(j) ==
  /\ job[j].at = "spend"
  /\ IF CodeUsable
       THEN /\ code' = [code EXCEPT !.used = @ + 1]
            /\ To(j, "session")
            /\ UNCHANGED <<user, token, session, identity>>
       ELSE EraseIfLive(job[j].user) /\ Go(j, Idle) /\ UNCHANGED code
  /\ UNCHANGED ops

IssueLogin(j) ==
  /\ job[j].at = "session"
  /\ session' = IF Live(job[j].user) /\ job[j].via # "admin"
                  THEN session \cup {[user |-> job[j].user, by |-> "panel"]} ELSE session
  /\ Go(j, Idle)
  /\ UNCHANGED <<user, code, token, identity, ops>>

Login ==
  /\ Spend
  /\ \E u \in Users : /\ Live(u) /\ ~user[u].banned /\ user[u].via # "oauth"
                      /\ session' = session \cup {[user |-> u, by |-> "panel"]}
  /\ UNCHANGED <<user, code, token, identity, job>>

Logout ==
  /\ Spend
  /\ \E s \in session : session' = session \ {s}
  /\ UNCHANGED <<user, code, token, identity, job>>
-----------------------------------------------------------------------------
(* Addresses                                                                 *)

\* The link is used up in one transaction, the address marked in the next
UseVerifyToken(j) ==
  /\ job[j] = Idle /\ Spend
  /\ \E u \in token : token' = token \ {u} /\ Go(j, [at |-> "verified", user |-> u])
  /\ UNCHANGED <<user, code, identity, session>>

SetEmailVerified(j) ==
  /\ job[j].at = "verified"
  /\ LET u == job[j].user IN
       IF ~Live(u) THEN Go(j, Idle) /\ UNCHANGED user
       ELSE /\ user' = [user EXCEPT ![u].ok = TRUE]
            /\ Go(j, IF "client" \in user[u].has THEN Idle
                     ELSE [at |-> "provision", user |-> u, via |-> "verify"])
  /\ UNCHANGED <<code, token, identity, session, ops>>

\* A new address drops the links of the old one
BindEmail(j) ==
  /\ job[j] = Idle /\ Spend
  /\ \E s \in session, a \in Addresses :
       /\ Live(s.user) /\ ~(AddressTaken(a) /\ user[s.user].addr # a)
       /\ ~(user[s.user].addr = a /\ user[s.user].ok)
       /\ user' = [user EXCEPT ![s.user].addr = a, ![s.user].ok = FALSE]
       /\ token' = token \ {s.user}
       /\ Go(j, [at |-> "link", user |-> s.user])
  /\ UNCHANGED <<code, identity, session>>

ResendVerify(j) ==
  /\ job[j] = Idle /\ Spend
  /\ \E s \in session :
       /\ Live(s.user) /\ ~user[s.user].ok /\ user[s.user].addr # None
       /\ Go(j, [at |-> "link", user |-> s.user])
  /\ UNCHANGED <<user, code, token, identity, session>>

CreateEmailToken(j) ==
  /\ job[j].at = "link"
  /\ token' = IF Live(job[j].user) THEN token \cup {job[j].user} ELSE token
  /\ Go(j, Idle)
  /\ UNCHANGED <<user, code, identity, session, ops>>

AdminSetUserEmail ==
  /\ Spend
  /\ \E u \in Users, a \in Addresses \cup {None} :
       /\ Live(u) /\ user[u].addr # a /\ ~AddressTaken(a)
       /\ user' = [user EXCEPT ![u].addr = a, ![u].ok = a # None]
       /\ token' = token \ {u}
  /\ UNCHANGED <<code, identity, session, job>>

\* The administrator's grant of a package gives a client to an account without one
GrantPackage(j) ==
  /\ job[j] = Idle /\ Spend
  /\ \E u \in Users : /\ Live(u) /\ "client" \notin user[u].has
                      /\ Go(j, [at |-> "provision", user |-> u, via |-> "grant"])
  /\ UNCHANGED <<user, code, token, identity, session>>
-----------------------------------------------------------------------------
(* The identity provider                                                     *)

\* The state row of a login or of a binding, with the session that asks for it
StartOAuth(j) ==
  /\ job[j] = Idle /\ Spend
  /\ \/ Go(j, [at |-> "asked", user |-> None])
     \/ \E s \in session : Live(s.user) /\ Go(j, [at |-> "asked", user |-> s.user])
  /\ UNCHANGED <<user, code, token, identity, session>>

\* The provider answers with a subject; the row is used up, whatever comes next
OAuthCallback(j) ==
  /\ job[j].at = "asked"
  /\ \/ Go(j, Idle)
     \/ \E s \in Subjects :
          IF job[j].user = None
            THEN Go(j, [at |-> "enter", subject |-> s, user |-> None])
            ELSE IF \E x \in session : x.user = job[j].user
                   THEN Go(j, [at |-> "bind", subject |-> s, user |-> job[j].user])
                   ELSE Go(j, Idle)
  /\ UNCHANGED <<user, code, token, identity, session, ops>>

\* An identity never moves, and an account has one
BindOAuthIdentity(j) ==
  /\ job[j].at = "bind"
  /\ LET u == job[j].user IN
       IF /\ Live(u) /\ ~user[u].banned /\ identity[job[j].subject] = None
          /\ \A s \in Subjects : identity[s] # None => identity[s].user # u
         THEN identity' = [identity EXCEPT ![job[j].subject] = [user |-> u, prov |-> TRUE]]
         ELSE UNCHANGED identity
  /\ Go(j, Idle)
  /\ UNCHANGED <<user, code, token, session, ops>>

Finalizing == {j \in Jobs : job[j].at \in {"supply", "mark", "oauthSession"}}

\* Finds the account of the identity or makes one, one callback at a time
OAuthLoginUser(j) ==
  /\ job[j].at = "enter" /\ Finalizing = {}
  /\ LET s == job[j].subject IN
        \/ /\ identity[s] # None
           /\ Go(j, IF user[identity[s].user].banned THEN Idle
                    ELSE [at |-> IF identity[s].prov THEN "oauthSession" ELSE "supply",
                          subject |-> s, user |-> identity[s].user])
           /\ UNCHANGED <<user, identity>>
        \/ /\ identity[s] = None
           /\ \E auto \in BOOLEAN, a \in Addresses \cup {None} :
                IF auto /\ ~AddressTaken(a) /\ New # {}
                  THEN LET u == CHOOSE x \in New : TRUE IN
                       /\ user' = [user EXCEPT ![u] = [Account(a, "oauth", a # None) EXCEPT !.has = {"client"}]]
                       /\ identity' = [identity EXCEPT ![s] = [user |-> u, prov |-> FALSE]]
                       /\ Go(j, [at |-> "supply", subject |-> s, user |-> u])
                  ELSE Go(j, Idle) /\ UNCHANGED <<user, identity>>
  /\ UNCHANGED <<code, token, session, ops>>

\* provisionOAuth: what fails is made up for on the next login
ProvisionOAuth(j) ==
  /\ job[j].at = "supply"
  /\ LET u == job[j].user IN
       \E n \in 1..Len(Goods) :
         /\ ~Live(u) => n < Len(Goods)
         /\ user' = IF Live(u) THEN [user EXCEPT ![u].has = @ \cup Upto(n)] ELSE user
         /\ IF n = Len(Goods) THEN To(j, "mark") ELSE Go(j, Idle)
  /\ UNCHANGED <<code, token, identity, session, ops>>

MarkOAuthProvisioned(j) ==
  /\ job[j].at = "mark"
  /\ \/ /\ identity' = IF identity[job[j].subject] = None THEN identity
                       ELSE [identity EXCEPT ![job[j].subject].prov = TRUE]
        /\ To(j, "oauthSession")
     \/ UNCHANGED identity /\ Go(j, Idle)
  /\ UNCHANGED <<user, code, token, session, ops>>

IssueOAuthLogin(j) ==
  /\ job[j].at = "oauthSession"
  /\ session' = IF Live(job[j].user)
                  THEN session \cup {[user |-> job[j].user, by |-> "provider"]} ELSE session
  /\ Go(j, Idle)
  /\ UNCHANGED <<user, code, token, identity, ops>>
-----------------------------------------------------------------------------
DeleteUser ==
  /\ Spend
  /\ \E u \in Users : Live(u) /\ Erased(u)
  /\ UNCHANGED <<code, job>>

AdminUpdateUser ==
  /\ Spend
  /\ \E u \in Users : Live(u) /\ user' = [user EXCEPT ![u].banned = ~@]
  /\ UNCHANGED <<code, token, identity, session, job>>

SetRegCodeEnabled ==
  /\ Spend
  /\ code.state # "gone"
  /\ code' = [code EXCEPT !.state = IF @ = "on" THEN "off" ELSE "on"]
  /\ UNCHANGED <<user, token, identity, session, job>>

DeleteRegCode ==
  /\ Spend
  /\ code.state # "gone" /\ code' = [code EXCEPT !.state = "gone"]
  /\ UNCHANGED <<user, token, identity, session, job>>

\* Requests under way are cut off; "cut" remembers whose registration that was
PanelRestarts ==
  /\ Spend
  /\ user' = [u \in Users |->
       IF Live(u) /\ \E j \in Jobs : job[j].at \in {"mail", "provision", "spend"} /\ job[j].user = u
       THEN [user[u] EXCEPT !.cut = TRUE] ELSE user[u]]
  /\ job' = [j \in Jobs |-> IF job[j].at = "asked" THEN job[j] ELSE Idle]
  /\ UNCHANGED <<code, token, identity, session>>

Next ==
  \/ \E j \in Jobs :
       \/ Register(j) \/ AdminCreateUser(j) \/ CreateUser(j) \/ CreateVerifyToken(j)
       \/ ProvisionClient(j) \/ FinalizeRegCode(j) \/ IssueLogin(j)
       \/ UseVerifyToken(j) \/ SetEmailVerified(j) \/ BindEmail(j) \/ ResendVerify(j)
       \/ CreateEmailToken(j) \/ GrantPackage(j)
       \/ StartOAuth(j) \/ OAuthCallback(j) \/ BindOAuthIdentity(j) \/ OAuthLoginUser(j)
       \/ ProvisionOAuth(j) \/ MarkOAuthProvisioned(j) \/ IssueOAuthLogin(j)
  \/ Login \/ Logout \/ AdminSetUserEmail \/ DeleteUser \/ AdminUpdateUser
  \/ SetRegCodeEnabled \/ DeleteRegCode \/ PanelRestarts

Init ==
  /\ user = [u \in Users |-> Row("new", None)]
  /\ code = [state |-> "on", used |-> 0]
  /\ token = {} /\ session = {}
  /\ identity = [s \in Subjects |-> None]
  /\ job = [j \in Jobs |-> Idle]
  /\ ops = 0

Spec == Init /\ [][Next]_vars
-----------------------------------------------------------------------------
(* Properties                                                                *)

\* An invite code admits no more accounts than it has places, whoever raced for the
\* last one: each account it let in, once its request is over, has used one up.  And
\* an account the identity provider made is complete before it is first logged in,
\* whichever step failed or was cut off on the way.
AdmissionIsSettled ==
  LET pending == {job[j].user : j \in {i \in Jobs : job[i].at \in {"provision", "spend"}}}
      admitted == {u \in Users : Live(u) /\ user[u].via = "code" /\ ~user[u].cut}
  IN /\ code.used <= MaxUses
     /\ Cardinality(admitted \ pending) <= code.used
     /\ \A s \in Subjects :
          identity[s] # None /\ identity[s].prov /\ user[identity[s].user].via = "oauth"
            => user[identity[s].user].has = AllGoods
     /\ \A s \in session :
          s.by = "provider" /\ user[s.user].via = "oauth" => user[s.user].has = AllGoods
=============================================================================
