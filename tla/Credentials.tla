---------------------------- MODULE Credentials ----------------------------
(* What a member's nodes, proxies, browsers and scripts authenticate with,   *)
(* and what takes it away: resets of the node secret, changes of a proxy     *)
(* login, a new password, edits and bans by an administrator.  A name is     *)
(* checked in one statement and written in the next, an administrator's edit *)
(* writes back the status it read, a login looks at the password before it   *)
(* opens a session: requests interleave.  Left out: expiry of proxy logins   *)
(* and of sessions, the address of a subscription, rate limits, what a name  *)
(* may look like; making accounts is in Accounts, who owns which node in     *)
(* Access.                                                                   *)
EXTENDS Integers, FiniteSets

CONSTANTS
  Users,     \* members
  Admins,    \* those of them that may make machine tokens
  Names,     \* proxy names a member may choose
  Devices,   \* browsers
  Jobs,      \* requests that can be under way together
  Cooldown,  \* between two resets by the member, in days
  Grace,     \* how long an alias of an older release is accepted
  Horizon,   \* bound on time
  MaxOps,    \* bound on requests
  None

VARIABLES
  user,      \* [Users -> the row of users with the proxy names and passwords of its rows]
  alias,     \* rows of user_credential_aliases
  apiToken,  \* machine tokens: owner, revoked, and whether it was there at a ban
  session,   \* logged-in browsers: user, device, the password used, and whether the
             \* login was under way when the password or the status changed
  allowed,   \* the setting node_creds_reset_enabled
  job,       \* requests under way
  dead,      \* node secrets a reset has revoked
  kept,      \* what the holder of each proxy login was told
  hasty,     \* a member reset twice within the cooldown
  raced,     \* names two requests were choosing at the same time
  now, ops

vars == <<user, alias, apiToken, session, allowed, job, dead, kept, hasty, raced, now, ops>>

Places == {"account", "line", "grant"}  \* users, plan_identities, user_plans
Rows == {"first", "renewal", "grant"}   \* buckets with a login of their own
Idle == [at |-> "idle"]
Spend == ops < MaxOps /\ ops' = ops + 1
Go(j, next) == job' = [job EXCEPT ![j] = next]
Live(u) == user[u].status # "gone"

\* The login a mixed inbound takes for bucket r of a member: the line's when the line
\* has a name, else the row's, and without a password of its own the node secret
Login(row, r) ==
  LET place == IF r = "grant" THEN "grant" ELSE "line"
      own == IF place = "line" /\ row.name["line"] # None THEN row.pass["line"] ELSE row.pass[r]
  IN [name |-> row.name[place], pass |-> IF own = None THEN [secret |-> row.secret] ELSE own]

Bought(row) == IF row.renewed THEN Rows ELSE Rows \ {"renewal"}
Logins(row) == [r \in Bought(row) |-> Login(row, r)]

\* Secrets the node inbounds take for a member
Accepted(u) == {user[u].secret} \cup {a.secret : a \in {x \in alias : x.user = u /\ x.until > now}}
-----------------------------------------------------------------------------
(* Node secrets                                                              *)

SetResetSwitch ==
  /\ Spend /\ allowed' = ~allowed
  /\ UNCHANGED <<user, alias, apiToken, session, job, dead, kept, hasty, raced, now>>

\* Mutant: the rows keep falling back to the secret that has moved
Unpinned(row) == [row EXCEPT !.secret = @ + 1, !.reset = now]

\* The new secret and the stamp; the old one pinned wherever a proxy password was empty
Pinned(row) ==
  [row EXCEPT !.secret = @ + 1, !.reset = now,
     !.pass = [r \in DOMAIN @ |->
       IF @[r] = None /\ r \in Bought(row) \cup {"line"} THEN [secret |-> row.secret] ELSE @[r]]]

\* RotateNodeCredentials: the aliases of older releases go too
RotateNodeCredentials(u) ==
  /\ user' = [user EXCEPT ![u] = Pinned(@)]
  /\ dead' = dead \cup {[user |-> u, secret |-> s] : s \in Accepted(u)}
  /\ alias' = {a \in alias : a.user # u}

\* The member's own reset looks at the switch and takes its cutoff from the clock
HandleResetNodeCreds(j) ==
  /\ job[j] = Idle /\ Spend /\ allowed
  /\ \E s \in session : Live(s.user) /\ Go(j, [at |-> "reset", user |-> s.user, cutoff |-> now - Cooldown])
  /\ UNCHANGED <<user, alias, apiToken, session, allowed, dead, kept, hasty, raced, now>>

ResetOwn(j) ==
  /\ job[j].at = "reset"
  /\ LET u == job[j].user IN
       IF Live(u) /\ user[u].reset <= job[j].cutoff
         THEN RotateNodeCredentials(u) /\ hasty' = (hasty \/ now - user[u].reset < Cooldown)
         ELSE UNCHANGED <<user, alias, dead, hasty>>
  /\ Go(j, Idle)
  /\ UNCHANGED <<apiToken, session, allowed, kept, raced, now, ops>>

\* The administrator's reset waits for no cooldown
HandleAdminResetNodeCreds ==
  /\ Spend
  /\ \E u \in Users : Live(u) /\ RotateNodeCredentials(u)
  /\ UNCHANGED <<apiToken, session, allowed, job, kept, hasty, raced, now>>

\* A renewal is a new row of the line, with no proxy password of its own
BuyRenewal ==
  /\ Spend
  /\ \E u \in Users :
       /\ Live(u) /\ ~user[u].renewed
       /\ user' = [user EXCEPT ![u].renewed = TRUE]
       /\ kept' = [kept EXCEPT ![u] = [r \in Rows |->
            IF r = "renewal" THEN Login(user[u], r) ELSE @[r]]]
  /\ UNCHANGED <<alias, apiToken, session, allowed, job, dead, hasty, raced, now>>
-----------------------------------------------------------------------------
(* Proxy logins                                                              *)

\* One namespace over three tables; the row being written does not count
ProxyNameTaken(n, u, place) ==
  \E v \in Users, p \in Places : user[v].name[p] = n /\ <<v, p>> # <<u, place>>

\* SetUserProxyCred and SetBucketProxyCred look first ...
CheckName(j) ==
  /\ job[j] = Idle /\ Spend
  /\ \E s \in session, place \in Places, n \in Names :
       /\ Live(s.user) /\ ~ProxyNameTaken(n, s.user, place)
       /\ Go(j, [at |-> "name", user |-> s.user, place |-> place, name |-> n])
       /\ raced' = IF \E i \in Jobs \ {j} : job[i].at = "name" /\ job[i].name = n
                     THEN raced \cup {n} ELSE raced
  /\ UNCHANGED <<user, alias, apiToken, session, allowed, dead, kept, hasty, now>>

\* ... and write next: the unique index of the one table is all that is left
WriteName(j) ==
  /\ job[j].at = "name"
  /\ LET u == job[j].user
         n == job[j].name
         place == job[j].place
     IN IF Live(u) /\ \A v \in Users \ {u} : user[v].name[place] # n
          THEN /\ user' = [user EXCEPT ![u].name[place] = n, ![u].pass[place] = [own |-> n]]
               /\ kept' = [kept EXCEPT ![u] = Logins(user'[u])]
          ELSE UNCHANGED <<user, kept>>
  /\ Go(j, Idle)
  /\ UNCHANGED <<alias, apiToken, session, allowed, dead, hasty, raced, now, ops>>
-----------------------------------------------------------------------------
(* Sessions, passwords and machine tokens                                    *)

\* The request goes on; logins of u that looked before this write are told apart
GoLate(j, next, u) ==
  job' = [i \in Jobs |-> IF i = j THEN next
            ELSE IF job[i].at = "login" /\ job[i].user = u THEN [job[i] EXCEPT !.late = TRUE]
            ELSE job[i]]

HandleLogin(j) ==
  /\ job[j] = Idle /\ Spend
  /\ \E u \in Users, d \in Devices :
       /\ user[u].status = "active"
       /\ Go(j, [at |-> "login", user |-> u, device |-> d, jti |-> ops', late |-> FALSE,
                 password |-> user[u].password])
  /\ UNCHANGED <<user, alias, apiToken, session, allowed, dead, kept, hasty, raced, now>>

\* One session per device: the one before is replaced
CreateSession(j) ==
  /\ job[j].at = "login"
  /\ LET u == job[j].user IN
       session' = IF ~Live(u) THEN session
                  ELSE {s \in session : <<s.user, s.device>> # <<u, job[j].device>>}
                       \cup {[user |-> u, device |-> job[j].device, jti |-> job[j].jti,
                              password |-> job[j].password, late |-> job[j].late]}
  /\ Go(j, Idle)
  /\ UNCHANGED <<user, alias, apiToken, allowed, dead, kept, hasty, raced, now, ops>>

\* The old password is looked at, then the new one stored, then the others logged out
HandleChangePassword(j) ==
  /\ job[j] = Idle /\ Spend
  /\ \E s \in session :
       /\ Live(s.user) /\ s.password = user[s.user].password
       /\ Go(j, [at |-> "change", user |-> s.user, jti |-> s.jti])
  /\ UNCHANGED <<user, alias, apiToken, session, allowed, dead, kept, hasty, raced, now>>

ChangePassword(j) ==
  /\ job[j].at = "change"
  /\ LET u == job[j].user IN
       IF ~Live(u) THEN Go(j, Idle) /\ UNCHANGED <<user, session>>
       ELSE /\ user' = [user EXCEPT ![u].password = @ + 1]
            /\ session' = {IF s.jti = job[j].jti /\ s.user = u
                             THEN [s EXCEPT !.password = user[u].password + 1] ELSE s : s \in session}
            /\ GoLate(j, [job[j] EXCEPT !.at = "others"], u)
  /\ UNCHANGED <<alias, apiToken, allowed, dead, kept, hasty, raced, now, ops>>

DeleteUserSessionsExcept(j) ==
  /\ job[j].at = "others"
  /\ session' = {s \in session : s.user = job[j].user => s.jti = job[j].jti}
  /\ Go(j, Idle)
  /\ UNCHANGED <<user, alias, apiToken, allowed, dead, kept, hasty, raced, now, ops>>

RevokeSession ==
  /\ Spend
  /\ \E s \in session : session' = session \ {s}
  /\ UNCHANGED <<user, alias, apiToken, allowed, job, dead, kept, hasty, raced, now>>

\* Only a browser session may make a machine token
HandleAdminCreateAPIToken(j) ==
  /\ job[j] = Idle /\ Spend
  /\ \E s \in session : s.user \in Admins /\ Go(j, [at |-> "token", user |-> s.user])
  /\ UNCHANGED <<user, alias, apiToken, session, allowed, dead, kept, hasty, raced, now>>

CreateAPIToken(j) ==
  /\ job[j].at = "token"
  /\ apiToken' = apiToken \cup {[user |-> job[j].user, revoked |-> FALSE, held |-> FALSE]}
  /\ Go(j, Idle)
  /\ UNCHANGED <<user, alias, session, allowed, dead, kept, hasty, raced, now, ops>>

RevokeAPIToken ==
  /\ Spend
  /\ \E t \in apiToken : apiToken' = (apiToken \ {t}) \cup {[t EXCEPT !.revoked = TRUE]}
  /\ UNCHANGED <<user, alias, session, allowed, job, dead, kept, hasty, raced, now>>

\* LookupAPIToken and the middleware: the owner must be active now
Usable(t) == ~t.revoked /\ user[t.user].status = "active"
-----------------------------------------------------------------------------
(* The administrator's edit of a member                                      *)

\* It reads the row first; a status that is not given is the one it read
HandleAdminUpdateUser(j) ==
  /\ job[j] = Idle /\ Spend
  /\ \E u \in Users, password \in BOOLEAN, status \in {None, "active", "banned"} :
       /\ Live(u)
       /\ Go(j, [at |-> IF password THEN "password" ELSE "update", user |-> u,
                 status |-> IF status = None THEN user[u].status ELSE status])
  /\ UNCHANGED <<user, alias, apiToken, session, allowed, dead, kept, hasty, raced, now>>

UpdatePassword(j) ==
  /\ job[j].at = "password"
  /\ user' = [user EXCEPT ![job[j].user].password = @ + 1]
  /\ GoLate(j, [job[j] EXCEPT !.at = "kick"], job[j].user)
  /\ UNCHANGED <<alias, apiToken, session, allowed, dead, kept, hasty, raced, now, ops>>

DeleteUserSessions(j) ==
  /\ job[j].at \in {"kick", "expel"}
  /\ session' = {s \in session : s.user # job[j].user}
  /\ Go(j, IF job[j].at = "kick" THEN [job[j] EXCEPT !.at = "update"] ELSE Idle)
  /\ UNCHANGED <<user, alias, apiToken, allowed, dead, kept, hasty, raced, now, ops>>

\* A ban revokes the machine tokens with it, and ends the sessions in the next step
AdminUpdateUser(j) ==
  /\ job[j].at = "update"
  /\ LET u == job[j].user
         ban == job[j].status = "banned"
     IN /\ user' = IF Live(u) THEN [user EXCEPT ![u].status = job[j].status] ELSE user
        /\ apiToken' = IF ban THEN {IF t.user = u THEN [t EXCEPT !.revoked = TRUE, !.held = TRUE]
                                    ELSE t : t \in apiToken}
                       ELSE apiToken
        /\ IF ban THEN GoLate(j, [job[j] EXCEPT !.at = "expel"], u) ELSE Go(j, Idle)
  /\ UNCHANGED <<alias, session, allowed, dead, kept, hasty, raced, now, ops>>

\* The member goes with everything that authenticates it
DeleteUser ==
  /\ Spend
  /\ \E u \in Users :
       /\ Live(u)
       /\ user' = [user EXCEPT ![u].status = "gone", ![u].name = [p \in Places |-> None]]
       /\ alias' = {a \in alias : a.user # u}
       /\ apiToken' = {t \in apiToken : t.user # u}
       /\ session' = {s \in session : s.user # u}
       /\ kept' = [kept EXCEPT ![u] = Logins(user'[u])]
  /\ UNCHANGED <<allowed, job, dead, hasty, raced, now>>

Tick ==
  /\ now < Horizon /\ now' = now + 1
  /\ UNCHANGED <<user, alias, apiToken, session, allowed, job, dead, kept, hasty, raced, ops>>

NewRow ==
  [status |-> "active", secret |-> 1, reset |-> -Cooldown, password |-> 0, renewed |-> FALSE,
   name |-> [p \in Places |-> None], pass |-> [r \in Rows \cup Places |-> None]]

\* Members of an older release: logged in, with an alias of their old secret
Init ==
  /\ user = [u \in Users |-> NewRow]
  /\ alias = [user : Users, secret : {0}, until : {Grace}]
  /\ apiToken = {} /\ allowed = TRUE
  /\ session = [user : Users, device : {CHOOSE d \in Devices : TRUE},
                jti : {0}, password : {0}, late : {FALSE}]
  /\ job = [j \in Jobs |-> Idle]
  /\ dead = {} /\ hasty = FALSE /\ raced = {}
  /\ kept = [u \in Users |-> Logins(NewRow)]
  /\ now = 0 /\ ops = 0

Next ==
  \/ \E j \in Jobs :
       \/ HandleResetNodeCreds(j) \/ ResetOwn(j) \/ CheckName(j) \/ WriteName(j)
       \/ HandleLogin(j) \/ CreateSession(j)
       \/ HandleChangePassword(j) \/ ChangePassword(j) \/ DeleteUserSessionsExcept(j)
       \/ HandleAdminCreateAPIToken(j) \/ CreateAPIToken(j)
       \/ HandleAdminUpdateUser(j) \/ UpdatePassword(j) \/ DeleteUserSessions(j) \/ AdminUpdateUser(j)
  \/ SetResetSwitch \/ HandleAdminResetNodeCreds \/ BuyRenewal
  \/ RevokeSession \/ RevokeAPIToken \/ DeleteUser \/ Tick

Spec == Init /\ [][Next]_vars
-----------------------------------------------------------------------------
(* Properties                                                                *)

\* No secret a reset revoked is accepted again, and a member's own resets keep the
\* cooldown whatever was under way
RevokedIsRefused == (\A d \in dead : d.secret \notin Accepted(d.user)) /\ ~hasty

\* A proxy login that was handed out for a bucket works until its holder changes it
LoginsAreKept == \A u \in Users : \A r \in Bought(user[u]) : Login(user[u], r) = kept[u][r]

\* A proxy name meters one bucket, unless two requests were choosing it together
NamesMeterOne ==
  \A n \in Names \ raced :
    \A x, y \in Users \X Places : user[x[1]].name[x[2]] = n /\ user[y[1]].name[y[2]] = n => x = y

\* A session outlives a new password or a ban only while the request is still on its
\* way to end it, or when its login was under way at the change
SessionsEnd ==
  \A s \in session :
    \/ s.late
    \/ s.password = user[s.user].password /\ user[s.user].status = "active"
    \/ \E j \in Jobs : job[j].at \in {"kick", "others", "expel"} /\ job[j].user = s.user

\* What was taken away stays away, and nothing else is: a reset ends the old node
\* secret but no proxy login, a new password ends the other sessions, a ban the
\* machine tokens for good, even when an edit under way writes the old status back
CredentialsAreSettled ==
  /\ RevokedIsRefused
  /\ LoginsAreKept
  /\ NamesMeterOne
  /\ SessionsEnd
  /\ \A t \in apiToken : t.held => ~Usable(t)
=============================================================================
