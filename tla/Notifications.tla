--------------------------- MODULE Notifications ---------------------------
(* The messages the panel sends to its customers, and the Telegram accounts  *)
(* they go to: store/telegram.go, api/telegram.go (binding through a one-    *)
(* time link, the long poll and its offset), api/telegram_notify.go and      *)
(* api/email_notifications.go (the reminder sweep: claim, send, forget the   *)
(* claim of a failed send), store/manual_notifications.go and                *)
(* api/manual_notifications.go (an administrator's broadcast, its workers,   *)
(* and the resumption at start), mailer/mailer.go (a send whose answer is    *)
(* lost).                                                                    *)
(*                                                                           *)
(* Users, chats and addresses are model values; a private chat stands for    *)
(* the Telegram account that owns it.  A user's plan is what the reminders   *)
(* read of it: how much traffic is left, where its end lies, whether a later *)
(* plan of the line continues it, and an edition that changes when the end   *)
(* is moved (subject b<id>:<expiry>).  `told', `reached' and a row's `heard' *)
(* are histories of what was really delivered.                               *)
EXTENDS Naturals, Sequences, FiniteSets

CONSTANTS Users, Chats, None,
          MaxTokens,  \* bind links minted
          MaxOps      \* calls of people, steps of time and Telegram answers lost on the way

VARIABLES bind,     \* telegram_binds: [Users -> None or [chat, expiry, traffic]]
          tokens,   \* telegram_bind_tokens: sequence of [user, used, binds]
          updates,  \* updates the bot has not confirmed to Telegram
          offset,   \* of them, how many the running process has handled
          mail,     \* [Users -> [address, on]]: verified address, business_email
          plan,     \* [Users -> [level, end, renewed, edition]]
          channels, \* the channels configured: a subset of {"telegram", "email"}
          claims,   \* user_notify_log: keys <<channel, user, kind, subject>>
          reached,  \* claims whose message was delivered since they were made
          told,     \* deliveries of each key in the present episode, and how many of them the
                    \* panel took for failures: a set of <<key, n, unanswered>>
          unsure,   \* claims left by a crash, or by an answer lost after DATA
          sweep,    \* the reminder loop
          rows,     \* manual_notification_recipients of the broadcast, by <<user, channel>>
          workers,  \* the goroutines delivering it
          ops

vars == <<bind, tokens, updates, offset, mail, plan, channels, claims, reached, told, unsure,
          sweep, rows, workers, ops>>
binding  == <<bind, tokens, updates, offset>>
notices  == <<claims, reached, told, unsure, sweep>>
manual   == <<rows, workers>>

Media == {"telegram", "email"}
Spend == ops < MaxOps /\ ops' = ops + 1
Idle  == [at |-> "idle", left |-> <<>>, todo |-> <<>>, user |-> None, dest |-> None]
Rest  == [at |-> "idle", row |-> None, result |-> "failed"]
Key(medium, u, kind, subject) == <<medium, u, kind, subject>>
Told(key) == IF \E p \in told : p[1] = key THEN CHOOSE p \in told : p[1] = key ELSE <<key, 0, 0>>
-----------------------------------------------------------------------------
(* Binding                                                                   *)

\* CreateTelegramBindToken: the links a user already had are spent with the new one.
CreateTelegramBindToken(u) ==
  /\ Spend /\ Len(tokens) < MaxTokens /\ "telegram" \in channels
  /\ tokens' = Append([t \in DOMAIN tokens |-> IF tokens[t].user = u THEN [tokens[t] EXCEPT !.used = TRUE]
                                               ELSE tokens[t]],
                      [user |-> u, used |-> FALSE, binds |-> 0])
  /\ UNCHANGED <<bind, updates, offset, mail, plan, channels, notices, manual>>

\* A chat sends the bot a command; Telegram keeps it until the bot confirms it.
Command(c, what, t) ==
  /\ Spend
  /\ updates' = Append(updates, [chat |-> c, what |-> what, token |-> t])
  /\ UNCHANGED <<bind, tokens, offset, mail, plan, channels, notices, manual>>

Owner(c) == {u \in Users : bind[u] # None /\ bind[u].chat = c}

\* BindTelegramWithToken: one transaction checks the link, refuses an account someone
\* else owns, replaces the user's former chat (its preferences stay) and spends the link.
BindTelegramWithToken(t, c) ==
  LET u == tokens[t].user IN
  IF ~tokens[t].used /\ Owner(c) \subseteq {u}
  THEN /\ bind' = [bind EXCEPT ![u] = IF @ = None THEN [chat |-> c, expiry |-> TRUE, traffic |-> TRUE]
                                      ELSE [@ EXCEPT !.chat = c]]
       /\ tokens' = [tokens EXCEPT ![t].used = TRUE, ![t].binds = @ + 1]
  ELSE UNCHANGED <<bind, tokens>>

UnbindTelegramByTelegramID(c) ==
  /\ bind' = [u \in Users |-> IF u \in Owner(c) THEN None ELSE bind[u]]
  /\ UNCHANGED tokens

\* HandleTelegramUpdate: the next command of the batch; the offset is advanced first, in
\* memory only.
HandleTelegramUpdate ==
  /\ "telegram" \in channels
  /\ offset < Len(updates) /\ offset' = offset + 1
  /\ LET m == updates[offset + 1] IN
       \/ m.what = "start"  /\ BindTelegramWithToken(m.token, m.chat)
       \/ m.what = "unbind" /\ UnbindTelegramByTelegramID(m.chat)
  /\ UNCHANGED <<updates, mail, plan, channels, notices, manual, ops>>

\* The next long poll confirms what was handled.
GetUpdates ==
  /\ "telegram" \in channels /\ offset > 0
  /\ updates' = SubSeq(updates, offset + 1, Len(updates)) /\ offset' = 0
  /\ UNCHANGED <<bind, tokens, mail, plan, channels, notices, manual, ops>>

UnbindTelegram(u) ==
  /\ Spend /\ bind[u] # None /\ bind' = [bind EXCEPT ![u] = None]
  /\ UNCHANGED <<tokens, updates, offset, mail, plan, channels, notices, manual>>

SetTelegramNotify(u, pref) ==
  /\ Spend /\ bind[u] # None
  /\ bind' = IF pref = "expiry" THEN [bind EXCEPT ![u].expiry = ~@] ELSE [bind EXCEPT ![u].traffic = ~@]
  /\ UNCHANGED <<tokens, updates, offset, mail, plan, channels, notices, manual>>

\* A user verifies an address, drops it, or switches the reminders by mail.
SetMail(u, m) ==
  /\ Spend /\ mail[u] # m /\ mail' = [mail EXCEPT ![u] = m]
  /\ UNCHANGED <<binding, plan, channels, notices, manual>>

\* An administrator configures or removes the bot or the mail service.
Configure(medium) ==
  /\ Spend
  /\ channels' = IF medium \in channels THEN channels \ {medium} ELSE channels \cup {medium}
  /\ UNCHANGED <<binding, mail, plan, notices, manual>>
-----------------------------------------------------------------------------
(* Reminders                                                                 *)

Kinds(p) ==
  (IF p.level = "low" THEN {<<"traffic_low", 0>>} ELSE IF p.level = "out" THEN {<<"traffic_exhausted", 0>>} ELSE {})
  \cup (IF p.end = "soon" THEN {<<"expiry_soon", p.edition>>}
        ELSE IF p.end = "past" THEN {<<"expired", p.edition>>} ELSE {})

\* A user's traffic, the end of the plan in service or the plans behind it change.  An
\* episode of a notice begins when its condition becomes true.
Turn(u, p) ==
  /\ Spend /\ plan[u] # p /\ plan' = [plan EXCEPT ![u] = p]
  /\ told' = {x \in told : ~\E k \in Kinds(p) \ Kinds(plan[u]) : \E m \in Media : x[1] = Key(m, u, k[1], k[2])}
  /\ UNCHANGED <<binding, mail, channels, claims, reached, unsure, sweep, manual>>

Forget(keys) ==
  /\ claims' = claims \ keys /\ reached' = reached \ keys /\ unsure' = unsure \ keys

\* The sweep lists the Telegram binds, or the verified addresses, one channel at a time.
SweepNotifies(medium, who) ==
  /\ sweep.at = "idle" /\ medium \in channels
  /\ {who[i] : i \in DOMAIN who} =
       {u \in Users : IF medium = "telegram" THEN bind[u] # None ELSE mail[u].address # None}
  /\ Len(who) = Cardinality({who[i] : i \in DOMAIN who}) /\ who # <<>>
  /\ sweep' = [at |-> "user", left |-> [i \in DOMAIN who |->
                 [user |-> who[i], medium |-> medium,
                  bound |-> IF medium = "telegram" THEN bind[who[i]] ELSE None]],
               todo |-> <<>>, user |-> None, dest |-> None]
  /\ UNCHANGED <<binding, mail, plan, channels, claims, reached, told, unsure, manual, ops>>

\* NotifyExpiry: nothing for a plan a later one continues, nor for one that ended long ago.
NotifyExpiry(medium, u, on) ==
  LET p == plan[u] IN
  IF ~on \/ p.renewed \/ p.end \notin {"soon", "past"} THEN <<>>
  ELSE <<Key(medium, u, IF p.end = "soon" THEN "expiry_soon" ELSE "expired", p.edition)>>

\* NotifyTraffic: the claims the plan has recovered from, and the notice to send.  Muted
\* users' claims are cleared as well.
Recovered(medium, u) ==
  LET p == plan[u] IN
  (IF p.level = "low" THEN {} ELSE {Key(medium, u, "traffic_low", 0)})
  \cup (IF p.level = "out" THEN {} ELSE {Key(medium, u, "traffic_exhausted", 0)})
NotifyTraffic(medium, u, on) ==
  CASE on /\ plan[u].level = "low" -> <<Key(medium, u, "traffic_low", 0)>>
    [] on /\ plan[u].level = "out" -> <<Key(medium, u, "traffic_exhausted", 0)>>
    [] OTHER -> <<>>

\* One user of the sweep: the plans are read once, the recovered claims forgotten, the
\* notices to send worked out from the preferences of the listed bind (Telegram) or of the
\* moment (mail).  The mail sweep stops when the service is switched off.
SweepUser ==
  /\ sweep.at = "user" /\ sweep.left # <<>>
  /\ LET b == Head(sweep.left)
         u == b.user
         on(pref) == IF b.medium = "email" THEN mail[u].on
                     ELSE IF pref = "expiry" THEN b.bound.expiry ELSE b.bound.traffic IN
     IF b.medium = "email" /\ "email" \notin channels
     THEN sweep' = Idle /\ UNCHANGED <<claims, reached, unsure>>
     ELSE /\ Forget(Recovered(b.medium, u))
          /\ sweep' = [at |-> "notice", left |-> Tail(sweep.left), user |-> u,
                       todo |-> NotifyExpiry(b.medium, u, on("expiry")) \o NotifyTraffic(b.medium, u, on("traffic")),
                       dest |-> IF b.medium = "email" THEN mail[u].address ELSE b.bound.chat]
  /\ UNCHANGED <<binding, mail, plan, channels, told, manual, ops>>

SweepEnds ==
  \/ /\ sweep.at = "notice" /\ sweep.todo = <<>> /\ sweep' = [sweep EXCEPT !.at = "user"]
     /\ UNCHANGED <<binding, mail, plan, channels, claims, reached, told, unsure, manual, ops>>
  \/ /\ sweep.at = "user" /\ sweep.left = <<>> /\ sweep' = Idle
     /\ UNCHANGED <<binding, mail, plan, channels, claims, reached, told, unsure, manual, ops>>

\* ClaimNotify: INSERT OR IGNORE decides; a reminder by mail is checked again first
\* (service, preference, and the address the sweep read).
ClaimNotify(key) ==
  /\ sweep.at = "notice" /\ sweep.todo # <<>> /\ Head(sweep.todo) = key
  /\ LET may == /\ key \notin claims
                /\ key[1] = "email" => /\ "email" \in channels /\ mail[key[2]].on
                                       /\ mail[key[2]].address = sweep.dest IN
     IF may THEN claims' = claims \cup {key} /\ sweep' = [sweep EXCEPT !.at = "send"]
     ELSE sweep' = [sweep EXCEPT !.todo = Tail(@)] /\ UNCHANGED claims
  /\ UNCHANGED <<binding, mail, plan, channels, reached, told, unsure, manual, ops>>

\* tgSend and sendManualEmail: delivered; refused, which forgets the claim; or delivered (or
\* lost) with an answer that never comes.  Mail keeps the claim then (ErrDeliveryUncertain);
\* to Telegram any error is a refusal, one after the message was accepted included.
SendNotice(outcome) ==
  /\ sweep.at = "send"
  /\ LET key == Head(sweep.todo)
         byMail == key[1] = "email"
         heard(unanswered) == {x \in told : x[1] # key}
                                \cup {<<key, Told(key)[2] + 1, Told(key)[3] + unanswered>>} IN
     \/ /\ outcome = "sent" /\ key[1] \in channels
        /\ told' = heard(0) /\ reached' = reached \cup {key} /\ UNCHANGED <<claims, unsure, ops>>
     \/ /\ outcome = "refused" /\ Forget({key}) /\ UNCHANGED <<told, ops>>
     \/ /\ outcome \in {"queued", "lost"} /\ byMail /\ unsure' = unsure \cup {key}
        /\ told' = (IF outcome = "queued" THEN heard(0) ELSE told) /\ UNCHANGED <<claims, reached, ops>>
     \/ /\ outcome = "queued" /\ ~byMail /\ key[1] \in channels
        /\ Spend /\ Forget({key}) /\ told' = heard(1)
  /\ sweep' = [sweep EXCEPT !.at = "notice", !.todo = Tail(@)]
  /\ UNCHANGED <<binding, mail, plan, channels, manual>>
-----------------------------------------------------------------------------
(* Broadcasts                                                                *)

Row(status, to) == [status |-> status, to |-> to, heard |-> 0]

\* CreateManualNotificationWithChannel: a snapshot of the recipients, one row per channel.
CreateManualNotification(media, who) ==
  /\ Spend /\ rows = <<>> /\ media \subseteq channels /\ workers["handler"].at = "idle"
  /\ rows' = [r \in who \X media |->
       IF r[2] = "telegram"
       THEN IF bind[r[1]] = None THEN Row("skipped", None) ELSE Row("pending", bind[r[1]].chat)
       ELSE IF mail[r[1]].address = None THEN Row("skipped", None) ELSE Row("pending", mail[r[1]].address)]
  /\ workers' = [workers EXCEPT !["handler"].at = "claim"]
  /\ UNCHANGED <<binding, mail, plan, channels, notices>>

\* ClaimManualNotificationRecipient: one UPDATE takes one pending row.
ClaimManualNotificationRecipient(w) ==
  /\ workers[w].at = "claim"
  /\ \E r \in DOMAIN rows :
       /\ rows[r].status = "pending"
       /\ rows' = [rows EXCEPT ![r].status = "sending"]
       /\ workers' = [workers EXCEPT ![w].at = "send", ![w].row = r]
  /\ UNCHANGED <<binding, mail, plan, channels, notices, ops>>

NothingPending(w) ==
  /\ workers[w].at = "claim" /\ \A r \in DOMAIN rows : rows[r].status # "pending"
  /\ workers' = [workers EXCEPT ![w] = Rest]
  /\ UNCHANGED <<binding, mail, plan, channels, notices, rows, ops>>

\* deliverManualTelegram, deliverManualEmail: a bind or an address that changed since the
\* snapshot is skipped; a refused or unanswered send is recorded failed.
Deliver(w, outcome) ==
  /\ workers[w].at = "send"
  /\ LET r == workers[w].row
         live == IF r[2] = "telegram" THEN IF bind[r[1]] = None THEN None ELSE bind[r[1]].chat
                 ELSE IF mail[r[1]].on /\ "email" \in channels THEN mail[r[1]].address ELSE None
         skip == live # rows[r].to
         heard == ~skip /\ outcome \in {"sent", "queued"} IN
     /\ skip => outcome = "refused"
     /\ outcome = "sent" => r[2] \in channels
     /\ rows' = IF heard THEN [rows EXCEPT ![r].heard = @ + 1] ELSE rows
     /\ workers' = [workers EXCEPT ![w].at = "record",
          ![w].result = IF skip THEN "skipped" ELSE IF outcome = "sent" THEN "sent" ELSE "failed"]
  /\ UNCHANGED <<binding, mail, plan, channels, notices, ops>>

\* SetManualNotificationRecipientChannelResult, only of a row still being sent.
SetResult(w) ==
  /\ workers[w].at = "record"
  /\ LET r == workers[w].row IN
     rows' = IF rows[r].status = "sending" THEN [rows EXCEPT ![r].status = workers[w].result] ELSE rows
  /\ workers' = [workers EXCEPT ![w] = [Rest EXCEPT !.at = "claim"]]
  /\ UNCHANGED <<binding, mail, plan, channels, notices, ops>>

\* Mutant: rows caught by the restart while being sent are put back in the queue.
RetryInterrupted ==
  /\ workers["resume"].at = "start"
  /\ rows' = [r \in DOMAIN rows |-> IF rows[r].status = "sending" THEN [rows[r] EXCEPT !.status = "pending"] ELSE rows[r]]
  /\ workers' = [workers EXCEPT !["resume"].at = "list"]
  /\ UNCHANGED <<binding, mail, plan, channels, notices, ops>>

\* ResumeManualNotifications runs beside the server it was started with.
FailInterruptedManualNotifications ==
  /\ workers["resume"].at = "start"
  /\ rows' = [r \in DOMAIN rows |-> IF rows[r].status = "sending" THEN [rows[r] EXCEPT !.status = "failed"] ELSE rows[r]]
  /\ workers' = [workers EXCEPT !["resume"].at = "list"]
  /\ UNCHANGED <<binding, mail, plan, channels, notices, ops>>

ListPendingManualNotificationIDs ==
  /\ workers["resume"].at = "list"
  /\ workers' = [workers EXCEPT !["resume"].at =
       IF \E r \in DOMAIN rows : rows[r].status = "pending" THEN "claim" ELSE "idle"]
  /\ UNCHANGED <<binding, mail, plan, channels, notices, rows, ops>>

\* The process stops anywhere: the poll, the sweep and the workers are gone.
Restart ==
  /\ Spend
  /\ offset' = 0 /\ sweep' = Idle
  /\ unsure' = IF sweep.at = "send" THEN unsure \cup {Head(sweep.todo)} ELSE unsure
  /\ workers' = [w \in DOMAIN workers |-> IF w = "resume" THEN [Rest EXCEPT !.at = "start"] ELSE Rest]
  /\ UNCHANGED <<bind, tokens, updates, mail, plan, channels, claims, reached, told, rows>>
-----------------------------------------------------------------------------
\* The members may have chats and addresses bound already; chats count as one of the calls.
Init ==
  /\ bind \in [Users -> {None} \cup [chat : Chats, expiry : {TRUE}, traffic : {TRUE}]]
  /\ \A c \in Chats : Cardinality(Owner(c)) <= 1
  /\ tokens = <<>> /\ updates = <<>> /\ offset = 0
  /\ mail \in [Users -> {[address |-> None, on |-> TRUE], [address |-> "a", on |-> TRUE]}]
  /\ plan = [u \in Users |-> [level |-> "enough", end |-> "far", renewed |-> FALSE, edition |-> 0]]
  /\ channels = Media
  /\ claims = {} /\ reached = {} /\ told = {} /\ unsure = {} /\ sweep = Idle
  /\ rows = <<>> /\ ops = (IF \E u \in Users : bind[u] # None THEN 1 ELSE 0)
  /\ workers = [w \in {"handler", "resume"} |-> IF w = "resume" THEN [Rest EXCEPT !.at = "start"] ELSE Rest]

\* What a plan turns into: traffic is used or bought, time passes, the end is moved, a later
\* plan is queued or enters service.
Turned(p) ==
  {[p EXCEPT !.level = l] : l \in {"none", "enough", "low", "out"}}
  \cup {[p EXCEPT !.end = IF p.end = "far" THEN "soon" ELSE IF p.end = "soon" THEN "past" ELSE "old"]}
  \cup {[p EXCEPT !.end = "far", !.edition = @ + 1]} \cup {[p EXCEPT !.renewed = ~@]}

Next ==
  \/ \E u \in Users : CreateTelegramBindToken(u) \/ UnbindTelegram(u)
  \/ \E c \in Chats, t \in DOMAIN tokens : Command(c, "start", t)
  \/ \E c \in Chats : Command(c, "unbind", 0)
  \/ HandleTelegramUpdate \/ GetUpdates
  \/ \E u \in Users, pref \in {"expiry", "traffic"} : SetTelegramNotify(u, pref)
  \/ \E u \in Users, a \in {None, "a", "b"}, on \in BOOLEAN : SetMail(u, [address |-> a, on |-> on])
  \/ \E medium \in Media : Configure(medium)
  \/ \E u \in Users : \E p \in Turned(plan[u]) : Turn(u, p)
  \/ \E medium \in Media : \E n \in 1..Cardinality(Users) : \E who \in [1..n -> Users] : SweepNotifies(medium, who)
  \/ SweepUser \/ SweepEnds
  \/ \E key \in {sweep.todo[i] : i \in DOMAIN sweep.todo} : ClaimNotify(key)
  \/ \E outcome \in {"sent", "refused", "queued", "lost"} : SendNotice(outcome)
  \/ \E media \in SUBSET Media \ {{}}, who \in SUBSET Users \ {{}} : CreateManualNotification(media, who)
  \/ \E w \in DOMAIN workers :
       \/ ClaimManualNotificationRecipient(w) \/ NothingPending(w) \/ SetResult(w)
       \/ \E outcome \in {"sent", "refused", "queued"} : Deliver(w, outcome)
  \/ FailInterruptedManualNotifications \/ ListPendingManualNotificationIDs \/ Restart

Spec == Init /\ [][Next]_vars
-----------------------------------------------------------------------------
(* Properties                                                                *)

\* Whatever the crashes, the repeated sweeps, the lost answers and the two goroutines that
\* may deliver one broadcast: a bind link binds once, even when Telegram delivers its
\* command again; a reminder by mail is heard at most once per episode, one by Telegram once
\* more for each delivery whose answer was lost, which sends it again; a claim stands only
\* if its reminder was delivered, is being sent, or was cut off on the way; a broadcast
\* reaches a recipient at most once, a row marked sent was delivered and one that is
\* pending or skipped was not (ClaimNotify, ClearNotify, ClaimManualNotificationRecipient,
\* FailInterruptedManualNotifications, BindTelegramWithToken).
MessagesAreAccountedFor ==
  /\ \A t \in DOMAIN tokens : tokens[t].binds <= 1
  /\ \A x \in told : x[2] <= 1 + x[3] /\ (x[1][1] = "email" => x[3] = 0)
  /\ \A key \in claims \ (reached \cup unsure) : sweep.at = "send" /\ Head(sweep.todo) = key
  /\ \A r \in DOMAIN rows :
       /\ rows[r].heard <= 1
       /\ rows[r].status = "sent" => rows[r].heard = 1
       /\ rows[r].status \in {"pending", "skipped"} => rows[r].heard = 0
=============================================================================
