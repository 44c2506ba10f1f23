------------------------------ MODULE Migrations ------------------------------
(* What a panel does to the database of an older release when it starts.  A  *)
(* chain of versions is applied in order, each with its mark in one          *)
(* transaction; the first, the baseline, takes over every older shape of the *)
(* data: accounts with one plan in their own columns, accounts whose plans   *)
(* carry credentials of their own, lines with duplicates from before         *)
(* renewals queued up.  Traffic is in units and time in grace periods; later *)
(* versions only add tables and columns.                                     *)
EXTENDS Integers, FiniteSets, FiniteSetsExt, Sequences, SequencesExt

CONSTANTS
  Users,
  Packages,
  None,        \* no credential, no package, no choice made
  Chain,       \* the versions of this release, in order; the first is the baseline
  Horizon,     \* bound on the time
  MaxOps       \* bound on starts and on an administrator's changes

VARIABLES
  db,          \* the database
  binary,      \* how much of the chain the binary that is starting knows; None: none is
  serving,     \* migrations are over
  adopted,     \* history: when the baseline was applied
  held,        \* history: the credentials clients hold, by user
  sold,        \* history: the traffic on record, <<granted, used>> by user
  chosen,      \* history: sudo as the administrator left it
  now,
  ops

vars == <<db, binary, serving, adopted, held, sold, chosen, now, ops>>

Spend == ops < MaxOps /\ ops' = ops + 1
SumOf(S, F(_)) == MapThenSumSet(F, S)
Row(i, k, p, limit, used, expiry, status, queued, cred) ==
  [id |-> i, kind |-> k, package |-> p, limit |-> limit, used |-> used, expiry |-> expiry,
   status |-> status, queued |-> queued, cred |-> cred]
Account(p, limit, used, cred, rows) ==
  [package |-> p, limit |-> limit, used |-> used, cred |-> cred, exempt |-> FALSE, proxy |-> FALSE,
   lines |-> [q \in Packages |-> None], rows |-> rows]

\* A row carries a credential of its own until credentials move to the account
Usable(r) == r.status = "active" /\ (r.expiry = 0 \/ r.expiry > now) /\ r.used < r.limit
Counted(a) == {r \in a.rows : r.kind # "free" /\ r.limit > 0}
Granted(a) == SumOf(Counted(a), LAMBDA r : r.limit)
Spent(a) == SumOf(Counted(a), LAMBDA r : r.used)
NextId(a) == 1 + Max({r.id : r \in a.rows} \cup {0})
Creds(a) == ({a.cred} \cup {r.cred : r \in a.rows} \cup {a.lines[p] : p \in Packages}) \ {None}
-----------------------------------------------------------------------------
(* Older databases                                                           *)

\* Accounts as the releases before left them; p is the package, u names the credentials
Legacy(u, p) ==
  { Account(None, 0, 0, None, {}),                                                \* signed up only
    Account(p, 4, 1, <<u, 0>>, {}),                                               \* one plan, in columns
    Account(None, 2, 1, <<u, 0>>, {}),                                            \* a balance, in columns
    Account(p, 4, 1, <<u, 0>>,                                                    \* bought twice, no queue yet
      { Row(1, "plan", p, 2, 1, 2, "active", FALSE, <<u, 0>>), Row(2, "plan", p, 2, 0, 3, "active", FALSE, <<u, 2>>),
        Row(3, "pool", None, 1, 0, 0, "active", FALSE, <<u, 3>>) }),
    Account(None, 0, 0, None,                                                     \* granted before provisioning
      { Row(1, "plan", p, 2, 1, 2, "active", FALSE, <<u, 1>>) }),
    Account(p, 4, 2, <<u, 0>>,                                                    \* a queue, its first spent
      { Row(1, "plan", p, 2, 2, 2, "active", TRUE, <<u, 0>>), Row(2, "plan", p, 2, 0, 3, "active", TRUE, <<u, 2>>),
        Row(3, "plan", p, 2, 0, 0, "queued", TRUE, <<u, 3>>) }),
    Account(p, 4, 0, <<u, 0>>,                                                    \* a queue, both still usable
      { Row(1, "plan", p, 2, 0, 3, "active", TRUE, <<u, 0>>), Row(2, "plan", p, 2, 1, 2, "active", TRUE, <<u, 2>>) }),
    Account(None, 0, 0, <<u, 0>>,                                                 \* a welcome of nothing
      { Row(1, "plan", "welcome", 0, 1, 2, "active", FALSE, <<u, 1>>), Row(2, "pool", None, 0, 0, 0, "active", FALSE, <<u, 2>>) }) }

\* Accounts once credentials had moved: with its rows, or with every row taken back
Moved(u, p) ==
  { Account(None, 0, 0, None, {}),
    Account(p, 4, 1, <<u, 0>>, {}),
    Account(p, 2, 1, <<u, 0>>, { Row(1, "plan", p, 2, 1, 2, "active", TRUE, None) }) }

Init ==
  /\ \E marks \in {{}, {"stable"}, {"stable", "finite"}}, groups \in BOOLEAN, sudo \in {None, TRUE, FALSE},
        exempt \in BOOLEAN, hashed \in BOOLEAN, p \in Packages :
       \E a \in [Users -> UNION {IF marks = {} THEN Legacy(u, p) ELSE Moved(u, p) : u \in Users}] :
         /\ \A u \in Users : a[u] \in (IF marks = {} THEN Legacy(u, p) ELSE Moved(u, p))
         /\ marks # {} => sudo # None /\ exempt
         /\ db = [marks |-> marks, users |-> a, aliases |-> {}, groups |-> groups, bound |-> {},
                  exempt |-> exempt, sudo |-> sudo, hashed |-> hashed, certs |-> hashed]
  /\ binary = None /\ serving = FALSE /\ adopted = None
  /\ held = [u \in Users |-> Creds(db.users[u])]
  /\ sold = [u \in Users |->
       LET a == db.users[u]
       IN  IF a.rows # {} THEN <<Granted(a), Spent(a)>>
           ELSE IF db.marks = {} THEN <<a.limit, a.used>> ELSE <<0, 0>>]
  /\ chosen = db.sudo /\ now = 0 /\ ops = 0
-----------------------------------------------------------------------------
(* The baseline: functions of the database.  Each does nothing where it was  *)
(* done before                                                               *)

Each(d, F(_)) == [d EXCEPT !.users = [u \in Users |-> F(@[u])]]
With(a, r) == [a EXCEPT !.rows = @ \cup {r}]

\* Whoever was served before the gate existed is let through; never judged again
EmailGateExempt(d) ==
  IF d.exempt THEN d
  ELSE [Each(d, LAMBDA a : [a EXCEPT !.exempt = \/ a.cred # None \/ a.package # None
                                               \/ \E r \in a.rows : r.kind = "plan" /\ r.package # "welcome"])
        EXCEPT !.exempt = TRUE]

\* The machine is reached as an ordinary user; never judged again
ServerUseSudo(d) == IF d.sudo = None THEN [d EXCEPT !.sudo = TRUE] ELSE d

\* The token has to be readable
ProbeTokenHash(d) == [d EXCEPT !.hashed = TRUE]

\* An account without rows that shows it was served gets them; not once credentials have moved
SeedRows(a) ==
  IF a.rows # {} \/ (a.cred = None /\ a.package = None /\ a.limit = 0 /\ a.used = 0) THEN a
  ELSE IF a.package # None
  THEN With(With(a, Row(1, "plan", a.package, a.limit, a.used, 2, "active", FALSE, None)),
            Row(2, "pool", None, 0, 0, 0, "active", FALSE, None))
  ELSE With(a, Row(1, "pool", None, a.limit, a.used, 0, "active", FALSE, None))

\* Mutant: it looks at the rows alone
SeedAlways(d) == Each(d, SeedRows)

UserPlans(d) == IF "stable" \in d.marks THEN d ELSE Each(d, SeedRows)

\* No groups meant every node to every paid package: one group says so from now on
ZeroConfigEntitlements(d) ==
  IF d.groups \/ "zero" \in d.marks THEN [d EXCEPT !.marks = @ \cup {"zero"}]
  ELSE LET paid == {p \in Packages : \E u \in Users : \E r \in d.users[u].rows : r.kind = "plan" /\ r.package = p}
       IN  [d EXCEPT !.marks = @ \cup {"zero"}, !.bound = paid, !.groups = paid # {}]

\* A queued row that is spent and has been taken over
Superseded(a, r) ==
  /\ r.kind = "plan" /\ r.package \in Packages /\ r.status = "active" /\ r.queued /\ ~Usable(r)
  /\ \E n \in a.rows : n.kind = "plan" /\ n.package = r.package /\ n.status = "active" /\ n.queued /\ n.id > r.id

RetiredBuckets(d) ==
  Each(d, LAMBDA a : [a EXCEPT !.rows =
    {IF Superseded(a, r) THEN [r EXCEPT !.status = "retired"] ELSE r : r \in @}])

\* The row clients hold: the usable one that ends first, else the newest
Late(r) == IF r.expiry = 0 THEN Horizon + 10 ELSE r.expiry
InService(a, p) ==
  LET rows == {r \in a.rows : r.kind = "plan" /\ r.package = p /\ r.status # "queued"}
      live == {r \in rows : Usable(r)}
  IN  IF live # {}
      THEN {r \in live : \A x \in live : Late(r) < Late(x) \/ (Late(r) = Late(x) /\ r.id <= x.id)}
      ELSE {r \in rows : \A x \in rows : x.id <= r.id}

PlanIdentities(d) ==
  Each(d, LAMBDA a : [a EXCEPT !.lines =
    [p \in Packages |-> IF @[p] = None /\ InService(a, p) # {}
                        THEN (CHOOSE r \in InService(a, p) : TRUE).cred ELSE @[p]]])

\* The account's credential is the only one from now on, and every other is an alias until the grace ends
StableProtocolCredentials(d, first) ==
  IF "stable" \in d.marks THEN [d EXCEPT !.aliases = {x \in @ : x.until > now}]
  ELSE LET kept(u) == {c \in Users : c = u /\ d.users[u].rows # {}}
       IN  [d EXCEPT
             !.users = [u \in Users |-> IF kept(u) # {} /\ @[u].cred = None THEN [@[u] EXCEPT !.cred = first[u]] ELSE @[u]],
             !.aliases = @ \cup UNION {{[user |-> u, cred |-> c, until |-> now + 1] : c \in Creds(d.users[u])}
                                        : u \in {x \in Users : kept(x) # {}}},
             !.marks = @ \cup {"stable"}]

\* Rows from before the queue with the same package become the oldest of them
Duplicates(a, p) ==
  {r \in a.rows : r.kind = "plan" /\ r.package = p /\ r.status = "active" /\ ~r.queued}
MergedLine(a, p) ==
  LET D == Duplicates(a, p)
      oldest == CHOOSE r \in D : \A x \in D : r.id <= x.id
  IN  IF Cardinality(D) < 2 THEN a
      ELSE [a EXCEPT !.rows = (@ \ D) \cup
             {[oldest EXCEPT !.limit = SumOf(D, LAMBDA r : r.limit), !.used = SumOf(D, LAMBDA r : r.used),
                             !.expiry = Max({r.expiry : r \in D})]}]

MergeDuplicates(d) == Each(d, LAMBDA a : FoldSet(LAMBDA p, x : MergedLine(x, p), a, Packages))

\* Nothing granted is no grant; the account's own columns mirror its rows
Mirrored(a) == [a EXCEPT !.limit = Granted(a), !.used = Spent(a)]
FiniteAggregates(d) ==
  IF "finite" \in d.marks THEN d
  ELSE [Each(d, LAMBDA a :
          Mirrored([a EXCEPT !.rows = {r \in @ : ~(r.kind = "plan" /\ r.package = "welcome" /\ r.limit = 0)}]))
        EXCEPT !.marks = @ \cup {"finite"}]

\* Free traffic has a row of its own: whoever has rows gets one, and a credential with it
FreeBuckets(d) ==
  [d EXCEPT !.users = [u \in Users |->
     LET a == @[u]
     IN  IF a.rows = {} \/ \E r \in a.rows : r.kind = "free" THEN a
         ELSE [With(a, Row(NextId(a), "free", None, 0, 0, 0, "active", FALSE, None))
               EXCEPT !.cred = IF @ = None THEN <<u, 9>> ELSE @]]]

ProxyAccounts(d) == Each(d, LAMBDA a : [a EXCEPT !.proxy = @ \/ a.rows # {}])

\* A certificate kept inside a profile becomes one of its own; it has to be readable
BackfillCerts(d) == [d EXCEPT !.certs = TRUE]

\* The order matters: retired rows are no duplicates, credentials are read before rows go
LegacyBaseline(d, first) ==
  LET taken == RetiredBuckets(ZeroConfigEntitlements(UserPlans(ProbeTokenHash(ServerUseSudo(EmailGateExempt(d))))))
      moved == StableProtocolCredentials(PlanIdentities(taken), first)
  IN  BackfillCerts(ProxyAccounts(FreeBuckets(FiniteAggregates(MergeDuplicates(moved)))))
-----------------------------------------------------------------------------
(* The chain                                                                 *)

Marked(v) == [db EXCEPT !.marks = @ \cup {v}]
Ours == {"stable", "finite", "zero"}
Known == Ours \cup {Chain[i] : i \in 1..binary}
Pending == {i \in 1..binary : Chain[i] \notin db.marks}

Start ==
  /\ binary = None /\ ~serving /\ Spend
  /\ binary' \in 1..Len(Chain)
  /\ UNCHANGED <<db, serving, adopted, held, sold, chosen, now>>

\* One version, in a transaction with its mark.  The baseline reads sealed values: with
\* another key nothing of it stays
Apply(i) ==
  /\ binary # None /\ ~serving /\ db.marks \subseteq Known
  /\ i = Min(Pending)
  /\ IF i = 1
     THEN \E first \in [Users -> UNION {Creds(db.users[u]) : u \in Users} \cup {<<u, 8>> : u \in Users}] :
            /\ \A u \in Users : first[u] \in (IF Creds(db.users[u]) # {} THEN Creds(db.users[u]) ELSE {<<u, 8>>})
            /\ db' = [LegacyBaseline(db, first) EXCEPT !.marks = @ \cup {Chain[1]}]
            /\ adopted' = now
     ELSE db' = Marked(Chain[i]) /\ UNCHANGED adopted
  /\ UNCHANGED <<binary, serving, held, sold, chosen, now, ops>>

RunMigrations == binary # None /\ Pending # {} /\ \E i \in Pending : Apply(i)

\* A version nobody here knows, a value that cannot be read, a crash
Fail ==
  /\ binary # None /\ ~serving
  /\ binary' = None
  /\ UNCHANGED <<db, serving, adopted, held, sold, chosen, now, ops>>

\* Aliases whose grace is over go on every start
Migrate ==
  /\ binary # None /\ ~serving /\ db.marks \subseteq Known /\ Pending = {}
  /\ db' = [db EXCEPT !.aliases = {x \in @ : x.until > now}]
  /\ serving' = TRUE
  /\ UNCHANGED <<binary, adopted, held, sold, chosen, now, ops>>

Stop ==
  /\ serving /\ serving' = FALSE /\ binary' = None
  /\ UNCHANGED <<db, adopted, held, sold, chosen, now, ops>>

\* An administrator takes every paid row of an account back
DeleteBuckets(u) ==
  /\ serving /\ Spend
  /\ db' = [db EXCEPT !.users[u] = Mirrored([@ EXCEPT !.rows = {r \in @ : r.kind = "free"}])]
  /\ sold' = [sold EXCEPT ![u] = <<0, 0>>]
  /\ UNCHANGED <<binary, serving, adopted, held, chosen, now>>

SwitchSudo ==
  /\ serving /\ Spend
  /\ db' = [db EXCEPT !.sudo = ~@] /\ chosen' = db'.sudo
  /\ UNCHANGED <<binary, serving, adopted, held, sold, now>>

Tick ==
  /\ now < Horizon /\ now' = now + 1
  /\ UNCHANGED <<db, binary, serving, adopted, held, sold, chosen, ops>>

Next ==
  \/ Start \/ RunMigrations \/ Fail \/ Migrate \/ Stop \/ SwitchSudo \/ Tick
  \/ \E u \in Users : DeleteBuckets(u)

Spec == Init /\ [][Next]_vars
-----------------------------------------------------------------------------
(* Adoption keeps accounts.  Once the baseline has been applied, however     *)
(* often a start was cut off and whichever release wrote the data: every     *)
(* account has on record the traffic it was granted and has used before, or  *)
(* what the administrator left it with, and one with rows can use free       *)
(* nodes; every credential a client holds works until the grace is over; a   *)
(* row still in use was not set aside; and what the administrator chose      *)
(* stays chosen.                                                             *)
AdoptionKeepsAccounts ==
  Chain[1] \in db.marks =>
    /\ \A u \in Users :
         LET a == db.users[u]
         IN  /\ <<Granted(a), Spent(a)>> = sold[u]
             /\ a.rows # {} => a.cred # None /\ \E r \in a.rows : r.kind = "free"
             /\ a.rows # {} /\ now < adopted + 1
                  => \A c \in held[u] : c = a.cred \/ \E x \in db.aliases : x.user = u /\ x.cred = c
             /\ \A r \in a.rows : r.status = "retired" => r.used >= r.limit \/ r.expiry <= now
    /\ chosen # None => db.sudo = chosen
    /\ {"stable", "finite", "zero"} \subseteq db.marks /\ db.hashed /\ db.certs
=============================================================================
