------------------------------- MODULE Billing -------------------------------
(* Points, orders and entitlements: every transaction of internal/store that *)
(* moves points or plan buckets, and the multi-transaction jobs of           *)
(* internal/api that string them together.                                   *)
(*                                                                           *)
(* The database is opened with _txlock=immediate, so write transactions are  *)
(* serialised and one transaction is one action.  What interleaves is what   *)
(* happens between transactions: a shop request holds a package it read      *)
(* before its transaction, an administrator's edit form holds a package row, *)
(* the queue sweep holds a timestamp and a work list, and the retirement of  *)
(* a package is a loop of independent transactions.  A transaction that      *)
(* fails rolls back and changes nothing; it shows only in those loops, which *)
(* skip the item (MayFail).                                                  *)
EXTENDS Refund, Sequences

CONSTANTS
    Users,           \* account ids, a set of positive numbers
    MayBuy,          \* package -> accounts its user-group gate admits
    InitPoints,      \* account -> starting balance
    InitPackage,     \* package -> [enabled, stock, price, line] at the start
    RefundMode,      \* setting refund_mode: "prorated" or "full"
    Keys, NoKey,     \* idempotency keys; NoKey is the absent key
    MayFail          \* accounts whose transactions may fail in a job

CONSTANTS            \* what an instance exercises, and its bounds
    Exercised,       \* names of the optional operations that may happen
    PointAmounts,    \* amounts an administrator adjusts a balance by
    TrafficDeltas,   \* amounts an administrator adjusts a bucket by
    UsageDeltas,     \* amounts one metering poll reports
    NewPrices,       \* prices an edit may set
    NewLines,        \* queue keys an edit may set
    NewQuotas,       \* per-period quotas an administrator may set
    StartTime, MaxTime, MaxOrders, MaxLedger, MaxInFlight,
    MaxOverrun, MaxFreeUse, MaxLate, MaxSweepLag

ASSUME UsersAssumption ==
    Users \subseteq Nat \ {0} /\ IsFiniteSet(Users) /\ Packages \subseteq Nat \ {0}
ASSUME PointsAssumption == InitPoints \in [Users -> Nat]
ASSUME LinesAssumption == NewLines \subseteq STRING
PackageRow == [enabled : BOOLEAN, stock : Int, price : Nat, line : STRING]
ASSUME PackagesAssumption == InitPackage \in [Packages -> PackageRow]
ASSUME PricesAssumption == NewPrices \subseteq Nat
ASSUME AmountsAssumption ==
    /\ PointAmounts \subseteq Int /\ TrafficDeltas \subseteq Int
    /\ UsageDeltas \subseteq Nat /\ NewQuotas \subseteq Nat \ {0}
ASSUME KeysAssumption == NoKey \notin Keys
ASSUME TimeAssumption ==
    StartTime \in Nat /\ MaxTime \in Nat /\ StartTime <= MaxTime /\ MaxOrders \in Nat

VARIABLES
    now,         \* wall clock, in days
    pkgs,        \* packages table: [enabled, stock, price, line]
    points,      \* users.points
    orders,      \* orders table, in id order
    ledger,      \* point_transactions, in id order
    buckets,     \* user_plans table
    nextBucket,  \* the table's AUTOINCREMENT sequence
    mirror,      \* users.traffic_limit, used_*, expiry_at
    reqs,        \* shop requests between reading the package and their tx
    grant,       \* an administrator's free grant, likewise, at most one
    answer,      \* order the last purchase call of a user returned, 0 = error
    edit,        \* an administrator's open package edit, at most one
    sweep,       \* the background queue sweep
    retire,      \* the package retirement in progress, at most one
    visit        \* an AdvanceQueueFor call under way, at most one

book  == <<points, orders, ledger>>
table == <<buckets, nextBucket, mirror>>
shop  == <<reqs, answer, grant, edit>>
jobs  == <<sweep, retire, visit>>
vars  == <<now, pkgs, book, table, shop, jobs>>

Idle == [phase |-> "idle", at |-> 0, todo |-> {}]
NoUser == 0

Key == Keys \cup {NoKey}

OrderRow == [user : Users, pkg : Packages, price : Nat, key : Key,
             back : Nat, status : {"success", "refunded"}]

LedgerRow == [user : Users, amount : Int, balance : Nat, ref : Nat,
              type : {"purchase", "auto_renew", "admin_grant", "refund", "adjust"}]

BookTypeOK ==
    /\ points \in [Users -> Nat]
    /\ orders \in Seq(OrderRow)
    /\ ledger \in Seq(LedgerRow)

BucketRow == [user : Users, kind : {"plan", "pool", "free"}, pkg : Packages \cup {0},
              line : STRING \cup {NoLine}, order : Nat,
              status : {"queued", "active", "retired"},
              expiry : Int, dur : Nat, used : Nat, limit : Nat, renew : BOOLEAN,
              pdays : {0, PeriodDays}, quota : Nat, base : Nat, pstart : Nat,
              life : Nat, adv : 0..2]

TableTypeOK ==
    /\ \A i \in DOMAIN buckets : i \in 1..(nextBucket - 1) /\ buckets[i] \in BucketRow
    /\ mirror \in [Users -> [limit : Nat, used : Nat, expiry : Nat]]

ShopTypeOK ==
    /\ pkgs \in [Packages -> PackageRow]
    /\ reqs \subseteq [user : Users, pkg : Packages, key : Key,
                       enabled : BOOLEAN, stock : Int]
    /\ answer \in [Users -> 0..Len(orders)]
    /\ grant \subseteq [user : Users, pkg : Packages, line : STRING]
    /\ edit \subseteq [pkg : Packages, row : PackageRow]

RetireTypeOK ==
    /\ retire \subseteq [pkg : Packages, user : Users \cup {NoUser}, since : Nat,
                         todo : SUBSET Nat, holders : SUBSET Users]
    /\ \A r \in retire : r.todo \subseteq DOMAIN orders

TypeOK ==
    /\ now \in StartTime..MaxTime
    /\ BookTypeOK /\ TableTypeOK /\ ShopTypeOK /\ RetireTypeOK
    /\ Cardinality(edit) <= 1 /\ Cardinality(grant) <= 1 /\ Cardinality(retire) <= 1
    /\ sweep.phase \in {"idle", "advance", "renew", "reset"}
    /\ visit \subseteq [user : Users, at : Nat, roll : BOOLEAN, due : BOOLEAN]

FreeRow(u) == Ancillary(u, "free", 0)

Init ==
    /\ now = StartTime
    /\ pkgs = InitPackage
    /\ points = InitPoints
    /\ orders = <<>> /\ ledger = <<>>
    /\ buckets = [u \in IF "free" \in Exercised THEN Users ELSE {} |-> FreeRow(u)]
    /\ nextBucket = Max({0} \cup Users) + 1
    /\ mirror = [u \in Users |-> [limit |-> 0, used |-> 0, expiry |-> 0]]
    /\ reqs = {} /\ answer = [u \in Users |-> 0] /\ grant = {} /\ edit = {}
    /\ sweep = Idle /\ retire = {} /\ visit = {}

------------------------------------------------------------------------------
(* The two halves of a transaction: the book and the entitlement             *)

\* Mutant: the row records the balance before the change
PostBefore(u, amount, type, ref) ==
    /\ points' = [points EXCEPT ![u] = points[u] + amount]
    /\ ledger' = Append(ledger, [user |-> u, amount |-> amount, type |-> type,
                                 balance |-> points[u], ref |-> ref])

\* UPDATE users SET points, INSERT INTO point_transactions
Post(u, amount, type, ref) ==
    /\ points' = [points EXCEPT ![u] = points[u] + amount]
    /\ ledger' = Append(ledger, [user |-> u, amount |-> amount, type |-> type,
                                 balance |-> points[u] + amount, ref |-> ref])

\* recomputeUserAggregate and the UPDATE of users.* that follows it
Recompute(u, t) == mirror' = [mirror EXCEPT ![u] = Aggregate(buckets', u, t)]

\* enqueuePlanBucket followed by advanceUserQueues, or addToPool
Entitle(u, p, line, o, t) ==
    LET pools == PoolsOf(buckets, u) IN
    /\ IF Catalog[p].type = "plan"
       THEN LET row == QueuedPlan(buckets, u, p, line, o) IN
            /\ buckets' = Advance(With(buckets, nextBucket, row), u, t, now)
            /\ nextBucket' = nextBucket + 1
       ELSE IF pools = {}
       THEN /\ buckets' = With(buckets, nextBucket,
                               Ancillary(u, "pool", Catalog[p].traffic))
            /\ nextBucket' = nextBucket + 1
       ELSE /\ buckets' = [buckets EXCEPT ![Min(pools)].limit =
                              buckets[Min(pools)].limit + Catalog[p].traffic]
            /\ UNCHANGED nextBucket
    /\ Recompute(u, t)

\* INSERT INTO orders
PlaceOrder(u, p, price, key) ==
    /\ Len(orders) < MaxOrders
    /\ orders' = Append(orders, [user |-> u, pkg |-> p, price |-> price,
                                 key |-> key, back |-> 0, status |-> "success"])

\* Mutant: the stock is only checked before the transaction
SellableUnlimited(u, p) ==
    /\ u \in Users /\ p \in Packages
    /\ pkgs[p].enabled /\ u \in MayBuy[p] /\ points[u] >= pkgs[p].price

\* Mutant: the balance is not checked in the transaction
SellableOnCredit(u, p) ==
    /\ u \in Users /\ p \in Packages
    /\ pkgs[p].enabled /\ pkgs[p].stock # 0 /\ u \in MayBuy[p]

\* The in-transaction checks of PurchaseDuration and autoRenewLine
Sellable(u, p) ==
    /\ u \in Users /\ p \in Packages
    /\ pkgs[p].enabled
    /\ pkgs[p].stock # 0
    /\ u \in MayBuy[p]
    /\ points[u] >= pkgs[p].price

\* A paid sale at the package's current price
Sell(u, p, type, key, t) ==
    /\ PlaceOrder(u, p, pkgs[p].price, key)
    /\ Post(u, -pkgs[p].price, type, Len(orders) + 1)
    /\ Entitle(u, p, pkgs[p].line, Len(orders) + 1, t)
    /\ pkgs' = [pkgs EXCEPT ![p].stock =
                   IF pkgs[p].stock > 0 THEN pkgs[p].stock - 1 ELSE pkgs[p].stock]

\* Mutant: a refunded order can be refunded again
RefundTxAgain(o, mode) ==
    LET u == orders[o].user
        p == orders[o].pkg
        back == RefundQuote(buckets, u, p, o, orders[o].price, mode, now)
    IN  /\ Post(u, back, "refund", o)
        /\ orders' = [orders EXCEPT ![o].status = "refunded", ![o].back = back]
        /\ buckets' = IF Catalog[p].type = "plan"
                      THEN ReverseOrder(buckets, u, p, o, now)
                      ELSE ReversePool(buckets, u, Catalog[p].traffic)
        /\ Recompute(u, now)
        /\ UNCHANGED nextBucket

\* RefundOrder inside its transaction
RefundTx(o, mode) ==
    LET u == orders[o].user
        p == orders[o].pkg
        back == RefundQuote(buckets, u, p, o, orders[o].price, mode, now)
    IN  /\ orders[o].status = "success"
        /\ Post(u, back, "refund", o)
        /\ orders' = [orders EXCEPT ![o].status = "refunded", ![o].back = back]
        /\ buckets' = IF Catalog[p].type = "plan"
                      THEN ReverseOrder(buckets, u, p, o, now)
                      ELSE ReversePool(buckets, u, Catalog[p].traffic)
        /\ Recompute(u, now)
        /\ UNCHANGED nextBucket

\* advanceUserQueues in a transaction of its own: the aggregate is rebuilt only
\* when something was promoted.
AdvanceTx(u, t) ==
    /\ buckets' = Advance(buckets, u, t, now)
    /\ IF QueueDue(buckets, u, t) THEN Recompute(u, t) ELSE UNCHANGED mirror
    /\ UNCHANGED nextBucket

\* resetUserPeriodsTx
ResetTx(u, t) ==
    /\ buckets' = ResetPeriods(buckets, u, t)
    /\ IF DuePeriods(buckets, u, t) # {} THEN Recompute(u, t)
                                         ELSE UNCHANGED mirror
    /\ UNCHANGED nextBucket

\* An administrator's change to the table, then the queue and the aggregate
ChangeTable(bk, u) ==
    /\ buckets' = Advance(bk, u, now, now)
    /\ Recompute(u, now)
    /\ UNCHANGED nextBucket

------------------------------------------------------------------------------
(* The shop                                                                  *)

\* handlePurchase reads the package before the transaction
ShopOpen(u, p, k) ==
    /\ Cardinality(reqs) < MaxInFlight
    /\ reqs' = reqs \cup {[user |-> u, pkg |-> p, key |-> k,
                           enabled |-> pkgs[p].enabled, stock |-> pkgs[p].stock]}
    /\ UNCHANGED <<now, pkgs, book, table, answer, grant, edit, jobs>>

\* The checks PurchaseDuration makes on the handler's copy, before its tx
StaleRefusal(r) == ~r.enabled \/ r.stock = 0

\* Mutant: a refunded order no longer answers for its key
EarlierOrdersStanding(r) ==
    {o \in DOMAIN orders : /\ r.key # NoKey /\ orders[o].user = r.user
                           /\ orders[o].key = r.key /\ orders[o].status = "success"}

EarlierOrders(r) ==
    {o \in DOMAIN orders : r.key # NoKey /\ orders[o].user = r.user
                                         /\ orders[o].key = r.key}

Answer(r, o) ==
    /\ reqs' = reqs \ {r}
    /\ answer' = [answer EXCEPT ![r.user] = o]
    /\ UNCHANGED <<now, grant, edit, jobs>>

\* PurchaseDuration, the three ways it ends: refused, replayed or sold
PurchaseRefused(r) ==
    /\ r \in reqs
    /\ \/ StaleRefusal(r)
       \/ EarlierOrders(r) = {} /\ ~Sellable(r.user, r.pkg)
    /\ Answer(r, 0)
    /\ UNCHANGED <<pkgs, book, table>>

PurchaseReplayed(r) ==
    /\ r \in reqs
    /\ ~StaleRefusal(r)
    /\ EarlierOrders(r) # {}
    /\ \E o \in EarlierOrders(r) : Answer(r, o)
    /\ UNCHANGED <<pkgs, book, table>>

PurchaseSold(r) ==
    /\ r \in reqs
    /\ ~StaleRefusal(r)
    /\ EarlierOrders(r) = {}
    /\ Sellable(r.user, r.pkg)
    /\ Sell(r.user, r.pkg, "purchase", r.key, now)
    /\ Answer(r, Len(orders) + 1)

------------------------------------------------------------------------------
(* Administrator operations on one account                                   *)

\* The grant handler reads the package; AssignPackageDuration then places a free
\* order with that copy, whatever the stock and the gate say.
AssignOpen(u, p) ==
    /\ "assign" \in Exercised
    /\ Len(orders) < MaxOrders
    /\ grant = {}
    /\ grant' = {[user |-> u, pkg |-> p, line |-> pkgs[p].line]}
    /\ UNCHANGED <<now, pkgs, book, table, reqs, answer, edit, jobs>>

AssignPackage(g) ==
    /\ g \in grant
    /\ PlaceOrder(g.user, g.pkg, 0, NoKey)
    /\ Post(g.user, 0, "admin_grant", Len(orders) + 1)
    /\ Entitle(g.user, g.pkg, g.line, Len(orders) + 1, now)
    /\ grant' = {}
    /\ UNCHANGED <<now, pkgs, reqs, answer, edit, jobs>>

AdjustPoints(u, amount) ==
    /\ Len(ledger) < MaxLedger
    /\ points[u] + amount >= 0
    /\ Post(u, amount, "adjust", 0)
    /\ UNCHANGED <<now, pkgs, orders, table, shop, jobs>>

RefundOrder(o, mode) ==
    /\ "refund" \in Exercised
    /\ RefundTx(o, mode)
    /\ UNCHANGED <<now, pkgs, shop, jobs>>

DeleteBucket(i) ==
    /\ "delete" \in Exercised
    /\ buckets[i].kind # "free"
    /\ ChangeTable(Without(buckets, {i}), buckets[i].user)
    /\ UNCHANGED <<now, pkgs, book, shop, jobs>>

\* On a running monthly bucket the change lasts for the period; on a queued one
\* it replaces the quota.
AdjustBucketTraffic(i, delta) ==
    LET b == buckets[i]
        limit == b.limit + delta
        row == [b EXCEPT
                  !.limit = limit,
                  !.base = IF b.pdays > 0 /\ b.status = "active"
                           THEN Larger(b.base + delta, 0) ELSE b.base,
                  !.quota = IF b.pdays > 0 /\ b.status = "queued"
                            THEN limit ELSE b.quota]
    IN  /\ delta # 0
        /\ b.kind # "free" /\ b.status # "retired"
        /\ b.kind = "plan" => NotExpired(b, now)
        /\ limit >= b.used /\ limit >= 0
        /\ ChangeTable([buckets EXCEPT ![i] = row], b.user)
        /\ UNCHANGED <<now, pkgs, book, shop, jobs>>

SetPlanAutoRenew(i, enabled) ==
    /\ "renewal" \in Exercised
    /\ buckets[i].kind = "plan"
    /\ LET line == LiveIn(buckets, buckets[i].user, buckets[i].line) IN
       buckets' = [j \in DOMAIN buckets |->
                      IF j \in line THEN [buckets[j] EXCEPT !.renew = enabled]
                                    ELSE buckets[j]]
    /\ UNCHANGED <<now, pkgs, book, nextBucket, mirror, shop, jobs>>

SetLineAdvance(u, l, mode) ==
    /\ "borrow" \in Exercised
    /\ PeriodicLive(buckets, u, l) # {}
    /\ ChangeTable(WithLineAdvance(buckets, u, l, mode), u)
    /\ UNCHANGED <<now, pkgs, book, shop, jobs>>

SetLineMonthlyQuota(u, l, bytes) ==
    /\ PeriodicLive(buckets, u, l) # {}
    /\ ChangeTable(WithMonthlyQuota(buckets, u, l, bytes), u)
    /\ UNCHANGED <<now, pkgs, book, shop, jobs>>

ConvertLineToPeriodic(u, l) ==
    /\ "convert" \in Exercised
    /\ Convertible(buckets, u, l, now) # {}
    /\ ChangeTable(WithConverted(buckets, u, l, now), u)
    /\ UNCHANGED <<now, pkgs, book, shop, jobs>>

------------------------------------------------------------------------------
(* Metering and the read path                                                *)

\* The poll lags behind the proxy, so a bucket may run past its limit; a free one
\* has none.
MostUsed(b) == IF b.kind = "free" THEN MaxFreeUse ELSE b.limit + MaxOverrun

\* Mutant: the free allowance is mirrored too
AddBucketUsageMirrored(i, d) ==
    LET b == buckets[i] IN
    /\ b.used + d <= MostUsed(b)
    /\ buckets' = [buckets EXCEPT ![i].used = b.used + d]
    /\ mirror' = [mirror EXCEPT ![b.user].used = mirror[b.user].used + d]
    /\ UNCHANGED <<now, pkgs, book, nextBucket, shop, jobs>>

\* AddBucketUsage of one identity.  The poll may also charge a bucket after its
\* expiry (by less than MaxLate days here).
AddBucketUsage(i, d) ==
    LET b == buckets[i] IN
    /\ b.kind = "plan" => i \in Metered(buckets, b.user, b.pkg, now)
    /\ b.used + d <= MostUsed(b)
    /\ NotExpired(b, now - MaxLate)
    /\ buckets' = [buckets EXCEPT ![i].used = b.used + d]
    /\ mirror' = [mirror EXCEPT ![b.user].used =
                     mirror[b.user].used + IF b.kind = "free" THEN 0 ELSE d]
    /\ UNCHANGED <<now, pkgs, book, nextBucket, shop, jobs>>

\* AdvanceQueueFor, called before a user's page or subscription is answered.  It
\* reads the clock and whether anything is due; due periods then roll over in
\* one transaction, and a queue that was due hands over in another.
VisitOpen(u) ==
    LET roll == DuePeriods(buckets, u, now) # {}
        due  == QueueDue(buckets, u, now)
    IN  /\ "read" \in Exercised
        /\ visit = {}
        /\ roll \/ due
        /\ visit' = {[user |-> u, at |-> now, roll |-> roll, due |-> due]}
        /\ UNCHANGED <<now, pkgs, book, table, shop, sweep, retire>>

VisitReset(v) ==
    /\ v.roll
    /\ ResetTx(v.user, v.at)
    /\ visit' = {w \in {[v EXCEPT !.roll = FALSE]} : w.due}
    /\ UNCHANGED <<now, pkgs, book, shop, sweep, retire>>

VisitAdvance(v) ==
    /\ v.due /\ ~v.roll
    /\ AdvanceTx(v.user, v.at)
    /\ visit' = {}
    /\ UNCHANGED <<now, pkgs, book, shop, sweep, retire>>

------------------------------------------------------------------------------
(* Package administration                                                    *)

\* handleAdminUpdatePackage: the whole row is read into the form and written
\* back later, with a new price and queue key.
EditOpen(p) ==
    /\ "edit" \in Exercised
    /\ edit = {}
    /\ edit' = {[pkg |-> p, row |-> pkgs[p]]}
    /\ UNCHANGED <<now, pkgs, book, table, reqs, answer, grant, jobs>>

\* Mutant: waiting buckets stay in the old line
EditSaveHeadsOnly(e, price, line) ==
    /\ e \in edit
    /\ pkgs' = [pkgs EXCEPT ![e.pkg] = [e.row EXCEPT !.price = price, !.line = line]]
    /\ buckets' = [i \in DOMAIN buckets |->
                      IF buckets[i].pkg = e.pkg /\ buckets[i].status = "active"
                      THEN [buckets[i] EXCEPT !.line = line] ELSE buckets[i]]
    /\ edit' = {}
    /\ UNCHANGED <<now, book, nextBucket, mirror, reqs, answer, grant, jobs>>

\* UpdatePackage: held buckets follow the package to its new line
EditSave(e, price, line) ==
    LET held == {i \in DOMAIN buckets : buckets[i].kind = "plan"
                                        /\ buckets[i].pkg = e.pkg}
        fresh == RefreshLimits(buckets, held)
    IN  /\ e \in edit
        /\ pkgs' = [pkgs EXCEPT ![e.pkg] =
                       [e.row EXCEPT !.price = price, !.line = line]]
        /\ buckets' = [i \in DOMAIN buckets |->
                          IF i \in held THEN [fresh[i] EXCEPT !.line = line]
                                        ELSE fresh[i]]
        /\ edit' = {}
        /\ UNCHANGED <<now, book, nextBucket, mirror, reqs, answer, grant, jobs>>

EnablePackage(p) ==
    /\ "enable" \in Exercised
    /\ pkgs' = [pkgs EXCEPT ![p].enabled = TRUE]
    /\ UNCHANGED <<now, book, table, shop, jobs>>

\* handleAdminRetirePackage: list the holders; for each, list the refundable
\* orders, refund them one by one and clear what is left; disable the package
\* last.  Every step is a transaction or a read of its own.  since is history:
\* the newest order when the retirement began.
RetireStart(p) ==
    /\ "retire" \in Exercised
    /\ retire = {}
    /\ retire' = {[pkg |-> p, user |-> NoUser, todo |-> {}, since |-> Len(orders),
                   holders |-> {u \in Users : PlansOf(buckets, u, p) # {}}]}
    /\ UNCHANGED <<now, pkgs, book, table, shop, sweep, visit>>

RetireNextHolder(r) ==
    \E u \in r.holders :
        /\ r \in retire /\ r.user = NoUser /\ \A v \in r.holders : u <= v
        /\ retire' = {[r EXCEPT !.user = u, !.holders = r.holders \ {u},
                                !.todo = {o \in DOMAIN orders :
                                             /\ orders[o].user = u
                                             /\ orders[o].pkg = r.pkg
                                             /\ orders[o].status = "success"}]}
        /\ UNCHANGED <<now, pkgs, book, table, shop, sweep, visit>>

NextOrder(r, o) == o \in r.todo /\ \A q \in r.todo : o <= q

RetireRefund(r) ==
    \E o \in r.todo :
        /\ r \in retire /\ NextOrder(r, o)
        /\ retire' = {[r EXCEPT !.todo = r.todo \ {o}]}
        /\ RefundTx(o, RefundMode)
        /\ UNCHANGED <<now, pkgs, shop, sweep, visit>>

\* Mutant: a refund that returns an error ends the retirement
RetireSkipEnds(r) ==
    /\ r \in retire /\ r.todo # {}
    /\ r.user \in MayFail
    /\ retire' = {[r EXCEPT !.user = NoUser, !.todo = {}, !.holders = {}]}
    /\ UNCHANGED <<now, pkgs, book, table, shop, sweep, visit>>

\* A refund that returns an error is passed over
RetireSkip(r) ==
    \E o \in r.todo :
        /\ r \in retire /\ NextOrder(r, o)
        /\ r.user \in MayFail \/ orders[o].status = "refunded"
        /\ retire' = {[r EXCEPT !.todo = r.todo \ {o}]}
        /\ UNCHANGED <<now, pkgs, book, table, shop, sweep, visit>>

\* ClearPlanBucket: the line's queue is not advanced
RetireClear(r) ==
    /\ r \in retire /\ r.user # NoUser /\ r.todo = {}
    /\ buckets' = Without(buckets, PlansOf(buckets, r.user, r.pkg))
    /\ Recompute(r.user, now)
    /\ retire' = {[r EXCEPT !.user = NoUser]}
    /\ UNCHANGED <<now, pkgs, book, nextBucket, shop, sweep, visit>>

\* Neither does a clearing that fails stop the loop
RetireClearFailed(r) ==
    /\ r \in retire /\ r.user \in MayFail /\ r.todo = {}
    /\ retire' = {[r EXCEPT !.user = NoUser]}
    /\ UNCHANGED <<now, pkgs, book, table, shop, sweep, visit>>

RetireFinish(r) ==
    /\ r \in retire /\ r.user = NoUser /\ r.holders = {}
    /\ pkgs' = [pkgs EXCEPT ![r.pkg].enabled = FALSE]
    /\ retire' = {}
    /\ UNCHANGED <<now, book, table, shop, sweep, visit>>

------------------------------------------------------------------------------
(* The queue sweep: AdvanceAllQueues, AutoRenewDuePlans, ResetDuePeriods     *)

Work(u, l) == [user |-> u, line |-> l]

\* The lines AutoRenewDuePlans lists, and autoRenewLine re-selects in its tx
RenewalDue(u, l, t) ==
    {i \in ActiveIn(buckets, u, l) :
        buckets[i].renew /\ buckets[i].expiry > 0 /\ buckets[i].expiry <= t}

Renewable(u, l, t) ==
    RenewalDue(u, l, t) # {} /\ QueuedIn(buckets, u, l) = {}

\* What a phase lists before its first transaction
Listed(phase) ==
    CASE phase = "advance" -> {Work(u, NoLine) : u \in
                                  {v \in Users : QueueDue(buckets, v, now)}}
      [] phase = "renew"   -> {w \in {Work(buckets[i].user, buckets[i].line) :
                                         i \in DOMAIN buckets} :
                                  Renewable(w.user, w.line, now)}
      [] phase = "reset"   -> {Work(u, NoLine) : u \in
                                  {v \in Users : DuePeriods(buckets, v, now) # {}}}

\* A phase captures the clock once, for all of its transactions
Phase(phase) == [phase |-> phase, at |-> now, todo |-> Listed(phase)]

SweepBegin ==
    /\ "sweep" \in Exercised
    /\ sweep = Idle
    /\ sweep' = Phase("advance")
    /\ UNCHANGED <<now, pkgs, book, table, shop, retire, visit>>

SweepNextPhase ==
    /\ sweep.phase # "idle" /\ sweep.todo = {}
    /\ sweep' = CASE sweep.phase = "advance" -> Phase("renew")
                  [] sweep.phase = "renew"   -> Phase("reset")
                  [] sweep.phase = "reset"   -> Idle
    /\ UNCHANGED <<now, pkgs, book, table, shop, retire, visit>>

Done(w) == sweep' = [sweep EXCEPT !.todo = sweep.todo \ {w}]

\* advanceOne
SweepAdvance(w) ==
    /\ sweep.phase = "advance"
    /\ AdvanceTx(w.user, sweep.at)
    /\ Done(w)
    /\ UNCHANGED <<now, pkgs, book, shop, retire, visit>>

\* resetUserPeriodsTx
SweepReset(w) ==
    /\ sweep.phase = "reset"
    /\ ResetTx(w.user, sweep.at)
    /\ Done(w)
    /\ UNCHANGED <<now, pkgs, book, shop, retire, visit>>

\* autoRenewLine: buys the package of the newest expired bucket again, at
\* today's price, or leaves the line for a later sweep.
RenewedPackage(w) ==
    buckets[Max(RenewalDue(w.user, w.line, sweep.at))].pkg

SweepRenew(w) ==
    /\ sweep.phase = "renew"
    /\ Renewable(w.user, w.line, sweep.at)
    /\ Sellable(w.user, RenewedPackage(w))
    /\ Sell(w.user, RenewedPackage(w), "auto_renew", NoKey, sweep.at)
    /\ Done(w)
    /\ UNCHANGED <<now, shop, retire, visit>>

SweepRenewSkipped(w) ==
    /\ sweep.phase = "renew"
    /\ ~ (Renewable(w.user, w.line, sweep.at) /\ Sellable(w.user, RenewedPackage(w)))
    /\ Done(w)
    /\ UNCHANGED <<now, pkgs, book, table, shop, retire, visit>>

\* Mutant: it does
SweepFailedAborts(w) ==
    /\ w.user \in MayFail
    /\ sweep' = [sweep EXCEPT !.todo = {}]
    /\ UNCHANGED <<now, pkgs, book, table, shop, retire, visit>>

\* One account's failure does not stop the sweep
SweepFailed(w) ==
    /\ w.user \in MayFail
    /\ Done(w)
    /\ UNCHANGED <<now, pkgs, book, table, shop, retire, visit>>

SweepStep ==
    \/ SweepBegin
    \/ SweepNextPhase
    \/ \E w \in sweep.todo :
          \/ SweepAdvance(w)
          \/ SweepReset(w)
          \/ SweepRenew(w)
          \/ SweepRenewSkipped(w)
          \/ SweepFailed(w)

\* A phase of the sweep, or a visit, may be working with a timestamp MaxSweepLag
\* old
Tick ==
    /\ now < MaxTime
    /\ sweep.phase = "idle" \/ now < sweep.at + MaxSweepLag
    /\ \A v \in visit : now < v.at + MaxSweepLag
    /\ now' = now + 1
    /\ UNCHANGED <<pkgs, book, table, shop, jobs>>

------------------------------------------------------------------------------
ShopStep ==
    \/ \E u \in Users, p \in Packages, k \in Keys \cup {NoKey} : ShopOpen(u, p, k)
    \/ \E r \in reqs : PurchaseRefused(r) \/ PurchaseReplayed(r) \/ PurchaseSold(r)

AccountStep ==
    \/ \E u \in Users, p \in Packages : AssignOpen(u, p)
    \/ \E g \in grant : AssignPackage(g)
    \/ \E u \in Users, a \in PointAmounts : AdjustPoints(u, a)
    \/ \E o \in DOMAIN orders, m \in {"prorated", "full"} : RefundOrder(o, m)
    \/ \E i \in DOMAIN buckets : DeleteBucket(i)
    \/ \E i \in DOMAIN buckets, d \in TrafficDeltas : AdjustBucketTraffic(i, d)
    \/ \E i \in DOMAIN buckets, e \in BOOLEAN : SetPlanAutoRenew(i, e)

Lines == {pkgs[p].line : p \in Packages}

PeriodStep ==
    \E u \in Users, l \in Lines :
        \/ \E m \in 0..2 : SetLineAdvance(u, l, m)
        \/ \E q \in NewQuotas : SetLineMonthlyQuota(u, l, q)
        \/ ConvertLineToPeriodic(u, l)

UserStep ==
    \/ \E i \in DOMAIN buckets, d \in UsageDeltas : AddBucketUsage(i, d)
    \/ \E u \in Users : VisitOpen(u)
    \/ \E v \in visit : VisitReset(v) \/ VisitAdvance(v)

PackageStep ==
    \/ \E p \in Packages : EditOpen(p) \/ EnablePackage(p) \/ RetireStart(p)
    \/ \E e \in edit, pr \in NewPrices, l \in NewLines : EditSave(e, pr, l)
    \/ \E r \in retire : \/ RetireNextHolder(r) \/ RetireRefund(r)
                         \/ RetireSkip(r) \/ RetireClear(r) \/ RetireClearFailed(r)
                         \/ RetireFinish(r)

Next ==
    \/ ShopStep \/ AccountStep \/ PeriodStep \/ UserStep \/ PackageStep
    \/ SweepStep \/ Tick

Spec == Init /\ [][Next]_vars

\* The sweep is a goroutine of its own that never stops while the panel runs
FairSpec == Spec /\ WF_vars(SweepStep)
=============================================================================
