-------------------------- MODULE BillingProperties --------------------------
(* What the transactions of Billing must keep true.                          *)
EXTENDS Billing

------------------------------------------------------------------------------
(* The points ledger                                                         *)

SameUser(m, n) == ledger[m].user = ledger[n].user

\* Row m is the last one of its account before row n
Precedes(m, n) ==
    /\ m < n /\ SameUser(m, n)
    /\ \A k \in DOMAIN ledger : m < k /\ k < n => ~SameUser(k, n)

\* The ledger explains every balance: each row continues from the account's row
\* before it, the first from the starting balance, and the newest row's
\* balance_after is the account's points.  Every transaction that touches
\* users.points (purchase, renewal, refund, adjustment) must post its own row
\* from the balance it read under the write lock.
LedgerExplainsBalance ==
    /\ \A u \in Users :
          (\A n \in DOMAIN ledger : ledger[n].user # u) => points[u] = InitPoints[u]
    /\ \A n \in DOMAIN ledger :
          /\ (\A k \in DOMAIN ledger : SameUser(k, n) => k <= n)
                => ledger[n].balance = points[ledger[n].user]
          /\ (\A k \in DOMAIN ledger : SameUser(k, n) => n <= k)
                => ledger[n].balance = InitPoints[ledger[n].user] + ledger[n].amount
    /\ \A m, n \in DOMAIN ledger :
          Precedes(m, n) => ledger[n].balance = ledger[m].balance + ledger[n].amount

RefundRow(n, o) == ledger[n].type = "refund" /\ ledger[n].ref = o

\* Orders and ledger reconcile: an order is refunded at most once, a refunded
\* order has exactly one refund row, for the amount the order records and never
\* more than was paid, however refunds, retirement and renewal interleave.
RefundsReconcile ==
    \A o \in DOMAIN orders :
        /\ orders[o].back <= orders[o].price
        /\ \A m, n \in DOMAIN ledger : RefundRow(m, o) /\ RefundRow(n, o) => m = n
        /\ orders[o].status = "refunded" <=> \E n \in DOMAIN ledger : RefundRow(n, o)
        /\ \A n \in DOMAIN ledger : RefundRow(n, o) =>
              ledger[n].amount = orders[o].back /\ ledger[n].user = orders[o].user

\* A purchase intent charges once: retries of a request carry the same
\* idempotency key and never produce a second order.
OneOrderPerKey ==
    \A o, q \in DOMAIN orders :
        /\ orders[o].key # NoKey /\ orders[o].key = orders[q].key
        /\ orders[o].user = orders[q].user
        => o = q

Sold(p) == {n \in DOMAIN ledger : /\ ledger[n].type \in {"purchase", "auto_renew"}
                                  /\ orders[ledger[n].ref].pkg = p}

\* Nothing is oversold: units sold and units left add up to the starting stock,
\* and a package without a limit stays that way.  Requests hold a stale stock.
StockConserved ==
    \A p \in Packages :
        pkgs[p].stock = IF InitPackage[p].stock < 0 THEN InitPackage[p].stock
                        ELSE InitPackage[p].stock - Cardinality(Sold(p))

\* A retried purchase whose first attempt committed is answered with that order
\* (the promise of PurchaseDuration's idempotency comment).
ReplayAnswered ==
    [][\A r \in reqs \ reqs' :
          EarlierOrders(r) # {} => answer'[r.user] \in EarlierOrders(r)]_vars

\* An order as PointsBook sees it
Receipt(o) == [user |-> orders[o].user, price |-> orders[o].price,
               back |-> orders[o].back, status |-> orders[o].status]

Points == INSTANCE PointsBook WITH
    Accounts <- Users, Opening <- InitPoints,
    balance <- points, receipts <- [o \in DOMAIN orders |-> Receipt(o)]

\* Billing implements PointsBook: whatever shop, administrators, retirement and
\* sweep do between each other's transactions, points only move by a charge the
\* balance covers, a first refund of at most the price, or an adjustment.
PointsAreKept == Points!Spec

------------------------------------------------------------------------------
(* The renewal queue                                                         *)

PlanLines == {<<buckets[i].user, buckets[i].line>> :
                 i \in {j \in DOMAIN buckets : buckets[j].kind = "plan"}}

\* A line serves its buckets one at a time and in purchase order, whatever promotes
\* them (a purchase, a refund, a removal, an adjustment, a read or the sweep): what
\* is retired was bought before the head, and the head before all that is queued.
ServedInOrder ==
    \A i, j \in DOMAIN buckets :
        /\ buckets[i].kind = "plan" /\ buckets[j].kind = "plan"
        /\ buckets[i].user = buckets[j].user /\ buckets[i].line = buckets[j].line
        /\ i < j /\ buckets[i].status # "retired"
        => buckets[j].status = "queued"

\* A bucket waits in the line its package names: moving a package to another
\* line takes every share of it along, and no purchase or renewal that straddles
\* the move leaves one behind.
LineFollowsPackage ==
    \A i \in DOMAIN buckets :
        buckets[i].kind = "plan" => buckets[i].line = pkgs[buckets[i].pkg].line

\* A user's renewal choice covers the whole line: whatever is bought, renewed,
\* refunded or promoted after it was made, no live bucket of the line disagrees,
\* so a line switched off cannot be switched on again by a purchase.
RenewalChoiceIsUniform ==
    \A i, j \in DOMAIN buckets :
        /\ buckets[i].kind = "plan" /\ buckets[j].kind = "plan"
        /\ buckets[i].status # "retired" /\ buckets[j].status # "retired"
        /\ buckets[i].user = buckets[j].user /\ buckets[i].line = buckets[j].line
        => buckets[i].renew = buckets[j].renew

\* What was bought is served: a queued bucket has no expiry yet, one in service ends
\* at most a full duration after now, and one leaves service only when its time or
\* its traffic is used up.  No promotion, however late its timestamp, retires a head
\* that could still carry traffic, and nothing later refills a retired one.
PaidTimeIsServed ==
    \A i \in DOMAIN buckets : buckets[i].kind = "plan" =>
        /\ buckets[i].status = "queued" => buckets[i].expiry = 0
        /\ buckets[i].status # "queued" => buckets[i].expiry <= now + buckets[i].dur
        /\ buckets[i].status = "retired" =>
            \/ ~NotExpired(buckets[i], now)
            \/ buckets[i].pdays = 0 /\ ~HasQuota(buckets[i])

\* A paid plan reaches service: a line with a queued bucket and no usable head
\* does not stay that way, even if the sweep keeps failing on other accounts.
PaidPlanEntersService ==
    \A u \in Users \ MayFail : QueueDue(buckets, u, now) ~> ~QueueDue(buckets, u, now)

------------------------------------------------------------------------------
(* Refunds and revocation                                                    *)

\* Refunding an order revokes what it granted: its bucket is gone.  (Not said of
\* a bucket an administrator has topped up: reverseOrderFromUser takes one that
\* exceeds its order for a merged row of older versions and claws back instead.)
RefundRevokes ==
    \A i \in DOMAIN buckets :
        buckets[i].order \in DOMAIN orders => orders[buckets[i].order].status = "success"

JustRefunded == {o \in DOMAIN orders : orders'[o].status # orders[o].status}

\* "Refunding reverses exactly one order's entitlement": the quota, usage and
\* presence of every other order's plan bucket are what they were.
RefundTouchesOnlyItsOrder ==
    [][\A o \in JustRefunded, i \in DOMAIN buckets :
          buckets[i].kind = "plan" /\ buckets[i].order # o /\ buckets[i].pdays = 0 =>
              /\ i \in DOMAIN buckets'
              /\ buckets'[i].limit = buckets[i].limit
              /\ buckets'[i].used = buckets[i].used]_vars

ClearedBy(r) == DOMAIN buckets \ DOMAIN buckets'

\* Retirement gives the money back before it takes the plan: what the clearing
\* step removes belongs to orders already refunded.
ClearedPlansAreRefunded ==
    [][\A r \in retire \ retire' :
          r.user # NoUser /\ r.todo = {} =>
              \A i \in ClearedBy(r) :
                  orders[buckets[i].order].status = "refunded"]_vars

\* Retirement reaches every holder: when it ends, the only buckets of the package
\* left were bought while it ran, or belong to an account whose own transactions
\* failed.  Each holder is handled in transactions of its own between other
\* people's, and a failure must not end the loop.
EndsAtEveryHolder ==
    \A r \in retire : retire' = {} =>
        \A i \in DOMAIN buckets :
            buckets[i].kind = "plan" /\ buckets[i].pkg = r.pkg
                => buckets[i].order > r.since \/ buckets[i].user \in MayFail

RetireReachesEveryHolder == [][EndsAtEveryHolder]_vars

------------------------------------------------------------------------------
(* The users.* aggregate                                                     *)

\* Usage metered on a bucket whose limit is 0 is mirrored when it arrives but
\* left out of every later recompute.
Emptied(u) == {i \in Owned(buckets, u) :
                  /\ buckets[i].kind # "free"
                  /\ buckets[i].limit = 0 /\ buckets[i].used > 0}

\* recomputeUserAggregate and applyBucketUsage, the two writers of the users.*
\* counters, agree on every account that has no such bucket.
MirrorAgrees ==
    \A u \in Users :
        /\ mirror[u].limit = PaidLimit(buckets, u)
        /\ Emptied(u) = {} => mirror[u].used = PaidUsed(buckets, u)

------------------------------------------------------------------------------
(* Monthly periods                                                           *)

\* Metered usage is never lost: rollovers, conversions to monthly periods and
\* moves between lines carry what a bucket has used along.
CarriesUsage ==
    \A i \in DOMAIN buckets \cap DOMAIN buckets' :
        buckets'[i].life + buckets'[i].used >= buckets[i].life + buckets[i].used

UsageIsKept == [][CarriesUsage]_vars

\* The buckets of head i's line that entered service
Served(i) ==
    {j \in InLine(buckets, buckets[i].user, buckets[i].line) :
        buckets[j].status # "queued"}

LineStart(i) == Min({buckets[j].expiry - buckets[j].dur : j \in Served(i)})

\* Periods since the line first entered service, the current and any idle ones
\* included
PeriodsBegun(i) ==
    LET b == buckets[i]
    IN  1 + (b.pstart - LineStart(i) + b.pdays - 1) \div b.pdays

\* Borrowed traffic is repaid: however often a line borrows from its next period,
\* across rollovers and from one purchased bucket to the next, the traffic it has
\* carried is never more than one quota ahead of the periods begun.  (For a
\* line whose quota no administrator has changed, of buckets that last whole
\* periods; see the README for the clock that borrowedFromLine reads itself.)
BorrowingIsRepaid ==
    \A i \in DOMAIN buckets :
        InPeriod(buckets[i]) =>
            TotalOf(buckets, Served(i), LAMBDA b : b.life + b.used)
                <= buckets[i].quota * (PeriodsBegun(i) + 1)
=============================================================================
