------------------------------- MODULE Buckets -------------------------------
(* The user_plans table: the bucket model of internal/store.                 *)
(*                                                                           *)
(* A table is a function from bucket ids (allocated in purchase order) to    *)
(* rows.  A row is one metered entitlement: a purchased plan (kind "plan"),  *)
(* the shared traffic pool ("pool") or the unmetered free-group allowance    *)
(* ("free").  Plans of one user that share a renewal line queue up behind    *)
(* each other: one head is "active", later ones are "queued", finished ones  *)
(* are "retired".                                                            *)
(*                                                                           *)
(* Every operator below is a pure function of a table; Billing turns them    *)
(* into transactions.  Time is in days, traffic in an abstract unit.  An     *)
(* expiry of 0 means "never", so the clock must start high enough for no     *)
(* computed expiry to be 0 by accident (StartTime of Billing).               *)
EXTENDS Integers, FiniteSets, FiniteSetsExt

CONSTANTS
    Packages,     \* package ids
    Catalog,      \* package -> [type, traffic, dur, monthly, advance]
    PeriodDays    \* length of a traffic period (30 days in the code)

ASSUME PeriodDaysAssumption == PeriodDays \in Nat \ {0}

ASSUME CatalogAssumption ==
    Catalog \in [Packages -> [type    : {"plan", "traffic"},
                              traffic : Nat \ {0},
                              dur     : Nat,
                              monthly : BOOLEAN,
                              advance : BOOLEAN]]

NoLine == "-"       \* queue_key of a pool or free bucket
NoOrder == 0        \* order_id of a bucket no order created
FollowPackage == 2  \* allow_advance = -1: use the package's own setting

Larger(a, b)  == IF a >= b THEN a ELSE b
Smaller(a, b) == IF a <= b THEN a ELSE b

------------------------------------------------------------------------------
(* Rows                                                                      *)

\* Bucket.NotExpired
NotExpired(b, t) == b.expiry = 0 \/ b.expiry > t

\* Bucket.HasQuota
HasQuota(b) == b.limit > 0 /\ b.used < b.limit

\* usableExpr: the row stats attribution prefers
Usable(b, t) == b.status = "active" /\ NotExpired(b, t) /\ HasQuota(b)

\* usableHeadPredicate: the row that owns its line's slot.  A periodic head
\* keeps the slot while its time lasts, even with the period's quota used up.
UsableHead(b, t) ==
    /\ b.kind = "plan"
    /\ b.status = "active"
    /\ NotExpired(b, t)
    /\ b.pdays > 0 \/ HasQuota(b)

Owned(bk, u) == {i \in DOMAIN bk : bk[i].user = u}

InLine(bk, u, l) ==
    {i \in Owned(bk, u) : bk[i].kind = "plan" /\ bk[i].line = l}

QueuedIn(bk, u, l) == {i \in InLine(bk, u, l) : bk[i].status = "queued"}
ActiveIn(bk, u, l) == {i \in InLine(bk, u, l) : bk[i].status = "active"}
LiveIn(bk, u, l)   == {i \in InLine(bk, u, l) : bk[i].status # "retired"}

PlansOf(bk, u, p) ==
    {i \in Owned(bk, u) : bk[i].kind = "plan" /\ bk[i].pkg = p}

PoolsOf(bk, u) == {i \in Owned(bk, u) : bk[i].kind = "pool"}

OfOrder(bk, u, o) ==
    {i \in Owned(bk, u) : bk[i].kind = "plan" /\ bk[i].order = o}

Without(bk, ids) == [i \in DOMAIN bk \ ids |-> bk[i]]

\* insertBucket: the new row takes the id the table's sequence hands out
With(bk, id, row) == [i \in DOMAIN bk \cup {id} |-> IF i = id THEN row ELSE bk[i]]

------------------------------------------------------------------------------
(* Packages: the effective option of a package (one duration each)           *)

\* PeriodCount
PeriodCount(days) ==
    IF days <= 0 THEN 1 ELSE (days + PeriodDays - 1) \div PeriodDays

\* Package.PeriodQuota, without an explicit monthly figure
PeriodQuota(p) ==
    LET q == Catalog[p].traffic \div PeriodCount(Catalog[p].dur)
    IN  IF q <= 0 THEN Catalog[p].traffic ELSE q

Monthly(p) == Catalog[p].type = "plan" /\ Catalog[p].monthly

------------------------------------------------------------------------------
(* New rows                                                                  *)

\* Mutant: only waiting buckets are asked for the choice
InheritedRenewFromQueue(bk, u, l) ==
    LET queued == QueuedIn(bk, u, l)
    IN  IF queued = {} THEN TRUE ELSE bk[Max(queued)].renew

\* queueAutoRenew: the newest non-retired bucket of the line decides
InheritedRenew(bk, u, l) ==
    LET live == LiveIn(bk, u, l)
    IN  IF live = {} THEN TRUE ELSE bk[Max(live)].renew

\* queueAdvanceOverride
InheritedAdvance(bk, u, l) ==
    LET live == {i \in LiveIn(bk, u, l) : bk[i].pdays > 0}
    IN  IF live = {} THEN FollowPackage ELSE bk[Max(live)].adv

\* The row enqueuePlanBucket inserts for order o of package p in line l
QueuedPlan(bk, u, p, l, o) ==
    LET quota == IF Monthly(p) THEN PeriodQuota(p) ELSE 0 IN
    [user |-> u, kind |-> "plan", pkg |-> p, line |-> l, order |-> o,
     status |-> "queued", expiry |-> 0, dur |-> Catalog[p].dur, used |-> 0,
     limit |-> IF Monthly(p) THEN quota ELSE Catalog[p].traffic,
     renew |-> InheritedRenew(bk, u, l),
     pdays |-> IF Monthly(p) THEN PeriodDays ELSE 0,
     quota |-> quota, base |-> quota, pstart |-> 0, life |-> 0,
     adv |-> IF Monthly(p) THEN InheritedAdvance(bk, u, l) ELSE FollowPackage]

\* The row addToPool and ensureFreeBucketWith insert: active, no line, no order
Ancillary(u, kind, limit) ==
    [user |-> u, kind |-> kind, pkg |-> 0, line |-> NoLine, order |-> NoOrder,
     status |-> "active", expiry |-> 0, dur |-> 0, used |-> 0, limit |-> limit,
     renew |-> FALSE, pdays |-> 0, quota |-> 0, base |-> 0, pstart |-> 0,
     life |-> 0, adv |-> FollowPackage]

------------------------------------------------------------------------------
(* Monthly periods: the borrowable limit                                     *)

\* effectiveAdvanceSQL
MayBorrow(b) ==
    IF b.adv = FollowPackage THEN b.pkg \in Packages /\ Catalog[b.pkg].advance
                             ELSE b.adv = 1

\* hasNextPeriodSQL
HasNextPeriod(bk, i) ==
    \/ bk[i].expiry = 0
    \/ bk[i].pstart + bk[i].pdays < bk[i].expiry
    \/ QueuedIn(bk, bk[i].user, bk[i].line) # {}

InPeriod(b) ==
    b.kind = "plan" /\ b.status = "active" /\ b.pdays > 0 /\ b.pstart > 0

\* refreshPeriodLimits / refreshPeriodLimitsForPackage over the rows ids
RefreshLimits(bk, ids) ==
    [i \in DOMAIN bk |->
        IF i \in ids /\ InPeriod(bk[i])
        THEN [bk[i] EXCEPT !.limit = bk[i].base +
                 IF MayBorrow(bk[i]) /\ HasNextPeriod(bk, i)
                 THEN bk[i].quota ELSE 0]
        ELSE bk[i]]

\* Mutant: an expired head's debt is forgotten
BorrowedFromRunning(bk, u, l, id, clock) ==
    LET owing == {i \in ActiveIn(bk, u, l) \ {id} :
                     bk[i].pdays > 0 /\ bk[i].expiry > clock}
    IN  Max({0} \cup {bk[i].used - bk[i].base : i \in owing})

\* borrowedFromLine: what the periodic heads being replaced owe to the bucket
\* taking over.  It reads the wall clock itself, not the caller's timestamp.
Borrowed(bk, u, l, id, clock) ==
    LET owing == {i \in ActiveIn(bk, u, l) \ {id} :
                     /\ bk[i].pdays > 0
                     /\ bk[i].expiry > 0
                     /\ bk[i].expiry > clock - bk[i].pdays}
    IN  Max({0} \cup {bk[i].used - bk[i].base : i \in owing})

------------------------------------------------------------------------------
(* The renewal queue                                                         *)

\* The bucket of a line that is promoted next: its oldest queued one
NextInLine(bk, u, l, i) ==
    i \in QueuedIn(bk, u, l) /\ \A j \in QueuedIn(bk, u, l) : i <= j

SlotFree(bk, u, l, t) == \A i \in InLine(bk, u, l) : ~UsableHead(bk[i], t)

\* Mutant: a waiting bucket makes its line due although the slot is taken
DueLinesTaken(bk, u, t) ==
    {l \in {bk[i].line : i \in Owned(bk, u)} : QueuedIn(bk, u, l) # {}}

\* queueDuePredicate: lines holding a queued bucket whose slot is free
DueLines(bk, u, t) ==
    {l \in {bk[i].line : i \in Owned(bk, u)} :
        QueuedIn(bk, u, l) # {} /\ SlotFree(bk, u, l, t)}

QueueDue(bk, u, t) == DueLines(bk, u, t) # {}

\* The UPDATE that puts a queued bucket in service at t
Promote(b, t, carry) ==
    LET first == Larger(b.quota - carry, 0) IN
    [b EXCEPT !.status = "active",
              !.expiry = IF b.dur > 0 THEN t + b.dur ELSE 0,
              !.pstart = IF b.pdays > 0 THEN t ELSE b.pstart,
              !.base   = IF b.pdays > 0 THEN first ELSE b.base,
              !.limit  = IF b.pdays > 0 THEN first ELSE b.limit]

\* Mutant: the old head keeps its status
HandOverKeepsHead(bk, u, t, clock) ==
    [i \in DOMAIN bk |->
        LET b == bk[i] IN
        IF /\ b.user = u /\ b.kind = "plan" /\ b.line \in DueLines(bk, u, t)
           /\ NextInLine(bk, u, b.line, i)
        THEN Promote(b, t, Borrowed(bk, u, b.line, i, clock))
        ELSE b]

\* Every due line promotes its oldest queued bucket and retires whoever held
\* the slot; the lines of one user do not touch each other's rows.
HandOver(bk, u, t, clock) ==
    [i \in DOMAIN bk |->
        LET b == bk[i] IN
        IF b.user # u \/ b.kind # "plan" \/ b.line \notin DueLines(bk, u, t)
        THEN b
        ELSE IF NextInLine(bk, u, b.line, i)
        THEN Promote(b, t, Borrowed(bk, u, b.line, i, clock))
        ELSE IF b.status = "active" THEN [b EXCEPT !.status = "retired"]
        ELSE b]

\* advanceUserQueues
Advance(bk, u, t, clock) ==
    LET handed == HandOver(bk, u, t, clock)
    IN  RefreshLimits(handed, Owned(handed, u))

------------------------------------------------------------------------------
(* Monthly periods: rollover and administration                              *)

\* periodDuePredicate
PeriodDue(b, t) ==
    /\ InPeriod(b)
    /\ b.pstart + b.pdays <= t
    /\ b.expiry = 0 \/ b.expiry > b.pstart + b.pdays

DuePeriods(bk, u, t) == {i \in Owned(bk, u) : PeriodDue(bk[i], t)}

\* Mutant: the period's usage is cleared without being kept
NextPeriodDropsUsage(b, t) ==
    LET n     == (t - b.pstart) \div b.pdays
        fresh == Larger(b.quota - Larger(b.used - b.base, 0), 0)
    IN  [b EXCEPT !.used = 0, !.pstart = b.pstart + n * b.pdays,
                  !.base = fresh, !.limit = fresh]

\* One row of resetUserPeriods: usage moves to life, the quota refills less what
\* the period right before borrowed.
NextPeriod(b, t) ==
    LET n     == (t - b.pstart) \div b.pdays
        owed  == IF n = 1 THEN Larger(b.used - b.base, 0) ELSE 0
        fresh == Larger(b.quota - owed, 0)
    IN  [b EXCEPT !.life = b.life + b.used, !.used = 0,
                  !.pstart = b.pstart + n * b.pdays,
                  !.base = fresh, !.limit = fresh]

\* resetUserPeriods
ResetPeriods(bk, u, t) ==
    LET due  == DuePeriods(bk, u, t)
        next == [i \in DOMAIN bk |->
                    IF i \in due THEN NextPeriod(bk[i], t) ELSE bk[i]]
    IN  IF due = {} THEN bk ELSE RefreshLimits(next, Owned(next, u))

PeriodicLive(bk, u, l) == {i \in LiveIn(bk, u, l) : bk[i].pdays > 0}

\* SetLineAdvance, before the queue is advanced
WithLineAdvance(bk, u, l, mode) ==
    [i \in DOMAIN bk |->
        IF i \in PeriodicLive(bk, u, l) THEN [bk[i] EXCEPT !.adv = mode]
                                        ELSE bk[i]]

\* SetLineMonthlyQuota, before the queue is advanced
WithMonthlyQuota(bk, u, l, bytes) ==
    [i \in DOMAIN bk |->
        IF i \in PeriodicLive(bk, u, l)
        THEN LET base == Larger(bk[i].base + bytes - bk[i].quota, 0) IN
             [bk[i] EXCEPT !.base = base, !.quota = bytes,
                           !.limit = IF bk[i].status = "queued" THEN bytes
                                                                ELSE base]
        ELSE bk[i]]

\* The lump-sum buckets ConvertLineToPeriodic selects
Convertible(bk, u, l, t) ==
    {i \in LiveIn(bk, u, l) :
        /\ bk[i].pdays = 0
        /\ bk[i].status = "queued" \/ NotExpired(bk[i], t)}

\* One row of ConvertLineToPeriodic
Converted(b, t) ==
    LET split == b.limit \div PeriodCount(b.dur)
        q     == IF split <= 0 THEN b.limit ELSE split
        act   == IF b.expiry > 0 /\ b.dur > 0 THEN Smaller(b.expiry - b.dur, t)
                                              ELSE t
        row   == [b EXCEPT !.pdays = PeriodDays, !.quota = q,
                           !.base = q, !.limit = q]
    IN  IF b.status = "queued" THEN row
        ELSE [row EXCEPT !.pstart = act + ((t - act) \div PeriodDays) * PeriodDays,
                         !.life = b.life + b.used, !.used = 0]

\* ConvertLineToPeriodic, before the queue is advanced
WithConverted(bk, u, l, t) ==
    [i \in DOMAIN bk |->
        IF i \in Convertible(bk, u, l, t) THEN Converted(bk[i], t) ELSE bk[i]]

------------------------------------------------------------------------------
(* Undoing an order                                                          *)

\* reversePlanBucket: claw one order's traffic and duration back from the
\* user's oldest bucket of the package, whatever its state; the queue is left
\* alone.
ReversePlan(bk, u, p, t) ==
    LET ids == PlansOf(bk, u, p)
        i   == Min(ids)
        b   == bk[i]
        lim == Larger(b.limit - Catalog[p].traffic, Larger(b.used, 0))
        exp == b.expiry - Catalog[p].dur
    IN  IF ids = {} THEN bk
        ELSE IF lim <= b.used /\ exp <= t THEN Without(bk, {i})
        ELSE [bk EXCEPT ![i].limit = lim, ![i].expiry = exp]

\* A bucket holding more than its order's quota is taken for a merged bucket
\* of the time before the queue model.
LooksMerged(b, p) ==
    b.pdays = 0 /\ b.status = "active" /\ b.limit > Catalog[p].traffic

\* Mutant: orders are reversed by package, as before the queue model
ReverseOrderByPackage(bk, u, p, o, t) == ReversePlan(bk, u, p, t)

\* reverseOrderBucket for order o of package p
ReverseOrder(bk, u, p, o, t) ==
    LET own == OfOrder(bk, u, o) IN
    IF own = {} \/ LooksMerged(bk[Min(own)], p)
    THEN ReversePlan(bk, u, p, t)
    ELSE Advance(Without(bk, {Min(own)}), u, t, t)

\* subFromPool
ReversePool(bk, u, bytes) ==
    LET ids == PoolsOf(bk, u)
        i   == Min(ids)
    IN  IF ids = {} THEN bk
        ELSE [bk EXCEPT ![i].limit =
                 Larger(bk[i].limit - bytes, Larger(bk[i].used, 0))]

------------------------------------------------------------------------------
(* Metering                                                                  *)

\* resolveStatsIdentity: the bucket a delta reported for a package's line is
\* charged to; {} when nothing of the line ever entered service.
Metered(bk, u, p, t) ==
    LET ids    == {i \in PlansOf(bk, u, p) : bk[i].status # "queued"}
        usable == {i \in ids : Usable(bk[i], t)}
    IN  IF usable # {} THEN {Max(usable)}
        ELSE IF ids # {} THEN {Max(ids)} ELSE {}

------------------------------------------------------------------------------
(* The legacy users.* aggregate                                              *)

PaidRows(bk, u) ==
    {i \in Owned(bk, u) : bk[i].kind # "free" /\ bk[i].limit > 0}

TotalOf(bk, ids, Field(_)) == MapThenSumSet(LAMBDA i : Field(bk[i]), ids)

PaidLimit(bk, u) == TotalOf(bk, PaidRows(bk, u), LAMBDA b : b.limit)
PaidUsed(bk, u)  == TotalOf(bk, PaidRows(bk, u), LAMBDA b : b.used)

\* LineEnds: when the last bucket of a line, queued ones included, runs out
LineEnd(bk, u, l, t) ==
    LET running == {bk[i].expiry : i \in {j \in ActiveIn(bk, u, l) :
                                             NotExpired(bk[j], t)}}
        current == Max({0} \cup running)
        queued  == QueuedIn(bk, u, l)
        from    == IF current = 0 THEN t ELSE current
    IN  IF current = 0 /\ queued = {} THEN 0
        ELSE from + TotalOf(bk, queued, LAMBDA b : b.dur)

\* FinalExpiry over the plan lines, as recomputeUserAggregate stores it
QueueEnd(bk, u, t) ==
    LET plans == {i \in Owned(bk, u) : bk[i].kind = "plan"}
        lines == {bk[i].line : i \in {j \in plans : bk[j].status # "retired"}}
    IN  Max({0} \cup {bk[i].expiry : i \in {j \in plans : bk[j].limit > 0}}
                \cup {LineEnd(bk, u, l, t) : l \in lines})

\* recomputeUserAggregate
Aggregate(bk, u, t) ==
    [limit |-> PaidLimit(bk, u), used |-> PaidUsed(bk, u),
     expiry |-> QueueEnd(bk, u, t)]
=============================================================================
