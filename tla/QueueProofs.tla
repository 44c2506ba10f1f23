------------------------------ MODULE QueueProofs ------------------------------
(* The renewal queue and the users.* aggregate, for every catalogue, set of  *)
(* accounts and bound.                                                       *)
EXTENDS TableProofs

------------------------------------------------------------------------------
(* What stays of a row that is neither promoted, replaced nor clawed back    *)

\* Its place in the queue, its expiry and its renewal choice stay, and once retired it
\* is not refilled
Steady(a, b) ==
    /\ b.status = a.status /\ b.expiry = a.expiry
    /\ b.line = a.line /\ b.renew = a.renew
    /\ a.status = "retired" =>
          b.pdays = a.pdays /\ b.limit <= a.limit /\ b.used >= a.used

Steadies(bk, next) ==
    DOMAIN next \subseteq DOMAIN bk /\ \A i \in DOMAIN next : Steady(bk[i], next[i])

\* An administrator takes traffic away from a bucket but never tops one up
NoTopUps == \A d \in TrafficDeltas : d <= 0

\* ... nor gives a line a monthly quota above what an order buys, and no line borrows
SharesStayWhole ==
    /\ NoTopUps
    /\ \A q \in NewQuotas, p \in Packages : q <= Catalog[p].traffic
    /\ "borrow" \notin Exercised /\ \A p \in Packages : ~Catalog[p].advance

\* Then no bucket holds more than the traffic of the order it came from
WithinTraffic(b, traffic) ==
    /\ b.limit <= traffic /\ b.quota <= traffic /\ b.adv = FollowPackage
    /\ b.status = "active" /\ b.pdays > 0 => b.base <= b.quota

ShareRow(b) ==
    b.kind = "plan" =>
        /\ NoTopUps /\ b.pdays = 0 => b.limit <= Catalog[b.pkg].traffic
        /\ SharesStayWhole => WithinTraffic(b, Catalog[b.pkg].traffic)

Shares(bk) == \A i \in DOMAIN bk : ShareRow(bk[i])

\* What an operation keeps of the rows it keeps
Tends(bk, next) == Steadies(bk, next) /\ (Shares(bk) => Shares(next))

\* A row that stays as it is is steady
LEMMA SameRow ==
    ASSUME NEW b, NEW t, RowOK(b, t)
    PROVE  Steady(b, b)
BY RowFields DEF Steady, RowOK

\* What holds of every row that is kept holds of the table
LEMMA RowsTend ==
    ASSUME NEW bk, NEW next, DOMAIN next \subseteq DOMAIN bk,
           \A i \in DOMAIN next :
              Steady(bk[i], next[i]) /\ (ShareRow(bk[i]) => ShareRow(next[i]))
    PROVE  Tends(bk, next)
BY DEF Tends, Steadies, Shares

\* Two steady changes of a table make one
LEMMA TendsTwice ==
    ASSUME NEW a, NEW b, NEW c, NEW t, RowsOK(a, t), RowsOK(b, t), RowsOK(c, t),
           Tends(a, b), Tends(b, c)
    PROVE  Tends(a, c)
<1> SUFFICES ASSUME NEW i \in DOMAIN c PROVE i \in DOMAIN a /\ Steady(a[i], c[i])
  BY DEF Tends, Steadies
<1>1. i \in DOMAIN a /\ i \in DOMAIN b /\ Steady(a[i], b[i]) /\ Steady(b[i], c[i])
  BY DEF Tends, Steadies
<1>2. a[i] \in BucketRow /\ b[i] \in BucketRow /\ c[i] \in BucketRow
  BY <1>1 DEF RowsOK, RowOK
<1>3. /\ a[i].limit \in Nat /\ b[i].limit \in Nat /\ c[i].limit \in Nat
      /\ a[i].used \in Nat /\ b[i].used \in Nat /\ c[i].used \in Nat
  BY <1>2, RowFields
<1> QED BY <1>1, <1>3 DEF Steady

\* A table that stays as it is is steady
LEMMA NothingTends ==
    ASSUME NEW bk, NEW t, RowsOK(bk, t)
    PROVE  Tends(bk, bk)
BY SameRow DEF Tends, Steadies, RowsOK

\* Removing rows leaves the others as they were
LEMMA WithoutTends ==
    ASSUME NEW bk, NEW t, RowsOK(bk, t), NEW ids
    PROVE  Tends(bk, Without(bk, ids))
BY SameRow DEF Tends, Steadies, Without, RowsOK, Shares

\* Rewriting one row
LEMMA RowTends ==
    ASSUME NEW bk, NEW t, RowsOK(bk, t), NEW i \in DOMAIN bk, NEW row,
           Steady(bk[i], row), ShareRow(bk[i]) => ShareRow(row)
    PROVE  Tends(bk, [bk EXCEPT ![i] = row])
BY SameRow, RowsTend DEF RowsOK

\* refreshPeriodLimits is steady
LEMMA RefreshTends ==
    ASSUME NEW bk, NEW t, RowsOK(bk, t), NEW ids
    PROVE  Tends(bk, RefreshLimits(bk, ids))
<1> DEFINE next == RefreshLimits(bk, ids)
<1>1. ASSUME NEW i \in DOMAIN bk
      PROVE  Steady(bk[i], next[i]) /\ (ShareRow(bk[i]) => ShareRow(next[i]))
  <2> DEFINE b == bk[i]
             more == IF MayBorrow(b) /\ HasNextPeriod(bk, i) THEN b.quota ELSE 0
  <2>1. RowOK(b, t) /\ b \in BucketRow
    BY DEF RowsOK, RowOK
  <2>2. next[i] = IF i \in ids /\ InPeriod(b) THEN [b EXCEPT !.limit = b.base + more] ELSE b
    BY DEF RefreshLimits
  <2>3. CASE ~(i \in ids /\ InPeriod(b))
    BY <2>1, <2>2, <2>3, SameRow
  <2>4. CASE i \in ids /\ InPeriod(b)
    <3>1. /\ b.kind = "plan" /\ b.status = "active" /\ b.pdays > 0 /\ PlanRow(b, t)
          /\ b.base \in Nat /\ b.quota \in Nat /\ b.limit \in Nat
      BY <2>1, <2>4, RowFields DEF InPeriod, RowOK
    <3>2. SharesStayWhole /\ ShareRow(b) => more = 0
      BY <3>1 DEF SharesStayWhole, ShareRow, WithinTraffic, MayBorrow, PlanRow
    <3>3. next[i] = [b EXCEPT !.limit = b.base + more]
      BY <2>2, <2>4
    <3> HIDE DEF next, b, more
    <3>4. /\ next[i].line = b.line /\ next[i].renew = b.renew
          /\ next[i].status = b.status /\ next[i].expiry = b.expiry /\ next[i].pdays = b.pdays
          /\ next[i].kind = b.kind /\ next[i].pkg = b.pkg /\ next[i].quota = b.quota
          /\ next[i].adv = b.adv /\ next[i].base = b.base /\ next[i].limit = b.base + more
      BY <2>1, <3>3 DEF BucketRow
    <3>5. Steady(b, next[i])
      BY <3>1, <3>4 DEF Steady
    <3>6. ShareRow(b) => ShareRow(next[i])
      <4>1. Catalog[b.pkg].traffic \in Nat
        BY <3>1, CatalogAssumption DEF PlanRow
      <4> QED BY <3>1, <3>2, <3>4, <4>1 DEF ShareRow, WithinTraffic
    <3> QED BY <3>5, <3>6 DEF b
  <2> QED BY <2>3, <2>4
<1> QED BY <1>1, RowsTend DEF RefreshLimits

\* SetLineAdvance, before it advances the queue, is steady
LEMMA LineAdvanceTends ==
    ASSUME NEW bk, NEW t, RowsOK(bk, t), NEW u, NEW l, NEW mode, "borrow" \in Exercised
    PROVE  Tends(bk, WithLineAdvance(bk, u, l, mode))
<1> DEFINE next == WithLineAdvance(bk, u, l, mode)
<1>1. ASSUME NEW i \in DOMAIN bk
      PROVE  Steady(bk[i], next[i]) /\ (ShareRow(bk[i]) => ShareRow(next[i]))
  <2>1. RowOK(bk[i], t) /\ bk[i] \in BucketRow
    BY DEF RowsOK, RowOK
  <2>2. next[i] = bk[i] \/ next[i] = [bk[i] EXCEPT !.adv = mode]
    BY DEF WithLineAdvance
  <2> HIDE DEF next
  <2>3. CASE next[i] = bk[i]
    BY <2>1, <2>3, SameRow
  <2>4. CASE next[i] = [bk[i] EXCEPT !.adv = mode]
    <3>1. Steady(bk[i], next[i])
      BY <2>1, <2>4, RowFields DEF Steady, BucketRow
    <3>2. ShareRow(bk[i]) => ShareRow(next[i])
      BY <2>1, <2>4 DEF ShareRow, SharesStayWhole, BucketRow
    <3> QED BY <3>1, <3>2
  <2> QED BY <2>2, <2>3, <2>4
<1> QED BY <1>1, RowsTend DEF WithLineAdvance

\* SetLineMonthlyQuota, before it advances the queue, is steady
LEMMA MonthlyQuotaTends ==
    ASSUME NEW bk, NEW t, RowsOK(bk, t), NEW u, NEW l, NEW bytes \in NewQuotas
    PROVE  Tends(bk, WithMonthlyQuota(bk, u, l, bytes))
<1> DEFINE next == WithMonthlyQuota(bk, u, l, bytes)
<1>1. ASSUME NEW i \in DOMAIN bk
      PROVE  Steady(bk[i], next[i]) /\ (ShareRow(bk[i]) => ShareRow(next[i]))
  <2> DEFINE b == bk[i]
             base == Larger(b.base + bytes - b.quota, 0)
             lim == IF b.status = "queued" THEN bytes ELSE base
  <2>1. RowOK(b, t) /\ b \in BucketRow
    BY DEF RowsOK, RowOK
  <2>2. next[i] = IF i \in PeriodicLive(bk, u, l)
                  THEN [b EXCEPT !.base = base, !.quota = bytes, !.limit = lim] ELSE b
    BY DEF WithMonthlyQuota
  <2>3. CASE i \notin PeriodicLive(bk, u, l)
    BY <2>1, <2>2, <2>3, SameRow
  <2>4. CASE i \in PeriodicLive(bk, u, l)
    <3>1. /\ b.kind = "plan" /\ b.status \in {"queued", "active"} /\ b.pdays > 0
          /\ PlanRow(b, t) /\ b.base \in Nat /\ b.quota \in Nat /\ bytes \in Nat
      BY <2>1, <2>4, RowFields, AmountsAssumption DEF PeriodicLive, LiveIn, InLine, RowOK
    <3>2. Catalog[b.pkg].traffic \in Nat /\ (SharesStayWhole => bytes <= Catalog[b.pkg].traffic)
      BY <3>1, CatalogAssumption DEF PlanRow, SharesStayWhole
    <3>3. next[i] = [b EXCEPT !.base = base, !.quota = bytes, !.limit = lim]
      BY <2>2, <2>4
    <3>4. b.base <= b.quota => base <= bytes
      BY <3>1 DEF Larger
    <3>5. lim = IF b.status = "queued" THEN bytes ELSE base
      OBVIOUS
    <3>6. base \in Nat
      BY <3>1 DEF Larger
    <3> HIDE DEF next, b, base, lim
    <3>7. /\ next[i].line = b.line /\ next[i].renew = b.renew
          /\ next[i].status = b.status /\ next[i].expiry = b.expiry /\ next[i].pdays = b.pdays
          /\ next[i].kind = b.kind /\ next[i].pkg = b.pkg /\ next[i].quota = bytes
          /\ next[i].adv = b.adv /\ next[i].base = base /\ next[i].limit = lim
      BY <2>1, <3>3 DEF BucketRow
    <3>8. Steady(b, next[i])
      BY <3>1, <3>7 DEF Steady
    <3>9. ShareRow(b) => ShareRow(next[i])
      BY <3>1, <3>2, <3>4, <3>5, <3>6, <3>7 DEF ShareRow, WithinTraffic
    <3> QED BY <3>8, <3>9 DEF b
  <2> QED BY <2>3, <2>4
<1> QED BY <1>1, RowsTend DEF WithMonthlyQuota

\* ConvertLineToPeriodic, before it advances the queue, is steady
LEMMA ConvertTends ==
    ASSUME NEW bk, NEW t \in Nat, RowsOK(bk, t), NEW u, NEW l
    PROVE  Tends(bk, WithConverted(bk, u, l, t))
<1> DEFINE next == WithConverted(bk, u, l, t)
<1>1. ASSUME NEW i \in DOMAIN bk
      PROVE  Steady(bk[i], next[i]) /\ (ShareRow(bk[i]) => ShareRow(next[i]))
  <2> DEFINE b == bk[i]
             split == b.limit \div PeriodCount(b.dur)
             q == IF split <= 0 THEN b.limit ELSE split
             act == IF b.expiry > 0 /\ b.dur > 0 THEN Smaller(b.expiry - b.dur, t) ELSE t
             start == act + ((t - act) \div PeriodDays) * PeriodDays
             used == b.life + b.used
             row == [b EXCEPT !.pdays = PeriodDays, !.quota = q, !.base = q, !.limit = q]
             run == [row EXCEPT !.pstart = start, !.life = used, !.used = 0]
  <2>1. RowOK(b, t) /\ b \in BucketRow
    BY DEF RowsOK, RowOK
  <2>2. next[i] = IF i \in Convertible(bk, u, l, t)
                  THEN IF b.status = "queued" THEN row ELSE run ELSE b
    BY DEF WithConverted, Converted
  <2>3. CASE i \notin Convertible(bk, u, l, t)
    BY <2>1, <2>2, <2>3, SameRow
  <2>4. CASE i \in Convertible(bk, u, l, t)
    <3>1. /\ b.kind = "plan" /\ b.status \in {"queued", "active"} /\ b.pdays = 0
          /\ PlanRow(b, t) /\ b.limit \in Nat /\ b.dur \in Nat
      BY <2>1, <2>4, RowFields DEF Convertible, LiveIn, InLine, RowOK
    <3>2. q \in Nat /\ q <= b.limit
      <4>1. split \in Nat /\ split <= b.limit
        BY <3>1, PeriodCountPositive, Quotient
      <4> HIDE DEF split
      <4> QED BY <3>1, <4>1
    <3>3. next[i] = row \/ next[i] = run
      BY <2>2, <2>4
    <3> HIDE DEF next, b, q, start, used
    <3>4. /\ next[i].line = b.line /\ next[i].renew = b.renew
          /\ next[i].status = b.status /\ next[i].expiry = b.expiry /\ next[i].pdays = PeriodDays
          /\ next[i].kind = b.kind /\ next[i].pkg = b.pkg /\ next[i].quota = q
          /\ next[i].adv = b.adv /\ next[i].base = q /\ next[i].limit = q
      BY <2>1, <3>3 DEF BucketRow
    <3>5. Steady(b, next[i])
      BY <3>1, <3>4 DEF Steady
    <3>6. ShareRow(b) => ShareRow(next[i])
      <4>1. Catalog[b.pkg].traffic \in Nat
        BY <3>1, CatalogAssumption DEF PlanRow
      <4> QED BY <3>1, <3>2, <3>4, <4>1, PeriodDaysAssumption DEF ShareRow, WithinTraffic
    <3> QED BY <3>5, <3>6 DEF b
  <2> QED BY <2>3, <2>4
<1> QED BY <1>1, RowsTend DEF WithConverted

\* resetUserPeriods is steady
LEMMA ResetTends ==
    ASSUME NEW bk, NEW t \in Nat, NEW s, RowsOK(bk, s), NEW u
    PROVE  Tends(bk, ResetPeriods(bk, u, t))
<1> DEFINE due == DuePeriods(bk, u, t)
           next == [i \in DOMAIN bk |-> IF i \in due THEN NextPeriod(bk[i], t) ELSE bk[i]]
<1>1. ASSUME NEW i \in DOMAIN bk
      PROVE  Steady(bk[i], next[i]) /\ (ShareRow(bk[i]) => ShareRow(next[i]))
  <2> DEFINE b == bk[i]
             n == (t - b.pstart) \div b.pdays
             owed == IF n = 1 THEN Larger(b.used - b.base, 0) ELSE 0
             fresh == Larger(b.quota - owed, 0)
             start == b.pstart + n * b.pdays
             used == b.life + b.used
  <2>1. RowOK(b, s) /\ b \in BucketRow
    BY DEF RowsOK, RowOK
  <2>2. next[i] = IF i \in due THEN [b EXCEPT !.life = used, !.used = 0, !.pstart = start,
                                               !.base = fresh, !.limit = fresh] ELSE b
    BY DEF NextPeriod
  <2>3. CASE i \notin due
    BY <2>1, <2>2, <2>3, SameRow
  <2>4. CASE i \in due
    <3>1. /\ b.kind = "plan" /\ b.status = "active" /\ b.pdays > 0 /\ PlanRow(b, s)
          /\ b.quota \in Nat /\ b.used \in Nat /\ b.base \in Nat
      BY <2>1, <2>4, RowFields DEF DuePeriods, PeriodDue, InPeriod, RowOK
    <3>2. fresh <= b.quota
      <4> HIDE DEF n
      <4>1. owed \in Nat
        BY <3>1 DEF Larger
      <4> HIDE DEF owed
      <4> QED BY <3>1, <4>1 DEF Larger
    <3>3. next[i] = [b EXCEPT !.life = used, !.used = 0, !.pstart = start,
                              !.base = fresh, !.limit = fresh]
      BY <2>2, <2>4
    <3>4. fresh \in Int
      <4> HIDE DEF n
      <4>1. owed \in Nat
        BY <3>1 DEF Larger
      <4> HIDE DEF owed
      <4> QED BY <3>1, <4>1 DEF Larger
    <3> HIDE DEF next, b, fresh, start, used
    <3>5. /\ next[i].line = b.line /\ next[i].renew = b.renew
          /\ next[i].status = b.status /\ next[i].expiry = b.expiry /\ next[i].pdays = b.pdays
          /\ next[i].kind = b.kind /\ next[i].pkg = b.pkg /\ next[i].quota = b.quota
          /\ next[i].adv = b.adv /\ next[i].base = fresh /\ next[i].limit = fresh
      BY <2>1, <3>3 DEF BucketRow
    <3>6. Steady(b, next[i])
      BY <3>1, <3>5 DEF Steady
    <3>7. ShareRow(b) => ShareRow(next[i])
      <4>1. Catalog[b.pkg].traffic \in Nat
        BY <3>1, CatalogAssumption DEF PlanRow
      <4>2. ~(b.pdays = 0)
        BY <3>1
      <4> QED BY <3>1, <3>2, <3>4, <3>5, <4>1, <4>2 DEF ShareRow, WithinTraffic
    <3> QED BY <3>6, <3>7 DEF b
  <2> QED BY <2>3, <2>4
<1>2. Tends(bk, next)
  BY <1>1, RowsTend
<1>3. Follows(bk, next, s)
  <2>1. ASSUME NEW i \in DOMAIN bk PROVE RowOK(next[i], s) /\ Evolves(bk[i], next[i])
    <3>1. RowOK(bk[i], s)
      BY DEF RowsOK
    <3>2. i \in due => PeriodDue(bk[i], t)
      BY DEF DuePeriods
    <3> QED BY <3>1, <3>2, NextPeriodOK, Unchanged
  <2> QED BY <2>1 DEF Follows
<1>4. ResetPeriods(bk, u, t) = IF due = {} THEN bk ELSE RefreshLimits(next, Owned(next, u))
  BY DEF ResetPeriods
<1> HIDE DEF due, next
<1>5. RowsOK(next, s)
  BY <1>3, FollowsOK
<1>6. Tends(next, RefreshLimits(next, Owned(next, u))) /\ RowsOK(RefreshLimits(next, Owned(next, u)), s)
  BY <1>5, RefreshTends, RefreshFollows, FollowsOK
<1> QED BY <1>2, <1>4, <1>5, <1>6, TendsTwice, NothingTends

------------------------------------------------------------------------------
(* The queue of a line                                                       *)

\* ServedInOrder of any table
Ordered(bk) ==
    \A i, j \in DOMAIN bk :
        /\ bk[i].kind = "plan" /\ bk[j].kind = "plan"
        /\ bk[i].user = bk[j].user /\ bk[i].line = bk[j].line
        /\ i < j /\ bk[i].status # "retired"
        => bk[j].status = "queued"

\* What a handover at t makes of row i
Handed(bk, u, t, s, i, c) ==
    /\ c.kind = bk[i].kind /\ c.user = bk[i].user /\ c.line = bk[i].line
    /\ c.renew = bk[i].renew /\ c.pkg = bk[i].pkg
    /\ \/ c = bk[i]
       \/ /\ bk[i].kind = "plan" /\ bk[i].user = u /\ bk[i].line \in DueLines(bk, u, t)
          /\ NextInLine(bk, u, bk[i].line, i)
          /\ c = Promote(bk[i], t, Borrowed(bk, u, bk[i].line, i, s)) /\ c.status = "active"
       \/ /\ bk[i].kind = "plan" /\ bk[i].user = u /\ bk[i].line \in DueLines(bk, u, t)
          /\ bk[i].status = "active"
          /\ c = [bk[i] EXCEPT !.status = "retired"] /\ c.status = "retired"

\* A handover promotes the next in line, retires the head, or leaves a row alone
LEMMA HandOverRows ==
    ASSUME NEW bk, NEW t, NEW s, RowsOK(bk, s), NEW u, NEW i \in DOMAIN bk
    PROVE  Handed(bk, u, t, s, i, HandOver(bk, u, t, s)[i])
<1> DEFINE b == bk[i]
           carry == Borrowed(bk, u, b.line, i, s)
           c == HandOver(bk, u, t, s)[i]
           d == [b EXCEPT !.status = "retired"]
<1>1. RowOK(b, s) /\ b \in BucketRow
  BY DEF RowsOK, RowOK
<1>2. c = IF b.user # u \/ b.kind # "plan" \/ b.line \notin DueLines(bk, u, t)
          THEN b
          ELSE IF NextInLine(bk, u, b.line, i) THEN Promote(b, t, carry)
          ELSE IF b.status = "active" THEN d
          ELSE b
  BY DEF HandOver
<1>3. /\ Promote(b, t, carry).kind = b.kind /\ Promote(b, t, carry).user = b.user
      /\ Promote(b, t, carry).line = b.line /\ Promote(b, t, carry).status = "active"
      /\ Promote(b, t, carry).renew = b.renew /\ Promote(b, t, carry).pkg = b.pkg
  BY <1>1 DEF Promote, BucketRow
<1>4. /\ d.kind = b.kind /\ d.user = b.user /\ d.line = b.line /\ d.status = "retired"
      /\ d.renew = b.renew /\ d.pkg = b.pkg
  BY <1>1 DEF BucketRow
<1> HIDE DEF c, carry, d
<1>5. CASE c = b
  BY <1>5 DEF Handed, c
<1>6. CASE /\ b.user = u /\ b.kind = "plan" /\ b.line \in DueLines(bk, u, t)
           /\ NextInLine(bk, u, b.line, i)
           /\ c = Promote(b, t, carry)
  BY <1>3, <1>6 DEF Handed, c, carry
<1>7. CASE /\ b.user = u /\ b.kind = "plan" /\ b.line \in DueLines(bk, u, t)
           /\ b.status = "active" /\ c = d
  BY <1>4, <1>7 DEF Handed, c, d
<1> QED BY <1>2, <1>5, <1>6, <1>7

\* A handover serves a line in order
LEMMA HandOverOrders ==
    ASSUME NEW bk, NEW t, NEW s, RowsOK(bk, s), Finite(bk), NEW u, Ordered(bk)
    PROVE  Ordered(HandOver(bk, u, t, s))
<1> DEFINE next == HandOver(bk, u, t, s)
<1>1. DOMAIN next = DOMAIN bk
  BY DEF HandOver
<1> SUFFICES ASSUME NEW i \in DOMAIN bk, NEW j \in DOMAIN bk,
                    next[i].kind = "plan", next[j].kind = "plan",
                    next[i].user = next[j].user, next[i].line = next[j].line,
                    i < j, next[i].status # "retired"
             PROVE  next[j].status = "queued"
  BY <1>1 DEF Ordered
<1>0. Handed(bk, u, t, s, i, next[i]) /\ Handed(bk, u, t, s, j, next[j])
  BY HandOverRows
<1> HIDE DEF next
<1>2. /\ bk[i].kind = "plan" /\ bk[j].kind = "plan"
      /\ bk[i].user = bk[j].user /\ bk[i].line = bk[j].line /\ i \in Nat /\ j \in Nat
  BY <1>0 DEF Finite, Handed
<1>3. bk[i].status # "retired"
  BY <1>0 DEF Handed, NextInLine, QueuedIn
<1>4. bk[j].status = "queued"
  BY <1>2, <1>3 DEF Ordered
<1>5. ~ (bk[j].user = u /\ NextInLine(bk, u, bk[j].line, j) /\ bk[j].line \in DueLines(bk, u, t))
  <2> SUFFICES ASSUME bk[j].user = u, NextInLine(bk, u, bk[j].line, j),
                      bk[j].line \in DueLines(bk, u, t)
               PROVE  FALSE
    OBVIOUS
  <2>1. i \notin QueuedIn(bk, u, bk[j].line)
    BY <1>2 DEF NextInLine
  <2>2. i \in InLine(bk, u, bk[j].line)
    BY <1>2 DEF InLine, Owned
  <2>3. bk[i].status = "active"
    <3>1. bk[i].status \in {"queued", "active", "retired"}
      BY RowFields DEF RowsOK, RowOK
    <3> QED BY <1>3, <2>1, <2>2, <3>1 DEF QueuedIn
  <2>4. next[i] = [bk[i] EXCEPT !.status = "retired"]
    BY <1>2, <2>1, <2>3 DEF HandOver, NextInLine, next
  <2>5. next[i].status = "retired"
    <3>1. bk[i] \in BucketRow
      BY DEF RowsOK, RowOK
    <3> QED BY <2>4, <3>1 DEF BucketRow
  <2> QED BY <2>5
<1>6. next[j] = bk[j]
  BY <1>0, <1>4, <1>5 DEF Handed
<1> QED BY <1>4, <1>6

\* An operation that leaves the queue alone
LEMMA SteadyOrders ==
    ASSUME NEW bk, NEW next, NEW t, Follows(bk, next, t), Steadies(bk, next), Ordered(bk)
    PROVE  Ordered(next)
BY DEF Follows, Evolves, Steadies, Steady, Ordered

\* advanceUserQueues serves a line in order
LEMMA AdvanceOrders ==
    ASSUME NEW bk, NEW t \in Nat, NEW s \in Nat, t <= s, RowsOK(bk, s), Finite(bk), NEW u,
           Ordered(bk)
    PROVE  Ordered(Advance(bk, u, t, s))
<1> DEFINE handed == HandOver(bk, u, t, s)
<1>1. Follows(bk, handed, s) /\ Ordered(handed)
  BY HandOverFollows, HandOverOrders
<1>2. Advance(bk, u, t, s) = RefreshLimits(handed, Owned(handed, u))
  BY DEF Advance
<1> HIDE DEF handed
<1>3. RowsOK(handed, s)
  BY <1>1, FollowsOK
<1>4. /\ Tends(handed, RefreshLimits(handed, Owned(handed, u)))
      /\ Follows(handed, RefreshLimits(handed, Owned(handed, u)), s)
  BY <1>3, RefreshTends, RefreshFollows
<1> QED BY <1>1, <1>2, <1>4, SteadyOrders DEF Tends

\* A new bucket waits behind all others
LEMMA WithOrders ==
    ASSUME NEW bk, NEW id \in Nat, NEW row, DOMAIN bk \subseteq 1..(id - 1), Ordered(bk),
           row.kind = "plan" => row.status = "queued"
    PROVE  Ordered(With(bk, id, row))
<1> DEFINE next == With(bk, id, row)
<1> SUFFICES ASSUME NEW i \in DOMAIN next, NEW j \in DOMAIN next,
                    next[i].kind = "plan", next[j].kind = "plan",
                    next[i].user = next[j].user, next[i].line = next[j].line,
                    i < j, next[i].status # "retired"
             PROVE  next[j].status = "queued"
  BY DEF Ordered
<1>1. i \in DOMAIN bk \cup {id} /\ j \in DOMAIN bk \cup {id}
  BY DEF With
<1>2. i # id /\ i \in DOMAIN bk
  BY <1>1
<1>3. next[i] = bk[i] /\ next[j] = IF j = id THEN row ELSE bk[j]
  BY <1>1, <1>2 DEF With
<1> HIDE DEF next
<1> QED BY <1>1, <1>2, <1>3 DEF Ordered

------------------------------------------------------------------------------
(* What was bought is served                                                 *)

Spent(b, t) == ~NotExpired(b, t) \/ (b.pdays = 0 /\ ~HasQuota(b))

HonouredRow(b, t) ==
    b.kind = "plan" =>
        /\ b.status = "queued" => b.expiry = 0
        /\ b.status = "retired" => Spent(b, t)

Honoured(bk, t) == \A i \in DOMAIN bk : HonouredRow(bk[i], t)

\* What is spent stays so
LEMMA SpentAges ==
    ASSUME NEW bk, NEW t \in Nat, NEW s \in Nat, t <= s, RowsOK(bk, t), Honoured(bk, t)
    PROVE  Honoured(bk, s)
<1> SUFFICES ASSUME NEW i \in DOMAIN bk PROVE HonouredRow(bk[i], s)
  BY DEF Honoured
<1>1. bk[i].expiry \in Int
  BY RowFields DEF RowsOK, RowOK
<1> QED BY <1>1 DEF Honoured, HonouredRow, Spent, NotExpired

\* A steady change retires nobody, so that paid time stays honoured
LEMMA SteadyHonours ==
    ASSUME NEW bk, NEW next, NEW t, RowsOK(bk, t), Follows(bk, next, t), Steadies(bk, next),
           Honoured(bk, t)
    PROVE  Honoured(next, t)
<1> SUFFICES ASSUME NEW i \in DOMAIN next, next[i].kind = "plan" PROVE HonouredRow(next[i], t)
  BY DEF Honoured, HonouredRow
<1>1. /\ i \in DOMAIN bk /\ bk[i].kind = "plan" /\ Steady(bk[i], next[i])
      /\ bk[i] \in BucketRow /\ next[i] \in BucketRow
  BY DEF Follows, Evolves, Steadies, RowsOK, RowOK
<1>2. /\ bk[i].limit \in Nat /\ next[i].limit \in Nat
      /\ bk[i].used \in Nat /\ next[i].used \in Nat
  BY <1>1, RowFields
<1>3. HonouredRow(bk[i], t)
  BY <1>1 DEF Honoured
<1>4. next[i].status = "queued" => next[i].expiry = 0
  BY <1>1, <1>3 DEF HonouredRow, Steady
<1>5. next[i].status = "retired" => Spent(next[i], t)
  BY <1>1, <1>2, <1>3 DEF HonouredRow, Steady, Spent, HasQuota, NotExpired
<1> QED BY <1>4, <1>5 DEF HonouredRow

\* A handover, however late its timestamp, retires only a head that is spent
LEMMA HandOverHonours ==
    ASSUME NEW bk, NEW t \in Nat, NEW s \in Nat, t <= s, RowsOK(bk, s), NEW u, Honoured(bk, s)
    PROVE  Honoured(HandOver(bk, u, t, s), s)
<1> DEFINE next == HandOver(bk, u, t, s)
<1>1. DOMAIN next = DOMAIN bk
  BY DEF HandOver
<1> SUFFICES ASSUME NEW i \in DOMAIN bk, next[i].kind = "plan" PROVE HonouredRow(next[i], s)
  BY <1>1 DEF Honoured, HonouredRow
<1> DEFINE b == bk[i]
<1>2. Handed(bk, u, t, s, i, next[i]) /\ HonouredRow(b, s) /\ b \in BucketRow
  BY HandOverRows DEF Honoured, RowsOK, RowOK
<1> HIDE DEF next
<1>3. CASE next[i] = b
  BY <1>2, <1>3
<1>4. CASE next[i].status = "active"
  BY <1>4 DEF HonouredRow
<1>5. CASE /\ b.kind = "plan" /\ b.user = u /\ b.line \in DueLines(bk, u, t)
           /\ b.status = "active" /\ next[i] = [b EXCEPT !.status = "retired"]
  <2>1. i \in InLine(bk, u, b.line)
    BY <1>5 DEF InLine, Owned
  <2>2. ~UsableHead(b, t)
    BY <1>5, <2>1 DEF DueLines, SlotFree
  <2>3. b.expiry \in Int /\ b.pdays \in Nat
    BY <1>2, RowFields, PeriodDaysAssumption
  <2>4. Spent(b, s)
    BY <1>5, <2>2, <2>3 DEF UsableHead, Spent, NotExpired
  <2>5. /\ next[i].status = "retired" /\ next[i].expiry = b.expiry /\ next[i].pdays = b.pdays
        /\ next[i].limit = b.limit /\ next[i].used = b.used
    BY <1>2, <1>5 DEF BucketRow
  <2> HIDE DEF b
  <2> QED BY <2>4, <2>5 DEF HonouredRow, Spent, NotExpired, HasQuota
<1> QED BY <1>2, <1>3, <1>4, <1>5 DEF Handed

\* advanceUserQueues honours paid time
LEMMA AdvanceHonours ==
    ASSUME NEW bk, NEW t \in Nat, NEW s \in Nat, t <= s, RowsOK(bk, s), Finite(bk), NEW u,
           Honoured(bk, s)
    PROVE  Honoured(Advance(bk, u, t, s), s)
<1> DEFINE handed == HandOver(bk, u, t, s)
<1>1. Follows(bk, handed, s) /\ Honoured(handed, s)
  BY HandOverFollows, HandOverHonours
<1>2. Advance(bk, u, t, s) = RefreshLimits(handed, Owned(handed, u))
  BY DEF Advance
<1> HIDE DEF handed
<1>3. RowsOK(handed, s)
  BY <1>1, FollowsOK
<1>4. /\ Tends(handed, RefreshLimits(handed, Owned(handed, u)))
      /\ Follows(handed, RefreshLimits(handed, Owned(handed, u)), s)
  BY <1>3, RefreshTends, RefreshFollows
<1> QED BY <1>1, <1>2, <1>3, <1>4, SteadyHonours DEF Tends

\* A new bucket waits, so that paid time stays honoured
LEMMA WithHonours ==
    ASSUME NEW bk, NEW t, NEW id, NEW row, Honoured(bk, t),
           row.kind = "plan" => row.status = "queued" /\ row.expiry = 0
    PROVE  Honoured(With(bk, id, row), t)
BY DEF Honoured, HonouredRow, With

------------------------------------------------------------------------------
(* The renewal choice of a line                                              *)

\* RenewalChoiceIsUniform of any table
Uniform(bk) ==
    \A i, j \in DOMAIN bk :
        /\ bk[i].kind = "plan" /\ bk[j].kind = "plan"
        /\ bk[i].status # "retired" /\ bk[j].status # "retired"
        /\ bk[i].user = bk[j].user /\ bk[i].line = bk[j].line
        => bk[i].renew = bk[j].renew

\* A steady change leaves the renewal choices uniform
LEMMA SteadyAgrees ==
    ASSUME NEW bk, NEW next, NEW t, Follows(bk, next, t), Steadies(bk, next), Uniform(bk)
    PROVE  Uniform(next)
BY DEF Follows, Evolves, Steadies, Steady, Uniform

\* A handover leaves the renewal choices uniform
LEMMA HandOverAgrees ==
    ASSUME NEW bk, NEW t, NEW s, RowsOK(bk, s), NEW u, Uniform(bk)
    PROVE  Uniform(HandOver(bk, u, t, s))
<1> DEFINE next == HandOver(bk, u, t, s)
<1>1. DOMAIN next = DOMAIN bk
  BY DEF HandOver
<1>2. ASSUME NEW i \in DOMAIN bk, next[i].kind = "plan", next[i].status # "retired"
      PROVE  /\ bk[i].kind = "plan" /\ bk[i].status # "retired" /\ next[i].user = bk[i].user
             /\ next[i].line = bk[i].line /\ next[i].renew = bk[i].renew
  <2>1. Handed(bk, u, t, s, i, next[i])
    BY HandOverRows
  <2> HIDE DEF next
  <2> QED BY <1>2, <2>1 DEF Handed, NextInLine, QueuedIn
<1> HIDE DEF next
<1>3. Uniform(next)
  BY <1>1, <1>2 DEF Uniform
<1> QED BY <1>3 DEF next

\* advanceUserQueues leaves the renewal choices uniform
LEMMA AdvanceAgrees ==
    ASSUME NEW bk, NEW t \in Nat, NEW s \in Nat, t <= s, RowsOK(bk, s), Finite(bk), NEW u,
           Uniform(bk)
    PROVE  Uniform(Advance(bk, u, t, s))
<1> DEFINE handed == HandOver(bk, u, t, s)
<1>1. Follows(bk, handed, s) /\ Uniform(handed)
  BY HandOverFollows, HandOverAgrees
<1>2. Advance(bk, u, t, s) = RefreshLimits(handed, Owned(handed, u))
  BY DEF Advance
<1> HIDE DEF handed
<1>3. RowsOK(handed, s)
  BY <1>1, FollowsOK
<1>4. /\ Tends(handed, RefreshLimits(handed, Owned(handed, u)))
      /\ Follows(handed, RefreshLimits(handed, Owned(handed, u)), s)
  BY <1>3, RefreshTends, RefreshFollows
<1> QED BY <1>1, <1>2, <1>4, SteadyAgrees DEF Tends

\* A new bucket takes over the choice of its line
LEMMA WithAgrees ==
    ASSUME NEW bk, NEW id, NEW row, Finite(bk), Uniform(bk), id \notin DOMAIN bk,
           row.kind = "plan" => row.renew = InheritedRenew(bk, row.user, row.line)
    PROVE  Uniform(With(bk, id, row))
<1> DEFINE live == LiveIn(bk, row.user, row.line)
<1>1. ASSUME row.kind = "plan", NEW j \in DOMAIN bk, bk[j].kind = "plan",
             bk[j].status # "retired", bk[j].user = row.user, bk[j].line = row.line
      PROVE  bk[j].renew = row.renew
  <2>1. j \in live
    BY <1>1 DEF LiveIn, InLine, Owned
  <2>2. live \in SUBSET DOMAIN bk /\ live # {}
    BY <2>1 DEF LiveIn, InLine, Owned
  <2>3. row.renew = bk[Max(live)].renew
    BY <1>1, <2>2 DEF InheritedRenew
  <2>4. \A k \in live : /\ k \in DOMAIN bk /\ bk[k].kind = "plan" /\ bk[k].status # "retired"
                         /\ bk[k].user = row.user /\ bk[k].line = row.line
    BY DEF LiveIn, InLine, Owned
  <2> HIDE DEF live
  <2>5. Max(live) \in live
    BY <2>2, NewestIsOne
  <2> QED BY <1>1, <2>3, <2>4, <2>5 DEF Uniform
<1> DEFINE next == With(bk, id, row)
<1>2. /\ DOMAIN next = DOMAIN bk \cup {id} /\ next[id] = row
      /\ \A j \in DOMAIN bk : next[j] = bk[j]
  BY DEF With
<1> HIDE DEF next, live
<1>3. Uniform(next)
  BY <1>1, <1>2 DEF Uniform
<1> QED BY <1>3 DEF next

\* SetPlanAutoRenew's UPDATE
Switched(bk, u, l, e) ==
    [i \in DOMAIN bk |-> IF i \in LiveIn(bk, u, l) THEN [bk[i] EXCEPT !.renew = e] ELSE bk[i]]

\* Switching a whole line leaves the renewal choices uniform
LEMMA SwitchedAgrees ==
    ASSUME NEW bk, NEW t, RowsOK(bk, t), NEW u, NEW l, NEW e, Uniform(bk)
    PROVE  Uniform(Switched(bk, u, l, e))
<1> DEFINE next == Switched(bk, u, l, e)
<1>1. DOMAIN next = DOMAIN bk
  BY DEF Switched
<1>2. ASSUME NEW i \in DOMAIN bk
      PROVE  /\ next[i].kind = bk[i].kind /\ next[i].user = bk[i].user
             /\ next[i].line = bk[i].line /\ next[i].status = bk[i].status
             /\ next[i].renew = IF i \in LiveIn(bk, u, l) THEN e ELSE bk[i].renew
  <2>1. bk[i] \in BucketRow
    BY DEF RowsOK, RowOK
  <2>2. next[i] = IF i \in LiveIn(bk, u, l) THEN [bk[i] EXCEPT !.renew = e] ELSE bk[i]
    BY DEF Switched
  <2> HIDE DEF next
  <2> QED BY <2>1, <2>2 DEF BucketRow
<1>3. ASSUME NEW i \in DOMAIN bk, bk[i].kind = "plan", bk[i].status # "retired"
      PROVE  i \in LiveIn(bk, u, l) <=> bk[i].user = u /\ bk[i].line = l
  BY <1>3 DEF LiveIn, InLine, Owned
<1> HIDE DEF next
<1>4. Uniform(next)
  BY <1>1, <1>2, <1>3 DEF Uniform
<1> QED BY <1>4 DEF next

------------------------------------------------------------------------------
(* Shares                                                                    *)

\* A promoted bucket starts with its share, less what its line owes
LEMMA PromoteShares ==
    ASSUME NEW b \in BucketRow, NEW s, b.kind = "plan" => PlanRow(b, s), NEW t,
           NEW carry \in Nat, ShareRow(b)
    PROVE  ShareRow(Promote(b, t, carry))
<1> DEFINE row == Promote(b, t, carry)
           first == Larger(b.quota - carry, 0)
<1>1. b.quota \in Nat /\ b.base \in Nat /\ b.limit \in Nat
  BY RowFields
<1>2. first \in Nat /\ first <= b.quota
  BY <1>1 DEF Larger
<1>3. /\ row.kind = b.kind /\ row.pkg = b.pkg /\ row.pdays = b.pdays /\ row.quota = b.quota
      /\ row.adv = b.adv
      /\ row.base = IF b.pdays > 0 THEN first ELSE b.base
      /\ row.limit = IF b.pdays > 0 THEN first ELSE b.limit
  BY DEF Promote, BucketRow
<1>4. b.pdays = 0 \/ b.pdays > 0
  BY RowFields, PeriodDaysAssumption
<1>5. b.kind = "plan" => Catalog[b.pkg].traffic \in Nat
  BY CatalogAssumption DEF PlanRow
<1> HIDE DEF row, first
<1>6. CASE b.pdays = 0
  BY <1>1, <1>3, <1>5, <1>6 DEF ShareRow, WithinTraffic, row
<1>7. CASE b.pdays > 0
  BY <1>1, <1>2, <1>3, <1>5, <1>7 DEF ShareRow, WithinTraffic, row
<1> QED BY <1>4, <1>6, <1>7

\* A handover gives no bucket more than its order's traffic
LEMMA HandOverShares ==
    ASSUME NEW bk, NEW t, NEW s, RowsOK(bk, s), Finite(bk), NEW u, Shares(bk)
    PROVE  Shares(HandOver(bk, u, t, s))
<1> DEFINE next == HandOver(bk, u, t, s)
<1>1. DOMAIN next = DOMAIN bk
  BY DEF HandOver
<1>2. ASSUME NEW i \in DOMAIN bk PROVE ShareRow(next[i])
  <2> DEFINE b == bk[i]
             carry == Borrowed(bk, u, b.line, i, s)
  <2>1. /\ Handed(bk, u, t, s, i, next[i]) /\ ShareRow(b) /\ b \in BucketRow
        /\ b.kind = "plan" => PlanRow(b, s)
    BY HandOverRows DEF Shares, RowsOK, RowOK
  <2>2. carry \in Nat
    BY BorrowedIsNat
  <2> HIDE DEF next, carry
  <2>3. CASE next[i] = b
    BY <2>1, <2>3
  <2>4. CASE next[i] = Promote(b, t, carry)
    BY <2>1, <2>2, <2>4, PromoteShares
  <2>5. CASE b.status = "active" /\ next[i] = [b EXCEPT !.status = "retired"]
    <3>1. /\ next[i].kind = b.kind /\ next[i].pkg = b.pkg /\ next[i].pdays = b.pdays
          /\ next[i].quota = b.quota /\ next[i].adv = b.adv /\ next[i].limit = b.limit
          /\ next[i].status = "retired"
      BY <2>1, <2>5 DEF BucketRow
    <3> QED BY <2>1, <3>1 DEF ShareRow, WithinTraffic
  <2> QED BY <2>1, <2>3, <2>4, <2>5 DEF Handed, carry
<1> QED BY <1>1, <1>2 DEF Shares

\* advanceUserQueues gives no bucket more than its order's traffic
LEMMA AdvanceShares ==
    ASSUME NEW bk, NEW t \in Nat, NEW s \in Nat, t <= s, RowsOK(bk, s), Finite(bk), NEW u,
           Shares(bk)
    PROVE  Shares(Advance(bk, u, t, s))
<1> DEFINE handed == HandOver(bk, u, t, s)
<1>1. Follows(bk, handed, s) /\ Shares(handed)
  BY HandOverFollows, HandOverShares
<1>2. Advance(bk, u, t, s) = RefreshLimits(handed, Owned(handed, u))
  BY DEF Advance
<1> HIDE DEF handed
<1>3. Tends(handed, RefreshLimits(handed, Owned(handed, u)))
  BY <1>1, FollowsOK, RefreshTends
<1> QED BY <1>1, <1>2, <1>3 DEF Tends

\* A new bucket holds no more than its order paid for
LEMMA QueuedPlanShares ==
    ASSUME NEW bk, NEW s, RowsOK(bk, s), Finite(bk), Shares(bk), NEW u, NEW p \in Packages,
           NEW l, NEW o
    PROVE  ShareRow(QueuedPlan(bk, u, p, l, o))
<1> DEFINE monthly == {i \in LiveIn(bk, u, l) : bk[i].pdays > 0}
           row == QueuedPlan(bk, u, p, l, o)
<1>1. SharesStayWhole => InheritedAdvance(bk, u, l) = FollowPackage
  <2>1. CASE monthly = {}
    BY <2>1 DEF InheritedAdvance
  <2>2. CASE monthly # {}
    <3>1. monthly \in SUBSET DOMAIN bk /\ \A i \in monthly : bk[i].kind = "plan"
      BY DEF LiveIn, InLine, Owned
    <3>2. InheritedAdvance(bk, u, l) = bk[Max(monthly)].adv
      BY <2>2 DEF InheritedAdvance
    <3> HIDE DEF monthly
    <3>3. Max(monthly) \in monthly
      BY <2>2, <3>1, NewestIsOne
    <3> QED BY <3>1, <3>2, <3>3 DEF Shares, ShareRow, WithinTraffic
  <2> QED BY <2>1, <2>2
<1>2. /\ Catalog[p].traffic \in Nat /\ PeriodQuota(p) \in Nat /\ PeriodQuota(p) <= Catalog[p].traffic
  BY CatalogAssumption, PeriodQuotaIsAShare
<1>3. /\ row.pkg = p /\ row.kind = "plan" /\ row.status = "queued"
      /\ row.quota = IF Monthly(p) THEN PeriodQuota(p) ELSE 0
      /\ row.limit = IF Monthly(p) THEN row.quota ELSE Catalog[p].traffic
      /\ row.adv = IF Monthly(p) THEN InheritedAdvance(bk, u, l) ELSE FollowPackage
  BY DEF QueuedPlan
<1> HIDE DEF row, monthly
<1> QED BY <1>1, <1>2, <1>3 DEF ShareRow, WithinTraffic, row

\* A new bucket with no more than its order's traffic can be inserted
LEMMA WithShares ==
    ASSUME NEW bk, NEW id, NEW row, Shares(bk), ShareRow(row)
    PROVE  Shares(With(bk, id, row))
BY DEF Shares, With

------------------------------------------------------------------------------
(* What a step does to the queue                                             *)

\* An operation rewrites or removes rows without touching the queue,
Settled(m) == Follows(buckets, m, now) /\ Tends(buckets, m)

\* or adds one at its end, in the line the package has now or had when an
\* administrator's grant read it;
Placed(m) ==
    \E row :
        /\ RowOK(row, now) /\ m = With(buckets, nextBucket, row)
        /\ Shares(buckets) => ShareRow(row)
        /\ row.kind = "plan" =>
              /\ row.status = "queued" /\ row.expiry = 0
              /\ row.renew = InheritedRenew(buckets, row.user, row.line)
              /\ \/ row.line = pkgs[row.pkg].line
                 \/ \E g \in grant : g.pkg = row.pkg /\ row.line = g.line

\* then the queue may be advanced
Ran(m, next) ==
    next = m \/ \E u, t : t \in Nat /\ t <= now /\ next = Advance(m, u, t, now)

\* A refund takes its traffic and time from another order's bucket
ClawsBack ==
    \E i \in DOMAIN buckets :
        /\ buckets[i].kind = "plan"
        /\ buckets' = [buckets EXCEPT ![i] = Clawed(buckets[i], buckets[i].pkg, now)]
        /\ Shares(buckets) =>
              ~SharesStayWhole /\ ShareRow(Clawed(buckets[i], buckets[i].pkg, now))
        /\ "refund" \in Exercised \/ retire # {}

Switches == \E u, l, e : buckets' = Switched(buckets, u, l, e)

Runs == \E m : (Settled(m) \/ Placed(m)) /\ Ran(m, buckets')

Moves == \E e \in edit, price \in NewPrices, l \in NewLines : EditSave(e, price, l)

LinesKept == \A p \in Packages : pkgs'[p].line = pkgs[p].line

QueueMove == Moves \/ (LinesKept /\ (Runs \/ Switches \/ ClawsBack))

\* The table as it is is settled
LEMMA StillSettled ==
    ASSUME TableInv
    PROVE  Settled(buckets)
BY Unchanged, NothingTends DEF Settled, Follows, RowsOK, TableInv

\* A step that leaves the table alone runs nothing
LEMMA StillRuns ==
    ASSUME TableInv, UNCHANGED buckets
    PROVE  Runs
BY StillSettled DEF Runs, Ran

\* A settled table that is advanced, or not, is a run
LEMMA SettledRuns ==
    ASSUME TableInv, NEW m, Settled(m), Ran(m, buckets')
    PROVE  Runs
BY DEF Runs

\* A transaction that changes a settled table and advances it is a run
LEMMA ChangeRuns ==
    ASSUME TableInv, NEW m, NEW u, Settled(m), ChangeTable(m, u)
    PROVE  Runs
BY TableFacts DEF Runs, Ran, ChangeTable

\* A table some rows were removed from is settled
LEMMA WithoutSettled ==
    ASSUME TableInv, NEW ids
    PROVE  Settled(Without(buckets, ids))
BY WithoutFollows, WithoutTends DEF Settled, TableInv

\* More or less shared traffic
LEMMA PoolSettled ==
    ASSUME TableInv, NEW i \in DOMAIN buckets, buckets[i].kind # "plan", NEW limit \in Nat
    PROVE  Settled([buckets EXCEPT ![i].limit = limit])
<1> DEFINE b == buckets[i]
           row == [b EXCEPT !.limit = limit]
<1>1. RowsOK(buckets, now) /\ RowOK(b, now) /\ b \in BucketRow
  BY DEF TableInv, RowsOK, RowOK
<1>2. RowOK(row, now) /\ Evolves(b, row)
  BY <1>1, LimitOK
<1>3. Steady(b, row) /\ ShareRow(row)
  BY <1>1 DEF Steady, ShareRow, RowOK, BucketRow
<1>4. [buckets EXCEPT ![i].limit = limit] = [buckets EXCEPT ![i] = row]
  OBVIOUS
<1> HIDE DEF row
<1>5. Follows(buckets, [buckets EXCEPT ![i] = row], now)
  BY <1>1, <1>2, RowFollows
<1>6. Tends(buckets, [buckets EXCEPT ![i] = row])
  BY <1>1, <1>3, RowTends
<1> QED BY <1>4, <1>5, <1>6 DEF Settled

\* Entitling a user is a run: a settled or a placed table, advanced
LEMMA EntitleRuns ==
    ASSUME TableInv, NEW u \in Users, NEW p \in Packages, NEW line \in STRING,
           NEW o \in Nat, NEW t \in Nat, t <= now, Entitle(u, p, line, o, t),
           line = pkgs[p].line \/ \E g \in grant : g.pkg = p /\ line = g.line
    PROVE  Runs
<1>0. RowsOK(buckets, now) /\ Finite(buckets)
  BY TableFacts DEF TableInv
<1> DEFINE row == QueuedPlan(buckets, u, p, line, o)
           pools == PoolsOf(buckets, u)
           pool == Ancillary(u, "pool", Catalog[p].traffic)
           i == Min(pools)
           lim == buckets[i].limit + Catalog[p].traffic
<1>1. CASE Catalog[p].type = "plan"
  <2>1. buckets' = Advance(With(buckets, nextBucket, row), u, t, now)
    BY <1>1 DEF Entitle
  <2>2. RowOK(row, now) /\ (Shares(buckets) => ShareRow(row))
    BY <1>0, QueuedPlanOK, QueuedPlanShares
  <2>3. /\ row.kind = "plan" /\ row.status = "queued" /\ row.expiry = 0
        /\ row.user = u /\ row.line = line /\ row.pkg = p
        /\ row.renew = InheritedRenew(buckets, u, line)
    BY DEF QueuedPlan
  <2> HIDE DEF row
  <2>4. Placed(With(buckets, nextBucket, row))
    BY <2>2, <2>3 DEF Placed
  <2>5. Ran(With(buckets, nextBucket, row), buckets')
    BY <2>1 DEF Ran
  <2> QED BY <2>4, <2>5 DEF Runs
<1>2. CASE Catalog[p].type # "plan" /\ pools = {}
  <2>1. buckets' = With(buckets, nextBucket, pool)
    BY <1>2 DEF Entitle
  <2>2. Catalog[p].traffic \in Nat
    BY CatalogAssumption
  <2>3. RowOK(pool, now)
    BY <2>2, AncillaryOK
  <2>4. pool.kind = "pool"
    BY DEF Ancillary
  <2> HIDE DEF pool
  <2>5. Placed(With(buckets, nextBucket, pool))
    BY <2>3, <2>4 DEF Placed, ShareRow
  <2> QED BY <2>1, <2>5 DEF Runs, Ran
<1>3. CASE Catalog[p].type # "plan" /\ pools # {}
  <2>1. buckets' = [buckets EXCEPT ![i].limit = lim]
    BY <1>3 DEF Entitle
  <2>2. i \in DOMAIN buckets /\ buckets[i].kind # "plan"
    <3>1. pools \in SUBSET DOMAIN buckets /\ \A j \in pools : buckets[j].kind = "pool"
      BY DEF PoolsOf, Owned
    <3> HIDE DEF pools
    <3>2. Min(pools) \in pools
      BY <1>0, <1>3, <3>1, NewestIsOne
    <3> QED BY <3>1, <3>2
  <2> HIDE DEF i, pools
  <2>3. lim \in Nat
    <3>1. buckets[i].limit \in Nat /\ Catalog[p].traffic \in Nat
      BY <1>0, <2>2, RowFields, CatalogAssumption DEF RowsOK, RowOK
    <3> QED BY <3>1
  <2> HIDE DEF lim
  <2>4. Settled([buckets EXCEPT ![i].limit = lim])
    BY <2>2, <2>3, PoolSettled
  <2> QED BY <2>1, <2>4 DEF Runs, Ran
<1> QED BY <1>1, <1>2, <1>3

\* A bucket that holds no more than its order is removed, not clawed back
LEMMA ClawedShares ==
    ASSUME NEW b, NEW t \in Nat, RowOK(b, t), b.kind = "plan", ShareRow(b),
           ~ (/\ Larger(b.limit - Catalog[b.pkg].traffic, Larger(b.used, 0)) <= b.used
              /\ b.expiry - Catalog[b.pkg].dur <= t)
    PROVE  ~SharesStayWhole /\ ShareRow(Clawed(b, b.pkg, t))
<1>1. b \in BucketRow /\ PlanRow(b, t)
  BY DEF RowOK
<1>2. /\ b.limit \in Nat /\ b.used \in Nat /\ b.expiry \in Int /\ b.dur \in Nat
      /\ Catalog[b.pkg].traffic \in Nat /\ Catalog[b.pkg].dur = b.dur
  BY <1>1, RowFields, CatalogAssumption DEF PlanRow
<1>3. b.expiry - Catalog[b.pkg].dur <= t
  BY <1>1, <1>2 DEF PlanRow
<1>4. ~ (b.limit <= Catalog[b.pkg].traffic)
  BY <1>2, <1>3 DEF Larger
<1>5. ~SharesStayWhole /\ ~ (NoTopUps /\ b.pdays = 0)
  BY <1>4 DEF ShareRow, WithinTraffic
<1>6. Clawed(b, b.pkg, t).pdays = b.pdays
  BY <1>1 DEF Clawed, BucketRow
<1> QED BY <1>5, <1>6 DEF ShareRow

\* reversePlanBucket is a run, or it claws back
LEMMA ReversePlanRuns ==
    ASSUME TableInv, NEW u, NEW p, buckets' = ReversePlan(buckets, u, p, now),
           "refund" \in Exercised \/ retire # {}
    PROVE  Runs \/ ClawsBack
<1>1. RowsOK(buckets, now) /\ now \in Nat /\ Finite(buckets)
  BY TableFacts DEF TableInv
<1>2. CASE ReversePlan(buckets, u, p, now) = buckets
  BY <1>2, StillRuns
<1>3. ASSUME NEW i \in PlansOf(buckets, u, p), ReversePlan(buckets, u, p, now) = Without(buckets, {i})
      PROVE  Runs
  BY <1>3, WithoutSettled DEF Runs, Ran
<1>4. ASSUME NEW i \in PlansOf(buckets, u, p),
             ReversePlan(buckets, u, p, now) = [buckets EXCEPT ![i] = Clawed(buckets[i], p, now)],
             ~ (/\ Larger(buckets[i].limit - Catalog[p].traffic, Larger(buckets[i].used, 0))
                       <= buckets[i].used
                /\ buckets[i].expiry - Catalog[p].dur <= now)
      PROVE  ClawsBack
  <2>1. i \in DOMAIN buckets /\ buckets[i].kind = "plan" /\ buckets[i].pkg = p
    BY DEF PlansOf, Owned
  <2>2. RowOK(buckets[i], now)
    BY <1>1, <2>1 DEF RowsOK
  <2>3. Shares(buckets) => ShareRow(buckets[i])
    BY <2>1 DEF Shares
  <2>4. Shares(buckets) =>
           ~SharesStayWhole /\ ShareRow(Clawed(buckets[i], buckets[i].pkg, now))
    BY <1>1, <1>4, <2>1, <2>2, <2>3, ClawedShares
  <2> QED BY <1>4, <2>1, <2>4 DEF ClawsBack
<1> QED BY <1>1, <1>2, <1>3, <1>4, ReversePlanCases

\* A refund is a run, or it claws back
LEMMA RefundRuns ==
    ASSUME TableInv, BookTypeOK, NEW o \in DOMAIN orders, NEW mode, RefundTx(o, mode),
           "refund" \in Exercised \/ retire # {}
    PROVE  Runs \/ ClawsBack
<1>1. RowsOK(buckets, now) /\ now \in Nat /\ now <= now /\ Finite(buckets)
  BY TableFacts DEF TableInv
<1> DEFINE u == orders[o].user
           p == orders[o].pkg
           own == OfOrder(buckets, u, o)
           less == Without(buckets, {Min(own)})
           pools == PoolsOf(buckets, u)
           i == Min(pools)
           lim == Larger(buckets[i].limit - Catalog[p].traffic, Larger(buckets[i].used, 0))
<1>2. p \in Packages /\ Catalog[p].traffic \in Nat
  BY OrderTyped, CatalogAssumption DEF OrderRow
<1>3. buckets' \in {ReversePlan(buckets, u, p, now), Advance(less, u, now, now),
                   ReversePool(buckets, u, Catalog[p].traffic)}
  BY DEF RefundTx, ReverseOrder
<1> HIDE DEF u, p
<1>4. CASE buckets' = ReversePlan(buckets, u, p, now)
  BY <1>4, ReversePlanRuns
<1>5. CASE buckets' = Advance(less, u, now, now)
  <2>1. Settled(less)
    BY WithoutSettled
  <2>2. Ran(less, buckets')
    BY <1>1, <1>5 DEF Ran
  <2> QED BY <2>1, <2>2 DEF Runs
<1>6. CASE buckets' = ReversePool(buckets, u, Catalog[p].traffic)
  <2>1. CASE pools = {}
    BY <1>6, <2>1, StillRuns DEF ReversePool
  <2>2. CASE pools # {}
    <3>1. buckets' = [buckets EXCEPT ![i].limit = lim]
      BY <1>6, <2>2 DEF ReversePool
    <3>2. i \in DOMAIN buckets /\ buckets[i].kind # "plan"
      <4>1. pools \in SUBSET DOMAIN buckets /\ \A j \in pools : buckets[j].kind = "pool"
        BY DEF PoolsOf, Owned
      <4> HIDE DEF pools
      <4>2. Min(pools) \in pools
        BY <1>1, <2>2, <4>1, NewestIsOne
      <4> QED BY <4>1, <4>2
    <3> HIDE DEF i, pools
    <3>3. lim \in Nat
      BY <1>1, <1>2, <3>2, RowFields DEF RowsOK, RowOK, Larger
    <3> HIDE DEF lim
    <3>4. Settled([buckets EXCEPT ![i].limit = lim])
      BY <3>2, <3>3, PoolSettled
    <3> QED BY <3>1, <3>4 DEF Runs, Ran
  <2> QED BY <2>1, <2>2
<1> QED BY <1>3, <1>4, <1>5, <1>6

\* An administrator's change of a bucket's traffic is a run
LEMMA AdjustRuns ==
    ASSUME TableInv, NEW i \in DOMAIN buckets, NEW d \in TrafficDeltas, AdjustBucketTraffic(i, d)
    PROVE  Runs
<1> DEFINE b == buckets[i]
           limit == b.limit + d
           base == IF b.pdays > 0 /\ b.status = "active" THEN Larger(b.base + d, 0) ELSE b.base
           quota == IF b.pdays > 0 /\ b.status = "queued" THEN limit ELSE b.quota
           row == [b EXCEPT !.limit = limit, !.base = base, !.quota = quota]
<1>1. RowsOK(buckets, now) /\ RowOK(b, now) /\ b \in BucketRow
  BY DEF TableInv, RowsOK, RowOK
<1>2. /\ b.limit \in Nat /\ b.base \in Nat /\ b.quota \in Nat /\ b.used \in Nat
      /\ b.life \in Nat /\ d \in Int
  BY <1>1, RowFields, AmountsAssumption
<1>3. /\ limit >= 0 /\ ChangeTable([buckets EXCEPT ![i] = row], b.user)
      /\ b.status # "retired"
  BY DEF AdjustBucketTraffic
<1>4. limit \in Nat
  BY <1>2, <1>3
<1>5. base \in Nat /\ (d <= 0 /\ b.pdays > 0 /\ b.status = "active" /\ b.base <= b.quota
                       => base <= b.quota)
  BY <1>2 DEF Larger
<1>6. quota = limit \/ quota = b.quota
  OBVIOUS
<1>7. b.status = "active" => quota = b.quota
  OBVIOUS
<1>8. NoTopUps => d <= 0 /\ limit <= b.limit
  BY <1>2 DEF NoTopUps
<1> HIDE DEF limit, base, quota
<1>9. row \in BucketRow
  BY <1>1, <1>4, <1>5, <1>6 DEF BucketRow
<1>10. /\ row.pkg = b.pkg /\ row.dur = b.dur /\ row.status = b.status /\ row.kind = b.kind
       /\ row.user = b.user /\ row.order = b.order /\ row.line = b.line /\ row.expiry = b.expiry
       /\ row.life = b.life /\ row.used = b.used /\ row.pdays = b.pdays /\ row.renew = b.renew
       /\ row.adv = b.adv /\ row.limit = limit /\ row.base = base /\ row.quota = quota
  BY <1>1 DEF BucketRow
<1> HIDE DEF row
<1>11. RowOK(row, now) /\ Evolves(b, row)
  BY <1>1, <1>2, <1>9, <1>10 DEF RowOK, PlanRow, Evolves
<1>12. Steady(b, row)
  BY <1>3, <1>10 DEF Steady
<1>13. ShareRow(b) => ShareRow(row)
  <2> SUFFICES ASSUME ShareRow(b), b.kind = "plan" PROVE ShareRow(row)
    BY <1>10 DEF ShareRow
  <2>1. Catalog[b.pkg].traffic \in Nat
    BY <1>1, CatalogAssumption DEF RowOK, PlanRow
  <2>2. NoTopUps /\ b.pdays = 0 => limit <= Catalog[b.pkg].traffic
    BY <1>2, <1>4, <1>8, <2>1 DEF ShareRow
  <2>3. SharesStayWhole =>
           /\ limit <= Catalog[b.pkg].traffic /\ quota <= Catalog[b.pkg].traffic
           /\ b.adv = FollowPackage
    BY <1>2, <1>4, <1>6, <1>8, <2>1 DEF ShareRow, WithinTraffic, SharesStayWhole
  <2>4. SharesStayWhole /\ b.status = "active" /\ b.pdays > 0 => base <= quota
    BY <1>5, <1>7, <1>8 DEF ShareRow, WithinTraffic, SharesStayWhole
  <2> QED BY <1>10, <2>2, <2>3, <2>4 DEF ShareRow, WithinTraffic
<1>14. Settled([buckets EXCEPT ![i] = row])
  BY <1>1, <1>11, <1>12, <1>13, RowFollows, RowTends DEF Settled
<1> QED BY <1>3, <1>14, ChangeRuns

\* Metering is a run
LEMMA UsageRuns ==
    ASSUME TableInv, NEW i \in DOMAIN buckets, NEW d \in UsageDeltas, AddBucketUsage(i, d)
    PROVE  Runs
<1> DEFINE b == buckets[i]
           used == b.used + d
           row == [b EXCEPT !.used = used]
<1>1. RowsOK(buckets, now) /\ b \in BucketRow
  BY DEF TableInv, RowsOK, RowOK
<1>2. used \in Nat /\ used >= b.used
  BY <1>1, RowFields, AmountsAssumption
<1>3. Follows(buckets, buckets', now)
  BY UsageKeeps DEF Kept
<1>4. buckets' = [buckets EXCEPT ![i].used = used]
  BY DEF AddBucketUsage
<1>5. [buckets EXCEPT ![i].used = used] = [buckets EXCEPT ![i] = row]
  OBVIOUS
<1> HIDE DEF used
<1>6. /\ row.pkg = b.pkg /\ row.status = b.status /\ row.kind = b.kind /\ row.line = b.line
      /\ row.expiry = b.expiry /\ row.used = used /\ row.pdays = b.pdays /\ row.renew = b.renew
      /\ row.adv = b.adv /\ row.limit = b.limit /\ row.base = b.base /\ row.quota = b.quota
  BY <1>1 DEF BucketRow
<1> HIDE DEF row
<1>7. b.limit \in Nat
  BY <1>1, RowFields
<1>8. Steady(b, row) /\ (ShareRow(b) => ShareRow(row))
  BY <1>2, <1>6, <1>7 DEF Steady, ShareRow, WithinTraffic
<1>9. Tends(buckets, [buckets EXCEPT ![i] = row])
  BY <1>1, <1>8, RowTends
<1>10. Settled(buckets')
  BY <1>3, <1>4, <1>5, <1>9, Zenon DEF Settled
<1> QED BY <1>10 DEF Runs, Ran

\* A sale is a run, and leaves the packages' lines alone
LEMMA SellRuns ==
    ASSUME TableInv, BookTypeOK, ShopTypeOK, NEW u, NEW p, NEW type, NEW key,
           NEW t \in Nat, t <= now, Sellable(u, p), Sell(u, p, type, key, t)
    PROVE  Runs /\ LinesKept
<1>1. u \in Users /\ p \in Packages /\ Entitle(u, p, pkgs[p].line, Len(orders) + 1, t)
  BY DEF Sellable, Sell
<1>2. pkgs[p].line \in STRING
  BY <1>1 DEF ShopTypeOK, PackageRow
<1>3. Len(orders) + 1 \in Nat
  BY DEF BookTypeOK
<1>4. Runs
  BY <1>1, <1>2, <1>3, EntitleRuns
<1>5. LinesKept
  <2>1. PICK n : pkgs' = [pkgs EXCEPT ![p].stock = n]
    BY DEF Sell
  <2>2. ASSUME NEW q \in Packages PROVE pkgs'[q].line = pkgs[q].line
    <3>1. pkgs[q] \in PackageRow /\ DOMAIN pkgs = Packages
      BY DEF ShopTypeOK
    <3> QED BY <2>1, <3>1 DEF PackageRow
  <2> QED BY <2>2 DEF LinesKept
<1> QED BY <1>4, <1>5

\* What a step of Billing does to the queue, whatever it does besides
LEMMA QueueMoves ==
    ASSUME Typed, TableInv, [Next]_vars
    PROVE  QueueMove
<1> USE DEF Typed
<1>0. /\ now \in Nat /\ now <= now /\ RowsOK(buckets, now) /\ Finite(buckets)
      /\ sweep.at \in Nat /\ sweep.at <= now /\ \A v \in visit : v.at \in Nat /\ v.at <= now
  BY TableFacts DEF TableInv
<1>a. CASE UNCHANGED <<buckets, pkgs>>
  BY <1>a, StillRuns DEF QueueMove, LinesKept
<1>b. CASE Runs /\ pkgs' = pkgs
  BY <1>b DEF QueueMove, LinesKept
<1>c. ASSUME NEW p, NEW e, pkgs' = [pkgs EXCEPT ![p].enabled = e], buckets' = buckets
      PROVE  QueueMove
  <2>1. ASSUME NEW q \in Packages PROVE pkgs'[q].line = pkgs[q].line
    <3>1. pkgs[q] \in PackageRow /\ DOMAIN pkgs = Packages
      BY DEF ShopTypeOK
    <3> QED BY <1>c, <3>1 DEF PackageRow
  <2> QED BY <1>c, <2>1, StillRuns DEF QueueMove, LinesKept
<1>1. CASE UNCHANGED vars
  BY <1>1, <1>a DEF vars, table
<1>2. CASE ShopStep
  <2>1. ASSUME NEW r \in reqs, PurchaseSold(r) PROVE QueueMove
    BY <1>0, <2>1, SellRuns DEF PurchaseSold, QueueMove
  <2>2. ASSUME NEW u, NEW p, NEW k, ShopOpen(u, p, k) PROVE UNCHANGED <<buckets, pkgs>>
    BY <2>2 DEF ShopOpen, table
  <2>3. ASSUME NEW r \in reqs, PurchaseRefused(r) \/ PurchaseReplayed(r)
        PROVE  UNCHANGED <<buckets, pkgs>>
    BY <2>3 DEF PurchaseRefused, PurchaseReplayed, table
  <2> QED BY <1>2, <1>a, <2>1, <2>2, <2>3 DEF ShopStep
<1>3. CASE AccountStep
  <2>1. ASSUME NEW u, NEW p, AssignOpen(u, p) PROVE UNCHANGED <<buckets, pkgs>>
    BY <2>1 DEF AssignOpen, table
  <2>2. ASSUME NEW g \in grant, AssignPackage(g) PROVE Runs /\ pkgs' = pkgs
    <3>1. g.user \in Users /\ g.pkg \in Packages /\ g.line \in STRING /\ Len(orders) + 1 \in Nat
      BY DEF ShopTypeOK, BookTypeOK
    <3>2. Entitle(g.user, g.pkg, g.line, Len(orders) + 1, now) /\ pkgs' = pkgs
      BY <2>2 DEF AssignPackage
    <3> QED BY <1>0, <3>1, <3>2, EntitleRuns
  <2>3. ASSUME NEW u, NEW a, AdjustPoints(u, a) PROVE UNCHANGED <<buckets, pkgs>>
    BY <2>3 DEF AdjustPoints, table
  <2>4. ASSUME NEW o \in DOMAIN orders, NEW m, RefundOrder(o, m) PROVE QueueMove
    BY <2>4, RefundRuns DEF RefundOrder, QueueMove, LinesKept
  <2>5. ASSUME NEW i \in DOMAIN buckets, DeleteBucket(i) PROVE Runs /\ pkgs' = pkgs
    BY <2>5, WithoutSettled, ChangeRuns DEF DeleteBucket
  <2>6. ASSUME NEW i \in DOMAIN buckets, NEW d \in TrafficDeltas, AdjustBucketTraffic(i, d)
        PROVE  Runs /\ pkgs' = pkgs
    BY <2>6, AdjustRuns DEF AdjustBucketTraffic
  <2>7. ASSUME NEW i \in DOMAIN buckets, NEW e \in BOOLEAN, SetPlanAutoRenew(i, e)
        PROVE  Switches /\ pkgs' = pkgs
    <3>1. buckets' = Switched(buckets, buckets[i].user, buckets[i].line, e) /\ pkgs' = pkgs
      BY <2>7 DEF SetPlanAutoRenew, Switched
    <3> QED BY <3>1 DEF Switches
  <2>8. ASSUME Switches, pkgs' = pkgs PROVE QueueMove
    BY <2>8 DEF QueueMove, LinesKept
  <2> QED BY <1>3, <1>a, <1>b, <2>1, <2>2, <2>3, <2>4, <2>5, <2>6, <2>7, <2>8 DEF AccountStep
<1>4. CASE PeriodStep
  <2>1. ASSUME NEW u, NEW l, NEW m \in 0..2, SetLineAdvance(u, l, m) PROVE Runs /\ pkgs' = pkgs
    <3>1. "borrow" \in Exercised /\ ChangeTable(WithLineAdvance(buckets, u, l, m), u) /\ pkgs' = pkgs
      BY <2>1 DEF SetLineAdvance
    <3>2. Settled(WithLineAdvance(buckets, u, l, m))
      BY <1>0, <3>1, LineAdvanceFollows, LineAdvanceTends DEF Settled
    <3> QED BY <3>1, <3>2, ChangeRuns
  <2>2. ASSUME NEW u, NEW l, NEW q \in NewQuotas, SetLineMonthlyQuota(u, l, q)
        PROVE  Runs /\ pkgs' = pkgs
    <3>1. q \in Nat
      BY AmountsAssumption
    <3>2. ChangeTable(WithMonthlyQuota(buckets, u, l, q), u) /\ pkgs' = pkgs
      BY <2>2 DEF SetLineMonthlyQuota
    <3>3. Settled(WithMonthlyQuota(buckets, u, l, q))
      BY <1>0, <3>1, MonthlyQuotaFollows, MonthlyQuotaTends DEF Settled
    <3> QED BY <3>2, <3>3, ChangeRuns
  <2>3. ASSUME NEW u, NEW l, ConvertLineToPeriodic(u, l) PROVE Runs /\ pkgs' = pkgs
    <3>1. ChangeTable(WithConverted(buckets, u, l, now), u) /\ pkgs' = pkgs
      BY <2>3 DEF ConvertLineToPeriodic
    <3>2. Settled(WithConverted(buckets, u, l, now))
      BY <1>0, <2>3, ConvertFollows, ConvertTends DEF Settled, ConvertLineToPeriodic
    <3> QED BY <3>1, <3>2, ChangeRuns
  <2> QED BY <1>4, <1>b, <2>1, <2>2, <2>3 DEF PeriodStep
<1>d. ASSUME NEW u, NEW t \in Nat, t <= now, AdvanceTx(u, t) PROVE Runs
  BY <1>d, StillSettled DEF AdvanceTx, Runs, Ran
<1>e. ASSUME NEW u, NEW t \in Nat, ResetTx(u, t) PROVE Runs
  <2>1. Settled(ResetPeriods(buckets, u, t))
    BY <1>0, ResetFollows, ResetTends DEF Settled
  <2> QED BY <1>e, <2>1 DEF ResetTx, Runs, Ran
<1>5. CASE UserStep
  <2>1. ASSUME NEW i \in DOMAIN buckets, NEW d \in UsageDeltas, AddBucketUsage(i, d)
        PROVE  Runs /\ pkgs' = pkgs
    BY <2>1, UsageRuns DEF AddBucketUsage
  <2>2. ASSUME NEW u, VisitOpen(u) PROVE UNCHANGED <<buckets, pkgs>>
    BY <2>2 DEF VisitOpen, table
  <2>3. ASSUME NEW v \in visit, VisitReset(v) PROVE Runs /\ pkgs' = pkgs
    BY <1>0, <1>e, <2>3 DEF VisitReset
  <2>4. ASSUME NEW v \in visit, VisitAdvance(v) PROVE Runs /\ pkgs' = pkgs
    BY <1>0, <1>d, <2>4 DEF VisitAdvance
  <2> QED BY <1>5, <1>a, <1>b, <2>1, <2>2, <2>3, <2>4 DEF UserStep
<1>6. CASE PackageStep
  <2>1. ASSUME NEW p, EditOpen(p) \/ RetireStart(p) PROVE UNCHANGED <<buckets, pkgs>>
    BY <2>1 DEF EditOpen, RetireStart, table
  <2>2. ASSUME NEW p, EnablePackage(p) PROVE QueueMove
    BY <1>c, <2>2 DEF EnablePackage, table
  <2>3. ASSUME NEW e \in edit, NEW pr \in NewPrices, NEW l \in NewLines, EditSave(e, pr, l)
        PROVE  QueueMove
    <3>1. Moves
      BY <2>3 DEF Moves
    <3> QED BY <3>1 DEF QueueMove
  <2>4. ASSUME NEW r \in retire,
               RetireNextHolder(r) \/ RetireSkip(r) \/ RetireClearFailed(r)
        PROVE  UNCHANGED <<buckets, pkgs>>
    BY <2>4 DEF RetireNextHolder, RetireSkip, RetireClearFailed, table
  <2>5. ASSUME NEW r \in retire, RetireFinish(r) PROVE QueueMove
    BY <1>c, <2>5 DEF RetireFinish, table
  <2>6. ASSUME NEW r \in retire, RetireRefund(r) PROVE QueueMove
    <3>1. PICK o \in r.todo : RefundTx(o, RefundMode) /\ pkgs' = pkgs
      BY <2>6 DEF RetireRefund
    <3>2. o \in DOMAIN orders /\ retire # {}
      BY DEF RetireTypeOK
    <3> QED BY <3>1, <3>2, RefundRuns DEF QueueMove, LinesKept
  <2>7. ASSUME NEW r \in retire, RetireClear(r) PROVE Runs /\ pkgs' = pkgs
    BY <2>7, WithoutSettled DEF RetireClear, Runs, Ran
  <2> QED BY <1>6, <1>a, <1>b, <2>1, <2>2, <2>3, <2>4, <2>5, <2>6, <2>7 DEF PackageStep
<1>7. CASE SweepStep
  <2>1. CASE SweepBegin \/ SweepNextPhase
    BY <1>a, <2>1 DEF SweepBegin, SweepNextPhase, table
  <2>2. ASSUME NEW w \in sweep.todo, SweepAdvance(w) PROVE Runs /\ pkgs' = pkgs
    BY <1>0, <1>d, <2>2 DEF SweepAdvance
  <2>3. ASSUME NEW w \in sweep.todo, SweepReset(w) PROVE Runs /\ pkgs' = pkgs
    BY <1>0, <1>e, <2>3 DEF SweepReset
  <2>4. ASSUME NEW w \in sweep.todo, SweepRenew(w) PROVE QueueMove
    BY <1>0, <2>4, SellRuns DEF SweepRenew, QueueMove
  <2>5. ASSUME NEW w \in sweep.todo, SweepRenewSkipped(w) \/ SweepFailed(w)
        PROVE  UNCHANGED <<buckets, pkgs>>
    BY <2>5 DEF SweepRenewSkipped, SweepFailed, table
  <2> QED BY <1>7, <1>a, <1>b, <2>1, <2>2, <2>3, <2>4, <2>5 DEF SweepStep
<1>8. CASE Tick
  BY <1>8, <1>a DEF Tick, table
<1> QED BY <1>1, <1>2, <1>3, <1>4, <1>5, <1>6, <1>7, <1>8 DEF Next

------------------------------------------------------------------------------
(* The other moves, row by row                                               *)

\* Who a row belongs to and where it stands
Sited(a, b) ==
    /\ b.kind = a.kind /\ b.user = a.user /\ b.pkg = a.pkg /\ b.status = a.status

\* Switching a line's renewal choice changes the choice and nothing else
LEMMA SwitchedRow ==
    ASSUME NEW bk, NEW t, RowsOK(bk, t), NEW u, NEW l, NEW e, NEW i \in DOMAIN bk
    PROVE  LET c == Switched(bk, u, l, e)[i] IN
           /\ Sited(bk[i], c) /\ c.line = bk[i].line
           /\ c.expiry = bk[i].expiry /\ c.pdays = bk[i].pdays /\ c.used = bk[i].used
           /\ c.limit = bk[i].limit /\ c.quota = bk[i].quota /\ c.base = bk[i].base
           /\ c.adv = bk[i].adv /\ c.pstart = bk[i].pstart
<1> DEFINE next == Switched(bk, u, l, e)
<1>1. bk[i] \in BucketRow
  BY DEF RowsOK, RowOK
<1>2. next[i] = IF i \in LiveIn(bk, u, l) THEN [bk[i] EXCEPT !.renew = e] ELSE bk[i]
  BY DEF Switched
<1> HIDE DEF next
<1>3. /\ Sited(bk[i], next[i]) /\ next[i].line = bk[i].line
      /\ next[i].expiry = bk[i].expiry /\ next[i].pdays = bk[i].pdays /\ next[i].used = bk[i].used
      /\ next[i].limit = bk[i].limit /\ next[i].quota = bk[i].quota /\ next[i].base = bk[i].base
      /\ next[i].adv = bk[i].adv /\ next[i].pstart = bk[i].pstart
  BY <1>1, <1>2 DEF Sited, BucketRow
<1> QED BY <1>3 DEF next

\* Clawing back leaves a row in its place
LEMMA ClawedRow ==
    ASSUME NEW b \in BucketRow, NEW p, NEW t
    PROVE  /\ Sited(b, Clawed(b, p, t)) /\ Clawed(b, p, t).line = b.line
           /\ Clawed(b, p, t).renew = b.renew
BY DEF Clawed, Sited, BucketRow

\* UpdatePackage's UPDATE of queue_key
Relined(bk, p, l) ==
    [i \in DOMAIN bk |->
        IF bk[i].kind = "plan" /\ bk[i].pkg = p THEN [bk[i] EXCEPT !.line = l] ELSE bk[i]]

\* Renaming a package's line changes the line of its plan rows and nothing else
LEMMA RelinedRow ==
    ASSUME NEW bk, NEW t, RowsOK(bk, t), NEW p, NEW l, NEW i \in DOMAIN bk
    PROVE  LET c == Relined(bk, p, l)[i] IN
           /\ Sited(bk[i], c)
           /\ c.line = IF bk[i].kind = "plan" /\ bk[i].pkg = p THEN l ELSE bk[i].line
           /\ c.expiry = bk[i].expiry /\ c.pdays = bk[i].pdays /\ c.used = bk[i].used
           /\ c.limit = bk[i].limit /\ c.quota = bk[i].quota /\ c.base = bk[i].base
           /\ c.adv = bk[i].adv
<1> DEFINE next == Relined(bk, p, l)
<1>1. bk[i] \in BucketRow
  BY DEF RowsOK, RowOK
<1>2. next[i] = IF bk[i].kind = "plan" /\ bk[i].pkg = p THEN [bk[i] EXCEPT !.line = l] ELSE bk[i]
  BY DEF Relined
<1> HIDE DEF next
<1>3. /\ Sited(bk[i], next[i])
      /\ next[i].line = IF bk[i].kind = "plan" /\ bk[i].pkg = p THEN l ELSE bk[i].line
      /\ next[i].expiry = bk[i].expiry /\ next[i].pdays = bk[i].pdays /\ next[i].used = bk[i].used
      /\ next[i].limit = bk[i].limit /\ next[i].quota = bk[i].quota /\ next[i].base = bk[i].base
      /\ next[i].adv = bk[i].adv
  BY <1>1, <1>2 DEF Sited, BucketRow
<1> QED BY <1>3 DEF next

\* An edit recomputes the limits of the package's buckets, then moves them
LEMMA EditMoves ==
    ASSUME TableInv, NEW e \in edit, NEW price, NEW l, EditSave(e, price, l)
    PROVE  \E m : /\ Settled(m) /\ m = [i \in DOMAIN m |-> m[i]]
                 /\ buckets' = Relined(m, e.pkg, l)
<1> DEFINE held == {i \in DOMAIN buckets : buckets[i].kind = "plan" /\ buckets[i].pkg = e.pkg}
           fresh == RefreshLimits(buckets, held)
<1>1. buckets' = [i \in DOMAIN buckets |->
                     IF i \in held THEN [fresh[i] EXCEPT !.line = l] ELSE fresh[i]]
  BY DEF EditSave
<1>2. Settled(fresh) /\ DOMAIN fresh = DOMAIN buckets
  BY RefreshFollows, RefreshTends DEF Settled, TableInv, RefreshLimits
<1>3. \A i \in DOMAIN buckets :
         i \in held <=> fresh[i].kind = "plan" /\ fresh[i].pkg = e.pkg
  BY <1>2 DEF Settled, Follows, Evolves
<1>4. fresh = [i \in DOMAIN fresh |-> fresh[i]]
  BY DEF RefreshLimits
<1> HIDE DEF held, fresh
<1>5. buckets' = Relined(fresh, e.pkg, l)
  BY <1>1, <1>2, <1>3 DEF Relined
<1> QED BY <1>2, <1>4, <1>5

\* The table between an operation's change and the queue's advance is well formed
LEMMA RunsBetween ==
    ASSUME TableInv, NEW m, Settled(m) \/ Placed(m)
    PROVE  RowsOK(m, now) /\ Finite(m)
<1>1. CASE Settled(m)
  BY <1>1, TableFacts, FollowsOK, StaysFinite DEF Settled
<1>2. CASE Placed(m)
  BY <1>2, TableFacts, WithOK DEF Placed, TableInv
<1> QED BY <1>1, <1>2

------------------------------------------------------------------------------
(* Shares, in every reachable state                                          *)

\* Every step keeps the buckets within their orders' traffic
LEMMA SharesStay ==
    ASSUME Typed, TableInv, [Next]_vars, Shares(buckets)
    PROVE  Shares(buckets')
<1>1. ASSUME NEW m, Settled(m) \/ Placed(m), Ran(m, buckets') PROVE Shares(buckets')
  <2>1. Shares(m)
    BY <1>1, WithShares DEF Settled, Tends, Placed
  <2>2. RowsOK(m, now) /\ Finite(m) /\ now \in Nat
    BY <1>1, RunsBetween, TableFacts
  <2> QED BY <1>1, <2>1, <2>2, AdvanceShares DEF Ran
<1>2. ASSUME NEW u, NEW l, NEW e, buckets' = Switched(buckets, u, l, e) PROVE Shares(buckets')
  <2>1. DOMAIN buckets' = DOMAIN buckets
    BY <1>2 DEF Switched
  <2>2. ASSUME NEW i \in DOMAIN buckets PROVE ShareRow(buckets'[i])
    <3>1. ShareRow(buckets[i])
      BY DEF Shares
    <3>2. RowsOK(buckets, now)
      BY DEF TableInv
    <3> QED BY <1>2, <3>1, <3>2, SwitchedRow DEF ShareRow, WithinTraffic, Sited
  <2> QED BY <2>1, <2>2 DEF Shares
<1>3. CASE ClawsBack
  <2>1. PICK i \in DOMAIN buckets :
           /\ buckets' = [buckets EXCEPT ![i] = Clawed(buckets[i], buckets[i].pkg, now)]
           /\ ShareRow(Clawed(buckets[i], buckets[i].pkg, now))
    BY <1>3 DEF ClawsBack
  <2> QED BY <2>1 DEF Shares
<1>4. CASE Moves
  <2>1. PICK e \in edit, price \in NewPrices, l \in NewLines : EditSave(e, price, l)
    BY <1>4 DEF Moves
  <2>2. PICK m : Settled(m) /\ buckets' = Relined(m, e.pkg, l)
    BY <2>1, EditMoves
  <2>3. RowsOK(m, now) /\ Shares(m)
    BY <2>2, RunsBetween DEF Settled, Tends
  <2>4. DOMAIN buckets' = DOMAIN m
    BY <2>2 DEF Relined
  <2>5. ASSUME NEW i \in DOMAIN m PROVE ShareRow(buckets'[i])
    <3>1. ShareRow(m[i])
      BY <2>3 DEF Shares
    <3> QED BY <2>2, <2>3, <3>1, RelinedRow DEF ShareRow, WithinTraffic, Sited
  <2> QED BY <2>4, <2>5 DEF Shares
<1> QED BY <1>1, <1>2, <1>3, <1>4, QueueMoves DEF QueueMove, Runs, Switches

\* The buckets start within their orders' traffic
LEMMA SharesStart == Init => Shares(buckets)
BY DEF Init, Shares, ShareRow, FreeRow, Ancillary

------------------------------------------------------------------------------
(* A retirement under way was exercised                                      *)

RetireExercised == retire # {} => "retire" \in Exercised

\* A retirement under way was started
LEMMA RetireStaysExercised ==
    ASSUME [Next]_vars, RetireExercised
    PROVE  RetireExercised'
<1>1. retire' = {} \/ retire # {} \/ (retire' = retire) \/ "retire" \in Exercised
  BY DEF Next, vars, jobs, ShopStep, ShopOpen, PurchaseRefused, PurchaseReplayed, PurchaseSold,
     Answer, AccountStep, AssignOpen, AssignPackage, AdjustPoints, RefundOrder, DeleteBucket,
     AdjustBucketTraffic, SetPlanAutoRenew, PeriodStep, SetLineAdvance, SetLineMonthlyQuota,
     ConvertLineToPeriodic, UserStep, AddBucketUsage, VisitOpen, VisitReset, VisitAdvance,
     PackageStep, EditOpen, EnablePackage, RetireStart, EditSave, SweepStep, SweepBegin,
     SweepNextPhase, SweepAdvance, SweepReset, SweepRenew, SweepRenewSkipped, SweepFailed, Tick
<1> QED BY <1>1 DEF RetireExercised

------------------------------------------------------------------------------
(* Lines that stay where they are                                            *)

\* An edit may change a package's price and put it back on sale, but keeps it in the
\* renewal line it started in
LinesStay == \A p \in Packages, l \in NewLines : l = InitPackage[p].line

InOwnLine(bk) ==
    \A i \in DOMAIN bk : bk[i].kind = "plan" => bk[i].line = InitPackage[bk[i].pkg].line

LinesInv ==
    /\ \A p \in Packages : pkgs[p].line = InitPackage[p].line
    /\ \A g \in grant : g.line = InitPackage[g.pkg].line
    /\ InOwnLine(buckets)

\* A free grant is given in its package's own line, as long as lines stay
LEMMA GrantLines ==
    ASSUME Typed, [Next]_vars, LinesInv
    PROVE  \A g \in grant' : g.line = InitPackage[g.pkg].line
<1>1. ASSUME NEW u \in Users, NEW p \in Packages, AssignOpen(u, p)
      PROVE  \A g \in grant' : g.line = InitPackage[g.pkg].line
  BY <1>1 DEF AssignOpen, LinesInv
<1>2. grant' = grant \/ grant' = {} \/ \E u \in Users, p \in Packages : AssignOpen(u, p)
  BY DEF Next, vars, shop, ShopStep, ShopOpen, PurchaseRefused, PurchaseReplayed, PurchaseSold,
     Answer, AccountStep, AssignPackage, AdjustPoints, RefundOrder, DeleteBucket,
     AdjustBucketTraffic, SetPlanAutoRenew, PeriodStep, SetLineAdvance, SetLineMonthlyQuota,
     ConvertLineToPeriodic, UserStep, AddBucketUsage, VisitOpen, VisitReset, VisitAdvance,
     PackageStep, EditOpen, EnablePackage, RetireStart, EditSave, RetireNextHolder, RetireRefund,
     RetireSkip, RetireClear, RetireClearFailed, RetireFinish, SweepStep, SweepBegin,
     SweepNextPhase, SweepAdvance, SweepReset, SweepRenew, SweepRenewSkipped, SweepFailed, Tick
<1> QED BY <1>1, <1>2 DEF LinesInv

\* Saving an edit into the same line moves no bucket
LEMMA EditStays ==
    ASSUME LinesStay, Typed, TableInv, LinesInv, Moves
    PROVE  Runs /\ LinesKept
<1>1. PICK e \in edit, price \in NewPrices, l \in NewLines : EditSave(e, price, l)
  BY DEF Moves
<1>2. PICK m : /\ Settled(m) /\ m = [i \in DOMAIN m |-> m[i]]
               /\ buckets' = Relined(m, e.pkg, l)
  BY <1>1, EditMoves
<1>3. e.pkg \in Packages /\ l = InitPackage[e.pkg].line /\ e.row \in PackageRow
  BY DEF LinesStay, Typed, ShopTypeOK
<1>4. ASSUME NEW i \in DOMAIN m, m[i].kind = "plan", m[i].pkg = e.pkg PROVE m[i].line = l
  <2>1. i \in DOMAIN buckets /\ Evolves(buckets[i], m[i]) /\ Steady(buckets[i], m[i])
    BY <1>2 DEF Settled, Follows, Tends, Steadies
  <2> QED BY <1>3, <1>4, <2>1 DEF LinesInv, InOwnLine, Evolves, Steady
<1>5. Relined(m, e.pkg, l) = m
  <2>1. ASSUME NEW i \in DOMAIN m PROVE Relined(m, e.pkg, l)[i] = m[i]
    <3>1. m[i] \in BucketRow
      BY <1>2 DEF Settled, Follows, RowOK
    <3>2. CASE m[i].kind = "plan" /\ m[i].pkg = e.pkg
      <4>1. Relined(m, e.pkg, l)[i] = [m[i] EXCEPT !.line = l] /\ m[i].line = l
        BY <1>4, <3>2 DEF Relined
      <4> QED BY <3>1, <4>1 DEF BucketRow
    <3>3. CASE ~ (m[i].kind = "plan" /\ m[i].pkg = e.pkg)
      BY <3>3 DEF Relined
    <3> QED BY <3>2, <3>3
  <2> QED BY <1>2, <2>1 DEF Relined
<1>6. Runs
  BY <1>2, <1>5 DEF Runs, Ran
<1>7. LinesKept
  <2>1. pkgs' = [pkgs EXCEPT ![e.pkg] = [e.row EXCEPT !.price = price, !.line = l]]
    BY <1>1 DEF EditSave
  <2>2. [e.row EXCEPT !.price = price, !.line = l].line = l
    BY <1>3 DEF PackageRow
  <2>3. pkgs[e.pkg].line = l /\ DOMAIN pkgs = Packages
    BY <1>3 DEF LinesInv, Typed, ShopTypeOK
  <2> QED BY <2>1, <2>2, <2>3 DEF LinesKept
<1> QED BY <1>6, <1>7

\* Every step keeps the packages and their buckets in the lines they started with
LEMMA LinesStayInv ==
    ASSUME LinesStay, Typed, TableInv, LinesInv, [Next]_vars
    PROVE  /\ LinesInv' /\ LinesKept
           /\ Runs \/ Switches \/ ClawsBack
<1>1. LinesKept /\ (Runs \/ Switches \/ ClawsBack)
  BY QueueMoves, EditStays DEF QueueMove
<1>2. \A p \in Packages : pkgs'[p].line = InitPackage[p].line
  BY <1>1 DEF LinesKept, LinesInv
<1>3. InOwnLine(buckets')
  <2>1. ASSUME NEW bk, NEW next, RowsOK(bk, now), Follows(bk, next, now), InOwnLine(bk)
        PROVE  InOwnLine(next)
    <3> SUFFICES ASSUME NEW i \in DOMAIN next, next[i].kind = "plan"
                 PROVE  next[i].line = InitPackage[next[i].pkg].line
      BY DEF InOwnLine
    <3>1. i \in DOMAIN bk /\ Evolves(bk[i], next[i]) /\ RowOK(bk[i], now)
      BY <2>1 DEF Follows, RowsOK
    <3>2. bk[i].pkg \in Packages /\ bk[i].kind = "plan"
      BY <3>1 DEF Evolves, RowOK, PlanRow
    <3> QED BY <2>1, <3>1, <3>2 DEF InOwnLine, Evolves, LinesStay
  <2>2. RowsOK(buckets, now) /\ InOwnLine(buckets)
    BY DEF TableInv, LinesInv
  <2>3. CASE Kept
    BY <2>1, <2>2, <2>3 DEF Kept
  <2>4. ASSUME NEW row, Inserted(row), Recorded(row) PROVE InOwnLine(buckets')
    <3> DEFINE more == With(buckets, nextBucket, row)
    <3>1. row.kind = "plan" => row.line = InitPackage[row.pkg].line
      <4>1. row.kind = "plan" => row.pkg \in Packages
        BY <2>4 DEF Inserted, RowOK, PlanRow
      <4> QED BY <2>4, <4>1 DEF Recorded, LinesInv
    <3>2. InOwnLine(more)
      BY <2>2, <3>1 DEF InOwnLine, With
    <3>3. RowsOK(more, now)
      BY <2>2, <2>4 DEF Inserted, RowsOK, With
    <3>4. Follows(more, buckets', now)
      BY <2>4 DEF Inserted
    <3> HIDE DEF more
    <3> QED BY <2>1, <3>2, <3>3, <3>4
  <2> QED BY <2>3, <2>4, TableMoves DEF TableMove
<1>4. \A g \in grant' : g.line = InitPackage[g.pkg].line
  BY GrantLines
<1> QED BY <1>1, <1>2, <1>3, <1>4 DEF LinesInv

\* The packages and the buckets start in their lines
LEMMA LinesStart == Init => LinesInv
<1> SUFFICES ASSUME Init PROVE LinesInv
  OBVIOUS
<1>1. InOwnLine(buckets)
  BY DEF Init, InOwnLine, FreeRow, Ancillary
<1> QED BY <1>1 DEF Init, LinesInv

------------------------------------------------------------------------------
(* A line serves its buckets in order                                        *)

\* Every move of the queue keeps the lines in order
LEMMA OrderStays ==
    ASSUME Typed, TableInv, Runs \/ Switches \/ ClawsBack, Ordered(buckets)
    PROVE  Ordered(buckets')
<1>0. RowsOK(buckets, now)
  BY DEF TableInv
<1>1. ASSUME NEW m, Settled(m) \/ Placed(m), Ran(m, buckets') PROVE Ordered(buckets')
  <2>1. Ordered(m)
    <3>1. nextBucket \in Nat /\ DOMAIN buckets \subseteq 1..(nextBucket - 1)
      BY DEF TableInv, IdsAreSpent
    <3>2. CASE Settled(m)
      BY <3>2, SteadyOrders DEF Settled, Tends
    <3>3. CASE Placed(m)
      BY <3>1, <3>3, WithOrders DEF Placed
    <3> QED BY <1>1, <3>2, <3>3
  <2>2. RowsOK(m, now) /\ Finite(m) /\ now \in Nat
    BY <1>1, RunsBetween, TableFacts
  <2> QED BY <1>1, <2>1, <2>2, AdvanceOrders DEF Ran
<1>2. ASSUME NEW u, NEW l, NEW e, buckets' = Switched(buckets, u, l, e) PROVE Ordered(buckets')
  <2>1. DOMAIN buckets' = DOMAIN buckets
    BY <1>2 DEF Switched
  <2>2. \A i \in DOMAIN buckets :
           Sited(buckets[i], buckets'[i]) /\ buckets'[i].line = buckets[i].line
    BY <1>0, <1>2, SwitchedRow
  <2> QED BY <2>1, <2>2 DEF Ordered, Sited
<1>3. CASE ClawsBack
  <2>1. PICK j \in DOMAIN buckets :
           buckets' = [buckets EXCEPT ![j] = Clawed(buckets[j], buckets[j].pkg, now)]
    BY <1>3 DEF ClawsBack
  <2>2. \A i \in DOMAIN buckets :
           Sited(buckets[i], buckets'[i]) /\ buckets'[i].line = buckets[i].line
    <3>1. buckets[j] \in BucketRow
      BY <1>0 DEF RowsOK, RowOK
    <3> QED BY <2>1, <3>1, ClawedRow DEF Sited
  <2>3. DOMAIN buckets' = DOMAIN buckets
    BY <2>1
  <2> QED BY <2>2, <2>3 DEF Ordered, Sited
<1> QED BY <1>1, <1>2, <1>3 DEF Runs, Switches

\* Of every line: its buckets are served one at a time and in purchase order, whichever
\* transaction promotes them, as long as no edit moves a package to another line
THEOREM LinesServeInOrder ==
    ASSUME LinesStay
    PROVE  Spec => []ServedInOrder
<1>1. Init => Ordered(buckets)
  BY DEF Init, Ordered, FreeRow, Ancillary
<1>2. Typed /\ TableInv /\ LinesInv /\ [Next]_vars => LinesInv'
  BY LinesStayInv
<1>3. Typed /\ TableInv /\ LinesInv /\ Ordered(buckets) /\ [Next]_vars => Ordered(buckets)'
  BY LinesStayInv, OrderStays DEF Ordered
<1>4. Ordered(buckets) => ServedInOrder
  BY DEF Ordered, ServedInOrder
<1> QED BY <1>1, <1>2, <1>3, <1>4, LinesStart, TableIsRight, BookIsTyped, PTL DEF Spec

------------------------------------------------------------------------------
(* What was bought is served                                                 *)

\* No refund takes from another order's bucket: there are no refunds, or no bucket ever
\* holds more than its order paid for
NoClawback == SharesStayWhole \/ ("refund" \notin Exercised /\ "retire" \notin Exercised)

\* Every step keeps paid time honoured
LEMMA HonourStays ==
    ASSUME NoClawback, Typed, TableInv, Shares(buckets), RetireExercised,
           Honoured(buckets, now), [Next]_vars
    PROVE  Honoured(buckets', now')
<1>0. RowsOK(buckets, now) /\ now \in Nat
  BY TableFacts DEF TableInv
<1>1. ASSUME NEW m, Settled(m) \/ Placed(m), Ran(m, buckets') PROVE Honoured(buckets', now)
  <2>1. Honoured(m, now)
    <3>1. CASE Settled(m)
      BY <1>0, <3>1, SteadyHonours DEF Settled, Tends
    <3>2. CASE Placed(m)
      BY <3>2, WithHonours DEF Placed
    <3> QED BY <1>1, <3>1, <3>2
  <2>2. RowsOK(m, now) /\ Finite(m)
    BY <1>1, RunsBetween
  <2> QED BY <1>0, <1>1, <2>1, <2>2, AdvanceHonours DEF Ran
<1>2. ASSUME NEW u, NEW l, NEW e, buckets' = Switched(buckets, u, l, e)
      PROVE  Honoured(buckets', now)
  <2>1. DOMAIN buckets' = DOMAIN buckets
    BY <1>2 DEF Switched
  <2>2. ASSUME NEW i \in DOMAIN buckets PROVE HonouredRow(buckets'[i], now)
    BY <1>0, <1>2, SwitchedRow DEF Honoured, HonouredRow, Spent, NotExpired, HasQuota, Sited
  <2> QED BY <2>1, <2>2 DEF Honoured
<1>3. ~ClawsBack
  BY DEF ClawsBack, NoClawback, RetireExercised
<1>4. ASSUME Moves PROVE Honoured(buckets', now)
  <2>1. PICK e \in edit, price \in NewPrices, l \in NewLines : EditSave(e, price, l)
    BY <1>4 DEF Moves
  <2>2. PICK m : Settled(m) /\ buckets' = Relined(m, e.pkg, l)
    BY <2>1, EditMoves
  <2>3. RowsOK(m, now) /\ Honoured(m, now)
    BY <1>0, <2>2, RunsBetween, SteadyHonours DEF Settled, Tends
  <2>4. DOMAIN buckets' = DOMAIN m
    BY <2>2 DEF Relined
  <2>5. ASSUME NEW i \in DOMAIN m PROVE HonouredRow(buckets'[i], now)
    <3>1. HonouredRow(m[i], now)
      BY <2>3 DEF Honoured
    <3>2. LET c == buckets'[i] IN
          /\ Sited(m[i], c) /\ c.expiry = m[i].expiry /\ c.pdays = m[i].pdays
          /\ c.used = m[i].used /\ c.limit = m[i].limit
      BY <2>2, <2>3, RelinedRow
    <3> QED BY <3>1, <3>2 DEF HonouredRow, Spent, NotExpired, HasQuota, Sited
  <2> QED BY <2>4, <2>5 DEF Honoured
<1>5. Honoured(buckets', now)
  <2>1. Moves \/ Runs \/ Switches
    BY <1>3, QueueMoves DEF QueueMove
  <2>2. CASE Runs
    BY <1>1, <2>2 DEF Runs
  <2>3. CASE Switches
    BY <1>2, <2>3 DEF Switches
  <2> QED BY <1>4, <2>1, <2>2, <2>3
<1>6. RowsOK(buckets', now)
  BY TableMoves, IdsStaySpent
<1>7. now' \in Nat /\ now <= now'
  BY JobsStayTyped, TimeAssumption
<1> QED BY <1>0, <1>5, <1>6, <1>7, SpentAges

\* Paid time starts honoured
LEMMA HonourStarts == Init => Honoured(buckets, now) /\ RetireExercised
BY DEF Init, Honoured, HonouredRow, FreeRow, Ancillary, RetireExercised

\* A waiting bucket has its whole duration ahead, a running one at most that, and one
\* leaves service only when its time or its traffic is used up, however late the sweep,
\* a visit or a purchase advances the queue
THEOREM PaidTimeIsHonoured ==
    ASSUME NoClawback
    PROVE  Spec => []PaidTimeIsServed
<1>1. Init => Shares(buckets) /\ Honoured(buckets, now) /\ RetireExercised
  BY SharesStart, HonourStarts
<1>2. Typed /\ TableInv /\ Shares(buckets) /\ [Next]_vars => Shares(buckets)'
  BY SharesStay DEF Shares
<1>3. /\ Typed /\ TableInv /\ Shares(buckets) /\ RetireExercised /\ Honoured(buckets, now)
      /\ [Next]_vars
      => Honoured(buckets, now)'
  BY HonourStays DEF Honoured
<1>4. RetireExercised /\ [Next]_vars => RetireExercised'
  BY RetireStaysExercised
<1>5. TableInv /\ Honoured(buckets, now) => PaidTimeIsServed
  BY DEF TableInv, RowsOK, RowOK, PlanRow, Honoured, HonouredRow, Spent, PaidTimeIsServed
<1> QED BY <1>1, <1>2, <1>3, <1>4, <1>5, TableIsRight, BookIsTyped, PTL DEF Spec

------------------------------------------------------------------------------
(* The renewal choice covers a line                                          *)

\* Every move of the queue keeps the renewal choices uniform
LEMMA ChoiceStays ==
    ASSUME Typed, TableInv, Runs \/ Switches \/ ClawsBack, Uniform(buckets)
    PROVE  Uniform(buckets')
<1>0. RowsOK(buckets, now) /\ Finite(buckets) /\ now \in Nat /\ nextBucket \notin DOMAIN buckets
  BY TableFacts DEF TableInv
<1>1. ASSUME NEW m, Settled(m) \/ Placed(m), Ran(m, buckets') PROVE Uniform(buckets')
  <2>1. Uniform(m)
    <3>1. CASE Settled(m)
      BY <3>1, SteadyAgrees DEF Settled, Tends
    <3>2. CASE Placed(m)
      BY <1>0, <3>2, WithAgrees DEF Placed
    <3> QED BY <1>1, <3>1, <3>2
  <2>2. RowsOK(m, now) /\ Finite(m)
    BY <1>1, RunsBetween
  <2> QED BY <1>0, <1>1, <2>1, <2>2, AdvanceAgrees DEF Ran
<1>2. ASSUME NEW u, NEW l, NEW e, buckets' = Switched(buckets, u, l, e) PROVE Uniform(buckets')
  BY <1>0, <1>2, SwitchedAgrees
<1>3. CASE ClawsBack
  <2>1. PICK j \in DOMAIN buckets :
           buckets' = [buckets EXCEPT ![j] = Clawed(buckets[j], buckets[j].pkg, now)]
    BY <1>3 DEF ClawsBack
  <2>2. \A i \in DOMAIN buckets :
           /\ Sited(buckets[i], buckets'[i]) /\ buckets'[i].line = buckets[i].line
           /\ buckets'[i].renew = buckets[i].renew
    <3>1. buckets[j] \in BucketRow
      BY <1>0 DEF RowsOK, RowOK
    <3> QED BY <2>1, <3>1, ClawedRow DEF Sited
  <2>3. DOMAIN buckets' = DOMAIN buckets
    BY <2>1
  <2> QED BY <2>2, <2>3 DEF Uniform, Sited
<1> QED BY <1>1, <1>2, <1>3 DEF Runs, Switches

\* A renewal switch that was set for a line holds for all its live buckets, those bought,
\* granted, renewed or promoted later included, as long as no edit merges two lines
THEOREM RenewalChoiceHolds ==
    ASSUME LinesStay
    PROVE  Spec => []RenewalChoiceIsUniform
<1>1. Init => Uniform(buckets)
  BY DEF Init, Uniform, FreeRow, Ancillary
<1>2. Typed /\ TableInv /\ LinesInv /\ [Next]_vars => LinesInv'
  BY LinesStayInv
<1>3. Typed /\ TableInv /\ LinesInv /\ Uniform(buckets) /\ [Next]_vars => Uniform(buckets)'
  BY LinesStayInv, ChoiceStays DEF Uniform
<1>4. Uniform(buckets) => RenewalChoiceIsUniform
  BY DEF Uniform, RenewalChoiceIsUniform
<1> QED BY <1>1, <1>2, <1>3, <1>4, LinesStart, TableIsRight, BookIsTyped, PTL DEF Spec

------------------------------------------------------------------------------
(* Buckets move with their package                                           *)

FollowLines(bk, pk) ==
    \A i \in DOMAIN bk : bk[i].kind = "plan" => bk[i].line = pk[bk[i].pkg].line

\* Rows that stay in their line
StayInLine(bk, next) ==
    /\ DOMAIN next \subseteq DOMAIN bk
    /\ \A i \in DOMAIN next : /\ next[i].kind = bk[i].kind /\ next[i].pkg = bk[i].pkg
                               /\ next[i].line = bk[i].line

\* A settled table keeps every row in its line
LEMMA SettledLines ==
    ASSUME NEW bk, NEW next, NEW t, Follows(bk, next, t), Steadies(bk, next)
    PROVE  StayInLine(bk, next)
BY DEF Follows, Evolves, Steadies, Steady, StayInLine

\* advanceUserQueues keeps every row in its line
LEMMA AdvanceLines ==
    ASSUME NEW bk, NEW t \in Nat, NEW s \in Nat, t <= s, RowsOK(bk, s), Finite(bk), NEW u
    PROVE  StayInLine(bk, Advance(bk, u, t, s))
<1> DEFINE handed == HandOver(bk, u, t, s)
<1>1. StayInLine(bk, handed)
  <2>1. DOMAIN handed = DOMAIN bk
    BY DEF HandOver
  <2>2. \A i \in DOMAIN bk : Handed(bk, u, t, s, i, handed[i])
    BY HandOverRows
  <2> HIDE DEF handed
  <2> QED BY <2>1, <2>2 DEF Handed, StayInLine
<1>2. Follows(bk, handed, s)
  BY HandOverFollows
<1>3. Advance(bk, u, t, s) = RefreshLimits(handed, Owned(handed, u))
  BY DEF Advance
<1> HIDE DEF handed
<1>4. RowsOK(handed, s)
  BY <1>2, FollowsOK
<1>5. StayInLine(handed, RefreshLimits(handed, Owned(handed, u)))
  BY <1>4, RefreshTends, RefreshFollows, SettledLines DEF Tends
<1> QED BY <1>1, <1>3, <1>5 DEF StayInLine

GrantsExercised == grant # {} => "assign" \in Exercised

\* A free grant under way was started
LEMMA GrantsStayExercised ==
    ASSUME [Next]_vars, GrantsExercised
    PROVE  GrantsExercised'
<1>1. grant' = grant \/ grant' = {} \/ "assign" \in Exercised
  BY DEF Next, vars, shop, ShopStep, ShopOpen, PurchaseRefused, PurchaseReplayed, PurchaseSold,
     Answer, AccountStep, AssignOpen, AssignPackage, AdjustPoints, RefundOrder, DeleteBucket,
     AdjustBucketTraffic, SetPlanAutoRenew, PeriodStep, SetLineAdvance, SetLineMonthlyQuota,
     ConvertLineToPeriodic, UserStep, AddBucketUsage, VisitOpen, VisitReset, VisitAdvance,
     PackageStep, EditOpen, EnablePackage, RetireStart, EditSave, RetireNextHolder, RetireRefund,
     RetireSkip, RetireClear, RetireClearFailed, RetireFinish, SweepStep, SweepBegin,
     SweepNextPhase, SweepAdvance, SweepReset, SweepRenew, SweepRenewSkipped, SweepFailed, Tick
<1> QED BY <1>1 DEF GrantsExercised

\* Every step leaves the buckets in their package's line
LEMMA LinesFollow ==
    ASSUME "assign" \notin Exercised, Typed, TableInv, GrantsExercised, [Next]_vars,
           FollowLines(buckets, pkgs)
    PROVE  FollowLines(buckets', pkgs')
<1>0. RowsOK(buckets, now) /\ now \in Nat /\ grant = {}
  BY TableFacts DEF TableInv, GrantsExercised
<1>a. ASSUME NEW bk, NEW next, NEW pk, StayInLine(bk, next), FollowLines(bk, pk)
      PROVE  FollowLines(next, pk)
  BY <1>a DEF StayInLine, FollowLines
<1>1. ASSUME NEW m, Settled(m) \/ Placed(m), Ran(m, buckets') PROVE FollowLines(buckets', pkgs)
  <2>1. FollowLines(m, pkgs)
    <3>1. CASE Settled(m)
      BY <1>a, <3>1, SettledLines DEF Settled, Tends
    <3>2. CASE Placed(m)
      BY <1>0, <3>2 DEF Placed, FollowLines, With
    <3> QED BY <1>1, <3>1, <3>2
  <2>2. RowsOK(m, now) /\ Finite(m)
    BY <1>1, RunsBetween
  <2> QED BY <1>0, <1>1, <1>a, <2>1, <2>2, AdvanceLines DEF Ran
<1>2. ASSUME NEW u, NEW l, NEW e, buckets' = Switched(buckets, u, l, e)
      PROVE  FollowLines(buckets', pkgs)
  <2>1. DOMAIN buckets' = DOMAIN buckets
    BY <1>2 DEF Switched
  <2>2. \A i \in DOMAIN buckets :
           Sited(buckets[i], buckets'[i]) /\ buckets'[i].line = buckets[i].line
    BY <1>0, <1>2, SwitchedRow
  <2>3. StayInLine(buckets, buckets')
    BY <2>1, <2>2 DEF StayInLine, Sited
  <2> QED BY <1>a, <2>3
<1>3. ASSUME ClawsBack PROVE FollowLines(buckets', pkgs)
  <2>1. PICK j \in DOMAIN buckets :
           buckets' = [buckets EXCEPT ![j] = Clawed(buckets[j], buckets[j].pkg, now)]
    BY <1>3 DEF ClawsBack
  <2>2. \A i \in DOMAIN buckets :
           Sited(buckets[i], buckets'[i]) /\ buckets'[i].line = buckets[i].line
    <3>1. buckets[j] \in BucketRow
      BY <1>0 DEF RowsOK, RowOK
    <3> QED BY <2>1, <3>1, ClawedRow DEF Sited
  <2>3. StayInLine(buckets, buckets')
    BY <2>1, <2>2 DEF StayInLine, Sited
  <2> QED BY <1>a, <2>3
<1>4. CASE Moves
  <2>1. PICK e \in edit, price \in NewPrices, l \in NewLines : EditSave(e, price, l)
    BY <1>4 DEF Moves
  <2>2. PICK m : Settled(m) /\ buckets' = Relined(m, e.pkg, l)
    BY <2>1, EditMoves
  <2>3. RowsOK(m, now) /\ FollowLines(m, pkgs)
    BY <1>a, <2>2, RunsBetween, SettledLines DEF Settled, Tends
  <2>4. DOMAIN buckets' = DOMAIN m
    BY <2>2 DEF Relined
  <2>5. /\ \A p \in Packages : pkgs'[p].line = IF p = e.pkg THEN l ELSE pkgs[p].line
    <3>1. e.row \in PackageRow /\ DOMAIN pkgs = Packages
      BY DEF Typed, ShopTypeOK
    <3>2. pkgs' = [pkgs EXCEPT ![e.pkg] = [e.row EXCEPT !.price = price, !.line = l]]
      BY <2>1 DEF EditSave
    <3>3. [e.row EXCEPT !.price = price, !.line = l].line = l
      BY <3>1 DEF PackageRow
    <3> QED BY <3>1, <3>2, <3>3
  <2>6. ASSUME NEW i \in DOMAIN m, buckets'[i].kind = "plan"
        PROVE  buckets'[i].line = pkgs'[buckets'[i].pkg].line
    <3>1. /\ Sited(m[i], buckets'[i])
          /\ buckets'[i].line = IF m[i].kind = "plan" /\ m[i].pkg = e.pkg THEN l ELSE m[i].line
      BY <2>2, <2>3, RelinedRow
    <3>2. m[i].kind = "plan" /\ m[i].pkg \in Packages /\ buckets'[i].pkg = m[i].pkg
      BY <2>3, <2>6, <3>1 DEF RowsOK, RowOK, PlanRow, Sited
    <3>3. m[i].line = pkgs[m[i].pkg].line
      BY <2>3, <3>2 DEF FollowLines
    <3> QED BY <2>5, <3>1, <3>2, <3>3
  <2> QED BY <2>4, <2>6 DEF FollowLines
<1>5. ASSUME LinesKept, FollowLines(buckets', pkgs) PROVE FollowLines(buckets', pkgs')
  <2>1. RowsOK(buckets', now)
    BY TableMoves, IdsStaySpent
  <2>2. \A i \in DOMAIN buckets' : buckets'[i].kind = "plan" => buckets'[i].pkg \in Packages
    BY <2>1 DEF RowsOK, RowOK, PlanRow
  <2> QED BY <1>5, <2>2 DEF FollowLines, LinesKept
<1>6. CASE LinesKept /\ Runs
  BY <1>1, <1>5, <1>6 DEF Runs
<1>7. CASE LinesKept /\ Switches
  BY <1>2, <1>5, <1>7 DEF Switches
<1>8. CASE LinesKept /\ ClawsBack
  BY <1>3, <1>5, <1>8
<1> QED BY <1>4, <1>6, <1>7, <1>8, QueueMoves DEF QueueMove

\* Moving a package to another line takes every bucket of it along, and no purchase or
\* renewal that straddles the move leaves one behind.  (A grant does: the handler's copy
\* of the package may be older than the move.)
THEOREM BucketsFollowPackages ==
    ASSUME "assign" \notin Exercised
    PROVE  Spec => []LineFollowsPackage
<1>1. Init => FollowLines(buckets, pkgs) /\ GrantsExercised
  BY DEF Init, FollowLines, FreeRow, Ancillary, GrantsExercised
<1>2. GrantsExercised /\ [Next]_vars => GrantsExercised'
  BY GrantsStayExercised
<1>3. /\ Typed /\ TableInv /\ GrantsExercised /\ FollowLines(buckets, pkgs) /\ [Next]_vars
      => FollowLines(buckets, pkgs)'
  BY LinesFollow DEF FollowLines
<1>4. FollowLines(buckets, pkgs) => LineFollowsPackage
  BY DEF FollowLines, LineFollowsPackage
<1> QED BY <1>1, <1>2, <1>3, <1>4, TableIsRight, BookIsTyped, PTL DEF Spec

------------------------------------------------------------------------------
(* A refund removes the bucket of its order                                  *)

\* A plan bucket stands for one order that was not refunded, of its account and
\* package, and shared traffic for none
OrderedRow(b, placed) ==
    IF b.kind = "plan"
    THEN /\ b.order \in DOMAIN placed /\ Catalog[b.pkg].type = "plan"
         /\ placed[b.order].user = b.user /\ placed[b.order].pkg = b.pkg
         /\ placed[b.order].status = "success"
    ELSE b.order = NoOrder

OneBucketEach(bk) ==
    \A i, j \in DOMAIN bk :
        bk[i].kind = "plan" /\ bk[j].kind = "plan" /\ bk[i].order = bk[j].order => i = j

OrdersInv == (\A i \in DOMAIN buckets : OrderedRow(buckets[i], orders)) /\ OneBucketEach(buckets)

\* A bucket that was never topped up is not taken for a merged one: the refund of its
\* order removes it
LEMMA RefundTakesItsBucket ==
    ASSUME NoTopUps, Typed, TableInv, Shares(buckets), OrdersInv,
           NEW o \in DOMAIN orders, NEW mode, RefundTx(o, mode),
           NEW i \in DOMAIN buckets, buckets[i].kind = "plan", buckets[i].order = o
    PROVE  i \notin DOMAIN buckets'
<1> DEFINE u == orders[o].user
           p == orders[o].pkg
           own == OfOrder(buckets, u, o)
           less == Without(buckets, {i})
<1>1. RowsOK(buckets, now) /\ now \in Nat /\ now <= now /\ Finite(buckets)
  BY TableFacts DEF TableInv
<1>2. buckets[i].user = u /\ buckets[i].pkg = p /\ Catalog[p].type = "plan"
  BY DEF OrdersInv, OrderedRow
<1>3. own = {i}
  BY <1>2 DEF OfOrder, Owned, OrdersInv, OneBucketEach
<1>4. Min(own) = i
  <2>1. own \in SUBSET DOMAIN buckets /\ own # {}
    BY <1>3
  <2> HIDE DEF own
  <2> QED BY <1>1, <1>3, <2>1, NewestIsOne
<1>5. ~LooksMerged(buckets[i], p)
  <2>1. buckets[i].pdays = 0 => buckets[i].limit <= Catalog[p].traffic
    BY <1>2 DEF Shares, ShareRow
  <2>2. p \in Packages /\ Catalog[p].traffic \in Nat
    BY OrderTyped, CatalogAssumption DEF Typed, OrderRow
  <2>3. buckets[i].limit \in Nat
    BY <1>1, RowFields DEF RowsOK, RowOK
  <2> QED BY <2>1, <2>2, <2>3 DEF LooksMerged
<1>6. buckets' = Advance(less, u, now, now)
  <2>1. buckets' = ReverseOrder(buckets, u, p, o, now)
    BY <1>2 DEF RefundTx
  <2>2. own # {}
    BY <1>3
  <2> HIDE DEF u, p, own
  <2> QED BY <1>4, <1>5, <2>1, <2>2 DEF ReverseOrder, own
<1> HIDE DEF u
<1>7. Follows(buckets, less, now)
  BY <1>1, WithoutFollows
<1>8. i \notin DOMAIN less
  BY DEF Without
<1> HIDE DEF less
<1>9. Follows(less, Advance(less, u, now, now), now)
  BY <1>1, <1>7, FollowsOK, StaysFinite, AdvanceFollows
<1> QED BY <1>6, <1>8, <1>9 DEF Follows

\* Every step keeps one order to a bucket and one bucket to an order
LEMMA OrdersStay ==
    ASSUME NoTopUps, Typed, TableInv, Shares(buckets), OrdersInv, [Next]_vars
    PROVE  OrdersInv'
<1>1. ASSUME Kept PROVE OneBucketEach(buckets')
  BY <1>1 DEF Kept, Follows, Evolves, OrdersInv, OneBucketEach
<1>2. ASSUME NEW o \in DOMAIN orders, NEW mode, RefundTx(o, mode) PROVE OrdersInv'
  <2>1. Kept
    BY <1>2, RefundKeeps DEF Typed
  <2>2. /\ DOMAIN orders' = DOMAIN orders
        /\ \A q \in DOMAIN orders \ {o} : orders'[q] = orders[q]
    BY <1>2 DEF RefundTx, Typed, BookTypeOK
  <2>3. ASSUME NEW i \in DOMAIN buckets' PROVE OrderedRow(buckets'[i], orders')
    <3>1. i \in DOMAIN buckets /\ Evolves(buckets[i], buckets'[i]) /\ OrderedRow(buckets[i], orders)
      BY <2>1 DEF Kept, Follows, OrdersInv
    <3>2. buckets[i].kind = "plan" => buckets[i].order # o
      BY <1>2, <3>1, RefundTakesItsBucket
    <3> QED BY <2>2, <3>1, <3>2 DEF OrderedRow, Evolves
  <2> QED BY <1>1, <2>1, <2>3 DEF OrdersInv
<1>3. ASSUME OrdersKept, Kept PROVE OrdersInv'
  <2>1. ASSUME NEW i \in DOMAIN buckets' PROVE OrderedRow(buckets'[i], orders')
    <3>1. i \in DOMAIN buckets /\ Evolves(buckets[i], buckets'[i]) /\ OrderedRow(buckets[i], orders)
      BY <1>3 DEF Kept, Follows, OrdersInv
    <3> QED BY <1>3, <3>1 DEF OrderedRow, Evolves, OrdersKept
  <2> QED BY <1>1, <1>3, <2>1 DEF OrdersInv
<1>4. ASSUME OrdersKept, NEW row, Inserted(row), Recorded(row) PROVE OrdersInv'
  <2> DEFINE more == With(buckets, nextBucket, row)
             n == Len(orders) + 1
  <2>1. /\ DOMAIN orders = 1..Len(orders) /\ Len(orders) \in Nat /\ orders \in Seq(OrderRow)
    BY DEF Typed, BookTypeOK
  <2>2. row.kind = "plan" =>
           /\ row.order = n /\ n \in DOMAIN orders' /\ Catalog[row.pkg].type = "plan"
           /\ orders'[n].user = row.user /\ orders'[n].pkg = row.pkg
           /\ orders'[n].status = "success"
    <3> SUFFICES ASSUME row.kind = "plan"
                 PROVE  /\ row.order = n /\ n \in DOMAIN orders' /\ Catalog[row.pkg].type = "plan"
                        /\ orders'[n].user = row.user /\ orders'[n].pkg = row.pkg
                        /\ orders'[n].status = "success"
      OBVIOUS
    <3>1. PICK price, key :
             orders' = Append(orders, [user |-> row.user, pkg |-> row.pkg, price |-> price,
                                       key |-> key, back |-> 0, status |-> "success"])
      BY <1>4 DEF Recorded
    <3> DEFINE order == [user |-> row.user, pkg |-> row.pkg, price |-> price,
                         key |-> key, back |-> 0, status |-> "success"]
    <3>2. order.user = row.user /\ order.pkg = row.pkg /\ order.status = "success"
      OBVIOUS
    <3> HIDE DEF order
    <3>3. orders'[n] = order /\ n \in DOMAIN orders'
      BY <2>1, <3>1 DEF order
    <3> QED BY <1>4, <3>2, <3>3 DEF Recorded
  <2>3. row.kind # "plan" => row.order = NoOrder
    BY <1>4 DEF Recorded
  <2>4. DOMAIN more = DOMAIN buckets \cup {nextBucket} /\ nextBucket \notin DOMAIN buckets
    BY TableFacts DEF With
  <2>5. more[nextBucket] = row /\ \A i \in DOMAIN buckets : more[i] = buckets[i]
    BY <2>4 DEF With
  <2>6. Follows(more, buckets', now)
    BY <1>4 DEF Inserted
  <2> HIDE DEF more, n
  <2>7. ASSUME NEW i \in DOMAIN more PROVE OrderedRow(more[i], orders')
    <3>1. CASE i = nextBucket
      BY <2>2, <2>3, <2>5, <3>1 DEF OrderedRow
    <3>2. CASE i \in DOMAIN buckets
      <4>1. OrderedRow(buckets[i], orders) /\ more[i] = buckets[i]
        BY <2>5, <3>2 DEF OrdersInv
      <4> QED BY <1>4, <4>1 DEF OrderedRow, OrdersKept
    <3> QED BY <2>4, <3>1, <3>2
  <2>8. \A i \in DOMAIN buckets : buckets[i].kind = "plan" => buckets[i].order # n
    BY <2>1 DEF OrdersInv, OrderedRow, n
  <2>9. OneBucketEach(more)
    BY <2>2, <2>4, <2>5, <2>8 DEF OneBucketEach, OrdersInv
  <2>10. ASSUME NEW i \in DOMAIN buckets' PROVE OrderedRow(buckets'[i], orders')
    BY <2>6, <2>7 DEF OrderedRow, Follows, Evolves
  <2>11. OneBucketEach(buckets')
    BY <2>6, <2>9 DEF OneBucketEach, Follows, Evolves
  <2> QED BY <2>10, <2>11 DEF OrdersInv
<1> QED BY <1>2, <1>3, <1>4, OnlyRefundsEdit, TableMoves DEF TableMove

\* As long as no administrator tops a bucket up, refunding an order removes the bucket it
\* was granted, at once and for good
THEOREM RefundsRevoke ==
    ASSUME NoTopUps
    PROVE  Spec => []RefundRevokes
<1>1. Init => Shares(buckets) /\ OrdersInv
  BY SharesStart DEF Init, OrdersInv, OrderedRow, OneBucketEach, FreeRow, Ancillary
<1>2. Typed /\ TableInv /\ Shares(buckets) /\ [Next]_vars => Shares(buckets)'
  BY SharesStay DEF Shares
<1>3. Typed /\ TableInv /\ Shares(buckets) /\ OrdersInv /\ [Next]_vars => OrdersInv'
  BY OrdersStay
<1>4. Typed /\ OrdersInv => RefundRevokes
  <2> SUFFICES ASSUME Typed, OrdersInv, NEW i \in DOMAIN buckets,
                      buckets[i].order \in DOMAIN orders
               PROVE  orders[buckets[i].order].status = "success"
    BY DEF RefundRevokes
  <2>1. 0 \notin DOMAIN orders
    BY DEF Typed, BookTypeOK
  <2> QED BY <2>1 DEF OrdersInv, OrderedRow, NoOrder
<1> QED BY <1>1, <1>2, <1>3, <1>4, TableIsRight, BookIsTyped, PTL DEF Spec

------------------------------------------------------------------------------
(* The users.* aggregate                                                     *)

\* A function takes finitely many values on a finite set
LEMMA ImageIsFinite ==
    ASSUME NEW f, NEW S, IsFiniteSet(S)
    PROVE  IsFiniteSet({f[x] : x \in S})
<1> DEFINE g == [x \in S |-> f[x]]
           T == {f[x] : x \in S}
<1>1. g \in Surjection(S, T)
  BY DEF Surjection
<1> HIDE DEF g, T
<1>2. IsFiniteSet(T)
  BY <1>1, FS_Surjection
<1> QED BY <1>2 DEF T

LimitsOf(bk) == [i \in DOMAIN bk |-> bk[i].limit]
UsesOf(bk) == [i \in DOMAIN bk |-> bk[i].used]
TermsOf(bk) == [i \in DOMAIN bk |-> bk[i].dur]

\* The traffic a set of rows may carry is a sum
LEMMA LimitsAreSummed ==
    ASSUME NEW bk, NEW S, S \subseteq DOMAIN bk
    PROVE  TotalOf(bk, S, LAMBDA b : b.limit) = SumOver(LimitsOf(bk), S)
<1> DEFINE f == LimitsOf(bk)
<1>1. ASSUME NEW g
      PROVE  [s \in SUBSET S |-> IF s = {} THEN 0 ELSE bk[Any(s)].limit + g[s \ {Any(s)}]]
                = [s \in SUBSET S |-> Entry(f, g, s)]
  <2>1. ASSUME NEW s \in SUBSET S, s # {} PROVE bk[Any(s)].limit = f[Any(s)]
    BY <2>1 DEF Any, LimitsOf
  <2> QED BY <2>1 DEF Entry
<1>2. (CHOOSE g : g = [s \in SUBSET S |-> IF s = {} THEN 0
                                          ELSE bk[Any(s)].limit + g[s \ {Any(s)}]])
         = CHOOSE g : g = [s \in SUBSET S |-> Entry(f, g, s)]
  BY Zenon, <1>1
<1>3. TotalOf(bk, S, LAMBDA b : b.limit)
         = (CHOOSE g : g = [s \in SUBSET S |-> IF s = {} THEN 0
                                               ELSE bk[Any(s)].limit + g[s \ {Any(s)}]])[S]
  BY Zenon DEF TotalOf, MapThenSumSet, MapThenFoldSet, Any
<1> QED BY Zenon, <1>2, <1>3 DEF SumOver, Partial

\* So is the traffic it has carried
LEMMA UsesAreSummed ==
    ASSUME NEW bk, NEW S, S \subseteq DOMAIN bk
    PROVE  TotalOf(bk, S, LAMBDA b : b.used) = SumOver(UsesOf(bk), S)
<1> DEFINE f == UsesOf(bk)
<1>1. ASSUME NEW g
      PROVE  [s \in SUBSET S |-> IF s = {} THEN 0 ELSE bk[Any(s)].used + g[s \ {Any(s)}]]
                = [s \in SUBSET S |-> Entry(f, g, s)]
  <2>1. ASSUME NEW s \in SUBSET S, s # {} PROVE bk[Any(s)].used = f[Any(s)]
    BY <2>1 DEF Any, UsesOf
  <2> QED BY <2>1 DEF Entry
<1>2. (CHOOSE g : g = [s \in SUBSET S |-> IF s = {} THEN 0
                                          ELSE bk[Any(s)].used + g[s \ {Any(s)}]])
         = CHOOSE g : g = [s \in SUBSET S |-> Entry(f, g, s)]
  BY Zenon, <1>1
<1>3. TotalOf(bk, S, LAMBDA b : b.used)
         = (CHOOSE g : g = [s \in SUBSET S |-> IF s = {} THEN 0
                                               ELSE bk[Any(s)].used + g[s \ {Any(s)}]])[S]
  BY Zenon DEF TotalOf, MapThenSumSet, MapThenFoldSet, Any
<1> QED BY Zenon, <1>2, <1>3 DEF SumOver, Partial

\* And the time waiting buckets add
LEMMA TermsAreSummed ==
    ASSUME NEW bk, NEW S, S \subseteq DOMAIN bk
    PROVE  TotalOf(bk, S, LAMBDA b : b.dur) = SumOver(TermsOf(bk), S)
<1> DEFINE f == TermsOf(bk)
<1>1. ASSUME NEW g
      PROVE  [s \in SUBSET S |-> IF s = {} THEN 0 ELSE bk[Any(s)].dur + g[s \ {Any(s)}]]
                = [s \in SUBSET S |-> Entry(f, g, s)]
  <2>1. ASSUME NEW s \in SUBSET S, s # {} PROVE bk[Any(s)].dur = f[Any(s)]
    BY <2>1 DEF Any, TermsOf
  <2> QED BY <2>1 DEF Entry
<1>2. (CHOOSE g : g = [s \in SUBSET S |-> IF s = {} THEN 0
                                          ELSE bk[Any(s)].dur + g[s \ {Any(s)}]])
         = CHOOSE g : g = [s \in SUBSET S |-> Entry(f, g, s)]
  BY Zenon, <1>1
<1>3. TotalOf(bk, S, LAMBDA b : b.dur)
         = (CHOOSE g : g = [s \in SUBSET S |-> IF s = {} THEN 0
                                               ELSE bk[Any(s)].dur + g[s \ {Any(s)}]])[S]
  BY Zenon DEF TotalOf, MapThenSumSet, MapThenFoldSet, Any
<1> QED BY Zenon, <1>2, <1>3 DEF SumOver, Partial

\* What recomputeUserAggregate writes is a row of three natural numbers
LEMMA AggregateTyped ==
    ASSUME NEW bk, NEW s, RowsOK(bk, s), Finite(bk), NEW u, NEW t \in Nat
    PROVE  Aggregate(bk, u, t) \in [limit : Nat, used : Nat, expiry : Nat]
<1> DEFINE rows == PaidRows(bk, u)
<1>1. rows \subseteq DOMAIN bk /\ IsFiniteSet(rows)
  <2>1. rows \subseteq DOMAIN bk
    BY DEF PaidRows, Owned
  <2> QED BY <2>1, FS_Subset DEF Finite
<1>2. \A i \in DOMAIN bk : /\ bk[i].limit \in Nat /\ bk[i].used \in Nat /\ bk[i].dur \in Nat
                           /\ bk[i].expiry \in Int
  BY RowFields DEF RowsOK, RowOK
<1> HIDE DEF rows
<1>3. PaidLimit(bk, u) \in Nat
  <2>1. PaidLimit(bk, u) = SumOver(LimitsOf(bk), rows)
    BY Zenon, <1>1, LimitsAreSummed DEF PaidLimit, rows
  <2>2. \A i \in rows : LimitsOf(bk)[i] \in Nat
    BY <1>1, <1>2 DEF LimitsOf
  <2> QED BY <1>1, <2>1, <2>2, SumIsNat
<1>4. PaidUsed(bk, u) \in Nat
  <2>1. PaidUsed(bk, u) = SumOver(UsesOf(bk), rows)
    BY Zenon, <1>1, UsesAreSummed DEF PaidUsed, rows
  <2>2. \A i \in rows : UsesOf(bk)[i] \in Nat
    BY <1>1, <1>2 DEF UsesOf
  <2> QED BY <1>1, <2>1, <2>2, SumIsNat
<1>5. ASSUME NEW T, IsFiniteSet(T), T \subseteq Int PROVE Max({0} \cup T) \in Nat
  <2> DEFINE Z == {0} \cup T
  <2>1. IsFiniteSet(Z)
    BY <1>5, FS_Singleton, FS_Union
  <2>2. Z \subseteq Int /\ Z # {} /\ 0 \in Z
    BY <1>5
  <2> HIDE DEF Z
  <2>3. Max(Z) \in Z /\ 0 <= Max(Z)
    BY <2>1, <2>2, Extremes
  <2> QED BY <2>2, <2>3 DEF Z
<1>6. ASSUME NEW ids, ids \subseteq DOMAIN bk
      PROVE  {bk[i].expiry : i \in ids} \subseteq Int /\ IsFiniteSet({bk[i].expiry : i \in ids})
  <2>1. IsFiniteSet(ids)
    BY <1>6, FS_Subset DEF Finite
  <2> DEFINE f == [i \in ids |-> bk[i].expiry]
  <2>2. {bk[i].expiry : i \in ids} = {f[i] : i \in ids}
    OBVIOUS
  <2> HIDE DEF f
  <2>3. IsFiniteSet({f[i] : i \in ids})
    BY <2>1, ImageIsFinite
  <2> QED BY <1>2, <1>6, <2>2, <2>3
<1>7. ASSUME NEW l PROVE LineEnd(bk, u, l, t) \in Nat
  <2> DEFINE running == {bk[i].expiry : i \in {j \in ActiveIn(bk, u, l) : NotExpired(bk[j], t)}}
             current == Max({0} \cup running)
             queued == QueuedIn(bk, u, l)
  <2>1. current \in Nat
    <3>1. {j \in ActiveIn(bk, u, l) : NotExpired(bk[j], t)} \subseteq DOMAIN bk
      BY DEF ActiveIn, InLine, Owned
    <3>2. IsFiniteSet(running) /\ running \subseteq Int
      BY <1>6, <3>1
    <3> QED BY <1>5, <3>2
  <2>2. TotalOf(bk, queued, LAMBDA b : b.dur) \in Nat
    <3>1. queued \subseteq DOMAIN bk
      BY DEF QueuedIn, InLine, Owned
    <3>2. IsFiniteSet(queued)
      BY <3>1, FS_Subset DEF Finite
    <3>3. \A i \in queued : TermsOf(bk)[i] \in Nat
      BY <1>2, <3>1 DEF TermsOf
    <3> HIDE DEF queued
    <3>4. SumOver(TermsOf(bk), queued) \in Nat
      BY <3>2, <3>3, SumIsNat
    <3> QED BY Zenon, <3>1, <3>4, TermsAreSummed
  <2> DEFINE total == TotalOf(bk, queued, LAMBDA b : b.dur)
             from == IF current = 0 THEN t ELSE current
  <2>3. LineEnd(bk, u, l, t) = IF current = 0 /\ queued = {} THEN 0 ELSE from + total
    BY Zenon DEF LineEnd
  <2> HIDE DEF current, queued, total
  <2> QED BY <2>1, <2>2, <2>3 DEF total
<1>8. QueueEnd(bk, u, t) \in Nat
  <2> DEFINE plans == {i \in Owned(bk, u) : bk[i].kind = "plan"}
             live == {j \in plans : bk[j].status # "retired"}
             lines == {bk[i].line : i \in live}
             full == {j \in plans : bk[j].limit > 0}
             ends == {bk[i].expiry : i \in full}
             lasts == {LineEnd(bk, u, l, t) : l \in lines}
  <2>1. full \subseteq DOMAIN bk /\ live \subseteq DOMAIN bk
    BY DEF Owned
  <2>2. IsFiniteSet(ends) /\ ends \subseteq Int
    BY <1>6, <2>1
  <2>3. IsFiniteSet(lines)
    <3>1. IsFiniteSet(live)
      BY <2>1, FS_Subset DEF Finite
    <3> DEFINE f == [i \in live |-> bk[i].line]
    <3>2. lines = {f[i] : i \in live}
      OBVIOUS
    <3> HIDE DEF f, live, lines
    <3> QED BY <3>1, <3>2, ImageIsFinite
  <2> HIDE DEF lines
  <2>4. IsFiniteSet(lasts)
    <3> DEFINE f == [l \in lines |-> LineEnd(bk, u, l, t)]
    <3>1. lasts = {f[l] : l \in lines}
      OBVIOUS
    <3> HIDE DEF f, lasts
    <3> QED BY <2>3, <3>1, ImageIsFinite
  <2>5. lasts \subseteq Int
    BY <1>7
  <2>6. QueueEnd(bk, u, t) = Max({0} \cup ends \cup lasts)
    BY Zenon DEF QueueEnd, lines
  <2>7. {0} \cup ends \cup lasts = {0} \cup (ends \cup lasts)
    OBVIOUS
  <2> HIDE DEF ends, lasts
  <2>8. IsFiniteSet(ends \cup lasts) /\ ends \cup lasts \subseteq Int
    BY <2>2, <2>4, <2>5, FS_Union
  <2> QED BY <1>5, <2>6, <2>7, <2>8
<1> QED BY <1>3, <1>4, <1>8 DEF Aggregate

------------------------------------------------------------------------------
(* One account's transaction leaves the rows of the others alone             *)

OnlyOf(bk, next, u) ==
    \A v \in Users \ {u} :
        /\ Owned(next, v) = Owned(bk, v)
        /\ \A i \in Owned(bk, v) : next[i] = bk[i]

\* Two changes of one account's rows make one
LEMMA OnlyOfTwice ==
    ASSUME NEW a, NEW b, NEW c, NEW u, OnlyOf(a, b, u), OnlyOf(b, c, u)
    PROVE  OnlyOf(a, c, u)
BY DEF OnlyOf

\* What leaves every other row as it was, and gives none away, is a change of one account
LEMMA RowsOfOne ==
    ASSUME NEW bk, NEW next, NEW t, NEW u, Follows(bk, next, t),
           \A i \in DOMAIN bk : bk[i].user # u => i \in DOMAIN next /\ next[i] = bk[i]
    PROVE  OnlyOf(bk, next, u)
<1>1. \A i \in DOMAIN next : i \in DOMAIN bk /\ next[i].user = bk[i].user
  BY DEF Follows, Evolves
<1> QED BY <1>1 DEF OnlyOf, Owned

\* advanceUserQueues works for one account
LEMMA AdvanceOfOne ==
    ASSUME NEW bk, NEW t \in Nat, NEW s \in Nat, t <= s, RowsOK(bk, s), Finite(bk), NEW u
    PROVE  OnlyOf(bk, Advance(bk, u, t, s), u)
<1> DEFINE handed == HandOver(bk, u, t, s)
<1>1. Follows(bk, Advance(bk, u, t, s), s) /\ Follows(bk, handed, s)
  BY AdvanceFollows, HandOverFollows
<1>2. \A i \in DOMAIN bk : bk[i].user # u => i \in DOMAIN handed /\ handed[i] = bk[i]
  BY DEF HandOver
<1>3. Advance(bk, u, t, s) = RefreshLimits(handed, Owned(handed, u))
  BY DEF Advance
<1>4. \A i \in DOMAIN handed : handed[i].user = bk[i].user
  BY <1>1 DEF Follows, Evolves
<1> HIDE DEF handed
<1>5. ASSUME NEW i \in DOMAIN bk, bk[i].user # u
      PROVE  i \in DOMAIN RefreshLimits(handed, Owned(handed, u))
             /\ RefreshLimits(handed, Owned(handed, u))[i] = bk[i]
  <2>1. i \in DOMAIN handed /\ handed[i] = bk[i] /\ i \notin Owned(handed, u)
    BY <1>2, <1>5 DEF Owned
  <2> QED BY <2>1 DEF RefreshLimits
<1> QED BY <1>1, <1>3, <1>5, RowsOfOne

\* resetUserPeriods works for one account
LEMMA ResetOfOne ==
    ASSUME NEW bk, NEW t \in Nat, NEW s, RowsOK(bk, s), NEW u
    PROVE  OnlyOf(bk, ResetPeriods(bk, u, t), u)
<1> DEFINE due == DuePeriods(bk, u, t)
           next == [i \in DOMAIN bk |-> IF i \in due THEN NextPeriod(bk[i], t) ELSE bk[i]]
<1>1. Follows(bk, ResetPeriods(bk, u, t), s)
  BY ResetFollows
<1>2. ResetPeriods(bk, u, t) = IF due = {} THEN bk ELSE RefreshLimits(next, Owned(next, u))
  BY DEF ResetPeriods
<1>3. ASSUME NEW i \in DOMAIN bk, bk[i].user # u
      PROVE  i \in DOMAIN ResetPeriods(bk, u, t) /\ ResetPeriods(bk, u, t)[i] = bk[i]
  <2>1. i \in DOMAIN next /\ next[i] = bk[i]
    BY <1>3 DEF DuePeriods, Owned
  <2> HIDE DEF next, due
  <2>2. i \notin Owned(next, u)
    BY <1>3, <2>1 DEF Owned
  <2> QED BY <1>2, <2>1, <2>2 DEF RefreshLimits
<1> QED BY <1>1, <1>3, RowsOfOne

\* Undoing an order works for its account
LEMMA ReverseOfOne ==
    ASSUME NEW bk, NEW t \in Nat, RowsOK(bk, t), Finite(bk), NEW u, NEW p, NEW o
    PROVE  OnlyOf(bk, ReverseOrder(bk, u, p, o, t), u)
<1>1. OnlyOf(bk, ReversePlan(bk, u, p, t), u)
  <2>1. Follows(bk, ReversePlan(bk, u, p, t), t)
    BY ReversePlanFollows
  <2>2. \A i \in PlansOf(bk, u, p) : bk[i].user = u
    BY DEF PlansOf, Owned
  <2>3. ASSUME NEW i \in DOMAIN bk, bk[i].user # u
        PROVE  i \in DOMAIN ReversePlan(bk, u, p, t) /\ ReversePlan(bk, u, p, t)[i] = bk[i]
    <3>1. CASE ReversePlan(bk, u, p, t) = bk
      BY <2>3, <3>1
    <3>2. ASSUME NEW j \in PlansOf(bk, u, p), ReversePlan(bk, u, p, t) = Without(bk, {j})
          PROVE  i \in DOMAIN ReversePlan(bk, u, p, t) /\ ReversePlan(bk, u, p, t)[i] = bk[i]
      BY <2>2, <2>3, <3>2 DEF Without
    <3>3. ASSUME NEW j \in PlansOf(bk, u, p),
                 ReversePlan(bk, u, p, t) = [bk EXCEPT ![j] = Clawed(bk[j], p, t)]
          PROVE  i \in DOMAIN ReversePlan(bk, u, p, t) /\ ReversePlan(bk, u, p, t)[i] = bk[i]
      BY <2>2, <2>3, <3>3
    <3> QED BY <3>1, <3>2, <3>3, ReversePlanCases
  <2> QED BY <2>1, <2>3, RowsOfOne
<1>2. ASSUME NEW j \in Owned(bk, u)
      PROVE  OnlyOf(bk, Advance(Without(bk, {j}), u, t, t), u)
  <2>1. OnlyOf(bk, Without(bk, {j}), u)
    BY <1>2 DEF OnlyOf, Owned, Without
  <2>2. RowsOK(Without(bk, {j}), t) /\ Finite(Without(bk, {j}))
    BY WithoutFollows, FollowsOK, StaysFinite
  <2> QED BY <2>1, <2>2, AdvanceOfOne, OnlyOfTwice
<1> DEFINE own == OfOrder(bk, u, o)
<1>3. own # {} => Min(own) \in Owned(bk, u)
  <2>1. own \in SUBSET DOMAIN bk /\ own \subseteq Owned(bk, u)
    BY DEF OfOrder, Owned
  <2> HIDE DEF own
  <2> QED BY <2>1, NewestIsOne
<1>4. ReverseOrder(bk, u, p, o, t) = IF own = {} \/ LooksMerged(bk[Min(own)], p)
                                     THEN ReversePlan(bk, u, p, t)
                                     ELSE Advance(Without(bk, {Min(own)}), u, t, t)
  BY DEF ReverseOrder
<1> HIDE DEF own
<1> QED BY <1>1, <1>2, <1>3, <1>4

\* subFromPool works for one account
LEMMA PoolOfOne ==
    ASSUME NEW bk, NEW t, RowsOK(bk, t), Finite(bk), NEW u, NEW bytes \in Nat
    PROVE  OnlyOf(bk, ReversePool(bk, u, bytes), u)
<1> DEFINE ids == PoolsOf(bk, u)
<1>1. Follows(bk, ReversePool(bk, u, bytes), t)
  BY ReversePoolFollows
<1>2. ids # {} => bk[Min(ids)].user = u
  <2>1. ids \in SUBSET DOMAIN bk /\ ids \subseteq Owned(bk, u)
    BY DEF PoolsOf, Owned
  <2> HIDE DEF ids
  <2>2. ids # {} => Min(ids) \in Owned(bk, u)
    BY <2>1, NewestIsOne
  <2> QED BY <2>2 DEF Owned
<1>3. \A i \in DOMAIN bk : bk[i].user # u =>
         i \in DOMAIN ReversePool(bk, u, bytes) /\ ReversePool(bk, u, bytes)[i] = bk[i]
  BY <1>2 DEF ReversePool
<1> QED BY <1>1, <1>3, RowsOfOne

------------------------------------------------------------------------------
(* The two writers of the aggregate                                          *)

\* Rows are added or changed, but no plan bucket
PlansAlone ==
    /\ \A i \in DOMAIN buckets' :
          buckets'[i].kind = "plan" => i \in DOMAIN buckets /\ buckets'[i] = buckets[i]
    /\ \A i \in DOMAIN buckets :
          buckets[i].kind = "plan" => i \in DOMAIN buckets' /\ buckets'[i] = buckets[i]

\* The borrowable limits are refreshed last
RefreshedLast(u) ==
    \E m : RowsOK(m, now) /\ buckets' = RefreshLimits(m, Owned(m, u))

\* A refund or a retirement removes rows
Removes ==
    /\ \E ids : buckets' = Without(buckets, ids)
    /\ "refund" \in Exercised \/ retire # {}

Recomputed(u, t) ==
    /\ Recompute(u, t)
    /\ OnlyOf(buckets, buckets', u)
    /\ RefreshedLast(u) \/ PlansAlone \/ Removes \/ ClawsBack

Metering(i, d) ==
    /\ buckets' = [buckets EXCEPT ![i].used = buckets[i].used + d]
    /\ mirror' = [mirror EXCEPT ![buckets[i].user].used =
                     mirror[buckets[i].user].used + IF buckets[i].kind = "free" THEN 0 ELSE d]

\* What is written without the aggregate: limits that are refreshed while nothing is
\* promoted, and a package's line
Unmirrored ==
    /\ UNCHANGED mirror
    /\ \/ UNCHANGED buckets
       \/ Switches
       \/ \E u \in Users : buckets' = RefreshLimits(buckets, Owned(buckets, u))
       \/ Moves

MirrorMove ==
    \/ \E u \in Users, t \in Nat : Recomputed(u, t)
    \/ \E i \in DOMAIN buckets, d \in UsageDeltas : Metering(i, d)
    \/ Unmirrored

\* advanceUserQueues refreshes the limits of the account last
LEMMA AdvanceRefreshes ==
    ASSUME NEW bk, NEW t \in Nat, t <= now, now \in Nat, RowsOK(bk, now), Finite(bk), NEW u,
           buckets' = Advance(bk, u, t, now)
    PROVE  RefreshedLast(u)
<1>1. RowsOK(HandOver(bk, u, t, now), now)
  BY HandOverFollows, FollowsOK
<1> QED BY <1>1 DEF RefreshedLast, Advance

\* Entitling an account recomputes its aggregate
LEMMA EntitleMirrors ==
    ASSUME TableInv, NEW u \in Users, NEW p \in Packages, NEW line \in STRING,
           NEW o \in Nat, NEW t \in Nat, t <= now, Entitle(u, p, line, o, t)
    PROVE  Recomputed(u, t)
<1> DEFINE row == QueuedPlan(buckets, u, p, line, o)
           pool == Ancillary(u, "pool", Catalog[p].traffic)
           pools == PoolsOf(buckets, u)
<1>0. RowsOK(buckets, now) /\ Finite(buckets) /\ now \in Nat /\ nextBucket \in Nat
      /\ nextBucket \notin DOMAIN buckets
  BY TableFacts DEF TableInv
<1>1. Recompute(u, t)
  BY DEF Entitle
<1>2. ASSUME NEW r, r.user = u PROVE OnlyOf(buckets, With(buckets, nextBucket, r), u)
  BY <1>0, <1>2 DEF OnlyOf, Owned, With
<1>3. row.user = u /\ RowOK(row, now) /\ pool.user = u
  BY <1>0, QueuedPlanOK DEF QueuedPlan, Ancillary
<1>4. CASE Catalog[p].type = "plan"
  <2>1. buckets' = Advance(With(buckets, nextBucket, row), u, t, now)
    BY <1>4 DEF Entitle
  <2> HIDE DEF row
  <2>2. RowsOK(With(buckets, nextBucket, row), now) /\ Finite(With(buckets, nextBucket, row))
    BY <1>0, <1>3, WithOK
  <2>3. OnlyOf(With(buckets, nextBucket, row), buckets', u)
    BY <1>0, <2>1, <2>2, AdvanceOfOne
  <2>4. RefreshedLast(u)
    BY <1>0, <2>1, <2>2, AdvanceRefreshes
  <2> QED BY <1>1, <1>2, <1>3, <2>3, <2>4, OnlyOfTwice DEF Recomputed
<1>5. CASE Catalog[p].type # "plan" /\ pools = {}
  <2>1. buckets' = With(buckets, nextBucket, pool)
    BY <1>5 DEF Entitle
  <2>2. pool.kind # "plan"
    BY DEF Ancillary
  <2> HIDE DEF pool
  <2>3. PlansAlone
    BY <1>0, <2>1, <2>2 DEF PlansAlone, With
  <2> QED BY <1>1, <1>2, <1>3, <2>1, <2>3 DEF Recomputed
<1>6. CASE Catalog[p].type # "plan" /\ pools # {}
  <2>1. buckets' = [buckets EXCEPT ![Min(pools)].limit =
                       buckets[Min(pools)].limit + Catalog[p].traffic]
    BY <1>6 DEF Entitle
  <2>2. Min(pools) \in pools
    <3>1. pools \in SUBSET DOMAIN buckets
      BY DEF PoolsOf, Owned
    <3> HIDE DEF pools
    <3> QED BY <1>0, <1>6, <3>1, NewestIsOne
  <2>3. /\ Min(pools) \in DOMAIN buckets /\ buckets[Min(pools)].user = u
        /\ buckets[Min(pools)].kind = "pool"
    BY <2>2 DEF PoolsOf, Owned
  <2> HIDE DEF pools
  <2>4. buckets[Min(pools)] \in BucketRow
    BY <1>0, <2>3 DEF RowsOK, RowOK
  <2>5. /\ DOMAIN buckets' = DOMAIN buckets /\ buckets'[Min(pools)].user = u
        /\ buckets'[Min(pools)].kind = "pool"
        /\ \A i \in DOMAIN buckets : i # Min(pools) => buckets'[i] = buckets[i]
    BY <2>1, <2>3, <2>4 DEF BucketRow
  <2>6. OnlyOf(buckets, buckets', u)
    BY <2>3, <2>5 DEF OnlyOf, Owned
  <2>7. PlansAlone
    BY <2>3, <2>5 DEF PlansAlone
  <2> QED BY <1>1, <2>6, <2>7 DEF Recomputed
<1> QED BY <1>4, <1>5, <1>6

\* A refund recomputes the aggregate of the order's account
LEMMA RefundMirrors ==
    ASSUME Typed, TableInv, NEW o \in DOMAIN orders, NEW mode, RefundTx(o, mode),
           "refund" \in Exercised \/ retire # {}
    PROVE  orders[o].user \in Users /\ Recomputed(orders[o].user, now)
<1>0. RowsOK(buckets, now) /\ Finite(buckets) /\ now \in Nat /\ now <= now
  BY TableFacts DEF TableInv
<1>1. orders[o].user \in Users /\ orders[o].pkg \in Packages
  BY OrderTyped DEF Typed, OrderRow
<1>2. Catalog[orders[o].pkg].traffic \in Nat
  BY <1>1, CatalogAssumption
<1> DEFINE u == orders[o].user
           p == orders[o].pkg
           own == OfOrder(buckets, u, o)
           less == Without(buckets, {Min(own)})
           pools == PoolsOf(buckets, u)
           lim == Larger(buckets[Min(pools)].limit - Catalog[p].traffic,
                         Larger(buckets[Min(pools)].used, 0))
<1>3. /\ buckets' = IF Catalog[p].type = "plan" THEN ReverseOrder(buckets, u, p, o, now)
                    ELSE ReversePool(buckets, u, Catalog[p].traffic)
      /\ Recompute(u, now)
  BY DEF RefundTx
<1>4. OnlyOf(buckets, buckets', u)
  BY <1>0, <1>1, <1>2, <1>3, ReverseOfOne, PoolOfOne
<1>5. CASE Catalog[p].type = "plan" /\ buckets' = ReversePlan(buckets, u, p, now)
  <2>1. ASSUME buckets' = buckets PROVE Recomputed(u, now)
    BY <1>3, <1>4, <2>1 DEF Recomputed, PlansAlone
  <2>2. ASSUME NEW j, buckets' = Without(buckets, {j})
        PROVE  Recomputed(u, now)
    BY <1>3, <1>4, <2>2 DEF Recomputed, Removes
  <2>3. ASSUME NEW j \in PlansOf(buckets, u, p),
               buckets' = [buckets EXCEPT ![j] = Clawed(buckets[j], p, now)],
               ~ (/\ Larger(buckets[j].limit - Catalog[p].traffic, Larger(buckets[j].used, 0))
                            <= buckets[j].used
                  /\ buckets[j].expiry - Catalog[p].dur <= now)
        PROVE  Recomputed(u, now)
    <3>1. j \in DOMAIN buckets /\ buckets[j].kind = "plan" /\ buckets[j].pkg = p
      BY DEF PlansOf, Owned
    <3>2. Shares(buckets) => ~SharesStayWhole /\ ShareRow(Clawed(buckets[j], p, now))
      BY <1>0, <2>3, <3>1, ClawedShares DEF Shares, RowsOK
    <3>3. ClawsBack
      BY <2>3, <3>1, <3>2 DEF ClawsBack
    <3> QED BY <1>3, <1>4, <3>3 DEF Recomputed
  <2>4. \/ buckets' = buckets
        \/ \E j \in PlansOf(buckets, u, p) :
              \/ buckets' = Without(buckets, {j})
              \/ /\ buckets' = [buckets EXCEPT ![j] = Clawed(buckets[j], p, now)]
                 /\ ~ (/\ Larger(buckets[j].limit - Catalog[p].traffic,
                                 Larger(buckets[j].used, 0)) <= buckets[j].used
                       /\ buckets[j].expiry - Catalog[p].dur <= now)
    BY <1>0, <1>5, ReversePlanCases
  <2> HIDE DEF u, p
  <2>5. Recomputed(u, now)
    BY <2>1, <2>2, <2>3, <2>4
  <2> QED BY <1>1, <2>5 DEF u
<1>6. CASE Catalog[p].type = "plan" /\ buckets' = Advance(less, u, now, now)
  <2>1. RowsOK(less, now) /\ Finite(less)
    BY <1>0, WithoutFollows, FollowsOK, StaysFinite
  <2> HIDE DEF less
  <2>2. RefreshedLast(u)
    BY <1>0, <1>6, <2>1, AdvanceRefreshes
  <2> QED BY <1>1, <1>3, <1>4, <2>2 DEF Recomputed
<1>7. CASE Catalog[p].type # "plan"
  <2>1. buckets' = IF pools = {} THEN buckets ELSE [buckets EXCEPT ![Min(pools)].limit = lim]
    BY <1>3, <1>7 DEF ReversePool
  <2>2. CASE pools = {}
    BY <1>1, <1>3, <1>4, <2>1, <2>2 DEF Recomputed, PlansAlone
  <2>3. CASE pools # {}
    <3> DEFINE j == Min(pools)
    <3>1. pools \in SUBSET DOMAIN buckets /\ \A i \in pools : buckets[i].kind = "pool"
      BY DEF PoolsOf, Owned
    <3> HIDE DEF pools
    <3>2. j \in DOMAIN buckets /\ buckets[j].kind = "pool"
      BY <1>0, <2>3, <3>1, NewestIsOne
    <3>3. buckets' = [buckets EXCEPT ![j].limit = lim]
      BY <2>1, <2>3
    <3>4. buckets[j] \in BucketRow
      BY <1>0, <3>2 DEF RowsOK, RowOK
    <3> HIDE DEF j, lim
    <3>5. /\ DOMAIN buckets' = DOMAIN buckets /\ buckets'[j].kind = "pool"
          /\ \A i \in DOMAIN buckets : i # j => buckets'[i] = buckets[i]
      BY <3>2, <3>3, <3>4 DEF BucketRow
    <3>6. PlansAlone
      BY <3>2, <3>5 DEF PlansAlone
    <3> QED BY <1>1, <1>3, <1>4, <3>6 DEF Recomputed
  <2> QED BY <2>2, <2>3
<1> QED BY <1>1, <1>3, <1>5, <1>6, <1>7 DEF ReverseOrder

\* An administrator's change of one account's rows recomputes its aggregate
LEMMA ChangeMirrors ==
    ASSUME TableInv, NEW bk, NEW u, ChangeTable(bk, u), Follows(buckets, bk, now),
           OnlyOf(buckets, bk, u)
    PROVE  Recomputed(u, now)
<1>1. RowsOK(bk, now) /\ Finite(bk) /\ now \in Nat /\ now <= now
  BY TableFacts, FollowsOK, StaysFinite
<1>2. OnlyOf(bk, Advance(bk, u, now, now), u)
  BY <1>1, AdvanceOfOne
<1>3. buckets' = Advance(bk, u, now, now) /\ Recompute(u, now)
  BY DEF ChangeTable
<1>4. RefreshedLast(u)
  BY <1>1, <1>3, AdvanceRefreshes
<1> QED BY <1>2, <1>3, <1>4, OnlyOfTwice DEF Recomputed

\* Advancing an account's queues recomputes its aggregate when something was promoted
LEMMA AdvanceTxMirrors ==
    ASSUME TableInv, NEW u \in Users, NEW t \in Nat, t <= now, AdvanceTx(u, t)
    PROVE  Recomputed(u, t) \/ Unmirrored
<1>0. RowsOK(buckets, now) /\ Finite(buckets) /\ now \in Nat
  BY TableFacts DEF TableInv
<1>1. CASE QueueDue(buckets, u, t)
  BY <1>0, <1>1, AdvanceOfOne, AdvanceRefreshes DEF AdvanceTx, Recomputed
<1>2. CASE ~QueueDue(buckets, u, t)
  <2>1. DueLines(buckets, u, t) = {}
    BY <1>2 DEF QueueDue
  <2>2. HandOver(buckets, u, t, now) = [i \in DOMAIN buckets |-> buckets[i]]
    BY <2>1 DEF HandOver
  <2>3. RefreshLimits(HandOver(buckets, u, t, now), Owned(HandOver(buckets, u, t, now), u))
          = RefreshLimits(buckets, Owned(buckets, u))
    BY <2>2 DEF RefreshLimits, Owned, HasNextPeriod, QueuedIn, InLine
  <2> QED BY <1>2, <2>3 DEF AdvanceTx, Advance, Unmirrored
<1> QED BY <1>1, <1>2

\* Resetting an account's periods recomputes its aggregate when one was due
LEMMA ResetTxMirrors ==
    ASSUME TableInv, NEW u \in Users, NEW t \in Nat, ResetTx(u, t)
    PROVE  Recomputed(u, t) \/ Unmirrored
<1> DEFINE due == DuePeriods(buckets, u, t)
           next == [i \in DOMAIN buckets |->
                       IF i \in due THEN NextPeriod(buckets[i], t) ELSE buckets[i]]
<1>0. RowsOK(buckets, now)
  BY DEF TableInv
<1>1. CASE DuePeriods(buckets, u, t) # {}
  <2>1. RowsOK(next, now)
    <3>1. ASSUME NEW i \in DOMAIN buckets PROVE RowOK(next[i], now)
      <4>1. RowOK(buckets[i], now) /\ (i \in due => PeriodDue(buckets[i], t))
        BY <1>0 DEF RowsOK, DuePeriods
      <4> QED BY <4>1, NextPeriodOK
    <3> QED BY <3>1 DEF RowsOK
  <2>2. buckets' = RefreshLimits(next, Owned(next, u))
    BY <1>1 DEF ResetTx, ResetPeriods
  <2> HIDE DEF next, due
  <2>3. RefreshedLast(u)
    BY <2>1, <2>2 DEF RefreshedLast
  <2> QED BY <1>0, <1>1, <2>3, ResetOfOne DEF ResetTx, Recomputed
<1>2. CASE DuePeriods(buckets, u, t) = {}
  BY <1>2 DEF ResetTx, ResetPeriods, Unmirrored
<1> QED BY <1>1, <1>2

\* An administrator's change of a bucket's traffic recomputes its account's aggregate
LEMMA AdjustMirrors ==
    ASSUME TableInv, NEW i \in DOMAIN buckets, NEW d \in TrafficDeltas, AdjustBucketTraffic(i, d)
    PROVE  Recomputed(buckets[i].user, now)
<1>1. PICK row : /\ RowOK(row, now) /\ Evolves(buckets[i], row)
                 /\ ChangeTable([buckets EXCEPT ![i] = row], buckets[i].user)
  BY AdjustedRow
<1>2. Follows(buckets, [buckets EXCEPT ![i] = row], now)
  BY <1>1, RowFollows DEF TableInv
<1>3. OnlyOf(buckets, [buckets EXCEPT ![i] = row], buckets[i].user)
  BY <1>2, RowsOfOne
<1> QED BY <1>1, <1>2, <1>3, ChangeMirrors

\* Every step writes the aggregate in one of the two ways, or leaves it
LEMMA MirrorMoves ==
    ASSUME Typed, TableInv, [Next]_vars
    PROVE  MirrorMove
<1> DEFINE Unmoved == UNCHANGED <<buckets, mirror>>
<1>0. /\ now \in Nat /\ now <= now /\ RowsOK(buckets, now) /\ Finite(buckets)
      /\ sweep.at \in Nat /\ sweep.at <= now /\ \A v \in visit : v.at \in Nat /\ v.at <= now
      /\ \A v \in visit : v.user \in Users
      /\ sweep.todo \subseteq Works
      /\ \A i \in DOMAIN buckets : buckets[i].user \in Users
  <2>1. \A i \in DOMAIN buckets : buckets[i].user \in Users
    BY RowFields DEF TableInv, RowsOK, RowOK
  <2> QED BY <2>1, TableFacts DEF TableInv, JobsTyped
<1>1. Unmoved => MirrorMove
  BY DEF MirrorMove, Unmirrored
<1>2. ASSUME NEW u \in Users, NEW t \in Nat, Recomputed(u, t) PROVE MirrorMove
  BY <1>2 DEF MirrorMove
<1>3. Unmirrored => MirrorMove
  BY DEF MirrorMove
<1>4. ASSUME NEW u, NEW p, NEW type, NEW key, NEW t \in Nat, t <= now,
             Sellable(u, p), Sell(u, p, type, key, t)
      PROVE  MirrorMove
  <2>1. u \in Users /\ p \in Packages /\ Entitle(u, p, pkgs[p].line, Len(orders) + 1, t)
    BY <1>4 DEF Sellable, Sell
  <2>2. pkgs[p].line \in STRING /\ Len(orders) + 1 \in Nat
    BY <2>1 DEF Typed, BookTypeOK, ShopTypeOK, PackageRow
  <2> QED BY <1>2, <1>4, <2>1, <2>2, EntitleMirrors
<1>5. ASSUME NEW o \in DOMAIN orders, NEW mode, RefundTx(o, mode),
             "refund" \in Exercised \/ retire # {}
      PROVE  MirrorMove
  BY <1>0, <1>2, <1>5, RefundMirrors
<1>6. ASSUME NEW bk, NEW u \in Users, ChangeTable(bk, u), Follows(buckets, bk, now),
             OnlyOf(buckets, bk, u)
      PROVE  MirrorMove
  BY <1>0, <1>2, <1>6, ChangeMirrors
<1> HIDE DEF MirrorMove, Unmoved
<1>7. CASE UNCHANGED vars
  BY <1>1, <1>7 DEF vars, table, Unmoved
<1>8. CASE ShopStep
  <2>1. ASSUME NEW r \in reqs, PurchaseSold(r) PROVE MirrorMove
    BY <1>0, <1>4, <2>1 DEF PurchaseSold
  <2>2. ASSUME NEW r \in reqs, PurchaseRefused(r) \/ PurchaseReplayed(r) PROVE Unmoved
    BY <2>2 DEF PurchaseRefused, PurchaseReplayed, table, Unmoved
  <2>3. ASSUME NEW u, NEW p, NEW k, ShopOpen(u, p, k) PROVE Unmoved
    BY <2>3 DEF ShopOpen, table, Unmoved
  <2> QED BY <1>1, <1>8, <2>1, <2>2, <2>3 DEF ShopStep
<1>9. CASE AccountStep
  <2>1. ASSUME NEW g \in grant, AssignPackage(g) PROVE MirrorMove
    <3>1. g.user \in Users /\ g.pkg \in Packages /\ g.line \in STRING
      BY DEF Typed, ShopTypeOK
    <3>2. Len(orders) + 1 \in Nat
      BY DEF Typed, BookTypeOK
    <3>3. Entitle(g.user, g.pkg, g.line, Len(orders) + 1, now)
      BY <2>1 DEF AssignPackage
    <3> QED BY <1>0, <1>2, <3>1, <3>2, <3>3, EntitleMirrors
  <2>2. ASSUME NEW o \in DOMAIN orders, NEW m, RefundOrder(o, m) PROVE MirrorMove
    BY <1>5, <2>2 DEF RefundOrder
  <2>3. ASSUME NEW i \in DOMAIN buckets, DeleteBucket(i) PROVE MirrorMove
    <3>1. OnlyOf(buckets, Without(buckets, {i}), buckets[i].user)
      BY DEF OnlyOf, Owned, Without
    <3>2. Follows(buckets, Without(buckets, {i}), now)
      BY <1>0, WithoutFollows
    <3> QED BY <1>0, <1>6, <2>3, <3>1, <3>2 DEF DeleteBucket
  <2>4. ASSUME NEW i \in DOMAIN buckets, NEW d \in TrafficDeltas, AdjustBucketTraffic(i, d)
        PROVE  MirrorMove
    BY <1>0, <1>2, <2>4, AdjustMirrors
  <2>5. ASSUME NEW i \in DOMAIN buckets, NEW e \in BOOLEAN, SetPlanAutoRenew(i, e)
        PROVE  MirrorMove
    <3>1. Switches /\ UNCHANGED mirror
      <4>1. buckets' = Switched(buckets, buckets[i].user, buckets[i].line, e)
        BY <2>5 DEF SetPlanAutoRenew, Switched
      <4> QED BY <2>5, <4>1 DEF SetPlanAutoRenew, Switches
    <3> QED BY <1>3, <3>1 DEF Unmirrored
  <2>6. ASSUME NEW u, NEW p, NEW a, AssignOpen(u, p) \/ AdjustPoints(u, a) PROVE Unmoved
    BY <2>6 DEF AssignOpen, AdjustPoints, table, Unmoved
  <2> QED BY <1>1, <1>9, <2>1, <2>2, <2>3, <2>4, <2>5, <2>6 DEF AccountStep
<1>10. CASE PeriodStep
  <2>1. ASSUME NEW u \in Users, NEW l, NEW m \in 0..2, SetLineAdvance(u, l, m) PROVE MirrorMove
    <3>1. Follows(buckets, WithLineAdvance(buckets, u, l, m), now)
      BY <1>0, LineAdvanceFollows
    <3>2. OnlyOf(buckets, WithLineAdvance(buckets, u, l, m), u)
      BY <3>1, RowsOfOne DEF WithLineAdvance, PeriodicLive, LiveIn, InLine, Owned
    <3> QED BY <1>6, <2>1, <3>1, <3>2 DEF SetLineAdvance
  <2>2. ASSUME NEW u \in Users, NEW l, NEW q \in NewQuotas, SetLineMonthlyQuota(u, l, q)
        PROVE  MirrorMove
    <3>1. Follows(buckets, WithMonthlyQuota(buckets, u, l, q), now)
      BY <1>0, MonthlyQuotaFollows, AmountsAssumption
    <3>2. OnlyOf(buckets, WithMonthlyQuota(buckets, u, l, q), u)
      BY <3>1, RowsOfOne DEF WithMonthlyQuota, PeriodicLive, LiveIn, InLine, Owned
    <3> QED BY <1>6, <2>2, <3>1, <3>2 DEF SetLineMonthlyQuota
  <2>3. ASSUME NEW u \in Users, NEW l, ConvertLineToPeriodic(u, l) PROVE MirrorMove
    <3>1. Follows(buckets, WithConverted(buckets, u, l, now), now)
      BY <1>0, <2>3, ConvertFollows DEF ConvertLineToPeriodic
    <3>2. OnlyOf(buckets, WithConverted(buckets, u, l, now), u)
      BY <3>1, RowsOfOne DEF WithConverted, Convertible, LiveIn, InLine, Owned
    <3> QED BY <1>6, <2>3, <3>1, <3>2 DEF ConvertLineToPeriodic
  <2> QED BY <1>10, <2>1, <2>2, <2>3 DEF PeriodStep
<1>11. CASE UserStep
  <2>1. ASSUME NEW i \in DOMAIN buckets, NEW d \in UsageDeltas, AddBucketUsage(i, d)
        PROVE  MirrorMove
    BY <2>1 DEF AddBucketUsage, MirrorMove, Metering
  <2>2. ASSUME NEW u, VisitOpen(u) PROVE Unmoved
    BY <2>2 DEF VisitOpen, table, Unmoved
  <2>3. ASSUME NEW v \in visit, VisitReset(v) \/ VisitAdvance(v) PROVE MirrorMove
    BY <1>0, <1>2, <1>3, <2>3, ResetTxMirrors, AdvanceTxMirrors DEF VisitReset, VisitAdvance
  <2> QED BY <1>1, <1>11, <2>1, <2>2, <2>3 DEF UserStep
<1>12. CASE PackageStep
  <2>1. ASSUME NEW e \in edit, NEW pr \in NewPrices, NEW l \in NewLines, EditSave(e, pr, l)
        PROVE  MirrorMove
    BY <1>3, <2>1 DEF EditSave, Unmirrored, Moves
  <2>2. ASSUME NEW r \in retire, RetireRefund(r) PROVE MirrorMove
    BY <1>5, <2>2 DEF RetireRefund, Typed, RetireTypeOK
  <2>3. ASSUME NEW r \in retire, RetireClear(r) PROVE MirrorMove
    <3>1. r.user \in Users
      BY <2>3 DEF RetireClear, Typed, RetireTypeOK
    <3>2. OnlyOf(buckets, buckets', r.user) /\ Recompute(r.user, now)
      BY <2>3 DEF RetireClear, OnlyOf, Owned, Without, PlansOf
    <3>3. Removes
      BY <2>3 DEF RetireClear, Removes
    <3> QED BY <1>0, <1>2, <3>1, <3>2, <3>3 DEF Recomputed
  <2>4. ASSUME NEW p, NEW r, \/ EditOpen(p) \/ EnablePackage(p) \/ RetireStart(p)
                             \/ RetireNextHolder(r) \/ RetireSkip(r) \/ RetireClearFailed(r)
                             \/ RetireFinish(r)
        PROVE  Unmoved
    BY <2>4 DEF EditOpen, EnablePackage, RetireStart, RetireNextHolder, RetireSkip,
       RetireClearFailed, RetireFinish, table, Unmoved
  <2> QED BY <1>1, <1>12, <2>1, <2>2, <2>3, <2>4 DEF PackageStep
<1>13. CASE SweepStep
  <2>1. ASSUME NEW w \in sweep.todo, SweepAdvance(w) \/ SweepReset(w) PROVE MirrorMove
    <3>1. w.user \in Users
      BY <1>0 DEF Works
    <3> QED BY <1>0, <1>2, <1>3, <2>1, <3>1, ResetTxMirrors, AdvanceTxMirrors
            DEF SweepAdvance, SweepReset
  <2>2. ASSUME NEW w \in sweep.todo, SweepRenew(w) PROVE MirrorMove
    BY <1>0, <1>4, <2>2 DEF SweepRenew
  <2>3. ASSUME NEW w, SweepRenewSkipped(w) \/ SweepFailed(w) PROVE Unmoved
    BY <2>3 DEF SweepRenewSkipped, SweepFailed, table, Unmoved
  <2> QED BY <1>1, <1>13, <2>1, <2>2, <2>3 DEF SweepStep, SweepBegin, SweepNextPhase, table, Unmoved
<1>14. CASE Tick
  BY <1>1, <1>14 DEF Tick, table, Unmoved
<1> QED BY <1>7, <1>8, <1>9, <1>10, <1>11, <1>12, <1>13, <1>14 DEF Next

------------------------------------------------------------------------------
(* Type correctness                                                          *)

MirrorTyped == mirror \in [Users -> [limit : Nat, used : Nat, expiry : Nat]]

\* The aggregate is a row of three natural numbers after every step
LEMMA MirrorStaysTyped ==
    ASSUME Typed, TableInv, TableInv', MirrorTyped, [Next]_vars
    PROVE  MirrorTyped'
<1>1. RowsOK(buckets', now') /\ Finite(buckets')
  <2>1. IdsAreSpent' /\ RowsOK(buckets', now')
    BY DEF TableInv
  <2>2. IsFiniteSet(1..(nextBucket' - 1))
    BY <2>1, FS_Interval DEF IdsAreSpent
  <2> QED BY <2>1, <2>2, FS_Subset DEF IdsAreSpent, Finite
<1>2. ASSUME NEW u \in Users, NEW t \in Nat, Recomputed(u, t) PROVE MirrorTyped'
  <2>1. Aggregate(buckets', u, t) \in [limit : Nat, used : Nat, expiry : Nat]
    BY <1>1, AggregateTyped
  <2>2. mirror' = [mirror EXCEPT ![u] = Aggregate(buckets', u, t)]
    BY <1>2 DEF Recomputed, Recompute
  <2> QED BY <2>1, <2>2 DEF MirrorTyped
<1>3. ASSUME NEW i \in DOMAIN buckets, NEW d \in UsageDeltas, Metering(i, d)
      PROVE  MirrorTyped'
  <2> DEFINE v == buckets[i].user
             more == IF buckets[i].kind = "free" THEN 0 ELSE d
             row == [mirror[v] EXCEPT !.used = mirror[v].used + more]
  <2>1. more \in Nat /\ v \in Users
    BY AmountsAssumption, RowFields DEF TableInv, RowsOK, RowOK
  <2>2. mirror' = [mirror EXCEPT ![v] = row]
    BY <1>3 DEF Metering
  <2> HIDE DEF more, v
  <2>3. row \in [limit : Nat, used : Nat, expiry : Nat]
    BY <2>1 DEF MirrorTyped
  <2> HIDE DEF row
  <2> QED BY <2>2, <2>3 DEF MirrorTyped
<1>4. UNCHANGED mirror => MirrorTyped'
  BY DEF MirrorTyped
<1> QED BY <1>2, <1>3, <1>4, MirrorMoves DEF MirrorMove, Unmirrored

AtMostOne(S) == \A x, y \in S : x = y

\* A set of at most one element
LEMMA CountsAtMostOne ==
    ASSUME NEW S, AtMostOne(S)
    PROVE  Cardinality(S) <= 1
<1>1. S = {} \/ \E x : S = {x}
  BY DEF AtMostOne
<1>2. S = {} => Cardinality(S) = 0
  BY FS_EmptySet
<1>3. ASSUME NEW x, S = {x} PROVE Cardinality(S) = 1
  BY Zenon, <1>3, FS_Singleton
<1>4. Cardinality(S) = 0 \/ Cardinality(S) = 1
  BY Zenon, <1>1, <1>2, <1>3
<1> QED BY <1>4

OneAtATime == AtMostOne(edit) /\ AtMostOne(grant) /\ AtMostOne(retire)

\* One edit form, one free grant and one retirement are open at most
LEMMA OneAtATimeStays ==
    ASSUME OneAtATime, [Next]_vars
    PROVE  OneAtATime'
<1> USE DEF OneAtATime, AtMostOne
<1>1. CASE UNCHANGED vars
  BY <1>1 DEF vars, shop, jobs
<1>2. CASE ShopStep
  BY <1>2 DEF ShopStep, ShopOpen, PurchaseRefused, PurchaseReplayed, PurchaseSold, Answer, jobs
<1>3. CASE AccountStep
  BY <1>3 DEF AccountStep, AssignOpen, AssignPackage, AdjustPoints, RefundOrder, DeleteBucket,
     AdjustBucketTraffic, SetPlanAutoRenew, shop, jobs
<1>4. CASE PeriodStep \/ UserStep \/ Tick
  BY <1>4 DEF PeriodStep, SetLineAdvance, SetLineMonthlyQuota, ConvertLineToPeriodic, UserStep,
     AddBucketUsage, VisitOpen, VisitReset, VisitAdvance, Tick, shop, jobs
<1>5. CASE PackageStep
  BY <1>5 DEF PackageStep, EditOpen, EnablePackage, RetireStart, EditSave, RetireNextHolder,
     RetireRefund, RetireSkip, RetireClear, RetireClearFailed, RetireFinish, shop, jobs
<1>6. CASE SweepStep
  BY <1>6 DEF SweepStep, SweepBegin, SweepNextPhase, SweepAdvance, SweepReset, SweepRenew,
     SweepRenewSkipped, SweepFailed, shop
<1> QED BY <1>1, <1>2, <1>3, <1>4, <1>5, <1>6 DEF Next

\* Every variable keeps its type, the aggregate's sums included
THEOREM EverythingIsTyped == Spec => []TypeOK
<1>1. Init => MirrorTyped /\ OneAtATime
  BY DEF Init, MirrorTyped, OneAtATime, AtMostOne
<1>2. Typed /\ TableInv /\ TableInv' /\ MirrorTyped /\ [Next]_vars => MirrorTyped'
  BY MirrorStaysTyped
<1>3. OneAtATime /\ [Next]_vars => OneAtATime'
  BY OneAtATimeStays
<1>4. Typed /\ TableInv /\ MirrorTyped /\ OneAtATime => TypeOK
  <2> SUFFICES ASSUME Typed, TableInv, MirrorTyped, OneAtATime PROVE TypeOK
    OBVIOUS
  <2>1. Cardinality(edit) <= 1 /\ Cardinality(grant) <= 1 /\ Cardinality(retire) <= 1
    BY CountsAtMostOne DEF OneAtATime
  <2>2. TableTypeOK
    BY DEF TableTypeOK, TableInv, IdsAreSpent, RowsOK, RowOK, MirrorTyped
  <2> QED BY <2>1, <2>2 DEF TypeOK, Typed, TableInv, JobsTyped
<1> QED BY <1>1, <1>2, <1>3, <1>4, TableIsRight, BookIsTyped, PTL DEF Spec

------------------------------------------------------------------------------
(* Limits that need no refreshing                                            *)

\* A running bucket may carry its period's share, and the next period's when it may
\* borrow and has one
FreshRow(bk, i) ==
    InPeriod(bk[i]) =>
        bk[i].limit = bk[i].base +
            IF MayBorrow(bk[i]) /\ HasNextPeriod(bk, i) THEN bk[i].quota ELSE 0

UpToDate(bk) == \A i \in DOMAIN bk : FreshRow(bk, i)

\* The columns a limit depends on
SamePeriod(a, b) ==
    /\ Sited(a, b) /\ b.expiry = a.expiry /\ b.pdays = a.pdays /\ b.pstart = a.pstart
    /\ b.adv = a.adv /\ b.quota = a.quota /\ b.base = a.base /\ b.limit = a.limit

\* Limits stay fresh where a row keeps these columns, and what it may borrow
LEMMA StillFresh ==
    ASSUME NEW bk, NEW next, UpToDate(bk),
           \A i \in DOMAIN next : InPeriod(next[i]) =>
               /\ i \in DOMAIN bk /\ SamePeriod(bk[i], next[i])
               /\ MayBorrow(bk[i]) => (HasNextPeriod(next, i) <=> HasNextPeriod(bk, i))
    PROVE  UpToDate(next)
<1> SUFFICES ASSUME NEW i \in DOMAIN next, InPeriod(next[i]) PROVE FreshRow(next, i)
  BY DEF UpToDate, FreshRow
<1>1. i \in DOMAIN bk /\ SamePeriod(bk[i], next[i]) /\ FreshRow(bk, i)
  BY DEF UpToDate
<1>2. InPeriod(bk[i]) /\ (MayBorrow(next[i]) <=> MayBorrow(bk[i]))
  BY <1>1 DEF InPeriod, MayBorrow, SamePeriod, Sited
<1>3. MayBorrow(bk[i]) => (HasNextPeriod(next, i) <=> HasNextPeriod(bk, i))
  OBVIOUS
<1> QED BY <1>1, <1>2, <1>3 DEF FreshRow, SamePeriod

\* They do where the plan rows keep their columns and their lines
LEMMA SamePlansFresh ==
    ASSUME NEW bk, NEW next, UpToDate(bk),
           \A i \in DOMAIN next : next[i].kind = "plan" =>
               i \in DOMAIN bk /\ SamePeriod(bk[i], next[i]) /\ next[i].line = bk[i].line,
           \A i \in DOMAIN bk : bk[i].kind = "plan" =>
               i \in DOMAIN next /\ next[i].kind = "plan"
    PROVE  UpToDate(next)
<1>1. \A v, l : QueuedIn(next, v, l) = QueuedIn(bk, v, l)
  BY DEF QueuedIn, InLine, Owned, SamePeriod, Sited
<1>2. ASSUME NEW i \in DOMAIN next, InPeriod(next[i])
      PROVE  /\ i \in DOMAIN bk /\ SamePeriod(bk[i], next[i])
             /\ HasNextPeriod(next, i) <=> HasNextPeriod(bk, i)
  <2>1. i \in DOMAIN bk /\ SamePeriod(bk[i], next[i]) /\ next[i].line = bk[i].line
    BY <1>2 DEF InPeriod
  <2> QED BY <1>1, <2>1 DEF HasNextPeriod, SamePeriod, Sited
<1> QED BY <1>2, StillFresh

\* Refreshing changes limits only
LEMMA RefreshedRow ==
    ASSUME NEW bk, NEW t, RowsOK(bk, t), NEW ids, NEW i \in DOMAIN bk
    PROVE  LET c == RefreshLimits(bk, ids)[i] IN
           /\ Sited(bk[i], c) /\ c.line = bk[i].line /\ c.expiry = bk[i].expiry
           /\ c.pdays = bk[i].pdays /\ c.pstart = bk[i].pstart /\ c.adv = bk[i].adv
           /\ c.quota = bk[i].quota /\ c.base = bk[i].base
           /\ i \in ids /\ InPeriod(bk[i]) =>
                 c.limit = bk[i].base +
                     IF MayBorrow(bk[i]) /\ HasNextPeriod(bk, i) THEN bk[i].quota ELSE 0
<1> DEFINE c == RefreshLimits(bk, ids)[i]
           lim == bk[i].base + IF MayBorrow(bk[i]) /\ HasNextPeriod(bk, i)
                               THEN bk[i].quota ELSE 0
<1>1. bk[i] \in BucketRow
  BY DEF RowsOK, RowOK
<1>2. c = IF i \in ids /\ InPeriod(bk[i]) THEN [bk[i] EXCEPT !.limit = lim] ELSE bk[i]
  BY DEF RefreshLimits
<1> HIDE DEF c, lim
<1>3. /\ Sited(bk[i], c) /\ c.line = bk[i].line /\ c.expiry = bk[i].expiry
      /\ c.pdays = bk[i].pdays /\ c.pstart = bk[i].pstart /\ c.adv = bk[i].adv
      /\ c.quota = bk[i].quota /\ c.base = bk[i].base
      /\ i \in ids /\ InPeriod(bk[i]) => c.limit = lim
  BY <1>1, <1>2 DEF Sited, BucketRow
<1> QED BY <1>3 DEF c, lim

\* An account whose limits were refreshed last needs no refreshing
LEMMA RefreshedIsFresh ==
    ASSUME NEW bk, NEW t, RowsOK(bk, t), NEW u, NEW i \in DOMAIN bk, bk[i].user = u
    PROVE  FreshRow(RefreshLimits(bk, Owned(bk, u)), i)
<1> DEFINE next == RefreshLimits(bk, Owned(bk, u))
<1>1. DOMAIN next = DOMAIN bk
  BY DEF RefreshLimits
<1>2. \A j \in DOMAIN bk : Sited(bk[j], next[j]) /\ next[j].line = bk[j].line
  BY RefreshedRow
<1>3. /\ Sited(bk[i], next[i]) /\ next[i].line = bk[i].line /\ next[i].expiry = bk[i].expiry
      /\ next[i].pdays = bk[i].pdays /\ next[i].pstart = bk[i].pstart /\ next[i].adv = bk[i].adv
      /\ next[i].quota = bk[i].quota /\ next[i].base = bk[i].base
      /\ InPeriod(bk[i]) =>
            next[i].limit = bk[i].base +
                IF MayBorrow(bk[i]) /\ HasNextPeriod(bk, i) THEN bk[i].quota ELSE 0
  <2>1. i \in Owned(bk, u)
    BY DEF Owned
  <2> QED BY <2>1, RefreshedRow
<1> HIDE DEF next
<1>4. \A v, l : QueuedIn(next, v, l) = QueuedIn(bk, v, l)
  BY <1>1, <1>2 DEF QueuedIn, InLine, Owned, Sited
<1>5. /\ InPeriod(next[i]) <=> InPeriod(bk[i])
      /\ MayBorrow(next[i]) <=> MayBorrow(bk[i])
      /\ HasNextPeriod(next, i) <=> HasNextPeriod(bk, i)
  BY <1>3, <1>4 DEF InPeriod, MayBorrow, HasNextPeriod, Sited
<1>6. FreshRow(next, i)
  BY <1>3, <1>5 DEF FreshRow
<1> QED BY <1>6 DEF next

\* Neither do the accounts a change leaves alone
LEMMA OthersStayFresh ==
    ASSUME NEW bk, NEW next, NEW u, OnlyOf(bk, next, u), UpToDate(bk),
           NEW v \in Users \ {u}, NEW i \in Owned(next, v)
    PROVE  FreshRow(next, i)
<1>1. Owned(next, v) = Owned(bk, v) /\ \A j \in Owned(bk, v) : next[j] = bk[j]
  BY DEF OnlyOf
<1>2. i \in DOMAIN bk /\ next[i] = bk[i] /\ FreshRow(bk, i) /\ bk[i].user = v
  BY <1>1 DEF Owned, UpToDate
<1>3. \A l : QueuedIn(next, v, l) = QueuedIn(bk, v, l)
  BY <1>1 DEF QueuedIn, InLine
<1> QED BY <1>2, <1>3 DEF FreshRow, HasNextPeriod

\* Refreshing limits that are fresh changes nothing
LEMMA FreshIsFixed ==
    ASSUME NEW bk, NEW t, RowsOK(bk, t), UpToDate(bk), NEW ids, NEW i \in DOMAIN bk
    PROVE  RefreshLimits(bk, ids)[i] = bk[i]
<1> DEFINE lim == bk[i].base + IF MayBorrow(bk[i]) /\ HasNextPeriod(bk, i)
                               THEN bk[i].quota ELSE 0
<1>1. bk[i] \in BucketRow
  BY DEF RowsOK, RowOK
<1>2. InPeriod(bk[i]) => bk[i].limit = lim
  BY DEF UpToDate, FreshRow
<1>3. RefreshLimits(bk, ids)[i] =
         IF i \in ids /\ InPeriod(bk[i]) THEN [bk[i] EXCEPT !.limit = lim] ELSE bk[i]
  BY DEF RefreshLimits
<1> HIDE DEF lim
<1>4. bk[i].limit = lim => [bk[i] EXCEPT !.limit = lim] = bk[i]
  BY <1>1 DEF BucketRow
<1> QED BY <1>2, <1>3, <1>4

\* What is written without the aggregate changes nothing the aggregate sums
LEMMA UnmirroredRows ==
    ASSUME TableInv, UpToDate(buckets), Unmirrored
    PROVE  /\ DOMAIN buckets' = DOMAIN buckets
           /\ \A i \in DOMAIN buckets :
                 /\ SamePeriod(buckets[i], buckets'[i]) /\ buckets'[i].used = buckets[i].used
                 /\ buckets'[i].line = buckets[i].line \/ (Moves /\ buckets[i].kind = "plan")
<1>0. RowsOK(buckets, now) /\ \A i \in DOMAIN buckets : buckets[i] \in BucketRow
  BY DEF TableInv, RowsOK, RowOK
<1>1. CASE UNCHANGED buckets
  BY <1>1 DEF SamePeriod, Sited
<1>2. ASSUME NEW u, NEW l, NEW e, buckets' = Switched(buckets, u, l, e)
      PROVE  /\ DOMAIN buckets' = DOMAIN buckets
             /\ \A i \in DOMAIN buckets :
                   /\ SamePeriod(buckets[i], buckets'[i])
                   /\ buckets'[i].used = buckets[i].used /\ buckets'[i].line = buckets[i].line
  <2>1. DOMAIN buckets' = DOMAIN buckets
    BY <1>2 DEF Switched
  <2>2. ASSUME NEW i \in DOMAIN buckets
        PROVE  /\ SamePeriod(buckets[i], buckets'[i])
               /\ buckets'[i].used = buckets[i].used /\ buckets'[i].line = buckets[i].line
    BY <1>0, <1>2, SwitchedRow DEF SamePeriod
  <2> QED BY <2>1, <2>2
<1>3. ASSUME NEW u, buckets' = RefreshLimits(buckets, Owned(buckets, u))
      PROVE  /\ DOMAIN buckets' = DOMAIN buckets
             /\ \A i \in DOMAIN buckets : buckets'[i] = buckets[i]
  <2>1. DOMAIN buckets' = DOMAIN buckets
    BY <1>3 DEF RefreshLimits
  <2> QED BY <1>0, <1>3, <2>1, FreshIsFixed
<1>4. ASSUME NEW e \in edit, NEW price, NEW l, EditSave(e, price, l)
      PROVE  /\ DOMAIN buckets' = DOMAIN buckets
             /\ \A i \in DOMAIN buckets :
                   /\ SamePeriod(buckets[i], buckets'[i])
                   /\ buckets'[i].used = buckets[i].used
                   /\ buckets'[i].line = buckets[i].line \/ buckets[i].kind = "plan"
  <2> DEFINE held == {i \in DOMAIN buckets : buckets[i].kind = "plan" /\ buckets[i].pkg = e.pkg}
  <2>1. buckets' = [i \in DOMAIN buckets |->
                       IF i \in held THEN [RefreshLimits(buckets, held)[i] EXCEPT !.line = l]
                                     ELSE RefreshLimits(buckets, held)[i]]
    BY <1>4 DEF EditSave
  <2>2. \A i \in held : buckets[i].kind = "plan"
    OBVIOUS
  <2> HIDE DEF held
  <2>3. \A i \in DOMAIN buckets : RefreshLimits(buckets, held)[i] = buckets[i]
    BY <1>0, FreshIsFixed
  <2>4. \A i \in DOMAIN buckets :
           buckets'[i] = IF i \in held THEN [buckets[i] EXCEPT !.line = l] ELSE buckets[i]
    BY <2>1, <2>3
  <2>5. DOMAIN buckets' = DOMAIN buckets
    BY <2>1
  <2> QED BY <1>0, <2>2, <2>4, <2>5 DEF SamePeriod, Sited, BucketRow
<1>5. CASE Switches
  BY <1>2, <1>5 DEF Switches
<1>6. CASE \E u \in Users : buckets' = RefreshLimits(buckets, Owned(buckets, u))
  BY <1>3, <1>6 DEF SamePeriod, Sited
<1>7. CASE Moves
  BY <1>4, <1>7 DEF Moves
<1> QED BY <1>1, <1>5, <1>6, <1>7 DEF Unmirrored

------------------------------------------------------------------------------
(* When limits stay fresh                                                    *)

\* No bucket has monthly periods
NoPeriods == (\A p \in Packages : ~Catalog[p].monthly) /\ "convert" \notin Exercised

\* A limit is out of date between two steps only when a refund takes from a running
\* monthly bucket that is topped up or borrows, or when a retirement or an edit takes
\* away the waiting bucket that it borrows from
LimitsStand ==
    \/ NoPeriods
    \/ SharesStayWhole
    \/ LinesStay /\ "refund" \notin Exercised /\ "retire" \notin Exercised

\* Without monthly periods there is no limit to refresh
LEMMA NoPeriodsFresh ==
    ASSUME NoPeriods, NEW bk, NEW t, RowsOK(bk, t)
    PROVE  UpToDate(bk)
<1> SUFFICES ASSUME NEW i \in DOMAIN bk, InPeriod(bk[i]) PROVE FALSE
  BY DEF UpToDate, FreshRow
<1>1. RowOK(bk[i], t) /\ bk[i].kind = "plan" /\ bk[i].pdays > 0
  BY DEF RowsOK, InPeriod
<1> QED BY <1>1 DEF RowOK, PlanRow, NoPeriods

\* Where no bucket holds more than its order's traffic, none borrows
LEMMA WholeSharesNeverBorrow ==
    ASSUME SharesStayWhole, NEW bk, NEW t, RowsOK(bk, t), Shares(bk),
           NEW i \in DOMAIN bk, InPeriod(bk[i])
    PROVE  ~MayBorrow(bk[i])
<1>1. RowOK(bk[i], t) /\ bk[i].kind = "plan" /\ ShareRow(bk[i])
  BY DEF RowsOK, Shares, InPeriod
<1>2. bk[i].adv = FollowPackage /\ bk[i].pkg \in Packages
  BY <1>1 DEF RowOK, PlanRow, ShareRow, WithinTraffic
<1> QED BY <1>2 DEF MayBorrow, SharesStayWhole

KeptLines == LinesStay => LinesInv

\* Limits are fresh after every step
LEMMA FreshStays ==
    ASSUME LimitsStand, Typed, TableInv, TableInv', Shares(buckets), KeptLines,
           RetireExercised, UpToDate(buckets), [Next]_vars
    PROVE  UpToDate(buckets')
<1>0. /\ RowsOK(buckets, now) /\ RowsOK(buckets', now')
      /\ \A i \in DOMAIN buckets : buckets[i] \in BucketRow
      /\ \A i \in DOMAIN buckets' : buckets'[i].user \in Users
  <2>1. RowsOK(buckets', now')
    BY DEF TableInv
  <2> QED BY <2>1, RowFields DEF TableInv, RowsOK, RowOK
<1>1. CASE NoPeriods
  BY <1>0, <1>1, NoPeriodsFresh
<1> SUFFICES ASSUME ~NoPeriods PROVE UpToDate(buckets')
  BY <1>1
<1>2. SharesStayWhole \/ (LinesStay /\ "refund" \notin Exercised /\ "retire" \notin Exercised)
  BY DEF LimitsStand
<1>3. ASSUME NEW u, OnlyOf(buckets, buckets', u), RefreshedLast(u) PROVE UpToDate(buckets')
  <2>1. PICK m : RowsOK(m, now) /\ buckets' = RefreshLimits(m, Owned(m, u))
    BY <1>3 DEF RefreshedLast
  <2>2. DOMAIN buckets' = DOMAIN m /\ \A i \in DOMAIN m : buckets'[i].user = m[i].user
    BY <2>1, RefreshedRow DEF RefreshLimits, Sited
  <2>3. ASSUME NEW i \in DOMAIN buckets' PROVE FreshRow(buckets', i)
    <3>1. CASE buckets'[i].user = u
      BY <2>1, <2>2, <3>1, RefreshedIsFresh
    <3>2. CASE buckets'[i].user # u
      <4>1. i \in Owned(buckets', buckets'[i].user)
        BY DEF Owned
      <4> QED BY <1>0, <1>3, <3>2, <4>1, OthersStayFresh
    <3> QED BY <3>1, <3>2
  <2> QED BY <2>3 DEF UpToDate
<1>4. CASE PlansAlone
  BY <1>4, SamePlansFresh DEF PlansAlone, SamePeriod, Sited
<1>5. CASE Removes
  <2>1. SharesStayWhole
    BY <1>2, <1>5 DEF Removes, RetireExercised
  <2>2. PICK ids : buckets' = Without(buckets, ids)
    BY <1>5 DEF Removes
  <2>3. \A i \in DOMAIN buckets' : i \in DOMAIN buckets /\ buckets'[i] = buckets[i]
    BY <2>2 DEF Without
  <2>4. \A i \in DOMAIN buckets' : InPeriod(buckets'[i]) =>
           /\ i \in DOMAIN buckets /\ SamePeriod(buckets[i], buckets'[i])
           /\ ~MayBorrow(buckets[i])
    BY <1>0, <2>1, <2>3, WholeSharesNeverBorrow DEF SamePeriod, Sited
  <2> QED BY <2>4, StillFresh
<1>6. ~ClawsBack
  BY <1>2 DEF ClawsBack, RetireExercised
<1>7. ASSUME NEW i \in DOMAIN buckets, NEW d \in UsageDeltas, Metering(i, d)
      PROVE  UpToDate(buckets')
  <2> DEFINE used == buckets[i].used + d
  <2>1. buckets' = [buckets EXCEPT ![i].used = used]
    BY <1>7 DEF Metering
  <2> HIDE DEF used
  <2>2. DOMAIN buckets' = DOMAIN buckets
    BY <2>1
  <2>3. \A j \in DOMAIN buckets :
           SamePeriod(buckets[j], buckets'[j]) /\ buckets'[j].line = buckets[j].line
    BY <1>0, <2>1 DEF SamePeriod, Sited, BucketRow
  <2>4. \A j \in DOMAIN buckets : buckets'[j].kind = buckets[j].kind
    BY <2>3 DEF SamePeriod, Sited
  <2> QED BY <2>2, <2>3, <2>4, SamePlansFresh
<1>8. CASE Unmirrored
  <2>1. /\ DOMAIN buckets' = DOMAIN buckets
        /\ \A i \in DOMAIN buckets :
              /\ SamePeriod(buckets[i], buckets'[i])
              /\ buckets'[i].line = buckets[i].line \/ (Moves /\ buckets[i].kind = "plan")
    BY <1>8, UnmirroredRows
  <2>2. CASE SharesStayWhole
    <3>1. \A i \in DOMAIN buckets : InPeriod(buckets'[i]) => InPeriod(buckets[i])
      BY <2>1 DEF InPeriod, SamePeriod, Sited
    <3> QED BY <1>0, <2>1, <2>2, <3>1, WholeSharesNeverBorrow, StillFresh
  <2>3. CASE LinesStay
    <3>1. ASSUME NEW i \in DOMAIN buckets, buckets[i].kind = "plan"
          PROVE  buckets'[i].line = buckets[i].line
      <4>1. buckets'[i].kind = "plan" /\ buckets'[i].pkg = buckets[i].pkg
        BY <2>1, <3>1 DEF SamePeriod, Sited
      <4>2. LinesInv /\ LinesInv'
        BY <2>3, LinesStayInv DEF KeptLines
      <4>3. buckets[i].line = InitPackage[buckets[i].pkg].line
        BY <3>1, <4>2 DEF LinesInv, InOwnLine
      <4>4. buckets'[i].line = InitPackage[buckets'[i].pkg].line
        BY <2>1, <4>1, <4>2 DEF LinesInv, InOwnLine
      <4> QED BY <4>1, <4>3, <4>4
    <3>2. \A i \in DOMAIN buckets : buckets'[i].kind = buckets[i].kind
      BY <2>1 DEF SamePeriod, Sited
    <3> QED BY <2>1, <3>1, <3>2, SamePlansFresh
  <2> QED BY <1>2, <2>2, <2>3
<1> QED BY <1>3, <1>4, <1>5, <1>6, <1>7, <1>8, MirrorMoves DEF MirrorMove, Recomputed

------------------------------------------------------------------------------
(* The two writers of the aggregate agree                                    *)

EmptiedOf(bk, u) ==
    {i \in Owned(bk, u) : bk[i].kind # "free" /\ bk[i].limit = 0 /\ bk[i].used > 0}

Agrees(row, bk, u) ==
    /\ row.limit = PaidLimit(bk, u)
    /\ EmptiedOf(bk, u) = {} => row.used = PaidUsed(bk, u)

\* Rows that keep what the aggregate sums have the same sums
LEMMA SameAccount ==
    ASSUME NEW a, NEW b, Finite(a), NEW u, Owned(b, u) = Owned(a, u),
           \A i \in Owned(a, u) : /\ b[i].kind = a[i].kind /\ b[i].limit = a[i].limit
                                  /\ b[i].used = a[i].used,
           NEW row, Agrees(row, a, u)
    PROVE  Agrees(row, b, u)
<1> DEFINE rows == PaidRows(a, u)
<1>1. PaidRows(b, u) = rows /\ EmptiedOf(b, u) = EmptiedOf(a, u)
  BY DEF PaidRows, EmptiedOf
<1>2. rows \subseteq Owned(a, u) /\ rows \subseteq DOMAIN a /\ rows \subseteq DOMAIN b
  BY DEF PaidRows, Owned
<1>3. IsFiniteSet(rows)
  BY <1>2, FS_Subset DEF Finite
<1>4. \A i \in rows : LimitsOf(a)[i] = LimitsOf(b)[i] /\ UsesOf(a)[i] = UsesOf(b)[i]
  BY <1>2 DEF LimitsOf, UsesOf
<1> HIDE DEF rows
<1>5. SumOver(LimitsOf(a), rows) = SumOver(LimitsOf(b), rows)
  BY <1>3, <1>4, SameSum
<1>6. SumOver(UsesOf(a), rows) = SumOver(UsesOf(b), rows)
  BY <1>3, <1>4, SameSum
<1>7. PaidLimit(a, u) = SumOver(LimitsOf(a), rows) /\ PaidUsed(a, u) = SumOver(UsesOf(a), rows)
  BY Zenon, <1>2, LimitsAreSummed, UsesAreSummed DEF PaidLimit, PaidUsed, rows
<1>8. PaidLimit(b, u) = SumOver(LimitsOf(b), rows) /\ PaidUsed(b, u) = SumOver(UsesOf(b), rows)
  BY Zenon, <1>1, <1>2, LimitsAreSummed, UsesAreSummed DEF PaidLimit, PaidUsed
<1> QED BY <1>1, <1>5, <1>6, <1>7, <1>8 DEF Agrees

\* Metering adds to the aggregate what it adds to the bucket
LEMMA MeteringAgrees ==
    ASSUME TableInv, Finite(buckets), MirrorTyped, NEW i \in DOMAIN buckets,
           NEW d \in UsageDeltas, Metering(i, d), NEW u \in Users,
           Agrees(mirror[u], buckets, u)
    PROVE  Agrees(mirror'[u], buckets', u)
<1> DEFINE w == buckets[i].user
           more == IF buckets[i].kind = "free" THEN 0 ELSE d
           used == buckets[i].used + d
<1>0. /\ \A j \in DOMAIN buckets : buckets[j] \in BucketRow
      /\ w \in Users /\ d \in Nat /\ buckets[i].used \in Nat /\ buckets[i].limit \in Nat
  BY AmountsAssumption, RowFields DEF TableInv, RowsOK, RowOK
<1>1. /\ buckets' = [buckets EXCEPT ![i].used = used]
      /\ mirror' = [mirror EXCEPT ![w].used = mirror[w].used + more]
  BY DEF Metering
<1> HIDE DEF used, w, more
<1>2. /\ DOMAIN buckets' = DOMAIN buckets /\ buckets'[i].used = used
      /\ \A j \in DOMAIN buckets :
            /\ buckets'[j].user = buckets[j].user /\ buckets'[j].kind = buckets[j].kind
            /\ buckets'[j].limit = buckets[j].limit
            /\ j # i => buckets'[j].used = buckets[j].used
  BY <1>0, <1>1 DEF BucketRow
<1>3. Owned(buckets', u) = Owned(buckets, u)
  BY <1>2 DEF Owned
<1>4. CASE u # w
  <2>1. mirror'[u] = mirror[u]
    BY <1>1, <1>4 DEF MirrorTyped
  <2>2. i \notin Owned(buckets, u)
    BY <1>4 DEF Owned, w
  <2>3. \A j \in Owned(buckets, u) : j \in DOMAIN buckets /\ j # i
    BY <2>2 DEF Owned
  <2> QED BY <1>2, <1>3, <2>1, <2>3, SameAccount
<1>5. CASE u = w
  <2> DEFINE S == PaidRows(buckets, u)
             f == UsesOf(buckets)
             g == UsesOf(buckets')
  <2>1. /\ mirror'[u].limit = mirror[u].limit /\ mirror'[u].used = mirror[u].used + more
        /\ mirror[u].used \in Nat
    BY <1>0, <1>1, <1>5 DEF MirrorTyped
  <2>2. S \subseteq DOMAIN buckets /\ S \subseteq DOMAIN buckets' /\ PaidRows(buckets', u) = S
    BY <1>2, <1>3 DEF PaidRows, Owned
  <2>3. IsFiniteSet(S) /\ IsFiniteSet(S \ {i})
    BY <2>2, FS_Subset DEF Finite
  <2>4. i \in S <=> buckets[i].kind # "free" /\ buckets[i].limit > 0
    BY <1>5 DEF PaidRows, Owned, w
  <2>5. PaidUsed(buckets, u) = SumOver(f, S) /\ PaidUsed(buckets', u) = SumOver(g, S)
    BY Zenon, <2>2, UsesAreSummed DEF PaidUsed
  <2>6. PaidLimit(buckets', u) = PaidLimit(buckets, u)
    <3>1. \A j \in S : LimitsOf(buckets)[j] = LimitsOf(buckets')[j]
      BY <1>2, <2>2 DEF LimitsOf
    <3>2. SumOver(LimitsOf(buckets), S) = SumOver(LimitsOf(buckets'), S)
      BY <2>3, <3>1, SameSum
    <3> QED BY Zenon, <2>2, <3>2, LimitsAreSummed DEF PaidLimit
  <2>7. \A j \in S : f[j] \in Nat /\ g[j] \in Nat /\ (j # i => f[j] = g[j])
    <3>1. \A j \in DOMAIN buckets : buckets[j].used \in Nat
      BY <1>0, RowFields
    <3>2. used \in Nat
      BY <1>0 DEF used
    <3> QED BY <1>2, <2>2, <3>1, <3>2 DEF UsesOf
  <2>8. f[i] = buckets[i].used /\ g[i] = used
    BY <1>2 DEF UsesOf
  <2> HIDE DEF S, f, g
  <2>9. CASE i \in S
    <3>1. /\ SumOver(f, S) = f[i] + SumOver(f, S \ {i})
          /\ SumOver(g, S) = g[i] + SumOver(g, S \ {i})
          /\ SumOver(f, S \ {i}) = SumOver(g, S \ {i})
      BY <2>3, <2>7, <2>9, SumTakes, SameSum
    <3>2. SumOver(f, S \ {i}) \in Nat
      BY <2>3, <2>7, SumIsNat
    <3>3. SumOver(g, S) = SumOver(f, S) + d
      BY <1>0, <2>8, <3>1, <3>2 DEF used
    <3>4. more = d
      BY <2>4, <2>9 DEF more
    <3>5. EmptiedOf(buckets', u) = {} => EmptiedOf(buckets, u) = {}
      BY <1>2, <1>3, <2>4, <2>9 DEF EmptiedOf, Owned
    <3> QED BY <2>1, <2>5, <2>6, <3>3, <3>4, <3>5 DEF Agrees
  <2>10. CASE i \notin S
    <3>1. SumOver(f, S) = SumOver(g, S)
      BY <2>3, <2>7, <2>10, SameSum
    <3>2. EmptiedOf(buckets', u) = {} => more = 0 /\ EmptiedOf(buckets, u) = {}
      <4> SUFFICES ASSUME EmptiedOf(buckets', u) = {}
                   PROVE  more = 0 /\ EmptiedOf(buckets, u) = {}
        OBVIOUS
      <4>1. i \in Owned(buckets', u) /\ i \in Owned(buckets, u)
        BY <1>3, <1>5 DEF Owned, w
      <4>2. buckets[i].kind # "free" => used = 0
        <5>1. buckets[i].kind # "free" => buckets[i].limit = 0
          BY <1>0, <2>4, <2>10
        <5>2. used \in Nat
          BY <1>0 DEF used
        <5> QED BY <1>2, <4>1, <5>1, <5>2 DEF EmptiedOf
      <4>3. more = 0 /\ (buckets[i].kind # "free" => buckets[i].used = 0)
        BY <1>0, <4>2 DEF used, more
      <4>4. ASSUME NEW j \in EmptiedOf(buckets, u) PROVE FALSE
        <5>1. j # i
          BY <4>3 DEF EmptiedOf
        <5>2. j \in EmptiedOf(buckets', u)
          BY <1>2, <1>3, <5>1 DEF EmptiedOf, Owned
        <5> QED BY <5>2
      <4> QED BY <4>3, <4>4
    <3> QED BY <2>1, <2>5, <2>6, <3>1, <3>2 DEF Agrees
  <2> QED BY <2>9, <2>10
<1> QED BY <1>4, <1>5

\* Every step leaves the aggregate in agreement
LEMMA AgreementStays ==
    ASSUME Typed, TableInv, MirrorTyped, UpToDate(buckets), [Next]_vars,
           \A u \in Users : Agrees(mirror[u], buckets, u)
    PROVE  \A u \in Users : Agrees(mirror'[u], buckets', u)
<1> SUFFICES ASSUME NEW u \in Users PROVE Agrees(mirror'[u], buckets', u)
  OBVIOUS
<1>0. Finite(buckets) /\ Agrees(mirror[u], buckets, u)
  BY TableFacts
<1>1. ASSUME NEW v \in Users, NEW t \in Nat, Recomputed(v, t)
      PROVE  Agrees(mirror'[u], buckets', u)
  <2>1. mirror' = [mirror EXCEPT ![v] = Aggregate(buckets', v, t)]
    BY <1>1 DEF Recomputed, Recompute
  <2>2. CASE u = v
    <3>1. mirror'[u] = Aggregate(buckets', u, t)
      BY <2>1, <2>2 DEF MirrorTyped
    <3> QED BY <3>1 DEF Agrees, Aggregate
  <2>3. CASE u # v
    <3>1. mirror'[u] = mirror[u]
      BY <2>1, <2>3 DEF MirrorTyped
    <3>2. Owned(buckets', u) = Owned(buckets, u)
          /\ \A i \in Owned(buckets, u) : buckets'[i] = buckets[i]
      BY <1>1, <2>3 DEF Recomputed, OnlyOf
    <3> QED BY <1>0, <3>1, <3>2, SameAccount
  <2> QED BY <2>2, <2>3
<1>2. ASSUME NEW i \in DOMAIN buckets, NEW d \in UsageDeltas, Metering(i, d)
      PROVE  Agrees(mirror'[u], buckets', u)
  BY <1>0, <1>2, MeteringAgrees
<1>3. CASE Unmirrored
  <2>1. /\ DOMAIN buckets' = DOMAIN buckets
        /\ \A i \in DOMAIN buckets :
              SamePeriod(buckets[i], buckets'[i]) /\ buckets'[i].used = buckets[i].used
    BY <1>3, UnmirroredRows
  <2>2. Owned(buckets', u) = Owned(buckets, u)
    BY <2>1 DEF Owned, SamePeriod, Sited
  <2>3. \A i \in Owned(buckets, u) :
           /\ buckets'[i].kind = buckets[i].kind /\ buckets'[i].limit = buckets[i].limit
           /\ buckets'[i].used = buckets[i].used
    BY <2>1 DEF Owned, SamePeriod, Sited
  <2>4. mirror'[u] = mirror[u]
    BY <1>3 DEF Unmirrored
  <2> QED BY <1>0, <2>2, <2>3, <2>4, SameAccount
<1> QED BY <1>1, <1>2, <1>3, MirrorMoves DEF MirrorMove

\* The aggregate starts in agreement: nobody has paid for anything
LEMMA AgreementStarts ==
    Init => \A u \in Users : Agrees(mirror[u], buckets, u)
<1> SUFFICES ASSUME Init, NEW u \in Users PROVE Agrees(mirror[u], buckets, u)
  OBVIOUS
<1>1. \A i \in DOMAIN buckets : buckets[i].kind = "free"
  BY DEF Init, FreeRow, Ancillary
<1>2. PaidRows(buckets, u) = {}
  BY <1>1 DEF PaidRows, Owned
<1>3. PaidLimit(buckets, u) = SumOver(LimitsOf(buckets), {})
      /\ PaidUsed(buckets, u) = SumOver(UsesOf(buckets), {})
  <2>1. {} \subseteq DOMAIN buckets
    OBVIOUS
  <2> QED BY Zenon, <1>2, <2>1, LimitsAreSummed, UsesAreSummed DEF PaidLimit, PaidUsed
<1>4. mirror[u].limit = 0 /\ mirror[u].used = 0
  BY DEF Init
<1> QED BY <1>3, <1>4, SumOfNone DEF Agrees

\* recomputeUserAggregate and applyBucketUsage, the two writers of the users.* counters,
\* agree after every step on every account none of whose buckets was emptied of its limit
\* while in use
THEOREM AggregateAgrees ==
    ASSUME LimitsStand
    PROVE  Spec => []MirrorAgrees
<1> DEFINE Inv == /\ MirrorTyped /\ Shares(buckets) /\ KeptLines /\ RetireExercised
                  /\ UpToDate(buckets) /\ \A u \in Users : Agrees(mirror[u], buckets, u)
<1>1. Init => Inv
  <2> SUFFICES ASSUME Init PROVE Inv
    OBVIOUS
  <2>1. MirrorTyped /\ RetireExercised
    BY DEF Init, MirrorTyped, RetireExercised
  <2>2. UpToDate(buckets)
    BY DEF Init, FreeRow, Ancillary, UpToDate, FreshRow, InPeriod
  <2> QED BY <2>1, <2>2, SharesStart, LinesStart, AgreementStarts DEF KeptLines
<1>2. Typed /\ TableInv /\ TableInv' /\ Inv /\ [Next]_vars => Inv'
  <2> SUFFICES ASSUME Typed, TableInv, TableInv', Inv, [Next]_vars PROVE Inv'
    OBVIOUS
  <2>1. MirrorTyped' /\ RetireExercised'
    BY MirrorStaysTyped, RetireStaysExercised
  <2>2. Shares(buckets') /\ UpToDate(buckets')
    BY SharesStay, FreshStays
  <2>3. KeptLines'
    BY LinesStayInv DEF KeptLines
  <2>4. \A u \in Users : Agrees(mirror'[u], buckets', u)
    BY AgreementStays
  <2> QED BY <2>1, <2>2, <2>3, <2>4
<1>3. Inv => MirrorAgrees
  BY DEF Agrees, EmptiedOf, MirrorAgrees, Emptied
<1> HIDE DEF Inv
<1> QED BY <1>1, <1>2, <1>3, TableIsRight, BookIsTyped, PTL DEF Spec
=============================================================================
