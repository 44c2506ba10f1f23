------------------------------ MODULE TableProofs ------------------------------
(* The rows of user_plans, for every catalogue, set of accounts and bound.   *)
EXTENDS BillingProofs, Sums

------------------------------------------------------------------------------
(* Numbers and sets                                                          *)

\* A finite set of integers that is not empty has a largest and a smallest member
LEMMA Extremes ==
    ASSUME NEW T, IsFiniteSet(T), T \subseteq Int, T # {}
    PROVE  Max(T) \in T /\ Min(T) \in T /\ \A x \in T : Min(T) <= x /\ x <= Max(T)
<1> DEFINE Bounded(U) == \E m, n \in U : \A x \in U : m <= x /\ x <= n
           Bad == {U \in SUBSET T : U # {} /\ ~Bounded(U)}
<1>1. Bad = {}
  <2> SUFFICES ASSUME Bad # {} PROVE FALSE
    OBVIOUS
  <2>1. Bad \subseteq FiniteSubsetsOf(T)
    BY FS_FiniteSubsetsOfFinite
  <2> HIDE DEF Bad
  <2>2. PICK U \in Bad : \A V \in Bad : <<V, U>> \notin StrictSubsetOrdering(T)
    BY <2>1, WFMin, FS_StrictSubsetOrderingWellFounded
  <2> USE DEF Bad
  <2>3. PICK x \in U : TRUE
    OBVIOUS
  <2>4. CASE U = {x}
    BY <2>4
  <2>5. CASE U # {x}
    <3>1. U \ {x} \in SUBSET T /\ U \ {x} # {} /\ U \ {x} \subseteq U /\ U \ {x} # U
      BY <2>5, <2>3
    <3>2. U \ {x} \notin Bad
      BY <3>1, <2>2 DEF StrictSubsetOrdering
    <3>3. PICK m, n \in U \ {x} : \A y \in U \ {x} : m <= y /\ y <= n
      BY <3>1, <3>2
    <3>4. x \in Int /\ m \in Int /\ n \in Int
      BY <3>3
    <3>5. PICK a \in U : a \in Int /\ a <= x /\ a <= m
      <4>1. x <= m \/ m <= x
        BY <3>4
      <4> QED BY <4>1, <3>3, <3>4
    <3>6. PICK b \in U : b \in Int /\ x <= b /\ n <= b
      <4>1. x <= n \/ n <= x
        BY <3>4
      <4> QED BY <4>1, <3>3, <3>4
    <3>7. ASSUME NEW y \in U PROVE a <= y /\ y <= b
      <4>1. CASE y = x
        BY <4>1, <3>5, <3>6
      <4>2. CASE y \in U \ {x}
        <5>1. m <= y /\ y <= n /\ y \in Int
          BY <4>2, <3>3
        <5>2. a <= y
          BY <5>1, <3>4, <3>5
        <5>3. y <= b
          BY <5>1, <3>4, <3>6
        <5> QED BY <5>2, <5>3
      <4> QED BY <4>1, <4>2
    <3> QED BY <3>5, <3>6, <3>7
  <2> QED BY <2>4, <2>5
<1>2. PICK m, n \in T : \A x \in T : m <= x /\ x <= n
  BY <1>1
<1> QED BY <1>2 DEF Max, Min

\* A quotient of natural numbers is a natural number, no larger than the dividend
LEMMA Quotient ==
    ASSUME NEW a \in Nat, NEW b \in Nat \ {0}
    PROVE  a \div b \in Nat /\ a \div b <= a
OBVIOUS

\* A duration has at least one period
LEMMA PeriodCountPositive ==
    ASSUME NEW d \in Nat
    PROVE  PeriodCount(d) \in Nat \ {0}
<1>1. CASE d <= 0
  BY <1>1 DEF PeriodCount
<1>2. CASE d > 0
  <2>1. d + PeriodDays - 1 \in Nat /\ d + PeriodDays - 1 >= PeriodDays
    BY <1>2, PeriodDaysAssumption
  <2>2. ASSUME NEW a \in Nat, NEW b \in Nat \ {0}, a >= b PROVE a \div b \in Nat \ {0}
    BY <2>2
  <2>3. PeriodCount(d) = (d + PeriodDays - 1) \div PeriodDays
    BY <1>2 DEF PeriodCount
  <2> QED BY <2>1, <2>2, <2>3, PeriodDaysAssumption
<1> QED BY <1>1, <1>2

\* A monthly share is a part of the package's traffic
LEMMA PeriodQuotaIsAShare ==
    ASSUME NEW p \in Packages
    PROVE  PeriodQuota(p) \in Nat \ {0} /\ PeriodQuota(p) <= Catalog[p].traffic
<1>1. Catalog[p].traffic \in Nat \ {0} /\ Catalog[p].dur \in Nat
  BY CatalogAssumption
<1>2. PeriodCount(Catalog[p].dur) \in Nat \ {0}
  BY <1>1, PeriodCountPositive
<1> DEFINE q == Catalog[p].traffic \div PeriodCount(Catalog[p].dur)
<1>3. q \in Nat /\ q <= Catalog[p].traffic
  BY <1>1, <1>2, Quotient
<1>4. PeriodQuota(p) = IF q <= 0 THEN Catalog[p].traffic ELSE q
  BY DEF PeriodQuota
<1> HIDE DEF q
<1> QED BY <1>1, <1>3, <1>4

------------------------------------------------------------------------------
(* A row of the table at time t                                              *)

\* A waiting plan bucket has not been used and has no expiry (or one that a
\* reversed order took below zero); one that entered service ends at most a full
\* duration from now, and if it has not ended it has its full duration; and only a
\* monthly package or a conversion gives a bucket periods
PlanRow(b, t) ==
    /\ b.pkg \in Packages /\ b.dur = Catalog[b.pkg].dur
    /\ b.status = "queued" => b.expiry <= 0 /\ b.used = 0
    /\ b.status # "queued" => /\ b.expiry <= t + b.dur
                              /\ b.expiry <= t \/ b.expiry >= b.dur
    /\ b.pdays > 0 => Catalog[b.pkg].monthly \/ "convert" \in Exercised

RowOK(b, t) ==
    /\ b \in BucketRow
    /\ b.kind = "plan" => PlanRow(b, t)
    /\ b.kind # "plan" => b.status = "active" /\ b.pdays = 0

RowsOK(bk, t) == \A i \in DOMAIN bk : RowOK(bk[i], t)
Finite(bk) == IsFiniteSet(DOMAIN bk) /\ DOMAIN bk \subseteq Nat

\* What an operation may do to a row it keeps
Evolves(a, b) ==
    /\ b.user = a.user /\ b.kind = a.kind /\ b.pkg = a.pkg /\ b.order = a.order
    /\ b.line = a.line \/ (b.kind = "plan" /\ b.line \in NewLines)
    /\ b.life + b.used >= a.life + a.used

\* A table an operation made of bk without a new row
Follows(bk, next, t) ==
    /\ DOMAIN next \subseteq DOMAIN bk
    /\ \A i \in DOMAIN next : RowOK(next[i], t) /\ Evolves(bk[i], next[i])

\* The columns of a row
LEMMA RowFields ==
    ASSUME NEW b \in BucketRow
    PROVE  /\ b.user \in Users /\ b.kind \in {"plan", "pool", "free"}
           /\ b.pkg \in Packages \cup {0} /\ b.line \in STRING \cup {NoLine} /\ b.order \in Nat
           /\ b.status \in {"queued", "active", "retired"} /\ b.expiry \in Int
           /\ b.dur \in Nat /\ b.used \in Nat /\ b.limit \in Nat /\ b.renew \in BOOLEAN
           /\ b.pdays \in {0, PeriodDays} /\ b.quota \in Nat /\ b.base \in Nat
           /\ b.pstart \in Nat /\ b.life \in Nat /\ b.adv \in 0..2
BY DEF BucketRow

\* A row that stays as it is evolves
LEMMA Unchanged ==
    ASSUME NEW b, NEW t, RowOK(b, t)
    PROVE  Evolves(b, b)
BY RowFields DEF Evolves, RowOK

\* Two changes of a row make one
LEMMA EvolvesTwice ==
    ASSUME NEW a \in BucketRow, NEW b \in BucketRow, NEW c \in BucketRow,
           Evolves(a, b), Evolves(b, c)
    PROVE  Evolves(a, c)
<1>1. /\ a.life + a.used \in Int /\ b.life + b.used \in Int /\ c.life + c.used \in Int
  BY RowFields
<1> QED BY <1>1 DEF Evolves

\* Two operations on a table make one
LEMMA FollowsTwice ==
    ASSUME NEW a, NEW b, NEW c, NEW t, RowsOK(a, t), Follows(a, b, t), Follows(b, c, t)
    PROVE  Follows(a, c, t)
<1> SUFFICES ASSUME NEW i \in DOMAIN c
             PROVE  i \in DOMAIN a /\ RowOK(c[i], t) /\ Evolves(a[i], c[i])
  BY DEF Follows
<1>1. /\ i \in DOMAIN b /\ i \in DOMAIN a
      /\ RowOK(a[i], t) /\ RowOK(b[i], t) /\ RowOK(c[i], t)
      /\ Evolves(a[i], b[i]) /\ Evolves(b[i], c[i])
  BY DEF Follows, RowsOK
<1> QED BY <1>1, EvolvesTwice DEF RowOK

\* The rows stay right as time passes
LEMMA RowsAge ==
    ASSUME NEW bk, NEW t \in Int, NEW s \in Int, t <= s, RowsOK(bk, t)
    PROVE  RowsOK(bk, s)
<1> SUFFICES ASSUME NEW i \in DOMAIN bk PROVE RowOK(bk[i], s)
  BY DEF RowsOK
<1>1. RowOK(bk[i], t)
  BY DEF RowsOK
<1>2. bk[i].expiry \in Int /\ bk[i].dur \in Nat
  BY <1>1, RowFields DEF RowOK
<1> QED BY <1>1, <1>2 DEF RowOK, PlanRow

\* Removing rows
LEMMA WithoutFollows ==
    ASSUME NEW bk, NEW t, RowsOK(bk, t), NEW ids
    PROVE  Follows(bk, Without(bk, ids), t)
BY Unchanged DEF Follows, Without, RowsOK

------------------------------------------------------------------------------
(* Promotion and the borrowable limit                                        *)

\* refreshPeriodLimits keeps the rows right
LEMMA RefreshFollows ==
    ASSUME NEW bk, NEW t, RowsOK(bk, t), NEW ids
    PROVE  Follows(bk, RefreshLimits(bk, ids), t)
<1> DEFINE next == RefreshLimits(bk, ids)
<1>1. DOMAIN next = DOMAIN bk
  BY DEF RefreshLimits
<1>2. ASSUME NEW i \in DOMAIN bk PROVE RowOK(next[i], t) /\ Evolves(bk[i], next[i])
  <2>1. RowOK(bk[i], t) /\ bk[i] \in BucketRow
    BY DEF RowsOK, RowOK
  <2>2. CASE next[i] = bk[i]
    BY <2>1, <2>2, Unchanged
  <2>3. ASSUME NEW lim \in Nat, next[i] = [bk[i] EXCEPT !.limit = lim]
        PROVE  RowOK(next[i], t) /\ Evolves(bk[i], next[i])
    BY <2>1, <2>3, RowFields DEF RowOK, PlanRow, BucketRow, Evolves
  <2>4. bk[i].base \in Nat /\ bk[i].quota \in Nat
    BY <2>1, RowFields
  <2>5. next[i] = bk[i] \/ next[i] = [bk[i] EXCEPT !.limit = bk[i].base + bk[i].quota]
                         \/ next[i] = [bk[i] EXCEPT !.limit = bk[i].base + 0]
    BY DEF RefreshLimits
  <2> QED BY <2>2, <2>3, <2>4, <2>5
<1> QED BY <1>1, <1>2 DEF Follows

\* What the replaced heads owe is a natural number
LEMMA BorrowedIsNat ==
    ASSUME NEW bk, NEW t, RowsOK(bk, t), Finite(bk), NEW u, NEW l, NEW id, NEW clock
    PROVE  Borrowed(bk, u, l, id, clock) \in Nat
<1> DEFINE owing == {i \in ActiveIn(bk, u, l) \ {id} :
                        /\ bk[i].pdays > 0
                        /\ bk[i].expiry > 0
                        /\ bk[i].expiry > clock - bk[i].pdays}
           debts == {bk[i].used - bk[i].base : i \in owing}
<1>1. owing \subseteq DOMAIN bk
  BY DEF ActiveIn, InLine, Owned
<1>2. IsFiniteSet(owing)
  BY <1>1, FS_Subset DEF Finite
<1> HIDE DEF owing
<1>3. IsFiniteSet(debts)
  <2> DEFINE f == [i \in owing |-> bk[i].used - bk[i].base]
  <2>1. f \in Surjection(owing, debts)
    BY DEF Surjection
  <2> QED BY <1>2, <2>1, FS_Surjection
<1>4. debts \subseteq Int
  <2>1. \A i \in owing : bk[i].used \in Nat /\ bk[i].base \in Nat
    BY <1>1, RowFields DEF RowsOK, RowOK
  <2> QED BY <2>1
<1> HIDE DEF debts
<1>5. IsFiniteSet({0} \cup debts) /\ {0} \cup debts \subseteq Int /\ {0} \cup debts # {}
  <2>1. IsFiniteSet({0})
    BY FS_Singleton
  <2>2. IsFiniteSet({0} \cup debts)
    BY <1>3, <2>1, FS_Union
  <2> QED BY <1>4, <2>2
<1>6. Max({0} \cup debts) \in Int /\ 0 <= Max({0} \cup debts)
  BY <1>5, Extremes
<1> QED BY <1>6 DEF Borrowed, owing, debts

\* A promoted bucket is a right row: used nothing, ends a full duration from now at most
LEMMA PromoteOK ==
    ASSUME NEW b, NEW t \in Nat, NEW s \in Nat, t <= s, RowOK(b, s),
           b.kind = "plan", b.status = "queued", NEW carry \in Nat
    PROVE  RowOK(Promote(b, t, carry), s) /\ Evolves(b, Promote(b, t, carry))
<1> DEFINE first == Larger(b.quota - carry, 0)
           row == Promote(b, t, carry)
<1>0. b \in BucketRow /\ PlanRow(b, s)
  BY DEF RowOK
<1>1. first \in Nat
  BY <1>0, RowFields DEF Larger
<1> HIDE DEF first
<1>2. row = [b EXCEPT !.status = "active", !.expiry = row.expiry, !.pstart = row.pstart,
                      !.base = row.base, !.limit = row.limit]
  BY <1>0 DEF Promote, BucketRow
<1>3. /\ row.expiry = IF b.dur > 0 THEN t + b.dur ELSE 0
      /\ row.pstart = IF b.pdays > 0 THEN t ELSE b.pstart
      /\ row.base = IF b.pdays > 0 THEN first ELSE b.base
      /\ row.limit = IF b.pdays > 0 THEN first ELSE b.limit
  BY <1>0 DEF Promote, BucketRow, first
<1> HIDE DEF row
<1>4. b.dur \in Nat
  BY <1>0, RowFields
<1>5. row.expiry \in Int /\ row.pstart \in Nat /\ row.base \in Nat /\ row.limit \in Nat
  BY <1>0, <1>1, <1>3, <1>4, RowFields
<1>6. row \in BucketRow
  BY <1>0, <1>2, <1>5 DEF BucketRow
<1>7. row.pkg = b.pkg /\ row.dur = b.dur /\ row.status = "active" /\ row.kind = "plan"
      /\ row.user = b.user /\ row.order = b.order /\ row.line = b.line /\ row.life = b.life /\ row.used = b.used
      /\ row.pdays = b.pdays
  BY <1>0, <1>2 DEF BucketRow
<1>8. row.expiry <= s + row.dur /\ (row.expiry <= s \/ row.expiry >= row.dur)
  BY <1>3, <1>4, <1>7
<1>9. b.life \in Nat /\ b.used \in Nat
  BY <1>0, RowFields
<1>10. RowOK(row, s) /\ Evolves(b, row)
  BY <1>0, <1>6, <1>7, <1>8, <1>9 DEF RowOK, PlanRow, Evolves
<1> QED BY <1>10 DEF row

\* Handing over: a promotion, a retirement or nothing
LEMMA HandOverFollows ==
    ASSUME NEW bk, NEW t \in Nat, NEW s \in Nat, t <= s, RowsOK(bk, s), Finite(bk), NEW u
    PROVE  Follows(bk, HandOver(bk, u, t, s), s)
<1> DEFINE next == HandOver(bk, u, t, s)
<1>1. DOMAIN next = DOMAIN bk
  BY DEF HandOver
<1>2. ASSUME NEW i \in DOMAIN bk PROVE RowOK(next[i], s) /\ Evolves(bk[i], next[i])
  <2> DEFINE b == bk[i]
             carry == Borrowed(bk, u, b.line, i, s)
  <2>1. RowOK(b, s) /\ b \in BucketRow
    BY DEF RowsOK, RowOK
  <2>2. next[i] = IF b.user # u \/ b.kind # "plan" \/ b.line \notin DueLines(bk, u, t)
                  THEN b
                  ELSE IF NextInLine(bk, u, b.line, i) THEN Promote(b, t, carry)
                  ELSE IF b.status = "active" THEN [b EXCEPT !.status = "retired"]
                  ELSE b
    BY DEF HandOver
  <2>3. carry \in Nat
    BY BorrowedIsNat
  <2>4. NextInLine(bk, u, b.line, i) => b.kind = "plan" /\ b.status = "queued"
    BY DEF NextInLine, QueuedIn, InLine
  <2> HIDE DEF next, b, carry
  <2>5. CASE next[i] = b
    BY <2>1, <2>5, Unchanged DEF b
  <2>6. CASE NextInLine(bk, u, b.line, i) /\ next[i] = Promote(b, t, carry)
    BY <2>1, <2>3, <2>4, <2>6, PromoteOK DEF b
  <2>7. CASE b.kind = "plan" /\ b.status = "active" /\ next[i] = [b EXCEPT !.status = "retired"]
    <3>1. RowOK(next[i], s)
      BY <2>1, <2>7, RowFields DEF RowOK, PlanRow, BucketRow
    <3>2. Evolves(b, next[i])
      BY <2>1, <2>7, RowFields DEF Evolves, BucketRow
    <3> QED BY <3>1, <3>2 DEF b
  <2> QED BY <2>2, <2>5, <2>6, <2>7
<1> QED BY <1>1, <1>2 DEF Follows

\* Without a new row a table stays finite
LEMMA StaysFinite ==
    ASSUME NEW bk, NEW next, NEW t, Finite(bk), Follows(bk, next, t)
    PROVE  Finite(next)
BY FS_Subset DEF Finite, Follows

\* The rows an operation leaves are right ones
LEMMA FollowsOK ==
    ASSUME NEW bk, NEW next, NEW t, Follows(bk, next, t)
    PROVE  RowsOK(next, t)
BY DEF Follows, RowsOK

\* advanceUserQueues keeps the rows right, at a time that has passed too
LEMMA AdvanceFollows ==
    ASSUME NEW bk, NEW t \in Nat, NEW s \in Nat, t <= s, RowsOK(bk, s), Finite(bk), NEW u
    PROVE  Follows(bk, Advance(bk, u, t, s), s)
<1> DEFINE handed == HandOver(bk, u, t, s)
<1>1. Follows(bk, handed, s)
  BY HandOverFollows
<1>2. RowsOK(handed, s)
  BY <1>1, FollowsOK
<1>3. Follows(handed, RefreshLimits(handed, Owned(handed, u)), s)
  BY <1>2, RefreshFollows
<1>4. Advance(bk, u, t, s) = RefreshLimits(handed, Owned(handed, u))
  BY DEF Advance
<1> HIDE DEF handed
<1> QED BY <1>1, <1>3, <1>4, FollowsTwice

\* A rollover keeps the usage and starts a period
LEMMA NextPeriodOK ==
    ASSUME NEW b, NEW t \in Nat, NEW s, RowOK(b, s), PeriodDue(b, t)
    PROVE  RowOK(NextPeriod(b, t), s) /\ Evolves(b, NextPeriod(b, t))
<1> DEFINE n == (t - b.pstart) \div b.pdays
           owed == IF n = 1 THEN Larger(b.used - b.base, 0) ELSE 0
           fresh == Larger(b.quota - owed, 0)
           start == b.pstart + n * b.pdays
<1>1. /\ b \in BucketRow /\ b.kind = "plan" /\ b.status = "active"
      /\ b.pdays \in Nat \ {0} /\ t - b.pstart \in Nat
  <2>1. b \in BucketRow /\ InPeriod(b) /\ b.pstart + b.pdays <= t
    BY DEF RowOK, PeriodDue
  <2>2. b.pdays \in {0, PeriodDays} /\ b.pstart \in Nat
    BY <2>1, RowFields
  <2> QED BY <2>1, <2>2, PeriodDaysAssumption DEF InPeriod
<1>2. n \in Nat
  BY <1>1, Quotient
<1>3. start \in Nat
  <2>1. b.pstart \in Nat
    BY <1>1, RowFields
  <2> HIDE DEF n
  <2>2. n * b.pdays \in Nat
    BY <1>1, <1>2
  <2> QED BY <2>1, <2>2
<1>4. owed \in Nat /\ fresh \in Nat
  <2> HIDE DEF n
  <2>1. b.used \in Nat /\ b.base \in Nat /\ b.quota \in Nat
    BY <1>1, RowFields
  <2>2. owed \in Nat
    BY <2>1 DEF Larger
  <2> HIDE DEF owed
  <2> QED BY <2>1, <2>2 DEF Larger
<1>5. NextPeriod(b, t) = [b EXCEPT !.life = b.life + b.used, !.used = 0, !.pstart = start,
                                   !.base = fresh, !.limit = fresh]
  BY DEF NextPeriod
<1>6. b.life \in Nat /\ b.used \in Nat
  BY <1>1, RowFields
<1> HIDE DEF n, owed, fresh, start
<1> DEFINE row == NextPeriod(b, t)
<1>7. row \in BucketRow
  <2>1. b.life + b.used \in Nat /\ 0 \in Nat
    BY <1>6
  <2>2. ASSUME NEW life \in Nat, NEW used \in Nat, NEW at \in Nat, NEW lim \in Nat
        PROVE  [b EXCEPT !.life = life, !.used = used, !.pstart = at, !.base = lim,
                         !.limit = lim] \in BucketRow
    BY <1>1 DEF BucketRow
  <2>3. [b EXCEPT !.life = b.life + b.used, !.used = 0, !.pstart = start, !.base = fresh,
                  !.limit = fresh] \in BucketRow
    BY <1>3, <1>4, <2>1, <2>2, Zenon
  <2> QED BY <1>5, <2>3
<1>8. /\ row.pkg = b.pkg /\ row.dur = b.dur /\ row.status = b.status /\ row.kind = b.kind
      /\ row.user = b.user /\ row.order = b.order /\ row.line = b.line /\ row.expiry = b.expiry
      /\ row.life = b.life + b.used /\ row.used = 0
  BY <1>1, <1>5 DEF BucketRow
<1> HIDE DEF row
<1>9. RowOK(row, s)
  BY <1>1, <1>7, <1>8 DEF RowOK, PlanRow
<1>10. Evolves(b, row)
  BY <1>6, <1>8 DEF Evolves
<1> QED BY <1>9, <1>10 DEF row

\* resetUserPeriods keeps the rows right
LEMMA ResetFollows ==
    ASSUME NEW bk, NEW t \in Nat, NEW s, RowsOK(bk, s), NEW u
    PROVE  Follows(bk, ResetPeriods(bk, u, t), s)
<1> DEFINE due == DuePeriods(bk, u, t)
           next == [i \in DOMAIN bk |-> IF i \in due THEN NextPeriod(bk[i], t) ELSE bk[i]]
<1>1. ASSUME NEW i \in DOMAIN bk PROVE RowOK(next[i], s) /\ Evolves(bk[i], next[i])
  <2>1. RowOK(bk[i], s)
    BY DEF RowsOK
  <2>2. i \in due => PeriodDue(bk[i], t)
    BY DEF DuePeriods
  <2> QED BY <2>1, <2>2, NextPeriodOK, Unchanged
<1>2. Follows(bk, next, s)
  BY <1>1 DEF Follows
<1>3. ResetPeriods(bk, u, t) = IF due = {} THEN bk ELSE RefreshLimits(next, Owned(next, u))
  BY DEF ResetPeriods
<1> HIDE DEF due, next
<1>4. Follows(next, RefreshLimits(next, Owned(next, u)), s)
  BY <1>2, FollowsOK, RefreshFollows
<1>5. Follows(bk, bk, s)
  BY Unchanged DEF Follows, RowsOK
<1> QED BY <1>2, <1>3, <1>4, <1>5, FollowsTwice

------------------------------------------------------------------------------
(* What an administrator does to a line                                      *)

\* SetLineAdvance keeps the rows right
LEMMA LineAdvanceFollows ==
    ASSUME NEW bk, NEW s, RowsOK(bk, s), NEW u, NEW l, NEW mode \in 0..2
    PROVE  Follows(bk, WithLineAdvance(bk, u, l, mode), s)
<1> DEFINE next == WithLineAdvance(bk, u, l, mode)
<1>1. ASSUME NEW i \in DOMAIN bk PROVE RowOK(next[i], s) /\ Evolves(bk[i], next[i])
  <2>1. RowOK(bk[i], s) /\ bk[i] \in BucketRow
    BY DEF RowsOK, RowOK
  <2>2. next[i] = bk[i] \/ next[i] = [bk[i] EXCEPT !.adv = mode]
    BY DEF WithLineAdvance
  <2> HIDE DEF next
  <2>3. CASE next[i] = bk[i]
    BY <2>1, <2>3, Unchanged
  <2>4. CASE next[i] = [bk[i] EXCEPT !.adv = mode]
    BY <2>1, <2>4, RowFields DEF RowOK, PlanRow, BucketRow, Evolves
  <2> QED BY <2>2, <2>3, <2>4
<1> QED BY <1>1 DEF Follows, WithLineAdvance

\* SetLineMonthlyQuota keeps the rows right
LEMMA MonthlyQuotaFollows ==
    ASSUME NEW bk, NEW s, RowsOK(bk, s), NEW u, NEW l, NEW bytes \in Nat
    PROVE  Follows(bk, WithMonthlyQuota(bk, u, l, bytes), s)
<1> DEFINE next == WithMonthlyQuota(bk, u, l, bytes)
<1>1. ASSUME NEW i \in DOMAIN bk PROVE RowOK(next[i], s) /\ Evolves(bk[i], next[i])
  <2> DEFINE base == Larger(bk[i].base + bytes - bk[i].quota, 0)
             lim == IF bk[i].status = "queued" THEN bytes ELSE base
  <2>1. RowOK(bk[i], s) /\ bk[i] \in BucketRow
    BY DEF RowsOK, RowOK
  <2>2. next[i] = bk[i] \/ next[i] = [bk[i] EXCEPT !.base = base, !.quota = bytes, !.limit = lim]
    BY DEF WithMonthlyQuota
  <2>3. base \in Nat /\ lim \in Nat
    <3>1. bk[i].base \in Nat /\ bk[i].quota \in Nat
      BY <2>1, RowFields
    <3>2. base \in Nat
      BY <3>1 DEF Larger
    <3> HIDE DEF base
    <3> QED BY <3>2
  <2> HIDE DEF next, base, lim
  <2>4. CASE next[i] = bk[i]
    BY <2>1, <2>4, Unchanged
  <2>5. CASE next[i] = [bk[i] EXCEPT !.base = base, !.quota = bytes, !.limit = lim]
    <3>1. next[i] \in BucketRow
      BY <2>1, <2>3, <2>5 DEF BucketRow
    <3>2. Evolves(bk[i], next[i]) /\ next[i].status = bk[i].status
          /\ next[i].dur = bk[i].dur /\ next[i].expiry = bk[i].expiry
          /\ next[i].used = bk[i].used /\ next[i].pdays = bk[i].pdays
      BY <2>1, <2>5, RowFields DEF BucketRow, Evolves
    <3> QED BY <2>1, <3>1, <3>2 DEF RowOK, PlanRow, Evolves
  <2> QED BY <2>2, <2>4, <2>5
<1> QED BY <1>1 DEF Follows, WithMonthlyQuota

\* A converted bucket keeps its usage in life and starts in the period that holds now
LEMMA ConvertedOK ==
    ASSUME NEW b, NEW t \in Nat, RowOK(b, t), b.kind = "plan", b.pdays = 0,
           b.status = "queued" \/ (b.status = "active" /\ NotExpired(b, t)),
           "convert" \in Exercised
    PROVE  RowOK(Converted(b, t), t) /\ Evolves(b, Converted(b, t))
<1> DEFINE split == b.limit \div PeriodCount(b.dur)
           q == IF split <= 0 THEN b.limit ELSE split
           act == IF b.expiry > 0 /\ b.dur > 0 THEN Smaller(b.expiry - b.dur, t) ELSE t
           start == act + ((t - act) \div PeriodDays) * PeriodDays
           row == [b EXCEPT !.pdays = PeriodDays, !.quota = q, !.base = q, !.limit = q]
           run == [row EXCEPT !.pstart = start, !.life = b.life + b.used, !.used = 0]
<1>1. b \in BucketRow /\ PlanRow(b, t)
  BY DEF RowOK
<1>2. /\ b.limit \in Nat /\ b.dur \in Nat /\ b.expiry \in Int /\ b.life \in Nat
      /\ b.used \in Nat /\ PeriodDays \in Nat \ {0}
  BY <1>1, RowFields, PeriodDaysAssumption
<1>3. q \in Nat
  <2>1. split \in Nat
    BY <1>2, PeriodCountPositive, Quotient
  <2> HIDE DEF split
  <2> QED BY <1>2, <2>1
<1>4. b.status = "active" => act \in Nat /\ act <= t
  BY <1>1, <1>2 DEF Smaller, NotExpired, PlanRow
<1>5. b.status = "active" => start \in Nat
  <2> SUFFICES ASSUME b.status = "active" PROVE start \in Nat
    OBVIOUS
  <2>1. act \in Nat /\ t - act \in Nat
    BY <1>4
  <2> HIDE DEF act
  <2> DEFINE n == (t - act) \div PeriodDays
  <2>2. n \in Nat
    BY <1>2, <2>1, Quotient
  <2> HIDE DEF n
  <2>3. n * PeriodDays \in Nat
    BY <1>2, <2>2
  <2>4. start = act + n * PeriodDays
    BY DEF n
  <2> QED BY <2>1, <2>3, <2>4
<1>6. Converted(b, t) = IF b.status = "queued" THEN row ELSE run
  BY DEF Converted
<1> HIDE DEF q, start
<1>7. /\ row \in BucketRow
      /\ row.pkg = b.pkg /\ row.dur = b.dur /\ row.status = b.status /\ row.kind = b.kind
      /\ row.user = b.user /\ row.order = b.order /\ row.line = b.line /\ row.expiry = b.expiry
      /\ row.life = b.life /\ row.used = b.used
  BY <1>1, <1>2, <1>3 DEF BucketRow
<1> HIDE DEF row
<1>8. CASE b.status = "queued"
  <2>1. RowOK(row, t)
    BY <1>1, <1>7 DEF RowOK, PlanRow
  <2>2. Evolves(b, row)
    BY <1>2, <1>7 DEF Evolves
  <2> QED BY <1>6, <1>8, <2>1, <2>2
<1>9. CASE b.status = "active"
  <2>1. b.life + b.used \in Nat
    BY <1>2
  <2>2. ASSUME NEW life \in Nat, NEW used \in Nat, NEW at \in Nat
        PROVE  [row EXCEPT !.pstart = at, !.life = life, !.used = used] \in BucketRow
    BY <1>7 DEF BucketRow
  <2>3. run \in BucketRow
    <3>1. 0 \in Nat
      OBVIOUS
    <3> QED BY <1>5, <1>9, <2>1, <2>2, <3>1, Zenon
  <2>4. /\ run.pkg = b.pkg /\ run.dur = b.dur /\ run.status = b.status /\ run.kind = b.kind
        /\ run.user = b.user /\ run.order = b.order /\ run.line = b.line /\ run.expiry = b.expiry
        /\ run.life = b.life + b.used /\ run.used = 0
    BY <1>7 DEF BucketRow
  <2> HIDE DEF run
  <2>5. RowOK(run, t)
    BY <1>1, <1>9, <2>3, <2>4 DEF RowOK, PlanRow
  <2>6. Evolves(b, run)
    BY <1>2, <2>4 DEF Evolves
  <2> QED BY <1>6, <1>9, <2>5, <2>6
<1> QED BY <1>8, <1>9

\* ConvertLineToPeriodic keeps the rows right
LEMMA ConvertFollows ==
    ASSUME NEW bk, NEW t \in Nat, RowsOK(bk, t), NEW u, NEW l, "convert" \in Exercised
    PROVE  Follows(bk, WithConverted(bk, u, l, t), t)
<1> DEFINE next == WithConverted(bk, u, l, t)
<1>1. ASSUME NEW i \in DOMAIN bk PROVE RowOK(next[i], t) /\ Evolves(bk[i], next[i])
  <2>1. RowOK(bk[i], t) /\ bk[i] \in BucketRow
    BY DEF RowsOK, RowOK
  <2>2. next[i] = IF i \in Convertible(bk, u, l, t) THEN Converted(bk[i], t) ELSE bk[i]
    BY DEF WithConverted
  <2>3. i \in Convertible(bk, u, l, t) =>
           /\ bk[i].kind = "plan" /\ bk[i].pdays = 0
           /\ bk[i].status = "queued" \/ (bk[i].status = "active" /\ NotExpired(bk[i], t))
    BY <2>1, RowFields DEF Convertible, LiveIn, InLine
  <2> QED BY <2>1, <2>2, <2>3, ConvertedOK, Unchanged
<1> QED BY <1>1 DEF Follows, WithConverted

------------------------------------------------------------------------------
(* New rows                                                                  *)

\* The newest bucket of a set of ids is one of them
LEMMA NewestIsOne ==
    ASSUME NEW bk, Finite(bk), NEW ids \in SUBSET DOMAIN bk, ids # {}
    PROVE  Max(ids) \in ids /\ Min(ids) \in ids
<1>1. IsFiniteSet(ids) /\ ids \subseteq Int
  BY FS_Subset DEF Finite
<1> QED BY <1>1, Extremes

\* enqueuePlanBucket inserts a right row
LEMMA QueuedPlanOK ==
    ASSUME NEW bk, NEW s, RowsOK(bk, s), Finite(bk), NEW u \in Users, NEW p \in Packages,
           NEW l \in STRING, NEW o \in Nat
    PROVE  RowOK(QueuedPlan(bk, u, p, l, o), s)
<1> DEFINE live == LiveIn(bk, u, l)
           monthly == {i \in live : bk[i].pdays > 0}
<1>1. live \in SUBSET DOMAIN bk /\ monthly \in SUBSET DOMAIN bk
  BY DEF LiveIn, InLine, Owned
<1>2. InheritedRenew(bk, u, l) \in BOOLEAN
  <2>1. CASE live = {}
    BY <2>1 DEF InheritedRenew
  <2>2. CASE live # {}
    <3>1. Max(live) \in DOMAIN bk
      BY <1>1, <2>2, NewestIsOne
    <3>2. bk[Max(live)].renew \in BOOLEAN
      BY <3>1, RowFields DEF RowsOK, RowOK
    <3> QED BY <2>2, <3>2 DEF InheritedRenew
  <2> QED BY <2>1, <2>2
<1>3. InheritedAdvance(bk, u, l) \in 0..2
  <2>1. CASE monthly = {}
    BY <2>1 DEF InheritedAdvance, FollowPackage
  <2>2. CASE monthly # {}
    <3>1. Max(monthly) \in DOMAIN bk
      BY <1>1, <2>2, NewestIsOne
    <3>2. bk[Max(monthly)].adv \in 0..2
      BY <3>1, RowFields DEF RowsOK, RowOK
    <3> QED BY <2>2, <3>2 DEF InheritedAdvance
  <2> QED BY <2>1, <2>2
<1> HIDE DEF live, monthly
<1> DEFINE quota == IF Monthly(p) THEN PeriodQuota(p) ELSE 0
           limit == IF Monthly(p) THEN quota ELSE Catalog[p].traffic
           pdays == IF Monthly(p) THEN PeriodDays ELSE 0
           adv == IF Monthly(p) THEN InheritedAdvance(bk, u, l) ELSE FollowPackage
           renew == InheritedRenew(bk, u, l)
           row == [user |-> u, kind |-> "plan", pkg |-> p, line |-> l, order |-> o,
                   status |-> "queued", expiry |-> 0, dur |-> Catalog[p].dur, used |-> 0,
                   limit |-> limit, renew |-> renew, pdays |-> pdays, quota |-> quota,
                   base |-> quota, pstart |-> 0, life |-> 0, adv |-> adv]
<1>4. Catalog[p].traffic \in Nat /\ Catalog[p].dur \in Nat
  BY CatalogAssumption
<1>5. quota \in Nat
  BY PeriodQuotaIsAShare
<1>6. limit \in Nat /\ pdays \in {0, PeriodDays} /\ adv \in 0..2
  BY <1>3, <1>4, <1>5 DEF FollowPackage
<1>7. QueuedPlan(bk, u, p, l, o) = row
  BY DEF QueuedPlan
<1>8. pdays > 0 => Catalog[p].monthly
  BY DEF Monthly
<1> HIDE DEF quota, limit, pdays, adv, renew
<1>9. row \in BucketRow
  BY <1>2, <1>4, <1>5, <1>6 DEF BucketRow, renew
<1>10. PlanRow(row, s)
  BY <1>8 DEF PlanRow
<1> QED BY <1>7, <1>9, <1>10 DEF RowOK

\* addToPool and ensureFreeBucketWith insert a right row
LEMMA AncillaryOK ==
    ASSUME NEW s, NEW u \in Users, NEW kind \in {"pool", "free"}, NEW limit \in Nat
    PROVE  RowOK(Ancillary(u, kind, limit), s)
<1>1. Ancillary(u, kind, limit) \in BucketRow
  <2>1. NoOrder \in Nat /\ FollowPackage \in 0..2
    BY DEF NoOrder, FollowPackage
  <2> QED BY <2>1 DEF Ancillary, BucketRow
<1> QED BY <1>1 DEF RowOK, Ancillary

\* A table with one new row
LEMMA WithOK ==
    ASSUME NEW bk, NEW s, RowsOK(bk, s), Finite(bk), NEW id \in Nat, NEW row, RowOK(row, s)
    PROVE  RowsOK(With(bk, id, row), s) /\ Finite(With(bk, id, row))
<1>1. RowsOK(With(bk, id, row), s)
  BY DEF RowsOK, With
<1>2. DOMAIN With(bk, id, row) = DOMAIN bk \cup {id}
  BY DEF With
<1>3. IsFiniteSet(DOMAIN bk \cup {id})
  BY FS_AddElement DEF Finite
<1> QED BY <1>1, <1>2, <1>3 DEF Finite

------------------------------------------------------------------------------
(* Undoing an order                                                          *)

\* Which bucket the claw-back takes, and what it leaves of it
Clawed(b, p, t) ==
    [b EXCEPT !.limit = Larger(b.limit - Catalog[p].traffic, Larger(b.used, 0)),
              !.expiry = b.expiry - Catalog[p].dur]

\* reversePlanBucket leaves the table alone, removes one row, or claws one back
LEMMA ReversePlanCases ==
    ASSUME NEW bk, NEW t, RowsOK(bk, t), Finite(bk), NEW u, NEW p
    PROVE  \/ ReversePlan(bk, u, p, t) = bk
           \/ \E i \in PlansOf(bk, u, p) :
                 \/ ReversePlan(bk, u, p, t) = Without(bk, {i})
                 \/ /\ ReversePlan(bk, u, p, t) = [bk EXCEPT ![i] = Clawed(bk[i], p, t)]
                    /\ ~ (/\ Larger(bk[i].limit - Catalog[p].traffic, Larger(bk[i].used, 0))
                                 <= bk[i].used
                          /\ bk[i].expiry - Catalog[p].dur <= t)
<1> DEFINE ids == PlansOf(bk, u, p)
           i == Min(ids)
           b == bk[i]
           lim == Larger(b.limit - Catalog[p].traffic, Larger(b.used, 0))
           exp == b.expiry - Catalog[p].dur
<1>1. ReversePlan(bk, u, p, t) = IF ids = {} THEN bk
                                 ELSE IF lim <= b.used /\ exp <= t THEN Without(bk, {i})
                                 ELSE [bk EXCEPT ![i].limit = lim, ![i].expiry = exp]
  BY DEF ReversePlan
<1>2. CASE ids = {}
  BY <1>1, <1>2
<1>3. CASE ids # {}
  <2>1. i \in ids
    <3>1. ids \in SUBSET DOMAIN bk
      BY DEF PlansOf, Owned
    <3> HIDE DEF ids
    <3> QED BY <1>3, <3>1, NewestIsOne
  <2>2. i \in DOMAIN bk
    BY <2>1 DEF PlansOf, Owned
  <2> HIDE DEF i, ids
  <2>3. [bk EXCEPT ![i].limit = lim, ![i].expiry = exp] = [bk EXCEPT ![i] = Clawed(bk[i], p, t)]
    BY <2>2 DEF Clawed
  <2> QED BY <1>1, <1>3, <2>1, <2>3 DEF ids
<1> QED BY <1>2, <1>3

\* What is left of a clawed bucket has no time left
LEMMA ClawedOK ==
    ASSUME NEW b, NEW t \in Nat, RowOK(b, t), b.kind = "plan"
    PROVE  RowOK(Clawed(b, b.pkg, t), t) /\ Evolves(b, Clawed(b, b.pkg, t))
<1> DEFINE row == Clawed(b, b.pkg, t)
           lim == Larger(b.limit - Catalog[b.pkg].traffic, Larger(b.used, 0))
           exp == b.expiry - Catalog[b.pkg].dur
<1>1. b \in BucketRow /\ PlanRow(b, t) /\ b.pkg \in Packages
  BY DEF RowOK, PlanRow
<1>2. /\ b.limit \in Nat /\ b.used \in Nat /\ b.expiry \in Int /\ b.life \in Nat
      /\ b.dur \in Nat /\ Catalog[b.pkg].traffic \in Nat /\ Catalog[b.pkg].dur \in Nat
  BY <1>1, RowFields, CatalogAssumption
<1>3. lim \in Nat /\ exp \in Int
  BY <1>2 DEF Larger
<1>4. row = [b EXCEPT !.limit = lim, !.expiry = exp]
  BY DEF Clawed
<1>5. exp = b.expiry - b.dur
  BY <1>1 DEF PlanRow
<1> HIDE DEF lim, exp, row
<1>6. row \in BucketRow
  BY <1>1, <1>3, <1>4 DEF BucketRow
<1>7. /\ row.pkg = b.pkg /\ row.dur = b.dur /\ row.status = b.status /\ row.kind = b.kind
      /\ row.user = b.user /\ row.order = b.order /\ row.line = b.line /\ row.expiry = exp
      /\ row.life = b.life /\ row.used = b.used /\ row.pdays = b.pdays
  BY <1>1, <1>4 DEF BucketRow
<1>8. RowOK(row, t)
  BY <1>1, <1>2, <1>5, <1>6, <1>7 DEF RowOK, PlanRow
<1>9. Evolves(b, row)
  BY <1>2, <1>7 DEF Evolves
<1> QED BY <1>8, <1>9 DEF row

\* Rewriting one row
LEMMA RowFollows ==
    ASSUME NEW bk, NEW t, RowsOK(bk, t), NEW i \in DOMAIN bk, NEW row,
           RowOK(row, t), Evolves(bk[i], row)
    PROVE  Follows(bk, [bk EXCEPT ![i] = row], t)
BY Unchanged DEF Follows, RowsOK

\* reversePlanBucket keeps the rows right
LEMMA ReversePlanFollows ==
    ASSUME NEW bk, NEW t \in Nat, RowsOK(bk, t), Finite(bk), NEW u, NEW p
    PROVE  Follows(bk, ReversePlan(bk, u, p, t), t)
<1>1. CASE ReversePlan(bk, u, p, t) = bk
  BY <1>1, Unchanged DEF Follows, RowsOK
<1>2. ASSUME NEW i \in PlansOf(bk, u, p),
             \/ ReversePlan(bk, u, p, t) = Without(bk, {i})
             \/ ReversePlan(bk, u, p, t) = [bk EXCEPT ![i] = Clawed(bk[i], p, t)]
      PROVE  Follows(bk, ReversePlan(bk, u, p, t), t)
  <2>1. i \in DOMAIN bk /\ bk[i].kind = "plan" /\ bk[i].pkg = p /\ RowOK(bk[i], t)
    BY DEF PlansOf, Owned, RowsOK
  <2>2. RowOK(Clawed(bk[i], p, t), t) /\ Evolves(bk[i], Clawed(bk[i], p, t))
    BY <2>1, ClawedOK
  <2> QED BY <1>2, <2>1, <2>2, RowFollows, WithoutFollows
<1> QED BY <1>1, <1>2, ReversePlanCases

\* reverseOrderBucket keeps the rows right
LEMMA ReverseOrderFollows ==
    ASSUME NEW bk, NEW t \in Nat, RowsOK(bk, t), Finite(bk), NEW u, NEW p, NEW o
    PROVE  Follows(bk, ReverseOrder(bk, u, p, o, t), t)
<1> DEFINE less == Without(bk, {Min(OfOrder(bk, u, o))})
<1>1. Follows(bk, less, t)
  BY WithoutFollows
<1>2. RowsOK(less, t) /\ Finite(less)
  BY <1>1, FollowsOK, StaysFinite
<1> HIDE DEF less
<1>3. t <= t
  OBVIOUS
<1>4. Follows(less, Advance(less, u, t, t), t)
  BY <1>2, <1>3, AdvanceFollows
<1>5. ReverseOrder(bk, u, p, o, t) \in {ReversePlan(bk, u, p, t), Advance(less, u, t, t)}
  BY DEF ReverseOrder, less
<1> QED BY <1>1, <1>4, <1>5, FollowsTwice, ReversePlanFollows

\* Changing a row's limit
LEMMA LimitOK ==
    ASSUME NEW b, NEW t, RowOK(b, t), NEW limit \in Nat
    PROVE  LET row == [b EXCEPT !.limit = limit] IN RowOK(row, t) /\ Evolves(b, row)
<1> DEFINE row == [b EXCEPT !.limit = limit]
<1>1. b \in BucketRow
  BY DEF RowOK
<1>2. row \in BucketRow
  BY <1>1 DEF BucketRow
<1>3. /\ row.pkg = b.pkg /\ row.dur = b.dur /\ row.status = b.status /\ row.kind = b.kind
      /\ row.user = b.user /\ row.order = b.order /\ row.line = b.line /\ row.expiry = b.expiry
      /\ row.life = b.life /\ row.used = b.used /\ row.pdays = b.pdays
  BY <1>1 DEF BucketRow
<1> HIDE DEF row
<1>4. RowOK(row, t)
  BY <1>2, <1>3 DEF RowOK, PlanRow
<1>5. Evolves(b, row)
  BY <1>1, <1>3, RowFields DEF Evolves
<1> QED BY <1>4, <1>5 DEF row

\* subFromPool keeps the rows right
LEMMA ReversePoolFollows ==
    ASSUME NEW bk, NEW t, RowsOK(bk, t), Finite(bk), NEW u, NEW bytes \in Nat
    PROVE  Follows(bk, ReversePool(bk, u, bytes), t)
<1> DEFINE ids == PoolsOf(bk, u)
           i == Min(ids)
           lim == Larger(bk[i].limit - bytes, Larger(bk[i].used, 0))
<1>1. CASE ids = {}
  BY <1>1, Unchanged DEF ReversePool, Follows, RowsOK
<1>2. CASE ids # {}
  <2>1. i \in DOMAIN bk
    <3>1. ids \in SUBSET DOMAIN bk
      BY DEF PoolsOf, Owned
    <3> HIDE DEF ids
    <3> QED BY <1>2, <3>1, NewestIsOne
  <2>2. ReversePool(bk, u, bytes) = [bk EXCEPT ![i].limit = lim]
    BY <1>2 DEF ReversePool
  <2> HIDE DEF ids, i
  <2>3. RowOK(bk[i], t)
    BY <2>1 DEF RowsOK
  <2>4. lim \in Nat
    BY <2>3, RowFields DEF Larger, RowOK
  <2> HIDE DEF lim
  <2> DEFINE row == [bk[i] EXCEPT !.limit = lim]
  <2>5. RowOK(row, t) /\ Evolves(bk[i], row)
    BY <2>3, <2>4, LimitOK
  <2>6. [bk EXCEPT ![i].limit = lim] = [bk EXCEPT ![i] = row]
    OBVIOUS
  <2> HIDE DEF row
  <2>7. Follows(bk, [bk EXCEPT ![i] = row], t)
    BY <2>1, <2>5, RowFollows
  <2> QED BY <2>2, <2>6, <2>7, Zenon
<1> QED BY <1>1, <1>2

------------------------------------------------------------------------------
(* What a step does to the table                                             *)

Works == [user : Users, line : STRING \cup {NoLine}]

JobsTyped ==
    /\ sweep \in [phase : {"idle", "advance", "renew", "reset"}, at : Nat, todo : SUBSET Works]
    /\ visit \subseteq [user : Users, at : Nat, roll : BOOLEAN, due : BOOLEAN]

\* No job works with a timestamp from the future
JobsArePunctual == sweep.at <= now /\ \A v \in visit : v.at <= now

IdsAreSpent == nextBucket \in Nat \ {0} /\ DOMAIN buckets \subseteq 1..(nextBucket - 1)

TableInv ==
    /\ now \in StartTime..MaxTime
    /\ IdsAreSpent /\ RowsOK(buckets, now)
    /\ JobsTyped /\ JobsArePunctual

Kept == nextBucket' = nextBucket /\ Follows(buckets, buckets', now)

Inserted(row) ==
    /\ RowOK(row, now)
    /\ nextBucket' = nextBucket + 1
    /\ Follows(With(buckets, nextBucket, row), buckets', now)

\* Where a new row comes from: a plan bucket from an order and its line
Origin(row, u, p, line, o) ==
    IF row.kind = "plan"
    THEN /\ row.user = u /\ row.pkg = p /\ row.line = line /\ row.order = o
         /\ Catalog[p].type = "plan"
    ELSE row.order = NoOrder

\* A new plan bucket is written with its order, for a package of that type and in the
\* line the package has now or had when an administrator's grant read it
Recorded(row) ==
    IF row.kind = "plan"
    THEN /\ row.order = Len(orders) + 1 /\ Catalog[row.pkg].type = "plan"
         /\ \E price, key :
               orders' = Append(orders, [user |-> row.user, pkg |-> row.pkg, price |-> price,
                                         key |-> key, back |-> 0, status |-> "success"])
         /\ \/ row.line = pkgs[row.pkg].line
            \/ \E g \in grant : g.pkg = row.pkg /\ row.line = g.line
    ELSE row.order = NoOrder

TableMove == Kept \/ \E row : Inserted(row) /\ Recorded(row)

\* What the invariant of the table says, in the form the steps below use it
LEMMA TableFacts ==
    ASSUME TableInv
    PROVE  /\ now \in Nat /\ now <= now /\ Finite(buckets) /\ nextBucket \in Nat
           /\ nextBucket \notin DOMAIN buckets /\ sweep.at \in Nat /\ sweep.at <= now
           /\ \A v \in visit : v.at \in Nat /\ v.at <= now
<1>1. nextBucket \in Nat \ {0} /\ DOMAIN buckets \subseteq 1..(nextBucket - 1)
  BY DEF TableInv, IdsAreSpent
<1>2. IsFiniteSet(1..(nextBucket - 1))
  BY <1>1, FS_Interval
<1>3. Finite(buckets)
  BY <1>1, <1>2, FS_Subset DEF Finite
<1>4. now \in Nat /\ nextBucket \notin DOMAIN buckets
  BY <1>1, TimeAssumption DEF TableInv
<1> QED BY <1>1, <1>3, <1>4 DEF TableInv, JobsTyped, JobsArePunctual

\* A step that leaves the table alone keeps its rows
LEMMA StillTable ==
    ASSUME TableInv, UNCHANGED <<buckets, nextBucket>>
    PROVE  Kept
BY Unchanged DEF Kept, Follows, RowsOK, TableInv

\* A new plan bucket, new shared traffic or more of it
LEMMA EntitleMoves ==
    ASSUME TableInv, NEW u \in Users, NEW p \in Packages, NEW line \in STRING,
           NEW o \in Nat, NEW t \in Nat, t <= now, Entitle(u, p, line, o, t)
    PROVE  Kept \/ \E row : Inserted(row) /\ Origin(row, u, p, line, o)
<1>0. RowsOK(buckets, now) /\ now \in Nat /\ Finite(buckets) /\ nextBucket \in Nat
  BY TableFacts DEF TableInv
<1> DEFINE row == QueuedPlan(buckets, u, p, line, o)
           more == With(buckets, nextBucket, row)
           pools == PoolsOf(buckets, u)
           pool == Ancillary(u, "pool", Catalog[p].traffic)
           i == Min(pools)
           lim == buckets[i].limit + Catalog[p].traffic
<1>1. CASE Catalog[p].type = "plan"
  <2>1. buckets' = Advance(more, u, t, now) /\ nextBucket' = nextBucket + 1
    BY <1>1 DEF Entitle
  <2>2. RowOK(row, now)
    BY <1>0, QueuedPlanOK
  <2> HIDE DEF row
  <2>3. RowsOK(more, now) /\ Finite(more)
    BY <1>0, <2>2, WithOK
  <2> HIDE DEF more
  <2>4. Follows(more, Advance(more, u, t, now), now)
    BY <1>0, <2>3, AdvanceFollows
  <2>5. Inserted(row)
    BY <2>1, <2>2, <2>4 DEF Inserted, more
  <2>6. Origin(row, u, p, line, o)
    BY <1>1 DEF Origin, row, QueuedPlan
  <2> QED BY <2>5, <2>6
<1>2. CASE Catalog[p].type # "plan" /\ pools = {}
  <2>1. buckets' = With(buckets, nextBucket, pool) /\ nextBucket' = nextBucket + 1
    BY <1>2 DEF Entitle
  <2>2. Catalog[p].traffic \in Nat
    BY CatalogAssumption
  <2>3. RowOK(pool, now)
    BY <2>2, AncillaryOK
  <2> HIDE DEF pool
  <2>4. RowsOK(With(buckets, nextBucket, pool), now)
    BY <1>0, <2>3, WithOK
  <2>5. Follows(buckets', buckets', now)
    BY <2>1, <2>4, Unchanged DEF Follows, RowsOK
  <2>6. Inserted(pool)
    BY <2>1, <2>3, <2>5 DEF Inserted
  <2>7. Origin(pool, u, p, line, o)
    BY DEF Origin, pool, Ancillary
  <2> QED BY <2>6, <2>7
<1>3. CASE Catalog[p].type # "plan" /\ pools # {}
  <2>1. buckets' = [buckets EXCEPT ![i].limit = lim] /\ nextBucket' = nextBucket
    BY <1>3 DEF Entitle
  <2>2. i \in DOMAIN buckets
    <3>1. pools \in SUBSET DOMAIN buckets
      BY DEF PoolsOf, Owned
    <3> HIDE DEF pools
    <3> QED BY <1>0, <1>3, <3>1, NewestIsOne
  <2> HIDE DEF i, pools
  <2>3. RowOK(buckets[i], now) /\ lim \in Nat
    <3>1. RowOK(buckets[i], now)
      BY <1>0, <2>2 DEF RowsOK
    <3>2. buckets[i].limit \in Nat /\ Catalog[p].traffic \in Nat
      BY <3>1, RowFields, CatalogAssumption DEF RowOK
    <3> QED BY <3>1, <3>2
  <2> HIDE DEF lim
  <2> DEFINE topped == [buckets[i] EXCEPT !.limit = lim]
  <2>4. RowOK(topped, now) /\ Evolves(buckets[i], topped)
    BY <2>3, LimitOK
  <2>5. [buckets EXCEPT ![i].limit = lim] = [buckets EXCEPT ![i] = topped]
    OBVIOUS
  <2> HIDE DEF topped
  <2>6. Follows(buckets, [buckets EXCEPT ![i] = topped], now)
    BY <1>0, <2>2, <2>4, RowFollows
  <2>7. Kept
    BY <2>1, <2>5, <2>6 DEF Kept
  <2> QED BY <2>7
<1> QED BY <1>1, <1>2, <1>3

\* A refund inserts nothing and keeps the rows it leaves
LEMMA RefundKeeps ==
    ASSUME TableInv, BookTypeOK, NEW o \in DOMAIN orders, NEW mode, RefundTx(o, mode)
    PROVE  Kept
<1>1. RowsOK(buckets, now) /\ now \in Nat /\ Finite(buckets)
  BY TableFacts DEF TableInv
<1> DEFINE u == orders[o].user
           p == orders[o].pkg
<1>2. p \in Packages /\ Catalog[p].traffic \in Nat
  BY OrderTyped, CatalogAssumption DEF OrderRow
<1>3. /\ buckets' = IF Catalog[p].type = "plan" THEN ReverseOrder(buckets, u, p, o, now)
                     ELSE ReversePool(buckets, u, Catalog[p].traffic)
      /\ nextBucket' = nextBucket
  BY DEF RefundTx
<1> HIDE DEF u, p
<1>4. Follows(buckets, ReverseOrder(buckets, u, p, o, now), now)
  BY <1>1, ReverseOrderFollows
<1>5. Follows(buckets, ReversePool(buckets, u, Catalog[p].traffic), now)
  BY <1>1, <1>2, ReversePoolFollows
<1> QED BY <1>3, <1>4, <1>5 DEF Kept

\* A change to the table, then the queue
LEMMA ChangeKeeps ==
    ASSUME TableInv, NEW bk, NEW u, ChangeTable(bk, u), Follows(buckets, bk, now)
    PROVE  Kept
<1>1. RowsOK(buckets, now) /\ now \in Nat /\ Finite(buckets) /\ now <= now
  BY TableFacts DEF TableInv
<1>2. RowsOK(bk, now) /\ Finite(bk)
  BY <1>1, FollowsOK, StaysFinite
<1>3. Follows(bk, Advance(bk, u, now, now), now)
  BY <1>1, <1>2, AdvanceFollows
<1>4. Follows(buckets, Advance(bk, u, now, now), now)
  BY <1>1, <1>3, FollowsTwice
<1> QED BY <1>4 DEF Kept, ChangeTable

\* Advancing a user's queues inserts nothing and keeps the rows
LEMMA AdvanceTxKeeps ==
    ASSUME TableInv, NEW u, NEW t \in Nat, t <= now, AdvanceTx(u, t)
    PROVE  Kept
BY TableFacts, AdvanceFollows DEF Kept, AdvanceTx, TableInv

\* Resetting a user's periods inserts nothing and keeps the rows
LEMMA ResetTxKeeps ==
    ASSUME TableInv, NEW u, NEW t \in Nat, ResetTx(u, t)
    PROVE  Kept
BY TableFacts, ResetFollows DEF Kept, ResetTx, TableInv

\* An administrator's change to one bucket's traffic
LEMMA AdjustedRow ==
    ASSUME TableInv, NEW i \in DOMAIN buckets, NEW d \in TrafficDeltas, AdjustBucketTraffic(i, d)
    PROVE  \E row : /\ RowOK(row, now) /\ Evolves(buckets[i], row)
                    /\ ChangeTable([buckets EXCEPT ![i] = row], buckets[i].user)
<1> DEFINE b == buckets[i]
           limit == b.limit + d
           base == IF b.pdays > 0 /\ b.status = "active" THEN Larger(b.base + d, 0) ELSE b.base
           quota == IF b.pdays > 0 /\ b.status = "queued" THEN limit ELSE b.quota
           row == [b EXCEPT !.limit = limit, !.base = base, !.quota = quota]
<1>1. RowsOK(buckets, now) /\ RowOK(b, now) /\ b \in BucketRow
  BY DEF TableInv, RowsOK, RowOK
<1>2. /\ b.limit \in Nat /\ b.base \in Nat /\ b.quota \in Nat /\ b.used \in Nat
      /\ b.life \in Nat /\ d \in Int
  BY <1>1, RowFields, AmountsAssumption
<1>3. limit >= 0 /\ ChangeTable([buckets EXCEPT ![i] = row], b.user)
  BY DEF AdjustBucketTraffic
<1>4. limit \in Nat
  BY <1>2, <1>3
<1>5. base \in Nat
  BY <1>2 DEF Larger
<1>6. quota \in Nat
  <2> HIDE DEF limit
  <2> QED BY <1>2, <1>4
<1> HIDE DEF limit, base, quota
<1>7. row \in BucketRow
  BY <1>1, <1>4, <1>5, <1>6 DEF BucketRow
<1>8. /\ row.pkg = b.pkg /\ row.dur = b.dur /\ row.status = b.status /\ row.kind = b.kind
      /\ row.user = b.user /\ row.order = b.order /\ row.line = b.line /\ row.expiry = b.expiry
      /\ row.life = b.life /\ row.used = b.used /\ row.pdays = b.pdays
  BY <1>1 DEF BucketRow
<1> HIDE DEF row
<1>9. RowOK(row, now)
  BY <1>1, <1>7, <1>8 DEF RowOK, PlanRow
<1>10. Evolves(b, row)
  BY <1>2, <1>8 DEF Evolves
<1> QED BY <1>3, <1>9, <1>10

\* That change inserts nothing and keeps the rows
LEMMA AdjustKeeps ==
    ASSUME TableInv, NEW i \in DOMAIN buckets, NEW d \in TrafficDeltas, AdjustBucketTraffic(i, d)
    PROVE  Kept
<1>1. PICK row : /\ RowOK(row, now) /\ Evolves(buckets[i], row)
                 /\ ChangeTable([buckets EXCEPT ![i] = row], buckets[i].user)
  BY AdjustedRow
<1>2. Follows(buckets, [buckets EXCEPT ![i] = row], now)
  BY <1>1, RowFollows DEF TableInv
<1> QED BY <1>1, <1>2, ChangeKeeps

\* Switching a line's renewal choice inserts nothing and keeps the rows
LEMMA RenewSwitchKeeps ==
    ASSUME TableInv, NEW i \in DOMAIN buckets, NEW e \in BOOLEAN, SetPlanAutoRenew(i, e)
    PROVE  Kept
<1> DEFINE line == LiveIn(buckets, buckets[i].user, buckets[i].line)
<1>1. /\ nextBucket' = nextBucket
      /\ buckets' = [j \in DOMAIN buckets |->
                        IF j \in line THEN [buckets[j] EXCEPT !.renew = e] ELSE buckets[j]]
  BY DEF SetPlanAutoRenew
<1> HIDE DEF line
<1>2. ASSUME NEW j \in DOMAIN buckets
      PROVE  RowOK(buckets'[j], now) /\ Evolves(buckets[j], buckets'[j])
  <2>1. RowOK(buckets[j], now) /\ buckets[j] \in BucketRow
    BY DEF TableInv, RowsOK, RowOK
  <2>2. CASE buckets'[j] = buckets[j]
    BY <2>1, <2>2, Unchanged
  <2>3. CASE buckets'[j] = [buckets[j] EXCEPT !.renew = e]
    BY <2>1, <2>3, RowFields DEF RowOK, PlanRow, BucketRow, Evolves
  <2> QED BY <1>1, <2>2, <2>3
<1> QED BY <1>1, <1>2 DEF Kept, Follows

\* Metering inserts nothing, keeps the rows and only adds to what a row used
LEMMA UsageKeeps ==
    ASSUME TableInv, NEW i \in DOMAIN buckets, NEW d \in UsageDeltas, AddBucketUsage(i, d)
    PROVE  Kept
<1> DEFINE b == buckets[i]
           used == b.used + d
           row == [b EXCEPT !.used = used]
<1>1. RowsOK(buckets, now) /\ RowOK(b, now) /\ b \in BucketRow
  BY DEF TableInv, RowsOK, RowOK
<1>2. b.used \in Nat /\ b.life \in Nat /\ d \in Nat /\ used \in Nat
  BY <1>1, RowFields, AmountsAssumption
<1>3. b.kind = "plan" => b.status # "queued"
  <2> SUFFICES ASSUME b.kind = "plan" PROVE b.status # "queued"
    OBVIOUS
  <2> DEFINE ids == {j \in PlansOf(buckets, b.user, b.pkg) : buckets[j].status # "queued"}
             usable == {j \in ids : Usable(buckets[j], now)}
  <2>1. i \in Metered(buckets, b.user, b.pkg, now)
    BY DEF AddBucketUsage
  <2>2. ids \in SUBSET DOMAIN buckets /\ usable \in SUBSET DOMAIN buckets
    BY DEF PlansOf, Owned
  <2>3. Metered(buckets, b.user, b.pkg, now) =
           IF usable # {} THEN {Max(usable)} ELSE IF ids # {} THEN {Max(ids)} ELSE {}
    BY DEF Metered
  <2>4. i \in usable \/ i \in ids
    <3>1. Finite(buckets)
      BY TableFacts
    <3> HIDE DEF ids, usable
    <3> QED BY <2>1, <2>2, <2>3, <3>1, NewestIsOne
  <2> QED BY <2>4
<1>4. buckets' = [buckets EXCEPT ![i].used = used] /\ nextBucket' = nextBucket
  BY DEF AddBucketUsage
<1>5. [buckets EXCEPT ![i].used = used] = [buckets EXCEPT ![i] = row]
  OBVIOUS
<1> HIDE DEF used
<1>6. row \in BucketRow
  BY <1>1, <1>2 DEF BucketRow
<1>7. /\ row.pkg = b.pkg /\ row.dur = b.dur /\ row.status = b.status /\ row.kind = b.kind
      /\ row.user = b.user /\ row.order = b.order /\ row.line = b.line /\ row.expiry = b.expiry
      /\ row.life = b.life /\ row.used = used /\ row.pdays = b.pdays
  BY <1>1 DEF BucketRow
<1> HIDE DEF row
<1>8. RowOK(row, now)
  BY <1>1, <1>3, <1>6, <1>7 DEF RowOK, PlanRow
<1>9. Evolves(b, row)
  BY <1>2, <1>7 DEF Evolves, used
<1>10. Follows(buckets, [buckets EXCEPT ![i] = row], now)
  BY <1>1, <1>8, <1>9, RowFollows
<1> QED BY <1>4, <1>5, <1>10 DEF Kept

\* Held buckets take the package's new line
LEMMA EditKeeps ==
    ASSUME TableInv, NEW e \in edit, NEW price, NEW line \in NewLines, EditSave(e, price, line)
    PROVE  Kept
<1> DEFINE held == {i \in DOMAIN buckets : buckets[i].kind = "plan" /\ buckets[i].pkg = e.pkg}
           fresh == RefreshLimits(buckets, held)
           next == [i \in DOMAIN buckets |->
                       IF i \in held THEN [fresh[i] EXCEPT !.line = line] ELSE fresh[i]]
<1>1. buckets' = next /\ nextBucket' = nextBucket
  BY DEF EditSave
<1>2. Follows(buckets, fresh, now) /\ DOMAIN fresh = DOMAIN buckets
  BY RefreshFollows DEF TableInv, RefreshLimits
<1> HIDE DEF held, fresh
<1>3. RowsOK(fresh, now)
  BY <1>2, FollowsOK
<1>4. ASSUME NEW i \in DOMAIN fresh PROVE RowOK(next[i], now) /\ Evolves(fresh[i], next[i])
  <2>1. RowOK(fresh[i], now) /\ fresh[i] \in BucketRow /\ line \in STRING
    BY <1>3, LinesAssumption DEF RowsOK, RowOK
  <2>2. CASE i \notin held
    BY <1>2, <2>1, <2>2, Unchanged
  <2>3. CASE i \in held
    <3>0. next[i] = [fresh[i] EXCEPT !.line = line] /\ fresh[i].kind = "plan"
      BY <1>2, <2>3 DEF held, Follows, Evolves
    <3> HIDE DEF next
    <3>1. RowOK(next[i], now)
      BY <2>1, <3>0, RowFields DEF RowOK, PlanRow, BucketRow
    <3>2. Evolves(fresh[i], next[i])
      BY <2>1, <3>0, RowFields DEF BucketRow, Evolves
    <3> QED BY <3>1, <3>2
  <2> QED BY <2>2, <2>3
<1>5. Follows(fresh, next, now)
  BY <1>2, <1>4 DEF Follows
<1> HIDE DEF next
<1> QED BY <1>1, <1>2, <1>5, FollowsTwice DEF Kept, TableInv

\* A sale is a move of the table
LEMMA SellMovesTable ==
    ASSUME TableInv, BookTypeOK, ShopTypeOK, NEW u, NEW p, NEW type, NEW key,
           NEW t \in Nat, t <= now, Sellable(u, p), Sell(u, p, type, key, t)
    PROVE  TableMove
<1>1. u \in Users /\ p \in Packages /\ Entitle(u, p, pkgs[p].line, Len(orders) + 1, t)
  BY DEF Sellable, Sell
<1>2. pkgs[p].line \in STRING
  BY <1>1 DEF ShopTypeOK, PackageRow
<1>3. Len(orders) + 1 \in Nat
  BY DEF BookTypeOK
<1>4. orders' = Append(orders, [user |-> u, pkg |-> p, price |-> pkgs[p].price, key |-> key,
                                back |-> 0, status |-> "success"])
  BY DEF Sell, PlaceOrder
<1>5. Kept \/ \E row : Inserted(row) /\ Origin(row, u, p, pkgs[p].line, Len(orders) + 1)
  BY <1>1, <1>2, <1>3, EntitleMoves
<1> QED BY <1>4, <1>5 DEF Origin, Recorded, TableMove

\* A step of Billing moves the table, whatever it does besides
LEMMA TableMoves ==
    ASSUME Typed, TableInv, [Next]_vars
    PROVE  TableMove
<1> USE DEF Typed
<1>0. /\ now \in Nat /\ now <= now /\ RowsOK(buckets, now) /\ Finite(buckets)
      /\ sweep.at \in Nat /\ sweep.at <= now /\ \A v \in visit : v.at \in Nat /\ v.at <= now
  BY TableFacts DEF TableInv
<1>a. CASE UNCHANGED <<buckets, nextBucket>>
  BY <1>a, StillTable DEF TableMove
<1>b. CASE Kept
  BY <1>b DEF TableMove
<1>1. CASE UNCHANGED vars
  BY <1>1, <1>a DEF vars, table
<1>2. CASE ShopStep
  <2>1. ASSUME NEW r \in reqs, PurchaseSold(r) PROVE TableMove
    BY <1>0, <2>1, SellMovesTable DEF PurchaseSold
  <2>2. ASSUME NEW u, NEW p, NEW k, ShopOpen(u, p, k) PROVE UNCHANGED <<buckets, nextBucket>>
    BY <2>2 DEF ShopOpen, table
  <2>3. ASSUME NEW r \in reqs, PurchaseRefused(r) \/ PurchaseReplayed(r)
        PROVE  UNCHANGED <<buckets, nextBucket>>
    BY <2>3 DEF PurchaseRefused, PurchaseReplayed, table
  <2> QED BY <1>2, <1>a, <2>1, <2>2, <2>3 DEF ShopStep
<1>3. CASE AccountStep
  <2>1. ASSUME NEW u, NEW p, AssignOpen(u, p) PROVE UNCHANGED <<buckets, nextBucket>>
    BY <2>1 DEF AssignOpen, table
  <2>2. ASSUME NEW g \in grant, AssignPackage(g) PROVE TableMove
    <3>1. g.user \in Users /\ g.pkg \in Packages /\ g.line \in STRING /\ Len(orders) + 1 \in Nat
      BY DEF ShopTypeOK, BookTypeOK
    <3>2. /\ Entitle(g.user, g.pkg, g.line, Len(orders) + 1, now)
          /\ orders' = Append(orders, [user |-> g.user, pkg |-> g.pkg, price |-> 0, key |-> NoKey,
                                       back |-> 0, status |-> "success"])
      BY <2>2 DEF AssignPackage, PlaceOrder
    <3>3. Kept \/ \E row : Inserted(row) /\ Origin(row, g.user, g.pkg, g.line, Len(orders) + 1)
      BY <1>0, <3>1, <3>2, EntitleMoves
    <3> QED BY <3>2, <3>3 DEF Origin, Recorded, TableMove
  <2>3. ASSUME NEW u, NEW a, AdjustPoints(u, a) PROVE UNCHANGED <<buckets, nextBucket>>
    BY <2>3 DEF AdjustPoints, table
  <2>4. ASSUME NEW o \in DOMAIN orders, NEW m, RefundOrder(o, m) PROVE Kept
    BY <2>4, RefundKeeps DEF RefundOrder
  <2>5. ASSUME NEW i \in DOMAIN buckets, DeleteBucket(i) PROVE Kept
    BY <1>0, <2>5, WithoutFollows, ChangeKeeps DEF DeleteBucket
  <2>6. ASSUME NEW i \in DOMAIN buckets, NEW d \in TrafficDeltas, AdjustBucketTraffic(i, d)
        PROVE  Kept
    BY <2>6, AdjustKeeps
  <2>7. ASSUME NEW i \in DOMAIN buckets, NEW e \in BOOLEAN, SetPlanAutoRenew(i, e) PROVE Kept
    BY <2>7, RenewSwitchKeeps
  <2> QED BY <1>3, <1>a, <1>b, <2>1, <2>2, <2>3, <2>4, <2>5, <2>6, <2>7 DEF AccountStep
<1>4. CASE PeriodStep
  <2>1. ASSUME NEW u, NEW l, NEW m \in 0..2, SetLineAdvance(u, l, m) PROVE Kept
    BY <1>0, <2>1, LineAdvanceFollows, ChangeKeeps DEF SetLineAdvance
  <2>2. ASSUME NEW u, NEW l, NEW q \in NewQuotas, SetLineMonthlyQuota(u, l, q) PROVE Kept
    <3>1. q \in Nat
      BY AmountsAssumption
    <3> QED BY <1>0, <2>2, <3>1, MonthlyQuotaFollows, ChangeKeeps DEF SetLineMonthlyQuota
  <2>3. ASSUME NEW u, NEW l, ConvertLineToPeriodic(u, l) PROVE Kept
    BY <1>0, <2>3, ConvertFollows, ChangeKeeps DEF ConvertLineToPeriodic
  <2> QED BY <1>4, <1>b, <2>1, <2>2, <2>3 DEF PeriodStep
<1>5. CASE UserStep
  <2>1. ASSUME NEW i \in DOMAIN buckets, NEW d \in UsageDeltas, AddBucketUsage(i, d) PROVE Kept
    BY <2>1, UsageKeeps
  <2>2. ASSUME NEW u, VisitOpen(u) PROVE UNCHANGED <<buckets, nextBucket>>
    BY <2>2 DEF VisitOpen, table
  <2>3. ASSUME NEW v \in visit, VisitReset(v) PROVE Kept
    BY <1>0, <2>3, ResetTxKeeps DEF VisitReset
  <2>4. ASSUME NEW v \in visit, VisitAdvance(v) PROVE Kept
    BY <1>0, <2>4, AdvanceTxKeeps DEF VisitAdvance
  <2> QED BY <1>5, <1>a, <1>b, <2>1, <2>2, <2>3, <2>4 DEF UserStep
<1>6. CASE PackageStep
  <2>1. ASSUME NEW p, EditOpen(p) \/ EnablePackage(p) \/ RetireStart(p)
        PROVE  UNCHANGED <<buckets, nextBucket>>
    BY <2>1 DEF EditOpen, EnablePackage, RetireStart, table
  <2>2. ASSUME NEW e \in edit, NEW pr, NEW l \in NewLines, EditSave(e, pr, l) PROVE Kept
    BY <2>2, EditKeeps
  <2>3. ASSUME NEW r \in retire,
               RetireNextHolder(r) \/ RetireSkip(r) \/ RetireClearFailed(r) \/ RetireFinish(r)
        PROVE  UNCHANGED <<buckets, nextBucket>>
    BY <2>3 DEF RetireNextHolder, RetireSkip, RetireClearFailed, RetireFinish, table
  <2>4. ASSUME NEW r \in retire, RetireRefund(r) PROVE Kept
    <3>1. PICK o \in r.todo : RefundTx(o, RefundMode)
      BY <2>4 DEF RetireRefund
    <3>2. o \in DOMAIN orders
      BY DEF RetireTypeOK
    <3> QED BY <3>1, <3>2, RefundKeeps
  <2>5. ASSUME NEW r \in retire, RetireClear(r) PROVE Kept
    BY <1>0, <2>5, WithoutFollows DEF RetireClear, Kept
  <2> QED BY <1>6, <1>a, <1>b, <2>1, <2>2, <2>3, <2>4, <2>5 DEF PackageStep
<1>7. CASE SweepStep
  <2>1. CASE SweepBegin \/ SweepNextPhase
    BY <1>a, <2>1 DEF SweepBegin, SweepNextPhase, table
  <2>2. ASSUME NEW w \in sweep.todo, SweepAdvance(w) PROVE Kept
    BY <1>0, <2>2, AdvanceTxKeeps DEF SweepAdvance
  <2>3. ASSUME NEW w \in sweep.todo, SweepReset(w) PROVE Kept
    BY <1>0, <2>3, ResetTxKeeps DEF SweepReset
  <2>4. ASSUME NEW w \in sweep.todo, SweepRenew(w) PROVE TableMove
    BY <1>0, <2>4, SellMovesTable DEF SweepRenew
  <2>5. ASSUME NEW w \in sweep.todo, SweepRenewSkipped(w) \/ SweepFailed(w)
        PROVE  UNCHANGED <<buckets, nextBucket>>
    BY <2>5 DEF SweepRenewSkipped, SweepFailed, table
  <2> QED BY <1>7, <1>a, <1>b, <2>1, <2>2, <2>3, <2>4, <2>5 DEF SweepStep
<1>8. CASE Tick
  BY <1>8, <1>a DEF Tick, table
<1> QED BY <1>1, <1>2, <1>3, <1>4, <1>5, <1>6, <1>7, <1>8 DEF Next

------------------------------------------------------------------------------
(* The invariant of the table                                                *)

\* The jobs keep their types, and no job's timestamp is ahead of the clock
LEMMA JobsStayTyped ==
    ASSUME Typed, TableInv, [Next]_vars
    PROVE  JobsTyped' /\ JobsArePunctual' /\ now' \in StartTime..MaxTime /\ now <= now'
<1> USE DEF Typed
<1>0. /\ now \in Nat /\ now \in StartTime..MaxTime /\ JobsTyped /\ JobsArePunctual
      /\ sweep.at \in Nat /\ sweep.at <= now /\ \A v \in visit : v.at \in Nat /\ v.at <= now
  BY TableFacts DEF TableInv
<1>1. CASE Tick
  <2>1. now < MaxTime /\ now' = now + 1 /\ UNCHANGED <<sweep, visit>>
    BY <1>1 DEF Tick, jobs
  <2> QED BY <1>0, <2>1, TimeAssumption DEF JobsTyped, JobsArePunctual
<1>2. ASSUME UNCHANGED <<now, sweep, visit>>
      PROVE  JobsTyped' /\ JobsArePunctual' /\ now' \in StartTime..MaxTime /\ now <= now'
  BY <1>0, <1>2 DEF JobsTyped, JobsArePunctual
<1>3. ASSUME UNCHANGED <<now, visit>>, sweep'.at \in {sweep.at, now, 0},
             sweep' \in [phase : {"idle", "advance", "renew", "reset"}, at : Nat, todo : SUBSET Works]
      PROVE  JobsTyped' /\ JobsArePunctual' /\ now' \in StartTime..MaxTime /\ now <= now'
  BY <1>0, <1>3 DEF JobsTyped, JobsArePunctual
<1>4. ASSUME UNCHANGED <<now, sweep>>,
             visit' \subseteq [user : Users, at : Nat, roll : BOOLEAN, due : BOOLEAN],
             \A v \in visit' : v.at <= now
      PROVE  JobsTyped' /\ JobsArePunctual' /\ now' \in StartTime..MaxTime /\ now <= now'
  BY <1>0, <1>4 DEF JobsTyped, JobsArePunctual
<1>5. CASE UNCHANGED vars
  BY <1>2, <1>5 DEF vars, jobs
<1>6. CASE ShopStep
  BY <1>2, <1>6 DEF ShopStep, ShopOpen, PurchaseRefused, PurchaseReplayed, PurchaseSold, Answer, jobs
<1>7. CASE AccountStep
  BY <1>2, <1>7 DEF AccountStep, AssignOpen, AssignPackage, AdjustPoints, RefundOrder, DeleteBucket,
     AdjustBucketTraffic, SetPlanAutoRenew, jobs
<1>8. CASE PeriodStep
  BY <1>2, <1>8 DEF PeriodStep, SetLineAdvance, SetLineMonthlyQuota, ConvertLineToPeriodic, jobs
<1>9. CASE UserStep
  <2>1. ASSUME NEW i, NEW d, AddBucketUsage(i, d) PROVE UNCHANGED <<now, sweep, visit>>
    BY <2>1 DEF AddBucketUsage, jobs
  <2>2. ASSUME NEW u \in Users, VisitOpen(u)
        PROVE  /\ UNCHANGED <<now, sweep>>
               /\ visit' \subseteq [user : Users, at : Nat, roll : BOOLEAN, due : BOOLEAN]
               /\ \A v \in visit' : v.at <= now
    <3>1. (DuePeriods(buckets, u, now) # {}) \in BOOLEAN /\ QueueDue(buckets, u, now) \in BOOLEAN
      BY DEF QueueDue
    <3> QED BY <1>0, <2>2, <3>1 DEF VisitOpen
  <2>3. ASSUME NEW v \in visit, VisitReset(v)
        PROVE  /\ UNCHANGED <<now, sweep>>
               /\ visit' \subseteq [user : Users, at : Nat, roll : BOOLEAN, due : BOOLEAN]
               /\ \A w \in visit' : w.at <= now
    <3>1. v \in [user : Users, at : Nat, roll : BOOLEAN, due : BOOLEAN] /\ v.at <= now
      BY <1>0 DEF JobsTyped
    <3> DEFINE w == [v EXCEPT !.roll = FALSE]
    <3>2. w \in [user : Users, at : Nat, roll : BOOLEAN, due : BOOLEAN] /\ w.at <= now
      BY <3>1
    <3>3. UNCHANGED <<now, sweep>> /\ visit' \subseteq {w}
      BY <2>3 DEF VisitReset
    <3> HIDE DEF w
    <3> QED BY <3>2, <3>3
  <2>4. ASSUME NEW v \in visit, VisitAdvance(v) PROVE UNCHANGED <<now, sweep>> /\ visit' = {}
    BY <2>4 DEF VisitAdvance
  <2> QED BY <1>2, <1>4, <1>9, <2>1, <2>2, <2>3, <2>4 DEF UserStep
<1>10. CASE PackageStep
  BY <1>2, <1>10 DEF PackageStep, EditOpen, EnablePackage, RetireStart, EditSave, RetireNextHolder,
     RetireRefund, RetireSkip, RetireClear, RetireClearFailed, RetireFinish, jobs
<1>11. CASE SweepStep
  <2> DEFINE SweepRow == [phase : {"idle", "advance", "renew", "reset"}, at : Nat,
                          todo : SUBSET Works]
  <2>1. ASSUME NEW phase \in {"advance", "renew", "reset"}
        PROVE  Phase(phase) \in SweepRow /\ Phase(phase).at = now
    <3>1. NoLine \in STRING \cup {NoLine}
      OBVIOUS
    <3>2. \A i \in DOMAIN buckets : buckets[i].user \in Users /\ buckets[i].line \in STRING \cup {NoLine}
      BY RowFields DEF TableInv, RowsOK, RowOK
    <3>3. Listed(phase) \subseteq Works
      BY <3>1, <3>2 DEF Listed, Work, Works
    <3> QED BY <1>0, <3>3 DEF Phase
  <2>2. Idle \in SweepRow /\ Idle.at = 0
    BY DEF Idle
  <2>3. CASE SweepBegin
    BY <1>3, <2>1, <2>3 DEF SweepBegin
  <2>4. CASE SweepNextPhase
    <3>1. sweep.phase \in {"advance", "renew", "reset"}
      BY <1>0, <2>4 DEF SweepNextPhase, JobsTyped
    <3>2. sweep' \in {Phase("renew"), Phase("reset"), Idle} /\ UNCHANGED <<now, visit>>
      BY <2>4, <3>1 DEF SweepNextPhase
    <3> QED BY <1>3, <2>1, <2>2, <3>2
  <2>5. ASSUME NEW w \in sweep.todo, Done(w), UNCHANGED <<now, visit>>
        PROVE  JobsTyped' /\ JobsArePunctual' /\ now' \in StartTime..MaxTime /\ now <= now'
    <3>1. sweep \in SweepRow
      BY <1>0 DEF JobsTyped
    <3>2. sweep' \in SweepRow /\ sweep'.at = sweep.at
      BY <2>5, <3>1 DEF Done
    <3> QED BY <1>3, <2>5, <3>2
  <2>6. ASSUME NEW w \in sweep.todo,
               \/ SweepAdvance(w) \/ SweepReset(w) \/ SweepRenew(w)
               \/ SweepRenewSkipped(w) \/ SweepFailed(w)
        PROVE  Done(w) /\ UNCHANGED <<now, visit>>
    BY <2>6 DEF SweepAdvance, SweepReset, SweepRenew, SweepRenewSkipped, SweepFailed
  <2> QED BY <1>11, <2>3, <2>4, <2>5, <2>6 DEF SweepStep
<1> QED BY <1>1, <1>5, <1>6, <1>7, <1>8, <1>9, <1>10, <1>11 DEF Next

\* A move hands out no id twice and keeps the rows right
LEMMA IdsStaySpent ==
    ASSUME TableInv, TableMove
    PROVE  IdsAreSpent' /\ RowsOK(buckets', now)
<1>1. nextBucket \in Nat \ {0} /\ DOMAIN buckets \subseteq 1..(nextBucket - 1)
  BY DEF TableInv, IdsAreSpent
<1>2. CASE Kept
  BY <1>1, <1>2, FollowsOK DEF Kept, Follows, IdsAreSpent
<1>3. ASSUME NEW row, Inserted(row) PROVE IdsAreSpent' /\ RowsOK(buckets', now)
  <2>1. DOMAIN buckets' \subseteq DOMAIN buckets \cup {nextBucket} /\ nextBucket' = nextBucket + 1
    BY <1>3 DEF Inserted, Follows, With
  <2>2. RowsOK(buckets', now)
    BY <1>3, FollowsOK DEF Inserted
  <2>3. 1..(nextBucket - 1) \cup {nextBucket} = 1..(nextBucket' - 1) /\ nextBucket' \in Nat \ {0}
    BY <1>1, <2>1
  <2> QED BY <1>1, <2>1, <2>2, <2>3 DEF IdsAreSpent
<1> QED BY <1>2, <1>3 DEF TableMove

\* Every step keeps the table right
LEMMA TableStaysRight ==
    ASSUME Typed, TableInv, [Next]_vars
    PROVE  TableInv'
<1>1. JobsTyped' /\ JobsArePunctual' /\ now' \in StartTime..MaxTime /\ now <= now'
  BY JobsStayTyped
<1>2. IdsAreSpent' /\ RowsOK(buckets', now)
  BY TableMoves, IdsStaySpent
<1>3. now \in Int /\ now' \in Int
  BY <1>1, TableFacts, TimeAssumption
<1>4. RowsOK(buckets', now')
  BY <1>1, <1>2, <1>3, RowsAge
<1> QED BY <1>1, <1>2, <1>4 DEF TableInv

\* The table starts right
LEMMA TableStartsRight == Init => TableInv
<1> SUFFICES ASSUME Init PROVE TableInv
  OBVIOUS
<1>1. {0} \cup Users \subseteq Int /\ {0} \cup Users # {} /\ IsFiniteSet({0} \cup Users)
  <2>1. IsFiniteSet({0})
    BY FS_Singleton
  <2>2. IsFiniteSet({0} \cup Users)
    BY <2>1, UsersAssumption, FS_Union
  <2> QED BY <2>2, UsersAssumption
<1>2. /\ Max({0} \cup Users) \in Int /\ 0 <= Max({0} \cup Users)
      /\ \A u \in Users : u <= Max({0} \cup Users)
  BY <1>1, Extremes
<1>3. IdsAreSpent
  <2>1. nextBucket = Max({0} \cup Users) + 1 /\ DOMAIN buckets \subseteq Users
    BY DEF Init
  <2>2. \A u \in Users : u \in Nat \ {0}
    BY UsersAssumption
  <2> HIDE DEF Init
  <2> QED BY <1>2, <2>1, <2>2 DEF IdsAreSpent
<1>4. RowsOK(buckets, now)
  BY AncillaryOK DEF Init, RowsOK, FreeRow
<1>5. now \in StartTime..MaxTime /\ now \in Nat
  BY TimeAssumption DEF Init
<1>6. JobsTyped /\ JobsArePunctual
  BY <1>5 DEF Init, Idle, JobsTyped, JobsArePunctual
<1> QED BY <1>3, <1>4, <1>5, <1>6 DEF TableInv

\* Every row of user_plans is well formed in every reachable state: a waiting
\* bucket is unused, a running one ends within its duration, ids are never reused
\* and no job holds a timestamp from the future
THEOREM TableIsRight == Spec => []TableInv
BY TableStartsRight, TableStaysRight, BookIsTyped, PTL DEF Spec

\* No operation of the store loses metered usage: what a bucket that is kept has
\* used, in this period and the periods before, never goes down
THEOREM UsageIsNeverLost == Spec => UsageIsKept
<1>1. Typed /\ TableInv /\ [Next]_vars => [CarriesUsage]_vars
  <2> SUFFICES ASSUME Typed, TableInv, [Next]_vars PROVE CarriesUsage
    OBVIOUS
  <2>1. TableMove
    BY TableMoves
  <2>2. CASE Kept
    BY <2>2 DEF Kept, Follows, Evolves, CarriesUsage
  <2>3. ASSUME NEW row, Inserted(row) PROVE CarriesUsage
    BY <2>3, TableFacts DEF Inserted, Follows, Evolves, CarriesUsage, With
  <2> QED BY <2>1, <2>2, <2>3 DEF TableMove
<1> QED BY <1>1, TableIsRight, BookIsTyped, PTL DEF Spec, UsageIsKept

------------------------------------------------------------------------------
(* A retirement reaches every holder                                         *)

\* A bucket of the package that is being retired was bought after the retirement began,
\* or its account is still to be visited, is being visited, or may fail
Reaching(r) ==
    /\ r.since <= Len(orders)
    /\ \A i \in DOMAIN buckets :
          buckets[i].kind = "plan" /\ buckets[i].pkg = r.pkg =>
              \/ buckets[i].order > r.since
              \/ buckets[i].user \in MayFail \cup r.holders \cup {r.user}

ReachInv ==
    /\ \A r, q \in retire : r = q
    /\ \A r \in retire : Reaching(r)

RetireStep ==
    \/ \E p \in Packages : RetireStart(p)
    \/ \E r \in retire : \/ RetireNextHolder(r) \/ RetireRefund(r)
                         \/ RetireSkip(r) \/ RetireClear(r) \/ RetireClearFailed(r)
                         \/ RetireFinish(r)

\* Nothing else touches a retirement under way
LEMMA OnlyRetireSteps ==
    ASSUME [Next]_vars
    PROVE  UNCHANGED retire \/ RetireStep
BY DEF RetireStep, Next, vars, jobs, ShopStep, ShopOpen, PurchaseRefused, PurchaseReplayed,
     PurchaseSold, Answer, AccountStep, AssignOpen, AssignPackage, AdjustPoints, RefundOrder,
     DeleteBucket, AdjustBucketTraffic, SetPlanAutoRenew, PeriodStep, SetLineAdvance,
     SetLineMonthlyQuota, ConvertLineToPeriodic, UserStep, AddBucketUsage, VisitOpen, VisitReset,
     VisitAdvance, PackageStep, EditOpen, EnablePackage, EditSave, SweepStep, SweepBegin,
     SweepNextPhase, SweepAdvance, SweepReset, SweepRenew, SweepRenewSkipped, SweepFailed, Tick

\* Whatever else moves the table, a retirement goes on reaching its holders
LEMMA ReachingStays ==
    ASSUME Typed, TableInv, TableMove, BookMove, NEW r \in retire, Reaching(r)
    PROVE  /\ r.since <= Len(orders')
           /\ \A i \in DOMAIN buckets' :
                 buckets'[i].kind = "plan" /\ buckets'[i].pkg = r.pkg =>
                     \/ buckets'[i].order > r.since
                     \/ buckets'[i].user \in MayFail \cup r.holders \cup {r.user}
<1>1. /\ Len(orders) \in Nat /\ Len(orders') \in Nat /\ Len(orders) <= Len(orders')
      /\ r.since \in Nat /\ r.since <= Len(orders)
  BY MoveKeepsTypes DEF Typed, RetireTypeOK, Reaching
<1>2. CASE Kept
  BY <1>1, <1>2 DEF Kept, Follows, Evolves, Reaching
<1>3. ASSUME NEW row, Inserted(row), Recorded(row)
      PROVE  \A i \in DOMAIN buckets' :
                 buckets'[i].kind = "plan" /\ buckets'[i].pkg = r.pkg =>
                     \/ buckets'[i].order > r.since
                     \/ buckets'[i].user \in MayFail \cup r.holders \cup {r.user}
  <2> SUFFICES ASSUME NEW i \in DOMAIN buckets', buckets'[i].kind = "plan",
                      buckets'[i].pkg = r.pkg
               PROVE  \/ buckets'[i].order > r.since
                      \/ buckets'[i].user \in MayFail \cup r.holders \cup {r.user}
    OBVIOUS
  <2> DEFINE a == With(buckets, nextBucket, row)[i]
  <2>1. /\ i \in DOMAIN buckets \cup {nextBucket}
        /\ a = IF i = nextBucket THEN row ELSE buckets[i]
        /\ Evolves(a, buckets'[i])
    BY <1>3 DEF Inserted, Follows, With
  <2> HIDE DEF a
  <2>2. CASE i = nextBucket
    <3>1. row.kind = "plan" /\ buckets'[i].order = row.order
      BY <2>1, <2>2 DEF Evolves
    <3>2. row.order = Len(orders) + 1
      BY <1>3, <3>1 DEF Recorded
    <3> QED BY <1>1, <3>1, <3>2
  <2>3. CASE i # nextBucket
    BY <2>1, <2>3 DEF Evolves, Reaching
  <2> QED BY <2>2, <2>3
<1> QED BY <1>1, <1>2, <1>3 DEF TableMove

\* Every step of a retirement keeps every holder in its reach
LEMMA ReachStays ==
    ASSUME Typed, TableInv, ReachInv, [Next]_vars
    PROVE  ReachInv'
<1> DEFINE Unreached(i, r) == \/ buckets'[i].order > r.since
                              \/ buckets'[i].user \in MayFail \cup r.holders \cup {r.user}
           Reached(r) == /\ r.since <= Len(orders')
                         /\ \A i \in DOMAIN buckets' :
                               buckets'[i].kind = "plan" /\ buckets'[i].pkg = r.pkg => Unreached(i, r)
<1>1. \A r \in retire : Reached(r)
  BY BookMoves, TableMoves, ReachingStays DEF ReachInv
<1>2. CASE UNCHANGED retire
  BY <1>1, <1>2 DEF ReachInv, Reaching
<1>3. ASSUME NEW q, retire' = {q}, Reached(q) PROVE ReachInv'
  BY <1>3 DEF ReachInv, Reaching
<1>4. ASSUME NEW p \in Packages, RetireStart(p) PROVE ReachInv'
  <2> DEFINE q == [pkg |-> p, user |-> NoUser, todo |-> {}, since |-> Len(orders),
                   holders |-> {u \in Users : PlansOf(buckets, u, p) # {}}]
  <2>1. retire' = {q} /\ UNCHANGED <<buckets, orders>>
    BY <1>4 DEF RetireStart, book, table
  <2>2. Len(orders) \in Nat
    BY DEF Typed, BookTypeOK
  <2>3. ASSUME NEW i \in DOMAIN buckets, buckets[i].kind = "plan", buckets[i].pkg = p
        PROVE  buckets[i].user \in q.holders
    <3>1. buckets[i].user \in Users
      BY RowFields DEF TableInv, RowsOK, RowOK
    <3>2. i \in PlansOf(buckets, buckets[i].user, p)
      BY <2>3 DEF PlansOf, Owned
    <3> QED BY <3>1, <3>2
  <2>4. Reached(q)
    BY <2>1, <2>2, <2>3
  <2> HIDE DEF q, Reached
  <2> QED BY <1>3, <2>1, <2>4
<1>5. ASSUME NEW r \in retire, RetireNextHolder(r) PROVE ReachInv'
  <2>1. PICK u, todo :
           /\ u \in r.holders
           /\ retire' = {[r EXCEPT !.user = u, !.holders = r.holders \ {u}, !.todo = todo]}
           /\ r.user = NoUser /\ UNCHANGED <<buckets, orders>>
    BY <1>5 DEF RetireNextHolder, table, book
  <2> DEFINE q == [r EXCEPT !.user = u, !.holders = r.holders \ {u}, !.todo = todo]
  <2>2. /\ retire' = {q} /\ q.since = r.since /\ q.pkg = r.pkg /\ q.user = u
        /\ q.holders = r.holders \ {u}
    BY <2>1 DEF Typed, RetireTypeOK
  <2> HIDE DEF q
  <2>3. \A i \in DOMAIN buckets : buckets[i].user # NoUser
    BY RowFields, UsersAssumption DEF TableInv, RowsOK, RowOK, NoUser
  <2>4. r.holders \cup {NoUser} = q.holders \cup {q.user} \cup {NoUser}
    BY <2>1, <2>2
  <2>5. Reached(q)
    <3> SUFFICES ASSUME NEW i \in DOMAIN buckets', buckets'[i].kind = "plan",
                        buckets'[i].pkg = q.pkg
                 PROVE  Unreached(i, q)
      BY <1>1, <2>2
    <3>1. Unreached(i, r)
      BY <1>1, <2>2
    <3>2. buckets'[i].user # NoUser
      BY <2>1, <2>3
    <3> QED BY <2>1, <2>2, <2>4, <3>1, <3>2
  <2> HIDE DEF Reached
  <2> QED BY <1>3, <2>2, <2>5
<1>6. ASSUME NEW r \in retire, RetireRefund(r) \/ RetireSkip(r) PROVE ReachInv'
  <2>1. PICK o : retire' = {[r EXCEPT !.todo = r.todo \ {o}]}
    BY <1>6 DEF RetireRefund, RetireSkip
  <2> DEFINE q == [r EXCEPT !.todo = r.todo \ {o}]
  <2>2. /\ retire' = {q} /\ q.since = r.since /\ q.pkg = r.pkg /\ q.user = r.user
        /\ q.holders = r.holders
    BY <2>1 DEF Typed, RetireTypeOK
  <2> HIDE DEF q
  <2>3. Reached(q)
    BY <1>1, <2>2
  <2> HIDE DEF Reached
  <2> QED BY <1>3, <2>2, <2>3
<1>7. ASSUME NEW r \in retire, RetireClear(r) \/ RetireClearFailed(r) PROVE ReachInv'
  <2>1. retire' = {[r EXCEPT !.user = NoUser]}
    BY <1>7 DEF RetireClear, RetireClearFailed
  <2> DEFINE q == [r EXCEPT !.user = NoUser]
  <2>2. /\ retire' = {q} /\ q.since = r.since /\ q.pkg = r.pkg /\ q.user = NoUser
        /\ q.holders = r.holders
    BY <2>1 DEF Typed, RetireTypeOK
  <2> HIDE DEF q
  <2>3. ASSUME NEW i \in DOMAIN buckets', buckets'[i].kind = "plan", buckets'[i].pkg = r.pkg,
               buckets'[i].user = r.user
        PROVE  r.user \in MayFail
    <3>1. CASE RetireClear(r)
      BY <2>3, <3>1 DEF RetireClear, Without, PlansOf, Owned
    <3>2. CASE RetireClearFailed(r)
      BY <3>2 DEF RetireClearFailed
    <3> QED BY <1>7, <3>1, <3>2
  <2>4. Reached(q)
    BY <1>1, <2>2, <2>3
  <2> HIDE DEF Reached
  <2> QED BY <1>3, <2>2, <2>4
<1>8. ASSUME NEW r \in retire, RetireFinish(r) PROVE ReachInv'
  BY <1>8 DEF RetireFinish, ReachInv
<1> QED BY <1>2, <1>4, <1>5, <1>6, <1>7, <1>8, OnlyRetireSteps DEF RetireStep

\* When the retirement of a package ends, the only plan buckets of it that are left were
\* bought while it ran or belong to accounts whose own transactions failed
THEOREM RetirementsAreComplete == Spec => RetireReachesEveryHolder
<1>1. Init => ReachInv
  BY DEF Init, ReachInv
<1>2. Typed /\ TableInv /\ ReachInv /\ [Next]_vars => ReachInv'
  BY ReachStays
<1>3. Typed /\ TableInv /\ ReachInv /\ [Next]_vars => [EndsAtEveryHolder]_vars
  <2> SUFFICES ASSUME Typed, TableInv, ReachInv, [Next]_vars,
                      NEW r \in retire, retire' = {},
                      NEW i \in DOMAIN buckets, buckets[i].kind = "plan",
                      buckets[i].pkg = r.pkg
               PROVE  buckets[i].order > r.since \/ buckets[i].user \in MayFail
    BY DEF EndsAtEveryHolder
  <2>1. r.user = NoUser /\ r.holders = {}
    <3>1. PICK q \in retire : RetireFinish(q)
      BY OnlyRetireSteps DEF RetireStep, RetireStart, RetireNextHolder, RetireRefund, RetireSkip,
         RetireClear, RetireClearFailed
    <3> QED BY <3>1 DEF RetireFinish, ReachInv
  <2>2. buckets[i].user # NoUser
    BY RowFields, UsersAssumption DEF TableInv, RowsOK, RowOK, NoUser
  <2> QED BY <2>1, <2>2 DEF ReachInv, Reaching
<1> QED BY <1>1, <1>2, <1>3, TableIsRight, BookIsTyped, PTL DEF Spec, RetireReachesEveryHolder
=============================================================================
