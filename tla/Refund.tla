-------------------------------- MODULE Refund --------------------------------
(* How many points come back when an order is refunded (internal/store       *)
(* refund.go).  Fractions are exact pairs [num, den] instead of the float64  *)
(* values of the code; a dimension that does not apply has num = -1.         *)
EXTENDS Buckets

CONSTANTS
    RefundBasis,  \* setting refund_basis: "min", "traffic" or "time"
    FeePercent    \* setting refund_fee_percent, clamped to 0..100

ASSUME RefundPolicyAssumption ==
    /\ RefundBasis \in {"min", "traffic", "time"}
    /\ FeePercent \in 0..100

Fraction(n, d) == [num |-> n, den |-> d]
NotApplicable == Fraction(-1, 1)
Whole == Fraction(1, 1)
Applies(r) == r.num >= 0
LessOrEqual(a, b) == a.num * b.den <= b.num * a.den

\* combineRatios
CombineRatios(traffic, time) ==
    LET first  == IF RefundBasis = "time" THEN time ELSE traffic
        second == IF RefundBasis = "time" THEN traffic ELSE time
    IN  IF RefundBasis = "min" /\ Applies(traffic) /\ Applies(time)
        THEN IF LessOrEqual(traffic, time) THEN traffic ELSE time
        ELSE IF Applies(first) THEN first
        ELSE IF Applies(second) THEN second
        ELSE Whole

\* applyFee, then roundRefund: half away from zero, never outside 0..price
RefundPoints(price, ratio) ==
    LET n == price * ratio.num * (100 - FeePercent)
        d == ratio.den * 100
        rounded == (2 * n + d) \div (2 * d)
    IN  IF rounded \in 0..price THEN rounded
        ELSE IF rounded > price THEN price ELSE 0

\* The rows computeRefundQuote reads: the order's own bucket, unless it looks
\* merged or is gone, in which case the oldest bucket of the package stands in.
QuoteSource(bk, u, p, o) ==
    LET own == OfOrder(bk, u, o)
        any == IF Catalog[p].type = "plan" THEN PlansOf(bk, u, p)
                                           ELSE PoolsOf(bk, u)
    IN  IF own # {} /\ ~LooksMerged(bk[Min(own)], p) THEN {Min(own)}
        ELSE IF any # {} THEN {Min(any)} ELSE {}

\* What the source row has left of a dimension; nothing when there is no row
Left(bk, src, Remaining(_)) ==
    IF src = {} THEN 0 ELSE Larger(Remaining(bk[Min(src)]), 0)

\* Unused part of the order's quota.  A monthly bucket refills, so its unused
\* traffic is no share of the order.
TrafficFraction(bk, u, p, o) ==
    LET own == OfOrder(bk, u, o)
        left == Left(bk, QuoteSource(bk, u, p, o), LAMBDA b : b.limit - b.used)
    IN  IF own # {} /\ bk[Min(own)].pdays > 0 THEN NotApplicable
        ELSE Fraction(Smaller(Catalog[p].traffic, left), Catalog[p].traffic)

\* Unelapsed part of the order's duration
TimeFraction(bk, u, p, o, t) ==
    LET left == Left(bk, QuoteSource(bk, u, p, o), LAMBDA b : b.expiry - t)
    IN  IF Catalog[p].type = "plan" /\ Catalog[p].dur > 0
        THEN Fraction(Smaller(Catalog[p].dur, left), Catalog[p].dur)
        ELSE NotApplicable

\* computeRefundQuote: the fraction of the price order o gets back.  A bucket
\* that never entered service is refunded whole.
RefundRatio(bk, u, p, o, mode, t) ==
    LET own == OfOrder(bk, u, o) IN
    IF mode = "full" \/ (own # {} /\ bk[Min(own)].status = "queued")
    THEN Whole
    ELSE CombineRatios(TrafficFraction(bk, u, p, o), TimeFraction(bk, u, p, o, t))

RefundQuote(bk, u, p, o, price, mode, t) ==
    RefundPoints(price, RefundRatio(bk, u, p, o, mode, t))
=============================================================================
