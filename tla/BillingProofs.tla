----------------------------- MODULE BillingProofs -----------------------------
(* Theorems about the book of Billing (points, orders and the ledger), for   *)
(* every catalogue, set of accounts and bound.                               *)
(*                                                                           *)
(* The argument has two layers.  BookMoves shows that a step of Billing,     *)
(* which is one of some thirty actions, does to the book one of four things: *)
(* nothing, a charge the balance covers, the first refund of an order for at *)
(* most its price, or an adjustment.  Everything else is proved from those   *)
(* four moves.                                                               *)
EXTENDS BillingProperties, FiniteSetTheorems, TLAPS

------------------------------------------------------------------------------
(* The moves of the book                                                     *)

Charges == {"purchase", "auto_renew", "admin_grant"}

Fresh(u, key) ==
    key # NoKey => \A o \in DOMAIN orders : ~(orders[o].user = u /\ orders[o].key = key)

Charged(u, p, price, key, type) ==
    /\ price <= points[u]
    /\ Fresh(u, key)
    /\ orders' = Append(orders, [user |-> u, pkg |-> p, price |-> price,
                                 key |-> key, back |-> 0, status |-> "success"])
    /\ Post(u, 0 - price, type, Len(orders) + 1)

Refunded(o, back) ==
    /\ orders[o].status = "success"
    /\ back \in 0..orders[o].price
    /\ orders' = [orders EXCEPT ![o].status = "refunded", ![o].back = back]
    /\ Post(orders[o].user, back, "refund", o)

Adjusted(u, amount) ==
    /\ amount \in Int
    /\ points[u] + amount >= 0
    /\ Post(u, amount, "adjust", 0)
    /\ UNCHANGED orders

BookMove ==
    \/ UNCHANGED book
    \/ \E u \in Users, p \in Packages, price \in Nat, key \in Key, type \in Charges :
          Charged(u, p, price, key, type)
    \/ \E o \in DOMAIN orders : \E back \in Nat : Refunded(o, back)
    \/ \E u \in Users, amount \in Int : Adjusted(u, amount)

\* What is known of the state when a step is taken
Typed == BookTypeOK /\ ShopTypeOK /\ RetireTypeOK

\* An order is an OrderRow
LEMMA OrderTyped ==
    ASSUME BookTypeOK, NEW o \in DOMAIN orders
    PROVE  orders[o] \in OrderRow
BY DEF BookTypeOK

\* RefundPoints never pays back more than the price, whatever the ratio
LEMMA RefundIsBounded ==
    ASSUME NEW price \in Nat, NEW ratio
    PROVE  RefundPoints(price, ratio) \in 0..price
BY DEF RefundPoints

\* A sale charges the published price, which the balance covers
LEMMA SellMoves ==
    ASSUME BookTypeOK, ShopTypeOK, NEW u, NEW p, NEW type, NEW key \in Key, NEW t,
           type \in {"purchase", "auto_renew"}, Fresh(u, key),
           Sellable(u, p), Sell(u, p, type, key, t)
    PROVE  BookMove
<1>1. u \in Users /\ p \in Packages /\ pkgs[p].price <= points[u]
  <2>1. u \in Users /\ p \in Packages /\ points[u] >= pkgs[p].price
    BY DEF Sellable
  <2>2. points[u] \in Nat /\ pkgs[p].price \in Nat
    BY <2>1 DEF BookTypeOK, ShopTypeOK, PackageRow
  <2> QED BY <2>1, <2>2
<1>2. pkgs[p].price \in Nat /\ type \in Charges
  BY <1>1 DEF ShopTypeOK, PackageRow, Charges
<1>3. -pkgs[p].price = 0 - pkgs[p].price
  BY <1>2
<1>4. Charged(u, p, pkgs[p].price, key, type)
  BY <1>1, <1>3 DEF Charged, Sell, PlaceOrder
<1> QED BY <1>1, <1>2, <1>4 DEF BookMove

\* A refund transaction is the first refund of its order
LEMMA RefundTxMoves ==
    ASSUME BookTypeOK, NEW o \in DOMAIN orders, NEW mode, RefundTx(o, mode)
    PROVE  BookMove
<1> DEFINE back == RefundQuote(buckets, orders[o].user, orders[o].pkg, o,
                               orders[o].price, mode, now)
<1>1. orders[o].price \in Nat
  BY OrderTyped DEF OrderRow
<1>2. back \in 0..orders[o].price
  BY <1>1, RefundIsBounded DEF RefundQuote
<1>3. Refunded(o, back)
  BY <1>2 DEF Refunded, RefundTx
<1>4. back \in Nat
  BY <1>1, <1>2
<1> QED BY <1>3, <1>4 DEF BookMove

\* Every step of Billing moves the book in one of the four ways
LEMMA BookMoves ==
    ASSUME Typed, [Next]_vars
    PROVE  BookMove
<1> USE DEF book, Typed
<1>1. CASE UNCHANGED vars
  BY <1>1 DEF vars, BookMove
<1>2. CASE ShopStep
  <2>1. ASSUME NEW u \in Users, NEW p \in Packages, NEW k \in Keys \cup {NoKey},
               ShopOpen(u, p, k)
        PROVE  BookMove
    BY <2>1 DEF ShopOpen, BookMove
  <2>2. ASSUME NEW r \in reqs, PurchaseRefused(r)  PROVE BookMove
    BY <2>2 DEF PurchaseRefused, BookMove
  <2>3. ASSUME NEW r \in reqs, PurchaseReplayed(r) PROVE BookMove
    BY <2>3 DEF PurchaseReplayed, BookMove
  <2>4. ASSUME NEW r \in reqs, PurchaseSold(r)     PROVE BookMove
    <3>1. r.key \in Key
      BY DEF ShopTypeOK
    <3>2. Fresh(r.user, r.key)
      BY <2>4 DEF PurchaseSold, EarlierOrders, Fresh
    <3>3. Sellable(r.user, r.pkg) /\ Sell(r.user, r.pkg, "purchase", r.key, now)
      BY <2>4 DEF PurchaseSold
    <3> QED BY ONLY BookTypeOK, ShopTypeOK, <3>1, <3>2, <3>3, SellMoves
  <2> QED BY <1>2, <2>1, <2>2, <2>3, <2>4 DEF ShopStep
<1>3. CASE AccountStep
  <2>1. ASSUME NEW u \in Users, NEW p \in Packages, AssignOpen(u, p)
        PROVE  BookMove
    BY <2>1 DEF AssignOpen, BookMove
  <2>2. ASSUME NEW g \in grant, AssignPackage(g) PROVE BookMove
    <3>1. g.user \in Users /\ g.pkg \in Packages /\ NoKey \in Key
      BY DEF ShopTypeOK, Key
    <3>2. points[g.user] \in Nat
      BY <3>1 DEF BookTypeOK
    <3>3. 0 - 0 = 0
      BY SMT
    <3>4. Charged(g.user, g.pkg, 0, NoKey, "admin_grant")
      BY <2>2, <3>2, <3>3 DEF AssignPackage, PlaceOrder, Charged, Fresh
    <3> QED BY <3>1, <3>4 DEF BookMove, Charges
  <2>3. ASSUME NEW u \in Users, NEW a \in PointAmounts, AdjustPoints(u, a)
        PROVE  BookMove
    <3>1. Adjusted(u, a)
      BY <2>3, AmountsAssumption DEF AdjustPoints, Adjusted
    <3> QED BY <3>1, AmountsAssumption DEF BookMove
  <2>4. ASSUME NEW o \in DOMAIN orders, NEW m \in {"prorated", "full"},
               RefundOrder(o, m)
        PROVE  BookMove
    BY <2>4, RefundTxMoves DEF RefundOrder
  <2>5. ASSUME NEW i \in DOMAIN buckets, DeleteBucket(i) PROVE BookMove
    BY <2>5 DEF DeleteBucket, BookMove
  <2>6. ASSUME NEW i \in DOMAIN buckets, NEW d \in TrafficDeltas,
               AdjustBucketTraffic(i, d)
        PROVE  BookMove
    BY <2>6 DEF AdjustBucketTraffic, BookMove
  <2>7. ASSUME NEW i \in DOMAIN buckets, NEW e \in BOOLEAN, SetPlanAutoRenew(i, e)
        PROVE  BookMove
    BY <2>7 DEF SetPlanAutoRenew, BookMove
  <2> QED BY <1>3, <2>1, <2>2, <2>3, <2>4, <2>5, <2>6, <2>7 DEF AccountStep
<1>4. CASE PeriodStep
  BY <1>4 DEF PeriodStep, SetLineAdvance, SetLineMonthlyQuota,
              ConvertLineToPeriodic, BookMove
<1>5. CASE UserStep
  BY <1>5 DEF UserStep, AddBucketUsage, VisitOpen, VisitReset, VisitAdvance, BookMove
<1>6. CASE PackageStep
  <2>1. ASSUME NEW p \in Packages, EditOpen(p) \/ EnablePackage(p) \/ RetireStart(p)
        PROVE  BookMove
    BY <2>1 DEF EditOpen, EnablePackage, RetireStart, BookMove
  <2>2. ASSUME NEW e \in edit, NEW pr \in NewPrices, NEW l \in NewLines,
               EditSave(e, pr, l)
        PROVE  BookMove
    BY <2>2 DEF EditSave, BookMove
  <2>3. ASSUME NEW r \in retire, RetireRefund(r) PROVE BookMove
    <3>1. PICK o \in r.todo : RefundTx(o, RefundMode)
      BY <2>3 DEF RetireRefund
    <3>2. o \in DOMAIN orders
      BY DEF RetireTypeOK
    <3> QED BY <3>1, <3>2, RefundTxMoves
  <2>4. ASSUME NEW r \in retire,
               \/ RetireNextHolder(r) \/ RetireSkip(r) \/ RetireClear(r)
               \/ RetireClearFailed(r) \/ RetireFinish(r)
        PROVE  BookMove
    BY <2>4 DEF RetireNextHolder, RetireSkip, RetireClear, RetireClearFailed,
                RetireFinish, BookMove
  <2> QED BY <1>6, <2>1, <2>2, <2>3, <2>4 DEF PackageStep
<1>7. CASE SweepStep
  <2>1. CASE SweepBegin \/ SweepNextPhase
    BY <2>1 DEF SweepBegin, SweepNextPhase, BookMove
  <2>2. ASSUME NEW w \in sweep.todo, SweepRenew(w) PROVE BookMove
    <3>1. NoKey \in Key /\ Fresh(w.user, NoKey)
      BY DEF Key, Fresh
    <3> QED BY <2>2, <3>1, SellMoves DEF SweepRenew
  <2>3. ASSUME NEW w \in sweep.todo,
               SweepAdvance(w) \/ SweepReset(w) \/ SweepRenewSkipped(w) \/ SweepFailed(w)
        PROVE  BookMove
    BY <2>3 DEF SweepAdvance, SweepReset, SweepRenewSkipped, SweepFailed, BookMove
  <2> QED BY <1>7, <2>1, <2>2, <2>3 DEF SweepStep
<1>8. CASE Tick
  BY <1>8 DEF Tick, BookMove
<1> QED BY <1>1, <1>2, <1>3, <1>4, <1>5, <1>6, <1>7, <1>8 DEF Next

------------------------------------------------------------------------------
(* Types                                                                     *)

\* A move keeps the book well typed and never shortens the orders table
LEMMA MoveKeepsTypes ==
    ASSUME BookTypeOK, BookMove
    PROVE  BookTypeOK' /\ Len(orders) \in Nat /\ Len(orders') \in Nat
                       /\ Len(orders) <= Len(orders')
<1> USE DEF BookTypeOK
<1>1. CASE UNCHANGED book
  BY <1>1 DEF book
<1>2. ASSUME NEW u \in Users, NEW p \in Packages, NEW price \in Nat, NEW key \in Key,
             NEW type \in Charges, Charged(u, p, price, key, type)
      PROVE  BookTypeOK' /\ Len(orders) \in Nat /\ Len(orders') \in Nat
                         /\ Len(orders) <= Len(orders')
  <2>1. points[u] + (0 - price) \in Nat
    BY <1>2 DEF Charged
  <2>2. points' \in [Users -> Nat]
    BY <1>2, <2>1 DEF Charged, Post
  <2> DEFINE row == [user |-> u, pkg |-> p, price |-> price,
                     key |-> key, back |-> 0, status |-> "success"]
  <2>3. row \in OrderRow /\ orders' = Append(orders, row)
    BY <1>2 DEF Charged, OrderRow
  <2>4. orders' \in Seq(OrderRow) /\ Len(orders) \in Nat /\ Len(orders') = Len(orders) + 1
    BY <2>3
  <2> DEFINE entry == [user |-> u, amount |-> 0 - price, type |-> type,
                       balance |-> points[u] + (0 - price), ref |-> Len(orders) + 1]
  <2>5. entry \in LedgerRow /\ ledger' = Append(ledger, entry)
    BY <1>2, <2>1, <2>4 DEF Charged, Post, LedgerRow, Charges
  <2>6. ledger' \in Seq(LedgerRow)
    BY <2>5
  <2> QED BY <2>2, <2>4, <2>6
<1>3. ASSUME NEW o \in DOMAIN orders, NEW back \in Nat, Refunded(o, back)
      PROVE  BookTypeOK' /\ Len(orders) \in Nat /\ Len(orders') \in Nat
                         /\ Len(orders) <= Len(orders')
  <2>1. orders[o] \in OrderRow /\ o \in Nat
    BY OrderTyped
  <2>2. orders[o].user \in Users /\ points[orders[o].user] + back \in Nat
    BY <2>1 DEF OrderRow
  <2>3. points' \in [Users -> Nat]
    BY <1>3, <2>2 DEF Refunded, Post
  <2>4. [orders[o] EXCEPT !.status = "refunded", !.back = back] \in OrderRow
    BY <2>1 DEF OrderRow
  <2>5. orders' = [orders EXCEPT ![o] =
                      [orders[o] EXCEPT !.status = "refunded", !.back = back]]
    BY <1>3 DEF Refunded
  <2>6. orders' \in Seq(OrderRow) /\ Len(orders') = Len(orders)
    BY <2>4, <2>5
  <2> DEFINE entry == [user |-> orders[o].user, amount |-> back, type |-> "refund",
                       balance |-> points[orders[o].user] + back, ref |-> o]
  <2>7. entry \in LedgerRow /\ ledger' = Append(ledger, entry)
    BY <1>3, <2>1, <2>2 DEF Refunded, Post, LedgerRow
  <2>8. ledger' \in Seq(LedgerRow)
    BY <2>7
  <2> QED BY <2>3, <2>6, <2>8
<1>4. ASSUME NEW u \in Users, NEW amount \in Int, Adjusted(u, amount)
      PROVE  BookTypeOK' /\ Len(orders) \in Nat /\ Len(orders') \in Nat
                         /\ Len(orders) <= Len(orders')
  <2>1. points[u] + amount \in Nat
    BY <1>4 DEF Adjusted
  <2>2. points' \in [Users -> Nat]
    BY <1>4, <2>1 DEF Adjusted, Post
  <2> DEFINE entry == [user |-> u, amount |-> amount, type |-> "adjust",
                       balance |-> points[u] + amount, ref |-> 0]
  <2>3. entry \in LedgerRow /\ ledger' = Append(ledger, entry)
    BY <1>4, <2>1 DEF Adjusted, Post, LedgerRow
  <2>4. ledger' \in Seq(LedgerRow)
    BY <2>3
  <2> QED BY <1>4, <2>2, <2>4 DEF Adjusted
<1> QED BY <1>1, <1>2, <1>3, <1>4 DEF BookMove

\* What the shop and administrators hold between transactions stays well typed.
\* More orders only widens the range of answer.
LEMMA ShopStaysTyped ==
    ASSUME Typed, [Next]_vars
    PROVE  ShopTypeOK'
<1> USE DEF Typed, ShopTypeOK
<1>0. Len(orders) \in Nat /\ Len(orders') \in Nat /\ Len(orders) <= Len(orders')
  BY BookMoves, MoveKeepsTypes
<1>1. answer \in [Users -> 0..Len(orders')]
  BY <1>0
<1>2. ASSUME NEW u, NEW p, NEW type, NEW key, NEW t,
             Sellable(u, p), Sell(u, p, type, key, t)
      PROVE  pkgs' \in [Packages -> PackageRow] /\ Len(orders') = Len(orders) + 1
  <2>1. p \in Packages /\ pkgs[p] \in PackageRow
    BY <1>2 DEF Sellable
  <2> DEFINE left == IF pkgs[p].stock > 0 THEN pkgs[p].stock - 1 ELSE pkgs[p].stock
  <2>4. left \in Int
    BY <2>1 DEF PackageRow
  <2>5. [pkgs[p] EXCEPT !.stock = left] \in PackageRow
    BY <2>1, <2>4 DEF PackageRow
  <2>6. pkgs' = [pkgs EXCEPT ![p] = [pkgs[p] EXCEPT !.stock = left]]
    BY <1>2 DEF Sell
  <2>2. pkgs' \in [Packages -> PackageRow]
    BY <2>5, <2>6
  <2>3. \E row : orders' = Append(orders, row)
    BY <1>2 DEF Sell, PlaceOrder
  <2> QED BY <2>2, <2>3 DEF BookTypeOK
<1>3. CASE UNCHANGED vars
  BY <1>3 DEF vars, shop, book
<1>4. CASE ShopStep
  <2>1. ASSUME NEW u \in Users, NEW p \in Packages, NEW k \in Keys \cup {NoKey},
               ShopOpen(u, p, k)
        PROVE  ShopTypeOK'
    <3>1. pkgs[p] \in PackageRow
      BY <2>1
    <3> QED BY <2>1, <1>1, <3>1 DEF ShopOpen, PackageRow, Key
  <2>2. ASSUME NEW r \in reqs, PurchaseRefused(r)  PROVE ShopTypeOK'
    BY <2>2, <1>0, <1>1 DEF PurchaseRefused, Answer
  <2>3. ASSUME NEW r \in reqs, PurchaseReplayed(r) PROVE ShopTypeOK'
    <3>1. PICK o \in EarlierOrders(r) : Answer(r, o)
      BY <2>3 DEF PurchaseReplayed
    <3>2. o \in 0..Len(orders') /\ pkgs' = pkgs
      BY <2>3, <1>0 DEF EarlierOrders, BookTypeOK, PurchaseReplayed
    <3> QED BY <1>1, <3>1, <3>2 DEF Answer
  <2>4. ASSUME NEW r \in reqs, PurchaseSold(r)     PROVE ShopTypeOK'
    <3>1. pkgs' \in [Packages -> PackageRow] /\ Len(orders') = Len(orders) + 1
      BY <2>4, <1>2 DEF PurchaseSold
    <3>2. Len(orders) + 1 \in 0..Len(orders')
      BY <3>1, <1>0
    <3> QED BY <2>4, <1>1, <3>1, <3>2 DEF PurchaseSold, Answer
  <2> QED BY <1>4, <2>1, <2>2, <2>3, <2>4 DEF ShopStep
<1>5. CASE AccountStep
  <2>1. ASSUME NEW u \in Users, NEW p \in Packages, AssignOpen(u, p)
        PROVE  ShopTypeOK'
    <3>1. pkgs[p] \in PackageRow
      BY <2>1
    <3> QED BY <2>1, <1>1, <3>1 DEF AssignOpen, PackageRow
  <2>2. ASSUME NEW g \in grant, AssignPackage(g) PROVE ShopTypeOK'
    BY <2>2, <1>1 DEF AssignPackage
  <2>3. CASE UNCHANGED <<pkgs, shop>>
    BY <2>3, <1>1 DEF shop
  <2> QED BY <1>5, <2>1, <2>2, <2>3
          DEF AccountStep, AdjustPoints, RefundOrder, DeleteBucket,
              AdjustBucketTraffic, SetPlanAutoRenew
<1>6. CASE PeriodStep \/ UserStep \/ Tick
  <2>1. UNCHANGED <<pkgs, shop>>
    BY <1>6 DEF PeriodStep, SetLineAdvance, SetLineMonthlyQuota, Tick, UserStep,
                ConvertLineToPeriodic, AddBucketUsage, VisitOpen, VisitReset, VisitAdvance
  <2> QED BY <2>1, <1>1 DEF shop
<1>7. CASE PackageStep
  <2>1. ASSUME NEW p \in Packages, EditOpen(p) PROVE ShopTypeOK'
    <3>1. [pkg |-> p, row |-> pkgs[p]] \in [pkg : Packages, row : PackageRow]
      BY <2>1
    <3> QED BY <2>1, <1>1, <3>1 DEF EditOpen
  <2>2. ASSUME NEW p \in Packages, EnablePackage(p) PROVE ShopTypeOK'
    BY <2>2, <1>1 DEF EnablePackage, shop, PackageRow
  <2>3. ASSUME NEW e \in edit, NEW pr \in NewPrices, NEW l \in NewLines,
               EditSave(e, pr, l)
        PROVE  ShopTypeOK'
    <3>1. pr \in Nat /\ l \in STRING /\ e.row \in PackageRow
      BY PricesAssumption, LinesAssumption
    <3>2. [e.row EXCEPT !.price = pr, !.line = l] \in PackageRow
      BY <3>1 DEF PackageRow
    <3> QED BY <2>3, <1>1, <3>2 DEF EditSave
  <2>4. ASSUME NEW r \in retire, RetireFinish(r) PROVE ShopTypeOK'
    BY <2>4, <1>1 DEF RetireFinish, RetireTypeOK, shop, PackageRow
  <2>5. CASE UNCHANGED <<pkgs, shop>>
    BY <2>5, <1>1 DEF shop
  <2> QED BY <1>7, <2>1, <2>2, <2>3, <2>4, <2>5
          DEF PackageStep, RetireStart, RetireNextHolder, RetireRefund,
              RetireSkip, RetireClear, RetireClearFailed
<1>8. CASE SweepStep
  <2>1. ASSUME NEW w \in sweep.todo, SweepRenew(w) PROVE ShopTypeOK'
    <3>1. pkgs' \in [Packages -> PackageRow]
      BY <2>1, <1>2 DEF SweepRenew
    <3> QED BY <2>1, <1>1, <3>1 DEF SweepRenew, shop
  <2>2. CASE UNCHANGED <<pkgs, shop>>
    BY <2>2, <1>1 DEF shop
  <2> QED BY <1>8, <2>1, <2>2 DEF SweepStep, SweepBegin, SweepNextPhase,
            SweepAdvance, SweepReset, SweepRenewSkipped, SweepFailed
<1> QED BY <1>3, <1>4, <1>5, <1>6, <1>7, <1>8 DEF Next

\* The work list of a retirement names orders that exist
LEMMA RetireStaysTyped ==
    ASSUME Typed, [Next]_vars
    PROVE  RetireTypeOK'
<1> USE DEF Typed, RetireTypeOK
<1>0. Len(orders) \in Nat /\ DOMAIN orders \subseteq DOMAIN orders'
  <2>1. /\ orders \in Seq(OrderRow) /\ orders' \in Seq(OrderRow)
        /\ Len(orders) \in Nat /\ Len(orders') \in Nat /\ Len(orders) <= Len(orders')
    BY BookMoves, MoveKeepsTypes DEF BookTypeOK
  <2> QED BY <2>1
<1>1. CASE UNCHANGED retire
  BY <1>0, <1>1
<1>2. ASSUME NEW p \in Packages, RetireStart(p) PROVE RetireTypeOK'
  BY <1>0, <1>2 DEF RetireStart
<1>3. ASSUME NEW r \in retire, RetireNextHolder(r) PROVE RetireTypeOK'
  <2>1. PICK u \in r.holders :
           retire' = {[r EXCEPT !.user = u, !.holders = r.holders \ {u},
                                !.todo = {o \in DOMAIN orders :
                                             /\ orders[o].user = u
                                             /\ orders[o].pkg = r.pkg
                                             /\ orders[o].status = "success"}]}
    BY <1>3 DEF RetireNextHolder
  <2>2. DOMAIN orders \subseteq Nat
    BY DEF BookTypeOK
  <2> QED BY <1>0, <2>1, <2>2
<1>4. ASSUME NEW r \in retire, RetireRefund(r) \/ RetireSkip(r) PROVE RetireTypeOK'
  <2>1. PICK o \in r.todo : retire' = {[r EXCEPT !.todo = r.todo \ {o}]}
    BY <1>4 DEF RetireRefund, RetireSkip
  <2> QED BY <1>0, <2>1
<1>5. ASSUME NEW r \in retire, RetireClear(r) \/ RetireClearFailed(r)
      PROVE  RetireTypeOK'
  BY <1>0, <1>5 DEF RetireClear, RetireClearFailed
<1>6. ASSUME NEW r \in retire, RetireFinish(r) PROVE RetireTypeOK'
  BY <1>6 DEF RetireFinish
<1>7. CASE PackageStep
  BY <1>1, <1>2, <1>3, <1>4, <1>5, <1>6, <1>7
     DEF PackageStep, EditOpen, EditSave, EnablePackage, jobs
<1>8. CASE ShopStep \/ AccountStep
  BY <1>1, <1>8 DEF ShopStep, ShopOpen, PurchaseRefused, PurchaseReplayed,
        PurchaseSold, Answer, AccountStep, AssignOpen, AssignPackage, AdjustPoints,
        RefundOrder, DeleteBucket, AdjustBucketTraffic, SetPlanAutoRenew, jobs
<1>9. CASE PeriodStep \/ UserStep \/ Tick \/ SweepStep \/ UNCHANGED vars
  BY <1>1, <1>9 DEF PeriodStep, SetLineAdvance, SetLineMonthlyQuota, Tick, UserStep,
        ConvertLineToPeriodic, AddBucketUsage, VisitOpen, VisitReset, VisitAdvance, SweepStep, SweepBegin,
        SweepNextPhase, SweepAdvance, SweepReset, SweepRenew, SweepRenewSkipped,
        SweepFailed, jobs, vars
<1> QED BY <1>7, <1>8, <1>9 DEF Next

\* Points, orders, ledger, catalogue, pending requests and the retirement in
\* progress keep their types: no balance is ever negative, whatever interleaves
\* between a request's read and its transaction.
THEOREM BookIsTyped == Spec => []Typed
<1>1. Init => Typed
  <2> SUFFICES ASSUME Init PROVE Typed
    OBVIOUS
  <2>1. BookTypeOK
    BY PointsAssumption DEF Init, BookTypeOK
  <2>2. ShopTypeOK
    <3>1. Len(orders) = 0
      BY DEF Init
    <3> QED BY <3>1, PackagesAssumption DEF Init, ShopTypeOK
  <2>3. RetireTypeOK
    BY DEF Init, RetireTypeOK
  <2> QED BY <2>1, <2>2, <2>3 DEF Typed
<1>2. Typed /\ [Next]_vars => Typed'
  BY BookMoves, MoveKeepsTypes, ShopStaysTyped, RetireStaysTyped DEF Typed
<1> QED BY <1>1, <1>2, PTL DEF Spec

------------------------------------------------------------------------------
(* The ledger explains every balance                                         *)

\* Posting a row from the current balance keeps the chain of every account
LEMMA PostKeepsLedger ==
    ASSUME BookTypeOK, LedgerExplainsBalance, NEW u \in Users, NEW amount \in Int,
           NEW type, NEW ref, Post(u, amount, type, ref)
    PROVE  LedgerExplainsBalance'
<1> DEFINE N == Len(ledger)
           entry == [user |-> u, amount |-> amount, type |-> type,
                     balance |-> points[u] + amount, ref |-> ref]
<1>1. ledger \in Seq(LedgerRow) /\ N \in Nat /\ DOMAIN ledger = 1..N
  BY DEF BookTypeOK
<1>2. /\ DOMAIN ledger' = 1..(N + 1)
      /\ \A n \in 1..N : ledger'[n] = ledger[n]
      /\ ledger'[N + 1] = entry
  <2>1. ledger' = Append(ledger, entry)
    BY DEF Post
  <2> QED BY <1>1, <2>1
<1>3. /\ points'[u] = points[u] + amount
      /\ \A v \in Users \ {u} : points'[v] = points[v]
  BY DEF Post, BookTypeOK
<1>4. \A n \in 1..N : ledger[n].user \in Users
  <2>1. \A n \in 1..N : ledger[n] \in LedgerRow
    BY <1>1
  <2> QED BY <2>1 DEF LedgerRow
<1>5. entry.user = u /\ entry.balance = points[u] + amount /\ entry.amount = amount
  OBVIOUS
<1> HIDE DEF entry, N
<1>6. \A v \in Users : (\A n \in DOMAIN ledger' : ledger'[n].user # v)
                          => points'[v] = InitPoints[v]
  BY <1>1, <1>2, <1>3, <1>5 DEF LedgerExplainsBalance
<1>7. ASSUME NEW n \in DOMAIN ledger',
             \A k \in DOMAIN ledger' : ledger'[k].user = ledger'[n].user => k <= n
      PROVE  ledger'[n].balance = points'[ledger'[n].user]
  <2>1. CASE n = N + 1
    BY <1>2, <1>3, <1>5, <2>1
  <2>2. CASE n \in 1..N
    <3>1. ledger[n].user # u
      BY <1>1, <1>2, <1>5, <1>7, <2>2
    <3>2. \A k \in DOMAIN ledger : SameUser(k, n) => k <= n
      BY <1>1, <1>2, <1>7, <2>2 DEF SameUser
    <3> QED BY <1>1, <1>2, <1>3, <1>4, <2>2, <3>1, <3>2 DEF LedgerExplainsBalance
  <2> QED BY <1>1, <1>2, <2>1, <2>2
<1>8. ASSUME NEW n \in DOMAIN ledger',
             \A k \in DOMAIN ledger' : ledger'[k].user = ledger'[n].user => n <= k
      PROVE  ledger'[n].balance = InitPoints[ledger'[n].user] + ledger'[n].amount
  <2>1. CASE n = N + 1
    <3>1. \A k \in DOMAIN ledger : ledger[k].user # u
      BY <1>1, <1>2, <1>5, <1>8, <2>1
    <3>2. points[u] = InitPoints[u]
      BY <3>1 DEF LedgerExplainsBalance
    <3> QED BY <1>2, <1>5, <2>1, <3>2
  <2>2. CASE n \in 1..N
    <3>1. \A k \in DOMAIN ledger : SameUser(k, n) => n <= k
      BY <1>1, <1>2, <1>8, <2>2 DEF SameUser
    <3> QED BY <1>1, <1>2, <2>2, <3>1 DEF LedgerExplainsBalance
  <2> QED BY <1>1, <1>2, <2>1, <2>2
<1>9. ASSUME NEW m \in DOMAIN ledger', NEW n \in DOMAIN ledger',
             m < n, ledger'[m].user = ledger'[n].user,
             \A k \in DOMAIN ledger' : m < k /\ k < n => ledger'[k].user # ledger'[n].user
      PROVE  ledger'[n].balance = ledger'[m].balance + ledger'[n].amount
  <2>1. CASE n = N + 1
    <3>1. m \in 1..N /\ ledger[m].user = u
      BY <1>1, <1>2, <1>5, <1>9, <2>1
    <3>2. \A k \in DOMAIN ledger : SameUser(k, m) => k <= m
      BY <1>1, <1>2, <1>5, <1>9, <2>1, <3>1 DEF SameUser
    <3>3. ledger[m].balance = points[u]
      BY <1>1, <3>1, <3>2 DEF LedgerExplainsBalance
    <3> QED BY <1>2, <1>5, <2>1, <3>1, <3>3
  <2>2. CASE n \in 1..N
    <3>1. m \in 1..N
      BY <1>1, <1>2, <1>9, <2>2
    <3>2. Precedes(m, n)
      BY <1>1, <1>2, <1>9, <2>2, <3>1 DEF Precedes, SameUser
    <3> QED BY <1>1, <1>2, <2>2, <3>1, <3>2 DEF LedgerExplainsBalance
  <2> QED BY <1>1, <1>2, <2>1, <2>2
<1> QED BY <1>6, <1>7, <1>8, <1>9 DEF LedgerExplainsBalance, Precedes, SameUser

\* The ledger explains every balance, whichever transactions moved it
THEOREM LedgerIsSound == Spec => []LedgerExplainsBalance
<1>1. Init => LedgerExplainsBalance
  BY DEF Init, LedgerExplainsBalance, SameUser, Precedes
<1>2. Typed /\ LedgerExplainsBalance /\ [Next]_vars => LedgerExplainsBalance'
  <2> SUFFICES ASSUME Typed, LedgerExplainsBalance, [Next]_vars
               PROVE  LedgerExplainsBalance'
    OBVIOUS
  <2>1. BookTypeOK /\ BookMove
    BY BookMoves DEF Typed
  <2>2. CASE UNCHANGED book
    BY <2>2 DEF book, LedgerExplainsBalance, SameUser, Precedes
  <2>3. ASSUME NEW u \in Users, NEW p \in Packages, NEW price \in Nat, NEW key \in Key,
               NEW type \in Charges, Charged(u, p, price, key, type)
        PROVE  LedgerExplainsBalance'
    BY <2>1, <2>3, 0 - price \in Int, PostKeepsLedger DEF Charged
  <2>4. ASSUME NEW o \in DOMAIN orders, NEW back \in Nat, Refunded(o, back)
        PROVE  LedgerExplainsBalance'
    <3>1. orders[o].user \in Users /\ back \in Int
      BY <2>1, OrderTyped DEF OrderRow
    <3> QED BY <2>1, <2>4, <3>1, PostKeepsLedger DEF Refunded
  <2>5. ASSUME NEW u \in Users, NEW amount \in Int, Adjusted(u, amount)
        PROVE  LedgerExplainsBalance'
    BY <2>1, <2>5, PostKeepsLedger DEF Adjusted
  <2> QED BY <2>1, <2>2, <2>3, <2>4, <2>5 DEF BookMove
<1> QED BY <1>1, <1>2, BookIsTyped, PTL DEF Spec

------------------------------------------------------------------------------
(* Orders and refunds                                                        *)

\* No ledger row refunds an order that does not exist (or no order at all)
RefundsNameOrders ==
    \A n \in DOMAIN ledger : ledger[n].type = "refund" => ledger[n].ref \in DOMAIN orders

RefundInv == RefundsReconcile /\ RefundsNameOrders

\* What a posted row does to the table of rows
LEMMA PostAppends ==
    ASSUME BookTypeOK, NEW u \in Users, NEW amount \in Int, NEW type, NEW ref,
           Post(u, amount, type, ref)
    PROVE  \E N \in Nat :
              /\ DOMAIN ledger = 1..N /\ DOMAIN ledger' = 1..(N + 1)
              /\ \A n \in 1..N : ledger'[n] = ledger[n]
              /\ ledger'[N + 1].user = u /\ ledger'[N + 1].amount = amount
              /\ ledger'[N + 1].type = type /\ ledger'[N + 1].ref = ref
<1> DEFINE entry == [user |-> u, amount |-> amount, type |-> type,
                     balance |-> points[u] + amount, ref |-> ref]
<1>1. ledger' = Append(ledger, entry) /\ ledger \in Seq(LedgerRow)
  BY DEF Post, BookTypeOK
<1>2. Len(ledger) \in Nat /\ DOMAIN ledger = 1..Len(ledger)
  BY <1>1
<1>3. /\ DOMAIN ledger' = 1..(Len(ledger) + 1)
      /\ \A n \in 1..Len(ledger) : ledger'[n] = ledger[n]
      /\ ledger'[Len(ledger) + 1] = entry
  BY <1>1, <1>2
<1>4. entry.user = u /\ entry.amount = amount /\ entry.type = type /\ entry.ref = ref
  OBVIOUS
<1> HIDE DEF entry
<1> QED BY <1>2, <1>3, <1>4

\* What placing an order does to the table of orders
LEMMA OrderAppends ==
    ASSUME BookTypeOK, NEW u, NEW p, NEW price, NEW key, NEW type,
           Charged(u, p, price, key, type)
    PROVE  /\ Len(orders) \in Nat /\ DOMAIN orders = 1..Len(orders)
           /\ DOMAIN orders' = 1..(Len(orders) + 1)
           /\ \A o \in DOMAIN orders : orders'[o] = orders[o]
           /\ orders'[Len(orders) + 1] =
                 [user |-> u, pkg |-> p, price |-> price, key |-> key,
                  back |-> 0, status |-> "success"]
<1>1. orders \in Seq(OrderRow)
  BY DEF BookTypeOK
<1>2. Len(orders) \in Nat /\ DOMAIN orders = 1..Len(orders)
  BY <1>1
<1> QED BY <1>1, <1>2 DEF Charged

\* Orders and ledger reconcile in every reachable state
THEOREM RefundsAreSound == Spec => []RefundsReconcile
<1>1. Init => RefundInv
  BY DEF Init, RefundInv, RefundsReconcile, RefundsNameOrders
<1>2. Typed /\ RefundInv /\ [Next]_vars => RefundInv'
  <2> SUFFICES ASSUME Typed, RefundInv, [Next]_vars PROVE RefundInv'
    OBVIOUS
  <2>1. BookTypeOK /\ BookMove
    BY BookMoves DEF Typed
  <2>2. CASE UNCHANGED book
    BY <2>2 DEF book, RefundInv, RefundsReconcile, RefundsNameOrders, RefundRow
  <2>3. ASSUME NEW u \in Users, NEW p \in Packages, NEW price \in Nat, NEW key \in Key,
               NEW type \in Charges, Charged(u, p, price, key, type)
        PROVE  RefundInv'
    <3>1. /\ Len(orders) \in Nat /\ DOMAIN orders = 1..Len(orders)
          /\ DOMAIN orders' = 1..(Len(orders) + 1)
          /\ \A o \in DOMAIN orders : orders'[o] = orders[o]
          /\ orders'[Len(orders) + 1].back = 0
          /\ orders'[Len(orders) + 1].price = price
          /\ orders'[Len(orders) + 1].status = "success"
      <4>1. /\ Len(orders) \in Nat /\ DOMAIN orders = 1..Len(orders)
            /\ DOMAIN orders' = 1..(Len(orders) + 1)
            /\ \A o \in DOMAIN orders : orders'[o] = orders[o]
            /\ orders'[Len(orders) + 1] =
                 [user |-> u, pkg |-> p, price |-> price, key |-> key,
                  back |-> 0, status |-> "success"]
        BY ONLY <2>1, <2>3, OrderAppends
      <4> QED BY <4>1
    <3>2. PICK N \in Nat :
              /\ DOMAIN ledger = 1..N /\ DOMAIN ledger' = 1..(N + 1)
              /\ \A n \in 1..N : ledger'[n] = ledger[n]
              /\ ledger'[N + 1].type = type
      <4>1. Post(u, 0 - price, type, Len(orders) + 1) /\ 0 - price \in Int
        BY <2>3 DEF Charged
      <4> QED BY ONLY u \in Users, <2>1, <4>1, PostAppends
    <3>3. type # "refund"
      BY DEF Charges
    <3>4. \A n \in DOMAIN ledger' : \A o : RefundRow(n, o)' <=> n \in 1..N /\ RefundRow(n, o)
      BY <3>2, <3>3 DEF RefundRow
    <3>5. RefundsNameOrders'
      BY <3>1, <3>2, <3>3 DEF RefundInv, RefundsNameOrders
    <3>6. RefundsReconcile'
      <4> SUFFICES ASSUME NEW o \in DOMAIN orders'
                   PROVE  /\ orders'[o].back <= orders'[o].price
                          /\ \A m, n \in DOMAIN ledger' :
                                RefundRow(m, o)' /\ RefundRow(n, o)' => m = n
                          /\ orders'[o].status = "refunded"
                                <=> \E n \in DOMAIN ledger' : RefundRow(n, o)'
                          /\ \A n \in DOMAIN ledger' : RefundRow(n, o)' =>
                                /\ ledger'[n].amount = orders'[o].back
                                /\ ledger'[n].user = orders'[o].user
        BY DEF RefundsReconcile, RefundRow
      <4>1. CASE o \in DOMAIN orders
        BY <3>1, <3>2, <3>4, <4>1 DEF RefundInv, RefundsReconcile
      <4>2. CASE o = Len(orders) + 1
        <5>1. o \notin DOMAIN orders
          BY <3>1, <4>2
        <5>2. \A n \in 1..N : ~RefundRow(n, o)
          BY <3>2, <5>1 DEF RefundInv, RefundsNameOrders, RefundRow
        <5>3. \A n \in DOMAIN ledger' : ~RefundRow(n, o)'
          BY <3>4, <5>2
        <5> QED BY <3>1, <4>2, <5>3
      <4> QED BY <3>1, <4>1, <4>2
    <3> QED BY <3>5, <3>6 DEF RefundInv
  <2>4. ASSUME NEW o \in DOMAIN orders, NEW back \in Nat, Refunded(o, back)
        PROVE  RefundInv'
    <3>1. orders[o].user \in Users /\ back \in Int /\ orders[o].price \in Nat
      BY <2>1, OrderTyped DEF OrderRow
    <3>2. PICK N \in Nat :
              /\ DOMAIN ledger = 1..N /\ DOMAIN ledger' = 1..(N + 1)
              /\ \A n \in 1..N : ledger'[n] = ledger[n]
              /\ ledger'[N + 1].user = orders[o].user /\ ledger'[N + 1].amount = back
              /\ ledger'[N + 1].type = "refund" /\ ledger'[N + 1].ref = o
      BY <2>1, <2>4, <3>1, PostAppends DEF Refunded
    <3>3. /\ DOMAIN orders' = DOMAIN orders
          /\ \A q \in DOMAIN orders \ {o} : orders'[q] = orders[q]
          /\ orders'[o].back = back /\ orders'[o].status = "refunded"
          /\ orders'[o].price = orders[o].price /\ orders'[o].user = orders[o].user
      <4>1. orders' = [orders EXCEPT ![o] =
                          [orders[o] EXCEPT !.status = "refunded", !.back = back]]
        BY <2>4 DEF Refunded
      <4>2. orders[o] \in OrderRow
        BY <2>1, OrderTyped
      <4> QED BY <4>1, <4>2 DEF OrderRow
    <3>4. back <= orders[o].price /\ orders[o].status = "success"
      BY <2>4, <3>1 DEF Refunded
    <3>5. \A n \in 1..N : \A q : RefundRow(n, q)' <=> RefundRow(n, q)
      BY <3>2 DEF RefundRow
    <3>6. \A q : RefundRow(N + 1, q)' <=> q = o
      BY <3>2 DEF RefundRow
    <3>7. \A n \in 1..N : ~RefundRow(n, o)
      BY <3>2, <3>4 DEF RefundInv, RefundsReconcile
    <3>8. RefundsNameOrders'
      BY <3>2, <3>3 DEF RefundInv, RefundsNameOrders
    <3>9. RefundsReconcile'
      <4> SUFFICES ASSUME NEW q \in DOMAIN orders'
                   PROVE  /\ orders'[q].back <= orders'[q].price
                          /\ \A m, n \in DOMAIN ledger' :
                                RefundRow(m, q)' /\ RefundRow(n, q)' => m = n
                          /\ orders'[q].status = "refunded"
                                <=> \E n \in DOMAIN ledger' : RefundRow(n, q)'
                          /\ \A n \in DOMAIN ledger' : RefundRow(n, q)' =>
                                /\ ledger'[n].amount = orders'[q].back
                                /\ ledger'[n].user = orders'[q].user
        BY DEF RefundsReconcile, RefundRow
      <4>1. CASE q = o
        <5>1. \A n \in DOMAIN ledger' : RefundRow(n, q)' <=> n = N + 1
          BY <3>2, <3>5, <3>6, <3>7, <4>1
        <5> QED BY <3>1, <3>2, <3>3, <3>4, <4>1, <5>1
      <4>2. CASE q # o
        BY <3>2, <3>3, <3>5, <3>6, <4>2 DEF RefundInv, RefundsReconcile
      <4> QED BY <4>1, <4>2
    <3> QED BY <3>8, <3>9 DEF RefundInv
  <2>5. ASSUME NEW u \in Users, NEW amount \in Int, Adjusted(u, amount)
        PROVE  RefundInv'
    <3>1. PICK N \in Nat :
              /\ DOMAIN ledger = 1..N /\ DOMAIN ledger' = 1..(N + 1)
              /\ \A n \in 1..N : ledger'[n] = ledger[n]
              /\ ledger'[N + 1].type = "adjust"
      <4>1. Post(u, amount, "adjust", 0)
        BY <2>5 DEF Adjusted
      <4> QED BY ONLY u \in Users, amount \in Int, <2>1, <4>1, PostAppends
    <3>2. \A n \in DOMAIN ledger' : \A o : RefundRow(n, o)' <=> n \in 1..N /\ RefundRow(n, o)
      BY <3>1 DEF RefundRow
    <3>3. orders' = orders
      BY <2>5 DEF Adjusted
    <3>4. RefundsNameOrders'
      BY <3>1, <3>3 DEF RefundInv, RefundsNameOrders
    <3>5. RefundsReconcile'
      <4> SUFFICES ASSUME NEW o \in DOMAIN orders'
                   PROVE  /\ orders'[o].back <= orders'[o].price
                          /\ \A m, n \in DOMAIN ledger' :
                                RefundRow(m, o)' /\ RefundRow(n, o)' => m = n
                          /\ orders'[o].status = "refunded"
                                <=> \E n \in DOMAIN ledger' : RefundRow(n, o)'
                          /\ \A n \in DOMAIN ledger' : RefundRow(n, o)' =>
                                /\ ledger'[n].amount = orders'[o].back
                                /\ ledger'[n].user = orders'[o].user
        BY DEF RefundsReconcile, RefundRow
      <4> QED BY <3>1, <3>2, <3>3 DEF RefundInv, RefundsReconcile
    <3> QED BY <3>4, <3>5 DEF RefundInv
  <2> QED BY <2>1, <2>2, <2>3, <2>4, <2>5 DEF BookMove
<1>3. RefundInv => RefundsReconcile
  BY DEF RefundInv
<1> QED BY <1>1, <1>2, <1>3, BookIsTyped, PTL DEF Spec

\* What a refund does to the table of orders
LEMMA RefundEdits ==
    ASSUME BookTypeOK, NEW o \in DOMAIN orders, NEW back, Refunded(o, back)
    PROVE  /\ DOMAIN orders' = DOMAIN orders
           /\ \A q \in DOMAIN orders \ {o} : orders'[q] = orders[q]
           /\ orders'[o] = [orders[o] EXCEPT !.status = "refunded", !.back = back]
           /\ orders'[o].user = orders[o].user /\ orders'[o].price = orders[o].price
           /\ orders'[o].key = orders[o].key
           /\ orders'[o].back = back /\ orders'[o].status = "refunded"
<1>1. orders' = [orders EXCEPT ![o] =
                    [orders[o] EXCEPT !.status = "refunded", !.back = back]]
  BY DEF Refunded
<1>2. orders[o] \in OrderRow
  BY OrderTyped
<1> QED BY <1>1, <1>2 DEF OrderRow

\* A purchase intent charges once, whatever its retries interleave with
THEOREM IntentsAreChargedOnce == Spec => []OneOrderPerKey
<1>1. Init => OneOrderPerKey
  BY DEF Init, OneOrderPerKey
<1>2. Typed /\ OneOrderPerKey /\ [Next]_vars => OneOrderPerKey'
  <2> SUFFICES ASSUME Typed, OneOrderPerKey, [Next]_vars PROVE OneOrderPerKey'
    OBVIOUS
  <2>1. BookTypeOK /\ BookMove
    BY BookMoves DEF Typed
  <2>2. CASE UNCHANGED orders
    BY <2>2 DEF OneOrderPerKey
  <2>3. ASSUME NEW u \in Users, NEW p \in Packages, NEW price \in Nat, NEW key \in Key,
               NEW type \in Charges, Charged(u, p, price, key, type)
        PROVE  OneOrderPerKey'
    <3>1. /\ Len(orders) \in Nat /\ DOMAIN orders = 1..Len(orders)
          /\ DOMAIN orders' = 1..(Len(orders) + 1)
          /\ \A o \in DOMAIN orders : orders'[o] = orders[o]
          /\ orders'[Len(orders) + 1] =
                [user |-> u, pkg |-> p, price |-> price, key |-> key,
                 back |-> 0, status |-> "success"]
      BY ONLY <2>1, <2>3, OrderAppends
    <3>2. orders'[Len(orders) + 1].user = u /\ orders'[Len(orders) + 1].key = key
      BY <3>1
    <3>3. Fresh(u, key)
      BY <2>3 DEF Charged
    <3>4. ASSUME NEW o \in DOMAIN orders', NEW q \in DOMAIN orders',
                 orders'[o].key # NoKey, orders'[o].key = orders'[q].key,
                 orders'[o].user = orders'[q].user, o # q
          PROVE  FALSE
      <4>1. CASE o \in DOMAIN orders /\ q \in DOMAIN orders
        BY <3>1, <3>4, <4>1 DEF OneOrderPerKey
      <4>2. CASE o = Len(orders) + 1
        BY <3>1, <3>2, <3>3, <3>4, <4>2 DEF Fresh
      <4>3. CASE q = Len(orders) + 1
        BY <3>1, <3>2, <3>3, <3>4, <4>3 DEF Fresh
      <4> QED BY <3>1, <4>1, <4>2, <4>3
    <3> QED BY <3>4 DEF OneOrderPerKey
  <2>4. ASSUME NEW o \in DOMAIN orders, NEW back \in Nat, Refunded(o, back)
        PROVE  OneOrderPerKey'
    <3>1. /\ DOMAIN orders' = DOMAIN orders
          /\ \A q \in DOMAIN orders \ {o} : orders'[q] = orders[q]
          /\ orders'[o].user = orders[o].user /\ orders'[o].key = orders[o].key
      BY ONLY <2>1, <2>4, RefundEdits
    <3>2. \A q \in DOMAIN orders : /\ orders'[q].user = orders[q].user
                                   /\ orders'[q].key = orders[q].key
      BY <3>1
    <3> QED BY <3>1, <3>2 DEF OneOrderPerKey
  <2> QED BY <2>1, <2>2, <2>3, <2>4 DEF BookMove, book, Adjusted
<1> QED BY <1>1, <1>2, BookIsTyped, PTL DEF Spec

------------------------------------------------------------------------------
(* Billing implements PointsBook                                             *)

Receipts == [o \in DOMAIN orders |-> Receipt(o)]

\* A move of the book is a step of PointsBook or leaves it alone
LEMMA MoveImplements ==
    ASSUME Typed, BookMove
    PROVE  Points!Next \/ UNCHANGED <<points, Receipts>>
<1> USE DEF Typed
<1>1. CASE UNCHANGED book
  BY <1>1 DEF book, Receipts, Receipt
<1>2. ASSUME NEW u \in Users, NEW p \in Packages, NEW price \in Nat, NEW key \in Key,
             NEW type \in Charges, Charged(u, p, price, key, type)
      PROVE  Points!Next
  <2>1. /\ Len(orders) \in Nat /\ DOMAIN orders = 1..Len(orders)
        /\ DOMAIN orders' = 1..(Len(orders) + 1)
        /\ \A o \in DOMAIN orders : orders'[o] = orders[o]
        /\ orders'[Len(orders) + 1] =
              [user |-> u, pkg |-> p, price |-> price, key |-> key,
               back |-> 0, status |-> "success"]
    BY ONLY Typed, <1>2, OrderAppends DEF Typed
  <2> DEFINE new == [user |-> u, price |-> price, back |-> 0, status |-> "success"]
  <2>2. Receipts' = [o \in 1..(Len(orders) + 1) |->
                        IF o = Len(orders) + 1 THEN new ELSE Receipts[o]]
    BY <2>1 DEF Receipts, Receipt
  <2>3. Receipts' = Append(Receipts, new)
    <3>1. DOMAIN Receipts = 1..Len(orders) /\ Receipts = [o \in 1..Len(orders) |-> Receipts[o]]
      BY <2>1 DEF Receipts
    <3>2. Len(Receipts) = Len(orders)
      BY <2>1, <3>1
    <3> HIDE DEF Receipts, new
    <3> QED BY <2>1, <2>2, <3>1, <3>2
  <2>4. price \in 0..points[u] /\ price <= points[u] /\ -price = 0 - price
    BY <1>2 DEF Charged, BookTypeOK
  <2>5. points' = [points EXCEPT ![u] = points[u] + -price]
    BY <1>2, <2>4 DEF Charged, Post
  <2>6. Points!Charge(u, price)
    BY <2>3, <2>4, <2>5 DEF Points!Charge, Points!Move, Receipts
  <2> QED BY <2>4, <2>6 DEF Points!Next
<1>3. ASSUME NEW o \in DOMAIN orders, NEW back \in Nat, Refunded(o, back)
      PROVE  Points!Next
  <2>1. /\ DOMAIN orders' = DOMAIN orders
        /\ \A q \in DOMAIN orders \ {o} : orders'[q] = orders[q]
        /\ orders'[o].user = orders[o].user /\ orders'[o].price = orders[o].price
        /\ orders'[o].back = back /\ orders'[o].status = "refunded"
    BY ONLY Typed, <1>3, RefundEdits DEF Typed
  <2>2. Receipts' = [Receipts EXCEPT ![o] =
                        [Receipts[o] EXCEPT !.status = "refunded", !.back = back]]
    BY <2>1 DEF Receipts, Receipt
  <2>3. /\ o \in DOMAIN Receipts /\ Receipts[o].status = "success"
        /\ Receipts[o].user = orders[o].user /\ back \in 0..Receipts[o].price
    BY <1>3 DEF Refunded, Receipts, Receipt
  <2>4. points' = [points EXCEPT ![Receipts[o].user] = points[Receipts[o].user] + back]
    BY <1>3, <2>3 DEF Refunded, Post
  <2>5. Points!Refund(o, back)
    BY <2>2, <2>3, <2>4 DEF Points!Refund, Points!Move, Receipts
  <2> QED BY <2>3, <2>5 DEF Points!Next, Receipts
<1>4. ASSUME NEW u \in Users, NEW amount \in Int, Adjusted(u, amount)
      PROVE  Points!Next
  <2>1. points' = [points EXCEPT ![u] = points[u] + amount] /\ orders' = orders
    BY <1>4 DEF Adjusted, Post
  <2>2. points'[u] = points[u] + amount /\ points[u] + amount >= 0
    BY <1>4, <2>1 DEF Adjusted, BookTypeOK
  <2>3. Points!Adjust(u)
    BY <2>1, <2>2 DEF Points!Adjust, Receipt
  <2> QED BY <2>3 DEF Points!Next
<1> QED BY <1>1, <1>2, <1>3, <1>4 DEF BookMove

\* Billing implements PointsBook
THEOREM PointsAreSafe == Spec => PointsAreKept
<1>1. Init => Points!Init
  <2> SUFFICES ASSUME Init PROVE points = InitPoints /\ Receipts = <<>>
    BY DEF Points!Init, Receipts
  <2>1. orders = <<>>
    BY DEF Init
  <2>2. DOMAIN orders = {}
    BY <2>1
  <2> QED BY <2>2 DEF Init, Receipts
<1>2. Typed /\ [Next]_vars => [Points!Next]_<<points, Receipts>>
  BY BookMoves, MoveImplements
<1> QED BY <1>1, <1>2, BookIsTyped, PTL DEF Spec, PointsAreKept, Points!Spec, Receipts

------------------------------------------------------------------------------
(* The stock is conserved                                                    *)

OrdersKept ==
    /\ DOMAIN orders \subseteq DOMAIN orders'
    /\ \A o \in DOMAIN orders : orders'[o] = orders[o]

\* Only a refund changes an order that was placed
LEMMA OnlyRefundsEdit ==
    ASSUME Typed, [Next]_vars
    PROVE  OrdersKept \/ \E o \in DOMAIN orders : \E mode : RefundTx(o, mode)
<1> DEFINE Refunding == \E o \in DOMAIN orders : \E mode : RefundTx(o, mode)
           Grows == orders' = orders \/ \E row : orders' = Append(orders, row)
<1>1. Grows => OrdersKept
  <2>1. orders \in Seq(OrderRow)
    BY DEF Typed, BookTypeOK
  <2>2. ASSUME NEW row, orders' = Append(orders, row) PROVE OrdersKept
    <3>1. Len(orders) \in Nat /\ DOMAIN orders = 1..Len(orders)
      BY <2>1
    <3>2. DOMAIN orders' = 1..(Len(orders) + 1)
      BY <2>1, <2>2, <3>1
    <3>3. \A o \in 1..Len(orders) : orders'[o] = orders[o]
      BY <2>1, <2>2, <3>1
    <3> QED BY <3>1, <3>2, <3>3 DEF OrdersKept
  <2> QED BY <2>2 DEF OrdersKept
<1>2. CASE UNCHANGED vars
  BY <1>1, <1>2 DEF vars, book
<1>3. CASE ShopStep
  BY <1>1, <1>3 DEF ShopStep, ShopOpen, PurchaseRefused, PurchaseReplayed, PurchaseSold, Sell,
     PlaceOrder, book
<1>4. CASE AccountStep
  BY <1>1, <1>4 DEF AccountStep, AssignOpen, AssignPackage, PlaceOrder, AdjustPoints, RefundOrder,
     DeleteBucket, AdjustBucketTraffic, SetPlanAutoRenew, book
<1>5. CASE PeriodStep \/ UserStep \/ Tick
  BY <1>1, <1>5 DEF PeriodStep, SetLineAdvance, SetLineMonthlyQuota, ConvertLineToPeriodic,
     UserStep, AddBucketUsage, VisitOpen, VisitReset, VisitAdvance, Tick, book
<1>6. CASE PackageStep
  <2>1. ASSUME NEW r \in retire, RetireRefund(r) PROVE Refunding
    BY <2>1 DEF RetireRefund, Typed, RetireTypeOK
  <2> QED BY <1>1, <1>6, <2>1 DEF PackageStep, EditOpen, EnablePackage, RetireStart, EditSave,
          RetireNextHolder, RetireSkip, RetireClear, RetireClearFailed, RetireFinish, book
<1>7. CASE SweepStep
  BY <1>1, <1>7 DEF SweepStep, SweepBegin, SweepNextPhase, SweepAdvance, SweepReset, SweepRenew,
     Sell, PlaceOrder, SweepRenewSkipped, SweepFailed, book
<1> QED BY <1>2, <1>3, <1>4, <1>5, <1>6, <1>7 DEF Next

SaleTypes == {"purchase", "auto_renew"}

\* A sale takes one unit of the package it places an order for
Sale(p) ==
    /\ pkgs[p].stock # 0
    /\ pkgs' = [pkgs EXCEPT ![p].stock =
                   IF pkgs[p].stock > 0 THEN pkgs[p].stock - 1 ELSE pkgs[p].stock]
    /\ \E row : orders' = Append(orders, row) /\ row.pkg = p
    /\ \E row : /\ ledger' = Append(ledger, row)
                /\ row.type \in SaleTypes /\ row.ref = Len(orders) + 1

\* Everything else posts no row of a sale
Quiet ==
    /\ \A p \in Packages : pkgs'[p].stock = pkgs[p].stock
    /\ ledger' = ledger \/ \E row : ledger' = Append(ledger, row) /\ row.type \notin SaleTypes

SalesNameOrders ==
    \A n \in DOMAIN ledger : ledger[n].type \in SaleTypes => ledger[n].ref \in DOMAIN orders

StockInv ==
    /\ StockConserved
    /\ \A p \in Packages : InitPackage[p].stock >= 0 => pkgs[p].stock >= 0
    /\ SalesNameOrders
    /\ edit = {}

\* A purchase or a renewal takes one unit of the stock and posts one row of a sale
LEMMA SellIsASale ==
    ASSUME NEW u, NEW p, NEW type \in SaleTypes, NEW key, NEW t,
           Sellable(u, p), Sell(u, p, type, key, t)
    PROVE  p \in Packages /\ Sale(p)
<1> DEFINE order == [user |-> u, pkg |-> p, price |-> pkgs[p].price,
                     key |-> key, back |-> 0, status |-> "success"]
           entry == [user |-> u, amount |-> -pkgs[p].price, type |-> type,
                     balance |-> points[u] + (-pkgs[p].price), ref |-> Len(orders) + 1]
<1>1. orders' = Append(orders, order) /\ ledger' = Append(ledger, entry)
  BY DEF Sell, PlaceOrder, Post
<1>2. order.pkg = p /\ entry.type = type /\ entry.ref = Len(orders) + 1
  OBVIOUS
<1> HIDE DEF order, entry
<1> QED BY <1>1, <1>2 DEF Sellable, Sell, Sale

\* Other rows
LEMMA OtherRows ==
    ASSUME NEW u, NEW amount, NEW type, NEW ref, Post(u, amount, type, ref),
           type \notin SaleTypes
    PROVE  \E row : ledger' = Append(ledger, row) /\ row.type \notin SaleTypes
<1> DEFINE entry == [user |-> u, amount |-> amount, type |-> type,
                     balance |-> points[u] + amount, ref |-> ref]
<1>1. ledger' = Append(ledger, entry) /\ entry.type = type
  BY DEF Post
<1> HIDE DEF entry
<1> QED BY <1>1

\* While no edit form is open, every step takes one unit of stock for one sale, or neither
LEMMA SalesOrQuiet ==
    ASSUME Typed, edit = {}, [Next]_vars
    PROVE  Quiet \/ \E p \in Packages : Sale(p)
<1> DEFINE Still == UNCHANGED <<pkgs, ledger>>
<1>1. Still => Quiet
  BY DEF Quiet
<1>2. ASSUME UNCHANGED pkgs, NEW u, NEW amount, NEW type, NEW ref,
             Post(u, amount, type, ref), type \notin SaleTypes
      PROVE  Quiet
  BY <1>2, OtherRows DEF Quiet
<1>3. "adjust" \notin SaleTypes /\ "refund" \notin SaleTypes /\ "admin_grant" \notin SaleTypes
  BY DEF SaleTypes
<1>4. "purchase" \in SaleTypes /\ "auto_renew" \in SaleTypes
  BY DEF SaleTypes
<1>5. ASSUME UNCHANGED ledger, NEW p, NEW on,
             pkgs' = [pkgs EXCEPT ![p].enabled = on]
      PROVE  Quiet
  BY <1>5 DEF Quiet, Typed, ShopTypeOK, PackageRow
<1>6. ASSUME NEW o, NEW mode, RefundTx(o, mode), UNCHANGED pkgs PROVE Quiet
  BY <1>2, <1>3, <1>6 DEF RefundTx
<1> HIDE DEF Still
<1>7. CASE UNCHANGED vars
  BY <1>1, <1>7 DEF vars, book, Still
<1>8. CASE ShopStep
  <2>1. ASSUME NEW r \in reqs, PurchaseSold(r) PROVE \E p \in Packages : Sale(p)
    BY <1>4, <2>1, SellIsASale DEF PurchaseSold
  <2>2. ASSUME NEW r \in reqs, PurchaseRefused(r) \/ PurchaseReplayed(r) PROVE Still
    BY <2>2 DEF PurchaseRefused, PurchaseReplayed, book, Still
  <2>3. ASSUME NEW u, NEW p, NEW k, ShopOpen(u, p, k) PROVE Still
    BY <2>3 DEF ShopOpen, book, Still
  <2> QED BY <1>1, <1>8, <2>1, <2>2, <2>3 DEF ShopStep
<1>9. CASE AccountStep
  <2>1. ASSUME NEW g \in grant, AssignPackage(g) PROVE Quiet
    BY <1>2, <1>3, <2>1 DEF AssignPackage
  <2>2. ASSUME NEW u, NEW a, AdjustPoints(u, a) PROVE Quiet
    BY <1>2, <1>3, <2>2 DEF AdjustPoints, shop
  <2>3. ASSUME NEW o, NEW m, RefundOrder(o, m) PROVE Quiet
    BY <1>6, <2>3 DEF RefundOrder, shop
  <2> QED BY <1>1, <1>9, <2>1, <2>2, <2>3 DEF AccountStep, AssignOpen, DeleteBucket,
          AdjustBucketTraffic, SetPlanAutoRenew, book, Still
<1>10. CASE PeriodStep \/ UserStep \/ Tick
  BY <1>1, <1>10 DEF PeriodStep, SetLineAdvance, SetLineMonthlyQuota, ConvertLineToPeriodic,
     UserStep, AddBucketUsage, VisitOpen, VisitReset, VisitAdvance, Tick, book, Still
<1>11. CASE PackageStep
  <2>1. ASSUME NEW p, EnablePackage(p) PROVE Quiet
    BY <1>5, <2>1 DEF EnablePackage, book
  <2>2. ASSUME NEW r, RetireFinish(r) PROVE Quiet
    BY <1>5, <2>2 DEF RetireFinish, book
  <2>3. ASSUME NEW r, RetireRefund(r) PROVE Quiet
    BY <1>6, <2>3 DEF RetireRefund
  <2> QED BY <1>1, <1>11, <2>1, <2>2, <2>3 DEF PackageStep, EditOpen, RetireStart, RetireNextHolder,
          RetireSkip, RetireClear, RetireClearFailed, book, Still
<1>12. CASE SweepStep
  <2>1. ASSUME NEW w, SweepRenew(w) PROVE \E p \in Packages : Sale(p)
    BY <1>4, <2>1, SellIsASale DEF SweepRenew
  <2> QED BY <1>1, <1>12, <2>1 DEF SweepStep, SweepBegin, SweepNextPhase, SweepAdvance, SweepReset,
          SweepRenewSkipped, SweepFailed, book, Still
<1> QED BY <1>7, <1>8, <1>9, <1>10, <1>11, <1>12 DEF Next

\* No order is lost, and none changes its package
LEMMA OrdersKeepPackages ==
    ASSUME Typed, [Next]_vars
    PROVE  \A o \in DOMAIN orders : o \in DOMAIN orders' /\ orders'[o].pkg = orders[o].pkg
<1>1. ASSUME NEW q \in DOMAIN orders, NEW mode, RefundTx(q, mode), NEW o \in DOMAIN orders
      PROVE  o \in DOMAIN orders' /\ orders'[o].pkg = orders[o].pkg
  <2>1. orders[q] \in OrderRow
    BY OrderTyped DEF Typed
  <2> QED BY <1>1, <2>1 DEF RefundTx, OrderRow
<1> QED BY <1>1, OnlyRefundsEdit DEF OrdersKept

\* The sales of a package, before and after a step
LEMMA SoldQuietly ==
    ASSUME Typed, SalesNameOrders, [Next]_vars, Quiet, NEW p
    PROVE  Sold(p)' = Sold(p) /\ SalesNameOrders'
<1>1. ledger \in Seq(LedgerRow) /\ Len(ledger) \in Nat /\ DOMAIN ledger = 1..Len(ledger)
  BY DEF Typed, BookTypeOK
<1>2. \A o \in DOMAIN orders : o \in DOMAIN orders' /\ orders'[o].pkg = orders[o].pkg
  BY OrdersKeepPackages
<1>3. CASE ledger' = ledger
  BY <1>2, <1>3 DEF Sold, SalesNameOrders, SaleTypes
<1>4. ASSUME NEW row, ledger' = Append(ledger, row), row.type \notin SaleTypes
      PROVE  Sold(p)' = Sold(p) /\ SalesNameOrders'
  <2>1. /\ DOMAIN ledger' = 1..(Len(ledger) + 1) /\ ledger'[Len(ledger) + 1] = row
        /\ \A n \in 1..Len(ledger) : ledger'[n] = ledger[n]
    BY <1>1, <1>4
  <2>2. \A n \in DOMAIN ledger' : n \in DOMAIN ledger \/ ledger'[n] = row
    BY <1>1, <2>1
  <2>3. DOMAIN ledger \subseteq DOMAIN ledger'
    BY <1>1, <2>1
  <2> QED BY <1>1, <1>2, <1>4, <2>1, <2>2, <2>3 DEF Sold, SalesNameOrders, SaleTypes
<1> QED BY <1>3, <1>4 DEF Quiet

\* A sale adds one row to those of its package and none to those of the others
LEMMA SoldBySale ==
    ASSUME Typed, SalesNameOrders, [Next]_vars, NEW s \in Packages, Sale(s), NEW p
    PROVE  /\ SalesNameOrders'
           /\ Sold(p)' = IF p = s THEN Sold(p) \cup {Len(ledger) + 1} ELSE Sold(p)
           /\ Len(ledger) + 1 \notin Sold(p)
<1>1. ledger \in Seq(LedgerRow) /\ Len(ledger) \in Nat /\ DOMAIN ledger = 1..Len(ledger)
  BY DEF Typed, BookTypeOK
<1>2. \A o \in DOMAIN orders : o \in DOMAIN orders' /\ orders'[o].pkg = orders[o].pkg
  BY OrdersKeepPackages
<1> DEFINE new == Len(ledger) + 1
<1>3. PICK row : ledger' = Append(ledger, row) /\ row.type \in SaleTypes /\ row.ref = Len(orders) + 1
  BY DEF Sale
<1>4. PICK order : orders' = Append(orders, order) /\ order.pkg = s
  BY DEF Sale
<1>5. Len(orders) + 1 \in DOMAIN orders' /\ orders'[Len(orders) + 1] = order
  BY <1>4 DEF Typed, BookTypeOK
<1>6. /\ DOMAIN ledger' = DOMAIN ledger \cup {new} /\ ledger'[new] = row
      /\ \A n \in DOMAIN ledger : ledger'[n] = ledger[n]
      /\ new \notin DOMAIN ledger
  BY <1>1, <1>3
<1> HIDE DEF new
<1>7. SalesNameOrders'
  BY <1>2, <1>3, <1>5, <1>6 DEF SalesNameOrders
<1>8. Sold(p)' = IF p = s THEN Sold(p) \cup {new} ELSE Sold(p)
  <2>1. \A n \in DOMAIN ledger' :
           n \in Sold(p)' <=> n \in Sold(p) \/ (n = new /\ p = s)
    BY <1>2, <1>3, <1>4, <1>5, <1>6 DEF Sold, SalesNameOrders, SaleTypes
  <2>2. Sold(p)' \subseteq DOMAIN ledger' /\ Sold(p) \subseteq DOMAIN ledger'
    BY <1>6 DEF Sold
  <2> QED BY <1>6, <2>1, <2>2
<1>9. new \notin Sold(p)
  BY <1>6 DEF Sold
<1> QED BY <1>7, <1>8, <1>9 DEF new

\* The sales of a package can be counted
LEMMA SoldIsFinite ==
    ASSUME Typed, NEW p
    PROVE  IsFiniteSet(Sold(p)) /\ Cardinality(Sold(p)) \in Nat
<1>1. Len(ledger) \in Nat /\ Sold(p) \subseteq 1..Len(ledger)
  BY DEF Typed, BookTypeOK, Sold
<1>2. IsFiniteSet(1..Len(ledger))
  BY <1>1, FS_Interval
<1>3. IsFiniteSet(Sold(p))
  BY <1>1, <1>2, FS_Subset
<1> QED BY <1>3, FS_CardinalityType

\* Every step keeps stock and sales reconciled
LEMMA StockStays ==
    ASSUME "edit" \notin Exercised, Typed, StockInv, [Next]_vars
    PROVE  StockInv'
<1>1. edit' = {}
  BY DEF StockInv, Next, vars, shop, ShopStep, ShopOpen, PurchaseRefused, PurchaseReplayed,
     PurchaseSold, Answer, AccountStep, AssignOpen, AssignPackage, AdjustPoints, RefundOrder,
     DeleteBucket, AdjustBucketTraffic, SetPlanAutoRenew, PeriodStep, SetLineAdvance,
     SetLineMonthlyQuota, ConvertLineToPeriodic, UserStep, AddBucketUsage, VisitOpen, VisitReset,
     VisitAdvance, PackageStep, EditOpen, EnablePackage, RetireStart, EditSave, RetireNextHolder,
     RetireRefund, RetireSkip, RetireClear, RetireClearFailed, RetireFinish, SweepStep, SweepBegin,
     SweepNextPhase, SweepAdvance, SweepReset, SweepRenew, SweepRenewSkipped, SweepFailed, Tick
<1>2. CASE Quiet /\ Packages # {}
  <2>1. \A p \in Packages : Sold(p)' = Sold(p) /\ SalesNameOrders'
    BY <1>2, SoldQuietly DEF StockInv
  <2> QED BY <1>1, <1>2, <2>1 DEF StockInv, Quiet, StockConserved
<1>3. CASE Quiet /\ Packages = {}
  <2>1. SalesNameOrders'
    BY <1>3, SoldQuietly DEF StockInv
  <2> QED BY <1>1, <1>3, <2>1 DEF StockInv, StockConserved
<1>4. ASSUME NEW s \in Packages, Sale(s) PROVE StockInv'
  <2>1. SalesNameOrders'
    BY <1>4, SoldBySale DEF StockInv
  <2>2. ASSUME NEW p \in Packages
        PROVE  /\ pkgs'[p].stock = IF InitPackage[p].stock < 0 THEN InitPackage[p].stock
                                   ELSE InitPackage[p].stock - Cardinality(Sold(p)')
               /\ InitPackage[p].stock >= 0 => pkgs'[p].stock >= 0
    <3>1. /\ InitPackage[p].stock \in Int /\ pkgs[p].stock \in Int
          /\ pkgs[p].stock = IF InitPackage[p].stock < 0 THEN InitPackage[p].stock
                             ELSE InitPackage[p].stock - Cardinality(Sold(p))
          /\ InitPackage[p].stock >= 0 => pkgs[p].stock >= 0
      BY PackagesAssumption DEF StockInv, StockConserved, Typed, ShopTypeOK, PackageRow
    <3>2. IsFiniteSet(Sold(p)) /\ Cardinality(Sold(p)) \in Nat
      BY SoldIsFinite
    <3>3. CASE p # s
      <4>1. pkgs'[p].stock = pkgs[p].stock
        BY <1>4, <3>3 DEF Sale, Typed, ShopTypeOK
      <4>2. Sold(p)' = Sold(p)
        BY <1>4, <3>3, SoldBySale DEF StockInv
      <4> QED BY <3>1, <4>1, <4>2
    <3>4. CASE p = s
      <4>1. /\ pkgs'[p].stock = IF pkgs[p].stock > 0 THEN pkgs[p].stock - 1 ELSE pkgs[p].stock
            /\ pkgs[p].stock # 0
        BY <1>4, <3>4 DEF Sale, Typed, ShopTypeOK, PackageRow
      <4>2. Sold(p)' = Sold(p) \cup {Len(ledger) + 1} /\ Len(ledger) + 1 \notin Sold(p)
        BY <1>4, <3>4, SoldBySale DEF StockInv
      <4>3. Cardinality(Sold(p)') = Cardinality(Sold(p)) + 1
        BY <3>2, <4>2, FS_AddElement
      <4> QED BY <3>1, <3>2, <4>1, <4>3
    <3> QED BY <3>3, <3>4
  <2> QED BY <1>1, <2>1, <2>2 DEF StockInv, StockConserved
<1> QED BY <1>2, <1>3, <1>4, SalesOrQuiet DEF StockInv

\* Nothing is oversold, whatever stale stock the requests hold: units sold and units left
\* add up to the starting stock, as long as no edit form writes an old stock back
THEOREM StockIsConserved ==
    ASSUME "edit" \notin Exercised
    PROVE  Spec => []StockConserved
<1>1. Init => StockInv
  <2> SUFFICES ASSUME Init PROVE StockInv
    OBVIOUS
  <2>1. DOMAIN ledger = {} /\ edit = {} /\ pkgs = InitPackage
    BY DEF Init
  <2>2. \A p \in Packages : Cardinality(Sold(p)) = 0
    BY <2>1, FS_EmptySet DEF Sold
  <2>3. \A p \in Packages : InitPackage[p].stock \in Int
    BY PackagesAssumption DEF PackageRow
  <2> QED BY <2>1, <2>2, <2>3 DEF StockInv, StockConserved, SalesNameOrders
<1>2. Typed /\ StockInv /\ [Next]_vars => StockInv'
  BY StockStays
<1>3. StockInv => StockConserved
  BY DEF StockInv
<1> QED BY <1>1, <1>2, <1>3, BookIsTyped, PTL DEF Spec
=============================================================================
