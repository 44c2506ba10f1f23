-------------------------- MODULE MCBillingScenarios --------------------------
(* Four small shops, one of which a behaviour plays:                         *)
(*   retirement  two accounts buy and use a plan that an administrator       *)
(*               retires and puts back on sale; what belongs to the first may*)
(*               fail                                                        *)
(*   periods     a plan that refills every two days and may borrow from its  *)
(*               next period, with a second share of it waiting behind       *)
(*   catalog     a lump-sum and a monthly plan end up in one renewal line,   *)
(*               are repriced, converted and given other quotas while in use *)
(*   accounts    a short plan, shared traffic and a free allowance: renewal is*)
(*               switched while orders are granted, refunded and renewed and an*)
(*               administrator cuts the limits                               *)
EXTENDS Integers, TLC

CONSTANT NoKey

VARIABLES scenario, now, pkgs, points, orders, ledger, buckets, nextBucket,
          mirror, reqs, grant, answer, edit, sweep, retire, visit

billing == <<now, pkgs, points, orders, ledger, buckets, nextBucket, mirror,
             reqs, grant, answer, edit, sweep, retire, visit>>

\* What the shops share, unless one says otherwise
Users == {1}
Packages == {1}
MayBuy == [p \in 1..2 |-> 1..2]
PeriodDays == 2
RefundMode == "prorated"
RefundBasis == "min"
FeePercent == 0
Keys == {}
MayFail == {}
PointAmounts == {}
TrafficDeltas == {}
UsageDeltas == {1}
NewPrices == {}
NewLines == {}
NewQuotas == {}
StartTime == 10
MaxLedger == 0
MaxOverrun == 0
MaxFreeUse == 1
MaxLate == 0
MaxSweepLag == 1
MaxInFlight == 0

Plan(traffic, dur, monthly, advance) ==
    [type |-> "plan", traffic |-> traffic, dur |-> dur,
     monthly |-> monthly, advance |-> advance]
Offer(stock, price, line) ==
    [enabled |-> TRUE, stock |-> stock, price |-> price, line |-> line]

Retirement == INSTANCE BillingProperties WITH
    Users <- {1, 2}, MayBuy <- [p \in Packages |-> {1, 2}],
    Catalog <- [p \in Packages |-> Plan(2, 2, FALSE, FALSE)],
    InitPackage <- [p \in Packages |-> Offer(2, 2, "basic")],
    InitPoints <- [u \in {1, 2} |-> 2], MayFail <- {1},
    Exercised <- {"refund", "retire", "enable"},
    MaxTime <- 10, MaxOrders <- 3, MaxOverrun <- 1, MaxLate <- 2,
    MaxSweepLag <- 2, MaxInFlight <- 1

Periods == INSTANCE BillingProperties WITH
    Catalog <- [p \in Packages |-> Plan(2, 4, TRUE, TRUE)],
    InitPackage <- [p \in Packages |-> Offer(-1, 2, "monthly")],
    InitPoints <- [u \in Users |-> 0],
    Exercised <- {"assign", "borrow", "sweep", "read"},
    MaxTime <- 15, MaxOrders <- 2

Catalogue == INSTANCE BillingProperties WITH
    Packages <- {1, 2}, PeriodDays <- 1,
    Catalog <- (1 :> Plan(2, 1, FALSE, FALSE)) @@ (2 :> Plan(2, 2, TRUE, FALSE)),
    InitPackage <- (1 :> Offer(-1, 1, "a")) @@ (2 :> Offer(-1, 1, "b")),
    InitPoints <- [u \in Users |-> 2],
    Exercised <- {"edit", "convert", "sweep"},
    NewPrices <- {1}, NewLines <- {"a"}, NewQuotas <- {2},
    MaxTime <- 11, MaxOrders <- 2, MaxInFlight <- 1

Accounts == INSTANCE BillingProperties WITH
    Packages <- {1, 2},
    Catalog <- (1 :> Plan(1, 1, FALSE, FALSE)) @@
               (2 :> [Plan(1, 0, FALSE, FALSE) EXCEPT !.type = "traffic"]),
    InitPackage <- (1 :> Offer(-1, 1, "basic")) @@ (2 :> Offer(-1, 1, "traffic")),
    InitPoints <- [u \in Users |-> 1], TrafficDeltas <- {-1},
    Exercised <- {"assign", "renewal", "refund", "sweep", "free"},
    MaxTime <- 11, MaxOrders <- 2

Init ==
    \/ scenario = "retirement" /\ Retirement!Init
    \/ scenario = "periods" /\ Periods!Init
    \/ scenario = "catalog" /\ Catalogue!Init
    \/ scenario = "accounts" /\ Accounts!Init

Next ==
    /\ \/ scenario = "retirement" /\ Retirement!Next
       \/ scenario = "periods" /\ Periods!Next
       \/ scenario = "catalog" /\ Catalogue!Next
       \/ scenario = "accounts" /\ Accounts!Next
    /\ UNCHANGED scenario

Spec == Init /\ [][Next]_<<scenario, billing>>
------------------------------------------------------------------------------
\* Each property is stated, with the code behaviour it is about, in
\* BillingProperties; here it is asked of the shop that exercises it

\* The retirement loop visits every account that still holds the package
RetireReachesEveryHolder ==
    [][scenario = "retirement" => Retirement!EndsAtEveryHolder]_billing

\* Traffic borrowed from the next period is paid back across rollovers
BorrowingIsRepaid == scenario = "periods" => Periods!BorrowingIsRepaid

\* Metered usage is never forgotten by a rollover, a handover or a conversion
UsageIsKept ==
    [][/\ scenario = "periods" => Periods!CarriesUsage
       /\ scenario = "catalog" => Catalogue!CarriesUsage]_billing

\* Held buckets follow a package that is moved to another renewal line
LineFollowsPackage == scenario = "catalog" => Catalogue!LineFollowsPackage

\* The two writers of the users.* aggregate agree after every step, in each shop
MirrorAgrees ==
    /\ (scenario = "retirement" => Retirement!MirrorAgrees)
    /\ (scenario = "periods" => Periods!MirrorAgrees)
    /\ (scenario = "catalog" => Catalogue!MirrorAgrees)
    /\ (scenario = "accounts" => Accounts!MirrorAgrees)
=============================================================================
