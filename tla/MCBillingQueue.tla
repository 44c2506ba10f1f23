---------------------------- MODULE MCBillingQueue ----------------------------
(* One account that is given, renews, loses and is refunded the same plan:   *)
(* every promotion and retirement path of one renewal line.                  *)
EXTENDS BillingProperties, TLC

MCUsers == {1}
MCPackages == {1}

MCCatalog == [p \in MCPackages |->
    [type |-> "plan", traffic |-> 2, dur |-> 1, monthly |-> FALSE, advance |-> FALSE]]

MCInitPackage == [p \in MCPackages |->
    [enabled |-> TRUE, stock |-> -1, price |-> 2, line |-> "basic"]]

MCInitPoints == [u \in MCUsers |-> 4]
MCMayBuy == [p \in MCPackages |-> MCUsers]

\* What an administrator does to the package or to one bucket's periods
Administered ==
    \/ edit # {} \/ retire # {}
    \/ pkgs # InitPackage
    \/ \E i \in DOMAIN buckets : buckets[i].pdays > 0

\* ... is looked at while nothing else is under way and one order is placed
Focus ==
    Administered => /\ Len(orders) <= 1 /\ grant = {}
                    /\ sweep = Idle /\ visit = {} /\ now = StartTime
=============================================================================
