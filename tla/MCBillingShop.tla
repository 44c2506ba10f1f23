----------------------------- MODULE MCBillingShop -----------------------------
(* Two accounts compete for the last units of a plan, retrying with an       *)
(* idempotency key; an administrator credits balances and refunds orders     *)
(* meanwhile, so that a buyer may come back for more than is left.           *)
EXTENDS BillingProperties, TLC

MCUsers == {1, 2}
MCPackages == {1}

MCCatalog == [p \in MCPackages |->
    [type |-> "plan", traffic |-> 2, dur |-> 2, monthly |-> FALSE, advance |-> FALSE]]

MCInitPackage == [p \in MCPackages |->
    [enabled |-> TRUE, stock |-> 2, price |-> 2, line |-> "basic"]]

MCInitPoints == [u \in MCUsers |-> 2]
MCMayBuy == [p \in MCPackages |-> MCUsers]

\* An administrator's top-up is looked at once, beside one order
ToppedUp == {i \in DOMAIN buckets : buckets[i].limit > Catalog[1].traffic}
Focus ==
    \A i \in ToppedUp : /\ buckets[i].limit <= Catalog[1].traffic + 1
                        /\ Len(orders) <= 1 /\ reqs = {}
=============================================================================
