-------------------------- MODULE MCBillingRetirement --------------------------
(* Two accounts buy and use a plan that an administrator retires and puts    *)
(* back on sale; what belongs to the first account may fail.                 *)
EXTENDS BillingProperties, TLC

MCUsers == {1, 2}
MCPackages == {1}

MCCatalog == [p \in MCPackages |->
    [type |-> "plan", traffic |-> 2, dur |-> 2, monthly |-> FALSE, advance |-> FALSE]]

MCInitPackage == [p \in MCPackages |->
    [enabled |-> TRUE, stock |-> 2, price |-> 2, line |-> "basic"]]

MCInitPoints == [u \in MCUsers |-> 2]
MCMayBuy == [p \in MCPackages |-> MCUsers]
=============================================================================
