--------------------------- MODULE MCBillingLiveness ---------------------------
(* Two accounts share the background sweep and everything of the first one   *)
(* may fail.                                                                 *)
EXTENDS BillingProperties, TLC

MCUsers == {1, 2}
MCPackages == {1}

MCCatalog == [p \in MCPackages |->
    [type |-> "plan", traffic |-> 1, dur |-> 1, monthly |-> FALSE, advance |-> FALSE]]

MCInitPackage == [p \in MCPackages |->
    [enabled |-> TRUE, stock |-> -1, price |-> 1, line |-> "basic"]]

MCInitPoints == [u \in MCUsers |-> 0]
MCMayBuy == [p \in MCPackages |-> MCUsers]
=============================================================================
