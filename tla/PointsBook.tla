------------------------------ MODULE PointsBook ------------------------------
(* What the panel promises about points, without packages, queues or time:   *)
(* nobody is charged beyond the balance, a receipt is settled once, a refund *)
(* pays back to the payer at most what was paid, and nothing else moves      *)
(* points but an administrator's adjustment.                                 *)
EXTENDS Integers, Sequences

CONSTANTS Accounts, Opening
VARIABLES balance, receipts

Init == balance = Opening /\ receipts = <<>>

Move(u, amount) == balance' = [balance EXCEPT ![u] = balance[u] + amount]

\* A purchase, a renewal, or a free grant at price 0
Charge(u, price) ==
    /\ price <= balance[u]
    /\ Move(u, -price)
    /\ receipts' = Append(receipts, [user |-> u, price |-> price, back |-> 0,
                                     status |-> "success"])

Refund(r, amount) ==
    /\ receipts[r].status = "success"
    /\ Move(receipts[r].user, amount)
    /\ receipts' = [receipts EXCEPT ![r].status = "refunded", ![r].back = amount]

Adjust(u) ==
    /\ balance'[u] >= 0
    /\ balance' = [balance EXCEPT ![u] = balance'[u]]
    /\ UNCHANGED receipts

Next ==
    \/ \E u \in Accounts : \E price \in 0..balance[u] : Charge(u, price)
    \/ \E r \in DOMAIN receipts : \E amount \in 0..receipts[r].price : Refund(r, amount)
    \/ \E u \in Accounts : Adjust(u)

Spec == Init /\ [][Next]_<<balance, receipts>>
=============================================================================
