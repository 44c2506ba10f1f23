------------------------------ MODULE QuotaBook ------------------------------
(* What metering promises about money, with no polls, cursors, leases or     *)
(* crashes in sight: bytes pass through the proxy, and each of them is put   *)
(* on the account of at most one bucket, once and for good; a bucket's usage *)
(* is the number of the bytes put on its account.                            *)
EXTENDS Integers, FiniteSets

CONSTANTS Buckets

VARIABLES
  moved,     \* the bytes that passed
  paidBy,    \* the bytes charged, each with the bucket that paid for it
  used       \* what each bucket has been charged

Init ==
  /\ moved = {}
  /\ paidBy = << >>
  /\ used = [b \in Buckets |-> 0]

Traffic ==
  /\ moved \subseteq moved'
  /\ UNCHANGED <<paidBy, used>>

Charge ==
  /\ DOMAIN paidBy \subseteq DOMAIN paidBy'
  /\ DOMAIN paidBy' \subseteq moved
  /\ \A x \in DOMAIN paidBy : paidBy'[x] = paidBy[x]
  /\ used' = [b \in Buckets |-> Cardinality({x \in DOMAIN paidBy' : paidBy'[x] = b})]
  /\ UNCHANGED moved

Next == Traffic \/ Charge

Spec == Init /\ [][Next]_<<moved, paidBy, used>>
=============================================================================
