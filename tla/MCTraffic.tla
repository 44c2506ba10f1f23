----------------------------- MODULE MCTraffic -----------------------------
(* Instances of the traffic ledger for TLC.                                  *)
EXTENDS TrafficProperties, TLC

CONSTANTS u1, n1, b1, b2

OwnersOne == {u1, None}

\* Two accounts of one user, or an account beside a shared relay or beside a line
Account == [hop |-> "", customer |-> u1, bucket |-> None]
Beside(entry) == [n \in Names |-> IF n = n1 THEN Account ELSE entry]
Registries2 ==
  {Beside(Account), Beside([hop |-> "legacy_here", customer |-> None, bucket |-> None]),
   Beside([Account EXCEPT !.bucket = b2])}

PanelSymmetry == Permutations(Panels)

Spent(n) == MapThenSumSet(LAMBDA e : total[e][n], Epochs)
Busy == {p \in Panels : panels[p].pc # "idle"}
Others == {n \in Names \ {n1} : Spent(n) > 0}

\* One thing at a time: two panels at once, two accounts at once, or a longer
\* history of one counter whose name or plan may change.
Focus ==
  /\ Spent(n1) <= 3
  /\ Busy = Panels =>
       /\ Others = {} /\ Spent(n1) <= 1
       /\ registry[n1] = Account /\ entitled[u1] = b1
  /\ Others # {} =>
       /\ core.epoch = 1 /\ sequence <= 2 /\ registry[n1] = Account
       /\ \A n \in Names : Spent(n) <= 1
  /\ Others = {} =>
       /\ entitled[u1] # b2
       /\ \E r \in Registries : \A n \in Names \ {n1} : registry[n] = r[n]
=============================================================================
