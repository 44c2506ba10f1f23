----------------------------- MODULE PointCodes -----------------------------
(* Codes that are worth points: printed in batches, disabled in batches,     *)
(* redeemed by members under a lockout that wrong guesses build up.  Each    *)
(* operation is one immediate transaction; the hazard is the order of many.  *)
(* The rate limit in front of the handler, notes and hints are left out.     *)
EXTENDS Integers, FiniteSets, Sequences

CONSTANTS
  Users,      \* members
  Codes,      \* codes that may be printed
  Worth,      \* what a code of a batch may be worth
  Limit,      \* wrong guesses that lock a member out
  Lock,       \* how long the lock lasts
  MaxBalance, \* the largest balance the column holds
  Horizon,    \* bound on time
  None

VARIABLES
  code,       \* [Codes -> the row of point_codes, or None]
  attempt,    \* [Users -> the row of point_code_attempts, or None]
  balance,    \* [Users -> points]
  banned,     \* members whose status is not active
  ledger,     \* 'redeem' rows of point_transactions, in order
  wrong,      \* [Users -> times of the guesses judged wrong since the last good one]
  now

vars == <<code, attempt, balance, banned, ledger, wrong, now>>

Printed == {c \in Codes : code[c] # None}
-----------------------------------------------------------------------------
\* A batch is inserted whole or not at all
GeneratePointCodes ==
  \E batch \in SUBSET (Codes \ Printed) \ {{}}, points \in Worth, days \in 1..2 :
    /\ code' = [c \in Codes |-> IF c \in batch
                  THEN [points |-> points, expires |-> now + days, disabled |-> FALSE, by |-> None]
                  ELSE code[c]]
    /\ UNCHANGED <<attempt, balance, banned, ledger, wrong, now>>

\* A used code stays used; a batch with a bad number disables nothing
DisablePointCodes ==
  \E ids \in SUBSET Printed \ {{}} :
    /\ code' = [c \in Codes |-> IF c \in ids /\ code[c].by = None
                                 THEN [code[c] EXCEPT !.disabled = TRUE] ELSE code[c]]
    /\ UNCHANGED <<attempt, balance, banned, ledger, wrong, now>>

\* Failures counted so far: a lock that has passed wipes them
Failures(u) ==
  IF attempt[u] = None \/ attempt[u].until > 0 THEN 0 ELSE attempt[u].failures

\* An active member whose lock, if any, has passed
Admitted(u) == u \notin banned /\ (attempt[u] # None => attempt[u].until <= now)

\* Mutant: a used code is refused by its disabled mark only
PayableAgain(c) == c \in Printed /\ ~code[c].disabled /\ code[c].expires > now

Payable(c) == /\ c \in Printed
              /\ code[c].by = None /\ ~code[c].disabled /\ code[c].expires > now

\* A guess that is judged wrong: the member is locked out at the limit
Fail(u) ==
  LET n == Failures(u) + 1 IN
    /\ attempt' = [attempt EXCEPT ![u] =
         [failures |-> n, until |-> IF n >= Limit THEN now + Lock ELSE 0]]
    /\ wrong' = [wrong EXCEPT ![u] = Append(@, now)]

GuessWrong(u) ==
  /\ Admitted(u)
  /\ Fail(u)
  /\ UNCHANGED <<code, balance, banned, ledger, now>>

\* Missing, used, disabled and expired count alike; points that would not fit in
\* the balance are refused without cost; all of the rest is one transaction
RedeemPointCode(u, c) ==
  /\ Admitted(u)
  /\ IF ~Payable(c) THEN Fail(u) /\ UNCHANGED <<code, balance, ledger>>
     ELSE /\ balance[u] + code[c].points <= MaxBalance
          /\ balance' = [balance EXCEPT ![u] = @ + code[c].points]
          /\ code' = [code EXCEPT ![c].by = u]
          /\ ledger' = Append(ledger, [user |-> u, code |-> c, amount |-> code[c].points,
                                       after |-> balance'[u]])
          /\ attempt' = [attempt EXCEPT ![u] = None]
          /\ wrong' = [wrong EXCEPT ![u] = <<>>]
  /\ UNCHANGED <<banned, now>>

\* The administrator bans and lets in again
SetStatus ==
  \E u \in Users :
    /\ banned' = IF u \in banned THEN banned \ {u} ELSE banned \cup {u}
    /\ UNCHANGED <<code, attempt, balance, ledger, wrong, now>>

Tick == now < Horizon /\ now' = now + 1
        /\ UNCHANGED <<code, attempt, balance, banned, ledger, wrong>>

Init ==
  /\ code = [c \in Codes |-> None] /\ attempt = [u \in Users |-> None]
  /\ balance = [u \in Users |-> 0] /\ banned = {} /\ ledger = <<>>
  /\ wrong = [u \in Users |-> <<>>] /\ now = 0

Next ==
  \/ GeneratePointCodes \/ DisablePointCodes \/ SetStatus \/ Tick
  \/ \E u \in Users : GuessWrong(u) \/ \E c \in Codes : RedeemPointCode(u, c)

Spec == Init /\ [][Next]_vars
-----------------------------------------------------------------------------
\* The newest row of a member names the balance
LastRowSays(u) ==
  \/ balance[u] = 0 /\ \A i \in DOMAIN ledger : ledger[i].user # u
  \/ \E i \in DOMAIN ledger :
       /\ ledger[i].user = u /\ ledger[i].after = balance[u]
       /\ \A k \in DOMAIN ledger : ledger[k].user = u => k <= i

\* A code pays once and to one member, the balance and the audit rows say the same,
\* and nobody can try codes faster than the lockout lets them: any Limit + 1 wrong
\* guesses without a good one between them span a whole lock, whatever bans, other
\* members' guesses and batches happened on the way.
CodesPayOnce ==
  /\ \A i, k \in DOMAIN ledger : ledger[i].code = ledger[k].code => i = k
  /\ \A i \in DOMAIN ledger : code[ledger[i].code].by = ledger[i].user
  /\ \A c \in Printed : code[c].by # None => \E i \in DOMAIN ledger : ledger[i].code = c
  /\ \A u \in Users : LastRowSays(u)
  /\ \A u \in Users : \A i \in 1..(Len(wrong[u]) - Limit) : wrong[u][i + Limit] - wrong[u][i] >= Lock
=============================================================================
