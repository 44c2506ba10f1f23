------------------------- MODULE TrafficProperties -------------------------
(* What must hold of the traffic ledger.                                     *)
EXTENDS TrafficLedger, FiniteSetsExt

\* The bytes that passed: the first, the second, ... of a name in a process
Moved ==
  {x \in (Names \X Epochs) \X (1..MaxBytes) : x[2] <= total[x[1][2]][x[1][1]]}

Billed == {c \in charges : c.bucket # None}

PaidBy ==
  [x \in UNION {Bytes(c) : c \in Billed} |->
     (CHOOSE c \in Billed : x \in Bytes(c)).bucket]

\* The journal implements the quota book: however readings are lost, repeated,
\* processed late or partly retried, whichever panel holds the lease and whenever
\* the proxy restarts, a byte is debited to one bucket, once (processTrafficPoll,
\* processTrafficIdentity and the lease of collectTrafficSnapshot).
Book == INSTANCE QuotaBook WITH moved <- Moved, paidBy <- PaidBy
ChargesOnce == Book!Spec

\* Nothing under way: no reading unsent, unanswered, unstored or unprocessed
Quiet ==
  /\ \A p \in Panels : panels[p].pc = "idle"
  /\ wire = {}
  /\ \A s \in Sequences : polls[s].state # "pending"

Observed(n) ==
  MapThenSumSet(LAMBDA c : c.hi - c.lo, {c \in charges : c.name = n})

\* What the next reading of this process would still report
Waiting(n) ==
  core.count[n] - IF meter.mode = "cumulative" THEN cursors[n][core.epoch].at ELSE 0

\* A panel outlived its lease before it stored the switch, which RecordTrafficPoll does
\* without looking at lease or mode, and its successor's destructive reading is numbered
\* after it: that may leave the machine without a known process, so that the next
\* restart goes unnoticed
Straggled ==
  \E r, s \in Sequences :
    /\ r < s /\ polls[r].state # "none" /\ polls[s].state # "none"
    /\ polls[r].transition /\ polls[s].mode = "reset"

\* A byte that no reading accounts for is announced: with no gap on record, and
\* the last reading taken from the running process, every byte that passed was
\* observed, waits in the counter, or was lost with a process in reset mode
\* (trafficGap, BeginTrafficReset, RecordTrafficBoundaryGap).
LossIsAnnounced ==
  (/\ Quiet /\ gaps = {} /\ ~Straggled
   /\ meter.mode = "cumulative" => meter.epoch = core.epoch) =>
    \A n \in Names :
      Observed(n) + unmetered[n] + Waiting(n) =
        MapThenSumSet(LAMBDA e : total[e][n], Epochs)

\* The bucket that the name of a charge itself named when its reading was stored
Own(c) == polls[c.poll].bound[c.name].own

\* The accounts of one user in one reading debit one bucket, also when the second
\* is charged by a retry after the user's plan changed (processTrafficPoll freezes
\* the bucket outside the savepoints); and a name that named its bucket when the
\* reading was stored debits that one, whatever its line or its customer has come to
\* by the time of the charge (bindTrafficIdentity).
OneBucketPerReading ==
  /\ \A c \in Billed : Own(c) # None => c.bucket = Own(c)
  /\ \A c, d \in Billed :
       c.poll = d.poll /\ c.user = d.user /\ Own(c) = None /\ Own(d) = None =>
         c.bucket = d.bucket

\* A later reading never takes the interval of an earlier one that is still to be
\* charged to the owner it was stored with (the pending check of
\* processTrafficIdentity).
EarlierReadingKeepsItsBytes ==
  [][\A c \in charges' \ charges : \A s \in 1..(c.poll - 1) :
        (/\ polls[s].state = "pending" /\ polls[s].mode = "cumulative"
         /\ polls[s].born = c.epoch /\ c.name \notin polls[s].seen)
        => polls[s].top[c.name] <= c.lo]_vars
=============================================================================
