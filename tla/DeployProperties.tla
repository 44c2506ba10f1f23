-------------------------- MODULE DeployProperties --------------------------
(* What the configuration controller promises about the machines it deploys  *)
(* to                                                                        *)
EXTENDS Deploy

\* A request for all machines is reported done only if every machine has a file
\* at least as new as the edits the request was made for (the watermark of
\* runTrackedRebuild), unless the pass could not list the machines
OkMeansDeployed ==
  [][status'[All].state = "ok" /\ status'[All] # status[All] /\ ~unlisted =>
       \A i \in DOMAIN asked :
         asked[i].target = All /\ asked[i].rev <= status'[All].req =>
           \A n \in Nodes : node[n].file >= asked[i].edits[n]]_vars

\* A machine newly reported done runs the file it has; what the panel forgot in a
\* crash, or what no error told it, is exempt
OkMeansRunning ==
  [][\A n \in Nodes :
       status'[n].state = "ok" /\ pass'.at[n] # pass.at[n] /\ status'[n].rev # status[n].rev /\ n \notin unsure' =>
         node'[n].run = node'[n].file /\ node'[n].up]_vars

\* An open circuit is on record for the administrator, or about to be, although
\* one write of the alert may fail: the ordinary sample that follows the decision
\* makes up for it
OpenIsOnRecord ==
  \A n \in Nodes :
    memory[n].open /\ budget.faults < 2 =>
      alert[n] \/ \E i \in DOMAIN events : events[i].n = n /\ events[i].kind # "recovered"

\* Every queued request is answered in the end: the outcome of a pass that began
\* after it, or the panel restarted and the queue is gone
EveryRequestIsServed ==
  \A i \in 1..MaxPasses :
    Len(asked) >= i ~>
      \/ Len(asked) < i
      \/ LET st == status[asked[i].target] IN
           /\ st.state \in {"ok", "failed"}
           /\ IF asked[i].target = All THEN st.req >= asked[i].rev ELSE st.rev > asked[i].rev
=============================================================================
