------------------------------- MODULE Deploy -------------------------------
(* The configuration controller: what an administrator queues, the one       *)
(* background goroutine that works the queue off, the periodic pass, the     *)
(* three steps in which a configuration reaches a node, and the circuit that *)
(* stops periodic passes on a node that keeps restarting.  The panel may die *)
(* and start again between any two steps; the nodes, their files and the     *)
(* stored alerts survive it.  A configuration is the number of the edit it   *)
(* contains.                                                                 *)
EXTENDS Integers, FiniteSets, Sequences

CONSTANTS
  Nodes,        \* machines, the panel's own among them
  Local,        \* the panel's own machine, and rows that resolve to it
  Panel,        \* server_id 0
  Needs,        \* the machines whose core the relay routes of a machine rest on,
                \* itself among them if it has such a route
  All,          \* AllTarget: a full rebuild
  None,         \* nobody holds the rebuild lock
  Metering,     \* setting relay_metering_enabled
  Threshold,    \* restarts within the window that open the circuit
  QueueSize,    \* restartEventQueue
  MaxEdits,     \* bound on edits of what a configuration depends on
  MaxPasses,    \* bound on requests and periodic passes
  MaxFaults     \* bound on errors, node failures, passed windows and
                \* panel restarts

ASSUME DeployAssumption ==
  /\ IsFiniteSet(Nodes)
  /\ Local \subseteq Nodes /\ Panel \in Local
  /\ Needs \in [Nodes -> SUBSET Nodes]
  /\ All \notin Nodes /\ None \notin {"drain", "loop", "http"}
  /\ Metering \in BOOLEAN
  /\ {Threshold, QueueSize} \subseteq Nat \ {0}

VARIABLES
  wanted,    \* the edit a configuration generated now would contain
  node,      \* each machine: its file, what its process loaded, whether it is up
  fixed,     \* whether the machine runs a core its routes may use
  alert,     \* the unresolved restart_loop alert of a machine
  queue,     \* pendingAll (its revision, or 0) and pendingServer
  seq,       \* statusSeq
  status,    \* syncStatus of every machine and of All
  drain,     \* the drain goroutine
  pass,      \* the pass that holds the rebuild lock
  memory,    \* per machine: desiredHash, visionRetry, restart pending, circuit
  events,    \* restartCh
  tracker,   \* the watcher's count of restarts and of raised alerts
  asked,     \* history: the edits a request of some revision wanted deployed
  unsure,    \* history: machines whose process the panel cannot vouch for
  unlisted,  \* history: the pass of the queue could not list the machines
  budget     \* edits, faults and passes so far

persistent == <<wanted, node, fixed, alert>>
sched == <<queue, seq, status, drain>>
history == <<asked, unsure, unlisted>>
vars == <<persistent, sched, pass, memory, events, tracker, history, budget>>

Targets == Nodes \cup {All}
Unknown == [state |-> "", rev |-> 0, req |-> 0]
NoDrain == [pc |-> "off", target |-> All, req |-> 0, rest |-> {},
            before |-> [n \in Nodes |-> 0], ok |-> TRUE]
NoPass == [by |-> None, full |-> TRUE, force |-> FALSE, ok |-> TRUE, blocked |-> {},
           base |-> [n \in Nodes |-> 0], got |-> [n \in Nodes |-> 0],
           at |-> [n \in Nodes |-> "out"]]
Blank == [desired |-> 0, retry |-> FALSE, pending |-> FALSE, open |-> FALSE, hist |-> 0]
NoTracker == [hist |-> 0, alerted |-> FALSE]

Init ==
  /\ wanted = [n \in Nodes |-> 1]
  /\ node = [n \in Nodes |-> [file |-> 1, run |-> 1, up |-> TRUE]]
  /\ fixed = [n \in Nodes |-> TRUE]
  /\ alert = [n \in Nodes |-> FALSE]
  /\ queue = [all |-> 0, servers |-> {}]
  /\ seq = 0
  /\ status = [t \in Targets |-> Unknown]
  /\ drain = NoDrain
  /\ pass = NoPass
  /\ memory = [n \in Nodes |-> Blank]
  /\ events = << >>
  /\ tracker = [n \in Nodes |-> NoTracker]
  /\ asked = << >>
  /\ unsure = {}
  /\ unlisted = FALSE
  /\ budget = [edits |-> 0, faults |-> 0, passes |-> 0]

\* Something goes wrong; with Spend, one of the numbered disturbances is used up
Spend(what, max) ==
  /\ budget[what] < max
  /\ budget' = [budget EXCEPT ![what] = @ + 1]
Fault == Spend("faults", MaxFaults)
-----------------------------------------------------------------------------
(* Statuses                                                                  *)

\* A write of one status, under the next revision
Put(t, st) == [status EXCEPT ![t] = [st EXCEPT !.rev = seq + 1]]

SetStatus(t, state) ==
  /\ status' = Put(t, [Unknown EXCEPT !.state = state])
  /\ seq' = seq + 1

\* A full pass reports every machine it worked on
Record(n, ok) == SetStatus(n, IF ok THEN "ok" ELSE "failed")

\* A request coalesces with those that wait; the goroutine is started if it is off
Schedule(t) ==
  /\ Spend("passes", MaxPasses)
  /\ queue' = IF t = All THEN [queue EXCEPT !.all = seq + 1]
              ELSE [queue EXCEPT !.servers = @ \cup {t}]
  /\ status' = Put(t, [Unknown EXCEPT !.state = "pending",
                         !.req = IF t = All THEN seq + 1 ELSE 0])
  /\ seq' = seq + 1
  /\ asked' = Append(asked, [rev |-> seq + 1, target |-> t, edits |-> wanted])
  /\ drain' = IF drain.pc = "off" THEN [drain EXCEPT !.pc = "take"] ELSE drain
  /\ UNCHANGED <<persistent, pass, memory, events, tracker, unsure, unlisted>>

\* The next of the machines taken from the queue, in no particular order
Pick(machines) ==
  IF machines = {} THEN {[NoDrain EXCEPT !.pc = "take"]}
  ELSE {[NoDrain EXCEPT !.pc = "start", !.target = n, !.rest = machines \ {n}] : n \in machines}

\* Mutant: the queue is emptied without a look at what was in it for machines
TakeAllOnly ==
  /\ drain.pc = "take"
  /\ queue' = [all |-> 0, servers |-> {}]
  /\ drain' = IF queue.all > 0
       THEN [NoDrain EXCEPT !.pc = "start", !.target = All, !.req = queue.all]
       ELSE NoDrain
  /\ UNCHANGED <<persistent, seq, status, pass, memory, events, tracker, history, budget>>

\* Everything pending is taken at once; with nothing pending the goroutine ends,
\* under the lock a request would have to take to be queued
DrainTake ==
  /\ drain.pc = "take"
  /\ queue' = [all |-> 0, servers |-> {}]
  /\ IF queue.all > 0
       THEN drain' = [NoDrain EXCEPT !.pc = "start", !.target = All, !.req = queue.all,
                        !.rest = queue.servers, !.before = [n \in Nodes |-> status[n].rev]]
       ELSE IF queue.servers # {} THEN drain' \in Pick(queue.servers)
       ELSE drain' = NoDrain
  /\ UNCHANGED <<persistent, seq, status, pass, memory, events, tracker, history, budget>>

\* "running" carries the watermark of the requests this pass was started for
DrainStart ==
  /\ drain.pc = "start"
  /\ status' = Put(drain.target,
       IF drain.target = All
         THEN [Unknown EXCEPT !.state = "running", !.req = drain.req]
         ELSE [Unknown EXCEPT !.state = "running"])
  /\ seq' = seq + 1
  /\ drain' = [drain EXCEPT !.pc = "wait"]
  /\ unlisted' = (drain.target # All /\ unlisted)
  /\ UNCHANGED <<persistent, queue, pass, memory, events, tracker, asked, unsure, budget>>

\* Mutant: the outcome claims whatever request waits by now
ClaimLatest ==
  /\ drain.pc = "finish" /\ drain.target = All
  /\ status' = Put(All, [Unknown EXCEPT !.state = IF drain.ok THEN "ok" ELSE "failed",
                           !.req = IF queue.all > 0 THEN queue.all ELSE drain.req])
  /\ seq' = seq + 1
  /\ drain' = [NoDrain EXCEPT !.pc = "take"]
  /\ UNCHANGED <<persistent, queue, pass, memory, events, tracker, history, budget>>

\* The outcome of the pass; machines the full pass subsumed and never reported
\* on inherit it
DrainFinish ==
  /\ drain.pc = "finish"
  /\ LET state == IF drain.ok THEN "ok" ELSE "failed"
         mine == [state |-> state, rev |-> seq + 1, req |-> drain.req]
         heirs == {n \in drain.rest : status[n].rev = drain.before[n]}
     IN IF drain.target = All
          THEN /\ status' = [t \in Targets |->
                     IF t = All THEN mine
                     ELSE IF t \in heirs THEN [mine EXCEPT !.rev = seq + 1 + Cardinality(heirs)]
                     ELSE status[t]]
               /\ seq' = seq + 1 + Cardinality(heirs)
               /\ drain' = [NoDrain EXCEPT !.pc = "take"]
          ELSE /\ SetStatus(drain.target, state)
               /\ drain' \in Pick(drain.rest)
  /\ UNCHANGED <<persistent, queue, pass, memory, events, tracker, history,
                 budget>>
-----------------------------------------------------------------------------
(* A pass                                                                    *)

\* A core that a relay route rests on is not the fixed one, and what it holds back
Refused == {m \in UNION {Needs[n] : n \in Nodes} : ~fixed[m]}
Blocked == {n \in Nodes : Needs[n] \cap Refused # {}}
Probed == Refused \cup Blocked

\* Under the rebuild lock: the cores are probed afresh and the entitlements read
Begin(by, full, force, scope) ==
  /\ pass.by = None
  /\ pass' = [NoPass EXCEPT !.by = by, !.full = full, !.force = force,
                !.blocked = Blocked \cap scope, !.ok = Blocked \cap scope = {},
                !.base = wanted,
                !.at = [n \in Nodes |-> IF n \in scope \ Blocked THEN "build" ELSE "done"]]
  /\ memory' = [n \in Nodes |-> [memory[n] EXCEPT !.retry = @ \/ n \in Probed]]
  /\ status' = [t \in Targets |->
       IF t \in Probed THEN [Unknown EXCEPT !.state = "failed", !.rev = seq + 1] ELSE status[t]]
  /\ seq' = IF Probed = {} THEN seq ELSE seq + 1

\* The topology, the metering or the entitlements cannot be read: nothing is done
PassFails ==
  /\ pass.by # None
  /\ \A n \in Nodes : pass.at[n] \in {"build", "done"}
  /\ \E n \in Nodes : pass.at[n] = "build"
  /\ Fault
  /\ pass' = [pass EXCEPT !.ok = FALSE, !.at = [n \in Nodes |-> "done"]]
  /\ UNCHANGED <<persistent, sched, memory, events, tracker, history>>

\* With relay metering a single machine is never deployed alone
FullScope == drain.target = All \/ Metering

BeginQueued ==
  /\ drain.pc = "wait"
  /\ Begin("drain", FullScope, TRUE, IF FullScope THEN Nodes ELSE {drain.target})
  /\ drain' = [drain EXCEPT !.pc = "running"]
  /\ UNCHANGED <<persistent, queue, events, tracker, history, budget>>

BeginInline ==
  /\ Spend("passes", MaxPasses)
  /\ Begin("http", TRUE, TRUE, Nodes)
  /\ UNCHANGED <<persistent, queue, drain, events, tracker, history>>

\* The timer: every pass regenerates, the slower one also verifies the machines
BeginPeriodic(force) ==
  /\ Spend("passes", MaxPasses)
  /\ Begin("loop", TRUE, force, Nodes)
  /\ UNCHANGED <<persistent, queue, drain, events, tracker, history>>

Periodic == pass.by = "loop"
CircuitOpen(n) == memory[n].open \/ alert[n]
Stopped(n) == Periodic /\ CircuitOpen(n)

\* The panel's own machine comes first, the others after it, side by side
Turn(n) == pass.at[n] = "build" /\ (n = Panel \/ pass.at[Panel] = "done")
NeedsApply(n, v) == pass.force \/ memory[n].retry \/ memory[n].desired # v

\* Mutant: a failed restart is not remembered against equal bytes
BytesOnly(n, v) == node[n].file = v /\ (n \in Local \/ node[n].up)

\* What the node is found to have: its service counts on a remote machine only
AlreadyHas(n, v) ==
  /\ ~memory[n].pending
  /\ node[n].file = v
  /\ n \in Local \/ node[n].up

Notify(news) ==
  events' = IF Len(events) + Len(news) > QueueSize THEN SubSeq(events \o news, 1, QueueSize)
            ELSE events \o news

\* A full pass reports every machine itself; a single one leaves it to runOne
Finish(n, ok) ==
  /\ pass' = [pass EXCEPT !.at[n] = "done", !.ok = @ /\ ok]
  /\ IF pass.full THEN Record(n, ok) ELSE UNCHANGED <<status, seq>>

\* The machine has what it should: remembered, and, when an administrator asked
\* for this machine alone, the circuit is closed
Deployed(n, v, mem, news, opened) ==
  LET known == [mem EXCEPT !.desired = v, !.retry = FALSE] IN
    /\ memory' = [memory EXCEPT ![n] =
         IF pass.full THEN known ELSE [known EXCEPT !.open = FALSE, !.hist = 0]]
    /\ Notify(IF ~pass.full /\ CircuitOpen(n) THEN <<[kind |-> "recovered", n |-> n]>> ELSE news)
    /\ Finish(n, ~opened)

Frame == UNCHANGED <<wanted, fixed, alert, queue, drain, tracker, asked, unlisted>>

\* The configuration generated at some moment since the pass began
Versions(n) == pass.base[n]..wanted[n]

StoppedByCircuit(n) ==
  /\ Turn(n) /\ Stopped(n)
  /\ Finish(n, FALSE)
  /\ Frame /\ UNCHANGED <<node, memory, events, unsure, budget>>

\* Cached desired bytes are not a fresh health result: the old status stays
SkipUnchanged(n) ==
  /\ Turn(n) /\ ~Stopped(n)
  /\ \E v \in Versions(n) : ~NeedsApply(n, v)
  /\ pass.full
  /\ pass' = [pass EXCEPT !.at[n] = "done"]
  /\ Frame /\ UNCHANGED <<node, seq, status, memory, events, unsure, budget>>

\* Not generated, not reachable, not valid, its present state not verified, or
\* its core refused, which also makes the next pass try again
ApplyFails(n) ==
  /\ Turn(n) /\ ~Stopped(n)
  /\ Fault
  /\ \E again \in BOOLEAN : memory' = [memory EXCEPT ![n].retry = @ \/ again]
  /\ Finish(n, FALSE)
  /\ Frame /\ UNCHANGED <<node, events, unsure>>

\* The deadline ends the move: it was, or was not, carried out by then
InstallFails(n) ==
  /\ pass.at[n] = "install"
  /\ Fault
  /\ \/ UNCHANGED <<node, unsure>>
     \/ /\ node' = [node EXCEPT ![n].file = pass.got[n]]
        /\ unsure' = unsure \cup {n}
  /\ Finish(n, FALSE)
  /\ Frame /\ UNCHANGED <<memory, events>>

\* The panel's own machine is done and the rows of the others cannot be read:
\* the pass ends with the error it has, possibly none
ListFails ==
  /\ pass.by # None /\ pass.full
  /\ pass.at[Panel] = "done"
  /\ \A n \in Nodes \ {Panel} : n \notin pass.blocked => pass.at[n] = "build"
  /\ \E n \in Nodes : pass.at[n] = "build"
  /\ Fault
  /\ pass' = [pass EXCEPT !.at = [n \in Nodes |-> "done"]]
  /\ unlisted' = (unlisted \/ pass.by = "drain")
  /\ UNCHANGED <<persistent, sched, memory, events, tracker, asked, unsure>>

NothingToDo(n) ==
  /\ Turn(n) /\ ~Stopped(n)
  /\ \E v \in Versions(n) :
       /\ pass.full => NeedsApply(n, v)
       /\ AlreadyHas(n, v)
       /\ Deployed(n, v, memory[n], << >>, FALSE)
  /\ Frame /\ UNCHANGED <<node, unsure, budget>>

Compare(n) ==
  /\ Turn(n) /\ ~Stopped(n)
  /\ \E v \in Versions(n) :
       /\ pass.full => NeedsApply(n, v)
       /\ ~AlreadyHas(n, v)
       /\ pass' = [pass EXCEPT !.at[n] = "install", !.got[n] = v]
  /\ Frame /\ UNCHANGED <<node, seq, status, memory, events, unsure, budget>>

\* Staged, validated and moved over the live file; the process runs on as before
Install(n) ==
  /\ pass.at[n] = "install"
  /\ node' = [node EXCEPT ![n].file = pass.got[n]]
  /\ pass' = [pass EXCEPT !.at[n] = "restart"]
  /\ Frame /\ UNCHANGED <<seq, status, memory, events, unsure, budget>>

\* A restart of a periodic pass is counted; the one that reaches the threshold
\* opens the circuit and is announced before the restart itself
Counted(n, mem) ==
  LET hist == IF mem.hist < Threshold THEN mem.hist + 1 ELSE mem.hist IN
    [mem EXCEPT !.hist = hist, !.open = @ \/ hist >= Threshold]

RestartNews(n) ==
  LET sample == <<[kind |-> "restart", n |-> n]>> IN
    IF Counted(n, memory[n]).open /\ ~memory[n].open
      THEN <<[kind |-> "tripped", n |-> n]>> \o sample ELSE sample

AfterRestart(n) == IF Periodic THEN Counted(n, memory[n]) ELSE memory[n]
Opened(n) == AfterRestart(n).open /\ ~memory[n].open

RestartWorks(n) ==
  /\ pass.at[n] = "restart"
  /\ node' = [node EXCEPT ![n].run = node[n].file, ![n].up = TRUE]
  /\ unsure' = unsure \ {n}
  /\ Deployed(n, pass.got[n], [AfterRestart(n) EXCEPT !.pending = FALSE],
              IF Periodic THEN RestartNews(n) ELSE << >>, Opened(n))
  /\ Frame /\ UNCHANGED budget

\* The machine runs the new file, and the check of its core or of the topology
\* that follows says otherwise
RestartUnverified(n) ==
  /\ pass.at[n] = "restart"
  /\ Fault
  /\ node' = [node EXCEPT ![n].run = node[n].file, ![n].up = TRUE]
  /\ unsure' = unsure \ {n}
  /\ memory' = [memory EXCEPT ![n] = [AfterRestart(n) EXCEPT !.pending = FALSE, !.retry = TRUE]]
  /\ Notify(IF Periodic THEN RestartNews(n) ELSE << >>)
  /\ Finish(n, FALSE)
  /\ Frame

\* systemctl reports an error, or the 90 s end first: the unit may be down, or up
RestartFails(n) ==
  /\ pass.at[n] = "restart"
  /\ Fault
  /\ \E up \in BOOLEAN :
       node' = [node EXCEPT ![n].up = up, ![n].run = IF up THEN node[n].file ELSE @]
  /\ memory' = [memory EXCEPT ![n] = [AfterRestart(n) EXCEPT !.pending = TRUE]]
  /\ Notify(IF Periodic THEN RestartNews(n) ELSE << >>)
  /\ Finish(n, FALSE)
  /\ Frame /\ UNCHANGED unsure

\* The lock is released; the queue's own pass goes on to its outcome
End ==
  /\ pass.by # None
  /\ \A n \in Nodes : pass.at[n] = "done"
  /\ drain' = IF pass.by = "drain" THEN [drain EXCEPT !.pc = "finish", !.ok = pass.ok] ELSE drain
  /\ pass' = NoPass
  /\ UNCHANGED <<persistent, queue, seq, status, memory, events, tracker, history, budget>>
-----------------------------------------------------------------------------
(* The watcher of restart loops                                              *)

Head1 == Head(events)

\* An alert is written, or the write fails
Write(written) == IF written THEN UNCHANGED budget ELSE Fault

\* Mutant: the node is marked as alerted whether or not the alert was stored
WatchMarksAnyway ==
  /\ events # << >> /\ Head1.kind = "tripped"
  /\ events' = Tail(events)
  /\ \E written \in BOOLEAN :
       /\ Write(written)
       /\ alert' = [alert EXCEPT ![Head1.n] = @ \/ written]
       /\ tracker' = [tracker EXCEPT ![Head1.n].alerted = TRUE]
  /\ UNCHANGED <<wanted, node, fixed, sched, pass, memory, history>>

\* The controller's decision, stored; a failed write leaves the node unmarked
WatchTripped ==
  /\ events # << >> /\ Head1.kind = "tripped"
  /\ events' = Tail(events)
  /\ \E written \in BOOLEAN :
       /\ Write(written)
       /\ alert' = [alert EXCEPT ![Head1.n] = @ \/ written]
       /\ tracker' = [tracker EXCEPT ![Head1.n].alerted = @ \/ written]
  /\ UNCHANGED <<wanted, node, fixed, sched, pass, memory, history>>

\* The watcher counts for itself, so that a lost decision is made up for
WatchRestart ==
  /\ events # << >> /\ Head1.kind = "restart"
  /\ events' = Tail(events)
  /\ LET n == Head1.n
         hist == IF tracker[n].hist < Threshold THEN tracker[n].hist + 1 ELSE Threshold
         fire == hist >= Threshold /\ ~tracker[n].alerted
     IN \E written \in BOOLEAN :
          /\ Write(written \/ ~fire)
          /\ alert' = [alert EXCEPT ![n] = @ \/ (fire /\ written)]
          /\ tracker' = [tracker EXCEPT ![n] =
               [hist |-> hist, alerted |-> @.alerted \/ (fire /\ written)]]
  /\ UNCHANGED <<wanted, node, fixed, sched, pass, memory, history>>

WatchRecovered ==
  /\ events # << >> /\ Head1.kind = "recovered"
  /\ events' = Tail(events)
  /\ tracker' = [tracker EXCEPT ![Head1.n] = NoTracker]
  /\ \E written \in BOOLEAN :
       /\ Write(written)
       /\ alert' = [alert EXCEPT ![Head1.n] = @ /\ ~written]
  /\ UNCHANGED <<wanted, node, fixed, sched, pass, memory, history>>

\* The window slides past the restarts of a node, here and in the watcher
WindowPasses(n) ==
  /\ Fault
  /\ memory' = [memory EXCEPT ![n].hist = 0]
  /\ tracker' = [tracker EXCEPT ![n].hist = IF tracker[n].alerted THEN @ ELSE 0]
  /\ UNCHANGED <<persistent, sched, pass, events, history>>
-----------------------------------------------------------------------------
(* The administrator, the machines and the panel process                     *)

\* Anything a generated configuration depends on changes
Edit(n) ==
  /\ Spend("edits", MaxEdits)
  /\ wanted' = [wanted EXCEPT ![n] = @ + 1]
  /\ UNCHANGED <<node, fixed, alert, sched, pass, memory, events, tracker, history>>

\* The process of a machine dies, or the machine reboots into the file it has
NodeChanges(n) ==
  /\ Fault
  /\ \/ /\ node' = [node EXCEPT ![n].up = FALSE]
        /\ unsure' = IF n \in Local THEN unsure \cup {n} ELSE unsure
        /\ UNCHANGED fixed
     \/ /\ node' = [node EXCEPT ![n].up = TRUE, ![n].run = node[n].file]
        /\ unsure' = unsure \ {n} /\ UNCHANGED fixed
     \/ fixed' = [fixed EXCEPT ![n] = ~@] /\ UNCHANGED <<node, unsure>>
  /\ UNCHANGED <<wanted, alert, sched, pass, memory, events, tracker, asked, unlisted>>

\* Everything in memory is lost; Run starts with a pass that verifies every node
PanelRestarts ==
  /\ Fault
  /\ queue' = [all |-> 0, servers |-> {}]
  /\ seq' = 0
  /\ status' = [t \in Targets |-> Unknown]
  /\ drain' = NoDrain
  /\ pass' = NoPass
  /\ memory' = [n \in Nodes |-> Blank]
  /\ events' = << >>
  /\ tracker' = [n \in Nodes |-> NoTracker]
  /\ asked' = << >>
  /\ unsure' = unsure \cup {n \in Nodes : pass.at[n] = "restart" \/ memory[n].pending}
  /\ unlisted' = FALSE
  /\ UNCHANGED persistent
-----------------------------------------------------------------------------
Queue == DrainTake \/ DrainStart \/ BeginQueued \/ DrainFinish

Apply(n) ==
  \/ StoppedByCircuit(n) \/ SkipUnchanged(n) \/ NothingToDo(n) \/ Compare(n)
  \/ Install(n) \/ RestartWorks(n)

Watch == WatchTripped \/ WatchRestart \/ WatchRecovered

Next ==
  \/ \E t \in Targets : Schedule(t)
  \/ Queue
  \/ BeginInline
  \/ \E force \in BOOLEAN : BeginPeriodic(force)
  \/ \E n \in Nodes : Apply(n)
  \/ \E n \in Nodes : ApplyFails(n) \/ InstallFails(n) \/ RestartUnverified(n) \/ RestartFails(n)
  \/ PassFails \/ ListFails
  \/ End
  \/ Watch
  \/ \E n \in Nodes : WindowPasses(n) \/ Edit(n) \/ NodeChanges(n)
  \/ PanelRestarts

Spec == Init /\ [][Next]_vars

\* The goroutine runs; a lock of Go's is handed over in the end; every network
\* call of a pass has a deadline
FairSpec ==
  Spec /\ WF_vars(DrainTake \/ DrainStart \/ DrainFinish) /\ SF_vars(BeginQueued)
       /\ WF_vars(End) /\ \A n \in Nodes : WF_vars(Apply(n))
=============================================================================
