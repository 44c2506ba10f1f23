----------------------------- MODULE DeployProofs -----------------------------
(* That the configuration controller reports "ok" only for what is deployed  *)
(* and running, and that the circuits it opens are on record for the         *)
(* administrator, for any number of machines and any bounds.                 *)
EXTENDS DeployProperties, FiniteSetTheorems, TLAPS

DrainPcs == {"off", "take", "start", "wait", "running", "finish"}
Places == {"out", "build", "install", "restart", "done"}
NodeRow == [file : Nat, run : Nat, up : BOOLEAN]
States == {"", "pending", "running", "ok", "failed"}
StatusRow == [state : States, rev : Nat, req : Nat]
DrainRow == [pc : DrainPcs, target : Targets, req : Nat, rest : SUBSET Nodes,
             before : [Nodes -> Nat], ok : BOOLEAN]
PassRow == [by : {None, "drain", "loop", "http"}, full : BOOLEAN, force : BOOLEAN,
            ok : BOOLEAN, blocked : SUBSET Nodes, base : [Nodes -> Nat],
            got : [Nodes -> Nat], at : [Nodes -> Places]]
MemoryRow == [desired : Nat, retry : BOOLEAN, pending : BOOLEAN, open : BOOLEAN, hist : Nat]
RequestRow == [rev : Nat, target : Targets, edits : [Nodes -> Nat]]

MachinesTyped ==
  /\ wanted \in [Nodes -> Nat]
  /\ node \in [Nodes -> NodeRow]
  /\ fixed \in [Nodes -> BOOLEAN]
  /\ alert \in [Nodes -> BOOLEAN]

QueueTyped ==
  /\ queue \in [all : Nat, servers : SUBSET Nodes]
  /\ seq \in Nat
  /\ status \in [Targets -> StatusRow]
  /\ drain \in DrainRow
  /\ asked \in Seq(RequestRow)

PassTyped ==
  /\ pass \in PassRow
  /\ memory \in [Nodes -> MemoryRow]
  /\ unlisted \in BOOLEAN

Typed == MachinesTyped /\ QueueTyped /\ PassTyped

\* The values a pass, the goroutine and the memory start from
LEMMA RowsTyped ==
  /\ Unknown \in StatusRow
  /\ NoDrain \in DrainRow
  /\ NoPass \in PassRow
  /\ Blank \in MemoryRow
<1>1. [n \in Nodes |-> 0] \in [Nodes -> Nat] /\ [n \in Nodes |-> "out"] \in [Nodes -> Places]
      BY DEF Places
<1>2. All \in Targets /\ "off" \in DrainPcs
      BY DEF Targets, DrainPcs
<1>3. Unknown \in StatusRow /\ Blank \in MemoryRow
  <2>1. "" \in States
        BY DEF States
  <2> QED BY <2>1 DEF Unknown, StatusRow, Blank, MemoryRow
<1>4. NoDrain \in DrainRow
      BY <1>1, <1>2 DEF NoDrain, DrainRow
<1>5. NoPass \in PassRow
      BY <1>1 DEF NoPass, PassRow
<1> QED BY <1>3, <1>4, <1>5

\* The panel starts in a state of the right types
LEMMA InitTyped == Init => Typed
<1> SUFFICES ASSUME Init PROVE Typed
    OBVIOUS
<1>1. MachinesTyped
      BY DEF Init, MachinesTyped, NodeRow
<1>2. QueueTyped
  <2>1. << >> \in Seq(RequestRow)
        OBVIOUS
  <2> QED BY <2>1, RowsTyped DEF Init, QueueTyped
<1>3. PassTyped
      BY RowsTyped DEF Init, PassTyped
<1> QED BY <1>1, <1>2, <1>3 DEF Typed

\* The writes of a status the code makes keep its type
LEMMA StatusTyped ==
  \A st \in StatusRow, s \in States, r \in Nat, q \in Nat :
    /\ [st EXCEPT !.state = s] \in StatusRow
    /\ [st EXCEPT !.state = s, !.req = q] \in StatusRow
    /\ [st EXCEPT !.state = s, !.rev = r] \in StatusRow
    /\ [st EXCEPT !.rev = r] \in StatusRow
    /\ [state |-> s, rev |-> r, req |-> q] \in StatusRow
  BY DEF StatusRow

\* An outcome is one of the states a status can have
LEMMA OutcomeIsState ==
  \A ok \in BOOLEAN : (IF ok THEN "ok" ELSE "failed") \in States
  BY DEF States

\* setRebuildStatus keeps the type of the table of statuses
LEMMA PutTyped ==
  ASSUME Typed, NEW t \in Targets, NEW st \in StatusRow
  PROVE  Put(t, st) \in [Targets -> StatusRow]
<1>1. [st EXCEPT !.rev = seq + 1] \in StatusRow
      BY DEF StatusRow, Typed, QueueTyped
<1> QED BY <1>1 DEF Put, Typed, QueueTyped

\* A request keeps the types
LEMMA ScheduleTyped ==
  ASSUME Typed, NEW t \in Targets, Schedule(t) PROVE Typed'
<1>1. seq + 1 \in Nat /\ seq' \in Nat
      BY DEF Schedule, Typed, QueueTyped
<1>2. status' \in [Targets -> StatusRow]
  <2> DEFINE q == IF t = All THEN seq + 1 ELSE 0
             st == [Unknown EXCEPT !.state = "pending", !.req = q]
  <2>1. q \in Nat
        BY <1>1
  <2>2. st \in StatusRow
        BY <2>1, StatusTyped, RowsTyped, "pending" \in States DEF States
  <2>3. status' = Put(t, st)
        BY DEF Schedule
  <2> HIDE DEF st
  <2> QED BY <2>2, <2>3, PutTyped
<1>3. queue' \in [all : Nat, servers : SUBSET Nodes]
      BY <1>1 DEF Schedule, Typed, QueueTyped, Targets
<1>4. drain' \in DrainRow
      BY DEF Schedule, Typed, QueueTyped, DrainRow, DrainPcs
<1>5. asked' \in Seq(RequestRow)
      BY <1>1 DEF Schedule, Typed, QueueTyped, MachinesTyped, RequestRow
<1>6. MachinesTyped' /\ PassTyped'
      BY DEF Schedule, persistent, Typed, MachinesTyped, PassTyped
<1> QED BY <1>1, <1>2, <1>3, <1>4, <1>5, <1>6 DEF Typed, QueueTyped

\* So do the steps of the goroutine on its own record
LEMMA DrainStepTyped ==
  \A d \in DrainRow, pc \in DrainPcs :
    /\ [d EXCEPT !.pc = pc] \in DrainRow
    /\ \A t \in Targets, rest \in SUBSET Nodes :
         /\ [d EXCEPT !.pc = pc, !.target = t, !.rest = rest] \in DrainRow
         /\ \A r \in Nat, b \in [Nodes -> Nat] :
              [d EXCEPT !.pc = pc, !.target = t, !.req = r, !.rest = rest, !.before = b] \in DrainRow
  BY DEF DrainRow

\* and its choice of the next machine
LEMMA PickTyped ==
  ASSUME NEW ms \in SUBSET Nodes, NEW d \in Pick(ms) PROVE d \in DrainRow
<1>1. "take" \in DrainPcs /\ "start" \in DrainPcs
      BY DEF DrainPcs
<1>2. CASE ms = {}
      BY <1>1, <1>2, RowsTyped, DrainStepTyped DEF Pick
<1>3. CASE ms # {}
  <2>1. PICK n \in ms : d = [NoDrain EXCEPT !.pc = "start", !.target = n, !.rest = ms \ {n}]
        BY <1>3 DEF Pick
  <2>2. n \in Targets /\ ms \ {n} \in SUBSET Nodes
        BY DEF Targets
  <2> QED BY <1>1, <2>1, <2>2, RowsTyped, DrainStepTyped
<1> QED BY <1>2, <1>3

\* The goroutine keeps the types
LEMMA QueueStepTyped ==
  ASSUME Typed, DrainTake \/ DrainStart \/ DrainFinish PROVE Typed'
<1>1. MachinesTyped' 
      BY DEF DrainTake, DrainStart, DrainFinish, persistent, Typed, MachinesTyped, SetStatus
<1>2. PassTyped'
      BY DEF DrainTake, DrainStart, DrainFinish, history, Typed, PassTyped
<1>3. QueueTyped'
  <2>1. CASE DrainTake
    <3>1. drain' \in DrainRow
      <4>1. CASE queue.all > 0
        <5> DEFINE before == [n \in Nodes |-> status[n].rev]
        <5>1. before \in [Nodes -> Nat]
              BY DEF Typed, QueueTyped, StatusRow, Targets
        <5>2. "start" \in DrainPcs /\ All \in Targets /\ queue.all \in Nat /\ queue.servers \in SUBSET Nodes
              BY DEF DrainPcs, Targets, Typed, QueueTyped
        <5>3. drain' = [NoDrain EXCEPT !.pc = "start", !.target = All, !.req = queue.all,
                          !.rest = queue.servers, !.before = before]
              BY <2>1, <4>1 DEF DrainTake
        <5> HIDE DEF before
        <5> QED BY <5>1, <5>2, <5>3, RowsTyped, DrainStepTyped
      <4>2. CASE ~(queue.all > 0) /\ queue.servers # {}
            BY <2>1, <4>2, PickTyped DEF DrainTake, Typed, QueueTyped
      <4>3. CASE ~(queue.all > 0) /\ queue.servers = {}
            BY <2>1, <4>3, RowsTyped DEF DrainTake
      <4> QED BY <4>1, <4>2, <4>3
    <3> QED BY <2>1, <3>1 DEF DrainTake, Typed, QueueTyped, history
  <2>2. CASE DrainStart
    <3>1. seq + 1 \in Nat /\ drain.target \in Targets /\ drain.req \in Nat
          BY DEF Typed, QueueTyped, DrainRow
    <3>2. status' \in [Targets -> StatusRow]
      <4> DEFINE st == IF drain.target = All
                         THEN [Unknown EXCEPT !.state = "running", !.req = drain.req]
                         ELSE [Unknown EXCEPT !.state = "running"]
      <4>1. st \in StatusRow
            BY <3>1, StatusTyped, RowsTyped, "running" \in States DEF States
      <4>2. status' = Put(drain.target, st)
            BY <2>2 DEF DrainStart
      <4> HIDE DEF st
      <4> QED BY <3>1, <4>1, <4>2, PutTyped
    <3>3. drain' \in DrainRow
          BY <2>2 DEF DrainStart, Typed, QueueTyped, DrainRow, DrainPcs
    <3> QED BY <2>2, <3>1, <3>2, <3>3 DEF DrainStart, Typed, QueueTyped
  <2>3. CASE DrainFinish
    <3> DEFINE heirs == {n \in drain.rest : status[n].rev = drain.before[n]}
               state == IF drain.ok THEN "ok" ELSE "failed"
    <3>1. drain.rest \in SUBSET Nodes /\ drain.target \in Targets /\ drain.req \in Nat /\ seq \in Nat
          BY DEF Typed, QueueTyped, DrainRow
    <3>2. Cardinality(heirs) \in Nat
          BY <3>1, DeployAssumption, FS_Subset, FS_CardinalityType
    <3> HIDE DEF heirs
    <3>3. CASE drain.target = All
      <4>1. seq' = seq + 1 + Cardinality(heirs) /\ drain' = [NoDrain EXCEPT !.pc = "take"]
            BY <2>3, <3>3 DEF DrainFinish, heirs
      <4>2. status' \in [Targets -> StatusRow]
        <5>1. status' = [t \in Targets |->
                 IF t = All THEN [state |-> state, rev |-> seq + 1, req |-> drain.req]
                 ELSE IF t \in heirs THEN [state |-> state, rev |-> seq + 1 + Cardinality(heirs), req |-> drain.req]
                 ELSE status[t]]
              BY <2>3, <3>3 DEF DrainFinish, heirs
        <5>2. state \in {"ok", "failed"} /\ seq + 1 \in Nat /\ seq + 1 + Cardinality(heirs) \in Nat
              BY <3>1, <3>2
        <5> DEFINE mine(r) == [state |-> state, rev |-> r, req |-> drain.req]
        <5>3. \A r \in Nat : mine(r) \in StatusRow
              BY <3>1, StatusTyped, OutcomeIsState DEF Typed, QueueTyped, DrainRow
        <5>4. status \in [Targets -> StatusRow]
              BY DEF Typed, QueueTyped
        <5>5. status' = [t \in Targets |->
                 IF t = All THEN mine(seq + 1)
                 ELSE IF t \in heirs THEN mine(seq + 1 + Cardinality(heirs))
                 ELSE status[t]]
              BY <5>1
        <5> HIDE DEF mine, state
        <5> QED BY <5>5, <5>2, <5>3, <5>4
      <4>3. drain' \in DrainRow
        <5>1. "take" \in DrainPcs
              BY DEF DrainPcs
        <5> QED BY <4>1, <5>1, RowsTyped, DrainStepTyped
      <4> QED BY <2>3, <3>1, <3>2, <4>1, <4>2, <4>3 DEF DrainFinish, Typed, QueueTyped, history
    <3>4. CASE drain.target # All
      <4>1. status' = Put(drain.target, [Unknown EXCEPT !.state = state]) /\ seq' = seq + 1
            BY <2>3, <3>4 DEF DrainFinish, SetStatus
      <4>2. status' \in [Targets -> StatusRow]
        <5>1. [Unknown EXCEPT !.state = state] \in StatusRow
              BY StatusTyped, RowsTyped, OutcomeIsState DEF Typed, QueueTyped, DrainRow
        <5> HIDE DEF state
        <5> QED BY <4>1, <3>1, <5>1, PutTyped
      <4>3. drain' \in DrainRow
            BY <2>3, <3>4, <3>1, PickTyped DEF DrainFinish
      <4> QED BY <2>3, <3>1, <4>1, <4>2, <4>3 DEF DrainFinish, Typed, QueueTyped, history
    <3> QED BY <3>3, <3>4
  <2> QED BY <2>1, <2>2, <2>3
<1> QED BY <1>1, <1>2, <1>3 DEF Typed

\* What is known of the fields of a pass
LEMMA PassFieldsTyped ==
  \A p \in PassRow :
    /\ p.by \in {None, "drain", "loop", "http"} /\ p.full \in BOOLEAN /\ p.force \in BOOLEAN
    /\ p.ok \in BOOLEAN /\ p.blocked \in SUBSET Nodes
    /\ p.base \in [Nodes -> Nat] /\ p.got \in [Nodes -> Nat] /\ p.at \in [Nodes -> Places]
  BY DEF PassRow

\* A pass starts with fields of the right types
LEMMA BeginTyped ==
  ASSUME Typed, NEW by \in {"drain", "loop", "http"}, NEW full \in BOOLEAN,
         NEW force \in BOOLEAN, NEW scope \in SUBSET Nodes,
         Begin(by, full, force, scope)
  PROVE  /\ pass' \in PassRow /\ memory' \in [Nodes -> MemoryRow]
         /\ status' \in [Targets -> StatusRow] /\ seq' \in Nat
<1>1. pass' \in PassRow
  <2> DEFINE at == [n \in Nodes |-> IF n \in scope \ Blocked THEN "build" ELSE "done"]
  <2>1. at \in [Nodes -> Places]
        BY DEF Places
  <2>2. Blocked \cap scope \in SUBSET Nodes /\ (Blocked \cap scope = {}) \in BOOLEAN
        OBVIOUS
  <2>3. wanted \in [Nodes -> Nat]
        BY DEF Typed, MachinesTyped
  <2>4. pass' = [by |-> by, full |-> full, force |-> force, ok |-> Blocked \cap scope = {},
                 blocked |-> Blocked \cap scope, base |-> wanted, got |-> NoPass.got, at |-> at]
        BY DEF Begin, NoPass
  <2>5. NoPass.got \in [Nodes -> Nat]
        BY RowsTyped, PassFieldsTyped
  <2> HIDE DEF at
  <2> QED BY <2>1, <2>2, <2>3, <2>4, <2>5 DEF PassRow
<1>2. memory' \in [Nodes -> MemoryRow]
  <2>1. \A n \in Nodes : [memory[n] EXCEPT !.retry = @ \/ n \in Probed] \in MemoryRow
        BY DEF Typed, PassTyped, MemoryRow
  <2> QED BY <2>1 DEF Begin
<1>3. status' \in [Targets -> StatusRow] /\ seq' \in Nat
  <2>1. seq \in Nat /\ seq + 1 \in Nat
        BY DEF Typed, QueueTyped
  <2>2. [Unknown EXCEPT !.state = "failed", !.rev = seq + 1] \in StatusRow
        BY <2>1, RowsTyped, StatusTyped, "failed" \in States DEF States
  <2> QED BY <2>1, <2>2 DEF Begin, Typed, QueueTyped
<1> QED BY <1>1, <1>2, <1>3

\* Each of the three callers keeps the types
LEMMA BeginStepsTyped ==
  ASSUME Typed, BeginQueued \/ BeginInline \/ \E force \in BOOLEAN : BeginPeriodic(force)
  PROVE  Typed'
<1> DEFINE Begun == pass' \in PassRow /\ memory' \in [Nodes -> MemoryRow]
                    /\ status' \in [Targets -> StatusRow] /\ seq' \in Nat
<1>1. CASE BeginQueued
  <2>1. Begun
    <3>1. (IF FullScope THEN Nodes ELSE {drain.target}) \in SUBSET Nodes
          BY DEF FullScope, Typed, QueueTyped, DrainRow, Targets
    <3>2. FullScope \in BOOLEAN
          BY DeployAssumption DEF FullScope, DeployAssumption
    <3> QED BY <1>1, <3>1, <3>2, BeginTyped DEF BeginQueued
  <2>2. drain' \in DrainRow
        BY <1>1, DrainStepTyped, "running" \in DrainPcs DEF BeginQueued, DrainPcs, Typed, QueueTyped
  <2> QED BY <1>1, <2>1, <2>2
          DEF BeginQueued, Typed, MachinesTyped, QueueTyped, PassTyped, persistent, history
<1>2. CASE BeginInline
  <2>1. Begun
        BY <1>2, BeginTyped DEF BeginInline
  <2> QED BY <1>2, <2>1
          DEF BeginInline, Typed, MachinesTyped, QueueTyped, PassTyped, persistent, history
<1>3. ASSUME NEW force \in BOOLEAN, BeginPeriodic(force) PROVE Typed'
  <2>1. Begun
        BY <1>3, BeginTyped DEF BeginPeriodic
  <2> QED BY <1>3, <2>1
          DEF BeginPeriodic, Typed, MachinesTyped, QueueTyped, PassTyped, persistent, history
<1> QED BY <1>1, <1>2, <1>3

\* The moves of one machine within a pass
LEMMA PassStepTyped ==
  \A p \in PassRow, n \in Nodes, b \in BOOLEAN :
    /\ [p EXCEPT !.at[n] = "done"] \in PassRow
    /\ [p EXCEPT !.at[n] = "restart"] \in PassRow
    /\ [p EXCEPT !.at[n] = "done", !.ok = @ /\ b] \in PassRow
    /\ \A v \in Nat : [p EXCEPT !.at[n] = "install", !.got[n] = v] \in PassRow
  BY DEF PassRow, Places

\* The end of the work on a machine keeps the types
LEMMA FinishTyped ==
  ASSUME Typed, NEW n \in Nodes, NEW b \in BOOLEAN, Finish(n, b)
  PROVE  /\ pass' \in PassRow
         /\ status' \in [Targets -> StatusRow] /\ seq' \in Nat
<1>1. pass' \in PassRow
      BY PassStepTyped DEF Finish, Typed, PassTyped
<1>2. status' \in [Targets -> StatusRow] /\ seq' \in Nat
  <2>1. CASE pass.full
    <3> DEFINE st == [Unknown EXCEPT !.state = IF b THEN "ok" ELSE "failed"]
    <3>1. st \in StatusRow
          BY StatusTyped, RowsTyped, OutcomeIsState
    <3>2. status' = Put(n, st) /\ seq' = seq + 1
          BY <2>1 DEF Finish, Record, SetStatus
    <3>3. n \in Targets /\ seq \in Nat
          BY DEF Targets, Typed, QueueTyped
    <3> HIDE DEF st
    <3> QED BY <3>1, <3>2, <3>3, PutTyped
  <2>2. CASE ~pass.full
        BY <2>2 DEF Finish, Typed, QueueTyped
  <2> QED BY <2>1, <2>2
<1> QED BY <1>1, <1>2

\* The writes to what the panel remembers of a machine
LEMMA MemoryStepTyped ==
  \A m \in MemoryRow, v \in Nat, b \in BOOLEAN :
    /\ [m EXCEPT !.desired = v, !.retry = FALSE] \in MemoryRow
    /\ [m EXCEPT !.open = FALSE, !.hist = 0] \in MemoryRow
    /\ [m EXCEPT !.pending = b] \in MemoryRow
    /\ [m EXCEPT !.pending = FALSE, !.retry = TRUE] \in MemoryRow
    /\ [m EXCEPT !.retry = @ \/ b] \in MemoryRow
    /\ [m EXCEPT !.hist = 0] \in MemoryRow
  BY DEF MemoryRow

\* A counted restart leaves a record of the right type
LEMMA CountedTyped ==
  ASSUME Typed, NEW n \in Nodes
  PROVE  AfterRestart(n) \in MemoryRow
<1>1. Threshold \in Nat
      BY DeployAssumption DEF DeployAssumption
<1>2. memory[n] \in MemoryRow
      BY DEF Typed, PassTyped
<1>3. ASSUME NEW h \in Nat, NEW b \in BOOLEAN
      PROVE [memory[n] EXCEPT !.hist = h, !.open = @ \/ b] \in MemoryRow
      BY <1>2 DEF MemoryRow
<1> DEFINE h == IF memory[n].hist < Threshold THEN memory[n].hist + 1 ELSE memory[n].hist
<1>4. h \in Nat /\ (h >= Threshold) \in BOOLEAN
      BY <1>2 DEF MemoryRow
<1>5. Counted(n, memory[n]) = [memory[n] EXCEPT !.hist = h, !.open = @ \/ h >= Threshold]
      BY DEF Counted
<1> HIDE DEF h
<1> QED BY <1>2, <1>3, <1>4, <1>5 DEF AfterRestart

\* Whether it opened the circuit is a yes or a no
LEMMA OpenedTyped ==
  ASSUME Typed, NEW n \in Nodes
  PROVE  Opened(n) \in BOOLEAN
  BY CountedTyped DEF Opened, MemoryRow, Typed, PassTyped

\* markDeployed keeps the types
LEMMA DeployedTyped ==
  ASSUME Typed, NEW n \in Nodes, NEW v \in Nat, NEW m \in MemoryRow, NEW news,
         NEW b \in BOOLEAN, Deployed(n, v, m, news, b)
  PROVE  /\ pass' \in PassRow /\ memory' \in [Nodes -> MemoryRow]
         /\ status' \in [Targets -> StatusRow] /\ seq' \in Nat
<1> DEFINE known == [m EXCEPT !.desired = v, !.retry = FALSE]
<1>1. known \in MemoryRow
      BY MemoryStepTyped
<1>2. memory' = [memory EXCEPT ![n] = IF pass.full THEN known ELSE [known EXCEPT !.open = FALSE, !.hist = 0]]
      BY DEF Deployed
<1>3. Finish(n, ~b)
      BY DEF Deployed
<1> HIDE DEF known
<1>4. memory' \in [Nodes -> MemoryRow]
      BY <1>1, <1>2, MemoryStepTyped DEF Typed, PassTyped
<1> QED BY <1>3, <1>4, FinishTyped

\* The changes of a machine by a pass
LEMMA NodeStepTyped ==
  \A n \in Nodes, v \in Nat, b \in BOOLEAN :
    node \in [Nodes -> NodeRow] =>
      /\ [node EXCEPT ![n].file = v] \in [Nodes -> NodeRow]
      /\ [node EXCEPT ![n].up = b] \in [Nodes -> NodeRow]
      /\ [node EXCEPT ![n].run = node[n].file, ![n].up = b] \in [Nodes -> NodeRow]
      /\ [node EXCEPT ![n].up = b, ![n].run = node[n].file] \in [Nodes -> NodeRow]
      /\ [node EXCEPT ![n].up = b, ![n].run = IF b THEN node[n].file ELSE @] \in [Nodes -> NodeRow]
  BY DEF NodeRow

\* The work of a pass on a machine keeps the types
LEMMA ApplyTyped ==
  ASSUME Typed, NEW n \in Nodes, Apply(n)
  PROVE  Typed'
<1> USE DEF Frame
<1>0. /\ pass \in PassRow /\ memory \in [Nodes -> MemoryRow] /\ node \in [Nodes -> NodeRow]
      /\ pass.got[n] \in Nat /\ memory[n] \in MemoryRow
      BY PassFieldsTyped DEF Typed, PassTyped, MachinesTyped
<1>1. \A v \in Versions(n) : v \in Nat
      BY PassFieldsTyped DEF Versions, Typed, PassTyped, MachinesTyped
<1>2. CASE StoppedByCircuit(n)
  <2>1. pass' \in PassRow /\ status' \in [Targets -> StatusRow] /\ seq' \in Nat
        BY <1>2, FinishTyped DEF StoppedByCircuit
  <2> QED BY <1>2, <2>1 DEF StoppedByCircuit, Typed, MachinesTyped, QueueTyped, PassTyped
<1>3. CASE SkipUnchanged(n)
  <2>1. pass' \in PassRow
        BY <1>0, <1>3, PassStepTyped DEF SkipUnchanged
  <2> QED BY <1>3, <2>1 DEF SkipUnchanged, Typed, MachinesTyped, QueueTyped, PassTyped
<1>4. CASE NothingToDo(n)
  <2>1. PICK v \in Versions(n) : Deployed(n, v, memory[n], << >>, FALSE)
        BY <1>4 DEF NothingToDo
  <2>2. /\ pass' \in PassRow /\ memory' \in [Nodes -> MemoryRow]
        /\ status' \in [Targets -> StatusRow] /\ seq' \in Nat
        BY <1>0, <1>1, <2>1, DeployedTyped
  <2> QED BY <1>4, <2>2 DEF NothingToDo, Typed, MachinesTyped, QueueTyped, PassTyped
<1>5. CASE Compare(n)
  <2>1. pass' \in PassRow
    <3>1. PICK v \in Versions(n) : pass' = [pass EXCEPT !.at[n] = "install", !.got[n] = v]
          BY <1>5 DEF Compare
    <3> QED BY <1>0, <1>1, <3>1, PassStepTyped
  <2> QED BY <1>5, <2>1 DEF Compare, Typed, MachinesTyped, QueueTyped, PassTyped
<1>6. CASE Install(n)
  <2>1. pass' \in PassRow /\ node' \in [Nodes -> NodeRow]
        BY <1>0, <1>6, PassStepTyped, NodeStepTyped DEF Install
  <2> QED BY <1>6, <2>1 DEF Install, Typed, MachinesTyped, QueueTyped, PassTyped
<1>7. CASE RestartWorks(n)
  <2> DEFINE m == [AfterRestart(n) EXCEPT !.pending = FALSE]
             news == IF Periodic THEN RestartNews(n) ELSE << >>
  <2>1. m \in MemoryRow /\ Opened(n) \in BOOLEAN
        BY CountedTyped, OpenedTyped, MemoryStepTyped
  <2>2. Deployed(n, pass.got[n], m, news, Opened(n))
        BY <1>7 DEF RestartWorks
  <2> HIDE DEF m, news
  <2>3. /\ pass' \in PassRow /\ memory' \in [Nodes -> MemoryRow]
        /\ status' \in [Targets -> StatusRow] /\ seq' \in Nat
        BY <1>0, <2>1, <2>2, DeployedTyped
  <2>4. node' \in [Nodes -> NodeRow]
        BY <1>0, <1>7, NodeStepTyped DEF RestartWorks
  <2> QED BY <1>7, <2>3, <2>4 DEF RestartWorks, Typed, MachinesTyped, QueueTyped, PassTyped
<1> QED BY <1>2, <1>3, <1>4, <1>5, <1>6, <1>7 DEF Apply

\* So do its failures
LEMMA FaultsTyped ==
  ASSUME Typed, NEW n \in Nodes,
         ApplyFails(n) \/ InstallFails(n) \/ RestartUnverified(n) \/ RestartFails(n)
  PROVE  Typed'
<1> USE DEF Frame
<1>0. /\ pass \in PassRow /\ memory \in [Nodes -> MemoryRow] /\ node \in [Nodes -> NodeRow]
      /\ pass.got[n] \in Nat /\ memory[n] \in MemoryRow /\ AfterRestart(n) \in MemoryRow
      BY PassFieldsTyped, CountedTyped DEF Typed, PassTyped, MachinesTyped
<1>1. Finish(n, FALSE)
      BY DEF ApplyFails, InstallFails, RestartUnverified, RestartFails
<1>2. pass' \in PassRow /\ status' \in [Targets -> StatusRow] /\ seq' \in Nat
      BY <1>1, FinishTyped
<1>3. CASE ApplyFails(n)
  <2>1. memory' \in [Nodes -> MemoryRow]
    <3>1. PICK again \in BOOLEAN : memory' = [memory EXCEPT ![n].retry = @ \/ again]
          BY <1>3 DEF ApplyFails
    <3> QED BY <1>0, <3>1, MemoryStepTyped DEF MemoryRow
  <2> QED BY <1>2, <1>3, <2>1 DEF ApplyFails, Typed, MachinesTyped, QueueTyped, PassTyped
<1>4. CASE InstallFails(n)
  <2>1. node' \in [Nodes -> NodeRow]
    <3>1. node' = node \/ node' = [node EXCEPT ![n].file = pass.got[n]]
          BY <1>4 DEF InstallFails
    <3> QED BY <1>0, <3>1 DEF NodeRow
  <2> QED BY <1>2, <1>4, <2>1 DEF InstallFails, Typed, MachinesTyped, QueueTyped, PassTyped
<1>5. CASE RestartUnverified(n)
  <2>1. node' \in [Nodes -> NodeRow]
        BY <1>0, <1>5, NodeStepTyped DEF RestartUnverified
  <2>2. memory' \in [Nodes -> MemoryRow]
        BY <1>0, <1>5, MemoryStepTyped DEF RestartUnverified
  <2> QED BY <1>2, <1>5, <2>1, <2>2 DEF RestartUnverified, Typed, MachinesTyped, QueueTyped, PassTyped
<1>6. CASE RestartFails(n)
  <2>1. node' \in [Nodes -> NodeRow]
    <3>1. PICK up \in BOOLEAN :
            node' = [node EXCEPT ![n].up = up, ![n].run = IF up THEN node[n].file ELSE @]
          BY <1>6 DEF RestartFails
    <3> QED BY <1>0, <3>1, NodeStepTyped
  <2>2. memory' \in [Nodes -> MemoryRow]
        BY <1>0, <1>6, MemoryStepTyped DEF RestartFails
  <2> QED BY <1>2, <1>6, <2>1, <2>2 DEF RestartFails, Typed, MachinesTyped, QueueTyped, PassTyped
<1> QED BY <1>3, <1>4, <1>5, <1>6

\* and the steps that concern the whole pass
LEMMA WholePassTyped ==
  ASSUME Typed, PassFails \/ ListFails \/ End
  PROVE  Typed'
<1>1. \A p \in PassRow : /\ [p EXCEPT !.ok = FALSE, !.at = [n \in Nodes |-> "done"]] \in PassRow
                         /\ [p EXCEPT !.at = [n \in Nodes |-> "done"]] \in PassRow
      BY DEF PassRow, Places
<1>2. pass' \in PassRow
      BY <1>1, RowsTyped DEF PassFails, ListFails, End, Typed, PassTyped
<1>3. CASE PassFails
      BY <1>2, <1>3 DEF PassFails, persistent, sched, history, Typed, MachinesTyped, QueueTyped, PassTyped
<1>4. CASE ListFails
      BY <1>2, <1>4 DEF ListFails, persistent, sched, Typed, MachinesTyped, QueueTyped, PassTyped
<1>5. CASE End
  <2>1. \A d \in DrainRow, b \in BOOLEAN : [d EXCEPT !.pc = "finish", !.ok = b] \in DrainRow
        BY DEF DrainRow, DrainPcs
  <2>2. drain' \in DrainRow
        BY <1>5, <2>1, PassFieldsTyped DEF End, Typed, QueueTyped, PassTyped
  <2> QED BY <1>2, <1>5, <2>2 DEF End, persistent, history, Typed, MachinesTyped, QueueTyped, PassTyped
<1> QED BY <1>3, <1>4, <1>5

\* The watcher, the administrator, the machines and a restart of the panel
LEMMA SurroundingsTyped ==
  ASSUME Typed, Watch \/ PanelRestarts
                \/ \E n \in Nodes : WindowPasses(n) \/ Edit(n) \/ NodeChanges(n)
  PROVE  Typed'
<1> USE DEF persistent, sched, history
<1>1. CASE Watch
  <2>1. alert' \in [Nodes -> BOOLEAN]
        BY <1>1 DEF Watch, WatchTripped, WatchRestart, WatchRecovered, Typed, MachinesTyped
  <2> QED BY <1>1, <2>1 DEF Watch, WatchTripped, WatchRestart, WatchRecovered,
                            Typed, MachinesTyped, QueueTyped, PassTyped
<1>2. CASE PanelRestarts
  <2>1. << >> \in Seq(RequestRow)
        OBVIOUS
  <2> QED BY <1>2, <2>1, RowsTyped DEF PanelRestarts, Typed, MachinesTyped, QueueTyped, PassTyped
<1>3. ASSUME NEW n \in Nodes, WindowPasses(n) PROVE Typed'
      BY <1>3, MemoryStepTyped DEF WindowPasses, Typed, MachinesTyped, QueueTyped, PassTyped
<1>4. ASSUME NEW n \in Nodes, Edit(n) PROVE Typed'
      BY <1>4 DEF Edit, Typed, MachinesTyped, QueueTyped, PassTyped
<1>5. ASSUME NEW n \in Nodes, NodeChanges(n) PROVE Typed'
  <2>1. node' \in [Nodes -> NodeRow] /\ fixed' \in [Nodes -> BOOLEAN]
    <3>1. \/ node' = node
          \/ node' = [node EXCEPT ![n].up = FALSE]
          \/ node' = [node EXCEPT ![n].up = TRUE, ![n].run = node[n].file]
          BY <1>5 DEF NodeChanges
    <3>2. node' \in [Nodes -> NodeRow]
      <4>1. node \in [Nodes -> NodeRow] /\ node[n].file \in Nat
            BY DEF Typed, MachinesTyped, NodeRow
      <4>2. CASE node' = [node EXCEPT ![n].up = FALSE]
            BY <4>1, <4>2 DEF NodeRow
      <4>3. CASE node' = [node EXCEPT ![n].up = TRUE, ![n].run = node[n].file]
            BY <4>1, <4>3 DEF NodeRow
      <4> QED BY <3>1, <4>1, <4>2, <4>3
    <3> QED BY <1>5, <3>2 DEF NodeChanges, Typed, MachinesTyped
  <2> QED BY <1>5, <2>1 DEF NodeChanges, Typed, MachinesTyped, QueueTyped, PassTyped
<1> QED BY <1>1, <1>2, <1>3, <1>4, <1>5

\* Every step keeps the types
LEMMA TypedStep == Typed /\ [Next]_vars => Typed'
<1> SUFFICES ASSUME Typed, [Next]_vars PROVE Typed'
    OBVIOUS
<1>1. CASE Next
      BY <1>1, ScheduleTyped, QueueStepTyped, BeginStepsTyped, ApplyTyped, FaultsTyped,
         WholePassTyped, SurroundingsTyped
      DEF Next, Queue
<1>2. CASE UNCHANGED vars
      BY <1>2 DEF vars, persistent, sched, history, Typed, MachinesTyped, QueueTyped, PassTyped
<1> QED BY <1>1, <1>2
-----------------------------------------------------------------------------
\* The lock has at most one holder, and the queue's goroutine is it exactly while
\* it says so; a pass for all machines is a full pass that verifies them
LockHeld ==
  /\ pass.by = None => pass = NoPass
  /\ pass.by = "drain" <=> drain.pc = "running"
  /\ pass.by = "drain" /\ drain.target = All => pass.full /\ pass.force
  /\ \A n \in pass.blocked : pass.at[n] = "done"

\* Revisions only grow, and a request wants edits that have been made
Numbered ==
  /\ queue.all <= seq /\ drain.req <= seq
  /\ \A i \in DOMAIN asked :
       /\ asked[i].rev <= seq
       /\ \A n \in Nodes : asked[i].edits[n] <= wanted[n]

\* No file is newer than the edits, and a pass never has an older one to install
InOrder(n) ==
  /\ node[n].file <= wanted[n]
  /\ pass.by # None => pass.base[n] <= wanted[n]
  /\ pass.at[n] \in {"build", "install"} => node[n].file <= pass.base[n]
  /\ pass.at[n] \in {"install", "restart"} => pass.base[n] <= pass.got[n] /\ pass.got[n] <= wanted[n]
  /\ pass.at[n] = "restart" => node[n].file = pass.got[n]

ForAll == drain.target = All /\ ~unlisted

\* What the queue's pass for all machines has deployed so far, and what the
\* goroutine knows when it comes to write the outcome
Answered ==
  /\ drain.pc = "running" /\ drain.target = All =>
       \A i \in DOMAIN asked :
         asked[i].target = All /\ asked[i].rev <= drain.req =>
           \A n \in Nodes : asked[i].edits[n] <= pass.base[n]
  /\ drain.pc = "running" /\ ForAll /\ pass.ok =>
       \A n \in Nodes : pass.at[n] = "done" => node[n].file >= pass.base[n]
  /\ drain.pc = "finish" /\ ForAll /\ drain.ok =>
       \A i \in DOMAIN asked :
         asked[i].target = All /\ asked[i].rev <= drain.req =>
           \A n \in Nodes : node[n].file >= asked[i].edits[n]

\* A machine the panel can vouch for runs the file it has
RunsItsFile(n) ==
  n \notin unsure /\ ~memory[n].pending /\ pass.at[n] # "restart" =>
    node[n].run = node[n].file /\ (n \in Local => node[n].up)

IInv ==
  /\ Typed /\ LockHeld /\ Numbered /\ Answered
  /\ \A n \in Nodes : InOrder(n) /\ RunsItsFile(n)

\* What no step that works on one machine touches
OthersKept(n) ==
  /\ wanted' = wanted /\ queue' = queue /\ drain' = drain /\ asked' = asked
  /\ unlisted' = unlisted
  /\ seq' >= seq /\ status'[All] = status[All]
  /\ pass.by # None
  /\ pass'.by = pass.by /\ pass'.full = pass.full /\ pass'.force = pass.force
  /\ pass'.base = pass.base /\ pass'.blocked = pass.blocked
  /\ pass'.ok => pass.ok
  /\ \A m \in Nodes \ {n} :
       /\ node'[m] = node[m] /\ memory'[m] = memory[m]
       /\ pass'.at[m] = pass.at[m] /\ pass'.got[m] = pass.got[m]
       /\ m \in unsure' <=> m \in unsure
       /\ status'[m] = status[m]

PassMoved(n) ==
  /\ pass.by # None
  /\ pass'.by = pass.by /\ pass'.full = pass.full /\ pass'.force = pass.force
  /\ pass'.base = pass.base /\ pass'.blocked = pass.blocked
  /\ pass'.ok => pass.ok
  /\ \A m \in Nodes \ {n} : pass'.at[m] = pass.at[m] /\ pass'.got[m] = pass.got[m]

\* A machine that is being worked on is in the hands of a pass
LEMMA Held == ASSUME IInv, NEW n \in Nodes, pass.at[n] # "out" PROVE pass.by # None
  BY DEF IInv, LockHeld, NoPass

\* Finish ends the work on one machine of the pass and writes no other status
LEMMA FinishShape ==
  ASSUME IInv, NEW n \in Nodes, NEW b \in BOOLEAN, pass.at[n] # "out", Finish(n, b)
  PROVE  /\ PassMoved(n) /\ pass'.at[n] = "done" /\ pass'.ok = (pass.ok /\ b)
         /\ seq' >= seq /\ \A t \in Targets \ {n} : status'[t] = status[t]
         /\ status'[n] # status[n] /\ status'[n].state = "ok" => b
<1>1. pass' = [pass EXCEPT !.at[n] = "done", !.ok = @ /\ b] /\ pass \in PassRow
      BY DEF Finish, IInv, Typed, PassTyped
<1>2. PassMoved(n) /\ pass'.at[n] = "done" /\ pass'.ok = (pass.ok /\ b)
      BY <1>1, Held DEF PassMoved, PassRow
<1>3. seq \in Nat /\ status \in [Targets -> StatusRow] /\ n \in Targets
      BY DEF IInv, Typed, QueueTyped, Targets
<1>4. CASE pass.full
  <2> DEFINE st == [Unknown EXCEPT !.state = IF b THEN "ok" ELSE "failed"]
  <2>1. status' = [status EXCEPT ![n] = [st EXCEPT !.rev = seq + 1]] /\ seq' = seq + 1
        BY <1>4 DEF Finish, Record, SetStatus, Put
  <2>2. st \in StatusRow /\ st.state = IF b THEN "ok" ELSE "failed"
        BY StatusTyped, RowsTyped, OutcomeIsState DEF StatusRow
  <2>3. [st EXCEPT !.rev = seq + 1].state = IF b THEN "ok" ELSE "failed"
        BY <2>2 DEF StatusRow
  <2> HIDE DEF st
  <2> QED BY <1>2, <1>3, <2>1, <2>3
<1>5. CASE ~pass.full
      BY <1>2, <1>3, <1>5 DEF Finish
<1> QED BY <1>4, <1>5

\* What has to be shown of the one machine a step works on
Worked(n) ==
  /\ OthersKept(n)
  /\ node'[n].file >= node[n].file
  /\ n \in pass.blocked => pass'.at[n] = "done"
  /\ InOrder(n)' /\ RunsItsFile(n)'
  /\ drain.pc = "running" /\ ForAll /\ pass'.ok /\ pass'.at[n] = "done" =>
       node'[n].file >= pass.base[n]

\* A recorded request has a revision and the edits it wanted
LEMMA AskedTyped ==
  ASSUME Typed, NEW i \in DOMAIN asked
  PROVE  /\ asked[i] \in RequestRow
         /\ asked[i].rev \in Nat /\ asked[i].edits \in [Nodes -> Nat]
<1>1. asked \in Seq(RequestRow)
      BY DEF Typed, QueueTyped
<1>2. asked[i] \in RequestRow
      BY <1>1
<1> QED BY <1>2 DEF RequestRow

\* A step that does right by its machine preserves the invariant
LEMMA WorkKeepsIInv ==
  ASSUME IInv, Typed', NEW n \in Nodes, Worked(n)
  PROVE  IInv'
<1> USE DEF Worked, OthersKept
<1>0. /\ node \in [Nodes -> NodeRow] /\ node' \in [Nodes -> NodeRow]
      /\ pass \in PassRow /\ pass' \in PassRow /\ wanted \in [Nodes -> Nat]
      /\ \A m \in Nodes : node[m].file \in Nat /\ node'[m].file \in Nat /\ pass.base[m] \in Nat
      BY PassFieldsTyped DEF IInv, Typed, MachinesTyped, PassTyped, NodeRow
<1>1. \A m \in Nodes : node'[m].file >= node[m].file
      BY <1>0
<1>2. LockHeld'
  <2>1. \A m \in pass'.blocked : pass'.at[m] = "done"
        BY <1>0, PassFieldsTyped DEF IInv, LockHeld
  <2> QED BY <2>1 DEF IInv, LockHeld
<1>3. Numbered'
  <2>1. /\ seq \in Nat /\ seq' \in Nat /\ queue.all \in Nat /\ drain.req \in Nat
        /\ \A i \in DOMAIN asked : asked[i].rev \in Nat
        BY AskedTyped DEF IInv, Typed, QueueTyped, DrainRow
  <2> QED BY <2>1 DEF IInv, Numbered
<1>4. Answered'
  <2>1. ASSUME drain.pc = "running" /\ ForAll /\ pass'.ok, NEW m \in Nodes, pass'.at[m] = "done"
        PROVE  node'[m].file >= pass.base[m]
    <3>1. CASE m = n
          BY <2>1, <3>1
    <3>2. CASE m # n
          BY <2>1, <3>2 DEF IInv, Answered
    <3> QED BY <3>1, <3>2
  <2>2. ASSUME drain.pc = "finish" /\ ForAll /\ drain.ok, NEW i \in DOMAIN asked,
               asked[i].target = All /\ asked[i].rev <= drain.req, NEW m \in Nodes
        PROVE  node'[m].file >= asked[i].edits[m]
    <3>1. node[m].file >= asked[i].edits[m]
          BY <2>2 DEF IInv, Answered
    <3>2. asked[i].edits[m] \in Nat
          BY AskedTyped DEF IInv
    <3> QED BY <1>0, <1>1, <3>1, <3>2
  <2> QED BY <2>1, <2>2 DEF IInv, Answered, ForAll
<1>5. \A m \in Nodes : InOrder(m)' /\ RunsItsFile(m)'
  <2> SUFFICES ASSUME NEW m \in Nodes, m # n PROVE InOrder(m)' /\ RunsItsFile(m)'
      BY DEF InOrder, RunsItsFile
  <2> QED BY DEF IInv, InOrder, RunsItsFile
<1> QED BY <1>2, <1>3, <1>4, <1>5 DEF IInv

\* Types of what the work on a machine reads
LEMMA WorkFacts ==
  ASSUME IInv, NEW n \in Nodes
  PROVE  /\ pass \in PassRow /\ memory \in [Nodes -> MemoryRow] /\ node \in [Nodes -> NodeRow]
         /\ status \in [Targets -> StatusRow] /\ seq \in Nat
         /\ wanted[n] \in Nat /\ node[n].file \in Nat /\ pass.base[n] \in Nat /\ pass.got[n] \in Nat
         /\ pass.at[n] \in Places
         /\ All \notin Nodes /\ n \in Targets /\ All \in Targets
  BY PassFieldsTyped, DeployAssumption
     DEF IInv, Typed, PassTyped, MachinesTyped, QueueTyped, NodeRow, DeployAssumption, Targets

\* A machine whose restart a periodic pass may not make is left as it is
LEMMA StoppedWorks ==
  ASSUME IInv, NEW n \in Nodes, StoppedByCircuit(n) PROVE Worked(n)
<1>1. pass.at[n] = "build" /\ Finish(n, FALSE) /\ Frame
      BY DEF StoppedByCircuit, Turn
<1>2. /\ PassMoved(n) /\ pass'.at[n] = "done" /\ ~pass'.ok
      /\ seq' >= seq /\ \A t \in Targets \ {n} : status'[t] = status[t]
      BY <1>1, FinishShape
<1>3. OthersKept(n)
      BY <1>1, <1>2, WorkFacts DEF OthersKept, PassMoved, StoppedByCircuit, Frame, Targets
<1>4. InOrder(n)' /\ RunsItsFile(n)'
      BY <1>1, <1>2 DEF IInv, InOrder, RunsItsFile, PassMoved, StoppedByCircuit, Frame
<1> QED BY <1>2, <1>3, <1>4, WorkFacts DEF Worked, StoppedByCircuit

\* A machine whose wanted bytes are the cached ones is skipped, by a periodic pass only
LEMMA SkipWorks ==
  ASSUME IInv, NEW n \in Nodes, SkipUnchanged(n) PROVE Worked(n)
<1>1. pass.at[n] = "build" /\ Frame /\ pass' = [pass EXCEPT !.at[n] = "done"] /\ ~pass.force
      BY DEF SkipUnchanged, Turn, NeedsApply
<1>2. PassMoved(n) /\ pass'.at[n] = "done" /\ pass'.got = pass.got
      BY <1>1, WorkFacts, Held DEF PassMoved, PassRow
<1>3. OthersKept(n)
  <2>1. UNCHANGED <<node, seq, status, memory, unsure>>
        BY DEF SkipUnchanged
  <2> QED BY <1>1, <1>2, <2>1, WorkFacts DEF OthersKept, PassMoved, Frame
<1>4. InOrder(n)' /\ RunsItsFile(n)'
      BY <1>1, <1>2 DEF IInv, InOrder, RunsItsFile, PassMoved, SkipUnchanged, Frame
<1>5. ~(drain.pc = "running" /\ ForAll)
      BY <1>1 DEF IInv, LockHeld, ForAll
<1> QED BY <1>2, <1>3, <1>4, <1>5, WorkFacts DEF Worked, SkipUnchanged

\* The machine was found to have what it should
LEMMA NothingToDoWorks ==
  ASSUME IInv, NEW n \in Nodes, NothingToDo(n)
  PROVE  /\ Worked(n)
         /\ n \notin unsure' => node'[n].run = node'[n].file /\ node'[n].up
<1>1. PICK v \in Versions(n) : AlreadyHas(n, v) /\ Deployed(n, v, memory[n], << >>, FALSE)
      BY DEF NothingToDo
<1>2. pass.at[n] = "build" /\ Finish(n, TRUE) /\ Frame
      BY <1>1 DEF NothingToDo, Turn, Deployed
<1>3. /\ PassMoved(n) /\ pass'.at[n] = "done" /\ pass'.ok = pass.ok
      /\ seq' >= seq /\ \A t \in Targets \ {n} : status'[t] = status[t]
      BY <1>2, FinishShape, WorkFacts, PassFieldsTyped
<1>4. node[n].file = v /\ v >= pass.base[n] /\ ~memory[n].pending /\ (n \in Local \/ node[n].up)
      BY <1>1, WorkFacts DEF AlreadyHas, Versions
<1>5. memory'[n].pending = memory[n].pending /\ \A m \in Nodes \ {n} : memory'[m] = memory[m]
      BY <1>1, WorkFacts DEF Deployed, MemoryRow
<1>6. OthersKept(n)
      BY <1>2, <1>3, <1>5, WorkFacts DEF OthersKept, PassMoved, NothingToDo, Frame, Targets
<1>7. InOrder(n)' /\ RunsItsFile(n)'
      BY <1>2, <1>3, <1>5 DEF IInv, InOrder, RunsItsFile, PassMoved, NothingToDo, Frame
<1>8. n \notin unsure' => node'[n].run = node'[n].file /\ node'[n].up
      BY <1>2, <1>4 DEF IInv, RunsItsFile, NothingToDo
<1> QED BY <1>2, <1>3, <1>4, <1>6, <1>7, <1>8, WorkFacts DEF Worked, NothingToDo

\* The bytes to install are generated since the pass began
LEMMA CompareWorks ==
  ASSUME IInv, NEW n \in Nodes, Compare(n) PROVE Worked(n)
<1>1. PICK v \in Versions(n) : pass' = [pass EXCEPT !.at[n] = "install", !.got[n] = v]
      BY DEF Compare
<1>2. pass.at[n] = "build" /\ Frame
      BY DEF Compare, Turn
<1>3. PassMoved(n) /\ pass'.at[n] = "install" /\ pass'.got[n] = v
      BY <1>1, <1>2, WorkFacts, Held DEF PassMoved, PassRow
<1>4. OthersKept(n)
      BY <1>2, <1>3, WorkFacts DEF OthersKept, PassMoved, Compare, Frame, Targets
<1>5. InOrder(n)' /\ RunsItsFile(n)'
      BY <1>2, <1>3, WorkFacts DEF IInv, InOrder, RunsItsFile, PassMoved, Compare, Frame, Versions
<1>6. n \notin pass.blocked
      BY <1>2 DEF IInv, LockHeld
<1> QED BY <1>3, <1>4, <1>5, <1>6, WorkFacts DEF Worked, Compare

\* The file is replaced by one that is not older
LEMMA InstallWorks ==
  ASSUME IInv, NEW n \in Nodes, Install(n) PROVE Worked(n)
<1>1. /\ pass.at[n] = "install" /\ Frame
      /\ node' = [node EXCEPT ![n].file = pass.got[n]]
      /\ pass' = [pass EXCEPT !.at[n] = "restart"]
      BY DEF Install
<1>2. PassMoved(n) /\ pass'.at[n] = "restart" /\ pass'.got = pass.got
      BY <1>1, WorkFacts, Held DEF PassMoved, PassRow
<1>3. node'[n].file = pass.got[n] /\ \A m \in Nodes \ {n} : node'[m] = node[m]
      BY <1>1, WorkFacts DEF NodeRow
<1>4. OthersKept(n)
      BY <1>1, <1>2, <1>3, WorkFacts DEF OthersKept, PassMoved, Install, Frame, Targets
<1>5. InOrder(n)' /\ RunsItsFile(n)'
      BY <1>1, <1>2, <1>3, WorkFacts DEF IInv, InOrder, RunsItsFile, PassMoved, Install, Frame
<1>6. n \notin pass.blocked
      BY <1>1 DEF IInv, LockHeld
<1>7. node'[n].file >= node[n].file
      BY <1>1, <1>3, WorkFacts DEF IInv, InOrder
<1> QED BY <1>2, <1>3, <1>4, <1>5, <1>6, <1>7 DEF Worked

\* A restart makes the machine run the file it has
LEMMA RestartWorksWorks ==
  ASSUME IInv, NEW n \in Nodes, RestartWorks(n)
  PROVE  Worked(n) /\ node'[n].run = node'[n].file /\ node'[n].up
<1> DEFINE mem == [AfterRestart(n) EXCEPT !.pending = FALSE]
           news == IF Periodic THEN RestartNews(n) ELSE << >>
<1>1. /\ pass.at[n] = "restart" /\ Frame
      /\ node' = [node EXCEPT ![n].run = node[n].file, ![n].up = TRUE]
      /\ unsure' = unsure \ {n}
      /\ Deployed(n, pass.got[n], mem, news, Opened(n))
      BY DEF RestartWorks
<1>2. /\ PassMoved(n) /\ pass'.at[n] = "done" /\ (pass'.ok => pass.ok)
      /\ seq' >= seq /\ \A t \in Targets \ {n} : status'[t] = status[t]
  <2>1. Finish(n, ~Opened(n))
        BY <1>1 DEF Deployed
  <2> QED BY <1>1, <2>1, FinishShape, OpenedTyped DEF IInv
<1>3. \A m \in Nodes \ {n} : memory'[m] = memory[m]
      BY <1>1, WorkFacts DEF Deployed
<1>4. /\ node'[n].file = node[n].file /\ node'[n].run = node[n].file /\ node'[n].up
      /\ \A m \in Nodes \ {n} : node'[m] = node[m]
      BY <1>1, WorkFacts DEF NodeRow
<1>5. OthersKept(n)
      BY <1>1, <1>2, <1>3, <1>4, WorkFacts DEF OthersKept, PassMoved, Frame, Targets
<1>6. InOrder(n)' /\ RunsItsFile(n)'
      BY <1>1, <1>2, <1>4 DEF IInv, InOrder, RunsItsFile, PassMoved, Frame
<1>7. node[n].file >= pass.base[n]
      BY <1>1, WorkFacts DEF IInv, InOrder
<1> QED BY <1>2, <1>4, <1>5, <1>6, <1>7, WorkFacts DEF Worked

\* An error ends the work on the machine and the pass is not ok
LEMMA FaultWorks ==
  ASSUME IInv, NEW n \in Nodes,
         ApplyFails(n) \/ InstallFails(n) \/ RestartUnverified(n) \/ RestartFails(n)
  PROVE  Worked(n)
<1>1. Finish(n, FALSE) /\ Frame /\ pass.at[n] \in {"build", "install", "restart"}
      BY DEF ApplyFails, InstallFails, RestartUnverified, RestartFails, Turn
<1>2. /\ PassMoved(n) /\ pass'.at[n] = "done" /\ ~pass'.ok
      /\ seq' >= seq /\ \A t \in Targets \ {n} : status'[t] = status[t]
      BY <1>1, FinishShape
<1>3. \A m \in Nodes \ {n} : /\ node'[m] = node[m] /\ memory'[m] = memory[m]
                             /\ m \in unsure' <=> m \in unsure
      BY WorkFacts DEF ApplyFails, InstallFails, RestartUnverified, RestartFails
<1>4. OthersKept(n)
      BY <1>1, <1>2, <1>3, WorkFacts DEF OthersKept, PassMoved, Frame, Targets
<1>5. node'[n].file >= node[n].file /\ node'[n].file <= wanted[n]
  <2>1. node[n].file <= wanted[n]
        BY DEF IInv, InOrder
  <2>2. CASE pass.at[n] = "install" /\ node'[n].file = pass.got[n]
        BY <2>2, WorkFacts DEF IInv, InOrder
  <2>3. node'[n].file = node[n].file \/ (pass.at[n] = "install" /\ node'[n].file = pass.got[n])
    <3>1. CASE InstallFails(n)
          BY <3>1, WorkFacts DEF InstallFails, NodeRow
    <3>2. CASE RestartFails(n)
          BY <3>2, WorkFacts DEF RestartFails, NodeRow
    <3>3. CASE RestartUnverified(n)
          BY <3>3, WorkFacts DEF RestartUnverified, NodeRow
    <3>4. CASE ApplyFails(n)
          BY <3>4 DEF ApplyFails
    <3> QED BY <3>1, <3>2, <3>3, <3>4
  <2> QED BY <2>1, <2>2, <2>3, WorkFacts
<1>6. InOrder(n)'
      BY <1>1, <1>2, <1>5 DEF IInv, InOrder, PassMoved, Frame
<1>7. RunsItsFile(n)'
  <2>1. CASE ApplyFails(n)
    <3>1. memory'[n].pending = memory[n].pending /\ pass.at[n] = "build"
          BY <2>1, WorkFacts DEF ApplyFails, Turn, MemoryRow
    <3> QED BY <2>1, <3>1 DEF ApplyFails, IInv, RunsItsFile
  <2>2. CASE InstallFails(n)
        BY <2>2 DEF InstallFails, IInv, RunsItsFile
  <2>3. CASE RestartUnverified(n)
        BY <2>3, WorkFacts DEF RestartUnverified, RunsItsFile, NodeRow
  <2>4. CASE RestartFails(n)
    <3>1. memory'[n].pending
          BY <2>4, WorkFacts, CountedTyped DEF RestartFails, MemoryRow, IInv
    <3> QED BY <3>1 DEF RunsItsFile
  <2> QED BY <2>1, <2>2, <2>3, <2>4
<1> QED BY <1>2, <1>4, <1>5, <1>6, <1>7 DEF Worked

\* The invariant holds at the start
LEMMA InitIInv == Init => IInv
<1> SUFFICES ASSUME Init PROVE IInv
    OBVIOUS
<1>1. Typed
      BY InitTyped
<1>2. None \notin {"drain", "loop", "http"}
      BY DeployAssumption DEF DeployAssumption
<1>3. pass = NoPass /\ pass.by = None /\ drain.pc = "off" /\ drain.req = 0 /\ pass.blocked = {}
      BY DEF Init, NoPass, NoDrain
<1>4. LockHeld /\ Answered
      BY <1>2, <1>3 DEF LockHeld, Answered
<1>5. Numbered
  <2>1. asked = << >> /\ seq = 0 /\ queue.all = 0
        BY DEF Init
  <2> QED BY <1>3, <2>1 DEF Numbered
<1>6. \A n \in Nodes : InOrder(n) /\ RunsItsFile(n)
      BY <1>3 DEF Init, InOrder, RunsItsFile, NoPass
<1> QED BY <1>1, <1>4, <1>5, <1>6 DEF IInv

\* What leaves machines and passes alone keeps what is said of them
LEMMA MachinesKept ==
  ASSUME IInv, UNCHANGED <<wanted, node, pass, memory, unsure>>
  PROVE  \A n \in Nodes : InOrder(n)' /\ RunsItsFile(n)'
  BY DEF IInv, InOrder, RunsItsFile

\* Types of what the goroutine reads
LEMMA QueueFacts ==
  ASSUME IInv
  PROVE  /\ seq \in Nat
         /\ queue.all \in Nat /\ drain.req \in Nat /\ drain \in DrainRow
         /\ drain.target \in Targets /\ drain.rest \in SUBSET Nodes
         /\ drain.pc \in DrainPcs /\ All \notin Nodes /\ All \in Targets
         /\ \A i \in DOMAIN asked : asked[i].rev \in Nat /\ asked[i].edits \in [Nodes -> Nat]
  BY AskedTyped, DeployAssumption
     DEF IInv, Typed, QueueTyped, DrainRow, DeployAssumption, Targets

\* A request made while a pass runs is above the watermark of that pass
LEMMA ScheduleKeepsIInv ==
  ASSUME IInv, NEW t \in Targets, Schedule(t) PROVE IInv'
<1> DEFINE new == [rev |-> seq + 1, target |-> t, edits |-> wanted]
<1>1. Typed'
      BY ScheduleTyped DEF IInv
<1>2. /\ seq' = seq + 1 /\ seq \in Nat /\ asked' = Append(asked, new)
      /\ UNCHANGED <<wanted, node, fixed, alert, pass, memory, unsure, unlisted>>
      BY DEF Schedule, persistent, IInv, Typed, QueueTyped
<1>3. /\ drain' = drain \/ (drain.pc = "off" /\ drain' = [drain EXCEPT !.pc = "take"])
      /\ queue'.all = queue.all \/ queue'.all = seq + 1
  <2>1. queue \in [all : Nat, servers : SUBSET Nodes]
        BY DEF IInv, Typed, QueueTyped
  <2>2. queue'.all = queue.all \/ queue'.all = seq + 1
    <3>1. CASE t = All
          BY <2>1, <3>1 DEF Schedule
    <3>2. CASE t # All
          BY <2>1, <3>2 DEF Schedule
    <3> QED BY <3>1, <3>2
  <2>3. drain' = IF drain.pc = "off" THEN [drain EXCEPT !.pc = "take"] ELSE drain
        BY DEF Schedule
  <2> QED BY <2>2, <2>3
<1>4. \A i \in DOMAIN asked' : (i \in DOMAIN asked /\ asked'[i] = asked[i]) \/ asked'[i] = new
  <2>1. asked \in Seq(RequestRow)
        BY DEF IInv, Typed, QueueTyped
  <2> QED BY <1>2, <2>1
<1>5. drain'.req = drain.req /\ drain'.target = drain.target /\ drain'.ok = drain.ok
      /\ (drain'.pc = drain.pc \/ (drain.pc = "off" /\ drain'.pc = "take"))
      BY <1>3, QueueFacts DEF DrainRow
<1>6. LockHeld'
      BY <1>2, <1>5 DEF IInv, LockHeld
<1>7. Numbered'
  <2>1. queue'.all <= seq' /\ drain'.req <= seq'
        BY <1>2, <1>3, <1>5, QueueFacts DEF IInv, Numbered
  <2>2. ASSUME NEW i \in DOMAIN asked'
        PROVE  asked'[i].rev <= seq' /\ \A n \in Nodes : asked'[i].edits[n] <= wanted'[n]
    <3>1. CASE asked'[i] = new
          BY <1>2, <3>1 DEF IInv, Typed, MachinesTyped
    <3>2. CASE i \in DOMAIN asked /\ asked'[i] = asked[i]
          BY <1>2, <3>2, QueueFacts DEF IInv, Numbered
    <3> QED BY <1>4, <3>1, <3>2
  <2> QED BY <2>1, <2>2 DEF Numbered
<1>8. Answered'
  <2>1. \A i \in DOMAIN asked' : asked'[i].rev <= drain.req => i \in DOMAIN asked /\ asked'[i] = asked[i]
    <3>1. drain.req <= seq
          BY DEF IInv, Numbered
    <3>2. new.rev = seq + 1
          OBVIOUS
    <3> QED BY <1>2, <1>4, <3>1, <3>2, QueueFacts
  <2> QED BY <1>2, <1>5, <2>1 DEF IInv, Answered, ForAll
<1> QED BY <1>1, <1>2, <1>6, <1>7, <1>8, MachinesKept DEF IInv

\* The pass for a single machine has no watermark
LEMMA PickShape ==
  ASSUME NEW ms \in SUBSET Nodes, NEW d \in Pick(ms)
  PROVE  d.req = 0 /\ d.pc \in {"take", "start"}
<1>1. NoDrain.req = 0
      BY DEF NoDrain
<1>2. CASE ms = {}
      BY <1>1, <1>2, RowsTyped DEF Pick, DrainRow
<1>3. CASE ms # {}
      BY <1>1, <1>3, RowsTyped DEF Pick, DrainRow
<1> QED BY <1>2, <1>3

\* The goroutine takes, starts and finishes outside the lock
LEMMA QueueStepKeepsIInv ==
  ASSUME IInv, DrainTake \/ DrainStart \/ DrainFinish PROVE IInv'
<1>1. Typed'
      BY QueueStepTyped DEF IInv
<1>2. UNCHANGED <<wanted, node, pass, memory, unsure, asked>>
      BY DEF DrainTake, DrainStart, DrainFinish, persistent, history
<1>3. /\ drain.pc \in {"take", "start", "finish"}
      /\ drain'.pc \in {"off", "take", "start", "wait"}
      /\ drain'.req <= seq' /\ queue'.all <= seq' /\ seq' >= seq
  <2>1. CASE DrainTake
    <3>1. CASE queue.all > 0
      <4> DEFINE before == [n \in Nodes |-> status[n].rev]
      <4>1. /\ drain.pc = "take" /\ queue' = [all |-> 0, servers |-> {}] /\ seq' = seq
            /\ drain' = [NoDrain EXCEPT !.pc = "start", !.target = All, !.req = queue.all,
                           !.rest = queue.servers, !.before = before]
            BY <2>1, <3>1 DEF DrainTake
      <4> HIDE DEF before
      <4>2. drain'.pc = "start" /\ drain'.req = queue.all
            BY <4>1 DEF NoDrain
      <4> QED BY <4>1, <4>2, QueueFacts DEF IInv, Numbered
    <3>2. CASE ~(queue.all > 0) /\ queue.servers # {}
          BY <2>1, <3>2, QueueFacts, PickShape DEF DrainTake, IInv, Typed, QueueTyped
    <3>3. CASE ~(queue.all > 0) /\ queue.servers = {}
          BY <2>1, <3>3, QueueFacts DEF DrainTake, NoDrain, IInv
    <3> QED BY <3>1, <3>2, <3>3
  <2>2. CASE DrainStart
        BY <2>2, QueueFacts DEF DrainStart, IInv, Numbered, DrainRow
  <2>3. CASE DrainFinish
    <3> DEFINE heirs == {n \in drain.rest : status[n].rev = drain.before[n]}
    <3>1. Cardinality(heirs) \in Nat
          BY QueueFacts, DeployAssumption, FS_Subset, FS_CardinalityType DEF DeployAssumption
    <3> HIDE DEF heirs
    <3>2. drain.pc = "finish" /\ queue' = queue /\ queue.all <= seq /\ seq \in Nat
          BY <2>3, QueueFacts DEF DrainFinish, IInv, Numbered
    <3>3. CASE drain.target = All
      <4>1. seq' = seq + 1 + Cardinality(heirs) /\ drain' = [NoDrain EXCEPT !.pc = "take"]
            BY <2>3, <3>3 DEF DrainFinish, heirs
      <4>2. drain'.pc = "take" /\ drain'.req = 0
            BY <4>1 DEF NoDrain
      <4> QED BY <3>1, <3>2, <4>1, <4>2, QueueFacts
    <3>4. CASE drain.target # All
      <4>1. seq' = seq + 1 /\ drain' \in Pick(drain.rest)
            BY <2>3, <3>4 DEF DrainFinish, SetStatus
      <4> QED BY <3>2, <4>1, QueueFacts, PickShape
    <3> QED BY <3>3, <3>4
  <2> QED BY <2>1, <2>2, <2>3
<1>4. LockHeld' /\ Answered'
      BY <1>2, <1>3 DEF IInv, LockHeld, Answered
<1>5. Numbered'
  <2>1. seq' \in Nat
        BY <1>1 DEF Typed, QueueTyped
  <2> QED BY <1>2, <1>3, <2>1, QueueFacts DEF IInv, Numbered
<1> QED BY <1>1, <1>2, <1>4, <1>5, MachinesKept DEF IInv

\* A pass that gets the lock reads everything every earlier request wanted
LEMMA BeginKeepsIInv ==
  ASSUME IInv, Typed', NEW by \in {"drain", "loop", "http"}, NEW full \in BOOLEAN,
         NEW force \in BOOLEAN, NEW scope \in SUBSET Nodes,
         Begin(by, full, force, scope),
         UNCHANGED <<wanted, node, queue, unsure, asked, unlisted>>,
         IF by = "drain" THEN drain.pc = "wait" /\ drain' = [drain EXCEPT !.pc = "running"]
                         ELSE drain' = drain,
         by = "drain" /\ drain.target = All => full /\ force /\ scope = Nodes
  PROVE  IInv'
<1>1. /\ pass.by = None /\ pass'.by = by /\ pass'.full = full /\ pass'.force = force
      /\ pass'.blocked = Blocked \cap scope /\ pass'.base = wanted
      /\ \A n \in Nodes : pass'.at[n] = IF n \in scope \ Blocked THEN "build" ELSE "done"
      /\ pass'.ok = (Blocked \cap scope = {})
      BY DEF Begin, NoPass
<1>2. \A n \in Nodes : memory'[n].pending = memory[n].pending
      BY DEF Begin, IInv, Typed, PassTyped, MemoryRow
<1>3. seq \in Nat /\ seq' \in Nat /\ seq' >= seq
      BY QueueFacts DEF Begin
<1>4. \A n \in Nodes : pass.at[n] = "out"
      BY <1>1 DEF IInv, LockHeld, NoPass
<1>5. /\ drain'.req = drain.req /\ drain'.target = drain.target /\ drain'.ok = drain.ok
      /\ drain'.pc = (IF by = "drain" THEN "running" ELSE drain.pc)
      BY QueueFacts DEF DrainRow
<1>6. drain.pc # "running" /\ by # None
  <2>1. pass.by # "drain"
        BY <1>1, DeployAssumption DEF DeployAssumption
  <2> QED BY <2>1, DeployAssumption DEF IInv, LockHeld, DeployAssumption
<1>7. LockHeld'
      BY <1>1, <1>5, <1>6 DEF LockHeld
<1>8. Numbered'
      BY <1>3, <1>5, QueueFacts DEF IInv, Numbered
<1>9. Answered'
  <2>1. CASE by = "drain"
    <3>1. \A i \in DOMAIN asked : \A n \in Nodes : asked[i].edits[n] <= wanted[n]
          BY DEF IInv, Numbered
    <3>2. drain.target = All /\ pass'.ok => \A n \in Nodes : pass'.at[n] = "build"
          BY <1>1, <2>1
    <3> QED BY <1>1, <1>5, <2>1, <3>1, <3>2 DEF Answered, ForAll
  <2>2. CASE by # "drain"
        BY <1>5, <1>6, <2>2 DEF IInv, Answered, ForAll
  <2> QED BY <2>1, <2>2
<1>10. \A n \in Nodes : InOrder(n)'
      BY <1>1 DEF IInv, InOrder, Typed, MachinesTyped, NodeRow
<1>11. \A n \in Nodes : RunsItsFile(n)'
      BY <1>1, <1>2, <1>4 DEF IInv, RunsItsFile
<1> QED BY <1>7, <1>8, <1>9, <1>10, <1>11 DEF IInv

\* Whoever starts it
LEMMA BeginStepsKeepIInv ==
  ASSUME IInv, BeginQueued \/ BeginInline \/ \E force \in BOOLEAN : BeginPeriodic(force)
  PROVE  IInv'
<1> USE DEF persistent, history
<1>1. Typed'
      BY BeginStepsTyped DEF IInv
<1>2. CASE BeginQueued
  <2> DEFINE scope == IF FullScope THEN Nodes ELSE {drain.target}
  <2>1. FullScope \in BOOLEAN /\ scope \in SUBSET Nodes
        BY DeployAssumption, QueueFacts DEF DeployAssumption, FullScope, Targets
  <2>2. drain.target = All => FullScope /\ scope = Nodes
        BY DEF FullScope
  <2>3. /\ drain.pc = "wait" /\ drain' = [drain EXCEPT !.pc = "running"]
        /\ Begin("drain", FullScope, TRUE, scope)
        /\ UNCHANGED <<wanted, node, queue, unsure, asked, unlisted>>
        BY <1>2 DEF BeginQueued
  <2> HIDE DEF scope
  <2> QED BY <1>1, <2>1, <2>2, <2>3, BeginKeepsIInv
<1>3. CASE BeginInline
      BY <1>1, <1>3, BeginKeepsIInv DEF BeginInline
<1>4. ASSUME NEW force \in BOOLEAN, BeginPeriodic(force) PROVE IInv'
      BY <1>1, <1>4, BeginKeepsIInv DEF BeginPeriodic
<1> QED BY <1>2, <1>3, <1>4

\* The end of a pass hands its result to the goroutine it ran for
LEMMA WholePassKeepsIInv ==
  ASSUME IInv, PassFails \/ ListFails \/ End PROVE IInv'
<1> USE DEF persistent, sched, history
<1>1. Typed'
      BY WholePassTyped DEF IInv
<1>2. UNCHANGED <<wanted, node, queue, seq, memory, unsure, asked>>
      BY DEF PassFails, ListFails, End
<1>3. pass \in PassRow
      BY DEF IInv, Typed, PassTyped
<1>4. CASE PassFails \/ ListFails
  <2>1. /\ drain' = drain
        /\ pass'.by = pass.by /\ pass'.full = pass.full /\ pass'.force = pass.force
        /\ pass'.base = pass.base /\ pass'.got = pass.got /\ pass'.blocked = pass.blocked
        /\ \A n \in Nodes : pass'.at[n] = "done"
    <3>1. CASE PassFails
          BY <1>3, <3>1 DEF PassFails, PassRow
    <3>2. CASE ListFails
          BY <1>3, <3>2 DEF ListFails, PassRow
    <3> QED BY <1>4, <3>1, <3>2
  <2>2. pass.by # None
        BY <1>4 DEF PassFails, ListFails
  <2>3. \A n \in Nodes : pass.at[n] # "restart"
    <3>1. CASE PassFails
          BY <3>1 DEF PassFails
    <3>2. CASE ListFails
          BY <3>2 DEF ListFails, IInv, LockHeld
    <3> QED BY <1>4, <3>1, <3>2
  <2>4. ~(drain.pc = "running" /\ drain.target = All /\ ~unlisted' /\ pass'.ok)
    <3>1. CASE PassFails
          BY <1>3, <3>1 DEF PassFails, PassRow
    <3>2. CASE ListFails
          BY <3>2 DEF ListFails, IInv, LockHeld
    <3> QED BY <1>4, <3>1, <3>2
  <2>5. unlisted => unlisted'
        BY <1>4 DEF PassFails, ListFails
  <2>6. LockHeld'
    <3>1. pass'.blocked \in SUBSET Nodes
          BY <1>3, <2>1, PassFieldsTyped
    <3> QED BY <2>1, <2>2, <3>1 DEF IInv, LockHeld
  <2>7. Numbered'
        BY <1>2, <2>1 DEF IInv, Numbered
  <2>8. Answered'
        BY <1>2, <2>1, <2>4, <2>5 DEF IInv, Answered, ForAll
  <2>9. \A n \in Nodes : InOrder(n)' /\ RunsItsFile(n)'
        BY <1>2, <2>1, <2>3 DEF IInv, InOrder, RunsItsFile
  <2> QED BY <1>1, <2>6, <2>7, <2>8, <2>9 DEF IInv
<1>5. CASE End
  <2>1. /\ pass' = NoPass /\ unlisted' = unlisted
        /\ pass.by # None /\ \A n \in Nodes : pass.at[n] = "done"
        BY <1>5 DEF End
  <2>2. pass'.by = None /\ pass'.blocked = {} /\ \A n \in Nodes : pass'.at[n] = "out"
        BY <2>1 DEF NoPass
  <2>3. /\ drain'.req = drain.req /\ drain'.target = drain.target
        /\ drain'.pc = (IF pass.by = "drain" THEN "finish" ELSE drain.pc)
        /\ drain'.ok = (IF pass.by = "drain" THEN pass.ok ELSE drain.ok)
        BY <1>5, QueueFacts DEF End, DrainRow
  <2>4. None # "drain"
        BY DeployAssumption DEF DeployAssumption
  <2>5. LockHeld'
        BY <2>1, <2>2, <2>3, <2>4 DEF IInv, LockHeld
  <2>6. Numbered'
        BY <1>2, <2>3 DEF IInv, Numbered
  <2>7. Answered'
    <3>1. CASE pass.by = "drain"
      <4>1. drain.pc = "running"
            BY <3>1 DEF IInv, LockHeld
      <4>2. ASSUME ForAll, pass.ok, NEW i \in DOMAIN asked,
                   asked[i].target = All, asked[i].rev <= drain.req, NEW n \in Nodes
            PROVE  node[n].file >= asked[i].edits[n]
        <5>1. asked[i].edits[n] <= pass.base[n] /\ node[n].file >= pass.base[n]
              BY <2>1, <4>1, <4>2 DEF IInv, Answered, ForAll
        <5> QED BY <5>1, WorkFacts, QueueFacts
      <4> QED BY <1>2, <2>1, <2>3, <3>1, <4>2 DEF Answered, ForAll
    <3>2. CASE pass.by # "drain"
          BY <1>2, <2>1, <2>3, <3>2 DEF IInv, LockHeld, Answered, ForAll
    <3> QED BY <3>1, <3>2
  <2>8. \A n \in Nodes : InOrder(n)' /\ RunsItsFile(n)'
        BY <1>2, <2>1, <2>2 DEF IInv, InOrder, RunsItsFile
  <2> QED BY <1>1, <2>5, <2>6, <2>7, <2>8 DEF IInv
<1> QED BY <1>4, <1>5

\* Neither the watcher, nor an edit, nor a machine, nor a restart of the panel
LEMMA SurroundingsKeepIInv ==
  ASSUME IInv, Watch \/ PanelRestarts
               \/ \E n \in Nodes : WindowPasses(n) \/ Edit(n) \/ NodeChanges(n)
  PROVE  IInv'
<1> USE DEF persistent, sched, history
<1>1. Typed'
      BY SurroundingsTyped DEF IInv
<1>2. CASE Watch
  <2>1. UNCHANGED <<wanted, node, queue, seq, drain, pass, memory, asked, unsure, unlisted>>
        BY <1>2 DEF Watch, WatchTripped, WatchRestart, WatchRecovered
  <2>2. LockHeld' /\ Numbered' /\ Answered'
        BY <2>1 DEF IInv, LockHeld, Numbered, Answered, ForAll
  <2> QED BY <1>1, <2>1, <2>2, MachinesKept DEF IInv
<1>3. CASE PanelRestarts
  <2>1. /\ pass' = NoPass /\ drain' = NoDrain /\ queue'.all = 0 /\ seq' = 0 /\ asked' = << >>
        /\ UNCHANGED <<wanted, node>>
        /\ unsure' = unsure \cup {n \in Nodes : pass.at[n] = "restart" \/ memory[n].pending}
        BY <1>3 DEF PanelRestarts
  <2>2. /\ pass'.by = None /\ pass'.blocked = {} /\ \A n \in Nodes : pass'.at[n] = "out"
        /\ drain'.pc = "off" /\ drain'.req = 0 /\ None # "drain"
        BY <2>1, DeployAssumption DEF NoPass, NoDrain, DeployAssumption
  <2>3. LockHeld' /\ Numbered' /\ Answered'
        BY <2>1, <2>2 DEF LockHeld, Numbered, Answered
  <2>4. \A n \in Nodes : InOrder(n)' /\ RunsItsFile(n)'
        BY <2>1, <2>2 DEF IInv, InOrder, RunsItsFile
  <2> QED BY <1>1, <2>3, <2>4 DEF IInv
<1>4. ASSUME NEW m \in Nodes, WindowPasses(m) PROVE IInv'
  <2>1. UNCHANGED <<wanted, node, queue, seq, drain, pass, asked, unsure, unlisted>>
        BY <1>4 DEF WindowPasses
  <2>2. \A n \in Nodes : memory'[n].pending = memory[n].pending
        BY <1>4, WorkFacts DEF WindowPasses, MemoryRow
  <2>3. LockHeld' /\ Numbered' /\ Answered'
        BY <2>1 DEF IInv, LockHeld, Numbered, Answered, ForAll
  <2>4. \A n \in Nodes : InOrder(n)' /\ RunsItsFile(n)'
        BY <2>1, <2>2 DEF IInv, InOrder, RunsItsFile
  <2> QED BY <1>1, <2>3, <2>4 DEF IInv
<1>5. ASSUME NEW m \in Nodes, Edit(m) PROVE IInv'
  <2>1. UNCHANGED <<node, queue, seq, drain, pass, memory, asked, unsure, unlisted>>
        BY <1>5 DEF Edit
  <2>2. \A n \in Nodes : wanted[n] \in Nat /\ wanted'[n] \in Nat /\ wanted'[n] >= wanted[n]
        BY <1>5 DEF Edit, IInv, Typed, MachinesTyped
  <2>3. LockHeld' /\ Answered'
        BY <2>1 DEF IInv, LockHeld, Answered, ForAll
  <2>4. Numbered'
        BY <2>1, <2>2, QueueFacts DEF IInv, Numbered
  <2>5. \A n \in Nodes : InOrder(n)' /\ RunsItsFile(n)'
        BY <2>1, <2>2, WorkFacts DEF IInv, InOrder, RunsItsFile
  <2> QED BY <1>1, <2>3, <2>4, <2>5 DEF IInv
<1>6. ASSUME NEW m \in Nodes, NodeChanges(m) PROVE IInv'
  <2>1. UNCHANGED <<wanted, queue, seq, drain, pass, memory, asked, unlisted>>
        BY <1>6 DEF NodeChanges
  <2>2. \A n \in Nodes : node'[n].file = node[n].file
        BY <1>6, WorkFacts DEF NodeChanges, NodeRow
  <2>3. LockHeld' /\ Numbered' /\ Answered'
        BY <2>1, <2>2 DEF IInv, LockHeld, Numbered, Answered, ForAll
  <2>4. \A n \in Nodes : InOrder(n)'
        BY <2>1, <2>2 DEF IInv, InOrder
  <2>5. ASSUME NEW n \in Nodes PROVE RunsItsFile(n)'
    <3>1. \/ node' = [node EXCEPT ![m].up = FALSE]
             /\ unsure' = IF m \in Local THEN unsure \cup {m} ELSE unsure
          \/ node' = [node EXCEPT ![m].up = TRUE, ![m].run = node[m].file] /\ unsure' = unsure \ {m}
          \/ node' = node /\ unsure' = unsure
          BY <1>6 DEF NodeChanges
    <3>2. CASE m = n
          BY <2>1, <3>1, <3>2, WorkFacts DEF IInv, RunsItsFile, NodeRow
    <3>3. CASE m # n
      <4>1. node'[n] = node[n] /\ (n \in unsure' <=> n \in unsure)
            BY <3>1, <3>3, WorkFacts
      <4> QED BY <2>1, <4>1 DEF IInv, RunsItsFile
    <3> QED BY <3>2, <3>3
  <2> QED BY <1>1, <2>3, <2>4, <2>5 DEF IInv
<1> QED BY <1>2, <1>3, <1>4, <1>5, <1>6

\* The work on a machine preserves the invariant
LEMMA ApplyKeepsIInv ==
  ASSUME IInv, NEW n \in Nodes, Apply(n) PROVE IInv'
<1>1. Typed'
      BY ApplyTyped DEF IInv
<1>2. Worked(n)
      BY StoppedWorks, SkipWorks, NothingToDoWorks, CompareWorks, InstallWorks, RestartWorksWorks
      DEF Apply
<1> QED BY <1>1, <1>2, WorkKeepsIInv

\* So does a failure of it
LEMMA FaultsKeepIInv ==
  ASSUME IInv, NEW n \in Nodes,
         ApplyFails(n) \/ InstallFails(n) \/ RestartUnverified(n) \/ RestartFails(n)
  PROVE  IInv'
<1>1. Typed'
      BY FaultsTyped DEF IInv
<1> QED BY <1>1, FaultWorks, WorkKeepsIInv

\* The invariant is inductive
LEMMA NextKeepsIInv == IInv /\ [Next]_vars => IInv'
<1> SUFFICES ASSUME IInv, [Next]_vars PROVE IInv'
    OBVIOUS
<1>1. CASE Next
      BY <1>1, ScheduleKeepsIInv, QueueStepKeepsIInv, BeginStepsKeepIInv, ApplyKeepsIInv,
         FaultsKeepIInv, WholePassKeepsIInv, SurroundingsKeepIInv
      DEF Next, Queue
<1>2. CASE UNCHANGED vars
  <2>1. UNCHANGED <<wanted, node, queue, seq, drain, pass, memory, asked, unsure, unlisted>>
        BY <1>2 DEF vars, persistent, sched, history
  <2>2. Typed'
        BY <1>2, TypedStep DEF IInv
  <2>3. LockHeld' /\ Numbered' /\ Answered'
        BY <2>1 DEF IInv, LockHeld, Numbered, Answered, ForAll
  <2> QED BY <2>1, <2>2, <2>3, MachinesKept DEF IInv
<1> QED BY <1>1, <1>2

\* Typed, LockHeld, Numbered, InOrder, Answered and RunsItsFile always hold
THEOREM AlwaysIInv == Spec => []IInv
  BY InitIInv, NextKeepsIInv, PTL DEF Spec

\* A machine is reported done by a step that works on it, and by no other step
LEMMA DoneByWork ==
  ASSUME IInv, Next, NEW n \in Nodes,
         status'[n].state = "ok", pass'.at[n] # pass.at[n], status'[n].rev # status[n].rev
  PROVE  NothingToDo(n) \/ RestartWorks(n)
<1>1. \A t \in Targets : ~Schedule(t)
      BY DEF Schedule
<1>2. ~Queue \/ BeginQueued
      BY DEF Queue, DrainTake, DrainStart, DrainFinish
<1>3. ASSUME NEW by, NEW full, NEW force, NEW scope, Begin(by, full, force, scope) PROVE FALSE
  <2>1. n \in Targets
        BY DEF Targets
  <2>2. CASE n \in Probed
    <3>1. status'[n] = [Unknown EXCEPT !.state = "failed", !.rev = seq + 1]
          BY <1>3, <2>1, <2>2 DEF Begin
    <3> QED BY <3>1 DEF Unknown
  <2>3. CASE n \notin Probed
        BY <1>3, <2>1, <2>3 DEF Begin
  <2> QED BY <2>2, <2>3
<1>4. ~BeginQueued /\ ~BeginInline /\ \A force : ~BeginPeriodic(force)
      BY <1>3 DEF BeginQueued, BeginInline, BeginPeriodic
<1>5. ~PassFails /\ ~ListFails /\ ~End
      BY DEF PassFails, ListFails, End, sched
<1>6. ~Watch /\ \A m \in Nodes : ~WindowPasses(m) /\ ~Edit(m) /\ ~NodeChanges(m)
      BY DEF Watch, WatchTripped, WatchRestart, WatchRecovered, WindowPasses, Edit, NodeChanges
<1>7. ~PanelRestarts
  <2>1. n \in Targets /\ Unknown.state = ""
        BY DEF Targets, Unknown
  <2> QED BY <2>1 DEF PanelRestarts
<1>8. PICK m \in Nodes : Apply(m) \/ ApplyFails(m) \/ InstallFails(m) \/ RestartUnverified(m) \/ RestartFails(m)
      BY <1>1, <1>2, <1>4, <1>5, <1>6, <1>7 DEF Next
<1>9. m = n
  <2>1. OthersKept(m)
        BY <1>8, FaultWorks, StoppedWorks, SkipWorks, NothingToDoWorks, CompareWorks,
           InstallWorks, RestartWorksWorks DEF Apply, Worked
  <2> QED BY <2>1 DEF OthersKept
<1>10. ~ApplyFails(n) /\ ~InstallFails(n) /\ ~RestartUnverified(n) /\ ~RestartFails(n) /\ ~StoppedByCircuit(n)
  <2>1. SUFFICES ASSUME Finish(n, FALSE), pass.at[n] # "out" PROVE FALSE
        BY DEF ApplyFails, InstallFails, RestartUnverified, RestartFails, StoppedByCircuit, Turn
  <2> QED BY <2>1, FinishShape
<1>11. ~SkipUnchanged(n) /\ ~Compare(n) /\ ~Install(n)
      BY DEF SkipUnchanged, Compare, Install
<1> QED BY <1>8, <1>9, <1>10, <1>11 DEF Apply

\* A machine newly reported done runs the file it has, unless a crash or a silent
\* death of its process makes the panel unable to vouch for it
THEOREM DoneMachinesRun == Spec => OkMeansRunning
<1> DEFINE A == \A n \in Nodes :
       status'[n].state = "ok" /\ pass'.at[n] # pass.at[n] /\ status'[n].rev # status[n].rev
       /\ n \notin unsure' => node'[n].run = node'[n].file /\ node'[n].up
<1>1. IInv /\ [Next]_vars => [A]_vars
  <2> SUFFICES ASSUME IInv, Next, NEW n \in Nodes,
                      status'[n].state = "ok", pass'.at[n] # pass.at[n],
                      status'[n].rev # status[n].rev, n \notin unsure'
               PROVE  node'[n].run = node'[n].file /\ node'[n].up
      OBVIOUS
  <2>1. NothingToDo(n) \/ RestartWorks(n)
        BY DoneByWork
  <2>2. CASE NothingToDo(n)
        BY <2>2, NothingToDoWorks DEF NothingToDo
  <2>3. CASE RestartWorks(n)
        BY <2>3, RestartWorksWorks
  <2> QED BY <2>1, <2>2, <2>3
<1> QED BY <1>1, AlwaysIInv, PTL DEF Spec, OkMeansRunning

\* Only the outcome of the queue's own pass for all machines reports All done
LEMMA AllDoneByFinish ==
  ASSUME IInv, Next, status'[All].state = "ok", status'[All] # status[All]
  PROVE  DrainFinish /\ drain.target = All /\ drain.ok /\ status'[All].req = drain.req
<1>0. All \in Targets /\ All \notin Nodes /\ status \in [Targets -> StatusRow]
      BY DeployAssumption DEF DeployAssumption, Targets, IInv, Typed, QueueTyped
<1>1. ASSUME NEW t \in Targets, NEW st \in StatusRow, st.state # "ok", status' = Put(t, st)
      PROVE  FALSE
  <2>1. CASE t = All
    <3>1. status'[All] = [st EXCEPT !.rev = seq + 1]
          BY <1>0, <1>1, <2>1 DEF Put
    <3> QED BY <1>1, <3>1 DEF StatusRow
  <2>2. CASE t # All
        BY <1>0, <1>1, <2>2 DEF Put
  <2> QED BY <2>1, <2>2
<1>2. ASSUME NEW t \in Targets, Schedule(t) PROVE FALSE
  <2> DEFINE q == IF t = All THEN seq + 1 ELSE 0
             st == [Unknown EXCEPT !.state = "pending", !.req = q]
  <2>1. q \in Nat
        BY QueueFacts
  <2>2. st \in StatusRow /\ st.state = "pending"
        BY <2>1, StatusTyped, RowsTyped, "pending" \in States DEF States, Unknown
  <2>3. status' = Put(t, st)
        BY <1>2 DEF Schedule
  <2> HIDE DEF st
  <2> QED BY <1>1, <2>2, <2>3
<1>3. ~DrainTake
      BY DEF DrainTake
<1>4. ~DrainStart
  <2> DEFINE st == IF drain.target = All
                     THEN [Unknown EXCEPT !.state = "running", !.req = drain.req]
                     ELSE [Unknown EXCEPT !.state = "running"]
  <2>1. st \in StatusRow /\ st.state = "running"
        BY QueueFacts, StatusTyped, RowsTyped, "running" \in States DEF States, Unknown
  <2>2. DrainStart => status' = Put(drain.target, st)
        BY DEF DrainStart
  <2> HIDE DEF st
  <2> QED BY <1>1, <2>1, <2>2, QueueFacts
<1>5. ASSUME NEW by, NEW full, NEW force, NEW scope, Begin(by, full, force, scope) PROVE FALSE
  <2>1. All \notin Probed
        BY <1>0, DeployAssumption DEF Probed, Refused, Blocked, DeployAssumption
  <2> QED BY <1>0, <1>5, <2>1 DEF Begin
<1>6. ~BeginQueued /\ ~BeginInline /\ \A force : ~BeginPeriodic(force)
      BY <1>5 DEF BeginQueued, BeginInline, BeginPeriodic
<1>7. ASSUME NEW m \in Nodes,
             Apply(m) \/ ApplyFails(m) \/ InstallFails(m) \/ RestartUnverified(m) \/ RestartFails(m)
      PROVE  FALSE
  <2>1. OthersKept(m)
        BY <1>7, FaultWorks, StoppedWorks, SkipWorks, NothingToDoWorks, CompareWorks,
           InstallWorks, RestartWorksWorks DEF Apply, Worked
  <2> QED BY <2>1 DEF OthersKept
<1>8. ~PassFails /\ ~ListFails /\ ~End
      BY DEF PassFails, ListFails, End, sched
<1>9. ~Watch /\ \A m \in Nodes : ~WindowPasses(m) /\ ~Edit(m) /\ ~NodeChanges(m)
      BY DEF Watch, WatchTripped, WatchRestart, WatchRecovered, WindowPasses, Edit, NodeChanges, sched
<1>10. ~PanelRestarts
  <2>1. Unknown.state = ""
        BY DEF Unknown
  <2> QED BY <1>0, <2>1 DEF PanelRestarts
<1>11. DrainFinish
      BY <1>2, <1>3, <1>4, <1>6, <1>7, <1>8, <1>9, <1>10 DEF Next, Queue
<1>12. drain.target = All
  <2> DEFINE state == IF drain.ok THEN "ok" ELSE "failed"
             st == [Unknown EXCEPT !.state = state]
  <2>1. CASE drain.target # All
    <3>1. status' = [status EXCEPT ![drain.target] = [st EXCEPT !.rev = seq + 1]]
          BY <1>11, <2>1 DEF DrainFinish, SetStatus, Put
    <3> QED BY <1>0, <2>1, <3>1
  <2> QED BY <2>1
<1>13. status'[All] = [state |-> IF drain.ok THEN "ok" ELSE "failed", rev |-> seq + 1, req |-> drain.req]
      BY <1>0, <1>11, <1>12 DEF DrainFinish
<1> QED BY <1>11, <1>12, <1>13, QueueFacts DEF DrainRow

\* A request for all machines is reported done only if every machine has a file
\* at least as new as the edits the request was made for
THEOREM DoneMeansDeployed == Spec => OkMeansDeployed
<1> DEFINE A == status'[All].state = "ok" /\ status'[All] # status[All] /\ ~unlisted =>
       \A i \in DOMAIN asked :
         asked[i].target = All /\ asked[i].rev <= status'[All].req =>
           \A n \in Nodes : node[n].file >= asked[i].edits[n]
<1>1. IInv /\ [Next]_vars => [A]_vars
  <2> SUFFICES ASSUME IInv, Next, status'[All].state = "ok", status'[All] # status[All], ~unlisted
               PROVE  \A i \in DOMAIN asked :
                        asked[i].target = All /\ asked[i].rev <= status'[All].req =>
                          \A n \in Nodes : node[n].file >= asked[i].edits[n]
      OBVIOUS
  <2>1. DrainFinish /\ drain.target = All /\ drain.ok /\ status'[All].req = drain.req
        BY AllDoneByFinish
  <2>2. drain.pc = "finish"
        BY <2>1 DEF DrainFinish
  <2> QED BY <2>1, <2>2 DEF IInv, Answered, ForAll
<1> QED BY <1>1, AlwaysIInv, PTL DEF Spec, OkMeansDeployed
-----------------------------------------------------------------------------
(* Open circuits are on record.  First, what the queue of events still has   *)
(* to tell the watcher about a machine.                                      *)

EventRow == [kind : {"tripped", "restart", "recovered"}, n : Nodes]
TrackerRow == [hist : Nat, alerted : BOOLEAN]

\* The events of a machine of one kind, whether none of them closes its circuit,
\* the samples and the decisions that come after the last one that does
Of(e, n, kind) == {i \in DOMAIN e : e[i].n = n /\ e[i].kind = kind}
Clear(e, n) == Of(e, n, "recovered") = {}
Live(e, n) == {i \in Of(e, n, "restart") : \A j \in Of(e, n, "recovered") : j < i}
Coming(e, n) == \E i \in Of(e, n, "tripped") : \A j \in Of(e, n, "recovered") : j < i

\* A decision is queued together with the sample it was made from
Paired(e, n) == \A i \in Of(e, n, "tripped") : i + 1 \in Of(e, n, "restart")

\* The queue tells of a machine in e2 what it told in e1
SameNews(e1, e2, n) ==
  /\ Clear(e2, n) = Clear(e1, n) /\ Coming(e2, n) = Coming(e1, n)
  /\ Paired(e1, n) => Paired(e2, n)
  /\ IsFiniteSet(Live(e2, n)) /\ Cardinality(Live(e2, n)) = Cardinality(Live(e1, n))

\* The samples of a machine in a queue are finite in number
LEMMA LiveIsFinite ==
  ASSUME NEW e \in Seq(EventRow), NEW n
  PROVE  IsFiniteSet(Live(e, n)) /\ Cardinality(Live(e, n)) \in Nat
<1>1. Live(e, n) \in SUBSET (1..Len(e))
      BY DEF Live, Of
<1>2. IsFiniteSet(1..Len(e))
      BY FS_Interval
<1> QED BY <1>1, <1>2, FS_Subset, FS_CardinalityType

\* Events of one machine tell nothing of another
LEMMA OthersNews ==
  ASSUME NEW e \in Seq(EventRow), NEW x \in EventRow, NEW n, x.n # n
  PROVE  SameNews(e, Append(e, x), n)
<1>1. \A k : Of(Append(e, x), n, k) = Of(e, n, k)
      BY DEF Of
<1>2. Live(Append(e, x), n) = Live(e, n)
      BY <1>1 DEF Live
<1> QED BY <1>1, <1>2, LiveIsFinite DEF SameNews, Clear, Coming, Paired

\* A sample that is queued
LEMMA SampleNews ==
  ASSUME NEW e \in Seq(EventRow), NEW x \in EventRow, NEW n, x.n = n, x.kind = "restart"
  PROVE  LET e2 == Append(e, x) IN
         /\ Clear(e2, n) = Clear(e, n) /\ Coming(e2, n) = Coming(e, n)
         /\ Paired(e, n) => Paired(e2, n)
         /\ IsFiniteSet(Live(e2, n)) /\ Cardinality(Live(e2, n)) = Cardinality(Live(e, n)) + 1
<1> DEFINE e2 == Append(e, x)
           last == Len(e) + 1
<1>1. /\ Of(e2, n, "restart") = Of(e, n, "restart") \cup {last}
      /\ Of(e2, n, "recovered") = Of(e, n, "recovered")
      /\ Of(e2, n, "tripped") = Of(e, n, "tripped")
      /\ \A j \in Of(e, n, "recovered") : j < last
      /\ last \notin Of(e, n, "restart")
      BY DEF Of
<1>2. Live(e2, n) = Live(e, n) \cup {last} /\ last \notin Live(e, n)
      BY <1>1 DEF Live
<1>3. IsFiniteSet(Live(e2, n)) /\ Cardinality(Live(e2, n)) = Cardinality(Live(e, n)) + 1
      BY <1>2, LiveIsFinite, FS_AddElement
<1> HIDE DEF e2, last
<1> QED BY <1>1, <1>3 DEF Clear, Coming, Paired, e2

\* A decision that is queued with its sample
LEMMA DecisionNews ==
  ASSUME NEW e \in Seq(EventRow), NEW n \in Nodes, Paired(e, n)
  PROVE  LET e2 == Append(Append(e, [kind |-> "tripped", n |-> n]), [kind |-> "restart", n |-> n]) IN
         /\ Clear(e2, n) = Clear(e, n) /\ Coming(e2, n) /\ Paired(e2, n)
         /\ IsFiniteSet(Live(e2, n)) /\ Cardinality(Live(e2, n)) = Cardinality(Live(e, n)) + 1
<1> DEFINE e2 == Append(Append(e, [kind |-> "tripped", n |-> n]), [kind |-> "restart", n |-> n])
           k == Len(e) + 1
<1>0. e2 \in Seq(EventRow) /\ Len(e) \in Nat
      BY DEF EventRow
<1>1. /\ DOMAIN e2 = 1..(Len(e) + 2)
      /\ \A i \in 1..Len(e) : e2[i] = e[i]
      /\ e2[k] = [kind |-> "tripped", n |-> n] /\ e2[k + 1] = [kind |-> "restart", n |-> n]
      BY DEF EventRow
<1> HIDE DEF e2
<1>2. /\ Of(e2, n, "restart") = Of(e, n, "restart") \cup {k + 1}
      /\ Of(e2, n, "recovered") = Of(e, n, "recovered")
      /\ Of(e2, n, "tripped") = Of(e, n, "tripped") \cup {k}
  <2>1. \A kind : \A i : i \in Of(e2, n, kind) <=>
                           \/ i \in Of(e, n, kind)
                           \/ (i = k /\ kind = "tripped")
                           \/ (i = k + 1 /\ kind = "restart")
    <3> TAKE kind, i
    <3>1. CASE i \in 1..Len(e)
          BY <1>0, <1>1, <3>1 DEF Of, k
    <3>2. CASE i \in {k, k + 1}
          BY <1>0, <1>1, <3>2 DEF Of, k
    <3>3. CASE i \notin 1..(Len(e) + 2)
          BY <1>0, <1>1, <3>3 DEF Of, k
    <3>4. 1..(Len(e) + 2) = 1..Len(e) \cup {k, k + 1}
          BY Len(e) \in Nat DEF k
    <3> QED BY <3>1, <3>2, <3>3, <3>4
  <2> HIDE DEF k
  <2>2. \A i : i \in Of(e2, n, "restart") <=> i \in Of(e, n, "restart") \cup {k + 1}
        BY <2>1
  <2>3. \A i : i \in Of(e2, n, "recovered") <=> i \in Of(e, n, "recovered")
        BY <2>1
  <2>4. \A i : i \in Of(e2, n, "tripped") <=> i \in Of(e, n, "tripped") \cup {k}
        BY <2>1
  <2>5. Of(e2, n, "restart") = Of(e, n, "restart") \cup {k + 1}
        BY <2>2
  <2>6. Of(e2, n, "recovered") = Of(e, n, "recovered")
        BY <2>3 DEF Of
  <2>7. Of(e2, n, "tripped") = Of(e, n, "tripped") \cup {k}
        BY <2>4
  <2> QED BY <2>5, <2>6, <2>7
<1>3. \A j \in Of(e, n, "recovered") \cup Of(e, n, "restart") : j \in Nat /\ j < k
      BY <1>0 DEF Of
<1>4. k \in Nat /\ k < k + 1
      BY <1>0
<1> HIDE DEF k
<1>5. Live(e2, n) = Live(e, n) \cup {k + 1} /\ k + 1 \notin Live(e, n)
      BY <1>2, <1>3, <1>4 DEF Live
<1>6. IsFiniteSet(Live(e2, n)) /\ Cardinality(Live(e2, n)) = Cardinality(Live(e, n)) + 1
      BY <1>5, LiveIsFinite, FS_AddElement
<1>7. Clear(e2, n) = Clear(e, n) /\ Coming(e2, n) /\ Paired(e2, n)
      BY <1>2, <1>3, <1>4 DEF Clear, Coming, Paired
<1> QED BY <1>6, <1>7 DEF e2

\* A closing of the circuit that is queued
LEMMA ClosingNews ==
  ASSUME NEW e \in Seq(EventRow), NEW x \in EventRow, NEW n, x.n = n, x.kind = "recovered"
  PROVE  Paired(e, n) => Paired(Append(e, x), n)
<1>1. /\ Of(Append(e, x), n, "restart") = Of(e, n, "restart")
      /\ Of(Append(e, x), n, "tripped") = Of(e, n, "tripped")
      BY DEF Of
<1> QED BY <1>1 DEF Paired

\* The watcher takes the first event: the others move up by one
LEMMA TailPositions ==
  ASSUME NEW e \in Seq(EventRow), e # << >>, NEW n
  PROVE  /\ \A kind, i : i \in Of(Tail(e), n, kind) <=> i \in Nat \ {0} /\ i + 1 \in Of(e, n, kind)
         /\ \A kind : Of(e, n, kind) \subseteq Nat \ {0}
         /\ \A kind : 1 \in Of(e, n, kind) <=> Head(e).n = n /\ Head(e).kind = kind
<1>1. /\ Len(e) \in Nat \ {0} /\ DOMAIN e = 1..Len(e) /\ Head(e) = e[1]
      /\ DOMAIN Tail(e) = 1..(Len(e) - 1)
      /\ \A i \in 1..(Len(e) - 1) : Tail(e)[i] = e[i + 1]
      OBVIOUS
<1>2. ASSUME NEW kind, NEW i
      PROVE  i \in Of(Tail(e), n, kind) <=> i \in Nat \ {0} /\ i + 1 \in Of(e, n, kind)
  <2>1. CASE i \in 1..(Len(e) - 1)
        BY <1>1, <2>1 DEF Of
  <2>2. CASE i \notin 1..(Len(e) - 1)
        BY <1>1, <2>2 DEF Of
  <2> QED BY <2>1, <2>2
<1>3. \A kind : Of(e, n, kind) \subseteq Nat \ {0}
      BY <1>1 DEF Of
<1>4. \A kind : 1 \in Of(e, n, kind) <=> Head(e).n = n /\ Head(e).kind = kind
      BY <1>1 DEF Of
<1> QED BY <1>2, <1>3, <1>4

\* As many of them as there are without the first
LEMMA TailSamples ==
  ASSUME NEW e \in Seq(EventRow), e # << >>, NEW n
  PROVE  /\ \A i : i \in Live(Tail(e), n) <=> i \in Nat \ {0} /\ i + 1 \in Live(e, n)
         /\ IsFiniteSet(Live(Tail(e), n))
         /\ Cardinality(Live(Tail(e), n)) = Cardinality(Live(e, n) \ {1})
<1> DEFINE S == Live(e, n) \ {1}
           T == Live(Tail(e), n)
           f == [i \in S |-> i - 1]
<1>1. \A i : i \in T <=> i \in Nat \ {0} /\ i + 1 \in Live(e, n)
  <2> TAKE i
  <2>1. ASSUME i \in T PROVE i \in Nat \ {0} /\ i + 1 \in Live(e, n)
    <3>1. i \in Nat \ {0} /\ i + 1 \in Of(e, n, "restart")
          BY <2>1, TailPositions DEF Live
    <3>2. ASSUME NEW j \in Of(e, n, "recovered") PROVE j < i + 1
      <4>1. j \in Nat \ {0}
            BY TailPositions
      <4>2. CASE j = 1
            BY <3>1, <4>2
      <4>3. CASE j # 1
        <5>1. j - 1 \in Nat \ {0} /\ (j - 1) + 1 = j
              BY <4>1, <4>3
        <5>2. j - 1 \in Of(Tail(e), n, "recovered")
              BY <5>1, TailPositions
        <5>3. j - 1 < i
              BY <2>1, <5>2 DEF Live
        <5> QED BY <3>1, <4>1, <5>3
      <4> QED BY <4>2, <4>3
    <3> QED BY <3>1, <3>2 DEF Live
  <2>2. ASSUME i \in Nat \ {0}, i + 1 \in Live(e, n) PROVE i \in T
    <3>1. i \in Of(Tail(e), n, "restart")
          BY <2>2, TailPositions DEF Live
    <3>2. ASSUME NEW j \in Of(Tail(e), n, "recovered") PROVE j < i
      <4>1. j \in Nat \ {0} /\ j + 1 \in Of(e, n, "recovered")
            BY TailPositions
      <4>2. j + 1 < i + 1
            BY <2>2, <4>1 DEF Live
      <4> QED BY <2>2, <4>1, <4>2
    <3> QED BY <3>1, <3>2 DEF Live
  <2> QED BY <2>1, <2>2
<1>2. S \subseteq Nat \ {0, 1} /\ T \subseteq Nat \ {0}
      BY <1>1, TailPositions DEF Live
<1>3. IsFiniteSet(S)
      BY LiveIsFinite, FS_RemoveElement
<1>4. \A i \in S : i - 1 \in T
  <2> TAKE i \in S
  <2>1. i - 1 \in Nat \ {0} /\ (i - 1) + 1 = i /\ i \in Live(e, n)
        BY <1>2
  <2> HIDE DEF T
  <2> QED BY <1>1, <2>1
<1>5. \A i \in T : i + 1 \in S
      BY <1>1, <1>2
<1> HIDE DEF S, T
<1>6. f \in Bijection(S, T)
  <2>1. f \in [S -> T]
        BY <1>4
  <2>2. \A a, b \in S : f[a] = f[b] => a = b
        BY <1>2
  <2>3. \A t \in T : \E a \in S : f[a] = t
    <3> TAKE t \in T
    <3>1. t + 1 \in S /\ f[t + 1] = t
          BY <1>2, <1>5
    <3> QED BY <3>1
  <2> QED BY <2>1, <2>2, <2>3 DEF Bijection, Injection, Surjection, IsInjective
<1>7. ExistsBijection(S, T)
      BY <1>6 DEF ExistsBijection
<1>8. IsFiniteSet(T) /\ Cardinality(T) = Cardinality(S)
      BY <1>3, <1>7, FS_Bijection
<1> QED BY <1>1, <1>8 DEF S, T

\* What the queue still tells of a machine once its first event is taken
LEMMA TailNews ==
  ASSUME NEW e \in Seq(EventRow), e # << >>, NEW n
  PROVE  LET h == Head(e)
             e2 == Tail(e)
         IN /\ IsFiniteSet(Live(e2, n)) /\ Cardinality(Live(e2, n)) \in Nat
            /\ Cardinality(Live(e2, n)) =
                 IF h.n = n /\ h.kind = "restart" /\ Clear(e, n)
                   THEN Cardinality(Live(e, n)) - 1 ELSE Cardinality(Live(e, n))
            /\ Paired(e, n) => Paired(e2, n)
            /\ h.n # n \/ h.kind # "recovered" => Clear(e2, n) = Clear(e, n)
            /\ h.n = n /\ h.kind = "recovered" => ~Clear(e, n)
            /\ h.n # n \/ h.kind # "tripped" \/ ~Clear(e, n) => Coming(e2, n) = Coming(e, n)
            /\ h.n = n /\ h.kind = "tripped" /\ Paired(e, n) /\ Clear(e, n) => Live(e2, n) # {}
<1> DEFINE h == Head(e)
           e2 == Tail(e)
<1>0. e2 \in Seq(EventRow)
      OBVIOUS
<1>1. /\ \A kind, i : i \in Of(e2, n, kind) <=> i \in Nat \ {0} /\ i + 1 \in Of(e, n, kind)
      /\ \A kind : Of(e, n, kind) \subseteq Nat \ {0}
      /\ \A kind : 1 \in Of(e, n, kind) <=> h.n = n /\ h.kind = kind
      BY TailPositions
<1>2. /\ \A i : i \in Live(e2, n) <=> i \in Nat \ {0} /\ i + 1 \in Live(e, n)
      /\ IsFiniteSet(Live(e2, n))
      /\ Cardinality(Live(e2, n)) = Cardinality(Live(e, n) \ {1})
      BY TailSamples
<1> HIDE DEF h, e2
<1>3. \A kind, i : i \in Of(e, n, kind) /\ i # 1 => i - 1 \in Of(e2, n, kind) /\ i - 1 \in Nat \ {0}
  <2> TAKE kind, i
  <2> HAVE i \in Of(e, n, kind) /\ i # 1
  <2>1. i - 1 \in Nat \ {0} /\ (i - 1) + 1 = i
        BY <1>1
  <2> QED BY <1>1, <2>1
<1>4. 1 \in Live(e, n) <=> h.n = n /\ h.kind = "restart" /\ Clear(e, n)
  <2>1. 1 \in Live(e, n) <=> h.n = n /\ h.kind = "restart" /\ \A j \in Of(e, n, "recovered") : j < 1
        BY <1>1 DEF Live
  <2>2. (\A j \in Of(e, n, "recovered") : j < 1) <=> Clear(e, n)
        BY <1>1 DEF Clear
  <2> QED BY <2>1, <2>2
<1>5. /\ Cardinality(Live(e2, n)) \in Nat
      /\ Cardinality(Live(e2, n)) =
           IF h.n = n /\ h.kind = "restart" /\ Clear(e, n)
             THEN Cardinality(Live(e, n)) - 1 ELSE Cardinality(Live(e, n))
      BY <1>0, <1>2, <1>4, LiveIsFinite, FS_RemoveElement
<1>6. ASSUME Paired(e, n) PROVE Paired(e2, n)
      BY <1>1, <1>6 DEF Paired
<1>7. ASSUME h.n # n \/ h.kind # "recovered" PROVE Clear(e2, n) = Clear(e, n)
  <2>1. 1 \notin Of(e, n, "recovered")
        BY <1>1, <1>7
  <2> QED BY <1>1, <1>3, <2>1 DEF Clear
<1>8. ASSUME h.n = n, h.kind = "recovered" PROVE ~Clear(e, n)
      BY <1>1, <1>8 DEF Clear
<1>9. ASSUME h.n # n \/ h.kind # "tripped" \/ ~Clear(e, n) PROVE Coming(e2, n) = Coming(e, n)
  <2>1. ASSUME Coming(e2, n) PROVE Coming(e, n)
    <3>1. PICK i \in Of(e2, n, "tripped") : \A j \in Of(e2, n, "recovered") : j < i
          BY <2>1 DEF Coming
    <3>2. i \in Nat \ {0} /\ i + 1 \in Of(e, n, "tripped")
          BY <1>1
    <3>3. ASSUME NEW j \in Of(e, n, "recovered") PROVE j < i + 1
      <4>1. CASE j = 1
            BY <3>2, <4>1
      <4>2. CASE j # 1
        <5>1. j - 1 < i /\ j \in Nat
              BY <1>1, <1>3, <3>1, <4>2
        <5> QED BY <3>2, <5>1
      <4> QED BY <4>1, <4>2
    <3> QED BY <3>2, <3>3 DEF Coming
  <2>2. ASSUME Coming(e, n) PROVE Coming(e2, n)
    <3>1. PICK i \in Of(e, n, "tripped") : \A j \in Of(e, n, "recovered") : j < i
          BY <2>2 DEF Coming
    <3>2. i # 1
      <4>1. CASE ~Clear(e, n)
        <5>1. PICK j \in Of(e, n, "recovered") : TRUE
              BY <4>1 DEF Clear
        <5> QED BY <1>1, <3>1, <5>1
      <4>2. CASE h.n # n \/ h.kind # "tripped"
            BY <1>1, <3>1, <4>2
      <4> QED BY <1>9, <4>1, <4>2
    <3>3. i - 1 \in Of(e2, n, "tripped") /\ i \in Nat
          BY <1>1, <1>3, <3>1, <3>2
    <3>4. ASSUME NEW j \in Of(e2, n, "recovered") PROVE j < i - 1
      <4>1. j \in Nat /\ j + 1 \in Of(e, n, "recovered")
            BY <1>1
      <4>2. j + 1 < i
            BY <3>1, <4>1
      <4> QED BY <3>3, <4>1, <4>2
    <3> QED BY <3>3, <3>4 DEF Coming
  <2>3. Coming(e2, n) \in BOOLEAN /\ Coming(e, n) \in BOOLEAN
        BY DEF Coming
  <2> QED BY <2>1, <2>2, <2>3
<1>10. ASSUME h.n = n, h.kind = "tripped", Paired(e, n), Clear(e, n) PROVE Live(e2, n) # {}
  <2>1. 2 \in Of(e, n, "restart")
    <3>1. 1 + 1 \in Of(e, n, "restart")
          BY <1>1, <1>10 DEF Paired
    <3> QED BY <3>1
  <2>2. 2 \in Live(e, n)
        BY <1>10, <2>1 DEF Live, Clear
  <2>3. 1 \in Nat \ {0} /\ 1 + 1 = 2
        OBVIOUS
  <2> QED BY <1>2, <2>2, <2>3
<1> QED BY <1>2, <1>5, <1>6, <1>7, <1>8, <1>9, <1>10 DEF h, e2

\* The restarts the watcher will have counted once it has read the queue
Seen(e, n, t) == (IF Clear(e, n) THEN t.hist ELSE 0) + Cardinality(Live(e, n))

\* The record of an open circuit is stored or on its way: the decision is queued,
\* or the alert stands and nothing queued resolves it, or, once a write has failed,
\* the samples queued reach the threshold by themselves
OnRecord(e, n, t, a, f) ==
  \/ Coming(e, n)
  \/ Clear(e, n) /\ (a \/ (f >= 1 /\ Live(e, n) # {} /\ Seen(e, n, t) >= Threshold))

\* What ties the controller's count of a machine (m) to the watcher's (t), to the
\* stored alert (a), to the queue of events (e) and to the faults so far (f)
Watched(e, n, t, a, m, f) ==
  /\ t.alerted => a
  /\ m.hist <= Seen(e, n, t) /\ m.hist <= Threshold /\ t.hist <= Threshold
  /\ Paired(e, n)
  /\ m.open /\ f < 1 => m.hist >= Threshold
  /\ m.open /\ f < 2 => OnRecord(e, n, t, a, f)

\* With no news of the machine, and its count kept or its circuit closed
LEMMA NoNewsKeepsWatched ==
  ASSUME NEW e, NEW e2, NEW n, NEW t \in TrackerRow, NEW a \in BOOLEAN,
         NEW m \in MemoryRow, NEW m2 \in MemoryRow, NEW f \in Nat, NEW f2 \in Nat, f2 >= f,
         IsFiniteSet(Live(e, n)), Watched(e, n, t, a, m, f), SameNews(e, e2, n),
         \/ m2.hist = m.hist /\ m2.open = m.open
         \/ m2.hist = 0 /\ ~m2.open
  PROVE  Watched(e2, n, t, a, m2, f2)
<1>1. Seen(e2, n, t) = Seen(e, n, t) /\ Seen(e, n, t) \in Nat
      BY FS_CardinalityType DEF Seen, SameNews, TrackerRow
<1>2. Threshold \in Nat /\ t.hist \in Nat /\ m.hist \in Nat /\ m2.hist \in Nat
      BY DeployAssumption DEF DeployAssumption, TrackerRow, MemoryRow
<1>3. Live(e2, n) # {} <=> Live(e, n) # {}
      BY FS_EmptySet DEF SameNews
<1>4. m2.hist <= Seen(e2, n, t) /\ m2.hist <= Threshold
      BY <1>1, <1>2 DEF Watched
<1>5. m2.open => m.open /\ m2.hist = m.hist
      OBVIOUS
<1>6. m2.open /\ f2 < 1 => m2.hist >= Threshold
  <2>1. f2 < 1 => f < 1
        OBVIOUS
  <2> QED BY <1>5, <2>1 DEF Watched
<1>7. ASSUME m2.open, f2 < 2 PROVE OnRecord(e2, n, t, a, f2)
  <2>1. f < 2
        BY <1>7
  <2>2. OnRecord(e, n, t, a, f)
        BY <1>5, <1>7, <2>1, Zenon DEF Watched
  <2> QED BY <1>1, <1>3, <2>2 DEF OnRecord, SameNews
<1> QED BY <1>4, <1>6, <1>7 DEF Watched, SameNews

\* With a restart that is counted and does not open the circuit
LEMMA SampleKeepsWatched ==
  ASSUME NEW e, NEW e2, NEW n, NEW t \in TrackerRow, NEW a \in BOOLEAN,
         NEW m \in MemoryRow, NEW m2 \in MemoryRow, NEW f \in Nat, NEW f2 \in Nat, f2 >= f,
         Watched(e, n, t, a, m, f), IsFiniteSet(Live(e, n)),
         Clear(e2, n) = Clear(e, n), Coming(e2, n) = Coming(e, n),
         Paired(e, n) => Paired(e2, n), IsFiniteSet(Live(e2, n)),
         Cardinality(Live(e2, n)) = Cardinality(Live(e, n)) + 1,
         m2.hist <= m.hist + 1, m2.hist <= Threshold,
         m2.open => m.open /\ m2.hist >= m.hist
  PROVE  Watched(e2, n, t, a, m2, f2)
<1>1. Seen(e2, n, t) = Seen(e, n, t) + 1 /\ Seen(e, n, t) \in Nat
      BY FS_CardinalityType DEF Seen, TrackerRow
<1>2. Threshold \in Nat /\ t.hist \in Nat /\ m.hist \in Nat /\ m2.hist \in Nat
      BY DeployAssumption DEF DeployAssumption, TrackerRow, MemoryRow
<1>3. Live(e2, n) # {}
      BY FS_CardinalityType, FS_EmptySet
<1>4. m2.hist <= Seen(e2, n, t)
      BY <1>1, <1>2 DEF Watched
<1>5. m2.open /\ f2 < 1 => m2.hist >= Threshold
  <2>1. f2 < 1 => f < 1
        OBVIOUS
  <2>2. m2.open /\ f2 < 1 => m.hist >= Threshold
        BY <2>1 DEF Watched
  <2> QED BY <1>2, <2>2
<1>6. ASSUME m2.open, f2 < 2 PROVE OnRecord(e2, n, t, a, f2)
  <2>1. f < 2
        BY <1>6
  <2>2. OnRecord(e, n, t, a, f)
        BY <1>6, <2>1, Zenon DEF Watched
  <2>3. Seen(e, n, t) >= Threshold => Seen(e2, n, t) >= Threshold
        BY <1>1, <1>2
  <2> QED BY <1>3, <2>2, <2>3 DEF OnRecord
<1>7. Paired(e2, n) /\ (t.alerted => a) /\ t.hist <= Threshold
      BY DEF Watched
<1> QED BY <1>4, <1>5, <1>6, <1>7 DEF Watched

\* With the restart that opens the circuit, and the decision before it
LEMMA DecisionKeepsWatched ==
  ASSUME NEW e, NEW e2, NEW n, NEW t \in TrackerRow, NEW a \in BOOLEAN,
         NEW m \in MemoryRow, NEW m2 \in MemoryRow, NEW f \in Nat, NEW f2 \in Nat,
         Watched(e, n, t, a, m, f), IsFiniteSet(Live(e, n)),
         Clear(e2, n) = Clear(e, n), Coming(e2, n), Paired(e2, n), IsFiniteSet(Live(e2, n)),
         Cardinality(Live(e2, n)) = Cardinality(Live(e, n)) + 1,
         m2.hist <= m.hist + 1, m2.hist <= Threshold, m2.open => m2.hist >= Threshold
  PROVE  Watched(e2, n, t, a, m2, f2)
<1>1. Seen(e2, n, t) = Seen(e, n, t) + 1 /\ Seen(e, n, t) \in Nat
      BY FS_CardinalityType DEF Seen, TrackerRow
<1>2. m2.hist <= Seen(e2, n, t)
      BY <1>1 DEF Watched, MemoryRow
<1>3. (t.alerted => a) /\ t.hist <= Threshold
      BY DEF Watched
<1> QED BY <1>2, <1>3 DEF Watched, OnRecord

\* With the news that its circuit was closed
LEMMA ClosingKeepsWatched ==
  ASSUME NEW e, NEW e2, NEW n, NEW t \in TrackerRow, NEW a \in BOOLEAN,
         NEW m \in MemoryRow, NEW m2, NEW f, NEW f2,
         Watched(e, n, t, a, m, f), IsFiniteSet(Live(e2, n)),
         Paired(e2, n), m2.hist = 0, ~m2.open
  PROVE  Watched(e2, n, t, a, m2, f2)
<1>1. Seen(e2, n, t) \in Nat /\ Threshold \in Nat
      BY FS_CardinalityType, DeployAssumption DEF Seen, TrackerRow, DeployAssumption
<1>2. m2.hist <= Seen(e2, n, t) /\ m2.hist <= Threshold
      BY <1>1
<1> QED BY <1>2 DEF Watched

\* When the window slides past its restarts
LEMMA WindowKeepsWatched ==
  ASSUME NEW e, NEW n, NEW t \in TrackerRow, NEW t2 \in TrackerRow, NEW a \in BOOLEAN,
         NEW m \in MemoryRow, NEW m2 \in MemoryRow, NEW f \in Nat,
         Watched(e, n, t, a, m, f), IsFiniteSet(Live(e, n)),
         m2.hist = 0, m2.open = m.open,
         t2.alerted = t.alerted, t2.hist \in {0, t.hist}
  PROVE  Watched(e, n, t2, a, m2, f + 1)
<1>1. Seen(e, n, t2) \in Nat /\ Threshold \in Nat
      BY FS_CardinalityType, DeployAssumption DEF Seen, TrackerRow, DeployAssumption
<1>2. m2.hist <= Seen(e, n, t2) /\ m2.hist <= Threshold
      BY <1>1
<1>3. t2.hist <= Threshold /\ (t2.alerted => a) /\ Paired(e, n)
      BY <1>1 DEF Watched
<1>4. ASSUME m2.open, f + 1 < 2 PROVE OnRecord(e, n, t2, a, f + 1)
  <2>1. f < 2 /\ f < 1 /\ ~(f >= 1)
        BY <1>4
  <2>2. OnRecord(e, n, t, a, f)
        BY <1>4, <2>1, Zenon DEF Watched
  <2>3. Coming(e, n) \/ (Clear(e, n) /\ a)
        BY <2>1, <2>2 DEF OnRecord
  <2> QED BY <2>3 DEF OnRecord
<1>5. ~(f + 1 < 1)
      OBVIOUS
<1> QED BY <1>2, <1>3, <1>4, <1>5 DEF Watched

\* When the watcher reads a decision, and stores the alert or fails to
LEMMA ReadDecisionKeepsWatched ==
  ASSUME NEW e \in Seq(EventRow), e # << >>, NEW n \in Nodes,
         Head(e).n = n, Head(e).kind = "tripped",
         NEW t \in TrackerRow, NEW t2 \in TrackerRow, NEW a \in BOOLEAN, NEW m \in MemoryRow,
         NEW f \in Nat, NEW w \in BOOLEAN, Watched(e, n, t, a, m, f),
         t2.hist = t.hist, t2.alerted = (t.alerted \/ w)
  PROVE  Watched(Tail(e), n, t2, a \/ w, m, IF w THEN f ELSE f + 1)
<1> DEFINE e2 == Tail(e)
           f2 == IF w THEN f ELSE f + 1
<1>1. /\ Clear(e2, n) = Clear(e, n) /\ Paired(e2, n)
      /\ ~Clear(e, n) => Coming(e2, n) = Coming(e, n)
      /\ Clear(e, n) => Live(e2, n) # {}
      /\ Cardinality(Live(e2, n)) = Cardinality(Live(e, n))
      /\ Cardinality(Live(e, n)) \in Nat
      BY TailNews, LiveIsFinite DEF Watched
<1>2. f2 \in Nat /\ f2 >= f /\ (~w => f2 = f + 1)
      OBVIOUS
<1> HIDE DEF e2, f2
<1>3. Seen(e2, n, t2) = Seen(e, n, t) /\ Seen(e, n, t) \in Nat
      BY <1>1 DEF Seen, TrackerRow
<1>4. Threshold \in Nat /\ m.hist \in Nat
      BY DeployAssumption DEF DeployAssumption, MemoryRow
<1>5. m.hist <= Seen(e2, n, t2) /\ m.hist <= Threshold /\ t2.hist <= Threshold
      BY <1>3 DEF Watched
<1>6. t2.alerted => a \/ w
      BY DEF Watched
<1>7. m.open /\ f2 < 1 => m.hist >= Threshold
  <2>1. f2 < 1 => f < 1
        BY <1>2
  <2> QED BY <2>1 DEF Watched
<1>8. ASSUME m.open, f2 < 2 PROVE OnRecord(e2, n, t2, a \/ w, f2)
  <2>1. f < 2
        BY <1>2, <1>8
  <2>2. OnRecord(e, n, t, a, f)
        BY <1>8, <2>1, Zenon DEF Watched
  <2>3. CASE ~Clear(e, n)
        BY <1>1, <2>2, <2>3 DEF OnRecord
  <2>4. CASE Clear(e, n) /\ w
        BY <1>1, <2>4 DEF OnRecord
  <2>5. CASE Clear(e, n) /\ ~w
    <3>1. f < 1 /\ f2 >= 1
          BY <1>2, <1>8, <2>5
    <3>2. m.hist >= Threshold
          BY <1>8, <3>1, Zenon DEF Watched
    <3>3. Seen(e2, n, t2) >= Threshold
          BY <1>3, <1>4, <1>5, <3>2
    <3> QED BY <1>1, <2>5, <3>1, <3>3 DEF OnRecord
  <2> QED BY <2>3, <2>4, <2>5
<1> QED BY <1>1, <1>5, <1>6, <1>7, <1>8 DEF Watched, e2, f2

\* When it reads a sample, counts it, and fires if its own count says so
LEMMA ReadSampleKeepsWatched ==
  ASSUME NEW e \in Seq(EventRow), e # << >>, NEW n \in Nodes,
         Head(e).n = n, Head(e).kind = "restart",
         NEW t \in TrackerRow, NEW t2 \in TrackerRow, NEW a \in BOOLEAN, NEW m \in MemoryRow,
         NEW a2 \in BOOLEAN, NEW f \in Nat, NEW f2 \in Nat, f2 >= f,
         Watched(e, n, t, a, m, f),
         t2.hist = (IF t.hist < Threshold THEN t.hist + 1 ELSE Threshold),
         a => a2, t2.alerted => t.alerted \/ a2,
         t2.hist >= Threshold /\ ~t.alerted => a2 \/ f2 = f + 1
  PROVE  Watched(Tail(e), n, t2, a2, m, f2)
<1> DEFINE e2 == Tail(e)
<1>1. /\ Clear(e2, n) = Clear(e, n) /\ Paired(e2, n) /\ Coming(e2, n) = Coming(e, n)
      /\ Cardinality(Live(e2, n)) =
           IF Clear(e, n) THEN Cardinality(Live(e, n)) - 1 ELSE Cardinality(Live(e, n))
      /\ Cardinality(Live(e, n)) \in Nat /\ Cardinality(Live(e2, n)) \in Nat
      /\ IsFiniteSet(Live(e2, n))
      BY TailNews, LiveIsFinite DEF Watched
<1>2. f2 >= f /\ (t2.hist >= Threshold /\ ~t.alerted /\ ~a2 => f2 = f + 1)
      OBVIOUS
<1> HIDE DEF e2
<1>3. Threshold \in Nat /\ m.hist \in Nat /\ t.hist \in Nat /\ t2.hist \in Nat
      BY DeployAssumption DEF DeployAssumption, MemoryRow, TrackerRow
<1>4. t.hist <= Threshold /\ m.hist <= Threshold /\ m.hist <= Seen(e, n, t) /\ (t.alerted => a)
      BY DEF Watched
<1>5. t2.hist <= Threshold /\ (t2.alerted => a2)
      BY <1>3, <1>4
<1>6. /\ Seen(e2, n, t2) \in Nat /\ Seen(e, n, t) \in Nat
      /\ Seen(e2, n, t2) = Seen(e, n, t) \/ Seen(e2, n, t2) >= Threshold
  <2>1. CASE Clear(e, n)
    <3> DEFINE c == Cardinality(Live(e, n))
               c2 == Cardinality(Live(e2, n))
    <3>1. Seen(e2, n, t2) = t2.hist + c2 /\ Seen(e, n, t) = t.hist + c
          BY <1>1, <2>1 DEF Seen
    <3>2. c \in Nat /\ c2 \in Nat /\ c2 = c - 1
          BY <1>1, <2>1
    <3> HIDE DEF c, c2
    <3>3. CASE t.hist < Threshold
      <4>1. t2.hist = t.hist + 1
            BY <3>3
      <4> QED BY <1>3, <3>1, <3>2, <4>1
    <3>4. CASE ~(t.hist < Threshold)
      <4>1. t2.hist = Threshold
            BY <3>4
      <4> QED BY <1>3, <3>1, <3>2, <4>1
    <3> QED BY <3>3, <3>4
  <2>2. CASE ~Clear(e, n)
        BY <1>1, <1>3, <2>2 DEF Seen
  <2> QED BY <2>1, <2>2
<1>7. m.hist <= Seen(e2, n, t2)
      BY <1>3, <1>4, <1>6
<1>8. m.open /\ f2 < 1 => m.hist >= Threshold
  <2>1. f2 < 1 => f < 1
        BY <1>2
  <2> QED BY <2>1 DEF Watched
<1>9. ASSUME m.open, f2 < 2 PROVE OnRecord(e2, n, t2, a2, f2)
  <2>1. f < 2
        BY <1>2, <1>9
  <2>2. OnRecord(e, n, t, a, f)
        BY <1>9, <2>1, Zenon DEF Watched
  <2>3. CASE Coming(e, n) \/ (Clear(e, n) /\ a)
        BY <1>1, <2>3 DEF OnRecord
  <2>4. CASE Clear(e, n) /\ f >= 1 /\ Seen(e, n, t) >= Threshold
    <3>1. f2 >= 1 /\ Seen(e2, n, t2) >= Threshold
          BY <1>2, <1>3, <1>6, <2>4
    <3>2. CASE Live(e2, n) # {}
          BY <1>1, <2>4, <3>1, <3>2 DEF OnRecord
    <3>3. CASE Live(e2, n) = {}
      <4>1. Seen(e2, n, t2) = t2.hist
            BY <1>1, <1>3, <2>4, <3>3, FS_EmptySet DEF Seen
      <4>2. f2 # f + 1
            BY <1>9, <2>4
      <4>3. t.alerted => a2
            BY <1>4
      <4>4. a2
            BY <1>2, <3>1, <4>1, <4>2, <4>3
      <4> QED BY <1>1, <2>4, <4>4 DEF OnRecord
    <3> QED BY <3>2, <3>3
  <2> QED BY <2>2, <2>3, <2>4 DEF OnRecord
<1> QED BY <1>1, <1>4, <1>5, <1>7, <1>8, <1>9 DEF Watched, e2

\* When it reads that the circuit was closed: the alert is resolved, the count starts anew
LEMMA ReadClosingKeepsWatched ==
  ASSUME NEW e \in Seq(EventRow), e # << >>, NEW n \in Nodes,
         Head(e).n = n, Head(e).kind = "recovered",
         NEW t \in TrackerRow, NEW a, NEW a2, NEW m \in MemoryRow,
         NEW f \in Nat, NEW f2 \in Nat, f2 >= f, Watched(e, n, t, a, m, f)
  PROVE  Watched(Tail(e), n, NoTracker, a2, m, f2)
<1> DEFINE e2 == Tail(e)
<1>1. /\ ~Clear(e, n) /\ Paired(e2, n) /\ Coming(e2, n) = Coming(e, n)
      /\ Cardinality(Live(e2, n)) = Cardinality(Live(e, n))
      /\ Cardinality(Live(e, n)) \in Nat
      BY TailNews, LiveIsFinite DEF Watched
<1> HIDE DEF e2
<1>2. Seen(e2, n, NoTracker) = Seen(e, n, t)
      BY <1>1 DEF Seen, NoTracker
<1>3. Threshold \in Nat
      BY DeployAssumption DEF DeployAssumption
<1>4. m.hist <= Seen(e2, n, NoTracker) /\ m.hist <= Threshold
      BY <1>2 DEF Watched
<1>5. NoTracker.hist <= Threshold /\ ~NoTracker.alerted
      BY <1>3 DEF NoTracker
<1>6. m.open /\ f2 < 1 => m.hist >= Threshold
  <2>1. f2 < 1 => f < 1
        OBVIOUS
  <2> QED BY <2>1 DEF Watched
<1>7. ASSUME m.open, f2 < 2 PROVE OnRecord(e2, n, NoTracker, a2, f2)
  <2>1. f < 2
        BY <1>7
  <2>2. OnRecord(e, n, t, a, f)
        BY <1>7, <2>1, Zenon DEF Watched
  <2> QED BY <1>1, <2>2 DEF OnRecord
<1> QED BY <1>1, <1>4, <1>5, <1>6, <1>7 DEF Watched, e2

WatchTyped ==
  /\ events \in Seq(EventRow)
  /\ tracker \in [Nodes -> TrackerRow]
  /\ budget \in [edits : Nat, faults : Nat, passes : Nat]

AllWatched ==
  \A n \in Nodes : Watched(events, n, tracker[n], alert[n], memory[n], budget.faults)

OpenInv == Typed /\ WatchTyped /\ AllWatched

\* The queue of events has places left for what a step may announce
Roomy == Len(events) + 2 <= QueueSize

\* What a disturbance costs
LEMMA Spending ==
  ASSUME WatchTyped
  PROVE  /\ \A what \in {"edits", "faults", "passes"} : \A max :
              Spend(what, max) => /\ budget' \in [edits : Nat, faults : Nat, passes : Nat]
                                  /\ budget'.faults >= budget.faults
         /\ Fault => budget'.faults = budget.faults + 1
         /\ budget.faults \in Nat
<1>1. budget \in [edits : Nat, faults : Nat, passes : Nat]
      BY DEF WatchTyped
<1>2. ASSUME NEW max, Spend("edits", max)
      PROVE  budget' \in [edits : Nat, faults : Nat, passes : Nat] /\ budget'.faults >= budget.faults
      BY <1>1, <1>2 DEF Spend
<1>3. ASSUME NEW max, Spend("faults", max)
      PROVE  /\ budget' \in [edits : Nat, faults : Nat, passes : Nat]
             /\ budget'.faults = budget.faults + 1 /\ budget'.faults >= budget.faults
      BY <1>1, <1>3 DEF Spend
<1>4. ASSUME NEW max, Spend("passes", max)
      PROVE  budget' \in [edits : Nat, faults : Nat, passes : Nat] /\ budget'.faults >= budget.faults
      BY <1>1, <1>4 DEF Spend
<1> QED BY <1>1, <1>2, <1>3, <1>4 DEF Fault

\* Nothing is recorded and nothing watched when the panel starts
LEMMA NothingWatched ==
  ASSUME NEW a, NEW f, NEW n \in Nodes
  PROVE  Watched(<< >>, n, [k \in Nodes |-> NoTracker][n], a, [k \in Nodes |-> Blank][n], f)
<1>1. /\ NoTracker.hist = 0 /\ ~NoTracker.alerted
      /\ Blank.hist = 0 /\ ~Blank.open
      BY DEF NoTracker, Blank
<1>2. Of(<< >>, n, "tripped") = {} /\ Of(<< >>, n, "recovered") = {}
      BY DEF Of
<1>3. << >> \in Seq(EventRow)
      OBVIOUS
<1>4. Cardinality(Live(<< >>, n)) \in Nat
      BY <1>3, LiveIsFinite
<1>5. Threshold \in Nat
      BY DeployAssumption DEF DeployAssumption
<1>6. Seen(<< >>, n, NoTracker) \in Nat
      BY <1>1, <1>4 DEF Seen
<1> QED BY <1>1, <1>2, <1>5, <1>6 DEF Watched, Paired

\* Every row has its type
LEMMA WatchFacts ==
  ASSUME OpenInv, NEW n \in Nodes
  PROVE  /\ events \in Seq(EventRow) /\ tracker[n] \in TrackerRow /\ alert[n] \in BOOLEAN
         /\ memory[n] \in MemoryRow /\ budget.faults \in Nat
         /\ Watched(events, n, tracker[n], alert[n], memory[n], budget.faults)
         /\ IsFiniteSet(Live(events, n)) /\ SameNews(events, events, n)
<1>1. events \in Seq(EventRow)
      BY DEF OpenInv, WatchTyped
<1>2. IsFiniteSet(Live(events, n)) /\ SameNews(events, events, n)
      BY <1>1, LiveIsFinite DEF SameNews
<1> QED BY <1>1, <1>2 DEF OpenInv, AllWatched, Typed, MachinesTyped, PassTyped, WatchTyped

\* A step that announces nothing and leaves the counts and the circuits alone
LEMMA QuietStep ==
  ASSUME OpenInv, Typed', UNCHANGED <<events, tracker, alert>>,
         budget' \in [edits : Nat, faults : Nat, passes : Nat], budget'.faults >= budget.faults,
         \A n \in Nodes : memory'[n].hist = memory[n].hist /\ memory'[n].open = memory[n].open
  PROVE  OpenInv'
<1>1. WatchTyped'
      BY DEF OpenInv, WatchTyped
<1>2. ASSUME NEW n \in Nodes
      PROVE  Watched(events, n, tracker[n], alert[n], memory'[n], budget'.faults)
  <2>1. memory'[n] \in MemoryRow /\ budget'.faults \in Nat
        BY DEF Typed, PassTyped
  <2> QED BY <2>1, WatchFacts, NoNewsKeepsWatched
<1> QED BY <1>1, <1>2 DEF OpenInv, AllWatched

\* What a step may announce of a machine
NewsOf(n) ==
  {<< >>, <<[kind |-> "recovered", n |-> n]>>, <<[kind |-> "restart", n |-> n]>>,
   <<[kind |-> "tripped", n |-> n], [kind |-> "restart", n |-> n]>>}

\* With room left, all of it is queued, and it tells nothing of other machines
LEMMA Announced ==
  ASSUME OpenInv, Roomy, NEW n \in Nodes, NEW news \in NewsOf(n), Notify(news)
  PROVE  /\ events' \in Seq(EventRow)
         /\ \A m \in Nodes \ {n} : SameNews(events, events', m)
         /\ news = << >> => events' = events
         /\ \A x \in EventRow : news = <<x>> => events' = Append(events, x)
         /\ \A x, y \in EventRow : news = <<x, y>> => events' = Append(Append(events, x), y)
<1>0. events \in Seq(EventRow) /\ QueueSize \in Nat /\ Len(events) \in Nat
      BY DeployAssumption DEF OpenInv, WatchTyped, DeployAssumption
<1> DEFINE trip == [kind |-> "tripped", n |-> n]
           sample == [kind |-> "restart", n |-> n]
           closing == [kind |-> "recovered", n |-> n]
<1>1. trip \in EventRow /\ sample \in EventRow /\ closing \in EventRow
      BY DEF EventRow
<1>2. Len(news) \in {0, 1, 2} /\ news \in Seq(EventRow)
  <2> HIDE DEF trip, sample, closing
  <2>1. news \in {<< >>, <<closing>>, <<sample>>, <<trip, sample>>}
        BY DEF NewsOf, trip, sample, closing
  <2>2. CASE news = << >>
        BY <2>2
  <2>3. ASSUME NEW x \in EventRow, news = <<x>> PROVE Len(news) \in {0, 1, 2} /\ news \in Seq(EventRow)
        BY <2>3
  <2>4. CASE news = <<trip, sample>>
        BY <1>1, <2>4
  <2> QED BY <1>1, <2>1, <2>2, <2>3, <2>4
<1>3. events' = events \o news
  <2>1. \A a, q \in Nat, b \in {0, 1, 2} : a + 2 <= q => ~(a + b > q)
        OBVIOUS
  <2>2. ~(Len(events) + Len(news) > QueueSize)
        BY <1>0, <1>2, <2>1, Zenon DEF Roomy
  <2> QED BY <2>2 DEF Notify
<1>4. events' \in Seq(EventRow)
      BY <1>0, <1>2, <1>3
<1>5. news = << >> => events' = events
      BY <1>0, <1>3
<1>6. \A x \in EventRow : news = <<x>> => events' = Append(events, x)
      BY <1>0, <1>3
<1>7. \A x, y \in EventRow : news = <<x, y>> => events' = Append(Append(events, x), y)
      BY <1>0, <1>3
<1>8. ASSUME NEW m \in Nodes \ {n} PROVE SameNews(events, events', m)
  <2>1. trip.n # m /\ sample.n # m /\ closing.n # m
        OBVIOUS
  <2>2. CASE news = << >>
        BY <1>5, <2>2, WatchFacts
  <2>3. CASE news = <<closing>>
        BY <1>0, <1>1, <1>6, <2>1, <2>3, OthersNews
  <2>4. CASE news = <<sample>>
        BY <1>0, <1>1, <1>6, <2>1, <2>4, OthersNews
  <2>5. CASE news = <<trip, sample>>
    <3>1. events' = Append(Append(events, trip), sample)
          BY <1>1, <1>7, <2>5
    <3>2. SameNews(events, Append(events, trip), m)
          BY <1>0, <1>1, <2>1, OthersNews
    <3>3. Append(events, trip) \in Seq(EventRow)
          BY <1>0, <1>1
    <3> HIDE DEF trip, sample
    <3>4. SameNews(Append(events, trip), events', m)
          BY <1>1, <2>1, <3>1, <3>3, OthersNews
    <3> QED BY <3>2, <3>4 DEF SameNews
  <2> QED BY <2>2, <2>3, <2>4, <2>5 DEF NewsOf
<1> QED BY <1>4, <1>5, <1>6, <1>7, <1>8

\* A restart counts as one more, at most up to the threshold; it opens the circuit
\* when it reaches it, and is announced accordingly
LEMMA CountedShape ==
  ASSUME OpenInv, NEW n \in Nodes
  PROVE  LET c == Counted(n, memory[n]) IN
         /\ c.hist \in Nat /\ c.hist >= memory[n].hist
         /\ c.hist <= memory[n].hist + 1 /\ c.hist <= Threshold
         /\ memory[n].open => c.open
         /\ c.open => memory[n].open \/ c.hist >= Threshold
<1>1. memory[n] \in MemoryRow /\ memory[n].hist <= Threshold
      BY WatchFacts DEF Watched
<1>2. Threshold \in Nat
      BY DeployAssumption DEF DeployAssumption
<1> DEFINE hist == IF memory[n].hist < Threshold THEN memory[n].hist + 1 ELSE memory[n].hist
           c == Counted(n, memory[n])
<1>3. c.hist = hist /\ c.open = (memory[n].open \/ hist >= Threshold)
      BY <1>1 DEF Counted, MemoryRow
<1>4. hist \in Nat /\ hist >= memory[n].hist /\ hist <= memory[n].hist + 1 /\ hist <= Threshold
      BY <1>1, <1>2 DEF MemoryRow
<1> HIDE DEF hist, c
<1> QED BY <1>3, <1>4 DEF c

\* A step on one machine is right for all of them when it is right for that one
LEMMA OneMachineStep ==
  ASSUME OpenInv, Roomy, Typed', NEW n \in Nodes, NEW m2, NEW news \in NewsOf(n), Notify(news),
         UNCHANGED <<tracker, alert>>, memory' = [memory EXCEPT ![n] = m2],
         budget' \in [edits : Nat, faults : Nat, passes : Nat], budget'.faults >= budget.faults,
         Watched(events', n, tracker[n], alert[n], m2, budget'.faults)
  PROVE  OpenInv'
<1>1. WatchTyped'
      BY Announced DEF OpenInv, WatchTyped
<1>2. ASSUME NEW k \in Nodes
      PROVE  Watched(events', k, tracker[k], alert[k], memory'[k], budget'.faults)
  <2>1. memory \in [Nodes -> MemoryRow]
        BY DEF OpenInv, Typed, PassTyped
  <2>2. CASE k = n
        BY <2>1, <2>2
  <2>3. CASE k # n
    <3>1. memory'[k] = memory[k] /\ SameNews(events, events', k) /\ budget'.faults \in Nat
          BY <2>1, <2>3, Announced
    <3> QED BY <3>1, WatchFacts, NoNewsKeepsWatched
  <2> QED BY <2>2, <2>3
<1> QED BY <1>1, <1>2 DEF OpenInv, AllWatched

\* A pass for this machine alone closes its circuit, whatever it announces
LEMMA ClosingStep ==
  ASSUME OpenInv, Roomy, Typed', NEW n \in Nodes, NEW m2, NEW news \in NewsOf(n), Notify(news),
         UNCHANGED <<tracker, alert>>, memory' = [memory EXCEPT ![n] = m2],
         m2.hist = 0, ~m2.open,
         budget' \in [edits : Nat, faults : Nat, passes : Nat], budget'.faults >= budget.faults
  PROVE  OpenInv'
<1> DEFINE trip == [kind |-> "tripped", n |-> n]
           sample == [kind |-> "restart", n |-> n]
           closing == [kind |-> "recovered", n |-> n]
<1>1. /\ events \in Seq(EventRow) /\ events' \in Seq(EventRow) /\ Paired(events, n)
      /\ trip \in EventRow /\ sample \in EventRow /\ closing \in EventRow
      BY Announced, WatchFacts DEF Watched, EventRow
<1>2. Paired(events', n)
  <2>1. CASE news = << >>
        BY <1>1, <2>1, Announced
  <2>2. CASE news = <<closing>>
        BY <1>1, <2>2, Announced, ClosingNews
  <2>3. CASE news = <<sample>>
        BY <1>1, <2>3, Announced, SampleNews
  <2>4. CASE news = <<trip, sample>>
        BY <1>1, <2>4, Announced, DecisionNews
  <2> QED BY <2>1, <2>2, <2>3, <2>4 DEF NewsOf
<1>3. Watched(events', n, tracker[n], alert[n], m2, budget'.faults)
      BY <1>1, <1>2, WatchFacts, LiveIsFinite, ClosingKeepsWatched
<1> QED BY <1>3, OneMachineStep

\* A counted restart is announced by its sample, after the decision it led to
LEMMA RestartNewsShape ==
  ASSUME NEW n \in Nodes
  PROVE  LET trip == [kind |-> "tripped", n |-> n]
             sample == [kind |-> "restart", n |-> n]
         IN /\ RestartNews(n) = IF Counted(n, memory[n]).open /\ ~memory[n].open
                                 THEN <<trip, sample>> ELSE <<sample>>
            /\ RestartNews(n) \in NewsOf(n) /\ << >> \in NewsOf(n)
<1>1. ASSUME NEW a \in EventRow, NEW b \in EventRow PROVE <<a>> \o <<b>> = <<a, b>>
  <2>1. <<a>> \in Seq(EventRow) /\ <<b>> \in Seq(EventRow) /\ <<a, b>> \in Seq(EventRow)
        OBVIOUS
  <2>2. <<a>> \o <<b>> \in Seq(EventRow) /\ Len(<<a>> \o <<b>>) = 2
        BY <2>1
  <2>3. (<<a>> \o <<b>>)[1] = a /\ (<<a>> \o <<b>>)[2] = b
        BY <2>1
  <2>4. \A s, t \in Seq(EventRow) : Len(s) = 2 /\ Len(t) = 2 /\ s[1] = t[1] /\ s[2] = t[2] => s = t
    <3> TAKE s, t \in Seq(EventRow)
    <3> HAVE Len(s) = 2 /\ Len(t) = 2 /\ s[1] = t[1] /\ s[2] = t[2]
    <3>1. s = [i \in 1..2 |-> s[i]] /\ t = [i \in 1..2 |-> t[i]]
          OBVIOUS
    <3>2. \A i \in 1..2 : s[i] = t[i]
          OBVIOUS
    <3> QED BY <3>1, <3>2
  <2> QED BY <2>1, <2>2, <2>3, <2>4
<1>2. << >> \in NewsOf(n)
      BY DEF NewsOf
<1>3. [kind |-> "tripped", n |-> n] \in EventRow /\ [kind |-> "restart", n |-> n] \in EventRow
      BY DEF EventRow
<1> QED BY <1>1, <1>2, <1>3, Zenon DEF RestartNews, NewsOf

\* A restart is counted and announced
LEMMA RestartStep ==
  ASSUME OpenInv, Roomy, Typed', NEW n \in Nodes, NEW m2 \in MemoryRow,
         Notify(IF Periodic THEN RestartNews(n) ELSE << >>),
         UNCHANGED <<tracker, alert>>, memory' = [memory EXCEPT ![n] = m2],
         m2.hist = AfterRestart(n).hist, m2.open = AfterRestart(n).open,
         budget' \in [edits : Nat, faults : Nat, passes : Nat], budget'.faults >= budget.faults
  PROVE  OpenInv'
<1> DEFINE trip == [kind |-> "tripped", n |-> n]
           sample == [kind |-> "restart", n |-> n]
           news == IF Periodic THEN RestartNews(n) ELSE << >>
<1>0. /\ trip \in EventRow /\ sample \in EventRow /\ news \in NewsOf(n)
      /\ events \in Seq(EventRow) /\ budget.faults \in Nat /\ budget'.faults \in Nat
      BY WatchFacts, RestartNewsShape DEF EventRow
<1>1. CASE ~Periodic
  <2>1. events' = events /\ m2.hist = memory[n].hist /\ m2.open = memory[n].open
        BY <1>0, <1>1, Announced DEF AfterRestart
  <2>2. Watched(events', n, tracker[n], alert[n], m2, budget'.faults)
        BY <1>0, <2>1, WatchFacts, NoNewsKeepsWatched
  <2> QED BY <1>0, <2>2, OneMachineStep
<1>2. CASE Periodic /\ ~(Counted(n, memory[n]).open /\ ~memory[n].open)
  <2>1. events' = Append(events, sample)
        BY <1>0, <1>2, Announced DEF RestartNews
  <2>2. /\ m2.hist >= memory[n].hist /\ m2.hist <= memory[n].hist + 1 /\ m2.hist <= Threshold
        /\ m2.open => memory[n].open
        BY <1>2, CountedShape DEF AfterRestart
  <2>3. Watched(events', n, tracker[n], alert[n], m2, budget'.faults)
    <3> HIDE DEF sample
    <3>1. sample.n = n /\ sample.kind = "restart"
          BY DEF sample
    <3>2. /\ Clear(events', n) = Clear(events, n) /\ Coming(events', n) = Coming(events, n)
          /\ Paired(events, n) => Paired(events', n)
          /\ IsFiniteSet(Live(events', n))
          /\ Cardinality(Live(events', n)) = Cardinality(Live(events, n)) + 1
          BY <1>0, <2>1, <3>1, SampleNews
    <3> QED BY <1>0, <2>2, <3>2, WatchFacts, SampleKeepsWatched
  <2> QED BY <1>0, <2>3, OneMachineStep
<1>3. CASE Periodic /\ Counted(n, memory[n]).open /\ ~memory[n].open
  <2>1. events' = Append(Append(events, trip), sample)
    <3>1. RestartNews(n) = <<trip, sample>>
          BY <1>3, RestartNewsShape
    <3> QED BY <1>0, <1>3, <3>1, Announced
  <2>2. /\ m2.hist <= memory[n].hist + 1 /\ m2.hist <= Threshold
        /\ m2.open => m2.hist >= Threshold
        BY <1>3, CountedShape DEF AfterRestart
  <2>3. Watched(events', n, tracker[n], alert[n], m2, budget'.faults)
    <3>1. /\ Clear(events', n) = Clear(events, n) /\ Coming(events', n) /\ Paired(events', n)
          /\ IsFiniteSet(Live(events', n))
          /\ Cardinality(Live(events', n)) = Cardinality(Live(events, n)) + 1
          BY <1>0, <2>1, WatchFacts, DecisionNews DEF Watched
    <3> QED BY <1>0, <2>2, <3>1, WatchFacts, DecisionKeepsWatched
  <2> QED BY <1>0, <2>3, OneMachineStep
<1> QED BY <1>1, <1>2, <1>3

\* The work on a machine
LEMMA ApplyKeepsOpenInv ==
  ASSUME OpenInv, Roomy, Typed', NEW n \in Nodes, Apply(n)
  PROVE  OpenInv'
<1> USE DEF Frame
<1>0. /\ memory[n] \in MemoryRow /\ AfterRestart(n) \in MemoryRow
      /\ budget \in [edits : Nat, faults : Nat, passes : Nat] /\ budget.faults >= budget.faults
      BY WatchFacts, CountedTyped DEF OpenInv, WatchTyped
<1>1. CASE StoppedByCircuit(n) \/ SkipUnchanged(n) \/ Compare(n) \/ Install(n)
  <2>1. UNCHANGED <<events, tracker, alert, memory, budget>>
        BY <1>1 DEF StoppedByCircuit, SkipUnchanged, Compare, Install
  <2> QED BY <1>0, <2>1, QuietStep
<1>2. ASSUME NEW v, NEW m \in MemoryRow, NEW news \in NewsOf(n), NEW opened,
             Deployed(n, v, m, news, opened), UNCHANGED <<tracker, alert, budget>>, ~pass.full
      PROVE  OpenInv'
  <2> DEFINE known == [m EXCEPT !.desired = v, !.retry = FALSE]
             m2 == [known EXCEPT !.open = FALSE, !.hist = 0]
             told == IF CircuitOpen(n) THEN <<[kind |-> "recovered", n |-> n]>> ELSE news
  <2>1. memory' = [memory EXCEPT ![n] = m2] /\ Notify(told)
        BY <1>2 DEF Deployed
  <2>2. m2.hist = 0 /\ ~m2.open
        BY DEF MemoryRow
  <2>3. told \in NewsOf(n)
        BY DEF NewsOf
  <2> HIDE DEF m2, told
  <2> QED BY <1>0, <1>2, <2>1, <2>2, <2>3, ClosingStep
<1>3. CASE NothingToDo(n)
  <2>1. PICK v \in Versions(n) : Deployed(n, v, memory[n], << >>, FALSE)
        BY <1>3 DEF NothingToDo
  <2>2. UNCHANGED <<tracker, alert, budget>> /\ << >> \in NewsOf(n)
        BY <1>3 DEF NothingToDo, NewsOf
  <2>3. CASE ~pass.full
        BY <1>0, <1>2, <2>1, <2>2, <2>3
  <2>4. CASE pass.full
    <3> DEFINE known == [memory[n] EXCEPT !.desired = v, !.retry = FALSE]
    <3>1. memory' = [memory EXCEPT ![n] = known] /\ Notify(<< >>)
          BY <2>1, <2>4 DEF Deployed
    <3>2. events' = events
          BY <2>2, <3>1, Announced
    <3>3. known.hist = memory[n].hist /\ known.open = memory[n].open
          BY <1>0 DEF MemoryRow
    <3> HIDE DEF known
    <3>4. \A k \in Nodes : memory'[k].hist = memory[k].hist /\ memory'[k].open = memory[k].open
          BY <3>1, <3>3 DEF OpenInv, Typed, PassTyped
    <3> QED BY <1>0, <2>2, <3>2, <3>4, QuietStep
  <2> QED BY <2>3, <2>4
<1>4. CASE RestartWorks(n)
  <2> DEFINE m == [AfterRestart(n) EXCEPT !.pending = FALSE]
             news == IF Periodic THEN RestartNews(n) ELSE << >>
  <2>1. Deployed(n, pass.got[n], m, news, Opened(n)) /\ UNCHANGED <<tracker, alert, budget>>
        BY <1>4 DEF RestartWorks
  <2>2. m \in MemoryRow /\ m.hist = AfterRestart(n).hist /\ m.open = AfterRestart(n).open
        BY <1>0 DEF MemoryRow
  <2>3. news \in NewsOf(n)
        BY RestartNewsShape
  <2> HIDE DEF m
  <2>4. CASE ~pass.full
    <3> HIDE DEF news
    <3> QED BY <1>2, <2>1, <2>2, <2>3, <2>4
  <2>5. CASE pass.full
    <3> DEFINE m2 == [m EXCEPT !.desired = pass.got[n], !.retry = FALSE]
    <3>1. memory' = [memory EXCEPT ![n] = m2] /\ Notify(news)
          BY <2>1, <2>5 DEF Deployed
    <3>2. m2 \in MemoryRow /\ m2.hist = m.hist /\ m2.open = m.open
      <4>1. pass.got[n] \in Nat
            BY PassFieldsTyped DEF OpenInv, Typed, PassTyped
      <4> QED BY <2>2, <4>1 DEF MemoryRow
    <3> HIDE DEF m2
    <3> QED BY <1>0, <2>1, <2>2, <3>1, <3>2, RestartStep
  <2> QED BY <2>4, <2>5
<1> QED BY <1>1, <1>3, <1>4 DEF Apply

\* A failure of that work
LEMMA FaultsKeepOpenInv ==
  ASSUME OpenInv, Roomy, Typed', NEW n \in Nodes,
         ApplyFails(n) \/ InstallFails(n) \/ RestartUnverified(n) \/ RestartFails(n)
  PROVE  OpenInv'
<1> USE DEF Frame
<1>0. /\ memory[n] \in MemoryRow /\ AfterRestart(n) \in MemoryRow /\ memory \in [Nodes -> MemoryRow]
      /\ budget' \in [edits : Nat, faults : Nat, passes : Nat] /\ budget'.faults >= budget.faults
      /\ UNCHANGED <<tracker, alert>>
  <2>1. Fault /\ UNCHANGED <<tracker, alert>>
        BY DEF ApplyFails, InstallFails, RestartUnverified, RestartFails
  <2> QED BY <2>1, WatchFacts, CountedTyped, Spending DEF OpenInv, Fault, Typed, PassTyped
<1>1. CASE ApplyFails(n)
  <2>1. PICK again \in BOOLEAN : memory' = [memory EXCEPT ![n].retry = @ \/ again]
        BY <1>1 DEF ApplyFails
  <2>2. \A k \in Nodes : memory'[k].hist = memory[k].hist /\ memory'[k].open = memory[k].open
        BY <1>0, <2>1 DEF MemoryRow
  <2>3. events' = events
        BY <1>1 DEF ApplyFails
  <2> QED BY <1>0, <2>2, <2>3, QuietStep
<1>2. CASE InstallFails(n)
  <2>1. UNCHANGED <<events, memory>>
        BY <1>2 DEF InstallFails
  <2> QED BY <1>0, <2>1, QuietStep
<1>3. CASE RestartUnverified(n)
  <2> DEFINE m2 == [AfterRestart(n) EXCEPT !.pending = FALSE, !.retry = TRUE]
  <2>1. /\ memory' = [memory EXCEPT ![n] = m2]
        /\ Notify(IF Periodic THEN RestartNews(n) ELSE << >>)
        BY <1>3 DEF RestartUnverified
  <2>2. m2 \in MemoryRow /\ m2.hist = AfterRestart(n).hist /\ m2.open = AfterRestart(n).open
        BY <1>0 DEF MemoryRow
  <2> HIDE DEF m2
  <2> QED BY <1>0, <2>1, <2>2, RestartStep
<1>4. CASE RestartFails(n)
  <2> DEFINE m2 == [AfterRestart(n) EXCEPT !.pending = TRUE]
  <2>1. /\ memory' = [memory EXCEPT ![n] = m2]
        /\ Notify(IF Periodic THEN RestartNews(n) ELSE << >>)
        BY <1>4 DEF RestartFails
  <2>2. m2 \in MemoryRow /\ m2.hist = AfterRestart(n).hist /\ m2.open = AfterRestart(n).open
        BY <1>0 DEF MemoryRow
  <2> HIDE DEF m2
  <2> QED BY <1>0, <2>1, <2>2, RestartStep
<1> QED BY <1>1, <1>2, <1>3, <1>4

\* The queue of passes, the ends of a pass, edits and machines
LEMMA RestKeepsOpenInv ==
  ASSUME OpenInv, Typed',
         \/ \E t \in Targets : Schedule(t)
         \/ Queue \/ BeginInline \/ PassFails \/ ListFails \/ End
         \/ \E force \in BOOLEAN : BeginPeriodic(force)
         \/ \E n \in Nodes : Edit(n) \/ NodeChanges(n)
  PROVE  OpenInv'
<1> USE DEF persistent, sched, history
<1>0. /\ budget \in [edits : Nat, faults : Nat, passes : Nat] /\ budget.faults >= budget.faults
      /\ memory \in [Nodes -> MemoryRow]
      BY WatchFacts DEF OpenInv, WatchTyped, Typed, PassTyped
<1>1. UNCHANGED <<events, tracker, alert>>
      BY DEF Schedule, Queue, DrainTake, DrainStart, DrainFinish, BeginQueued, BeginInline,
             BeginPeriodic, PassFails, ListFails, End, Edit, NodeChanges
<1>2. budget' \in [edits : Nat, faults : Nat, passes : Nat] /\ budget'.faults >= budget.faults
  <2>1. \/ budget' = budget
        \/ \E what \in {"edits", "faults", "passes"} : \E max : Spend(what, max)
        BY DEF Schedule, Queue, DrainTake, DrainStart, DrainFinish, BeginQueued, BeginInline,
               BeginPeriodic, PassFails, ListFails, End, Edit, NodeChanges, Fault
  <2> QED BY <1>0, <2>1, Spending DEF OpenInv
<1>3. \A n \in Nodes : memory'[n].hist = memory[n].hist /\ memory'[n].open = memory[n].open
  <2>1. ASSUME NEW by, NEW full, NEW force, NEW scope, Begin(by, full, force, scope), NEW n \in Nodes
        PROVE  memory'[n].hist = memory[n].hist /\ memory'[n].open = memory[n].open
    <3>1. memory'[n] = [memory[n] EXCEPT !.retry = @ \/ n \in Probed]
          BY <2>1 DEF Begin
    <3> QED BY <1>0, <3>1 DEF MemoryRow
  <2>2. CASE BeginQueued \/ BeginInline \/ \E force \in BOOLEAN : BeginPeriodic(force)
        BY <2>1, <2>2 DEF BeginQueued, BeginInline, BeginPeriodic
  <2>3. CASE ~(BeginQueued \/ BeginInline \/ \E force \in BOOLEAN : BeginPeriodic(force))
    <3>1. memory' = memory
          BY <2>3 DEF Schedule, Queue, DrainTake, DrainStart, DrainFinish, PassFails, ListFails,
                      End, Edit, NodeChanges
    <3> QED BY <3>1
  <2> QED BY <2>2, <2>3
<1> QED BY <1>1, <1>2, <1>3, QuietStep

\* The watcher reads one event
LEMMA WatchKeepsOpenInv ==
  ASSUME OpenInv, Typed', Watch
  PROVE  OpenInv'
<1> DEFINE h == Head(events)
           k == h.n
<1>0. /\ events # << >> /\ events' = Tail(events) /\ UNCHANGED memory
      BY DEF Watch, WatchTripped, WatchRestart, WatchRecovered
<1>1. /\ events \in Seq(EventRow) /\ tracker \in [Nodes -> TrackerRow]
      /\ alert \in [Nodes -> BOOLEAN] /\ memory \in [Nodes -> MemoryRow]
      /\ budget \in [edits : Nat, faults : Nat, passes : Nat] /\ budget.faults \in Nat
      BY DEF OpenInv, WatchTyped, Typed, MachinesTyped, PassTyped
<1>2. h \in EventRow /\ k \in Nodes /\ events' \in Seq(EventRow)
  <2>1. h \in EventRow /\ events' \in Seq(EventRow)
        BY <1>0, <1>1
  <2> QED BY <2>1 DEF EventRow
<1>3. ASSUME NEW w \in BOOLEAN, Write(w)
      PROVE  /\ budget' \in [edits : Nat, faults : Nat, passes : Nat]
             /\ budget'.faults = IF w THEN budget.faults ELSE budget.faults + 1
      BY <1>1, <1>3, Spending DEF Write, OpenInv, Fault
<1>4. ASSUME NEW t2 \in TrackerRow, NEW a2 \in BOOLEAN,
             tracker' = [tracker EXCEPT ![k] = t2], alert' = [alert EXCEPT ![k] = a2],
             budget' \in [edits : Nat, faults : Nat, passes : Nat], budget'.faults >= budget.faults,
             Watched(events', k, t2, a2, memory[k], budget'.faults)
      PROVE  OpenInv'
  <2>1. WatchTyped'
        BY <1>1, <1>2, <1>4 DEF WatchTyped
  <2>2. ASSUME NEW n \in Nodes
        PROVE  Watched(events', n, tracker'[n], alert'[n], memory'[n], budget'.faults)
    <3>1. CASE n = k
          BY <1>0, <1>1, <1>2, <1>4, <3>1
    <3>2. CASE n # k
      <4>1. SameNews(events, events', n)
            BY <1>0, <1>1, <3>2, TailNews DEF SameNews
      <4>2. tracker'[n] = tracker[n] /\ alert'[n] = alert[n] /\ memory'[n] = memory[n]
            BY <1>0, <1>1, <1>4, <3>2
      <4>3. budget'.faults \in Nat
            BY <1>4
      <4> QED BY <1>4, <4>1, <4>2, <4>3, WatchFacts, NoNewsKeepsWatched
    <3> QED BY <3>1, <3>2
  <2> QED BY <2>1, <2>2 DEF OpenInv, AllWatched
<1>5. CASE WatchTripped
  <2>1. PICK w \in BOOLEAN :
          /\ Write(w)
          /\ alert' = [alert EXCEPT ![k] = @ \/ w]
          /\ tracker' = [tracker EXCEPT ![k].alerted = @ \/ w]
        BY <1>5 DEF WatchTripped, Head1
  <2> DEFINE t2 == [tracker[k] EXCEPT !.alerted = @ \/ w]
  <2>2. /\ t2 \in TrackerRow /\ t2.hist = tracker[k].hist
        /\ t2.alerted = (tracker[k].alerted \/ w) /\ tracker' = [tracker EXCEPT ![k] = t2]
        BY <1>1, <1>2, <2>1 DEF TrackerRow
  <2> HIDE DEF t2
  <2>3. h.n = k /\ h.kind = "tripped"
        BY <1>5 DEF WatchTripped, Head1
  <2>4. Watched(events', k, t2, alert[k] \/ w, memory[k], IF w THEN budget.faults ELSE budget.faults + 1)
        BY <1>0, <1>2, <2>2, <2>3, WatchFacts, ReadDecisionKeepsWatched
  <2>5. budget'.faults >= budget.faults /\ alert' = [alert EXCEPT ![k] = alert[k] \/ w]
        BY <1>1, <1>3, <2>1
  <2>6. (alert[k] \/ w) \in BOOLEAN
        OBVIOUS
  <2> QED BY <1>3, <1>4, <2>1, <2>2, <2>4, <2>5, <2>6
<1>6. CASE WatchRestart
  <2> DEFINE hist == IF tracker[k].hist < Threshold THEN tracker[k].hist + 1 ELSE Threshold
             fire == hist >= Threshold /\ ~tracker[k].alerted
  <2>1. PICK w \in BOOLEAN :
          /\ Write(w \/ ~fire)
          /\ alert' = [alert EXCEPT ![k] = @ \/ (fire /\ w)]
          /\ tracker' = [tracker EXCEPT ![k] = [hist |-> hist, alerted |-> @.alerted \/ (fire /\ w)]]
        BY <1>6 DEF WatchRestart, Head1
  <2> DEFINE t2 == [hist |-> hist, alerted |-> tracker[k].alerted \/ (fire /\ w)]
             f2 == IF w \/ ~fire THEN budget.faults ELSE budget.faults + 1
  <2>2. hist \in Nat /\ tracker[k].alerted \in BOOLEAN
        BY <1>1, <1>2, DeployAssumption DEF TrackerRow, DeployAssumption
  <2>3. /\ t2 \in TrackerRow /\ t2.hist = hist
        /\ t2.alerted = (tracker[k].alerted \/ (fire /\ w)) /\ tracker' = [tracker EXCEPT ![k] = t2]
        BY <1>1, <1>2, <2>1, <2>2 DEF TrackerRow
  <2>4. fire \in BOOLEAN /\ f2 \in Nat /\ f2 >= budget.faults
        BY <1>1
  <2>5. budget' \in [edits : Nat, faults : Nat, passes : Nat] /\ budget'.faults = f2
        BY <1>3, <2>1, <2>4
  <2>6. h.n = k /\ h.kind = "restart"
        BY <1>6 DEF WatchRestart, Head1
  <2>7. alert' = [alert EXCEPT ![k] = alert[k] \/ (fire /\ w)] /\ (alert[k] \/ (fire /\ w)) \in BOOLEAN
        BY <2>1
  <2> DEFINE a2 == alert[k] \/ (fire /\ w)
  <2>8. t2.hist = (IF tracker[k].hist < Threshold THEN tracker[k].hist + 1 ELSE Threshold)
        BY <2>3
  <2>9. /\ alert[k] => a2
        /\ t2.alerted => tracker[k].alerted \/ a2
        /\ t2.hist >= Threshold /\ ~tracker[k].alerted => a2 \/ f2 = budget.faults + 1
        BY <2>3
  <2>10. a2 \in BOOLEAN
        BY <2>7
  <2> HIDE DEF t2, a2, f2, fire
  <2>11. Watched(Tail(events), k, t2, a2, memory[k], f2)
        BY <1>0, <1>1, <1>2, <2>3, <2>4, <2>6, <2>8, <2>9, <2>10, WatchFacts, ReadSampleKeepsWatched
  <2> QED BY <1>0, <1>4, <2>3, <2>4, <2>5, <2>7, <2>10, <2>11 DEF a2
<1>7. CASE WatchRecovered
  <2>1. PICK w \in BOOLEAN : Write(w) /\ alert' = [alert EXCEPT ![k] = @ /\ ~w]
        BY <1>7 DEF WatchRecovered, Head1
  <2>2. tracker' = [tracker EXCEPT ![k] = NoTracker] /\ h.n = k /\ h.kind = "recovered"
        BY <1>7 DEF WatchRecovered, Head1
  <2>3. NoTracker \in TrackerRow
        BY DEF NoTracker, TrackerRow
  <2>4. /\ budget' \in [edits : Nat, faults : Nat, passes : Nat]
        /\ budget'.faults >= budget.faults /\ budget'.faults \in Nat
        BY <1>1, <1>3, <2>1
  <2>5. alert' = [alert EXCEPT ![k] = alert[k] /\ ~w] /\ (alert[k] /\ ~w) \in BOOLEAN
        BY <2>1
  <2>6. Watched(events', k, NoTracker, alert[k] /\ ~w, memory[k], budget'.faults)
        BY <1>0, <1>2, <2>2, <2>4, WatchFacts, ReadClosingKeepsWatched
  <2> QED BY <1>4, <2>2, <2>3, <2>4, <2>5, <2>6
<1> QED BY <1>5, <1>6, <1>7 DEF Watch

\* The window slides past the restarts of a machine
LEMMA WindowKeepsOpenInv ==
  ASSUME OpenInv, Typed', NEW n \in Nodes, WindowPasses(n)
  PROVE  OpenInv'
<1> USE DEF persistent
<1>1. /\ tracker \in [Nodes -> TrackerRow] /\ memory \in [Nodes -> MemoryRow]
      /\ budget.faults \in Nat
      BY DEF OpenInv, WatchTyped, Typed, PassTyped
<1>2. /\ budget' \in [edits : Nat, faults : Nat, passes : Nat]
      /\ budget'.faults = budget.faults + 1 /\ UNCHANGED <<events, alert>>
      BY Spending DEF WindowPasses, OpenInv, Fault
<1>3. /\ memory' = [memory EXCEPT ![n] = [memory[n] EXCEPT !.hist = 0]]
      /\ tracker' = [tracker EXCEPT ![n] = [tracker[n] EXCEPT !.hist = IF tracker[n].alerted THEN tracker[n].hist ELSE 0]]
      BY DEF WindowPasses
<1>4. /\ memory'[n].hist = 0 /\ memory'[n].open = memory[n].open /\ memory'[n] \in MemoryRow
      /\ tracker'[n].alerted = tracker[n].alerted /\ tracker'[n].hist \in {0, tracker[n].hist}
      /\ tracker'[n] \in TrackerRow /\ tracker' \in [Nodes -> TrackerRow]
      BY <1>1, <1>3 DEF MemoryRow, TrackerRow
<1>5. ASSUME NEW m \in Nodes
      PROVE  Watched(events, m, tracker'[m], alert[m], memory'[m], budget.faults + 1)
  <2>1. CASE m = n
        BY <1>4, <2>1, WatchFacts, WindowKeepsWatched
  <2>2. CASE m # n
    <3>1. memory'[m] = memory[m] /\ tracker'[m] = tracker[m]
          BY <1>1, <1>3, <2>2
    <3>2. budget.faults + 1 \in Nat /\ budget.faults + 1 >= budget.faults
          BY <1>1
    <3> QED BY <3>1, <3>2, WatchFacts, NoNewsKeepsWatched
  <2> QED BY <2>1, <2>2
<1>6. WatchTyped'
      BY <1>2, <1>4 DEF OpenInv, WatchTyped
<1> QED BY <1>2, <1>5, <1>6 DEF OpenInv, AllWatched

\* The panel starts again: nothing is left in memory
LEMMA RestartKeepsOpenInv ==
  ASSUME OpenInv, Typed', PanelRestarts
  PROVE  OpenInv'
<1>1. /\ events' = << >> /\ tracker' = [n \in Nodes |-> NoTracker] /\ memory' = [n \in Nodes |-> Blank]
      /\ budget' \in [edits : Nat, faults : Nat, passes : Nat]
      BY Spending DEF PanelRestarts, OpenInv, Fault
<1>2. WatchTyped'
      BY <1>1 DEF WatchTyped, NoTracker, TrackerRow
<1>3. AllWatched'
      BY <1>1, NothingWatched DEF AllWatched
<1> QED BY <1>2, <1>3 DEF OpenInv

\* While there is room in the queue of events, every step keeps the tie
LEMMA NextKeepsOpenInv ==
  OpenInv /\ Roomy /\ Typed' /\ [Next]_vars => OpenInv'
<1> SUFFICES ASSUME OpenInv, Roomy, Typed', [Next]_vars PROVE OpenInv'
    OBVIOUS
<1>1. CASE Next
      BY <1>1, ApplyKeepsOpenInv, FaultsKeepOpenInv, RestKeepsOpenInv, WatchKeepsOpenInv,
         WindowKeepsOpenInv, RestartKeepsOpenInv
      DEF Next
<1>2. CASE UNCHANGED vars
  <2>1. UNCHANGED <<events, tracker, alert, memory, budget>>
        BY <1>2 DEF vars, persistent
  <2>2. budget.faults \in Nat /\ budget \in [edits : Nat, faults : Nat, passes : Nat]
        BY DEF OpenInv, WatchTyped
  <2> QED BY <2>1, <2>2, QuietStep
<1> QED BY <1>1, <1>2

\* The tie says that an open circuit is on record
LEMMA WatchedIsOnRecord ==
  OpenInv => OpenIsOnRecord
<1> SUFFICES ASSUME OpenInv, NEW n \in Nodes, memory[n].open, budget.faults < 2
             PROVE  alert[n] \/ \E i \in DOMAIN events : events[i].n = n /\ events[i].kind # "recovered"
    BY DEF OpenIsOnRecord
<1>1. OnRecord(events, n, tracker[n], alert[n], budget.faults)
      BY WatchFacts, Zenon DEF Watched
<1>2. Coming(events, n) \/ alert[n] \/ Live(events, n) # {}
      BY <1>1 DEF OnRecord
<1> QED BY <1>2 DEF Coming, Live, Of

\* While the queue of events never fills, an open circuit is on record for the
\* administrator, or about to be, although one write of the alert may fail
THEOREM OpenCircuitsAreOnRecord == Spec /\ []Roomy => []OpenIsOnRecord
<1>1. Init => OpenInv
  <2> SUFFICES ASSUME Init PROVE OpenInv
      OBVIOUS
  <2>1. WatchTyped
        BY DEF Init, WatchTyped, NoTracker, TrackerRow
  <2>2. AllWatched
        BY NothingWatched DEF Init, AllWatched
  <2> QED BY <2>1, <2>2, InitTyped DEF OpenInv
<1>2. IInv => Typed
      BY DEF IInv
<1> QED BY <1>1, <1>2, AlwaysIInv, NextKeepsOpenInv, WatchedIsOnRecord, PTL DEF Spec
=============================================================================
