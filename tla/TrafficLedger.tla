--------------------------- MODULE TrafficLedger ---------------------------
(* The persist-before-process journal of proxy counters and the collector    *)
(* that fills it, for one machine.  A reading is stored with the owners its  *)
(* names have at that moment, and only then charged, name by name: a line's  *)
(* name names its bucket, the name of a customer's account only the customer, *)
(* whose bucket is chosen when the charge is first attempted.  A name        *)
(* whose charge fails is retried from the stored reading.  In reset mode a   *)
(* reading destroys the counters it reports; an opt-in switches the machine, *)
(* once, to cumulative counters read by epoch of the proxy process.  Several *)
(* panels may collect from the machine: a 60 s lease separates them, and the *)
(* network calls of its holder end after 30 s (live). A counter is one       *)
(* number (the code keeps up and down and treats both alike); a poll is      *)
(* named by the sequence reserved for it (the code adds a UUID).             *)
EXTENDS Integers, FiniteSets

CONSTANTS
  Names,        \* counter names the proxy reports
  Users,        \* customers
  Buckets,      \* quota buckets
  Panels,       \* panel processes that collect
  None,         \* no user, no bucket, no lease holder
  NoEpoch,      \* the epoch of a reading whose process was not verified
  MaxSequence,  \* bound on reserved sequence numbers
  MaxEpoch,     \* bound on proxy processes, numbered from 1
  MaxBytes,     \* bound on the bytes of a name in one process
  MaxFaults,    \* bound on errors, crashes, expiries, restarts and edits
  Owners,       \* the customer a name may be bound to: SUBSET (Users \cup {None})
  NamespaceProof, \* whether this machine holds a relay namespace proof
  Registries    \* how the names may resolve at first

HopKinds == {"", "hop_here", "hop_elsewhere", "legacy_here", "legacy_elsewhere",
             "link_here", "link_elsewhere"}

ASSUME LedgerAssumption ==
  /\ IsFiniteSet(Names) /\ IsFiniteSet(Panels)
  /\ {MaxSequence, MaxBytes, MaxFaults} \subseteq Nat /\ MaxEpoch \in Nat \ {0}
  /\ None \notin Users \cup Buckets \cup Panels
  /\ NoEpoch \notin Nat
  /\ NamespaceProof \in BOOLEAN
  /\ Owners \subseteq Users \cup {None}
  /\ Registries \subseteq
       [Names -> [hop : HopKinds, customer : Owners, bucket : Buckets \cup {None}]]

VARIABLES
  core,        \* the proxy process: its epoch and live counters
  total,       \* history: the bytes of every name in every epoch
  registry,    \* how each name resolves now: relay registration, customer and, but
               \* for the name of an account, the bucket it names
  entitled,    \* the bucket the account of each user is metered on now
  optIn,       \* setting traffic_cumulative_metering
  sequence,    \* traffic_collection_sequence
  meter,       \* traffic_metering_state: mode, epoch, last_sequence
  polls,       \* traffic_polls with their bindings and observations
  cursors,     \* traffic_counter_cursors
  gaps,        \* traffic_metering_gaps: <<reason, sequence>>
  used,        \* used bytes of each bucket
  lease,       \* traffic_collection_leases
  panels,      \* the collection each panel has under way
  wire,        \* resets dispatched and not yet executed: <<panel, sequence>>
  charges,     \* history: the intervals observed, with the bucket charged
  unmetered,   \* history: bytes a process took with it while in reset mode
  faults       \* disturbances so far (only bounds them)

journal == <<sequence, meter, polls, cursors, gaps, used, charges>>
outside == <<registry, entitled, optIn>>
vars == <<core, total, registry, entitled, optIn, sequence, meter, polls, cursors,
          gaps, used, lease, panels, wire, charges, unmetered, faults>>

Sequences == 1..MaxSequence
Epochs == 1..MaxEpoch
Zero == [n \in Names |-> 0]
Idle == [pc |-> "idle", live |-> FALSE, seq |-> 0, epoch |-> NoEpoch,
         transition |-> FALSE, count |-> Zero, top |-> Zero, born |-> 0]
NoPoll == [state |-> "none", mode |-> "reset", epoch |-> NoEpoch, transition |-> FALSE,
           count |-> Zero, top |-> Zero, born |-> 0,
           bound |-> [n \in Names |-> [kind |-> "unknown", user |-> None,
                                      bucket |-> None, own |-> None]],
           seen |-> {}]
NoCursor == [at |-> 0, seq |-> 0]

Init ==
  /\ core = [epoch |-> 1, count |-> Zero]
  /\ total = [e \in Epochs |-> Zero]
  /\ registry \in Registries
  /\ entitled \in [Users -> Buckets]
  /\ optIn = FALSE
  /\ sequence = 0
  /\ meter = [mode |-> "reset", epoch |-> NoEpoch, last |-> 0]
  /\ polls = [s \in Sequences |-> NoPoll]
  /\ cursors = [n \in Names |-> [e \in Epochs |-> NoCursor]]
  /\ gaps = {}
  /\ used = [b \in Buckets |-> 0]
  /\ lease = None
  /\ panels = [p \in Panels |-> Idle]
  /\ wire = {}
  /\ charges = {}
  /\ unmetered = [n \in Names |-> 0]
  /\ faults = 0
-----------------------------------------------------------------------------
(* Whose bytes are they: resolved when the reading is stored, never again    *)

\* own: history, the bucket the name itself named
Binding(kind, user, bucket) == [kind |-> kind, user |-> user, bucket |-> bucket, own |-> bucket]

\* The relay namespaces that are looked up before any customer, by durable record
RelayBinding(hop) ==
  CASE hop = "hop_here" -> "relay_user"
    [] hop = "legacy_here" -> "legacy_shared_relay"
    [] hop = "link_here" -> "relay_link"
    [] hop \in {"hop_elsewhere", "legacy_elsewhere", "link_elsewhere"} -> "unknown"
    [] OTHER -> ""

\* A shared relay name that a customer also owns is nobody's: it is not billed.  A
\* name that names its bucket is bound to it here and now.
Bind(entry) ==
  LET kind == RelayBinding(entry.hop) IN
    IF kind = "legacy_shared_relay" /\ entry.customer # None
      THEN Binding("ambiguous_identity", None, None)
    ELSE IF kind # "" THEN Binding(kind, None, None)
    ELSE IF entry.customer = None THEN Binding("unknown", None, None)
    ELSE Binding("direct_user", entry.customer, entry.bucket)

\* The classification boundary is kept with the reading
BindingGaps(s) ==
  {<<"relay_source_mismatch", s>> : n \in {m \in Names :
      registry[m].hop \in {"hop_elsewhere", "legacy_elsewhere", "link_elsewhere"}}}
  \cup
  {<<"relay_identity_collision", s>> : n \in {m \in Names :
      Bind(registry[m]).kind = "ambiguous_identity"}}
-----------------------------------------------------------------------------
(* Processing one stored reading: one transaction, one savepoint per name    *)

Direct(poll, n) == poll.bound[n].kind = "direct_user"

\* Mutant: the bucket is looked up afresh on every attempt
FrozenAfresh(poll) ==
  [n \in Names |->
     IF Direct(poll, n) THEN [poll.bound[n] EXCEPT !.bucket = entitled[poll.bound[n].user]]
     ELSE poll.bound[n]]

\* Account buckets are chosen once, outside the savepoints
Frozen(poll) ==
  [n \in Names |->
     IF Direct(poll, n) /\ poll.bound[n].bucket = None
       THEN [poll.bound[n] EXCEPT !.bucket = entitled[poll.bound[n].user]]
       ELSE poll.bound[n]]

\* Mutant: a retry does not look for earlier readings
NoPendingEarlier(s, n) == FALSE

\* An earlier reading of the same counter still owns its interval
PendingEarlier(s, n) ==
  \E r \in 1..(s - 1) :
    /\ polls[r].state = "pending"
    /\ polls[r].mode = "cumulative"
    /\ polls[r].epoch = polls[s].epoch
    /\ n \notin polls[r].seen

\* What the reading adds to the name's account and where its cursor goes
Quality(poll, s, n) ==
  LET c == cursors[n][poll.epoch] IN
    IF poll.mode # "cumulative" THEN "observed"
    ELSE IF c.seq = 0 THEN "observed"
    ELSE IF s <= c.seq THEN "out_of_order"
    ELSE IF poll.count[n] < c.at THEN "counter_reset"
    ELSE "observed"

Delta(poll, s, n) ==
  IF Quality(poll, s, n) # "observed" THEN 0
  ELSE IF poll.mode = "cumulative" THEN poll.count[n] - cursors[n][poll.epoch].at
  ELSE poll.count[n]

\* A counter that went back keeps its high-water mark
CursorAfter(poll, s, n) ==
  LET c == cursors[n][poll.epoch] IN
    CASE Quality(poll, s, n) = "out_of_order" -> c
      [] Quality(poll, s, n) = "counter_reset" -> [at |-> c.at, seq |-> s]
      [] OTHER -> [at |-> poll.count[n], seq |-> s]

QualityGaps(poll, s, done) ==
  {<<"out_of_order_snapshot", s>> : n \in {m \in done : Quality(poll, s, m) = "out_of_order"}}
  \cup
  {<<"unexpected_counter_reset", s>> : n \in {m \in done : Quality(poll, s, m) = "counter_reset"}}

\* Mutant: the epoch is compared only when it was never known
ForgottenRestartGap(poll, s) == {}

\* The proxy restarted since the last reading that counted: its tail is unknown
RestartGap(poll, s) ==
  IF /\ poll.mode = "cumulative" /\ meter.mode = "cumulative"
     /\ meter.epoch # NoEpoch /\ meter.epoch # poll.epoch /\ s > meter.last
    THEN {<<"process_restart_tail_unknown", s>>} ELSE {}

\* Receipt order decides the current mode and epoch; cumulative is for good
MeterAfter(poll, s) ==
  IF s < meter.last THEN meter
  ELSE [mode |-> IF meter.mode = "cumulative" \/ poll.transition THEN "cumulative"
                 ELSE poll.mode,
        epoch |-> poll.epoch, last |-> s]

Interval(poll, s, n, bucket) ==
  [name |-> n, epoch |-> poll.born, poll |-> s, bucket |-> bucket,
   user |-> poll.bound[n].user,
   lo |-> poll.top[n] - Delta(poll, s, n), hi |-> poll.top[n]]

\* The bytes of an interval, each counted once in the life of a process
Bytes(c) == {<<c.name, c.epoch>>} \X ((c.lo + 1)..c.hi)

\* Mutant: a retry charges the whole reading again
TodoAll(poll) == Names

\* The names whose observation is not committed yet
Todo(poll) == Names \ poll.seen

\* broken: the names whose charge fails this time (bucket gone, counter overflow)
ProcessPoll(s, broken) ==
  LET poll == [polls[s] EXCEPT !.bound = Frozen(polls[s])]
      todo == Todo(poll)
      failed == {n \in todo :
                   \/ poll.mode = "cumulative" /\ PendingEarlier(s, n)
                   \/ Direct(poll, n) /\ poll.bound[n].bucket = None
                   \/ Direct(poll, n) /\ n \in broken}
      done == todo \ failed
      fresh == {Interval(poll, s, n, poll.bound[n].bucket) :
                  n \in {m \in done : Delta(poll, s, m) > 0}}
  IN /\ polls' = [polls EXCEPT ![s] = [poll EXCEPT
                    !.seen = poll.seen \cup done,
                    !.state = IF failed = {} THEN "done" ELSE "pending"]]
     /\ cursors' = [n \in Names |->
          IF n \in done /\ poll.mode = "cumulative"
            THEN [cursors[n] EXCEPT ![poll.epoch] = CursorAfter(poll, s, n)]
            ELSE cursors[n]]
     /\ gaps' = gaps \cup RestartGap(poll, s)
                \cup (IF poll.mode = "cumulative" THEN QualityGaps(poll, s, done) ELSE {})
     /\ charges' = charges \cup fresh
     /\ used' = [b \in Buckets |->
          used[b] + Cardinality(UNION {Bytes(c) : c \in {d \in fresh : d.bucket = b}})]
     /\ meter' = MeterAfter(poll, s)
     /\ UNCHANGED sequence
-----------------------------------------------------------------------------
(* The collector                                                             *)

\* Something that goes wrong, or changes under the collector
Disturb == faults < MaxFaults /\ faults' = faults + 1

Step(p, changes) == panels' = [panels EXCEPT ![p] = changes]
GoTo(p, pc) == Step(p, [panels[p] EXCEPT !.pc = pc])

\* Leaving releases the lease, unless another collection has taken it over
Leave(p) ==
  /\ Step(p, Idle)
  /\ lease' = IF lease = p THEN None ELSE lease

\* The lease outlives its holder's network calls: 60 s against 30 s
LeaseFree == lease = None \/ (lease \in Panels /\ ~panels[lease].live)

AcquireLease(p) ==
  /\ panels[p].pc = "idle" /\ LeaseFree
  /\ lease' = p
  /\ Step(p, [Idle EXCEPT !.pc = "choose", !.live = TRUE])
  /\ UNCHANGED <<core, total, outside, journal, wire, unmetered, faults>>

\* The stored mode is read under the lease; verified says whether systemd told
\* the process epoch, which the reset reader asks for only once a relay namespace
\* was proven.  A machine that cannot tell keeps the reset reader.
ChooseReader(p) ==
  /\ panels[p].pc = "choose"
  /\ \E verified \in BOOLEAN :
       /\ IF verified THEN UNCHANGED faults ELSE Disturb
       /\ LET asked == meter.mode = "cumulative" \/ optIn \/ NamespaceProof
              epoch == IF asked /\ verified /\ panels[p].live THEN core.epoch ELSE NoEpoch
          IN
         IF meter.mode # "cumulative" /\ (~optIn \/ epoch = NoEpoch)
           THEN /\ Step(p, [panels[p] EXCEPT !.pc = "intend", !.epoch = epoch])
                /\ UNCHANGED lease
         ELSE IF epoch = NoEpoch THEN Leave(p)
         ELSE /\ Step(p, [panels[p] EXCEPT !.epoch = epoch,
                            !.transition = meter.mode # "cumulative",
                            !.pc = IF meter.mode # "cumulative" THEN "intend" ELSE "reserve"])
              /\ UNCHANGED lease
  /\ UNCHANGED <<core, total, outside, journal, wire, unmetered>>

\* A destructive read announces itself before it is sent
BeginTrafficReset(p) ==
  /\ panels[p].pc = "intend" /\ sequence < MaxSequence
  /\ sequence' = sequence + 1
  /\ gaps' = gaps \cup {<<"reset_outcome_unknown", sequence + 1>>}
  /\ Step(p, [panels[p] EXCEPT !.pc = "send", !.seq = sequence + 1])
  /\ UNCHANGED <<core, total, outside, meter, polls, cursors, used, lease, wire, charges,
                 unmetered, faults>>

SendReset(p) ==
  /\ panels[p].pc = "send" /\ panels[p].live
  /\ wire' = wire \cup {<<p, panels[p].seq>>}
  /\ GoTo(p, "await")
  /\ UNCHANGED <<core, total, outside, journal, lease, unmetered, faults>>

\* The proxy answers and clears; nobody may be waiting for the answer any more
ExecuteReset(r) ==
  LET p == r[1] IN
  /\ r \in wire
  /\ wire' = wire \ {r}
  /\ core' = [core EXCEPT !.count = Zero]
  /\ IF panels[p].pc = "await" /\ panels[p].live /\ panels[p].seq = r[2]
       THEN /\ Step(p, [panels[p] EXCEPT !.pc = "answered", !.count = core.count,
                          !.top = total[core.epoch], !.born = core.epoch])
       ELSE UNCHANGED panels
  /\ UNCHANGED <<total, outside, journal, lease, unmetered, faults>>

\* With a verified epoch the answer counts only if the process is still the same
CheckResetEpoch(p) ==
  /\ panels[p].pc = "answered"
  /\ IF panels[p].epoch = NoEpoch \/ (panels[p].live /\ core.epoch = panels[p].epoch)
       THEN GoTo(p, "store") /\ UNCHANGED lease
       ELSE Leave(p)
  /\ UNCHANGED <<core, total, outside, journal, wire, unmetered, faults>>

ReserveSequence(p) ==
  /\ panels[p].pc = "reserve" /\ sequence < MaxSequence
  /\ sequence' = sequence + 1
  /\ Step(p, [panels[p] EXCEPT !.pc = "query", !.seq = sequence + 1, !.transition = FALSE])
  /\ UNCHANGED <<core, total, outside, meter, polls, cursors, gaps, used, lease, wire,
                 charges, unmetered, faults>>

\* A read that clears nothing; the answer is this moment's counters
ReadCounters(p) ==
  /\ panels[p].pc = "query" /\ panels[p].live
  /\ Step(p, [panels[p] EXCEPT !.pc = "compare", !.count = core.count,
                !.top = total[core.epoch], !.born = core.epoch])
  /\ UNCHANGED <<core, total, outside, journal, lease, wire, unmetered, faults>>

\* The snapshot of two processes is nobody's: it is discarded, and says so
CompareEpoch(p) ==
  /\ panels[p].pc = "compare" /\ panels[p].live
  /\ IF core.epoch = panels[p].epoch
       THEN GoTo(p, "store_cumulative") /\ UNCHANGED <<lease, gaps>>
       ELSE /\ Leave(p)
            /\ gaps' = gaps \cup {<<"process_changed_during_read", panels[p].seq>>}
  /\ UNCHANGED <<core, total, outside, sequence, meter, polls, cursors, used, wire, charges,
                 unmetered, faults>>

\* One transaction: the reading, its owners, the end of the reset intent and,
\* for the switch, the cumulative mode
RecordTrafficPoll(p) ==
  /\ panels[p].pc \in {"store", "store_cumulative"}
  /\ LET me == panels[p]
         s == me.seq
         switch == me.transition /\ s > meter.last
     IN
       /\ polls' = [polls EXCEPT ![s] =
            [state |-> "pending", epoch |-> me.epoch, transition |-> me.transition,
             mode |-> IF me.pc = "store" THEN "reset" ELSE "cumulative",
             count |-> me.count, top |-> me.top, born |-> me.born,
             bound |-> [n \in Names |-> Bind(registry[n])], seen |-> {}]]
       /\ gaps' = (gaps \ {<<"reset_outcome_unknown", s>>}) \cup BindingGaps(s)
       /\ meter' = IF switch THEN [mode |-> "cumulative", epoch |-> me.epoch, last |-> s]
                   ELSE meter
  /\ GoTo(p, "process")
  /\ UNCHANGED <<core, total, outside, sequence, cursors, used, lease, wire, charges,
                 unmetered, faults>>

Attempt(s) ==
  \E broken \in SUBSET {n \in Names : Direct(polls[s], n)} :
    /\ ProcessPoll(s, broken)
    /\ IF broken = {} THEN UNCHANGED faults ELSE Disturb

\* The collector's own attempt at the reading it stored; the switch goes on to
\* its first cumulative read only when every name was charged
ProcessOwnPoll(p) ==
  /\ panels[p].pc = "process"
  /\ IF polls[panels[p].seq].state = "done" THEN UNCHANGED <<journal, faults>>
     ELSE Attempt(panels[p].seq)
  /\ IF panels[p].transition /\ polls'[panels[p].seq].state = "done"
       THEN GoTo(p, "reserve") /\ UNCHANGED lease
       ELSE Leave(p)
  /\ UNCHANGED <<core, total, outside, wire, unmetered>>

\* RetryPendingTrafficPolls opens every collection; any panel may be running it
RetryPoll(s) ==
  /\ polls[s].state = "pending"
  /\ Attempt(s)
  /\ UNCHANGED <<core, total, outside, lease, panels, wire, unmetered>>

\* An error at any step, an answer that never comes, a store that refuses, or the
\* end of the panel process: a dead holder's lease is as good as released, since
\* it expires on its own and the model does not tell when
GiveUp(p) ==
  /\ Disturb
  /\ panels[p].pc \in {"choose", "intend", "send", "await", "answered", "reserve", "query",
                       "compare", "store", "store_cumulative", "process"}
  /\ Leave(p)
  /\ UNCHANGED <<core, total, outside, journal, wire, unmetered>>

\* The 30 s context ends; only then can another panel find the lease expired
ContextEnds(p) ==
  /\ Disturb
  /\ panels[p].live
  /\ Step(p, [panels[p] EXCEPT !.live = FALSE])
  /\ UNCHANGED <<core, total, outside, journal, lease, wire, unmetered>>

-----------------------------------------------------------------------------
(* The machine and the people around the collector                           *)

Traffic(n) ==
  /\ total[core.epoch][n] < MaxBytes
  /\ core' = [core EXCEPT !.count[n] = @ + 1]
  /\ total' = [total EXCEPT ![core.epoch][n] = @ + 1]
  /\ UNCHANGED <<outside, journal, lease, panels, wire, unmetered, faults>>

\* A new process starts from zero; in reset mode what it held is gone unannounced
RestartCore ==
  /\ Disturb
  /\ core.epoch < MaxEpoch
  /\ core' = [epoch |-> core.epoch + 1, count |-> Zero]
  /\ unmetered' = [n \in Names |-> unmetered[n] +
                     IF meter.mode = "cumulative" THEN 0 ELSE core.count[n]]
  /\ UNCHANGED <<total, outside, journal, lease, panels, wire>>

\* A proxy name changes hands, or the bucket in service on its line changes
Rename(n) ==
  /\ Disturb
  /\ \E u \in Owners, b \in Buckets \cup {None} :
       /\ <<u, b>> # <<registry[n].customer, registry[n].bucket>>
       /\ u = None => b = None
       /\ registry' = [registry EXCEPT ![n].customer = u, ![n].bucket = b]
  /\ UNCHANGED <<core, total, entitled, optIn, journal, lease, panels, wire, unmetered>>

\* The user's metering bucket is replaced, exhausted or granted
ChangePlan(u) ==
  /\ Disturb
  /\ \E b \in (Buckets \cup {None}) \ {entitled[u]} :
       entitled' = [entitled EXCEPT ![u] = b]
  /\ UNCHANGED <<core, total, registry, optIn, journal, lease, panels, wire, unmetered>>

ToggleOptIn ==
  /\ Disturb
  /\ optIn' = ~optIn
  /\ UNCHANGED <<core, total, registry, entitled, journal, lease, panels, wire, unmetered>>
-----------------------------------------------------------------------------
Collect(p) ==
  \/ AcquireLease(p) \/ ChooseReader(p) \/ BeginTrafficReset(p) \/ SendReset(p)
  \/ CheckResetEpoch(p) \/ ReserveSequence(p) \/ ReadCounters(p) \/ CompareEpoch(p)
  \/ RecordTrafficPoll(p) \/ ProcessOwnPoll(p)

Next ==
  \/ \E p \in Panels : Collect(p)
  \/ \E p \in Panels : GiveUp(p)
  \/ \E p \in Panels : ContextEnds(p)
  \/ \E r \in wire : ExecuteReset(r)
  \/ \E s \in Sequences : RetryPoll(s)
  \/ \E n \in Names : Traffic(n)
  \/ \E n \in Names : Rename(n)
  \/ \E u \in Users : ChangePlan(u)
  \/ RestartCore
  \/ ToggleOptIn

Spec == Init /\ [][Next]_vars
=============================================================================
