----------------------------- MODULE TrafficProofs -----------------------------
(* That a byte is charged once, to one bucket, and that one no reading       *)
(* accounts for is announced, for any number of names, panels, readings and  *)
(* processes.                                                                *)
EXTENDS TrafficProperties, Sums

Counters == [Names -> Nat]
MaybeEpoch == Epochs \cup {NoEpoch}
MaybeBucket == Buckets \cup {None}
MaybeUser == Users \cup {None}
Kinds == {"unknown", "direct_user", "relay_user", "legacy_shared_relay", "relay_link",
          "ambiguous_identity"}
Unstored == {"send", "await", "answered", "store", "query", "compare", "store_cumulative"}
Holding == {"answered", "store", "compare", "store_cumulative"}
Pcs == {"idle", "choose", "intend", "reserve", "process"} \cup Unstored

EntryRow == [hop : HopKinds, customer : Owners, bucket : MaybeBucket]
CoreRow == [epoch : Epochs, count : Counters]
MeterRow == [mode : {"reset", "cumulative"}, epoch : MaybeEpoch, last : Nat]
PanelRow == [pc : Pcs, live : BOOLEAN, seq : Nat, epoch : MaybeEpoch, transition : BOOLEAN,
             count : Counters, top : Counters, born : Nat]
BindingRow ==
  {b \in [kind : Kinds, user : MaybeUser, bucket : MaybeBucket, own : MaybeBucket] :
     b.kind = "direct_user" => b.user \in Users}
PollRow == [state : {"none", "pending", "done"}, mode : {"reset", "cumulative"},
            epoch : MaybeEpoch, transition : BOOLEAN, count : Counters, top : Counters,
            born : Nat, bound : [Names -> BindingRow], seen : SUBSET Names]
CursorRow == [at : Nat, seq : Nat]

WorldTyped ==
  /\ core \in CoreRow
  /\ total \in [Epochs -> Counters]
  /\ registry \in [Names -> EntryRow]
  /\ entitled \in [Users -> MaybeBucket]

JournalTyped ==
  /\ sequence \in 0..MaxSequence
  /\ meter \in MeterRow
  /\ polls \in [Sequences -> PollRow]
  /\ cursors \in [Names -> [Epochs -> CursorRow]]

PanelsTyped == panels \in [Panels -> PanelRow]

Typed == WorldTyped /\ JournalTyped /\ PanelsTyped
-----------------------------------------------------------------------------
(* The readings taken so far, stored or still in the hands of a panel        *)

Stored(s) == polls[s].state # "none"

PollReading(s) ==
  [seq |-> s, cumulative |-> polls[s].mode = "cumulative", born |-> polls[s].born,
   top |-> polls[s].top, count |-> polls[s].count]

PanelReading(p) ==
  [seq |-> panels[p].seq, cumulative |-> panels[p].pc \in {"compare", "store_cumulative"},
   born |-> panels[p].born, top |-> panels[p].top, count |-> panels[p].count]

Readings ==
  {PollReading(s) : s \in {x \in Sequences : Stored(x)}}
  \cup {PanelReading(p) : p \in {q \in Panels : panels[q].pc \in Holding}}

\* The bytes of a name that resets had taken when the reading was made
Base(t, n) == t.top[n] - t.count[n]

\* A panel that may still talk to the machine holds the lease
Leased == \A p \in Panels : panels[p].live => lease = p

\* A sequence number is reserved by one panel and stored at most once
Reserved ==
  /\ \A s \in Sequences : Stored(s) => s <= sequence
  /\ \A p \in Panels :
       /\ panels[p].pc \in Unstored =>
            panels[p].seq \in 1..sequence /\ ~Stored(panels[p].seq)
       /\ panels[p].pc = "process" => panels[p].seq \in Sequences /\ Stored(panels[p].seq)
  /\ \A p, q \in Panels :
       panels[p].pc \in Unstored /\ panels[q].pc \in Unstored /\ p # q =>
         panels[p].seq # panels[q].seq
  /\ meter.last = 0 \/ (meter.last \in Sequences /\ Stored(meter.last))

\* No reading is later than that of the panel that may still talk to the machine
Newest ==
  \A p \in Panels : panels[p].live /\ panels[p].pc \in Unstored =>
    \A t \in Readings :
      /\ t.seq <= panels[p].seq
      /\ panels[p].pc \in {"send", "await", "query"} => t.seq < panels[p].seq

\* What a reading says of its process and what has become of it since
Measured(t) ==
  /\ t.born \in Epochs /\ t.born <= core.epoch
  /\ \A n \in Names :
       /\ t.count[n] <= t.top[n] /\ t.top[n] <= total[t.born][n]
       /\ t.born = core.epoch =>
            /\ Base(t, n) <= total[core.epoch][n] - core.count[n]
            /\ ~t.cumulative => t.top[n] <= total[core.epoch][n] - core.count[n]

\* Of two readings of a process the earlier lies below the later; the switch to
\* cumulative counters is for good
InSequence(r, t) ==
  r.seq < t.seq =>
    /\ r.cumulative => t.cumulative
    /\ r.born = t.born =>
         \A n \in Names : IF r.cumulative THEN Base(r, n) <= Base(t, n) ELSE r.top[n] <= Base(t, n)

\* Once a cumulative reading exists nobody who may still talk to the machine is
\* about to reset it
Switched ==
  /\ (\E t \in Readings : t.cumulative) =>
       /\ meter.mode = "cumulative"
       /\ \A p \in Panels : panels[p].live => panels[p].pc \notin {"intend", "send", "await"}
  /\ \A p \in Panels :
       panels[p].live /\ (panels[p].pc \in {"reserve", "query"}
                          \/ (panels[p].pc = "process" /\ panels[p].transition)) =>
         meter.mode = "cumulative"

\* A verified epoch is that of the process the reading was taken from
Verified ==
  /\ core.epoch \in Epochs
  /\ \A p \in Panels :
       /\ panels[p].pc = "choose" => ~panels[p].transition
       /\ panels[p].epoch \in Epochs => panels[p].epoch <= core.epoch
       /\ panels[p].transition \/ panels[p].pc \in {"reserve", "query", "compare", "store_cumulative"}
            => panels[p].epoch \in Epochs
       /\ panels[p].pc = "compare" => panels[p].epoch <= panels[p].born
       /\ panels[p].pc = "store_cumulative" => panels[p].epoch = panels[p].born
  /\ \A s \in Sequences :
       Stored(s) /\ polls[s].mode = "cumulative" => polls[s].epoch = polls[s].born

\* The machine's counters hold what no reset has taken
CoreBelow == \A n \in Names : core.count[n] <= total[core.epoch][n]
BytesBounded == \A e \in Epochs, n \in Names : total[e][n] <= MaxBytes

OrderInv ==
  /\ Typed /\ Leased /\ Reserved /\ Newest /\ Switched /\ Verified /\ CoreBelow /\ BytesBounded
  /\ \A t \in Readings : Measured(t)
  /\ \A r, t \in Readings : InSequence(r, t)
-----------------------------------------------------------------------------
(* The charges                                                               *)

\* Only customers' names have a bucket.  A name that named its own keeps it, and the
\* buckets of all accounts of a user are frozen at once.
FrozenTogether(poll) ==
  /\ \A n \in Names : ~Direct(poll, n) => poll.bound[n].bucket = None
  /\ \A n \in Names : poll.bound[n].own # None => poll.bound[n].bucket = poll.bound[n].own
  /\ \A n, m \in Names :
       /\ Direct(poll, n) /\ Direct(poll, m) /\ poll.bound[n].user = poll.bound[m].user
       /\ poll.bound[n].own = None /\ poll.bound[m].own = None
       => poll.bound[n].bucket = poll.bound[m].bucket

\* A charge is the interval of a committed observation, below the cursor
Charged(c) ==
  /\ c.name \in Names /\ c.poll \in Sequences /\ Stored(c.poll)
  /\ c.lo \in Int /\ c.hi \in Int /\ c.lo < c.hi
  /\ c.name \in polls[c.poll].seen
  /\ c.epoch = polls[c.poll].born
  /\ c.hi = polls[c.poll].top[c.name]
  /\ c.lo >= Base(PollReading(c.poll), c.name)
  /\ polls[c.poll].mode = "cumulative" =>
       /\ cursors[c.name][c.epoch].seq >= c.poll
       /\ cursors[c.name][c.epoch].at >= polls[c.poll].count[c.name]
  /\ c.user = polls[c.poll].bound[c.name].user
  /\ c.bucket = polls[c.poll].bound[c.name].bucket
  /\ Direct(polls[c.poll], c.name) => c.bucket # None

Apart(c, d) ==
  c # d /\ c.name = d.name /\ c.epoch = d.epoch => c.hi <= d.lo \/ d.hi <= c.lo

BytesOf(b) == UNION {Bytes(c) : c \in {d \in charges : d.bucket = b}}

ChargeInv ==
  /\ \A c \in charges : Charged(c)
  /\ \A c, d \in charges : Apart(c, d)
  /\ \A s \in Sequences : Stored(s) => FrozenTogether(polls[s])
  /\ used = [b \in Buckets |-> Cardinality(BytesOf(b))]

\* Every reset under way was sent by a panel
Sent == \A r \in wire : r[1] \in Panels

IInv == OrderInv /\ Sent /\ ChargeInv
-----------------------------------------------------------------------------
(* Types                                                                     *)

\* What the assumptions say of the constants
LEMMA Constants ==
  /\ MaxSequence \in Nat /\ MaxBytes \in Nat /\ MaxEpoch \in Nat /\ MaxEpoch >= 1
  /\ 1 \in Epochs /\ NoEpoch \notin Epochs /\ NoEpoch \notin Nat
  /\ None \notin Panels /\ None \notin Users /\ None \notin Buckets
  /\ Zero \in Counters /\ Owners \subseteq MaybeUser
  BY LedgerAssumption DEF LedgerAssumption, Epochs, Zero, Counters, MaybeUser

\* The values everything starts from are of their types
LEMMA RowsTyped ==
  /\ Idle \in PanelRow /\ NoPoll \in PollRow /\ NoCursor \in CursorRow
<1>1. Zero \in Counters /\ NoEpoch \in MaybeEpoch
      BY Constants DEF MaybeEpoch
<1>2. Idle \in PanelRow
      BY <1>1 DEF Idle, PanelRow, Pcs
<1>3. NoCursor \in CursorRow
      BY DEF NoCursor, CursorRow
<1>4. [kind |-> "unknown", user |-> None, bucket |-> None, own |-> None] \in BindingRow
      BY DEF BindingRow, Kinds, MaybeUser, MaybeBucket
<1> DEFINE bound == [n \in Names |-> [kind |-> "unknown", user |-> None,
                                      bucket |-> None, own |-> None]]
<1>5. bound \in [Names -> BindingRow]
      BY <1>4
<1>6. NoPoll = [state |-> "none", mode |-> "reset", epoch |-> NoEpoch, transition |-> FALSE,
                count |-> Zero, top |-> Zero, born |-> 0, bound |-> bound, seen |-> {}]
      BY DEF NoPoll
<1> HIDE DEF bound
<1>7. NoPoll \in PollRow
      BY <1>1, <1>5, <1>6 DEF PollRow
<1> QED BY <1>2, <1>3, <1>7

\* The journal starts well typed
LEMMA InitTyped == Init => Typed
<1> SUFFICES ASSUME Init PROVE Typed
    OBVIOUS
<1>1. WorldTyped
  <2>1. core \in CoreRow /\ total \in [Epochs -> Counters]
        BY Constants DEF Init, CoreRow
  <2>2. registry \in [Names -> EntryRow] /\ entitled \in [Users -> MaybeBucket]
        BY LedgerAssumption DEF Init, LedgerAssumption, EntryRow, MaybeBucket
  <2> QED BY <2>1, <2>2 DEF WorldTyped
<1>2. JournalTyped
  <2>1. meter \in MeterRow
        BY DEF Init, MeterRow, MaybeEpoch
  <2>2. sequence \in 0..MaxSequence
        BY Constants DEF Init
  <2> QED BY <2>1, <2>2, RowsTyped DEF Init, JournalTyped
<1>3. PanelsTyped
      BY RowsTyped DEF Init, PanelsTyped
<1> QED BY <1>1, <1>2, <1>3 DEF Typed

\* A collection's record keeps its type under every change a step makes
LEMMA PanelStepTyped ==
  \A r \in PanelRow, pc \in Pcs, b \in BOOLEAN :
    /\ [r EXCEPT !.pc = pc] \in PanelRow
    /\ [r EXCEPT !.live = b] \in PanelRow
    /\ [r EXCEPT !.pc = pc, !.live = b] \in PanelRow
    /\ \A e \in MaybeEpoch : /\ [r EXCEPT !.pc = pc, !.epoch = e] \in PanelRow
                             /\ [r EXCEPT !.epoch = e, !.transition = b, !.pc = pc] \in PanelRow
    /\ \A q \in Nat : /\ [r EXCEPT !.pc = pc, !.seq = q] \in PanelRow
                      /\ [r EXCEPT !.pc = pc, !.seq = q, !.transition = b] \in PanelRow
    /\ \A c \in Counters, t \in Counters, e \in Nat :
         [r EXCEPT !.pc = pc, !.count = c, !.top = t, !.born = e] \in PanelRow
<1> SUFFICES ASSUME NEW r \in PanelRow, NEW pc \in Pcs, NEW b \in BOOLEAN
    PROVE  /\ [r EXCEPT !.pc = pc] \in PanelRow
           /\ [r EXCEPT !.live = b] \in PanelRow
           /\ [r EXCEPT !.pc = pc, !.live = b] \in PanelRow
           /\ \A e \in MaybeEpoch : /\ [r EXCEPT !.pc = pc, !.epoch = e] \in PanelRow
                                    /\ [r EXCEPT !.epoch = e, !.transition = b, !.pc = pc] \in PanelRow
           /\ \A q \in Nat : /\ [r EXCEPT !.pc = pc, !.seq = q] \in PanelRow
                             /\ [r EXCEPT !.pc = pc, !.seq = q, !.transition = b] \in PanelRow
           /\ \A c \in Counters, t \in Counters, e \in Nat :
                [r EXCEPT !.pc = pc, !.count = c, !.top = t, !.born = e] \in PanelRow
    OBVIOUS
<1>1. /\ [r EXCEPT !.pc = pc] \in PanelRow
      /\ [r EXCEPT !.live = b] \in PanelRow
      /\ [r EXCEPT !.pc = pc, !.live = b] \in PanelRow
      BY DEF PanelRow
<1>2. \A e \in MaybeEpoch : /\ [r EXCEPT !.pc = pc, !.epoch = e] \in PanelRow
                            /\ [r EXCEPT !.epoch = e, !.transition = b, !.pc = pc] \in PanelRow
      BY DEF PanelRow
<1>3. \A q \in Nat : /\ [r EXCEPT !.pc = pc, !.seq = q] \in PanelRow
                     /\ [r EXCEPT !.pc = pc, !.seq = q, !.transition = b] \in PanelRow
      BY DEF PanelRow
<1>4. ASSUME NEW c \in Counters, NEW t \in Counters, NEW e \in Nat
      PROVE  [r EXCEPT !.pc = pc, !.count = c, !.top = t, !.born = e] \in PanelRow
      BY DEF PanelRow
<1> QED BY <1>1, <1>2, <1>3, <1>4

\* The sequence is a number below its bound
LEMMA SequenceTyped ==
  ASSUME Typed PROVE sequence \in Nat /\ sequence + 1 \in Nat /\ sequence <= MaxSequence
<1>1. sequence \in 0..MaxSequence
      BY DEF Typed, JournalTyped
<1>2. MaxSequence \in Nat
      BY Constants
<1> QED BY <1>1, <1>2

\* A panel whose record is typed keeps the panels typed
LEMMA StepTyped ==
  ASSUME Typed, NEW p \in Panels, NEW r \in PanelRow, Step(p, r)
  PROVE  PanelsTyped'
  BY DEF Step, Typed, PanelsTyped

\* Leaving keeps the panels typed
LEMMA LeaveTyped ==
  ASSUME Typed, NEW p \in Panels, Leave(p)
  PROVE  PanelsTyped'
  BY StepTyped, RowsTyped DEF Leave

\* Moving on keeps the panels typed
LEMMA GoToTyped ==
  ASSUME Typed, NEW p \in Panels, NEW pc \in Pcs, GoTo(p, pc)
  PROVE  PanelsTyped'
<1>1. panels[p] \in PanelRow
      BY DEF Typed, PanelsTyped
<1>2. [panels[p] EXCEPT !.pc = pc] \in PanelRow
      BY <1>1, PanelStepTyped
<1> QED BY <1>2, StepTyped DEF GoTo

\* The steps of a collection that store nothing
PanelStep(p) ==
  \/ AcquireLease(p) \/ ChooseReader(p) \/ BeginTrafficReset(p) \/ SendReset(p)
  \/ CheckResetEpoch(p) \/ ReserveSequence(p) \/ ReadCounters(p) \/ CompareEpoch(p)
  \/ GiveUp(p) \/ ContextEnds(p)

\* The steps of a collection that store nothing keep the types
LEMMA PanelStepKeepsTypes ==
  ASSUME Typed, NEW p \in Panels, PanelStep(p)
  PROVE  Typed'
<1> USE DEF outside, journal
<1>1. /\ panels[p] \in PanelRow /\ Idle \in PanelRow
      /\ core.count \in Counters /\ core.epoch \in Epochs /\ total[core.epoch] \in Counters
      /\ core.epoch \in Nat
      BY RowsTyped, Constants DEF Typed, PanelsTyped, WorldTyped, CoreRow, Epochs
<1>2. WorldTyped'
      BY DEF PanelStep, AcquireLease, ChooseReader, BeginTrafficReset, SendReset, CheckResetEpoch,
         ReserveSequence, ReadCounters, CompareEpoch, GiveUp, ContextEnds, Typed, WorldTyped
<1>3. JournalTyped'
  <2>1. sequence' \in 0..MaxSequence
    <3>1. sequence \in 0..MaxSequence /\ MaxSequence \in Nat
          BY Constants DEF Typed, JournalTyped
    <3>2. sequence' = sequence \/ (sequence < MaxSequence /\ sequence' = sequence + 1)
          BY DEF PanelStep, AcquireLease, ChooseReader, BeginTrafficReset, SendReset, CheckResetEpoch,
             ReserveSequence, ReadCounters, CompareEpoch, GiveUp, ContextEnds
    <3> QED BY <3>1, <3>2
  <2>2. UNCHANGED <<meter, polls, cursors>>
        BY DEF PanelStep, AcquireLease, ChooseReader, BeginTrafficReset, SendReset, CheckResetEpoch,
           ReserveSequence, ReadCounters, CompareEpoch, GiveUp, ContextEnds
  <2> QED BY <2>1, <2>2 DEF Typed, JournalTyped
<1>4. PanelsTyped'
  <2> USE <1>1, PanelStepTyped, StepTyped, LeaveTyped, GoToTyped DEF Pcs, Unstored
  <2>1. CASE AcquireLease(p)
    <3>1. [Idle EXCEPT !.pc = "choose", !.live = TRUE] \in PanelRow
          OBVIOUS
    <3> QED BY <2>1, <3>1 DEF AcquireLease
  <2>2. CASE ChooseReader(p)
    <3>1. PICK verified \in BOOLEAN :
            LET asked == meter.mode = "cumulative" \/ optIn \/ NamespaceProof
                epoch == IF asked /\ verified /\ panels[p].live THEN core.epoch ELSE NoEpoch
            IN IF meter.mode # "cumulative" /\ (~optIn \/ epoch = NoEpoch)
                 THEN Step(p, [panels[p] EXCEPT !.pc = "intend", !.epoch = epoch])
               ELSE IF epoch = NoEpoch THEN Leave(p)
               ELSE Step(p, [panels[p] EXCEPT !.epoch = epoch,
                               !.transition = meter.mode # "cumulative",
                               !.pc = IF meter.mode # "cumulative" THEN "intend" ELSE "reserve"])
          BY <2>2 DEF ChooseReader
    <3> DEFINE asked == meter.mode = "cumulative" \/ optIn \/ NamespaceProof
               epoch == IF asked /\ verified /\ panels[p].live THEN core.epoch ELSE NoEpoch
               pc == IF meter.mode # "cumulative" THEN "intend" ELSE "reserve"
    <3>2. epoch \in MaybeEpoch /\ pc \in Pcs /\ (meter.mode # "cumulative") \in BOOLEAN
          BY DEF MaybeEpoch
    <3>3. \/ Step(p, [panels[p] EXCEPT !.pc = "intend", !.epoch = epoch])
          \/ Leave(p)
          \/ Step(p, [panels[p] EXCEPT !.epoch = epoch, !.transition = meter.mode # "cumulative",
                        !.pc = pc])
          BY <3>1
    <3>4. /\ [panels[p] EXCEPT !.pc = "intend", !.epoch = epoch] \in PanelRow
          /\ [panels[p] EXCEPT !.epoch = epoch, !.transition = meter.mode # "cumulative",
                !.pc = pc] \in PanelRow
          BY <3>2
    <3> HIDE DEF epoch, pc, asked
    <3> QED BY <3>3, <3>4
  <2>3. CASE BeginTrafficReset(p)
    <3>1. sequence + 1 \in Nat
          BY SequenceTyped
    <3>2. [panels[p] EXCEPT !.pc = "send", !.seq = sequence + 1] \in PanelRow
          BY <3>1
    <3> QED BY <2>3, <3>2 DEF BeginTrafficReset
  <2>4. CASE SendReset(p)
        BY <2>4 DEF SendReset
  <2>5. CASE CheckResetEpoch(p)
        BY <2>5 DEF CheckResetEpoch
  <2>6. CASE ReserveSequence(p)
    <3>1. sequence + 1 \in Nat
          BY SequenceTyped
    <3>2. [panels[p] EXCEPT !.pc = "query", !.seq = sequence + 1, !.transition = FALSE] \in PanelRow
          BY <3>1
    <3> QED BY <2>6, <3>2 DEF ReserveSequence
  <2>7. CASE ReadCounters(p)
    <3>1. [panels[p] EXCEPT !.pc = "compare", !.count = core.count,
             !.top = total[core.epoch], !.born = core.epoch] \in PanelRow
          OBVIOUS
    <3> QED BY <2>7, <3>1 DEF ReadCounters
  <2>8. CASE CompareEpoch(p)
        BY <2>8 DEF CompareEpoch
  <2>9. CASE GiveUp(p)
        BY <2>9 DEF GiveUp
  <2>10. CASE ContextEnds(p)
    <3>1. [panels[p] EXCEPT !.live = FALSE] \in PanelRow
          OBVIOUS
    <3> QED BY <2>10, <3>1 DEF ContextEnds
  <2> QED BY <2>1, <2>2, <2>3, <2>4, <2>5, <2>6, <2>7, <2>8, <2>9, <2>10 DEF PanelStep
<1> QED BY <1>2, <1>3, <1>4 DEF Typed

\* A stored attempt at a reading, with the names its LETs give it
PollOf(s) == [polls[s] EXCEPT !.bound = Frozen(polls[s])]
FailedIn(s, broken) ==
  {n \in Todo(PollOf(s)) :
     \/ PollOf(s).mode = "cumulative" /\ PendingEarlier(s, n)
     \/ Direct(PollOf(s), n) /\ PollOf(s).bound[n].bucket = None
     \/ Direct(PollOf(s), n) /\ n \in broken}
DoneIn(s, broken) == Todo(PollOf(s)) \ FailedIn(s, broken)
FreshIn(s, broken) ==
  {Interval(PollOf(s), s, n, PollOf(s).bound[n].bucket) :
     n \in {m \in DoneIn(s, broken) : Delta(PollOf(s), s, m) > 0}}

CursorsIn(s, broken, n) ==
  IF n \in DoneIn(s, broken) /\ PollOf(s).mode = "cumulative"
    THEN [cursors[n] EXCEPT ![PollOf(s).epoch] = CursorAfter(PollOf(s), s, n)]
    ELSE cursors[n]
BytesIn(s, broken, b) == UNION {Bytes(c) : c \in {d \in FreshIn(s, broken) : d.bucket = b}}
PollIn(s, broken) ==
  [PollOf(s) EXCEPT !.seen = PollOf(s).seen \cup DoneIn(s, broken),
                    !.state = IF FailedIn(s, broken) = {} THEN "done" ELSE "pending"]

\* ProcessPoll in the names given to its LETs
LEMMA ProcessIs ==
  ASSUME NEW s, NEW broken, ProcessPoll(s, broken)
  PROVE  /\ polls' = [polls EXCEPT ![s] = PollIn(s, broken)]
         /\ cursors' = [n \in Names |-> CursorsIn(s, broken, n)]
         /\ charges' = charges \cup FreshIn(s, broken)
         /\ used' = [b \in Buckets |-> used[b] + Cardinality(BytesIn(s, broken, b))]
         /\ meter' = MeterAfter(PollOf(s), s)
         /\ sequence' = sequence
  BY DEF ProcessPoll, PollOf, FailedIn, DoneIn, FreshIn, CursorsIn, BytesIn, PollIn

\* The fields of a stored reading and their types
LEMMA PollFields ==
  \A r \in PollRow :
    /\ r.state \in {"none", "pending", "done"} /\ r.mode \in {"reset", "cumulative"}
    /\ r.epoch \in MaybeEpoch /\ r.transition \in BOOLEAN /\ r.count \in Counters
    /\ r.top \in Counters /\ r.born \in Nat /\ r.bound \in [Names -> BindingRow]
    /\ r.seen \in SUBSET Names
  BY DEF PollRow

\* Freezing the buckets yields bindings
LEMMA FrozenTyped ==
  ASSUME Typed, NEW r \in PollRow
  PROVE  Frozen(r) \in [Names -> BindingRow]
<1>1. r.bound \in [Names -> BindingRow]
      BY PollFields
<1>2. ASSUME NEW n \in Names, Direct(r, n)
      PROVE  [r.bound[n] EXCEPT !.bucket = entitled[r.bound[n].user]] \in BindingRow
  <2>1. r.bound[n] \in BindingRow /\ r.bound[n].kind = "direct_user"
        BY <1>1, <1>2 DEF Direct
  <2>2. r.bound[n].user \in Users
        BY <2>1 DEF BindingRow
  <2>3. entitled[r.bound[n].user] \in MaybeBucket
        BY <2>2 DEF Typed, WorldTyped
  <2> QED BY <2>1, <2>2, <2>3 DEF BindingRow
<1> QED BY <1>1, <1>2 DEF Frozen

\* Whatever a name resolves to is a binding, with the bucket the name names, if any
LEMMA BindTyped ==
  ASSUME NEW e \in EntryRow
  PROVE  /\ Bind(e) \in BindingRow /\ Bind(e).bucket = Bind(e).own
         /\ Bind(e).kind # "direct_user" => Bind(e).bucket = None
<1>1. e.hop \in HopKinds /\ e.customer \in MaybeUser /\ e.bucket \in MaybeBucket
      BY Constants DEF EntryRow
<1>2. RelayBinding(e.hop) \in {"relay_user", "legacy_shared_relay", "relay_link", "unknown", ""}
      BY <1>1 DEF RelayBinding, HopKinds
<1>3. ASSUME NEW k \in Kinds, NEW u \in MaybeUser, NEW b \in MaybeBucket,
             k = "direct_user" => u # None
      PROVE  /\ Binding(k, u, b) \in BindingRow /\ Binding(k, u, b).bucket = b
             /\ Binding(k, u, b).own = b /\ Binding(k, u, b).kind = k
      BY <1>3 DEF Binding, BindingRow, MaybeUser
<1>4. None \in MaybeUser /\ None \in MaybeBucket
      BY DEF MaybeUser, MaybeBucket
<1>5. Kinds = {"unknown", "direct_user", "relay_user", "legacy_shared_relay", "relay_link",
               "ambiguous_identity"}
      BY DEF Kinds
<1>6. \/ \E k \in Kinds \ {"direct_user"} : Bind(e) = Binding(k, None, None)
      \/ e.customer # None /\ Bind(e) = Binding("direct_user", e.customer, e.bucket)
  <2> DEFINE kind == RelayBinding(e.hop)
  <2>1. CASE kind = "legacy_shared_relay" /\ e.customer # None
    <3>1. Bind(e) = Binding("ambiguous_identity", None, None)
          BY <2>1 DEF Bind
    <3> QED BY <1>5, <3>1
  <2>2. CASE ~(kind = "legacy_shared_relay" /\ e.customer # None) /\ kind # ""
    <3>1. Bind(e) = Binding(kind, None, None)
          BY <2>2 DEF Bind
    <3> QED BY <1>2, <1>5, <2>2, <3>1
  <2>3. CASE kind = "" /\ e.customer = None
    <3>1. Bind(e) = Binding("unknown", None, None)
          BY <2>3 DEF Bind
    <3> QED BY <1>5, <3>1
  <2>4. CASE kind = "" /\ e.customer # None
          BY <2>4 DEF Bind
  <2> QED BY <2>1, <2>2, <2>3, <2>4
<1>7. CASE e.customer # None /\ Bind(e) = Binding("direct_user", e.customer, e.bucket)
      BY <1>1, <1>3, <1>5, <1>7
<1>8. CASE \E k \in Kinds \ {"direct_user"} : Bind(e) = Binding(k, None, None)
      BY <1>3, <1>4, <1>8
<1> QED BY <1>6, <1>7, <1>8

\* An attempt changes nothing of the reading but its bindings
LEMMA PollOfTyped ==
  ASSUME Typed, NEW s \in Sequences
  PROVE  /\ PollOf(s) \in PollRow /\ polls[s] \in PollRow
         /\ PollOf(s).bound = Frozen(polls[s])
         /\ PollOf(s).state = polls[s].state /\ PollOf(s).mode = polls[s].mode
         /\ PollOf(s).epoch = polls[s].epoch /\ PollOf(s).transition = polls[s].transition
         /\ PollOf(s).count = polls[s].count /\ PollOf(s).top = polls[s].top
         /\ PollOf(s).born = polls[s].born /\ PollOf(s).seen = polls[s].seen
<1>1. polls[s] \in PollRow
      BY DEF Typed, JournalTyped
<1>2. Frozen(polls[s]) \in [Names -> BindingRow]
      BY <1>1, FrozenTyped
<1> QED BY <1>1, <1>2 DEF PollOf, PollRow

\* A cursor stays a cursor
LEMMA CursorTyped ==
  ASSUME Typed, NEW s \in Sequences, NEW n \in Names, PollOf(s).epoch \in Epochs
  PROVE  CursorAfter(PollOf(s), s, n) \in CursorRow
<1>1. cursors[n][PollOf(s).epoch] \in CursorRow
      BY DEF Typed, JournalTyped
<1>2. PollOf(s).count[n] \in Nat /\ s \in Nat
      BY PollOfTyped, PollFields DEF Counters, Sequences
<1>3. \A x \in CursorRow : [at |-> x.at, seq |-> s] \in CursorRow
      BY <1>2 DEF CursorRow
<1>4. [at |-> PollOf(s).count[n], seq |-> s] \in CursorRow
      BY <1>2 DEF CursorRow
<1> QED BY <1>1, <1>3, <1>4 DEF CursorAfter

\* processTrafficPoll keeps the journal typed
LEMMA ProcessTyped ==
  ASSUME Typed, NEW s \in Sequences, NEW broken, ProcessPoll(s, broken)
  PROVE  JournalTyped'
<1>1. polls' \in [Sequences -> PollRow]
  <2>1. \A r \in PollRow : \A d \in SUBSET Names : \A b \in BOOLEAN :
          [r EXCEPT !.seen = r.seen \cup d, !.state = IF b THEN "done" ELSE "pending"] \in PollRow
        BY DEF PollRow
  <2>2. DoneIn(s, broken) \in SUBSET Names
        BY DEF DoneIn, Todo
  <2>3. PollIn(s, broken) \in PollRow
        BY <2>1, <2>2, PollOfTyped DEF PollIn
  <2> QED BY <2>3, ProcessIs DEF Typed, JournalTyped
<1>2. cursors' \in [Names -> [Epochs -> CursorRow]]
  <2> DEFINE e == PollOf(s).epoch
  <2>1. ASSUME NEW n \in Names
        PROVE  [cursors[n] EXCEPT ![e] = CursorAfter(PollOf(s), s, n)] \in [Epochs -> CursorRow]
    <3>1. cursors[n] \in [Epochs -> CursorRow]
          BY DEF Typed, JournalTyped
    <3>2. e \in Epochs => CursorAfter(PollOf(s), s, n) \in CursorRow
          BY CursorTyped
    <3> HIDE DEF e
    <3> QED BY <3>1, <3>2
  <2>2. cursors \in [Names -> [Epochs -> CursorRow]]
        BY DEF Typed, JournalTyped
  <2>3. \A n \in Names : CursorsIn(s, broken, n) \in [Epochs -> CursorRow]
        BY <2>1, <2>2 DEF CursorsIn
  <2> QED BY <2>3, ProcessIs
<1>3. meter' \in MeterRow
  <2>1. /\ PollOf(s).mode \in {"reset", "cumulative"} /\ PollOf(s).epoch \in MaybeEpoch
        /\ s \in Nat /\ meter \in MeterRow
        BY PollOfTyped, PollFields DEF Typed, JournalTyped, Sequences
  <2>2. ASSUME NEW m \in {"reset", "cumulative"}
        PROVE  [mode |-> m, epoch |-> PollOf(s).epoch, last |-> s] \in MeterRow
        BY <2>1 DEF MeterRow
  <2>3. meter' = MeterAfter(PollOf(s), s)
        BY ProcessIs
  <2> QED BY <2>1, <2>2, <2>3 DEF MeterAfter
<1>4. sequence' \in 0..MaxSequence
      BY ProcessIs DEF Typed, JournalTyped
<1> QED BY <1>1, <1>2, <1>3, <1>4 DEF JournalTyped

\* RecordTrafficPoll keeps the types
LEMMA RecordTyped ==
  ASSUME Typed, NEW p \in Panels, RecordTrafficPoll(p)
  PROVE  Typed'
<1> DEFINE me == panels[p]
           new == [state |-> "pending", epoch |-> me.epoch, transition |-> me.transition,
                   mode |-> IF me.pc = "store" THEN "reset" ELSE "cumulative",
                   count |-> me.count, top |-> me.top, born |-> me.born,
                   bound |-> [n \in Names |-> Bind(registry[n])], seen |-> {}]
<1>1. me \in PanelRow
      BY DEF Typed, PanelsTyped
<1>2. me.epoch \in MaybeEpoch /\ me.transition \in BOOLEAN /\ me.count \in Counters
      /\ me.top \in Counters /\ me.born \in Nat /\ me.seq \in Nat
      BY <1>1 DEF PanelRow
<1>3. new \in PollRow
  <2> DEFINE bound == [n \in Names |-> Bind(registry[n])]
  <2>1. bound \in [Names -> BindingRow]
        BY BindTyped DEF Typed, WorldTyped
  <2> DEFINE mode == IF me.pc = "store" THEN "reset" ELSE "cumulative"
  <2>2. mode \in {"reset", "cumulative"}
        OBVIOUS
  <2>3. new = [state |-> "pending", epoch |-> me.epoch, transition |-> me.transition,
               mode |-> mode, count |-> me.count, top |-> me.top, born |-> me.born,
               bound |-> bound, seen |-> {}]
        OBVIOUS
  <2> HIDE DEF bound, mode, new
  <2> QED BY <1>2, <2>1, <2>2, <2>3 DEF PollRow
<1>4. polls' = [polls EXCEPT ![me.seq] = new]
      BY DEF RecordTrafficPoll
<1>5. meter' = meter \/ meter' = [mode |-> "cumulative", epoch |-> me.epoch, last |-> me.seq]
      BY DEF RecordTrafficPoll
<1> HIDE DEF new
<1>6. meter' \in MeterRow
      BY <1>2, <1>5 DEF Typed, JournalTyped, MeterRow
<1>7. JournalTyped'
      BY <1>3, <1>4, <1>6 DEF RecordTrafficPoll, Typed, JournalTyped
<1>8. PanelsTyped'
      BY GoToTyped DEF RecordTrafficPoll, Pcs
<1> QED BY <1>7, <1>8 DEF RecordTrafficPoll, outside, Typed, WorldTyped

\* The collector's own attempt keeps the types
LEMMA ProcessStepTyped ==
  ASSUME Typed, NEW p \in Panels, panels[p].seq \in Sequences, ProcessOwnPoll(p)
  PROVE  Typed'
<1>1. JournalTyped'
      BY ProcessTyped DEF ProcessOwnPoll, Attempt, journal, Typed, JournalTyped
<1>2. PanelsTyped'
      BY GoToTyped, LeaveTyped DEF ProcessOwnPoll, Pcs
<1> QED BY <1>1, <1>2 DEF ProcessOwnPoll, outside, Typed, WorldTyped

\* A retry keeps the types
LEMMA RetryTyped ==
  ASSUME Typed, NEW s \in Sequences, RetryPoll(s)
  PROVE  Typed'
<1>1. JournalTyped'
      BY ProcessTyped DEF RetryPoll, Attempt
<1> QED BY <1>1 DEF RetryPoll, outside, Typed, WorldTyped, PanelsTyped

\* An executed reset keeps the types
LEMMA ResetTyped ==
  ASSUME Typed, NEW r \in wire, r[1] \in Panels, ExecuteReset(r)
  PROVE  Typed'
<1>1. /\ core.count \in Counters /\ core.epoch \in Epochs /\ total[core.epoch] \in Counters
      /\ core.epoch \in Nat /\ Zero \in Counters
      BY Constants DEF Typed, WorldTyped, CoreRow, Epochs
<1>2. core' \in CoreRow
      BY <1>1 DEF ExecuteReset, Typed, WorldTyped, CoreRow
<1>3. PanelsTyped'
  <2> DEFINE new == [panels[r[1]] EXCEPT !.pc = "answered", !.count = core.count,
                       !.top = total[core.epoch], !.born = core.epoch]
  <2>1. new \in PanelRow
        BY <1>1, PanelStepTyped, "answered" \in Pcs DEF Typed, PanelsTyped, Pcs, Unstored
  <2>2. panels' = panels \/ Step(r[1], new)
        BY DEF ExecuteReset
  <2> HIDE DEF new
  <2> QED BY <2>1, <2>2, StepTyped DEF Typed, PanelsTyped
<1> QED BY <1>2, <1>3 DEF ExecuteReset, outside, journal, Typed, WorldTyped, JournalTyped

\* The machine and the people around the collector keep the types
LEMMA WorldStepTyped ==
  ASSUME Typed,
         RestartCore \/ ToggleOptIn \/ (\E n \in Names : Traffic(n) \/ Rename(n))
                     \/ (\E u \in Users : ChangePlan(u))
  PROVE  Typed'
<1> USE DEF outside, journal
<1>1. UNCHANGED <<panels, sequence, meter, polls, cursors>>
      BY DEF RestartCore, ToggleOptIn, Traffic, Rename, ChangePlan
<1>2. JournalTyped' /\ PanelsTyped'
      BY <1>1 DEF Typed, JournalTyped, PanelsTyped
<1>3. WorldTyped'
  <2>1. core' \in CoreRow
    <3>1. CASE RestartCore
      <4>1. core.epoch + 1 \in Epochs
            BY <3>1, Constants DEF RestartCore, Typed, WorldTyped, CoreRow, Epochs
      <4> QED BY <3>1, <4>1, Constants DEF RestartCore, CoreRow
    <3>2. ASSUME NEW n \in Names, Traffic(n) PROVE core' \in CoreRow
          BY <3>2 DEF Traffic, Typed, WorldTyped, CoreRow, Counters
    <3>3. CASE UNCHANGED core
          BY <3>3 DEF Typed, WorldTyped
    <3> QED BY <3>1, <3>2, <3>3 DEF ToggleOptIn, Rename, ChangePlan
  <2>2. total' \in [Epochs -> Counters]
    <3>1. ASSUME NEW n \in Names, Traffic(n) PROVE total' \in [Epochs -> Counters]
      <4>1. total[core.epoch] \in Counters /\ total \in [Epochs -> Counters]
            BY DEF Typed, WorldTyped, CoreRow
      <4>2. [total[core.epoch] EXCEPT ![n] = @ + 1] \in Counters
            BY <4>1 DEF Counters
      <4>3. total' = [total EXCEPT ![core.epoch] = [total[core.epoch] EXCEPT ![n] = total[core.epoch][n] + 1]]
            BY <3>1 DEF Traffic
      <4> QED BY <4>1, <4>2, <4>3
    <3> QED BY <3>1 DEF RestartCore, ToggleOptIn, Rename, ChangePlan, Typed, WorldTyped
  <2>3. registry' \in [Names -> EntryRow]
    <3>1. ASSUME NEW n \in Names, Rename(n) PROVE registry' \in [Names -> EntryRow]
          BY <3>1 DEF Rename, Typed, WorldTyped, EntryRow, MaybeBucket
    <3> QED BY <3>1 DEF RestartCore, ToggleOptIn, Traffic, ChangePlan, Typed, WorldTyped
  <2>4. entitled' \in [Users -> MaybeBucket]
    <3>1. ASSUME NEW u \in Users, ChangePlan(u) PROVE entitled' \in [Users -> MaybeBucket]
          BY <3>1 DEF ChangePlan, Typed, WorldTyped, MaybeBucket
    <3> QED BY <3>1 DEF RestartCore, ToggleOptIn, Traffic, Rename, Typed, WorldTyped
  <2> QED BY <2>1, <2>2, <2>3, <2>4 DEF WorldTyped
<1> QED BY <1>2, <1>3 DEF Typed
-----------------------------------------------------------------------------
(* The order of the readings                                                 *)

Same(p) == \A q \in Panels \ {p} : panels'[q] = panels[q]

\* What Step changes: the record of one panel
LEMMA StepIs ==
  ASSUME Typed, NEW p \in Panels, NEW r, Step(p, r)
  PROVE  Same(p) /\ panels'[p] = r
  BY DEF Step, Same, Typed, PanelsTyped

\* What Leave changes
LEMMA LeaveIs ==
  ASSUME Typed, NEW p \in Panels, Leave(p)
  PROVE  /\ Same(p) /\ panels'[p].pc = "idle" /\ panels'[p].live = FALSE
         /\ panels'[p].transition = FALSE /\ panels'[p].epoch = NoEpoch
         /\ lease' = IF lease = p THEN None ELSE lease
  BY StepIs DEF Leave, Idle

\* What GoTo changes: the place, and nothing the panel holds
LEMMA GoToIs ==
  ASSUME Typed, NEW p \in Panels, NEW pc, GoTo(p, pc)
  PROVE  /\ Same(p) /\ panels'[p].pc = pc /\ panels'[p].live = panels[p].live
         /\ panels'[p].seq = panels[p].seq /\ panels'[p].epoch = panels[p].epoch
         /\ panels'[p].transition = panels[p].transition /\ panels'[p].count = panels[p].count
         /\ panels'[p].top = panels[p].top /\ panels'[p].born = panels[p].born
<1>1. panels[p] \in PanelRow
      BY DEF Typed, PanelsTyped
<1>2. Same(p) /\ panels'[p] = [panels[p] EXCEPT !.pc = pc]
      BY StepIs DEF GoTo
<1> QED BY <1>1, <1>2 DEF PanelRow

\* A reading is in hand or stored
LEMMA ReadingIs ==
  /\ \A t \in Readings : \/ \E s \in Sequences : Stored(s) /\ t = PollReading(s)
                         \/ \E p \in Panels : panels[p].pc \in Holding /\ t = PanelReading(p)
  /\ \A s \in Sequences : Stored(s) => PollReading(s) \in Readings
  /\ \A p \in Panels : panels[p].pc \in Holding => PanelReading(p) \in Readings
  BY DEF Readings

\* The types of the parts, one by one
LEMMA NumbersTyped ==
  ASSUME Typed
  PROVE  /\ \A e \in Epochs : e \in Nat
         /\ \A s \in Sequences : s \in Nat
         /\ core.epoch \in Epochs /\ core.count \in Counters
         /\ \A e \in Epochs, n \in Names : total[e][n] \in Nat
         /\ \A n \in Names : core.count[n] \in Nat
         /\ sequence \in Nat /\ meter.last \in Nat
         /\ \A p \in Panels : /\ panels[p] \in PanelRow
                              /\ panels[p].seq \in Nat /\ panels[p].born \in Nat
                              /\ panels[p].pc \in Pcs /\ panels[p].live \in BOOLEAN
                              /\ panels[p].epoch \in MaybeEpoch
         /\ \A s \in Sequences : polls[s] \in PollRow
<1>1. core.epoch \in Epochs /\ core.count \in Counters /\ total \in [Epochs -> Counters]
      BY DEF Typed, WorldTyped, CoreRow
<1>2. \A p \in Panels : /\ panels[p] \in PanelRow
                        /\ panels[p].seq \in Nat /\ panels[p].born \in Nat
                        /\ panels[p].pc \in Pcs /\ panels[p].live \in BOOLEAN
                        /\ panels[p].epoch \in MaybeEpoch
      BY DEF Typed, PanelsTyped, PanelRow
<1>3. \A s \in Sequences : polls[s] \in PollRow
      BY DEF Typed, JournalTyped
<1>4. meter.last \in Nat
      BY DEF Typed, JournalTyped, MeterRow
<1>5. \A e \in Epochs : e \in Nat
      BY Constants DEF Epochs
<1>6. \A s \in Sequences : s \in Nat
      BY Constants DEF Sequences
<1> QED BY <1>1, <1>2, <1>3, <1>4, <1>5, <1>6, SequenceTyped DEF Counters

\* The fields of a reading and their types
LEMMA ReadingTyped ==
  ASSUME Typed, NEW t \in Readings
  PROVE  /\ t.seq \in Nat /\ t.cumulative \in BOOLEAN /\ t.born \in Nat
         /\ t.top \in Counters /\ t.count \in Counters
         /\ \A n \in Names : t.top[n] \in Nat /\ t.count[n] \in Nat /\ Base(t, n) \in Int
<1>1. /\ t.seq \in Nat /\ t.cumulative \in BOOLEAN /\ t.born \in Nat
      /\ t.top \in Counters /\ t.count \in Counters
  <2>1. CASE \E s \in Sequences : Stored(s) /\ t = PollReading(s)
        BY <2>1, NumbersTyped, PollFields DEF PollReading
  <2>2. CASE \E p \in Panels : panels[p].pc \in Holding /\ t = PanelReading(p)
        BY <2>2, NumbersTyped DEF PanelReading, PanelRow
  <2> QED BY <2>1, <2>2, ReadingIs
<1> QED BY <1>1 DEF Counters, Base

\* Nothing new is read
LEMMA ReadingsKept ==
  ASSUME Typed, NEW p \in Panels, Same(p), polls' = polls,
         panels'[p].pc \in Holding =>
           panels[p].pc \in Holding /\ PanelReading(p)' = PanelReading(p)
  PROVE  Readings' \subseteq Readings
<1> SUFFICES ASSUME NEW t \in Readings' PROVE t \in Readings
    OBVIOUS
<1>1. CASE \E s \in Sequences : Stored(s)' /\ t = PollReading(s)'
      BY <1>1, ReadingIs DEF Stored, PollReading
<1>2. CASE \E q \in Panels : panels'[q].pc \in Holding /\ t = PanelReading(q)'
  <2>1. PICK q \in Panels : panels'[q].pc \in Holding /\ t = PanelReading(q)'
        BY <1>2
  <2>2. CASE q = p
        BY <2>1, <2>2, ReadingIs
  <2>3. CASE q # p
        BY <2>1, <2>3, ReadingIs DEF Same, PanelReading
  <2> QED BY <2>2, <2>3
<1> QED BY <1>1, <1>2 DEF Readings

\* What a step of a panel that reads and stores nothing has to respect
Moves(p) ==
  LET old == panels[p]  new == panels'[p]
      reserves == new.seq = sequence + 1 /\ sequence' = sequence + 1
  IN
    /\ new.pc \in Unstored => reserves \/ (old.pc \in Unstored /\ new.seq = old.seq)
    /\ new.pc = "process" => old.pc = "process" /\ new.seq = old.seq
    /\ new.pc \in Holding => old.pc \in Holding /\ PanelReading(p)' = PanelReading(p)
    /\ new.live /\ new.pc \in Unstored =>
         reserves \/ (old.live /\ (new.pc \in {"send", "await", "query"} =>
                                     old.pc \in {"send", "await", "query"}))
    /\ new.live /\ new.pc \in {"intend", "send", "await"} =>
         (old.live /\ old.pc \in {"intend", "send", "await"}) \/ meter.mode # "cumulative"
    /\ new.live /\ (new.pc \in {"reserve", "query"} \/ (new.pc = "process" /\ new.transition)) =>
         meter.mode = "cumulative"
    /\ new.pc = "choose" => ~new.transition
    /\ new.epoch \in Epochs => new.epoch <= core.epoch
    /\ new.transition \/ new.pc \in {"reserve", "query", "compare", "store_cumulative"} =>
         new.epoch \in Epochs
    /\ new.pc = "compare" => new.epoch <= new.born
    /\ new.pc = "store_cumulative" => new.epoch = new.born

\* A step that reads and stores nothing, and respects Moves, keeps the order
LEMMA MovesKeepOrder ==
  ASSUME OrderInv, Typed', Leased', NEW p \in Panels, Same(p), Moves(p),
         UNCHANGED <<core, total, polls, meter>>,
         sequence' = sequence \/ sequence' = sequence + 1
  PROVE  OrderInv'
<1> USE DEF Same
<1>1. Readings' \subseteq Readings
      BY ReadingsKept DEF OrderInv, Moves
<1>2. /\ Typed /\ sequence \in Nat /\ sequence' \in Nat
      /\ \A q \in Panels : panels[q].seq \in Nat /\ panels'[q].seq \in Nat
      BY NumbersTyped, SequenceTyped DEF OrderInv, Typed, PanelsTyped, PanelRow
<1>3. \A t \in Readings : t.seq \in Nat /\ t.seq <= sequence
  <2> SUFFICES ASSUME NEW t \in Readings PROVE t.seq \in Nat /\ t.seq <= sequence
      OBVIOUS
  <2>1. CASE \E s \in Sequences : Stored(s) /\ t = PollReading(s)
        BY <2>1, NumbersTyped, <1>2 DEF OrderInv, Reserved, PollReading
  <2>2. CASE \E q \in Panels : panels[q].pc \in Holding /\ t = PanelReading(q)
        BY <2>2, <1>2 DEF OrderInv, Reserved, PanelReading, Holding, Unstored
  <2> QED BY <2>1, <2>2, ReadingIs
<1>4. Reserved'
  <2>1. \A s \in Sequences : Stored(s)' => s <= sequence'
        BY <1>2, NumbersTyped DEF OrderInv, Reserved, Stored
  <2>2. ASSUME NEW q \in Panels
        PROVE  /\ panels'[q].pc \in Unstored => panels'[q].seq \in 1..sequence' /\ ~Stored(panels[q].seq)'
               /\ panels'[q].pc = "process" => panels'[q].seq \in Sequences /\ Stored(panels[q].seq)'
    <3>1. CASE q # p
          BY <1>2, <3>1 DEF OrderInv, Reserved, Stored
    <3>2. CASE q = p
      <4>1. panels'[p].pc = "process" => panels'[p].seq \in Sequences /\ Stored(panels[p].seq)'
            BY DEF Moves, OrderInv, Reserved, Stored
      <4>2. CASE panels[p].pc \in Unstored /\ panels'[p].seq = panels[p].seq
            BY <1>2, <3>2, <4>1, <4>2 DEF OrderInv, Reserved, Stored
      <4>3. CASE panels'[p].seq = sequence + 1 /\ sequence' = sequence + 1
        <5>1. sequence + 1 \in Sequences
              BY <4>3, <1>2 DEF Typed, JournalTyped, Sequences
        <5>2. ~Stored(sequence + 1)
              BY <5>1, <1>2 DEF OrderInv, Reserved
        <5> QED BY <1>2, <3>2, <4>1, <4>3, <5>2 DEF Stored
      <4> QED BY <3>2, <4>1, <4>2, <4>3 DEF Moves
    <3> QED BY <3>1, <3>2
  <2>3. \A q, r \in Panels :
          panels'[q].pc \in Unstored /\ panels'[r].pc \in Unstored /\ q # r =>
            panels'[q].seq # panels'[r].seq
    <3>1. \A q \in Panels \ {p} : panels'[p].pc \in Unstored /\ panels'[q].pc \in Unstored =>
            panels'[p].seq # panels'[q].seq
          BY <1>2 DEF Moves, OrderInv, Reserved
    <3> QED BY <3>1 DEF OrderInv, Reserved
  <2>4. meter'.last = 0 \/ (meter'.last \in Sequences /\ Stored(meter.last)')
        BY DEF OrderInv, Reserved, Stored
  <2> QED BY <2>1, <2>2, <2>3, <2>4 DEF Reserved
<1>5. Newest'
  <2> SUFFICES ASSUME NEW q \in Panels, panels'[q].live, panels'[q].pc \in Unstored,
                      NEW t \in Readings
               PROVE  /\ t.seq <= panels'[q].seq
                      /\ panels'[q].pc \in {"send", "await", "query"} => t.seq < panels'[q].seq
      BY <1>1 DEF Newest
  <2>1. CASE q # p
        BY <2>1 DEF OrderInv, Newest
  <2>2. CASE q = p
    <3>1. CASE panels'[p].seq = sequence + 1
          BY <1>2, <1>3, <2>2, <3>1
    <3>2. CASE panels'[p].seq # sequence + 1
          BY <2>2, <3>2 DEF Moves, OrderInv, Newest
    <3> QED BY <3>1, <3>2
  <2> QED BY <2>1, <2>2
<1>6. Switched'
  <2>1. ASSUME NEW t \in Readings', t.cumulative, NEW q \in Panels, panels'[q].live
        PROVE  meter'.mode = "cumulative" /\ panels'[q].pc \notin {"intend", "send", "await"}
        BY <1>1, <2>1 DEF OrderInv, Switched, Moves
  <2>2. (\E t \in Readings' : t.cumulative) => meter'.mode = "cumulative"
        BY <1>1 DEF OrderInv, Switched
  <2>3. \A q \in Panels :
          panels'[q].live /\ (panels'[q].pc \in {"reserve", "query"}
                             \/ (panels'[q].pc = "process" /\ panels'[q].transition)) =>
            meter'.mode = "cumulative"
        BY DEF OrderInv, Switched, Moves
  <2> QED BY <2>1, <2>2, <2>3 DEF Switched
<1>7. Verified'
      BY DEF OrderInv, Verified, Moves, Stored
<1>8. CoreBelow' /\ BytesBounded'
      BY DEF OrderInv, CoreBelow, BytesBounded
<1>9. \A t \in Readings' : Measured(t)'
      BY <1>1 DEF OrderInv, Measured, Base
<1>10. \A r, t \in Readings' : InSequence(r, t)'
      BY <1>1 DEF OrderInv, InSequence, Base
<1> QED BY <1>4, <1>5, <1>6, <1>7, <1>8, <1>9, <1>10 DEF OrderInv

\* A panel that gives the lease back is out of everything
LEMMA LeaveMoves ==
  ASSUME OrderInv, NEW p \in Panels, Leave(p)
  PROVE  Same(p) /\ Moves(p) /\ Leased'
<1>1. /\ Same(p) /\ panels'[p].pc = "idle" /\ panels'[p].live = FALSE
      /\ panels'[p].transition = FALSE /\ panels'[p].epoch = NoEpoch
      /\ lease' = IF lease = p THEN None ELSE lease
      BY LeaveIs DEF OrderInv
<1>2. Leased'
      BY <1>1 DEF OrderInv, Leased, Same
<1>3. NoEpoch \notin Epochs
      BY Constants
<1>4. panels'[p].pc \notin Unstored \cup Holding
      BY <1>1 DEF Unstored, Holding
<1>5. Moves(p)
      BY <1>1, <1>3, <1>4 DEF Moves
<1> QED BY <1>1, <1>2, <1>5

\* A panel goes on under the lease it has
LEMMA LeaseKept ==
  ASSUME OrderInv, NEW p \in Panels, Same(p), panels'[p].live => panels[p].live, lease' = lease
  PROVE  Leased'
  BY DEF OrderInv, Leased, Same

\* Every step of a collection but the read itself keeps the order
LEMMA PanelStepKeepsOrder ==
  ASSUME OrderInv, NEW p \in Panels, PanelStep(p), ~ReadCounters(p)
  PROVE  OrderInv'
<1> USE DEF outside, journal
<1>0. /\ UNCHANGED <<core, total, polls, meter>>
      /\ sequence' = sequence \/ sequence' = sequence + 1
      BY DEF PanelStep, AcquireLease, ChooseReader, BeginTrafficReset, SendReset, CheckResetEpoch,
         ReserveSequence, ReadCounters, CompareEpoch, GiveUp, ContextEnds
<1>1. Typed /\ Typed'
      BY PanelStepKeepsTypes DEF OrderInv
<1>2. /\ panels[p] \in PanelRow /\ core.epoch \in Epochs /\ NoEpoch \notin Epochs
      /\ core.epoch \in Nat /\ panels[p].born \in Nat
      BY <1>1, NumbersTyped, Constants
<1>3. Same(p) /\ Moves(p) /\ Leased'
  <2>1. CASE AcquireLease(p)
    <3>1. /\ Same(p) /\ panels'[p] = [Idle EXCEPT !.pc = "choose", !.live = TRUE] /\ lease' = p
          BY <1>1, <2>1, StepIs DEF AcquireLease
    <3>2. /\ panels'[p].pc = "choose" /\ panels'[p].live /\ ~panels'[p].transition
          /\ panels'[p].epoch = NoEpoch
          BY <3>1 DEF Idle
    <3>3. Leased'
      <4>1. \A q \in Panels \ {p} : ~panels[q].live
            BY <2>1, Constants DEF AcquireLease, LeaseFree, OrderInv, Leased
      <4> QED BY <3>1, <4>1 DEF Leased, Same
    <3>4. Moves(p)
          BY <1>2, <3>2 DEF Moves, Unstored, Holding
    <3> QED BY <3>1, <3>3, <3>4
  <2>2. CASE ChooseReader(p)
    <3>1. PICK verified \in BOOLEAN :
            LET asked == meter.mode = "cumulative" \/ optIn \/ NamespaceProof
                epoch == IF asked /\ verified /\ panels[p].live THEN core.epoch ELSE NoEpoch
            IN IF meter.mode # "cumulative" /\ (~optIn \/ epoch = NoEpoch)
                 THEN Step(p, [panels[p] EXCEPT !.pc = "intend", !.epoch = epoch]) /\ lease' = lease
               ELSE IF epoch = NoEpoch THEN Leave(p)
               ELSE Step(p, [panels[p] EXCEPT !.epoch = epoch,
                               !.transition = meter.mode # "cumulative",
                               !.pc = IF meter.mode # "cumulative" THEN "intend" ELSE "reserve"])
                    /\ lease' = lease
          BY <2>2 DEF ChooseReader
    <3> DEFINE asked == meter.mode = "cumulative" \/ optIn \/ NamespaceProof
               epoch == IF asked /\ verified /\ panels[p].live THEN core.epoch ELSE NoEpoch
               pc == IF meter.mode # "cumulative" THEN "intend" ELSE "reserve"
               switch == meter.mode # "cumulative"
    <3>2. epoch = core.epoch \/ epoch = NoEpoch
          OBVIOUS
    <3>3. \/ /\ switch /\ lease' = lease
             /\ Step(p, [panels[p] EXCEPT !.pc = "intend", !.epoch = epoch])
          \/ Leave(p)
          \/ /\ lease' = lease /\ epoch # NoEpoch
             /\ Step(p, [panels[p] EXCEPT !.epoch = epoch, !.transition = switch, !.pc = pc])
          BY <3>1
    <3> HIDE DEF epoch, asked
    <3>4. CASE Leave(p)
          BY <3>4, LeaveMoves
    <3>5. CASE /\ switch /\ lease' = lease
               /\ Step(p, [panels[p] EXCEPT !.pc = "intend", !.epoch = epoch])
      <4>1. Same(p) /\ panels'[p] = [panels[p] EXCEPT !.pc = "intend", !.epoch = epoch]
            BY <1>1, <3>5, StepIs
      <4>2. /\ panels'[p].pc = "intend" /\ panels'[p].live = panels[p].live
            /\ panels'[p].epoch = epoch /\ panels'[p].transition = panels[p].transition
            BY <1>2, <4>1 DEF PanelRow
      <4>3. ~panels[p].transition \/ epoch \in Epochs
            BY <2>2 DEF ChooseReader, OrderInv, Verified
      <4>4. Moves(p)
            BY <1>2, <3>2, <3>5, <4>2, <4>3 DEF Moves, Unstored, Holding
      <4> QED BY <3>5, <4>1, <4>2, <4>4, LeaseKept
    <3>6. CASE /\ lease' = lease /\ epoch # NoEpoch
               /\ Step(p, [panels[p] EXCEPT !.epoch = epoch, !.transition = switch, !.pc = pc])
      <4>1. Same(p) /\ panels'[p] = [panels[p] EXCEPT !.epoch = epoch, !.transition = switch, !.pc = pc]
            BY <1>1, <3>6, StepIs
      <4>2. /\ panels'[p].pc = pc /\ panels'[p].live = panels[p].live /\ panels'[p].epoch = epoch
            BY <1>2, <4>1 DEF PanelRow
      <4>3. Moves(p)
            BY <1>2, <3>2, <3>6, <4>2 DEF Moves, Unstored, Holding
      <4> QED BY <3>6, <4>1, <4>2, <4>3, LeaseKept
    <3> QED BY <3>3, <3>4, <3>5, <3>6
  <2>3. CASE BeginTrafficReset(p)
    <3>1. /\ Same(p) /\ panels'[p] = [panels[p] EXCEPT !.pc = "send", !.seq = sequence + 1]
          /\ lease' = lease /\ sequence' = sequence + 1 /\ panels[p].pc = "intend"
          BY <1>1, <2>3, StepIs DEF BeginTrafficReset
    <3>2. /\ panels'[p].pc = "send" /\ panels'[p].live = panels[p].live
          /\ panels'[p].seq = sequence + 1 /\ panels'[p].epoch = panels[p].epoch
          /\ panels'[p].transition = panels[p].transition
          BY <1>2, <3>1 DEF PanelRow
    <3>3. Moves(p)
          BY <3>1, <3>2 DEF Moves, Holding, OrderInv, Verified
    <3> QED BY <3>1, <3>2, <3>3, LeaseKept
  <2>4. CASE SendReset(p)
    <3>1. panels[p].pc = "send" /\ GoTo(p, "await") /\ lease' = lease
          BY <2>4 DEF SendReset
    <3>2. Moves(p)
          BY <1>1, <3>1, GoToIs DEF Moves, Holding, Unstored, OrderInv, Verified
    <3> QED BY <1>1, <3>1, <3>2, GoToIs, LeaseKept
  <2>5. CASE CheckResetEpoch(p)
    <3>1. CASE Leave(p)
          BY <3>1, LeaveMoves
    <3>2. CASE GoTo(p, "store") /\ lease' = lease
      <4>1. panels[p].pc = "answered"
            BY <2>5 DEF CheckResetEpoch
      <4>2. PanelReading(p)' = PanelReading(p)
            BY <1>1, <3>2, <4>1, GoToIs DEF PanelReading
      <4>3. Moves(p)
            BY <1>1, <3>2, <4>1, <4>2, GoToIs DEF Moves, Holding, Unstored, OrderInv, Verified
      <4> QED BY <1>1, <3>2, <4>3, GoToIs, LeaseKept
    <3> QED BY <2>5, <3>1, <3>2 DEF CheckResetEpoch
  <2>6. CASE ReserveSequence(p)
    <3>1. /\ Same(p) /\ lease' = lease /\ sequence' = sequence + 1 /\ panels[p].pc = "reserve"
          /\ panels'[p] = [panels[p] EXCEPT !.pc = "query", !.seq = sequence + 1, !.transition = FALSE]
          BY <1>1, <2>6, StepIs DEF ReserveSequence
    <3>2. /\ panels'[p].pc = "query" /\ panels'[p].live = panels[p].live
          /\ panels'[p].seq = sequence + 1 /\ panels'[p].epoch = panels[p].epoch
          /\ panels'[p].transition = FALSE
          BY <1>2, <3>1 DEF PanelRow
    <3>3. Moves(p)
          BY <3>1, <3>2 DEF Moves, Holding, OrderInv, Verified, Switched
    <3> QED BY <3>1, <3>2, <3>3, LeaseKept
  <2>7. CASE CompareEpoch(p)
    <3>1. CASE Leave(p)
          BY <3>1, LeaveMoves
    <3>2. CASE core.epoch = panels[p].epoch /\ GoTo(p, "store_cumulative") /\ lease' = lease
      <4>1. panels[p].pc = "compare"
            BY <2>7 DEF CompareEpoch
      <4>2. PanelReading(p)' = PanelReading(p)
            BY <1>1, <3>2, <4>1, GoToIs DEF PanelReading
      <4>3. panels[p].epoch = panels[p].born
        <5>1. panels[p].epoch <= panels[p].born
              BY <4>1 DEF OrderInv, Verified
        <5>2. PanelReading(p) \in Readings
              BY <4>1, ReadingIs DEF Holding
        <5>3. PanelReading(p).born <= core.epoch
              BY <5>2 DEF OrderInv, Measured
        <5> QED BY <1>2, <3>2, <5>1, <5>3 DEF PanelReading
      <4>4. Moves(p)
            BY <1>1, <3>2, <4>1, <4>2, <4>3, GoToIs DEF Moves, Holding, Unstored, OrderInv, Verified
      <4> QED BY <1>1, <3>2, <4>4, GoToIs, LeaseKept
    <3> QED BY <2>7, <3>1, <3>2 DEF CompareEpoch
  <2>8. CASE GiveUp(p)
        BY <2>8, LeaveMoves DEF GiveUp
  <2>9. CASE ContextEnds(p)
    <3>1. /\ Same(p) /\ panels'[p] = [panels[p] EXCEPT !.live = FALSE] /\ lease' = lease
          BY <1>1, <2>9, StepIs DEF ContextEnds
    <3>2. /\ panels'[p].live = FALSE /\ panels'[p].pc = panels[p].pc
          /\ panels'[p].seq = panels[p].seq /\ panels'[p].epoch = panels[p].epoch
          /\ panels'[p].transition = panels[p].transition /\ panels'[p].count = panels[p].count
          /\ panels'[p].top = panels[p].top /\ panels'[p].born = panels[p].born
          BY <1>2, <3>1 DEF PanelRow
    <3>3. PanelReading(p)' = PanelReading(p)
          BY <3>2 DEF PanelReading
    <3>4. Moves(p)
          BY <3>2, <3>3 DEF Moves, OrderInv, Verified
    <3> QED BY <3>1, <3>2, <3>4, LeaseKept
  <2> QED BY <2>1, <2>2, <2>3, <2>4, <2>5, <2>6, <2>7, <2>8, <2>9 DEF PanelStep
<1> QED BY <1>0, <1>1, <1>3, MovesKeepOrder

\* Only one panel may still talk to the machine
LEMMA OneTalks ==
  ASSUME OrderInv, NEW p \in Panels, panels[p].live
  PROVE  \A q \in Panels \ {p} : ~panels[q].live
  BY DEF OrderInv, Leased

\* The number of a reading is one that was reserved
LEMMA SequencesBounded ==
  ASSUME OrderInv, NEW t \in Readings
  PROVE  t.seq \in Nat /\ t.seq <= sequence /\ t.seq \in Sequences
<1>1. sequence \in Nat /\ sequence <= MaxSequence /\ MaxSequence \in Nat
      BY SequenceTyped, Constants DEF OrderInv
<1>2. CASE \E s \in Sequences : Stored(s) /\ t = PollReading(s)
      BY <1>1, <1>2 DEF OrderInv, Reserved, PollReading, Sequences
<1>3. CASE \E q \in Panels : panels[q].pc \in Holding /\ t = PanelReading(q)
      BY <1>1, <1>3 DEF OrderInv, Reserved, PanelReading, Holding, Unstored, Sequences
<1> QED BY <1>2, <1>3, ReadingIs

\* A panel that may still talk to the machine takes a reading: it is later than
\* all others, and lies above them
LEMMA TakingKeepsOrder ==
  ASSUME OrderInv, Typed', NEW p \in Panels, Same(p),
         UNCHANGED <<total, polls, meter, sequence, lease>>,
         panels[p].live, panels'[p].live, panels'[p].seq = panels[p].seq,
         panels'[p].epoch = panels[p].epoch, panels'[p].transition = panels[p].transition,
         \/ panels[p].pc = "await" /\ panels'[p].pc = "answered" /\ core'.count = Zero
         \/ panels[p].pc = "query" /\ panels'[p].pc = "compare" /\ core' = core,
         core'.epoch = core.epoch,
         panels'[p].count = core.count, panels'[p].top = total[core.epoch],
         panels'[p].born = core.epoch
  PROVE  OrderInv'
<1>0. PICK new : new = PanelReading(p)'
      OBVIOUS
<1> USE DEF Same
<1>1. /\ Typed /\ core.epoch \in Epochs /\ core.epoch \in Nat /\ sequence \in Nat
      /\ \A n \in Names : core.count[n] \in Nat /\ total[core.epoch][n] \in Nat
      /\ panels[p].seq \in Nat /\ panels[p] \in PanelRow
      BY NumbersTyped DEF OrderInv
<1>2. /\ new.seq = panels[p].seq /\ new.born = core.epoch /\ new.top = total[core.epoch]
      /\ new.count = core.count /\ new.cumulative = (panels[p].pc = "query")
      BY <1>0 DEF PanelReading
<1>3. Readings' \subseteq Readings \cup {new}
  <2> SUFFICES ASSUME NEW t \in Readings' PROVE t \in Readings \cup {new}
      OBVIOUS
  <2>1. CASE \E s \in Sequences : Stored(s)' /\ t = PollReading(s)'
        BY <2>1, ReadingIs DEF Stored, PollReading
  <2>2. CASE \E q \in Panels : panels'[q].pc \in Holding /\ t = PanelReading(q)'
    <3>1. PICK q \in Panels : panels'[q].pc \in Holding /\ t = PanelReading(q)'
          BY <2>2
    <3>2. CASE q = p
          BY <1>0, <3>1, <3>2
    <3>3. CASE q # p
          BY <3>1, <3>3, ReadingIs DEF PanelReading
    <3> QED BY <3>2, <3>3
  <2> QED BY <2>1, <2>2 DEF Readings
<1>4. \A t \in Readings : t.seq < new.seq
      BY <1>2 DEF OrderInv, Newest, Unstored
<1>5. new.cumulative \/ \A t \in Readings : ~t.cumulative
      BY <1>2 DEF OrderInv, Switched
<1>6. \A q \in Panels \ {p} : ~panels[q].live
      BY OneTalks
<1>7. \A t \in Readings : /\ Measured(t) /\ t.seq \in Nat
                          /\ \A n \in Names : Base(t, n) \in Int /\ t.top[n] \in Nat /\ t.count[n] \in Nat
      BY ReadingTyped, <1>1 DEF OrderInv
<1>8. \A n \in Names : Base(new, n) = total[core.epoch][n] - core.count[n]
      BY <1>2 DEF Base
<1>9. CoreBelow' /\ BytesBounded'
      BY <1>1, Constants DEF OrderInv, CoreBelow, BytesBounded, Zero
<1>10. \A n \in Names : total'[core.epoch][n] - core'.count[n] >= total[core.epoch][n] - core.count[n]
      BY <1>1 DEF Zero
<1>11. \A t \in Readings' : Measured(t)'
  <2>1. ASSUME NEW t \in Readings PROVE Measured(t)'
    <3>1. /\ t.born \in Epochs /\ t.born <= core.epoch
          /\ \A n \in Names : t.count[n] <= t.top[n] /\ t.top[n] <= total[t.born][n]
          BY <1>7 DEF Measured
    <3>2. ASSUME t.born = core.epoch, NEW n \in Names
          PROVE  /\ Base(t, n) <= total[core.epoch][n] - core'.count[n]
                 /\ ~t.cumulative => t.top[n] <= total[core.epoch][n] - core'.count[n]
      <4>1. /\ Base(t, n) <= total[core.epoch][n] - core.count[n]
            /\ ~t.cumulative => t.top[n] <= total[core.epoch][n] - core.count[n]
            BY <1>7, <3>2 DEF Measured
      <4>2. core'.count[n] \in Nat /\ core'.count[n] <= core.count[n]
            BY <1>1 DEF Zero
      <4> QED BY <1>1, <1>7, <4>1, <4>2
    <3> QED BY <3>1, <3>2 DEF Measured, Base
  <2>2. Measured(new)'
    <3>1. \A n \in Names : new.count[n] <= new.top[n] /\ new.top[n] <= total[new.born][n]
          BY <1>1, <1>2 DEF OrderInv, CoreBelow
    <3>2. ASSUME NEW n \in Names
          PROVE  /\ new.top[n] - new.count[n] <= total[core.epoch][n] - core'.count[n]
                 /\ ~new.cumulative => new.top[n] <= total[core.epoch][n] - core'.count[n]
      <4>1. CASE panels[p].pc = "query"
        <5>1. core' = core /\ new.cumulative
              BY <1>2, <4>1
        <5> QED BY <1>1, <1>2, <5>1
      <4>2. CASE panels[p].pc = "await"
            BY <1>1, <1>2, <4>2 DEF Zero
      <4> QED BY <4>1, <4>2
    <3> QED BY <1>1, <1>2, <3>1, <3>2 DEF Measured, Base
  <2> QED BY <1>3, <2>1, <2>2
<1>12. \A r, t \in Readings' : InSequence(r, t)'
  <2>1. ASSUME NEW r \in Readings PROVE InSequence(r, new)
    <3>1. r.cumulative => new.cumulative
          BY <1>5
    <3>2. ASSUME r.born = new.born, NEW n \in Names
          PROVE  IF r.cumulative THEN Base(r, n) <= Base(new, n) ELSE r.top[n] <= Base(new, n)
          BY <1>2, <1>7, <1>8, <3>2 DEF Measured
    <3> QED BY <3>1, <3>2 DEF InSequence
  <2>2. ASSUME NEW t \in Readings PROVE InSequence(new, t)
        BY <1>1, <1>2, <1>4, <1>7 DEF InSequence
  <2>3. InSequence(new, new)
        BY <1>1, <1>2 DEF InSequence
  <2>4. \A r, t \in Readings \cup {new} : InSequence(r, t)
        BY <2>1, <2>2, <2>3 DEF OrderInv
  <2> QED BY <1>3, <2>4 DEF InSequence, Base
<1>13. Newest'
      BY <1>1, <1>2, <1>3, <1>4, <1>6 DEF OrderInv, Newest, Unstored
<1>14. Switched'
  <2>1. ASSUME NEW t \in Readings', t.cumulative PROVE meter.mode = "cumulative"
    <3>1. CASE t \in Readings
          BY <2>1, <3>1 DEF OrderInv, Switched
    <3>2. CASE t = new
          BY <1>2, <2>1, <3>2 DEF OrderInv, Switched
    <3> QED BY <1>3, <3>1, <3>2
  <2>2. \A q \in Panels : panels'[q].live => panels'[q].pc \notin {"intend", "send", "await", "reserve", "query", "process"}
        BY <1>6
  <2> QED BY <2>1, <2>2 DEF Switched
<1>15. Reserved' /\ Leased'
      BY DEF OrderInv, Reserved, Leased, Stored, Unstored
<1>16. Verified'
  <2>1. panels[p].pc = "query" => panels[p].epoch \in Epochs /\ panels[p].epoch <= core.epoch
        BY DEF OrderInv, Verified
  <2> QED BY <1>1, <2>1 DEF OrderInv, Verified, Stored
<1> QED BY <1>9, <1>11, <1>12, <1>13, <1>14, <1>15, <1>16 DEF OrderInv

\* A cumulative read keeps the order
LEMMA ReadKeepsOrder ==
  ASSUME OrderInv, NEW p \in Panels, ReadCounters(p)
  PROVE  OrderInv'
<1> USE DEF journal
<1>1. Typed /\ Typed'
      BY PanelStepKeepsTypes DEF OrderInv, PanelStep
<1>2. panels[p] \in PanelRow
      BY <1>1, NumbersTyped
<1>3. /\ Same(p)
      /\ panels'[p] = [panels[p] EXCEPT !.pc = "compare", !.count = core.count,
                         !.top = total[core.epoch], !.born = core.epoch]
      BY <1>1, StepIs DEF ReadCounters
<1>4. /\ panels'[p].pc = "compare" /\ panels'[p].live = panels[p].live
      /\ panels'[p].seq = panels[p].seq /\ panels'[p].epoch = panels[p].epoch
      /\ panels'[p].transition = panels[p].transition /\ panels'[p].count = core.count
      /\ panels'[p].top = total[core.epoch] /\ panels'[p].born = core.epoch
      BY <1>2, <1>3 DEF PanelRow
<1> QED BY <1>1, <1>3, <1>4, TakingKeepsOrder DEF ReadCounters

\* A reset keeps the order, whether or not somebody waits for its answer
LEMMA ResetKeepsOrder ==
  ASSUME OrderInv, Sent, NEW r \in wire, ExecuteReset(r)
  PROVE  OrderInv'
<1> USE DEF outside, journal
<1>1. Typed /\ Typed' /\ r[1] \in Panels
      BY ResetTyped DEF OrderInv, Sent
<1> DEFINE p == r[1]
<1>2. panels[p] \in PanelRow /\ core \in CoreRow
      BY <1>1, NumbersTyped DEF Typed, WorldTyped
<1>3. core'.count = Zero /\ core'.epoch = core.epoch
      BY <1>2 DEF ExecuteReset, CoreRow
<1>4. CASE panels[p].pc = "await" /\ panels[p].live /\ panels[p].seq = r[2]
  <2>1. /\ Same(p)
        /\ panels'[p] = [panels[p] EXCEPT !.pc = "answered", !.count = core.count,
                           !.top = total[core.epoch], !.born = core.epoch]
        BY <1>1, <1>4, StepIs DEF ExecuteReset
  <2>2. /\ panels'[p].pc = "answered" /\ panels'[p].live = panels[p].live
        /\ panels'[p].seq = panels[p].seq /\ panels'[p].epoch = panels[p].epoch
        /\ panels'[p].transition = panels[p].transition /\ panels'[p].count = core.count
        /\ panels'[p].top = total[core.epoch] /\ panels'[p].born = core.epoch
        BY <1>2, <2>1 DEF PanelRow
  <2> HIDE DEF p
  <2> QED BY <1>1, <1>3, <1>4, <2>1, <2>2, TakingKeepsOrder DEF ExecuteReset, p
<1>5. CASE ~(panels[p].pc = "await" /\ panels[p].live /\ panels[p].seq = r[2])
  <2>1. UNCHANGED <<panels, total, polls, meter, sequence, lease>>
        BY <1>5 DEF ExecuteReset
  <2>2. Readings' = Readings
        BY <2>1 DEF Readings, PollReading, PanelReading, Stored
  <2>3. \A n \in Names : /\ core.count[n] \in Nat /\ core'.count[n] = 0
                         /\ total[core.epoch][n] \in Nat
        BY <1>1, <1>3, NumbersTyped DEF Zero
  <2>4. \A t \in Readings' : Measured(t)'
    <3> SUFFICES ASSUME NEW t \in Readings PROVE Measured(t)'
        BY <2>2
    <3>1. Measured(t) /\ \A n \in Names : Base(t, n) \in Int /\ t.top[n] \in Nat
          BY <1>1, ReadingTyped DEF OrderInv
    <3>2. ASSUME t.born = core.epoch, NEW n \in Names
          PROVE  /\ Base(t, n) <= total[core.epoch][n] - 0
                 /\ ~t.cumulative => t.top[n] <= total[core.epoch][n] - 0
          BY <2>3, <3>1, <3>2 DEF Measured
    <3> QED BY <1>3, <2>1, <2>3, <3>1, <3>2 DEF Measured, Base
  <2>5. CoreBelow' /\ BytesBounded'
        BY <1>3, <2>1, <2>3 DEF OrderInv, CoreBelow, BytesBounded
  <2>6. \A q, t \in Readings' : InSequence(q, t)'
        BY <2>2 DEF OrderInv, InSequence, Base
  <2>7. Newest' /\ Switched'
        BY <2>1, <2>2 DEF OrderInv, Newest, Switched
  <2>8. Reserved' /\ Leased' /\ Verified'
        BY <1>3, <2>1 DEF OrderInv, Reserved, Leased, Verified, Stored
  <2> QED BY <1>1, <2>4, <2>5, <2>6, <2>7, <2>8 DEF OrderInv
<1> QED BY <1>4, <1>5

\* What the order says of the readings does not depend on the rest of the journal
LEMMA WorldKeepsOrder ==
  ASSUME OrderInv,
         RestartCore \/ ToggleOptIn \/ (\E n \in Names : Traffic(n) \/ Rename(n))
                     \/ (\E u \in Users : ChangePlan(u))
  PROVE  OrderInv'
<1> USE DEF outside, journal
<1>1. Typed /\ Typed'
      BY WorldStepTyped DEF OrderInv
<1>2. UNCHANGED <<panels, polls, meter, sequence, lease>>
      BY DEF RestartCore, ToggleOptIn, Traffic, Rename, ChangePlan
<1>3. Readings' = Readings
      BY <1>2 DEF Readings, PollReading, PanelReading, Stored
<1>4. /\ core.epoch \in Epochs /\ core.epoch \in Nat /\ core'.epoch \in Epochs /\ core'.epoch \in Nat
      /\ \A e \in Epochs, n \in Names : total[e][n] \in Nat
      /\ \A n \in Names : core.count[n] \in Nat
      BY <1>1, NumbersTyped DEF Typed, WorldTyped, CoreRow, Epochs
<1>5. /\ core'.epoch >= core.epoch
      /\ \A e \in Epochs, n \in Names : total'[e][n] \in Nat /\ total'[e][n] >= total[e][n] /\ total'[e][n] <= MaxBytes
      /\ \A n \in Names : core'.count[n] \in Nat /\ core'.count[n] <= total'[core'.epoch][n]
      /\ core'.epoch = core.epoch =>
           \A n \in Names : total'[core.epoch][n] - core'.count[n] = total[core.epoch][n] - core.count[n]
  <2>1. ASSUME NEW n \in Names, Traffic(n)
        PROVE  /\ core'.epoch = core.epoch
               /\ \A e \in Epochs, m \in Names :
                    IF e = core.epoch /\ m = n THEN total[e][m] < MaxBytes /\ total'[e][m] = total[e][m] + 1
                                               ELSE total'[e][m] = total[e][m]
               /\ \A m \in Names : core'.count[m] = IF m = n THEN core.count[m] + 1 ELSE core.count[m]
    <3>1. core \in CoreRow /\ total \in [Epochs -> Counters]
          BY <1>1 DEF Typed, WorldTyped
    <3>2. core' = [core EXCEPT !.count[n] = @ + 1] /\ total' = [total EXCEPT ![core.epoch][n] = @ + 1]
          /\ total[core.epoch][n] < MaxBytes
          BY <2>1 DEF Traffic
    <3>3. core'.epoch = core.epoch
          BY <3>1, <3>2 DEF CoreRow
    <3>4. \A m \in Names : core'.count[m] = IF m = n THEN core.count[m] + 1 ELSE core.count[m]
          BY <3>1, <3>2 DEF CoreRow, Counters
    <3>5. \A e \in Epochs, m \in Names :
            IF e = core.epoch /\ m = n THEN total'[e][m] = total[e][m] + 1
                                       ELSE total'[e][m] = total[e][m]
          BY <3>1, <3>2 DEF Counters
    <3> QED BY <3>2, <3>3, <3>4, <3>5
  <2>2. CASE \E n \in Names : Traffic(n)
        BY <1>4, <2>1, <2>2, Constants DEF OrderInv, CoreBelow, BytesBounded
  <2>3. CASE RestartCore
    <3>1. total' = total /\ core'.epoch = core.epoch + 1 /\ core'.count = Zero
          BY <2>3 DEF RestartCore
    <3> QED BY <1>4, <3>1 DEF Zero, OrderInv, BytesBounded
  <2>4. CASE UNCHANGED <<core, total>>
        BY <1>4, <2>4 DEF OrderInv, CoreBelow, BytesBounded
  <2> QED BY <2>2, <2>3, <2>4 DEF ToggleOptIn, Rename, ChangePlan
<1>6. \A t \in Readings' : Measured(t)'
  <2> SUFFICES ASSUME NEW t \in Readings PROVE Measured(t)'
      BY <1>3
  <2>1. /\ Measured(t) /\ t.born \in Nat
        /\ \A n \in Names : Base(t, n) \in Int /\ t.top[n] \in Nat /\ t.count[n] \in Nat
        BY <1>1, ReadingTyped DEF OrderInv
  <2>2. /\ t.born \in Epochs /\ t.born <= core'.epoch
        /\ \A n \in Names : t.count[n] <= t.top[n] /\ t.top[n] <= total'[t.born][n]
        BY <1>4, <1>5, <2>1 DEF Measured
  <2>3. ASSUME t.born = core'.epoch, NEW n \in Names
        PROVE  /\ Base(t, n) <= total'[core'.epoch][n] - core'.count[n]
               /\ ~t.cumulative => t.top[n] <= total'[core'.epoch][n] - core'.count[n]
    <3>1. core'.epoch = core.epoch
          BY <1>4, <1>5, <2>1, <2>3 DEF Measured
    <3> QED BY <1>5, <2>1, <2>3, <3>1 DEF Measured
  <2> QED BY <2>2, <2>3 DEF Measured, Base
<1>7. \A q, t \in Readings' : InSequence(q, t)'
      BY <1>3 DEF OrderInv, InSequence, Base
<1>8. Newest' /\ Switched' /\ Reserved' /\ Leased'
      BY <1>2, <1>3 DEF OrderInv, Newest, Switched, Reserved, Leased, Stored
<1>9. Verified'
      BY <1>1, <1>2, <1>4, <1>5, NumbersTyped DEF OrderInv, Verified, Stored
<1>10. CoreBelow' /\ BytesBounded'
      BY <1>5 DEF CoreBelow, BytesBounded
<1> QED BY <1>1, <1>6, <1>7, <1>8, <1>9, <1>10 DEF OrderInv

\* The reading a panel stores is the one it had in hand
LEMMA RecordKeepsOrder ==
  ASSUME OrderInv, NEW p \in Panels, RecordTrafficPoll(p)
  PROVE  OrderInv'
<1> DEFINE s == panels[p].seq
<1> USE DEF outside
<1>1. /\ Typed /\ Typed' /\ panels[p] \in PanelRow
      BY RecordTyped, NumbersTyped DEF OrderInv
<1>2. panels[p].pc \in {"store", "store_cumulative"}
      BY DEF RecordTrafficPoll
<1>3. s \in Sequences /\ ~Stored(s) /\ s \in 1..sequence /\ s \in Nat /\ s # 0
  <2>1. s \in 1..sequence /\ ~Stored(s)
        BY <1>2 DEF OrderInv, Reserved, Unstored
  <2> QED BY <2>1, <1>1, SequenceTyped, Constants DEF Sequences
<1>4. /\ polls'[s].state = "pending" /\ polls'[s].epoch = panels[p].epoch
      /\ polls'[s].mode = (IF panels[p].pc = "store" THEN "reset" ELSE "cumulative")
      /\ polls'[s].count = panels[p].count /\ polls'[s].top = panels[p].top
      /\ polls'[s].born = panels[p].born
      /\ \A x \in Sequences \ {s} : polls'[x] = polls[x]
      BY <1>1, <1>3 DEF RecordTrafficPoll, Typed, JournalTyped
<1>5. /\ Same(p) /\ panels'[p].pc = "process" /\ panels'[p].live = panels[p].live
      /\ panels'[p].seq = panels[p].seq /\ panels'[p].epoch = panels[p].epoch
      /\ panels'[p].transition = panels[p].transition
      BY <1>1, GoToIs DEF RecordTrafficPoll
<1>6. /\ UNCHANGED <<core, total, sequence, lease>>
      /\ meter' = IF panels[p].transition /\ s > meter.last
                    THEN [mode |-> "cumulative", epoch |-> panels[p].epoch, last |-> s]
                    ELSE meter
      BY DEF RecordTrafficPoll
<1> HIDE DEF s
<1>7. Readings' \subseteq Readings
  <2> SUFFICES ASSUME NEW t \in Readings' PROVE t \in Readings
      OBVIOUS
  <2>1. CASE \E x \in Sequences : Stored(x)' /\ t = PollReading(x)'
    <3>1. PICK x \in Sequences : Stored(x)' /\ t = PollReading(x)'
          BY <2>1
    <3>2. CASE x = s
      <4>1. (polls'[s].mode = "cumulative") = (panels[p].pc \in {"compare", "store_cumulative"})
            BY <1>2, <1>4
      <4>2. t = PanelReading(p)
            BY <1>4, <3>1, <3>2, <4>1 DEF PollReading, PanelReading, s
      <4> QED BY <1>2, <4>2, ReadingIs DEF Holding
    <3>3. CASE x # s
          BY <1>4, <3>1, <3>3, ReadingIs DEF Stored, PollReading
    <3> QED BY <3>2, <3>3
  <2>2. CASE \E q \in Panels : panels'[q].pc \in Holding /\ t = PanelReading(q)'
    <3>1. PICK q \in Panels : panels'[q].pc \in Holding /\ t = PanelReading(q)'
          BY <2>2
    <3>2. q # p
          BY <1>5, <3>1 DEF Holding
    <3> QED BY <1>5, <3>1, <3>2, ReadingIs DEF Same, PanelReading
  <2> QED BY <2>1, <2>2 DEF Readings
<1>8. Reserved'
  <2>1. \A x \in Sequences : Stored(x)' => x <= sequence'
        BY <1>1, <1>3, <1>4, <1>6, SequenceTyped DEF OrderInv, Reserved, Stored
  <2>2. ASSUME NEW q \in Panels
        PROVE  /\ panels'[q].pc \in Unstored => panels'[q].seq \in 1..sequence' /\ ~Stored(panels[q].seq)'
               /\ panels'[q].pc = "process" => panels'[q].seq \in Sequences /\ Stored(panels[q].seq)'
    <3>1. CASE q = p
          BY <1>3, <1>4, <1>5, <3>1 DEF Unstored, Stored, s
    <3>2. CASE q # p
      <4>1. panels'[q] = panels[q]
            BY <1>5, <3>2 DEF Same
      <4>2. panels[q].pc \in Unstored => panels[q].seq # s /\ panels[q].seq \in Sequences
        <5>1. panels[p].pc \in Unstored
              BY <1>2 DEF Unstored
        <5>2. panels[q].pc \in Unstored => panels[q].seq # panels[p].seq /\ panels[q].seq \in 1..sequence
              BY <3>2, <5>1 DEF OrderInv, Reserved
        <5>3. \A x \in 1..sequence : x \in Sequences
              BY <1>1, SequenceTyped, Constants DEF Sequences
        <5> QED BY <5>2, <5>3 DEF s
      <4>3. \A x \in Sequences : Stored(x)' <=> (x = s \/ Stored(x))
            BY <1>4 DEF Stored
      <4>4. panels[q].pc \in Unstored => panels[q].seq \in 1..sequence /\ ~Stored(panels[q].seq)
            BY DEF OrderInv, Reserved
      <4>5. panels[q].pc = "process" => panels[q].seq \in Sequences /\ Stored(panels[q].seq)
            BY DEF OrderInv, Reserved
      <4>6. \A x : x = panels[q].seq => (Stored(panels[q].seq)' <=> Stored(x)')
            BY <4>1 DEF Stored
      <4> QED BY <1>6, <4>1, <4>2, <4>3, <4>4, <4>5, <4>6
    <3> QED BY <3>1, <3>2
  <2>3. \A q, r \in Panels :
          panels'[q].pc \in Unstored /\ panels'[r].pc \in Unstored /\ q # r =>
            panels'[q].seq # panels'[r].seq
        BY <1>5 DEF OrderInv, Reserved, Same, Unstored
  <2>4. meter'.last = 0 \/ (meter'.last \in Sequences /\ Stored(meter.last)')
        BY <1>3, <1>4, <1>6 DEF OrderInv, Reserved, Stored
  <2> QED BY <2>1, <2>2, <2>3, <2>4 DEF Reserved
<1>9. Newest'
      BY <1>5, <1>7 DEF OrderInv, Newest, Same, Unstored
<1>10. Switched'
  <2>1. meter.mode = "cumulative" => meter'.mode = "cumulative"
        BY <1>6
  <2>2. panels'[p].live /\ panels'[p].transition => meter'.mode = "cumulative"
    <3> SUFFICES ASSUME panels[p].live, panels[p].transition PROVE s > meter.last
        BY <1>5, <1>6
    <3>1. CASE meter.last = 0
          BY <1>3, <3>1
    <3>2. CASE meter.last \in Sequences /\ Stored(meter.last)
      <4>1. PollReading(meter.last) \in Readings /\ PollReading(meter.last).seq = meter.last
            BY <3>2, ReadingIs DEF PollReading
      <4>2. meter.last <= s
            BY <1>2, <4>1 DEF OrderInv, Newest, Unstored, s
      <4>3. meter.last # s
            BY <1>3, <3>2
      <4> QED BY <1>1, <1>3, <4>2, <4>3, NumbersTyped
    <3> QED BY <3>1, <3>2 DEF OrderInv, Reserved
  <2> QED BY <1>5, <1>7, <2>1, <2>2 DEF OrderInv, Switched, Same
<1>11. Verified'
  <2>1. panels[p].pc = "store_cumulative" => panels[p].epoch = panels[p].born
        BY DEF OrderInv, Verified
  <2>2. \A x \in Sequences :
          Stored(x)' /\ polls'[x].mode = "cumulative" => polls'[x].epoch = polls'[x].born
        BY <1>2, <1>4, <2>1 DEF OrderInv, Verified, Stored
  <2>3. ASSUME NEW q \in Panels
        PROVE  /\ panels'[q].pc = "choose" => ~panels'[q].transition
               /\ panels'[q].epoch \in Epochs => panels'[q].epoch <= core'.epoch
               /\ panels'[q].transition
                    \/ panels'[q].pc \in {"reserve", "query", "compare", "store_cumulative"}
                    => panels'[q].epoch \in Epochs
               /\ panels'[q].pc = "compare" => panels'[q].epoch <= panels'[q].born
               /\ panels'[q].pc = "store_cumulative" => panels'[q].epoch = panels'[q].born
        BY <1>5, <1>6 DEF OrderInv, Verified, Same
  <2> QED BY <1>6, <2>2, <2>3 DEF OrderInv, Verified
<1>12. CoreBelow' /\ BytesBounded' /\ Leased'
      BY <1>5, <1>6 DEF OrderInv, CoreBelow, BytesBounded, Leased, Same
<1>13. \A t \in Readings' : Measured(t)'
      BY <1>6, <1>7 DEF OrderInv, Measured, Base
<1>14. \A r, t \in Readings' : InSequence(r, t)'
      BY <1>7 DEF OrderInv, InSequence, Base
<1> QED BY <1>1, <1>8, <1>9, <1>10, <1>11, <1>12, <1>13, <1>14 DEF OrderInv

\* Charging a reading changes nothing it says
Untouched ==
  \A x \in Sequences :
    /\ Stored(x)' <=> Stored(x)
    /\ polls'[x].mode = polls[x].mode /\ polls'[x].epoch = polls[x].epoch
    /\ polls'[x].born = polls[x].born /\ polls'[x].top = polls[x].top
    /\ polls'[x].count = polls[x].count

\* Processing leaves what the stored readings say, and the switch, as they are
LEMMA ProcessLeaves ==
  ASSUME OrderInv, NEW s \in Sequences, Stored(s), NEW broken, ProcessPoll(s, broken)
  PROVE  /\ Untouched
         /\ meter'.last = 0 \/ (meter'.last \in Sequences /\ Stored(meter'.last))
         /\ meter.mode = "cumulative" => meter'.mode = "cumulative"
         /\ sequence' = sequence
<1>1. /\ polls' = [polls EXCEPT ![s] = PollIn(s, broken)] /\ sequence' = sequence
      /\ meter' = MeterAfter(PollOf(s), s) /\ polls \in [Sequences -> PollRow]
      BY ProcessIs DEF OrderInv, Typed, JournalTyped
<1>2. PollOf(s) \in PollRow
      BY PollOfTyped DEF OrderInv
<1>3. /\ PollIn(s, broken).mode = PollOf(s).mode /\ PollIn(s, broken).epoch = PollOf(s).epoch
      /\ PollIn(s, broken).born = PollOf(s).born /\ PollIn(s, broken).top = PollOf(s).top
      /\ PollIn(s, broken).count = PollOf(s).count
      /\ PollIn(s, broken).state \in {"done", "pending"}
      BY <1>2 DEF PollIn, PollRow
<1>4. Untouched
  <2> SUFFICES ASSUME NEW x \in Sequences
               PROVE  /\ Stored(x)' <=> Stored(x)
                      /\ polls'[x].mode = polls[x].mode /\ polls'[x].epoch = polls[x].epoch
                      /\ polls'[x].born = polls[x].born /\ polls'[x].top = polls[x].top
                      /\ polls'[x].count = polls[x].count
      BY DEF Untouched
  <2>1. CASE x = s
    <3>1. polls'[s] = PollIn(s, broken)
          BY <1>1
    <3>2. /\ polls'[s].mode = polls[s].mode /\ polls'[s].epoch = polls[s].epoch
          /\ polls'[s].born = polls[s].born /\ polls'[s].top = polls[s].top
          /\ polls'[s].count = polls[s].count
          BY <1>3, <3>1, PollOfTyped DEF OrderInv
    <3>3. Stored(s)'
          BY <1>3, <3>1 DEF Stored
    <3> QED BY <2>1, <3>2, <3>3
  <2>2. CASE x # s
        BY <1>1, <2>2 DEF Stored
  <2> QED BY <2>1, <2>2
<1>5. /\ meter'.last = 0 \/ (meter'.last \in Sequences /\ Stored(meter'.last))
      /\ meter.mode = "cumulative" => meter'.mode = "cumulative"
      BY <1>1 DEF MeterAfter, OrderInv, Reserved
<1> QED BY <1>1, <1>4, <1>5

\* Panels that are done with their reading leave, or go on to read for the first
\* time after the switch
Finishes(p) ==
  \/ panels'[p] = panels[p]
  \/ /\ panels'[p].pc = "idle" /\ panels'[p].live = FALSE
     /\ panels'[p].transition = FALSE /\ panels'[p].epoch = NoEpoch
  \/ /\ panels[p].pc = "process" /\ panels[p].transition /\ panels'[p].pc = "reserve"
     /\ panels'[p].live = panels[p].live /\ panels'[p].transition = panels[p].transition
     /\ panels'[p].epoch = panels[p].epoch

\* A step that leaves the readings as they are keeps the order
LEMMA ChargingKeepsOrder ==
  ASSUME OrderInv, Typed', Leased', UNCHANGED <<core, total, sequence>>, Untouched,
         meter'.last = 0 \/ (meter'.last \in Sequences /\ Stored(meter'.last)),
         meter.mode = "cumulative" => meter'.mode = "cumulative",
         \A p \in Panels : Finishes(p)
  PROVE  OrderInv'
<1>1. Readings' \subseteq Readings
  <2> SUFFICES ASSUME NEW t \in Readings' PROVE t \in Readings
      OBVIOUS
  <2>1. CASE \E x \in Sequences : Stored(x)' /\ t = PollReading(x)'
        BY <2>1, ReadingIs DEF Untouched, PollReading
  <2>2. CASE \E q \in Panels : panels'[q].pc \in Holding /\ t = PanelReading(q)'
        BY <2>2, ReadingIs DEF Finishes, PanelReading, Holding
  <2> QED BY <2>1, <2>2 DEF Readings
<1>2. NoEpoch \notin Epochs
      BY Constants
<1>3. Reserved'
  <2>1. \A x \in Sequences : Stored(x)' => x <= sequence'
        BY DEF OrderInv, Reserved, Untouched
  <2>2. \A q \in Panels : panels'[q].pc \in Unstored \cup {"process"} => panels'[q] = panels[q]
        BY DEF Finishes, Unstored
  <2>3. ASSUME NEW q \in Panels
        PROVE  /\ panels'[q].pc \in Unstored => panels'[q].seq \in 1..sequence' /\ ~Stored(panels[q].seq)'
               /\ panels'[q].pc = "process" => panels'[q].seq \in Sequences /\ Stored(panels[q].seq)'
    <3>1. \A x \in 1..sequence : x \in Sequences
          BY SequenceTyped, Constants DEF OrderInv, Sequences
    <3>2. \A x \in Sequences : polls'[x].state = "none" <=> polls[x].state = "none"
          BY DEF Untouched, Stored
    <3> QED BY <2>2, <3>1, <3>2 DEF OrderInv, Reserved, Stored
  <2>4. \A q, r \in Panels :
          panels'[q].pc \in Unstored /\ panels'[r].pc \in Unstored /\ q # r =>
            panels'[q].seq # panels'[r].seq
        BY <2>2 DEF OrderInv, Reserved
  <2>5. meter'.last = 0 \/ (meter'.last \in Sequences /\ Stored(meter.last)')
        BY DEF Untouched, Stored
  <2> QED BY <2>1, <2>3, <2>4, <2>5 DEF Reserved
<1>4. Newest'
      BY <1>1 DEF OrderInv, Newest, Finishes, Unstored
<1>5. Switched'
      BY <1>1 DEF OrderInv, Switched, Finishes
<1>6. Verified'
  <2>1. ASSUME NEW q \in Panels
        PROVE  /\ panels'[q].pc = "choose" => ~panels'[q].transition
               /\ panels'[q].epoch \in Epochs => panels'[q].epoch <= core'.epoch
               /\ panels'[q].transition
                    \/ panels'[q].pc \in {"reserve", "query", "compare", "store_cumulative"}
                    => panels'[q].epoch \in Epochs
               /\ panels'[q].pc = "compare" => panels'[q].epoch <= panels'[q].born
               /\ panels'[q].pc = "store_cumulative" => panels'[q].epoch = panels'[q].born
        BY <1>2 DEF OrderInv, Verified, Finishes
  <2>2. \A x \in Sequences :
          Stored(x)' /\ polls'[x].mode = "cumulative" => polls'[x].epoch = polls'[x].born
        BY DEF OrderInv, Verified, Untouched
  <2> QED BY <2>1, <2>2 DEF OrderInv, Verified
<1>7. CoreBelow' /\ BytesBounded'
      BY DEF OrderInv, CoreBelow, BytesBounded
<1>8. \A t \in Readings' : Measured(t)'
      BY <1>1 DEF OrderInv, Measured, Base
<1>9. \A r, t \in Readings' : InSequence(r, t)'
      BY <1>1 DEF OrderInv, InSequence, Base
<1> QED BY <1>3, <1>4, <1>5, <1>6, <1>7, <1>8, <1>9 DEF OrderInv

\* The collector's own attempt keeps the order
LEMMA ProcessStepKeepsOrder ==
  ASSUME OrderInv, NEW p \in Panels, ProcessOwnPoll(p)
  PROVE  OrderInv'
<1> USE DEF outside, journal
<1>1. /\ panels[p].pc = "process" /\ panels[p].seq \in Sequences /\ Stored(panels[p].seq)
      BY DEF ProcessOwnPoll, OrderInv, Reserved
<1>2. Typed /\ Typed'
      BY <1>1, ProcessStepTyped DEF OrderInv
<1>3. UNCHANGED <<core, total>>
      BY DEF ProcessOwnPoll
<1>4. /\ Untouched /\ sequence' = sequence
      /\ meter'.last = 0 \/ (meter'.last \in Sequences /\ Stored(meter'.last))
      /\ meter.mode = "cumulative" => meter'.mode = "cumulative"
  <2>1. CASE UNCHANGED journal
        BY <2>1 DEF Untouched, Stored, OrderInv, Reserved
  <2>2. CASE Attempt(panels[p].seq)
        BY <1>1, <2>2, ProcessLeaves DEF Attempt
  <2> QED BY <2>1, <2>2 DEF ProcessOwnPoll
<1>5. Leased' /\ \A q \in Panels : Finishes(q)
  <2>1. CASE Leave(p)
        BY <1>2, <2>1, LeaveIs, LeaveMoves DEF Finishes, Same
  <2>2. CASE panels[p].transition /\ GoTo(p, "reserve") /\ lease' = lease
        BY <1>1, <1>2, <2>2, GoToIs, LeaseKept DEF Finishes, Same
  <2> QED BY <2>1, <2>2 DEF ProcessOwnPoll
<1> QED BY <1>2, <1>3, <1>4, <1>5, ChargingKeepsOrder

\* A retry keeps the order
LEMMA RetryKeepsOrder ==
  ASSUME OrderInv, NEW s \in Sequences, RetryPoll(s)
  PROVE  OrderInv'
<1> USE DEF outside
<1>1. Typed /\ Typed' /\ Stored(s)
      BY RetryTyped DEF OrderInv, RetryPoll, Stored
<1>2. UNCHANGED <<core, total, panels, lease>>
      BY DEF RetryPoll
<1>3. /\ Untouched /\ sequence' = sequence
      /\ meter'.last = 0 \/ (meter'.last \in Sequences /\ Stored(meter'.last))
      /\ meter.mode = "cumulative" => meter'.mode = "cumulative"
      BY <1>1, ProcessLeaves DEF RetryPoll, Attempt
<1>4. Leased' /\ \A q \in Panels : Finishes(q)
      BY <1>2 DEF Finishes, OrderInv, Leased
<1> QED BY <1>1, <1>2, <1>3, <1>4, ChargingKeepsOrder

\* Nothing was read at first
LEMMA InitOrder == Init => OrderInv /\ Sent
<1> SUFFICES ASSUME Init PROVE OrderInv /\ Sent
    OBVIOUS
<1>1. /\ \A s \in Sequences : ~Stored(s)
      /\ \A p \in Panels : /\ panels[p].pc = "idle" /\ panels[p].live = FALSE
                           /\ panels[p].transition = FALSE /\ panels[p].epoch = NoEpoch
      BY DEF Init, Stored, NoPoll, Idle
<1>2. Readings = {}
      BY <1>1 DEF Readings, Holding
<1>3. /\ core.epoch = 1 /\ \A n \in Names : core.count[n] = 0
      /\ \A e \in Epochs, n \in Names : total[e][n] = 0
      BY DEF Init, Zero
<1>4. Reserved /\ Leased /\ Newest
      BY <1>1, <1>2 DEF Init, Reserved, Leased, Newest, Unstored
<1>5. Switched /\ Verified
      BY <1>1, <1>2, <1>3, Constants DEF Switched, Verified
<1>6. CoreBelow /\ BytesBounded
      BY <1>3, Constants DEF CoreBelow, BytesBounded
<1>7. Sent
      BY DEF Init, Sent
<1> QED BY <1>2, <1>4, <1>5, <1>6, <1>7, InitTyped DEF OrderInv

\* Every step keeps the order
LEMMA OrderStep ==
  ASSUME OrderInv, Sent, [Next]_vars
  PROVE  OrderInv' /\ Sent'
<1>1. CASE UNCHANGED vars
  <2>1. UNCHANGED <<core, total, registry, entitled, sequence, meter, polls, cursors, lease,
                    panels, wire>>
        BY <1>1 DEF vars
  <2>2. Typed' /\ Sent' /\ Leased'
        BY <2>1 DEF OrderInv, Typed, WorldTyped, JournalTyped, PanelsTyped, Sent, Leased
  <2>3. Untouched /\ \A q \in Panels : Finishes(q)
        BY <2>1 DEF Untouched, Stored, Finishes
  <2>4. meter'.last = 0 \/ (meter'.last \in Sequences /\ Stored(meter'.last))
        BY <2>1 DEF OrderInv, Reserved
  <2> QED BY <2>1, <2>2, <2>3, <2>4, ChargingKeepsOrder
<1>2. ASSUME NEW p \in Panels, Collect(p) \/ GiveUp(p) \/ ContextEnds(p)
      PROVE  OrderInv' /\ Sent'
  <2>1. OrderInv'
    <3>1. CASE ReadCounters(p)
          BY <3>1, ReadKeepsOrder
    <3>2. CASE RecordTrafficPoll(p)
          BY <3>2, RecordKeepsOrder
    <3>3. CASE ProcessOwnPoll(p)
          BY <3>3, ProcessStepKeepsOrder
    <3>4. CASE PanelStep(p) /\ ~ReadCounters(p)
          BY <3>4, PanelStepKeepsOrder
    <3> QED BY <1>2, <3>1, <3>2, <3>3, <3>4 DEF Collect, PanelStep
  <2>2. wire' = wire \/ wire' = wire \cup {<<p, panels[p].seq>>}
        BY <1>2 DEF Collect, AcquireLease, ChooseReader, BeginTrafficReset, SendReset, CheckResetEpoch,
           ReserveSequence, ReadCounters, CompareEpoch, RecordTrafficPoll, ProcessOwnPoll, GiveUp,
           ContextEnds
  <2> QED BY <2>1, <2>2 DEF Sent
<1>3. ASSUME NEW r \in wire, ExecuteReset(r) PROVE OrderInv' /\ Sent'
      BY <1>3, ResetKeepsOrder DEF ExecuteReset, Sent
<1>4. ASSUME NEW s \in Sequences, RetryPoll(s) PROVE OrderInv' /\ Sent'
      BY <1>4, RetryKeepsOrder DEF RetryPoll, Sent
<1>5. CASE RestartCore \/ ToggleOptIn \/ (\E n \in Names : Traffic(n) \/ Rename(n))
                       \/ (\E u \in Users : ChangePlan(u))
      BY <1>5, WorldKeepsOrder DEF RestartCore, ToggleOptIn, Traffic, Rename, ChangePlan, Sent
<1> QED BY <1>1, <1>2, <1>3, <1>4, <1>5 DEF Next

-----------------------------------------------------------------------------
(* The charges of the stored readings                                        *)

\* Freezing gives the accounts that have no bucket the one of their user, and
\* leaves the others alone
LEMMA FrozenIs ==
  ASSUME Typed, NEW s \in Sequences, FrozenTogether(polls[s])
  PROVE  /\ FrozenTogether(PollOf(s))
         /\ \A n \in Names :
              /\ PollOf(s).bound[n].user = polls[s].bound[n].user
              /\ PollOf(s).bound[n].own = polls[s].bound[n].own
              /\ Direct(PollOf(s), n) <=> Direct(polls[s], n)
              /\ polls[s].bound[n].bucket # None \/ ~Direct(polls[s], n) =>
                   PollOf(s).bound[n].bucket = polls[s].bound[n].bucket
<1> DEFINE old == polls[s].bound
           new == PollOf(s).bound
<1>1. old \in [Names -> BindingRow]
      BY PollOfTyped, PollFields
<1>2. new = [n \in Names |-> IF Direct(polls[s], n) /\ old[n].bucket = None
                               THEN [old[n] EXCEPT !.bucket = entitled[old[n].user]]
                               ELSE old[n]]
      BY PollOfTyped DEF Frozen
<1>3. \A n \in Names : Direct(polls[s], n) <=> old[n].kind = "direct_user"
      BY DEF Direct
<1>4. \A n \in Names : Direct(PollOf(s), n) <=> new[n].kind = "direct_user"
      BY DEF Direct
<1> HIDE DEF old, new
<1>5. ASSUME NEW n \in Names
      PROVE  /\ new[n].user = old[n].user /\ new[n].kind = old[n].kind
             /\ new[n].own = old[n].own
             /\ new[n].bucket = IF Direct(polls[s], n) /\ old[n].bucket = None
                                  THEN entitled[old[n].user] ELSE old[n].bucket
  <2>1. old[n] \in [kind : Kinds, user : MaybeUser, bucket : MaybeBucket, own : MaybeBucket]
        BY <1>1 DEF BindingRow
  <2>2. CASE Direct(polls[s], n) /\ old[n].bucket = None
    <3>1. new[n] = [old[n] EXCEPT !.bucket = entitled[old[n].user]]
          BY <1>2, <2>2
    <3> QED BY <2>1, <2>2, <3>1
  <2>3. CASE ~(Direct(polls[s], n) /\ old[n].bucket = None)
    <3>1. new[n] = old[n]
          BY <1>2, <2>3
    <3> QED BY <2>3, <3>1
  <2> QED BY <2>2, <2>3
<1>6. /\ \A n \in Names : ~Direct(polls[s], n) => old[n].bucket = None
      /\ \A n \in Names : old[n].own # None => old[n].bucket = old[n].own
      /\ \A n, m \in Names :
           /\ Direct(polls[s], n) /\ Direct(polls[s], m) /\ old[n].user = old[m].user
           /\ old[n].own = None /\ old[m].own = None
           => old[n].bucket = old[m].bucket
      BY DEF FrozenTogether, old
<1>7. \A n \in Names : Direct(PollOf(s), n) <=> Direct(polls[s], n)
      BY <1>3, <1>4, <1>5
<1>8. /\ \A n \in Names : ~Direct(PollOf(s), n) => new[n].bucket = None
      /\ \A n \in Names : new[n].own # None => new[n].bucket = new[n].own
      /\ \A n, m \in Names :
           /\ Direct(PollOf(s), n) /\ Direct(PollOf(s), m) /\ new[n].user = new[m].user
           /\ new[n].own = None /\ new[m].own = None
           => new[n].bucket = new[m].bucket
      BY <1>5, <1>6, <1>7
<1> QED BY <1>5, <1>7, <1>8 DEF FrozenTogether, old, new

\* What a fresh charge is: the part of the reading above the cursor, or all of a
\* reading that cleared the counter
FreshCharge(s, broken, c) ==
  /\ c.name \in DoneIn(s, broken) /\ c.name \in Names /\ c.name \notin polls[s].seen
  /\ c.poll = s /\ c.epoch = polls[s].born
  /\ c.hi = polls[s].top[c.name] /\ c.lo \in Int /\ c.hi \in Int /\ c.lo < c.hi
  /\ c.lo >= Base(PollReading(s), c.name)
  /\ c.user = polls[s].bound[c.name].user
  /\ c.bucket = PollOf(s).bound[c.name].bucket
  /\ Direct(polls[s], c.name) => c.bucket # None
  /\ polls[s].mode = "cumulative" =>
       /\ polls[s].epoch = c.epoch
       /\ cursors[c.name][c.epoch].seq = 0 \/ s > cursors[c.name][c.epoch].seq
       /\ c.lo = Base(PollReading(s), c.name) + cursors[c.name][c.epoch].at
       /\ CursorAfter(PollOf(s), s, c.name) = [at |-> polls[s].count[c.name], seq |-> s]

\* A fresh charge is what FreshCharge says
LEMMA FreshIs ==
  ASSUME OrderInv, NEW s \in Sequences, Stored(s), FrozenTogether(polls[s]), NEW broken,
         NEW c \in FreshIn(s, broken)
  PROVE  FreshCharge(s, broken, c)
<1>1. PICK n \in DoneIn(s, broken) : /\ Delta(PollOf(s), s, n) > 0
                                     /\ c = Interval(PollOf(s), s, n, PollOf(s).bound[n].bucket)
      BY DEF FreshIn
<1>2. n \in Names /\ n \notin polls[s].seen /\ n \notin FailedIn(s, broken)
      BY PollOfTyped DEF DoneIn, Todo, OrderInv
<1>3. /\ c.name = n /\ c.poll = s /\ c.epoch = polls[s].born /\ c.hi = polls[s].top[n]
      /\ c.lo = polls[s].top[n] - Delta(PollOf(s), s, n)
      /\ c.bucket = PollOf(s).bound[n].bucket /\ c.user = PollOf(s).bound[n].user
      BY <1>1, PollOfTyped DEF Interval, OrderInv
<1>4. /\ polls[s].top[n] \in Nat /\ polls[s].count[n] \in Nat /\ s \in Nat
      /\ Base(PollReading(s), n) = polls[s].top[n] - polls[s].count[n]
      BY <1>2, NumbersTyped, PollFields DEF OrderInv, Counters, Base, PollReading
<1>5. /\ c.user = polls[s].bound[n].user
      /\ Direct(polls[s], n) => c.bucket # None
  <2>1. /\ PollOf(s).bound[n].user = polls[s].bound[n].user
        /\ Direct(PollOf(s), n) <=> Direct(polls[s], n)
        BY <1>2, FrozenIs DEF OrderInv
  <2>2. ~(Direct(PollOf(s), n) /\ PollOf(s).bound[n].bucket = None)
        BY <1>1, <1>2 DEF FailedIn, DoneIn
  <2> QED BY <1>3, <2>1, <2>2
<1>6. CASE polls[s].mode = "cumulative"
  <2>1. polls[s].epoch = polls[s].born /\ polls[s].epoch \in Epochs
    <3>1. polls[s].epoch = polls[s].born
          BY <1>6 DEF OrderInv, Verified
    <3>2. PollReading(s) \in Readings
          BY ReadingIs
    <3> QED BY <3>1, <3>2 DEF OrderInv, Measured, PollReading
  <2> DEFINE k == cursors[n][polls[s].epoch]
  <2>2. k.at \in Nat /\ k.seq \in Nat
        BY <1>2, <2>1 DEF OrderInv, Typed, JournalTyped, CursorRow
  <2>3. PollOf(s).mode = "cumulative" /\ PollOf(s).epoch = polls[s].epoch
        /\ PollOf(s).count = polls[s].count
        BY <1>6, PollOfTyped DEF OrderInv
  <2>4. Quality(PollOf(s), s, n) = "observed"
        BY <1>1 DEF Delta
  <2>5. Delta(PollOf(s), s, n) = polls[s].count[n] - k.at
        BY <2>3, <2>4 DEF Delta
  <2>6. k.seq = 0 \/ s > k.seq
        BY <1>4, <2>2, <2>3, <2>4 DEF Quality
  <2>7. CursorAfter(PollOf(s), s, n) = [at |-> polls[s].count[n], seq |-> s]
        BY <2>3, <2>4 DEF CursorAfter
  <2> HIDE DEF k
  <2>8. /\ c.lo \in Int /\ c.hi \in Int /\ c.lo < c.hi
        /\ c.lo >= Base(PollReading(s), n) /\ c.lo = Base(PollReading(s), n) + k.at
        BY <1>1, <1>3, <1>4, <2>2, <2>5
  <2> QED BY <1>1, <1>2, <1>3, <1>5, <1>6, <2>1, <2>6, <2>7, <2>8 DEF k, FreshCharge
<1>7. CASE polls[s].mode # "cumulative"
  <2>1. PollOf(s).mode # "cumulative" /\ PollOf(s).count = polls[s].count
        BY <1>7, PollOfTyped DEF OrderInv
  <2>2. Delta(PollOf(s), s, n) = polls[s].count[n]
        BY <1>1, <2>1 DEF Delta
  <2>3. /\ c.lo \in Int /\ c.hi \in Int /\ c.lo < c.hi /\ c.lo >= Base(PollReading(s), n)
        BY <1>1, <1>3, <1>4, <2>2
  <2> QED BY <1>1, <1>2, <1>3, <1>5, <1>7, <2>3 DEF FreshCharge
<1> QED BY <1>6, <1>7

\* A fresh charge lies apart from every earlier one of its name and process
LEMMA FreshIsApart ==
  ASSUME OrderInv, NEW s \in Sequences, Stored(s), FrozenTogether(polls[s]), NEW broken,
         NEW c \in FreshIn(s, broken), NEW d, Charged(d)
  PROVE  Apart(c, d)
<1>0. FreshCharge(s, broken, c)
      BY FreshIs
<1>a. /\ c.name \in Names /\ c.name \notin polls[s].seen /\ c.epoch = polls[s].born
      /\ c.hi = polls[s].top[c.name] /\ c.lo \in Int /\ c.hi \in Int /\ c.lo < c.hi
      /\ c.lo >= Base(PollReading(s), c.name)
      BY <1>0 DEF FreshCharge
<1>b. polls[s].mode = "cumulative" =>
        /\ cursors[c.name][c.epoch].seq = 0 \/ s > cursors[c.name][c.epoch].seq
        /\ c.lo = Base(PollReading(s), c.name) + cursors[c.name][c.epoch].at
      BY <1>0 DEF FreshCharge
<1> SUFFICES ASSUME c.name = d.name, c.epoch = d.epoch
    PROVE  c.hi <= d.lo \/ d.hi <= c.lo
    BY DEF Apart
<1> DEFINE n == c.name
           e == c.epoch
           u == d.poll
           rs == PollReading(s)
           ru == PollReading(u)
<1>1. /\ n \in Names /\ n \notin polls[s].seen /\ e = polls[s].born
      /\ c.hi = polls[s].top[n] /\ c.lo \in Int /\ c.hi \in Int /\ c.lo < c.hi
      /\ c.lo >= Base(rs, n)
      /\ polls[s].mode = "cumulative" =>
           /\ cursors[n][e].seq = 0 \/ s > cursors[n][e].seq
           /\ c.lo = Base(rs, n) + cursors[n][e].at
      BY <1>a, <1>b
<1>2. /\ u \in Sequences /\ Stored(u) /\ n \in polls[u].seen /\ e = polls[u].born
      /\ d.lo \in Int /\ d.hi \in Int /\ d.lo < d.hi /\ d.hi = polls[u].top[n]
      /\ d.lo >= Base(ru, n)
      /\ polls[u].mode = "cumulative" =>
           cursors[n][e].seq >= u /\ cursors[n][e].at >= polls[u].count[n]
      BY DEF Charged
<1>3. s # u /\ s \in Nat /\ u \in Nat /\ u > 0
  <2>1. s # u
        BY <1>1, <1>2
  <2>2. \A x \in Sequences : x \in Nat /\ x > 0
        BY Constants DEF Sequences
  <2> HIDE DEF u
  <2> QED BY <1>2, <2>1, <2>2
<1>4. /\ rs \in Readings /\ ru \in Readings
      /\ rs.seq = s /\ ru.seq = u /\ rs.born = e /\ ru.born = e
      /\ rs.cumulative <=> polls[s].mode = "cumulative"
      /\ ru.cumulative <=> polls[u].mode = "cumulative"
      /\ rs.top[n] = c.hi /\ ru.top[n] = d.hi
      BY <1>1, <1>2, ReadingIs DEF PollReading
<1>5. /\ Base(rs, n) \in Int /\ Base(ru, n) \in Int /\ Base(ru, n) = d.hi - polls[u].count[n]
      /\ polls[u].count[n] \in Nat
      BY <1>1, <1>2, <1>4, ReadingTyped DEF OrderInv, Base, PollReading
<1>6. InSequence(rs, ru) /\ InSequence(ru, rs)
      BY <1>4 DEF OrderInv
<1> HIDE DEF rs, ru, u, n, e
<1>7. CASE u < s
  <2>1. ru.cumulative => rs.cumulative
        BY <1>4, <1>6, <1>7 DEF InSequence
  <2>2. IF ru.cumulative THEN Base(ru, n) <= Base(rs, n) ELSE d.hi <= Base(rs, n)
        BY <1>1, <1>4, <1>6, <1>7 DEF InSequence
  <2>3. CASE ~ru.cumulative
        BY <1>1, <1>2, <1>5, <2>2, <2>3
  <2>4. CASE ru.cumulative
    <3>1. cursors[n][e].at >= polls[u].count[n] /\ c.lo = Base(rs, n) + cursors[n][e].at
          BY <1>1, <1>2, <1>4, <2>1, <2>4
    <3>2. cursors[n][e].at \in Nat
      <4>1. e \in Epochs
            BY <1>4 DEF OrderInv, Measured
      <4> QED BY <1>1, <4>1 DEF OrderInv, Typed, JournalTyped, CursorRow
    <3> QED BY <1>1, <1>2, <1>5, <2>2, <2>4, <3>1, <3>2
  <2> QED BY <2>3, <2>4
<1>8. CASE s < u
  <2>1. rs.cumulative => ru.cumulative
        BY <1>4, <1>6, <1>8 DEF InSequence
  <2>2. IF rs.cumulative THEN Base(rs, n) <= Base(ru, n) ELSE c.hi <= Base(ru, n)
        BY <1>1, <1>4, <1>6, <1>8 DEF InSequence
  <2>3. CASE ~rs.cumulative
        BY <1>1, <1>2, <1>5, <2>2, <2>3
  <2>4. CASE rs.cumulative
    <3>1. /\ cursors[n][e].seq >= u
          /\ cursors[n][e].seq = 0 \/ s > cursors[n][e].seq
          BY <1>1, <1>2, <1>4, <2>1, <2>4
    <3>2. cursors[n][e].seq \in Nat
      <4>1. e \in Epochs
            BY <1>4 DEF OrderInv, Measured
      <4> QED BY <1>1, <4>1 DEF OrderInv, Typed, JournalTyped, CursorRow
    <3> QED BY <1>3, <1>8, <3>1, <3>2
  <2> QED BY <2>3, <2>4
<1> QED BY <1>3, <1>7, <1>8

\* A cursor that was ever set only goes up
LEMMA CursorGrows ==
  ASSUME OrderInv, NEW s \in Sequences, NEW broken, ProcessPoll(s, broken),
         NEW n \in Names, NEW e \in Epochs, cursors[n][e].seq # 0
  PROVE  cursors'[n][e].seq >= cursors[n][e].seq /\ cursors'[n][e].at >= cursors[n][e].at
<1> DEFINE k == cursors[n][e]
<1>1. k \in CursorRow /\ k.at \in Nat /\ k.seq \in Nat /\ s \in Nat
      BY NumbersTyped DEF OrderInv, Typed, JournalTyped, CursorRow
<1>2. cursors'[n] = CursorsIn(s, broken, n) /\ cursors[n] \in [Epochs -> CursorRow]
      BY ProcessIs DEF OrderInv, Typed, JournalTyped
<1>3. CASE cursors'[n][e] = k
      BY <1>1, <1>3
<1>4. CASE e = PollOf(s).epoch /\ cursors'[n][e] = CursorAfter(PollOf(s), s, n)
              /\ PollOf(s).mode = "cumulative"
  <2>1. PollOf(s).count[n] \in Nat
        BY PollOfTyped, PollFields DEF OrderInv, Counters
  <2>2. CASE Quality(PollOf(s), s, n) = "out_of_order"
        BY <1>1, <1>4, <2>2 DEF CursorAfter
  <2>3. CASE Quality(PollOf(s), s, n) = "counter_reset"
    <3>1. s > k.seq
          BY <1>1, <1>4, <2>3 DEF Quality
    <3>2. cursors'[n][e] = [at |-> k.at, seq |-> s]
          BY <1>4, <2>3 DEF CursorAfter
    <3> HIDE DEF k
    <3>3. cursors'[n][e].at = k.at /\ cursors'[n][e].seq = s
          BY <3>2
    <3> QED BY <1>1, <3>1, <3>3 DEF k
  <2>4. CASE Quality(PollOf(s), s, n) \notin {"out_of_order", "counter_reset"}
    <3>1. s > k.seq /\ PollOf(s).count[n] >= k.at
          BY <1>1, <1>4, <2>1, <2>4 DEF Quality
    <3>2. cursors'[n][e] = [at |-> PollOf(s).count[n], seq |-> s]
          BY <1>4, <2>4 DEF CursorAfter
    <3> HIDE DEF k
    <3>3. cursors'[n][e].at = PollOf(s).count[n] /\ cursors'[n][e].seq = s
          BY <3>2
    <3> QED BY <1>1, <2>1, <3>1, <3>3 DEF k
  <2> QED BY <2>2, <2>3, <2>4
<1>5. cursors'[n][e] = k \/ (e = PollOf(s).epoch /\ cursors'[n][e] = CursorAfter(PollOf(s), s, n)
                              /\ PollOf(s).mode = "cumulative")
  <2>1. CASE n \in DoneIn(s, broken) /\ PollOf(s).mode = "cumulative"
    <3>1. cursors'[n] = [cursors[n] EXCEPT ![PollOf(s).epoch] = CursorAfter(PollOf(s), s, n)]
          BY <1>2, <2>1 DEF CursorsIn
    <3> QED BY <1>2, <2>1, <3>1
  <2>2. CASE ~(n \in DoneIn(s, broken) /\ PollOf(s).mode = "cumulative")
        BY <1>2, <2>2 DEF CursorsIn
  <2> QED BY <2>1, <2>2
<1> QED BY <1>3, <1>4, <1>5

\* What was charged stays charged to the bucket that paid
LEMMA ChargedStays ==
  ASSUME OrderInv, NEW s \in Sequences, Stored(s), FrozenTogether(polls[s]), NEW broken,
         ProcessPoll(s, broken), NEW c, Charged(c)
  PROVE  Charged(c)'
<1>1. Untouched /\ polls' = [polls EXCEPT ![s] = PollIn(s, broken)]
      BY ProcessLeaves, ProcessIs
<1>2. PollOf(s) \in PollRow /\ polls \in [Sequences -> PollRow]
      BY PollOfTyped DEF OrderInv, Typed, JournalTyped
<1>3. /\ polls'[s] = PollIn(s, broken)
      /\ PollIn(s, broken).seen = polls[s].seen \cup DoneIn(s, broken)
      /\ PollIn(s, broken).bound = PollOf(s).bound
      BY <1>1, <1>2, PollOfTyped DEF PollIn, PollRow, OrderInv
<1> DEFINE u == c.poll
<1>4. /\ c.name \in Names /\ u \in Sequences /\ Stored(u) /\ c.lo \in Int /\ c.hi \in Int
      /\ c.lo < c.hi /\ c.name \in polls[u].seen /\ c.epoch = polls[u].born
      /\ c.hi = polls[u].top[c.name] /\ c.lo >= Base(PollReading(u), c.name)
      /\ c.user = polls[u].bound[c.name].user /\ c.bucket = polls[u].bound[c.name].bucket
      /\ Direct(polls[u], c.name) => c.bucket # None
      BY DEF Charged
<1>5. polls[u].mode = "cumulative" =>
        cursors[c.name][c.epoch].seq >= u /\ cursors[c.name][c.epoch].at >= polls[u].count[c.name]
      BY DEF Charged
<1> HIDE DEF u
<1>6. /\ c.name \in polls'[u].seen
      /\ c.user = polls'[u].bound[c.name].user /\ c.bucket = polls'[u].bound[c.name].bucket
      /\ Direct(polls[u], c.name)' => c.bucket # None
  <2>1. CASE u # s
    <3>1. polls'[u] = polls[u]
          BY <1>1, <1>2, <1>4, <2>1
    <3> QED BY <1>4, <3>1 DEF Direct
  <2>2. CASE u = s
    <3>1. /\ PollOf(s).bound[c.name].user = polls[s].bound[c.name].user
          /\ Direct(PollOf(s), c.name) <=> Direct(polls[s], c.name)
          /\ polls[s].bound[c.name].bucket # None \/ ~Direct(polls[s], c.name) =>
               PollOf(s).bound[c.name].bucket = polls[s].bound[c.name].bucket
          BY <1>4, FrozenIs DEF OrderInv
    <3>2. c.name \in polls'[u].seen
          BY <1>3, <1>4, <2>2
    <3>3. c.user = polls'[u].bound[c.name].user
          BY <1>3, <1>4, <2>2, <3>1
    <3>4. c.bucket = polls'[u].bound[c.name].bucket
          BY <1>3, <1>4, <2>2, <3>1
    <3>5. Direct(polls[u], c.name)' => Direct(polls[u], c.name)
      <4>1. polls'[u].bound = PollOf(s).bound
            BY <1>3, <2>2
      <4>2. (polls[u].bound)' = PollOf(s).bound
            BY <4>1 DEF u
      <4> QED BY <2>2, <3>1, <4>2 DEF Direct
    <3> QED BY <1>4, <3>2, <3>3, <3>4, <3>5
  <2> QED BY <2>1, <2>2
<1>7. /\ polls'[u].mode = polls[u].mode /\ polls'[u].born = polls[u].born
      /\ polls'[u].top = polls[u].top /\ polls'[u].count = polls[u].count
      /\ Stored(u)'
      BY <1>1, <1>4 DEF Untouched
<1>8. Base(PollReading(u), c.name)' = Base(PollReading(u), c.name)
      BY <1>7 DEF Base, PollReading
<1>9. polls[u].mode = "cumulative" =>
        cursors'[c.name][c.epoch].seq >= u /\ cursors'[c.name][c.epoch].at >= polls[u].count[c.name]
  <2> SUFFICES ASSUME polls[u].mode = "cumulative"
      PROVE  cursors'[c.name][c.epoch].seq >= u /\ cursors'[c.name][c.epoch].at >= polls[u].count[c.name]
      OBVIOUS
  <2>1. c.epoch \in Epochs
    <3>1. PollReading(u) \in Readings
          BY <1>4, ReadingIs
    <3> QED BY <1>4, <3>1 DEF OrderInv, Measured, PollReading
  <2>2. u \in Nat /\ u > 0 /\ polls[u].count[c.name] \in Nat
    <3>1. polls[u] \in PollRow
          BY <1>2, <1>4
    <3>2. polls[u].count[c.name] \in Nat
          BY <1>4, <3>1, PollFields DEF Counters
    <3> QED BY <1>4, <3>2, Constants DEF Sequences
  <2>3. /\ cursors[c.name][c.epoch].seq \in Nat /\ cursors[c.name][c.epoch].at \in Nat
        BY <1>4, <2>1 DEF OrderInv, Typed, JournalTyped, CursorRow
  <2>4. cursors'[c.name][c.epoch].seq \in Nat /\ cursors'[c.name][c.epoch].at \in Nat
    <3>1. cursors' \in [Names -> [Epochs -> CursorRow]]
          BY ProcessTyped DEF OrderInv, JournalTyped
    <3> QED BY <1>4, <2>1, <3>1 DEF CursorRow
  <2>5. cursors[c.name][c.epoch].seq # 0
        BY <1>5, <2>2, <2>3
  <2>6. /\ cursors'[c.name][c.epoch].seq >= cursors[c.name][c.epoch].seq
        /\ cursors'[c.name][c.epoch].at >= cursors[c.name][c.epoch].at
        BY <1>4, <2>1, <2>5, CursorGrows
  <2> QED BY <1>5, <2>2, <2>3, <2>4, <2>6
<1> QED BY <1>4, <1>6, <1>7, <1>8, <1>9 DEF Charged, u

\* A fresh charge is one of a committed observation
LEMMA FreshIsCharged ==
  ASSUME OrderInv, NEW s \in Sequences, Stored(s), FrozenTogether(polls[s]), NEW broken,
         ProcessPoll(s, broken), NEW c \in FreshIn(s, broken)
  PROVE  Charged(c)'
<1>0. FreshCharge(s, broken, c)
      BY FreshIs
<1>1. Untouched /\ polls' = [polls EXCEPT ![s] = PollIn(s, broken)]
      BY ProcessLeaves, ProcessIs
<1>2. PollOf(s) \in PollRow /\ polls \in [Sequences -> PollRow]
      BY PollOfTyped DEF OrderInv, Typed, JournalTyped
<1>3. /\ polls'[s] = PollIn(s, broken)
      /\ PollIn(s, broken).seen = polls[s].seen \cup DoneIn(s, broken)
      /\ PollIn(s, broken).bound = PollOf(s).bound
      BY <1>1, <1>2, PollOfTyped DEF PollIn, PollRow, OrderInv
<1>4. /\ c.name \in DoneIn(s, broken) /\ c.name \in Names
      /\ c.poll = s /\ c.epoch = polls[s].born
      /\ c.hi = polls[s].top[c.name] /\ c.lo \in Int /\ c.hi \in Int /\ c.lo < c.hi
      /\ c.lo >= Base(PollReading(s), c.name)
      /\ c.user = polls[s].bound[c.name].user
      /\ c.bucket = PollOf(s).bound[c.name].bucket
      /\ Direct(polls[s], c.name) => c.bucket # None
      BY <1>0 DEF FreshCharge
<1>5. polls[s].mode = "cumulative" =>
        /\ polls[s].epoch = c.epoch
        /\ CursorAfter(PollOf(s), s, c.name) = [at |-> polls[s].count[c.name], seq |-> s]
      BY <1>0 DEF FreshCharge
<1>6. /\ PollOf(s).bound[c.name].user = polls[s].bound[c.name].user
      /\ Direct(PollOf(s), c.name) <=> Direct(polls[s], c.name)
      BY <1>4, FrozenIs DEF OrderInv
<1>7. /\ polls'[s].mode = polls[s].mode /\ polls'[s].born = polls[s].born
      /\ polls'[s].top = polls[s].top /\ polls'[s].count = polls[s].count
      /\ Stored(s)'
      BY <1>1 DEF Untouched
<1>8. Base(PollReading(s), c.name)' = Base(PollReading(s), c.name)
      BY <1>7 DEF Base, PollReading
<1>9. Direct(polls[s], c.name)' => c.bucket # None
  <2>1. Direct(polls[s], c.name)' <=> Direct(PollOf(s), c.name)
        BY <1>3 DEF Direct
  <2> QED BY <1>4, <1>6, <2>1
<1>10. c.name \in polls'[s].seen /\ c.user = polls'[s].bound[c.name].user
       /\ c.bucket = polls'[s].bound[c.name].bucket
      BY <1>3, <1>4, <1>6
<1>11. polls[s].mode = "cumulative" =>
         cursors'[c.name][c.epoch].seq >= s /\ cursors'[c.name][c.epoch].at >= polls[s].count[c.name]
  <2> SUFFICES ASSUME polls[s].mode = "cumulative"
      PROVE  cursors'[c.name][c.epoch].seq >= s /\ cursors'[c.name][c.epoch].at >= polls[s].count[c.name]
      OBVIOUS
  <2>1. c.epoch \in Epochs
    <3>1. PollReading(s) \in Readings
          BY ReadingIs
    <3> QED BY <1>4, <3>1 DEF OrderInv, Measured, PollReading
  <2>2. PollOf(s).mode = "cumulative" /\ PollOf(s).epoch = c.epoch
        BY <1>5, PollOfTyped DEF OrderInv
  <2>3. cursors'[c.name] = [cursors[c.name] EXCEPT ![c.epoch] = CursorAfter(PollOf(s), s, c.name)]
        BY <1>4, <2>2, ProcessIs DEF CursorsIn
  <2>4. cursors[c.name] \in [Epochs -> CursorRow]
        BY <1>4 DEF OrderInv, Typed, JournalTyped
  <2>5. cursors'[c.name][c.epoch] = CursorAfter(PollOf(s), s, c.name)
        BY <2>1, <2>3, <2>4
  <2>6. /\ cursors'[c.name][c.epoch].seq = s
        /\ cursors'[c.name][c.epoch].at = polls[s].count[c.name]
        BY <1>5, <2>5
  <2>7. polls[s].count[c.name] \in Nat /\ s \in Nat
        BY <1>4, NumbersTyped, PollFields DEF OrderInv, Counters
  <2> QED BY <2>6, <2>7
<1> QED BY <1>4, <1>7, <1>8, <1>9, <1>10, <1>11 DEF Charged

\* The bytes of an interval of a stored reading are bytes that passed
LEMMA BytesPassed ==
  ASSUME OrderInv, NEW s \in Sequences, Stored(s), NEW c, c.name \in Names,
         c.epoch = polls[s].born, c.hi = polls[s].top[c.name], c.lo \in Int,
         c.lo >= Base(PollReading(s), c.name)
  PROVE  Bytes(c) \subseteq Moved
<1> DEFINE r == PollReading(s)
<1>1. r \in Readings /\ r.born = polls[s].born /\ r.top = polls[s].top /\ r.count = polls[s].count
      BY ReadingIs DEF PollReading
<1>2. Measured(r) /\ r.top[c.name] \in Nat /\ r.count[c.name] \in Nat
      BY <1>1, ReadingTyped DEF OrderInv
<1> HIDE DEF r
<1>3. /\ c.epoch \in Epochs /\ r.count[c.name] <= r.top[c.name]
      /\ c.hi <= total[c.epoch][c.name]
      BY <1>1, <1>2 DEF Measured
<1>4. total[c.epoch][c.name] <= MaxBytes /\ total[c.epoch][c.name] \in Nat /\ MaxBytes \in Nat
      BY <1>3, NumbersTyped, Constants DEF OrderInv, BytesBounded
<1>5. c.lo >= 0 /\ c.hi \in Nat
      BY <1>1, <1>2, <1>3 DEF Base, r
<1> SUFFICES ASSUME NEW k \in (c.lo + 1)..c.hi
    PROVE  << <<c.name, c.epoch>>, k >> \in Moved
    BY DEF Bytes
<1>6. k \in 1..MaxBytes /\ k <= total[c.epoch][c.name]
      BY <1>3, <1>4, <1>5
<1> QED BY <1>3, <1>6 DEF Moved

\* Finitely many bytes pass
LEMMA MovedFinite == IsFiniteSet(Moved)
<1>1. IsFiniteSet(Names) /\ IsFiniteSet(Epochs) /\ IsFiniteSet(1..MaxBytes)
      BY LedgerAssumption, Constants, FS_Interval DEF LedgerAssumption, Epochs
<1>2. IsFiniteSet(Names \X Epochs)
      BY <1>1, FS_Product
<1>3. IsFiniteSet((Names \X Epochs) \X (1..MaxBytes))
      BY <1>1, <1>2, FS_Product
<1> QED BY <1>3, FS_Subset DEF Moved

\* Intervals that lie apart share no byte
LEMMA BytesApart ==
  ASSUME NEW c, NEW d, c.lo \in Int, c.hi \in Int, d.lo \in Int, d.hi \in Int,
         Apart(c, d), c # d
  PROVE  Bytes(c) \cap Bytes(d) = {}
<1> SUFFICES ASSUME NEW x \in Bytes(c), x \in Bytes(d) PROVE FALSE
    OBVIOUS
<1>1. PICK k \in (c.lo + 1)..c.hi : x = << <<c.name, c.epoch>>, k >>
      BY DEF Bytes
<1>2. PICK m \in (d.lo + 1)..d.hi : x = << <<d.name, d.epoch>>, m >>
      BY DEF Bytes
<1>3. k = m /\ c.name = d.name /\ c.epoch = d.epoch
      BY <1>1, <1>2
<1> QED BY <1>1, <1>2, <1>3 DEF Apart

\* Charging a reading keeps the account: the fresh bytes are new ones
LEMMA ProcessKeepsCharges ==
  ASSUME OrderInv, ChargeInv, NEW s \in Sequences, Stored(s), NEW broken,
         ProcessPoll(s, broken)
  PROVE  ChargeInv'
<1>0. FrozenTogether(polls[s]) /\ polls \in [Sequences -> PollRow]
      BY DEF ChargeInv, OrderInv, Typed, JournalTyped
<1> DEFINE fresh == FreshIn(s, broken)
<1>1. charges' = charges \cup fresh
      BY ProcessIs
<1>2. \A c \in fresh : FreshCharge(s, broken, c)
      BY <1>0, FreshIs
<1>3. \A c \in charges : Charged(c)
      BY DEF ChargeInv
<1>4. \A c \in fresh, d \in charges : Apart(c, d) /\ Apart(d, c)
  <2>1. \A c \in fresh, d \in charges : Apart(c, d)
        BY <1>0, <1>3, FreshIsApart
  <2>2. \A c, d : Apart(c, d) => Apart(d, c)
        BY DEF Apart
  <2> QED BY <2>1, <2>2
<1>5. \A c, d \in fresh : Apart(c, d)
  <2> SUFFICES ASSUME NEW c \in fresh, NEW d \in fresh, c.name = d.name PROVE c = d
      BY DEF Apart
  <2>1. PICK n \in Names : c = Interval(PollOf(s), s, n, PollOf(s).bound[n].bucket)
        BY DEF FreshIn, DoneIn, Todo
  <2>2. PICK m \in Names : d = Interval(PollOf(s), s, m, PollOf(s).bound[m].bucket)
        BY DEF FreshIn, DoneIn, Todo
  <2>3. c.name = n /\ d.name = m
        BY <2>1, <2>2 DEF Interval
  <2> QED BY <2>1, <2>2, <2>3
<1>6. \A c \in charges' : Charged(c)'
      BY <1>0, <1>1, <1>3, ChargedStays, FreshIsCharged
<1> HIDE DEF fresh
<1>7. \A c, d \in charges' : Apart(c, d)
      BY <1>1, <1>4, <1>5 DEF ChargeInv
<1>8. \A x \in Sequences : Stored(x)' => FrozenTogether(polls[x])'
  <2> SUFFICES ASSUME NEW x \in Sequences, Stored(x)' PROVE FrozenTogether(polls[x])'
      OBVIOUS
  <2>1. CASE x # s
    <3>1. polls'[x] = polls[x]
          BY <1>0, <2>1, ProcessIs
    <3>2. FrozenTogether(polls[x])
          BY <3>1 DEF ChargeInv, Stored
    <3> QED BY <3>1, <3>2
  <2>2. CASE x = s
    <3>1. polls'[s].bound = PollOf(s).bound
      <4>1. polls'[s] = PollIn(s, broken)
            BY <1>0, ProcessIs
      <4> QED BY <4>1, PollOfTyped DEF OrderInv, PollIn, PollRow
    <3>2. FrozenTogether(PollOf(s))
          BY <1>0, FrozenIs DEF OrderInv
    <3> QED BY <2>2, <3>1, <3>2 DEF FrozenTogether, Direct
  <2> QED BY <2>1, <2>2
<1>9. ASSUME NEW b \in Buckets
      PROVE  Cardinality(BytesOf(b)') = used[b] + Cardinality(BytesIn(s, broken, b))
  <2> DEFINE old == BytesOf(b)
             new == BytesIn(s, broken, b)
  <2>1. BytesOf(b)' = old \cup new
        BY <1>1 DEF BytesOf, BytesIn, fresh
  <2>2. \A c \in charges : Bytes(c) \subseteq Moved
        BY <1>3, BytesPassed DEF Charged
  <2>3. \A c \in fresh : Bytes(c) \subseteq Moved
    <3> SUFFICES ASSUME NEW c \in fresh PROVE Bytes(c) \subseteq Moved
        OBVIOUS
    <3>1. FreshCharge(s, broken, c)
          BY <1>2
    <3>2. /\ c.name \in Names /\ c.epoch = polls[s].born /\ c.hi = polls[s].top[c.name]
          /\ c.lo \in Int /\ c.lo >= Base(PollReading(s), c.name)
          BY <3>1 DEF FreshCharge
    <3> QED BY <3>2, BytesPassed
  <2>4. old \subseteq Moved /\ new \subseteq Moved
        BY <2>2, <2>3 DEF BytesOf, BytesIn, fresh
  <2>5. IsFiniteSet(old) /\ IsFiniteSet(new)
        BY <2>4, MovedFinite, FS_Subset
  <2>6. old \cap new = {}
    <3> SUFFICES ASSUME NEW x \in old, x \in new PROVE FALSE
        OBVIOUS
    <3>1. PICK c \in charges : x \in Bytes(c)
          BY DEF BytesOf
    <3>2. PICK d \in fresh : x \in Bytes(d)
          BY DEF BytesIn, fresh
    <3>3. Charged(c) /\ FreshCharge(s, broken, d) /\ Apart(c, d)
          BY <1>2, <1>3, <1>4
    <3>4. c.lo \in Int /\ c.hi \in Int /\ c.poll \in Sequences /\ c.name \in polls[c.poll].seen
          BY <3>3 DEF Charged
    <3>5. d.lo \in Int /\ d.hi \in Int /\ d.poll = s /\ d.name \notin polls[s].seen
          BY <3>3 DEF FreshCharge
    <3>6. c.name = d.name
          BY <3>1, <3>2 DEF Bytes
    <3>7. c # d
          BY <3>4, <3>5
    <3> QED BY <3>1, <3>2, <3>3, <3>4, <3>5, <3>7, BytesApart
  <2>7. used[b] = Cardinality(old)
        BY DEF ChargeInv
  <2> HIDE DEF old, new
  <2>8. Cardinality(old \cup new) = Cardinality(old) + Cardinality(new)
    <3>1. Cardinality(old) \in Nat /\ Cardinality(new) \in Nat
          BY <2>5, FS_CardinalityType
    <3>2. Cardinality(old \cup new) = Cardinality(old) + Cardinality(new) - Cardinality(old \cap new)
          BY <2>5, FS_Union
    <3>3. Cardinality(old \cap new) = 0
          BY <2>6, FS_EmptySet
    <3> QED BY <3>1, <3>2, <3>3
  <2> QED BY <2>1, <2>7, <2>8 DEF new
<1>10. used' = [b \in Buckets |-> Cardinality(BytesOf(b)')]
      BY <1>9, ProcessIs
<1> QED BY <1>6, <1>7, <1>8, <1>10 DEF ChargeInv, Apart

\* A step that charges nothing keeps the charges; a reading it stores has no bucket
LEMMA OthersKeepCharges ==
  ASSUME ChargeInv, UNCHANGED <<charges, used, cursors>>,
         \A s \in Sequences : IF Stored(s) THEN polls'[s] = polls[s]
                              ELSE Stored(s)' => FrozenTogether(polls[s])'
  PROVE  ChargeInv'
<1>1. \A c \in charges : Charged(c)'
  <2> SUFFICES ASSUME NEW c \in charges PROVE Charged(c)'
      OBVIOUS
  <2>1. Charged(c)
        BY DEF ChargeInv
  <2>2. polls'[c.poll] = polls[c.poll]
        BY <2>1 DEF Charged
  <2>3. /\ Base(PollReading(c.poll), c.name)' = Base(PollReading(c.poll), c.name)
        /\ Stored(c.poll)' <=> Stored(c.poll)
        /\ Direct(polls[c.poll], c.name)' <=> Direct(polls[c.poll], c.name)
        BY <2>2 DEF Base, PollReading, Stored, Direct
  <2> QED BY <2>1, <2>2, <2>3 DEF Charged
<1>2. \A c, d \in charges' : Apart(c, d)'
      BY DEF ChargeInv, Apart
<1>3. \A s \in Sequences : Stored(s)' => FrozenTogether(polls[s])'
  <2> SUFFICES ASSUME NEW s \in Sequences, Stored(s)' PROVE FrozenTogether(polls[s])'
      OBVIOUS
  <2>1. CASE Stored(s)
    <3>1. FrozenTogether(polls[s]) /\ polls'[s] = polls[s]
          BY <2>1 DEF ChargeInv
    <3> QED BY <3>1
  <2> QED BY <2>1
<1>4. \A b : BytesOf(b)' = BytesOf(b)
      BY DEF BytesOf
<1>5. used' = [b \in Buckets |-> Cardinality(BytesOf(b)')]
      BY <1>4 DEF ChargeInv
<1> QED BY <1>1, <1>2, <1>3, <1>5 DEF ChargeInv

\* Every step keeps the charges
LEMMA ChargeStep ==
  ASSUME OrderInv, OrderInv', ChargeInv, [Next]_vars
  PROVE  ChargeInv'
<1> USE DEF outside, journal
<1>1. ASSUME NEW p \in Panels, RecordTrafficPoll(p) PROVE ChargeInv'
  <2> DEFINE s == panels[p].seq
  <2>1. s \in Sequences /\ ~Stored(s)
    <3>1. s \in 1..sequence /\ ~Stored(s)
          BY <1>1 DEF RecordTrafficPoll, OrderInv, Reserved, Unstored
    <3> QED BY <3>1, SequenceTyped, Constants DEF OrderInv, Sequences
  <2>2. /\ polls'[s].bound = [n \in Names |-> Bind(registry[n])]
        /\ \A x \in Sequences \ {s} : polls'[x] = polls[x]
        BY <1>1, <2>1 DEF RecordTrafficPoll, OrderInv, Typed, JournalTyped
  <2>3. \A n \in Names :
          /\ Bind(registry[n]).bucket = Bind(registry[n]).own
          /\ Bind(registry[n]).kind # "direct_user" => Bind(registry[n]).bucket = None
    <3>1. \A n \in Names : registry[n] \in EntryRow
          BY DEF OrderInv, Typed, WorldTyped
    <3> QED BY <3>1, BindTyped
  <2>4. FrozenTogether(polls'[s])
    <3>1. \A n \in Names :
            /\ polls'[s].bound[n].bucket = polls'[s].bound[n].own
            /\ polls'[s].bound[n].kind # "direct_user" => polls'[s].bound[n].bucket = None
          BY <2>2, <2>3
    <3> QED BY <3>1 DEF FrozenTogether, Direct
  <2> HIDE DEF s
  <2>5. \A x \in Sequences : IF Stored(x) THEN polls'[x] = polls[x]
                             ELSE Stored(x)' => FrozenTogether(polls[x])'
    <3> SUFFICES ASSUME NEW x \in Sequences
        PROVE  IF Stored(x) THEN polls'[x] = polls[x]
               ELSE Stored(x)' => FrozenTogether(polls[x])'
        OBVIOUS
    <3>1. CASE x = s
      <4>1. FrozenTogether(polls[x])'
            BY <2>4, <3>1
      <4> QED BY <2>1, <3>1, <4>1
    <3>2. CASE x # s
          BY <2>2, <3>2 DEF Stored
    <3> QED BY <3>1, <3>2
  <2> QED BY <1>1, <2>5, OthersKeepCharges DEF RecordTrafficPoll
<1>2. ASSUME NEW p \in Panels, ProcessOwnPoll(p) PROVE ChargeInv'
  <2>1. panels[p].seq \in Sequences /\ Stored(panels[p].seq)
        BY <1>2 DEF ProcessOwnPoll, OrderInv, Reserved
  <2>2. CASE Attempt(panels[p].seq)
        BY <2>1, <2>2, ProcessKeepsCharges DEF Attempt
  <2>3. CASE UNCHANGED journal
        BY <2>3, OthersKeepCharges DEF Stored
  <2> QED BY <1>2, <2>2, <2>3 DEF ProcessOwnPoll
<1>3. ASSUME NEW s \in Sequences, RetryPoll(s) PROVE ChargeInv'
      BY <1>3, ProcessKeepsCharges DEF RetryPoll, Attempt, Stored
<1>4. CASE UNCHANGED <<polls, cursors, used, charges>>
      BY <1>4, OthersKeepCharges DEF Stored
<1>5. ASSUME NEW p \in Panels, PanelStep(p) PROVE ChargeInv'
  <2>1. UNCHANGED <<polls, cursors, used, charges>>
        BY <1>5 DEF PanelStep, AcquireLease, ChooseReader, BeginTrafficReset, SendReset, CheckResetEpoch,
           ReserveSequence, ReadCounters, CompareEpoch, GiveUp, ContextEnds
  <2> QED BY <1>4, <2>1
<1>6. ASSUME NEW r \in wire, ExecuteReset(r) PROVE ChargeInv'
      BY <1>4, <1>6 DEF ExecuteReset
<1>7. ASSUME RestartCore \/ ToggleOptIn \/ (\E n \in Names : Traffic(n) \/ Rename(n))
                       \/ (\E u \in Users : ChangePlan(u))
      PROVE  ChargeInv'
      BY <1>4, <1>7 DEF RestartCore, ToggleOptIn, Traffic, Rename, ChangePlan
<1>8. CASE UNCHANGED vars
      BY <1>4, <1>8 DEF vars
<1> QED BY <1>1, <1>2, <1>3, <1>5, <1>6, <1>7, <1>8 DEF Next, Collect, PanelStep

\* Nothing is charged at first
LEMMA InitCharges == Init => ChargeInv
<1> SUFFICES ASSUME Init PROVE ChargeInv
    OBVIOUS
<1>1. charges = {} /\ used = [b \in Buckets |-> 0]
      BY DEF Init
<1>2. \A s \in Sequences : ~Stored(s)
      BY DEF Init, Stored, NoPoll
<1>3. \A b : BytesOf(b) = {}
      BY <1>1 DEF BytesOf
<1>4. \A b : Cardinality(BytesOf(b)) = 0
      BY <1>3, FS_EmptySet
<1> QED BY <1>1, <1>2, <1>4 DEF ChargeInv

\* The readings of a machine are numbered once, taken one after the other, each above
\* what the earlier ones took, whichever panel reads and however often the lease
\* changes hands; and every charge lies apart from the others, below the cursor of
\* its counter (collectTrafficSnapshot, processTrafficIdentity).
THEOREM AlwaysIInv == Spec => []IInv
<1>1. Init => IInv
      BY InitOrder, InitCharges DEF IInv
<1>2. IInv /\ [Next]_vars => IInv'
  <2> SUFFICES ASSUME IInv, [Next]_vars PROVE IInv'
      OBVIOUS
  <2>1. OrderInv' /\ Sent'
        BY OrderStep DEF IInv
  <2>2. ChargeInv'
        BY <2>1, ChargeStep DEF IInv
  <2> QED BY <2>1, <2>2 DEF IInv
<1> QED BY <1>1, <1>2, PTL DEF Spec
-----------------------------------------------------------------------------
(* What the journal promises                                                 *)

\* The accounts of one user in one reading debit one bucket, whatever changed
\* between the charge and its retry (processTrafficPoll freezes the buckets), and a
\* name that named its bucket when the reading was stored debits that one
\* (bindTrafficIdentity).
THEOREM OneBucket == Spec => []OneBucketPerReading
<1>1. IInv => OneBucketPerReading
  <2> SUFFICES ASSUME IInv, NEW c \in Billed, NEW d \in Billed
      PROVE  /\ Own(c) # None => c.bucket = Own(c)
             /\ c.poll = d.poll /\ c.user = d.user /\ Own(c) = None /\ Own(d) = None =>
                  c.bucket = d.bucket
      BY DEF OneBucketPerReading
  <2>0. Own(c) # None => c.bucket = Own(c)
    <3>1. Charged(c)
          BY DEF IInv, ChargeInv, Billed
    <3>2. c.poll \in Sequences /\ Stored(c.poll) /\ c.name \in Names
          /\ c.bucket = polls[c.poll].bound[c.name].bucket
          BY <3>1 DEF Charged
    <3>3. FrozenTogether(polls[c.poll])
          BY <3>2 DEF IInv, ChargeInv
    <3> QED BY <3>2, <3>3 DEF FrozenTogether, Own
  <2> SUFFICES ASSUME c.poll = d.poll, c.user = d.user, Own(c) = None, Own(d) = None
      PROVE  c.bucket = d.bucket
      BY <2>0
  <2>1. Charged(c) /\ Charged(d) /\ c.bucket # None /\ d.bucket # None
        BY DEF IInv, ChargeInv, Billed
  <2>2. /\ c.poll \in Sequences /\ Stored(c.poll) /\ c.name \in Names /\ d.name \in Names
        /\ c.user = polls[c.poll].bound[c.name].user /\ c.bucket = polls[c.poll].bound[c.name].bucket
        /\ d.user = polls[c.poll].bound[d.name].user /\ d.bucket = polls[c.poll].bound[d.name].bucket
        BY <2>1 DEF Charged
  <2>3. FrozenTogether(polls[c.poll])
        BY <2>2 DEF IInv, ChargeInv
  <2>4. Direct(polls[c.poll], c.name) /\ Direct(polls[c.poll], d.name)
        BY <2>1, <2>2, <2>3 DEF FrozenTogether
  <2>5. polls[c.poll].bound[c.name].own = None /\ polls[c.poll].bound[d.name].own = None
        BY DEF Own
  <2> QED BY <2>2, <2>3, <2>4, <2>5 DEF FrozenTogether
<1> QED BY <1>1, AlwaysIInv, PTL

\* A charge is for good
LEMMA ChargesStay ==
  ASSUME [Next]_vars
  PROVE  charges \subseteq charges'
<1> USE DEF outside, journal
<1>1. ASSUME NEW s, Attempt(s) PROVE charges \subseteq charges'
      BY <1>1 DEF Attempt, ProcessPoll
<1>2. CASE \E p \in Panels : ProcessOwnPoll(p)
      BY <1>1, <1>2 DEF ProcessOwnPoll
<1>3. CASE \E s \in Sequences : RetryPoll(s)
      BY <1>1, <1>3 DEF RetryPoll
<1>4. CASE ~(\E p \in Panels : ProcessOwnPoll(p)) /\ ~(\E s \in Sequences : RetryPoll(s))
      BY <1>4 DEF Next, Collect, AcquireLease, ChooseReader, BeginTrafficReset, SendReset,
         CheckResetEpoch, ReserveSequence, ReadCounters, CompareEpoch, RecordTrafficPoll, GiveUp,
         ContextEnds, ExecuteReset, Traffic, Rename, ChangePlan, RestartCore, ToggleOptIn, vars
<1> QED BY <1>2, <1>3, <1>4

\* A fresh charge comes from the processing of its reading
LEMMA FreshComes ==
  ASSUME IInv, [Next]_vars, NEW c \in charges' \ charges
  PROVE  \E s \in Sequences : Stored(s) /\ \E broken : c \in FreshIn(s, broken)
<1> USE DEF outside, journal
<1>1. ASSUME NEW s \in Sequences, Stored(s), Attempt(s)
      PROVE  \E x \in Sequences : Stored(x) /\ \E broken : c \in FreshIn(x, broken)
  <2>1. PICK broken : ProcessPoll(s, broken)
        BY <1>1 DEF Attempt
  <2> QED BY <1>1, <2>1, ProcessIs
<1>2. ASSUME NEW p \in Panels, ProcessOwnPoll(p)
      PROVE  \E x \in Sequences : Stored(x) /\ \E broken : c \in FreshIn(x, broken)
  <2>1. panels[p].seq \in Sequences /\ Stored(panels[p].seq)
        BY <1>2 DEF ProcessOwnPoll, IInv, OrderInv, Reserved
  <2> QED BY <1>1, <1>2, <2>1 DEF ProcessOwnPoll
<1>3. ASSUME NEW s \in Sequences, RetryPoll(s)
      PROVE  \E x \in Sequences : Stored(x) /\ \E broken : c \in FreshIn(x, broken)
      BY <1>1, <1>3 DEF RetryPoll, Stored
<1>4. charges' # charges
      OBVIOUS
<1>5. ASSUME NEW p \in Panels PROVE ~(RecordTrafficPoll(p) \/ PanelStep(p))
      BY <1>4 DEF RecordTrafficPoll, PanelStep, AcquireLease, ChooseReader, BeginTrafficReset, SendReset, CheckResetEpoch,
           ReserveSequence, ReadCounters, CompareEpoch, GiveUp, ContextEnds
<1>6. ~(UNCHANGED vars) /\ \A r \in wire : ~ExecuteReset(r)
      BY <1>4 DEF vars, ExecuteReset
<1>7. ~(RestartCore \/ ToggleOptIn \/ (\E n \in Names : Traffic(n) \/ Rename(n))
                       \/ (\E u \in Users : ChangePlan(u)))
      BY <1>4 DEF RestartCore, ToggleOptIn, Traffic, Rename, ChangePlan
<1> QED BY <1>2, <1>3, <1>5, <1>6, <1>7 DEF Next, Collect, PanelStep

\* A later reading never takes the interval of an earlier one that is still to be
\* charged (the pending check of processTrafficIdentity).
THEOREM EarlierFirst == Spec => EarlierReadingKeepsItsBytes
<1>1. IInv /\ [Next]_vars =>
        \A c \in charges' \ charges : \A s \in 1..(c.poll - 1) :
          (/\ polls[s].state = "pending" /\ polls[s].mode = "cumulative"
           /\ polls[s].born = c.epoch /\ c.name \notin polls[s].seen)
          => polls[s].top[c.name] <= c.lo
  <2> SUFFICES ASSUME IInv, [Next]_vars, NEW c \in charges' \ charges, NEW s \in 1..(c.poll - 1),
                      polls[s].state = "pending", polls[s].mode = "cumulative",
                      polls[s].born = c.epoch, c.name \notin polls[s].seen
      PROVE  FALSE
      OBVIOUS
  <2>1. PICK u \in Sequences : Stored(u) /\ \E broken : c \in FreshIn(u, broken)
        BY FreshComes
  <2>2. PICK broken : c \in FreshIn(u, broken)
        BY <2>1
  <2>3. FrozenTogether(polls[u])
        BY <2>1 DEF IInv, ChargeInv
  <2>4. FreshCharge(u, broken, c)
        BY <2>1, <2>2, <2>3, FreshIs DEF IInv
  <2>5. c.poll = u /\ c.name \in DoneIn(u, broken) /\ c.epoch = polls[u].born
        /\ (polls[u].mode = "cumulative" => polls[u].epoch = c.epoch)
        BY <2>4 DEF FreshCharge
  <2>6. s \in 1..(u - 1)
        BY <2>5
  <2>7. s \in Sequences /\ Stored(s) /\ s < u
        BY <2>6, Constants DEF Sequences, Stored
  <2>8. polls[u].mode = "cumulative"
    <3>1. PollReading(s) \in Readings /\ PollReading(u) \in Readings
          BY <2>1, <2>7, ReadingIs
    <3>2. InSequence(PollReading(s), PollReading(u))
          BY <3>1 DEF IInv, OrderInv
    <3> QED BY <2>7, <3>2 DEF InSequence, PollReading
  <2>9. polls[s].epoch = polls[u].epoch
        BY <2>5, <2>7, <2>8 DEF IInv, OrderInv, Verified
  <2>10. PendingEarlier(u, c.name)
        BY <2>6, <2>9 DEF PendingEarlier
  <2>11. PollOf(u).mode = "cumulative"
        BY <2>8, PollOfTyped DEF IInv, OrderInv
  <2> QED BY <2>5, <2>10, <2>11 DEF DoneIn, FailedIn
<1> QED BY <1>1, AlwaysIInv, PTL DEF Spec, EarlierReadingKeepsItsBytes

\* The account book as the charges have it: every byte charged has one payer
LEMMA PaidIs ==
  IInv =>
    /\ DOMAIN PaidBy = UNION {Bytes(c) : c \in Billed}
    /\ \A c \in Billed : \A x \in Bytes(c) : PaidBy[x] = c.bucket
    /\ DOMAIN PaidBy \subseteq Moved
    /\ used = [b \in Buckets |-> Cardinality({x \in DOMAIN PaidBy : PaidBy[x] = b})]
<1> SUFFICES ASSUME IInv
    PROVE  /\ DOMAIN PaidBy = UNION {Bytes(c) : c \in Billed}
           /\ \A c \in Billed : \A x \in Bytes(c) : PaidBy[x] = c.bucket
           /\ DOMAIN PaidBy \subseteq Moved
           /\ used = [b \in Buckets |-> Cardinality({x \in DOMAIN PaidBy : PaidBy[x] = b})]
    OBVIOUS
<1>1. DOMAIN PaidBy = UNION {Bytes(c) : c \in Billed}
      BY DEF PaidBy
<1>2. \A c \in Billed : c \in charges /\ Charged(c)
      BY DEF Billed, IInv, ChargeInv
<1>3. ASSUME NEW c \in Billed, NEW d \in Billed, NEW x \in Bytes(c), x \in Bytes(d) PROVE c = d
  <2>1. c.lo \in Int /\ c.hi \in Int /\ d.lo \in Int /\ d.hi \in Int
        BY <1>2 DEF Charged
  <2>2. Apart(c, d)
        BY <1>2 DEF IInv, ChargeInv
  <2> QED BY <1>3, <2>1, <2>2, BytesApart
<1>4. ASSUME NEW c \in Billed, NEW x \in Bytes(c) PROVE PaidBy[x] = c.bucket
  <2> DEFINE payer == CHOOSE d \in Billed : x \in Bytes(d)
  <2>1. payer \in Billed /\ x \in Bytes(payer)
        OBVIOUS
  <2>2. payer = c
        BY <1>3, <2>1
  <2>3. x \in UNION {Bytes(d) : d \in Billed}
        OBVIOUS
  <2>4. PaidBy[x] = payer.bucket
        BY <2>3 DEF PaidBy
  <2> QED BY <2>2, <2>4
<1>5. DOMAIN PaidBy \subseteq Moved
  <2>1. \A c \in Billed : Bytes(c) \subseteq Moved
        BY <1>2, BytesPassed DEF Charged, IInv
  <2> QED BY <1>1, <2>1
<1>6. ASSUME NEW b \in Buckets PROVE BytesOf(b) = {x \in DOMAIN PaidBy : PaidBy[x] = b}
  <2>1. \A c \in charges : c.bucket = b => c \in Billed
        BY Constants DEF Billed
  <2>2. \A x \in BytesOf(b) : x \in DOMAIN PaidBy /\ PaidBy[x] = b
        BY <1>1, <1>4, <2>1 DEF BytesOf
  <2>3. \A x \in DOMAIN PaidBy : PaidBy[x] = b => x \in BytesOf(b)
        BY <1>1, <1>2, <1>4 DEF BytesOf
  <2> QED BY <2>2, <2>3
<1>7. used = [b \in Buckets |-> Cardinality({x \in DOMAIN PaidBy : PaidBy[x] = b})]
  <2>1. used = [b \in Buckets |-> Cardinality(BytesOf(b))]
        BY DEF IInv, ChargeInv
  <2> QED BY <1>6, <2>1
<1> QED BY <1>1, <1>4, <1>5, <1>7

\* The journal implements the quota book: a byte is debited to at most one bucket,
\* once and for good, and a bucket's usage is the number of its bytes.
THEOREM EveryByteOnce == Spec => ChargesOnce
<1>1. Init => Book!Init
  <2> SUFFICES ASSUME Init PROVE Book!Init
      OBVIOUS
  <2>1. charges = {} /\ \A e \in Epochs, n \in Names : total[e][n] = 0
        BY DEF Init, Zero
  <2>2. Moved = {}
        BY <2>1 DEF Moved
  <2>3. Billed = {}
        BY <2>1 DEF Billed
  <2>4. UNION {Bytes(c) : c \in Billed} = {}
        BY <2>3
  <2>5. PaidBy = << >>
        BY <2>4 DEF PaidBy
  <2> QED BY <2>2, <2>5 DEF Init, Book!Init
<1>2. IInv /\ IInv' /\ [Next]_vars => [Book!Next]_<<Moved, PaidBy, used>>
  <2> SUFFICES ASSUME IInv, IInv', [Next]_vars PROVE Book!Next
      OBVIOUS
  <2>1. CASE \E n \in Names : Traffic(n)
    <3>1. PICK n \in Names : Traffic(n)
          BY <2>1
    <3>2. charges' = charges /\ used' = used
          BY <3>1 DEF Traffic, journal
    <3>3. PaidBy' = PaidBy
          BY <3>2 DEF PaidBy, Billed
    <3>4. \A e \in Epochs, m \in Names : total'[e][m] \in Nat /\ total[e][m] \in Nat /\ total'[e][m] >= total[e][m]
      <4>1. total \in [Epochs -> Counters] /\ core.epoch \in Epochs
            BY DEF IInv, OrderInv, Typed, WorldTyped, CoreRow
      <4>2. total' = [total EXCEPT ![core.epoch][n] = @ + 1]
            BY <3>1 DEF Traffic
      <4> QED BY <4>1, <4>2 DEF Counters
    <3>5. Moved \subseteq Moved'
          BY <3>4 DEF Moved
    <3> QED BY <3>2, <3>3, <3>5 DEF Book!Next, Book!Traffic
  <2>2. CASE ~\E n \in Names : Traffic(n)
    <3>1. total' = total
          BY <2>2 DEF Next, Collect, AcquireLease, ChooseReader, BeginTrafficReset, SendReset,
             CheckResetEpoch, ReserveSequence, ReadCounters, CompareEpoch, RecordTrafficPoll,
             ProcessOwnPoll, GiveUp, ContextEnds, ExecuteReset, RetryPoll, Rename, ChangePlan,
             RestartCore, ToggleOptIn, vars
    <3>2. charges \subseteq charges'
          BY ChargesStay
    <3>3. Moved' = Moved
          BY <3>1 DEF Moved
    <3>4. Billed \subseteq Billed'
          BY <3>2 DEF Billed
    <3>5. /\ DOMAIN PaidBy = UNION {Bytes(c) : c \in Billed}
          /\ \A c \in Billed : \A x \in Bytes(c) : PaidBy[x] = c.bucket
          BY PaidIs
    <3>6. /\ DOMAIN PaidBy' = UNION {Bytes(c) : c \in Billed'}
          /\ \A c \in Billed' : \A x \in Bytes(c) : PaidBy'[x] = c.bucket
          /\ DOMAIN PaidBy' \subseteq Moved'
          /\ used' = [b \in Buckets |-> Cardinality({x \in DOMAIN PaidBy' : PaidBy'[x] = b})]
      <4>1. (/\ DOMAIN PaidBy = UNION {Bytes(c) : c \in Billed}
             /\ \A c \in Billed : \A x \in Bytes(c) : PaidBy[x] = c.bucket
             /\ DOMAIN PaidBy \subseteq Moved
             /\ used = [b \in Buckets |-> Cardinality({x \in DOMAIN PaidBy : PaidBy[x] = b})])'
            BY PaidIs, PTL
      <4> QED BY <4>1 DEF Bytes
    <3>7. DOMAIN PaidBy \subseteq DOMAIN PaidBy'
          BY <3>4, <3>5, <3>6
    <3>8. \A x \in DOMAIN PaidBy : PaidBy'[x] = PaidBy[x]
          BY <3>4, <3>5, <3>6
    <3>9. \A S : Book!Cardinality(S) = Cardinality(S)
          BY DEF Book!Cardinality, Cardinality
    <3> QED BY <3>3, <3>6, <3>7, <3>8, <3>9 DEF Book!Next, Book!Charge
  <2> QED BY <2>1, <2>2
<1> QED BY <1>1, <1>2, AlwaysIInv, PTL DEF Spec, ChargesOnce, Book!Spec
-----------------------------------------------------------------------------
(* Where the bytes went                                                      *)

Intent(s) == <<"reset_outcome_unknown", s>>
Resetting == {"send", "await", "answered", "store"}
Cumulating == {"query", "compare", "store_cumulative"}

\* Rows hold what their states say, and no cursor moved before a cumulative reading
Tidy ==
  /\ unmetered \in Counters /\ IsFiniteSet(charges)
  /\ \A s \in Sequences :
       /\ ~Stored(s) => polls[s] = NoPoll
       /\ polls[s].state = "done" => polls[s].seen = Names
       /\ polls[s].epoch \in Epochs => polls[s].epoch <= core.epoch
       /\ polls[s].transition => polls[s].epoch \in Epochs
  /\ \A n \in Names, e \in Epochs :
       /\ cursors[n][e].seq = 0 => cursors[n][e].at = 0
       /\ cursors[n][e].at # 0 => \E s \in Sequences : Stored(s) /\ polls[s].mode = "cumulative"

\* A reset is announced from before it is sent until its answer is stored, and
\* whoever stopped waiting for it never asks again under its number
Announced ==
  /\ \A s : Intent(s) \in gaps => s \in 1..sequence
  /\ \A p \in Panels :
       /\ panels[p].pc \in Resetting => Intent(panels[p].seq) \in gaps
       /\ panels[p].pc \in Cumulating => Intent(panels[p].seq) \notin gaps
  /\ \A r \in wire :
       /\ r = <<r[1], r[2]>> /\ r[2] \in 1..sequence /\ Intent(r[2]) \in gaps
       /\ \A p \in Panels : panels[p].pc \in Unstored /\ panels[p].seq = r[2] =>
            p = r[1] /\ panels[p].pc = "await"

\* The mode came with a switch, which no cumulative reading makes, and the process
\* known is that of the last reading
Metered ==
  /\ meter.mode = "cumulative" =>
       \E r \in Sequences : Stored(r) /\ polls[r].transition /\ r <= meter.last
  /\ meter.last # 0 => meter.epoch = polls[meter.last].epoch
  /\ \A p \in Panels : panels[p].pc \in Cumulating => ~panels[p].transition

\* The answer to this reset may still be stored
Awaited(s) ==
  \E p \in Panels :
    /\ panels[p].seq = s
    /\ \/ panels[p].pc \in {"send", "await"} /\ panels[p].live
       \/ panels[p].pc \in {"answered", "store"}

\* Nothing is on record but resets under way
NoLoss == ~Straggled /\ \A g \in gaps : \E s \in Sequences : g = Intent(s) /\ Awaited(s)

\* The last reading came from the running process
Known == meter.mode = "cumulative" => meter.epoch = core.epoch

\* No reading is older than the process the meter knows
SinceSwitch ==
  NoLoss /\ meter.mode = "cumulative" => \A t \in Readings : t.cumulative => t.born >= meter.epoch

\* The bytes of a name that were observed, that wait in a stored reading or in the
\* hands of a panel, and all that passed
ChargesOf(n) == {c \in charges : c.name = n}
Lengths(n) == [c \in ChargesOf(n) |-> c.hi - c.lo]
PollPart(n, s) == IF polls[s].mode = "reset" /\ n \notin polls[s].seen THEN polls[s].count[n] ELSE 0
PollParts(n) == [s \in Sequences |-> PollPart(n, s)]
PanelPart(n, p) == IF panels[p].pc \in {"answered", "store"} THEN panels[p].count[n] ELSE 0
PanelParts(n) == [p \in Panels |-> PanelPart(n, p)]
Totals(n) == [e \in Epochs |-> total[e][n]]

Balanced(n) ==
  SumOver(Lengths(n), ChargesOf(n)) + SumOver(PollParts(n), Sequences)
    + SumOver(PanelParts(n), Panels) + Waiting(n) + unmetered[n] = SumOver(Totals(n), Epochs)

Balance == NoLoss /\ Known => \A n \in Names : Balanced(n)

LossInv == Tidy /\ Announced /\ Metered /\ SinceSwitch /\ Balance
-----------------------------------------------------------------------------
(* What a step does to the terms of the balance                              *)

\* Panels that are done with their reading leave or go on
Retires ==
  \A q \in Panels :
    panels'[q] = panels[q] \/ (panels[q].pc = "process" /\ panels'[q].pc \in {"idle", "reserve"})

\* A stored reading is charged, or nothing that matters here changes
Charging(s) ==
  /\ Stored(s) /\ Retires /\ UNCHANGED <<core, total, wire, unmetered>>
  /\ \E broken : ProcessPoll(s, broken)
Elsewhere == Retires /\ UNCHANGED <<core, total, wire, unmetered, journal>>

\* The steps by what they change
LEMMA StepsAre ==
  ASSUME OrderInv, [Next]_vars
  PROVE  \/ \E p \in Panels : PanelStep(p) \/ RecordTrafficPoll(p)
         \/ \E r \in wire : ExecuteReset(r)
         \/ \E s \in Sequences : Charging(s)
         \/ \E n \in Names : Traffic(n)
         \/ RestartCore
         \/ Elsewhere
<1> USE DEF outside
<1>1. CASE UNCHANGED vars
      BY <1>1 DEF vars, journal, Elsewhere, Retires
<1>2. ASSUME NEW p \in Panels, ProcessOwnPoll(p)
      PROVE  Elsewhere \/ \E s \in Sequences : Charging(s)
  <2>1. /\ panels[p].pc = "process" /\ panels[p].seq \in Sequences /\ Stored(panels[p].seq)
        BY <1>2 DEF ProcessOwnPoll, OrderInv, Reserved
  <2>2. Retires
    <3>1. Typed
          BY DEF OrderInv
    <3>2. CASE Leave(p)
          BY <2>1, <3>1, <3>2, LeaveIs DEF Retires, Same
    <3>3. CASE GoTo(p, "reserve")
          BY <2>1, <3>1, <3>3, GoToIs DEF Retires, Same
    <3> QED BY <1>2, <3>2, <3>3 DEF ProcessOwnPoll
  <2>3. CASE UNCHANGED journal
        BY <1>2, <2>2, <2>3 DEF ProcessOwnPoll, Elsewhere
  <2>4. CASE Attempt(panels[p].seq)
        BY <1>2, <2>1, <2>2, <2>4 DEF ProcessOwnPoll, Attempt, Charging
  <2> QED BY <1>2, <2>3, <2>4 DEF ProcessOwnPoll
<1>3. ASSUME NEW s \in Sequences, RetryPoll(s) PROVE Charging(s)
      BY <1>3 DEF RetryPoll, Attempt, Charging, Retires, Stored
<1>4. CASE ToggleOptIn \/ (\E n \in Names : Rename(n)) \/ (\E u \in Users : ChangePlan(u))
      BY <1>4 DEF ToggleOptIn, Rename, ChangePlan, Elsewhere, Retires, journal
<1> QED BY <1>1, <1>2, <1>3, <1>4 DEF Next, Collect, PanelStep

\* What a step of a collection that stores nothing does
PanelEffect(p) ==
  LET old == panels[p]  new == panels'[p]
      fresh == new.seq = sequence + 1 /\ sequence' = sequence + 1
  IN
    /\ Same(p) /\ UNCHANGED <<core, total, meter, polls, cursors, charges, unmetered>>
    /\ sequence' \in {sequence, sequence + 1} /\ gaps \subseteq gaps'
    /\ \A s : Intent(s) \in gaps' =>
         Intent(s) \in gaps \/ (s = sequence + 1 /\ fresh /\ new.pc = "send")
    /\ \/ wire' = wire
       \/ wire' = wire \cup {<<p, old.seq>>} /\ old.pc = "send" /\ new.pc = "await" /\ new.seq = old.seq
    /\ new.pc \in Resetting =>
         \/ fresh /\ new.pc = "send" /\ Intent(new.seq) \in gaps'
         \/ new.seq = old.seq /\ old.pc \in Resetting /\ (new.live => old.live)
    /\ new.pc \in Cumulating =>
         (fresh /\ new.pc = "query") \/ (new.seq = old.seq /\ old.pc \in Cumulating)
    /\ new.pc \in Cumulating /\ new.transition => old.pc \in Cumulating /\ old.transition
    /\ new.pc \in {"send", "await"} => fresh \/ old.pc \in {"send", "await"}
    /\ old.pc = "await" => new.pc \in {"await", "idle"}
    /\ old.pc \in {"answered", "store"} => new.pc \in {"answered", "store", "idle"}
    /\ new.pc \in {"answered", "store"} =>
         old.pc \in {"answered", "store"} /\ new.count = old.count

\* Every such step does
LEMMA PanelEffects ==
  ASSUME OrderInv, NEW p \in Panels, PanelStep(p)
  PROVE  PanelEffect(p)
<1> USE DEF journal, outside, Resetting, Cumulating
<1>1. Typed /\ panels[p] \in PanelRow /\ sequence \in Nat
      BY NumbersTyped DEF OrderInv
<1>2. ASSUME Leave(p), UNCHANGED <<core, total, meter, polls, cursors, charges, unmetered, wire, sequence>>,
             gaps \subseteq gaps', \A s : Intent(s) \in gaps' => Intent(s) \in gaps
      PROVE  PanelEffect(p)
  <2>1. Same(p) /\ panels'[p].pc = "idle"
        BY <1>1, <1>2, LeaveIs
  <2> QED BY <1>2, <2>1 DEF PanelEffect
<1>3. CASE AcquireLease(p)
  <2>1. Same(p) /\ panels'[p] = [Idle EXCEPT !.pc = "choose", !.live = TRUE]
        BY <1>1, <1>3, StepIs DEF AcquireLease
  <2>2. panels'[p].pc = "choose" /\ panels[p].pc = "idle"
        BY <1>3, <2>1 DEF Idle, AcquireLease
  <2> QED BY <1>3, <2>1, <2>2 DEF AcquireLease, PanelEffect
<1>4. CASE ChooseReader(p)
  <2>1. /\ panels[p].pc = "choose" /\ UNCHANGED <<core, total, journal, wire, unmetered>>
        /\ Leave(p) \/ \E e, t : Step(p, [panels[p] EXCEPT !.pc = "intend", !.epoch = e])
                       \/ Step(p, [panels[p] EXCEPT !.epoch = e, !.transition = t, !.pc = "intend"])
                       \/ Step(p, [panels[p] EXCEPT !.epoch = e, !.transition = t, !.pc = "reserve"])
        BY <1>4 DEF ChooseReader
  <2>2. CASE Leave(p)
        BY <1>2, <2>1, <2>2
  <2>3. CASE ~Leave(p)
    <3>1. Same(p) /\ panels'[p].pc \in {"intend", "reserve"}
      <4>1. PICK e, t : Step(p, [panels[p] EXCEPT !.pc = "intend", !.epoch = e])
                       \/ Step(p, [panels[p] EXCEPT !.epoch = e, !.transition = t, !.pc = "intend"])
                       \/ Step(p, [panels[p] EXCEPT !.epoch = e, !.transition = t, !.pc = "reserve"])
            BY <2>1, <2>3
      <4>2. Same(p) /\ (\/ panels'[p] = [panels[p] EXCEPT !.pc = "intend", !.epoch = e]
                        \/ panels'[p] = [panels[p] EXCEPT !.epoch = e, !.transition = t, !.pc = "intend"]
                        \/ panels'[p] = [panels[p] EXCEPT !.epoch = e, !.transition = t, !.pc = "reserve"])
            BY <1>1, <4>1, StepIs
      <4> QED BY <1>1, <4>2 DEF PanelRow
    <3> QED BY <2>1, <3>1 DEF PanelEffect
  <2> QED BY <2>2, <2>3
<1>5. CASE BeginTrafficReset(p)
  <2>1. Same(p) /\ panels'[p] = [panels[p] EXCEPT !.pc = "send", !.seq = sequence + 1]
        BY <1>1, <1>5, StepIs DEF BeginTrafficReset
  <2>2. panels'[p].pc = "send" /\ panels'[p].seq = sequence + 1 /\ panels[p].pc = "intend"
        BY <1>1, <1>5, <2>1 DEF PanelRow, BeginTrafficReset
  <2>3. gaps' = gaps \cup {Intent(sequence + 1)} /\ sequence' = sequence + 1
        BY <1>5 DEF BeginTrafficReset, Intent
  <2>4. \A s : Intent(s) = Intent(sequence + 1) => s = sequence + 1
        BY DEF Intent
  <2> QED BY <1>5, <2>1, <2>2, <2>3, <2>4 DEF BeginTrafficReset, PanelEffect
<1>6. CASE SendReset(p)
  <2>1. /\ Same(p) /\ panels'[p].pc = "await" /\ panels'[p].seq = panels[p].seq
        /\ panels'[p].live = panels[p].live /\ panels[p].pc = "send"
        BY <1>1, <1>6, GoToIs DEF SendReset
  <2> QED BY <1>6, <2>1 DEF SendReset, PanelEffect
<1>7. CASE CheckResetEpoch(p)
  <2>1. CASE Leave(p)
        BY <1>2, <1>7, <2>1 DEF CheckResetEpoch
  <2>2. CASE GoTo(p, "store")
    <3>1. /\ Same(p) /\ panels'[p].pc = "store" /\ panels'[p].seq = panels[p].seq
          /\ panels'[p].live = panels[p].live /\ panels'[p].count = panels[p].count
          /\ panels[p].pc = "answered"
          BY <1>1, <1>7, <2>2, GoToIs DEF CheckResetEpoch
    <3> QED BY <1>7, <3>1 DEF CheckResetEpoch, PanelEffect
  <2> QED BY <1>7, <2>1, <2>2 DEF CheckResetEpoch
<1>8. CASE ReserveSequence(p)
  <2>1. Same(p) /\ panels'[p] = [panels[p] EXCEPT !.pc = "query", !.seq = sequence + 1, !.transition = FALSE]
        BY <1>1, <1>8, StepIs DEF ReserveSequence
  <2>2. /\ panels'[p].pc = "query" /\ panels'[p].seq = sequence + 1 /\ panels[p].pc = "reserve"
        /\ ~panels'[p].transition
        BY <1>1, <1>8, <2>1 DEF PanelRow, ReserveSequence
  <2> QED BY <1>8, <2>1, <2>2 DEF ReserveSequence, PanelEffect
<1>9. CASE ReadCounters(p)
  <2>1. Same(p) /\ panels'[p] = [panels[p] EXCEPT !.pc = "compare", !.count = core.count,
                                   !.top = total[core.epoch], !.born = core.epoch]
        BY <1>1, <1>9, StepIs DEF ReadCounters
  <2>2. /\ panels'[p].pc = "compare" /\ panels'[p].seq = panels[p].seq /\ panels[p].pc = "query"
        /\ panels'[p].transition = panels[p].transition
        BY <1>1, <1>9, <2>1 DEF PanelRow, ReadCounters
  <2> QED BY <1>9, <2>1, <2>2 DEF ReadCounters, PanelEffect
<1>10. CASE CompareEpoch(p)
  <2>1. CASE Leave(p) /\ gaps' = gaps \cup {<<"process_changed_during_read", panels[p].seq>>}
    <3>1. \A s : Intent(s) # <<"process_changed_during_read", panels[p].seq>>
          BY DEF Intent
    <3> QED BY <1>2, <1>10, <2>1, <3>1 DEF CompareEpoch
  <2>2. CASE GoTo(p, "store_cumulative") /\ gaps' = gaps
    <3>1. /\ Same(p) /\ panels'[p].pc = "store_cumulative" /\ panels'[p].seq = panels[p].seq
          /\ panels'[p].transition = panels[p].transition /\ panels[p].pc = "compare"
          BY <1>1, <1>10, <2>2, GoToIs DEF CompareEpoch
    <3> QED BY <1>10, <2>2, <3>1 DEF CompareEpoch, PanelEffect
  <2> QED BY <1>10, <2>1, <2>2 DEF CompareEpoch
<1>11. CASE GiveUp(p)
      BY <1>2, <1>11 DEF GiveUp
<1>12. CASE ContextEnds(p)
  <2>1. Same(p) /\ panels'[p] = [panels[p] EXCEPT !.live = FALSE]
        BY <1>1, <1>12, StepIs DEF ContextEnds
  <2>2. /\ panels'[p].pc = panels[p].pc /\ panels'[p].seq = panels[p].seq /\ ~panels'[p].live
        /\ panels'[p].count = panels[p].count /\ panels'[p].transition = panels[p].transition
        BY <1>1, <2>1 DEF PanelRow
  <2> QED BY <1>12, <2>1, <2>2 DEF ContextEnds, PanelEffect
<1> QED BY <1>3, <1>4, <1>5, <1>6, <1>7, <1>8, <1>9, <1>10, <1>11, <1>12 DEF PanelStep
-----------------------------------------------------------------------------
(* What storing and charging a reading do                                    *)

\* What storing a reading does
LEMMA RecordEffects ==
  ASSUME OrderInv, NEW p \in Panels, RecordTrafficPoll(p)
  PROVE  LET s == panels[p].seq  old == panels[p] IN
         /\ s \in Sequences /\ s \in 1..sequence /\ ~Stored(s)
         /\ old.pc \in {"store", "store_cumulative"}
         /\ polls'[s].state = "pending" /\ polls'[s].seen = {}
         /\ polls'[s].mode = (IF old.pc = "store" THEN "reset" ELSE "cumulative")
         /\ polls'[s].epoch = old.epoch /\ polls'[s].transition = old.transition
         /\ polls'[s].count = old.count /\ polls'[s].born = old.born
         /\ \A x \in Sequences \ {s} : polls'[x] = polls[x]
         /\ Same(p) /\ panels'[p].pc = "process" /\ panels'[p].seq = s
         /\ gaps' = (gaps \ {Intent(s)}) \cup BindingGaps(s)
         /\ meter' = IF old.transition /\ s > meter.last
                       THEN [mode |-> "cumulative", epoch |-> old.epoch, last |-> s]
                       ELSE meter
         /\ UNCHANGED <<core, total, wire, unmetered, sequence, cursors, charges>>
<1> DEFINE s == panels[p].seq
<1>1. Typed /\ panels[p] \in PanelRow /\ polls \in [Sequences -> PollRow]
      BY NumbersTyped DEF OrderInv, Typed, JournalTyped
<1>2. panels[p].pc \in {"store", "store_cumulative"}
      BY DEF RecordTrafficPoll
<1>3. s \in 1..sequence /\ ~Stored(s) /\ s \in Sequences
  <2>1. s \in 1..sequence /\ ~Stored(s)
        BY <1>2 DEF OrderInv, Reserved, Unstored
  <2> QED BY <2>1, <1>1, SequenceTyped, Constants DEF Sequences
<1>4. /\ polls'[s].state = "pending" /\ polls'[s].seen = {} /\ polls'[s].epoch = panels[p].epoch
      /\ polls'[s].mode = (IF panels[p].pc = "store" THEN "reset" ELSE "cumulative")
      /\ polls'[s].transition = panels[p].transition
      /\ polls'[s].count = panels[p].count /\ polls'[s].born = panels[p].born
      /\ \A x \in Sequences \ {s} : polls'[x] = polls[x]
      BY <1>1, <1>3 DEF RecordTrafficPoll
<1>5. Same(p) /\ panels'[p].pc = "process" /\ panels'[p].seq = s
      BY <1>1, GoToIs DEF RecordTrafficPoll
<1>6. /\ gaps' = (gaps \ {Intent(s)}) \cup BindingGaps(s)
      /\ meter' = IF panels[p].transition /\ s > meter.last
                    THEN [mode |-> "cumulative", epoch |-> panels[p].epoch, last |-> s]
                    ELSE meter
      /\ UNCHANGED <<core, total, wire, unmetered, sequence, cursors, charges>>
      BY DEF RecordTrafficPoll, Intent
<1> QED BY <1>2, <1>3, <1>4, <1>5, <1>6

\* What charging a stored reading does
LEMMA ChargingEffects ==
  ASSUME OrderInv, NEW s \in Sequences, NEW broken, Stored(s), ProcessPoll(s, broken)
  PROVE  /\ Untouched /\ \A x \in Sequences \ {s} : polls'[x] = polls[x]
         /\ polls'[s].transition = polls[s].transition
         /\ polls'[s].seen = polls[s].seen \cup DoneIn(s, broken)
         /\ DoneIn(s, broken) \subseteq Names \ polls[s].seen
         /\ polls'[s].state = "done" => polls'[s].seen = Names
         /\ meter' = IF s < meter.last THEN meter
                     ELSE [mode |-> IF meter.mode = "cumulative" \/ polls[s].transition
                                      THEN "cumulative" ELSE polls[s].mode,
                           epoch |-> polls[s].epoch, last |-> s]
         /\ gaps \subseteq gaps'
         /\ \A x : Intent(x) \in gaps' => Intent(x) \in gaps
         /\ \A g \in RestartGap(PollOf(s), s) : g \in gaps' /\ \A x : g # Intent(x)
         /\ polls[s].mode = "cumulative" =>
              \A n \in DoneIn(s, broken) : Quality(PollOf(s), s, n) # "observed" =>
                \E g \in gaps' : \A x : g # Intent(x)
         /\ \A n \in Names \ DoneIn(s, broken) : cursors'[n] = cursors[n]
         /\ polls[s].mode # "cumulative" => \A n \in Names : cursors'[n] = cursors[n]
         /\ polls[s].mode = "cumulative" => \A n \in DoneIn(s, broken) :
              cursors'[n] = [cursors[n] EXCEPT ![polls[s].epoch] = CursorAfter(PollOf(s), s, n)]
         /\ charges' = charges \cup FreshIn(s, broken)
         /\ sequence' = sequence
<1>1. /\ polls' = [polls EXCEPT ![s] = PollIn(s, broken)]
      /\ charges' = charges \cup FreshIn(s, broken)
      /\ cursors' = [n \in Names |-> CursorsIn(s, broken, n)]
      /\ meter' = MeterAfter(PollOf(s), s) /\ sequence' = sequence
      BY ProcessIs
<1>2. /\ Typed /\ polls \in [Sequences -> PollRow] /\ polls[s] \in PollRow /\ PollOf(s) \in PollRow
      /\ PollOf(s).transition = polls[s].transition /\ PollOf(s).seen = polls[s].seen
      /\ PollOf(s).mode = polls[s].mode /\ PollOf(s).epoch = polls[s].epoch
      /\ polls[s].seen \subseteq Names
      BY PollOfTyped, PollFields DEF OrderInv, Typed, JournalTyped, PollOf, PollRow
<1>3. Untouched /\ \A x \in Sequences \ {s} : polls'[x] = polls[x]
      BY <1>1, <1>2, ProcessLeaves
<1>4. /\ PollIn(s, broken).transition = PollOf(s).transition
      /\ PollIn(s, broken).seen = PollOf(s).seen \cup DoneIn(s, broken)
      /\ PollIn(s, broken).state = IF FailedIn(s, broken) = {} THEN "done" ELSE "pending"
      BY <1>2 DEF PollIn, PollRow
<1>5. polls'[s] = PollIn(s, broken)
      BY <1>1, <1>2
<1>6. DoneIn(s, broken) \subseteq Names \ polls[s].seen
      BY <1>2 DEF DoneIn, Todo
<1>7. ASSUME polls'[s].state = "done" PROVE polls'[s].seen = Names
  <2>1. DoneIn(s, broken) = Names \ polls[s].seen
        BY <1>2, <1>4, <1>5, <1>7 DEF DoneIn, Todo
  <2> QED BY <1>2, <1>4, <1>5, <2>1
<1>8. meter' = IF s < meter.last THEN meter
                     ELSE [mode |-> IF meter.mode = "cumulative" \/ polls[s].transition
                                      THEN "cumulative" ELSE polls[s].mode,
                           epoch |-> polls[s].epoch, last |-> s]
      BY <1>1, <1>2 DEF MeterAfter
<1>9. gaps' = gaps \cup RestartGap(PollOf(s), s)
              \cup (IF PollOf(s).mode = "cumulative"
                      THEN QualityGaps(PollOf(s), s, DoneIn(s, broken)) ELSE {})
      BY DEF ProcessPoll, PollOf, FailedIn, DoneIn
<1>10. /\ \A g \in RestartGap(PollOf(s), s) : \A x : g # Intent(x)
       /\ \A g \in QualityGaps(PollOf(s), s, DoneIn(s, broken)) : \A x : g # Intent(x)
      BY DEF RestartGap, QualityGaps, Intent
<1>11. ASSUME polls[s].mode = "cumulative", NEW n \in DoneIn(s, broken),
              Quality(PollOf(s), s, n) # "observed"
       PROVE  \E g \in gaps' : \A x : g # Intent(x)
  <2>1. Quality(PollOf(s), s, n) \in {"out_of_order", "counter_reset"}
        BY <1>11 DEF Quality
  <2>2. QualityGaps(PollOf(s), s, DoneIn(s, broken)) # {}
        BY <2>1 DEF QualityGaps
  <2> QED BY <1>2, <1>9, <1>10, <1>11, <2>2
<1>12. \A n \in Names : cursors'[n] = CursorsIn(s, broken, n)
      BY <1>1
<1>13. \A x : Intent(x) \in gaps' => Intent(x) \in gaps
      BY <1>9, <1>10
<1> QED BY <1>1, <1>2, <1>3, <1>4, <1>5, <1>6, <1>7, <1>8, <1>9, <1>10, <1>11, <1>12, <1>13
        DEF CursorsIn
-----------------------------------------------------------------------------
(* The rows and the cursors                                                  *)

\* A step that stores and charges nothing
Keeps == UNCHANGED <<polls, cursors, charges, meter>>

\* A step that stores and charges nothing keeps the rows tidy
LEMMA KeepsTidy ==
  ASSUME OrderInv, Typed', Tidy, Keeps, core'.epoch \in Epochs, core'.epoch >= core.epoch,
         unmetered' \in Counters
  PROVE  Tidy'
<1>1. \A e \in Epochs : e \in Nat
      BY NumbersTyped DEF OrderInv
<1>2. core.epoch \in Nat /\ core'.epoch \in Nat
      BY <1>1, NumbersTyped DEF OrderInv
<1>3. \A s \in Sequences : polls[s].epoch \in Epochs => polls[s].epoch <= core'.epoch
      BY <1>1, <1>2 DEF Tidy
<1> QED BY <1>3 DEF Tidy, Keeps, Stored

\* Storing a reading keeps the rows tidy
LEMMA RecordTidy ==
  ASSUME OrderInv, Tidy, NEW p \in Panels, RecordTrafficPoll(p)
  PROVE  Tidy'
<1> DEFINE s == panels[p].seq
<1>1. /\ s \in Sequences /\ ~Stored(s) /\ polls'[s].state = "pending"
      /\ polls'[s].epoch = panels[p].epoch /\ polls'[s].transition = panels[p].transition
      /\ \A x \in Sequences \ {s} : polls'[x] = polls[x]
      /\ UNCHANGED <<core, cursors, charges, unmetered>>
      BY RecordEffects
<1>2. /\ panels[p].epoch \in Epochs => panels[p].epoch <= core.epoch
      /\ panels[p].transition => panels[p].epoch \in Epochs
      BY DEF OrderInv, Verified
<1> HIDE DEF s
<1>3. ASSUME NEW x \in Sequences
      PROVE  /\ ~Stored(x)' => polls'[x] = NoPoll
             /\ polls'[x].state = "done" => polls'[x].seen = Names
             /\ polls'[x].epoch \in Epochs => polls'[x].epoch <= core'.epoch
             /\ polls'[x].transition => polls'[x].epoch \in Epochs
  <2>1. CASE x = s
        BY <1>1, <1>2, <2>1 DEF Stored
  <2>2. CASE x # s
        BY <1>1, <2>2 DEF Stored, Tidy
  <2> QED BY <2>1, <2>2
<1>4. \A x \in Sequences : Stored(x) /\ polls[x].mode = "cumulative" =>
        Stored(x)' /\ polls'[x].mode = "cumulative"
  <2> SUFFICES ASSUME NEW x \in Sequences, Stored(x)
               PROVE  Stored(x)' /\ polls'[x].mode = polls[x].mode
      OBVIOUS
  <2>1. x # s
        BY <1>1
  <2> QED BY <1>1, <2>1 DEF Stored
<1>5. \A n \in Names, e \in Epochs :
        /\ cursors'[n][e].seq = 0 => cursors'[n][e].at = 0
        /\ cursors'[n][e].at # 0 => \E x \in Sequences : Stored(x)' /\ polls'[x].mode = "cumulative"
  <2> SUFFICES ASSUME NEW n \in Names, NEW e \in Epochs
      PROVE  /\ cursors[n][e].seq = 0 => cursors[n][e].at = 0
             /\ cursors[n][e].at # 0 => \E x \in Sequences : Stored(x)' /\ polls'[x].mode = "cumulative"
      BY <1>1
  <2> QED BY <1>4 DEF Tidy
<1> QED BY <1>1, <1>3, <1>5 DEF Tidy

\* Charging a reading keeps the rows tidy
LEMMA ChargingTidy ==
  ASSUME OrderInv, Tidy, NEW s \in Sequences, Charging(s)
  PROVE  Tidy'
<1> PICK broken : ProcessPoll(s, broken)
    BY DEF Charging
<1> USE DEF Charging
<1>1. /\ Untouched /\ \A x \in Sequences \ {s} : polls'[x] = polls[x]
      /\ polls'[s].transition = polls[s].transition
      /\ polls'[s].state = "done" => polls'[s].seen = Names
      BY ChargingEffects
<1>2. IsFiniteSet(charges')
  <2>1. charges' = charges \cup FreshIn(s, broken)
        BY ChargingEffects
  <2>2. IsFiniteSet({m \in DoneIn(s, broken) : Delta(PollOf(s), s, m) > 0})
    <3>1. {m \in DoneIn(s, broken) : Delta(PollOf(s), s, m) > 0} \subseteq Names
          BY DEF DoneIn, Todo
    <3>2. IsFiniteSet(Names)
          BY LedgerAssumption
    <3> QED BY <3>1, <3>2, FS_Subset
  <2>3. IsFiniteSet(FreshIn(s, broken))
    <3> DEFINE D == {m \in DoneIn(s, broken) : Delta(PollOf(s), s, m) > 0}
               h == [n \in D |-> Interval(PollOf(s), s, n, PollOf(s).bound[n].bucket)]
    <3>1. h \in Surjection(D, FreshIn(s, broken))
          BY DEF FreshIn, Surjection
    <3> QED BY <2>2, <3>1, FS_Surjection
  <2> QED BY <2>1, <2>3, FS_Union DEF Tidy
<1>3. ASSUME NEW x \in Sequences
      PROVE  /\ ~Stored(x)' => polls'[x] = NoPoll
             /\ polls'[x].state = "done" => polls'[x].seen = Names
             /\ polls'[x].epoch \in Epochs => polls'[x].epoch <= core'.epoch
             /\ polls'[x].transition => polls'[x].epoch \in Epochs
  <2>1. polls'[x].epoch = polls[x].epoch
        BY <1>1 DEF Untouched
  <2>2. CASE x = s
    <3>1. Stored(x)'
          BY <1>1, <2>2 DEF Untouched
    <3> QED BY <1>1, <2>1, <2>2, <3>1 DEF Tidy
  <2>3. CASE x # s
        BY <1>1, <2>3 DEF Stored, Tidy
  <2> QED BY <2>2, <2>3
<1>4. \A x \in Sequences : Stored(x) /\ polls[x].mode = "cumulative" =>
        Stored(x)' /\ polls'[x].mode = "cumulative"
      BY <1>1 DEF Untouched
<1>5. ASSUME NEW n \in Names, NEW e \in Epochs
      PROVE  /\ cursors'[n][e].seq = 0 => cursors'[n][e].at = 0
             /\ cursors'[n][e].at # 0 => \E x \in Sequences : Stored(x)' /\ polls'[x].mode = "cumulative"
  <2>1. CASE cursors'[n][e] = cursors[n][e]
        BY <1>4, <2>1 DEF Tidy
  <2>2. CASE cursors'[n][e] # cursors[n][e]
    <3>1. n \in DoneIn(s, broken) /\ polls[s].mode = "cumulative"
          BY <2>2, ChargingEffects
    <3>2. cursors'[n] = [cursors[n] EXCEPT ![polls[s].epoch] = CursorAfter(PollOf(s), s, n)]
          BY <3>1, ChargingEffects
    <3>3. cursors[n] \in [Epochs -> CursorRow]
          BY DEF OrderInv, Typed, JournalTyped
    <3>4. e = polls[s].epoch /\ cursors'[n][e] = CursorAfter(PollOf(s), s, n)
          BY <2>2, <3>2, <3>3
    <3>5. PollOf(s).epoch = polls[s].epoch /\ s # 0
          BY PollOfTyped DEF OrderInv, Sequences
    <3>6. cursors'[n][e] # cursors[n][e] => cursors'[n][e].seq = s
          BY <3>4, <3>5 DEF CursorAfter
    <3> QED BY <1>4, <2>2, <3>1, <3>5, <3>6
  <2> QED BY <2>1, <2>2
<1>6. UNCHANGED <<core, unmetered>>
      OBVIOUS
<1> QED BY <1>2, <1>3, <1>5, <1>6 DEF Tidy

\* What the world does to the machine
LEMMA WorldEffects ==
  ASSUME OrderInv
  PROVE  /\ \A n \in Names : Traffic(n) =>
              /\ core'.epoch = core.epoch /\ core' = [core EXCEPT !.count[n] = @ + 1]
              /\ total' = [total EXCEPT ![core.epoch][n] = @ + 1]
              /\ Keeps /\ UNCHANGED <<gaps, panels, wire, sequence, unmetered>>
         /\ RestartCore =>
              /\ core' = [epoch |-> core.epoch + 1, count |-> Zero] /\ core'.epoch \in Epochs
              /\ core'.epoch > core.epoch
              /\ unmetered' = [n \in Names |-> unmetered[n] +
                                 IF meter.mode = "cumulative" THEN 0 ELSE core.count[n]]
              /\ Keeps /\ UNCHANGED <<gaps, panels, wire, sequence, total>>
         /\ \A r \in wire : ExecuteReset(r) =>
              /\ core'.epoch = core.epoch /\ core'.count = Zero
              /\ Keeps /\ UNCHANGED <<gaps, sequence, unmetered, total>>
<1> USE DEF Keeps, journal, outside
<1>1. core \in CoreRow /\ core.epoch \in Epochs /\ core.epoch \in Nat
      BY NumbersTyped DEF OrderInv, Typed, WorldTyped
<1>2. ASSUME NEW n \in Names, Traffic(n) PROVE core'.epoch = core.epoch
      BY <1>1, <1>2 DEF Traffic, CoreRow
<1>3. ASSUME RestartCore PROVE core'.epoch \in Epochs /\ core'.epoch > core.epoch
      BY <1>1, <1>3, Constants DEF RestartCore, Epochs
<1>4. ASSUME NEW r \in wire, ExecuteReset(r) PROVE core'.epoch = core.epoch /\ core'.count = Zero
      BY <1>1, <1>4 DEF ExecuteReset, CoreRow
<1> QED BY <1>2, <1>3, <1>4 DEF Traffic, RestartCore, ExecuteReset

\* Every step keeps the rows tidy
LEMMA TidyStays ==
  ASSUME OrderInv, OrderInv', Tidy, [Next]_vars
  PROVE  Tidy'
<1>1. /\ Typed' /\ core.epoch \in Epochs /\ core.epoch \in Nat
      /\ \A n \in Names : core.count[n] \in Nat
      BY NumbersTyped DEF OrderInv
<1>2. unmetered \in Counters
      BY DEF Tidy
<1>3. ASSUME NEW p \in Panels, PanelStep(p) PROVE Tidy'
      BY <1>1, <1>2, <1>3, PanelEffects, KeepsTidy DEF PanelEffect, Keeps
<1>4. ASSUME NEW r \in wire, ExecuteReset(r) PROVE Tidy'
      BY <1>1, <1>2, <1>4, WorldEffects, KeepsTidy
<1>5. ASSUME NEW n \in Names, Traffic(n) PROVE Tidy'
  <2>1. Keeps /\ core'.epoch = core.epoch /\ unmetered' = unmetered
        BY <1>5, WorldEffects
  <2> QED BY <1>1, <1>2, <2>1, KeepsTidy
<1>6. ASSUME RestartCore PROVE Tidy'
  <2>1. unmetered' \in Counters
        BY <1>1, <1>2, <1>6, WorldEffects DEF Counters
  <2>2. core'.epoch \in Epochs /\ core'.epoch \in Nat /\ core'.epoch >= core.epoch /\ Keeps
        BY <1>1, <1>6, WorldEffects DEF Epochs
  <2> QED BY <1>1, <2>1, <2>2, KeepsTidy
<1>7. ASSUME Elsewhere PROVE Tidy'
      BY <1>1, <1>2, <1>7, KeepsTidy DEF Elsewhere, journal, Keeps
<1> QED BY <1>3, <1>4, <1>5, <1>6, <1>7, RecordTidy, ChargingTidy, StepsAre
-----------------------------------------------------------------------------
(* What is announced                                                         *)

\* The announcements that stand before and after storing a reading
LEMMA RecordedGaps ==
  ASSUME OrderInv, Announced, NEW p \in Panels, RecordTrafficPoll(p)
  PROVE  /\ \A s : Intent(s) \in gaps' <=> Intent(s) \in gaps /\ s # panels[p].seq
         /\ \A g \in gaps \ gaps' : g = Intent(panels[p].seq) /\ panels[p].pc = "store"
<1>1. gaps' = (gaps \ {Intent(panels[p].seq)}) \cup BindingGaps(panels[p].seq)
      BY RecordEffects
<1>2. \A g \in BindingGaps(panels[p].seq) : \A s : g # Intent(s)
      BY DEF BindingGaps, Intent
<1>3. \A s, t : Intent(s) = Intent(t) <=> s = t
      BY DEF Intent
<1>4. panels[p].pc \in {"store", "store_cumulative"}
      BY RecordEffects
<1>5. panels[p].pc = "store_cumulative" => Intent(panels[p].seq) \notin gaps
      BY DEF Announced, Cumulating
<1> QED BY <1>1, <1>2, <1>3, <1>4, <1>5

\* Every step keeps resets announced: those of a collection
LEMMA PanelAnnounces ==
  ASSUME OrderInv, Announced, NEW p \in Panels, PanelStep(p)
  PROVE  Announced'
<1> USE DEF Resetting, Cumulating
<1>1. PanelEffect(p)
      BY PanelEffects
<1>2. sequence \in Nat /\ \A q \in Panels : panels[q].seq \in Nat
      BY NumbersTyped DEF OrderInv
<1>3. \A s : Intent(s) \in gaps' => s \in 1..sequence'
      BY <1>1, <1>2 DEF PanelEffect, Announced
<1>4. ASSUME NEW q \in Panels
      PROVE  /\ panels'[q].pc \in Resetting => Intent(panels'[q].seq) \in gaps'
             /\ panels'[q].pc \in Cumulating => Intent(panels'[q].seq) \notin gaps'
  <2>1. CASE q # p
    <3>1. panels'[q] = panels[q]
          BY <1>1, <2>1 DEF PanelEffect, Same
    <3>2. panels[q].pc \in Cumulating => panels[q].seq \in 1..sequence
          BY DEF OrderInv, Reserved, Unstored
    <3>3. panels[q].pc \in Cumulating => panels[q].seq # sequence + 1
          BY <1>2, <3>2
    <3> QED BY <1>1, <3>1, <3>3 DEF PanelEffect, Announced
  <2>2. CASE q = p
    <3>1. panels'[p].pc \in Resetting => Intent(panels'[p].seq) \in gaps'
          BY <1>1 DEF PanelEffect, Announced
    <3>2. ASSUME panels'[p].pc \in Cumulating PROVE Intent(panels'[p].seq) \notin gaps'
      <4>1. panels'[p].pc # "send"
            BY <3>2
      <4>2. CASE panels'[p].seq = sequence + 1
        <5>1. Intent(sequence + 1) \notin gaps
              BY <1>2 DEF Announced
        <5> QED BY <1>1, <4>1, <4>2, <5>1 DEF PanelEffect
      <4>3. CASE panels'[p].seq = panels[p].seq /\ panels[p].pc \in Cumulating
        <5>1. panels[p].seq \in 1..sequence
              BY <4>3 DEF OrderInv, Reserved, Unstored
        <5>2. panels[p].seq # sequence + 1
              BY <1>2, <5>1
        <5> QED BY <1>1, <4>3, <5>2 DEF PanelEffect, Announced
      <4> QED BY <1>1, <3>2, <4>2, <4>3 DEF PanelEffect
    <3> QED BY <2>2, <3>1, <3>2
  <2> QED BY <2>1, <2>2
<1>5. ASSUME NEW r \in wire'
      PROVE  /\ r = <<r[1], r[2]>> /\ r[2] \in 1..sequence' /\ Intent(r[2]) \in gaps'
             /\ \A q \in Panels : panels'[q].pc \in Unstored /\ panels'[q].seq = r[2] =>
                  q = r[1] /\ panels'[q].pc = "await"
  <2>1. CASE r \in wire
    <3>1. /\ r = <<r[1], r[2]>> /\ r[2] \in 1..sequence /\ Intent(r[2]) \in gaps
          /\ \A q \in Panels : panels[q].pc \in Unstored /\ panels[q].seq = r[2] =>
                  q = r[1] /\ panels[q].pc = "await"
          BY <2>1 DEF Announced
    <3>2. r[2] \in 1..sequence' /\ Intent(r[2]) \in gaps' /\ r[2] # sequence + 1
          BY <1>1, <1>2, <3>1 DEF PanelEffect
    <3>3. ASSUME panels'[p].pc \in Unstored, panels'[p].seq = r[2]
          PROVE  p = r[1] /\ panels'[p].pc = "await"
      <4>1. panels'[p].seq = panels[p].seq /\ panels[p].pc \in Unstored
            BY <1>1, <3>2, <3>3 DEF PanelEffect, Unstored
      <4>2. p = r[1] /\ panels[p].pc = "await"
            BY <3>1, <3>3, <4>1
      <4> QED BY <1>1, <3>3, <4>2 DEF PanelEffect, Unstored
    <3>4. ASSUME NEW q \in Panels \ {p}, panels'[q].pc \in Unstored, panels'[q].seq = r[2]
          PROVE  q = r[1] /\ panels'[q].pc = "await"
          BY <1>1, <3>1, <3>4 DEF PanelEffect, Same
    <3> QED BY <3>1, <3>2, <3>3, <3>4
  <2>2. CASE r \notin wire
    <3>1. /\ r = <<p, panels[p].seq>> /\ panels[p].pc = "send" /\ panels'[p].pc = "await"
          /\ panels'[p].seq = panels[p].seq
          BY <1>1, <2>2 DEF PanelEffect
    <3>2. panels[p].seq \in 1..sequence /\ Intent(panels[p].seq) \in gaps
          BY <3>1 DEF OrderInv, Reserved, Unstored, Announced
    <3>3. r[1] = p /\ r[2] = panels[p].seq
          BY <3>1
    <3>4. ASSUME NEW q \in Panels \ {p} PROVE ~(panels'[q].pc \in Unstored /\ panels'[q].seq = r[2])
      <4>1. panels'[q] = panels[q]
            BY <1>1 DEF PanelEffect, Same
      <4> QED BY <3>1, <3>3, <4>1 DEF OrderInv, Reserved, Unstored
    <3>5. r[2] \in 1..sequence' /\ Intent(r[2]) \in gaps'
          BY <1>1, <1>2, <3>2, <3>3 DEF PanelEffect
    <3> QED BY <3>1, <3>3, <3>4, <3>5
  <2> QED BY <2>1, <2>2
<1> QED BY <1>3, <1>4, <1>5 DEF Announced

\* That of the proxy that answers
LEMMA AnswerAnnounced ==
  ASSUME OrderInv, Sent, Announced, NEW r \in wire, ExecuteReset(r)
  PROVE  Announced'
<1> USE DEF Resetting, Cumulating
<1> DEFINE p == r[1]
<1>1. /\ wire' = wire \ {r} /\ gaps' = gaps /\ sequence' = sequence
      /\ p \in Panels /\ Typed /\ panels[p] \in PanelRow
      BY NumbersTyped DEF ExecuteReset, journal, Sent, OrderInv
<1>2. CASE panels' = panels
      BY <1>1, <1>2 DEF Announced
<1>3. CASE panels' # panels
  <2>1. /\ panels[p].pc = "await" /\ panels[p].seq = r[2] /\ Same(p)
        /\ panels'[p] = [panels[p] EXCEPT !.pc = "answered", !.count = core.count,
                          !.top = total[core.epoch], !.born = core.epoch]
        BY <1>1, <1>3, StepIs DEF ExecuteReset
  <2>2. panels'[p].pc = "answered" /\ panels'[p].seq = r[2]
        BY <1>1, <2>1 DEF PanelRow
  <2>3. \A x \in wire' : x[2] # r[2]
    <3> SUFFICES ASSUME NEW x \in wire', x[2] = r[2] PROVE FALSE
        OBVIOUS
    <3>1. x \in wire /\ x # r /\ x = <<x[1], x[2]>> /\ r = <<r[1], r[2]>>
          BY <1>1 DEF Announced
    <3>2. x[1] = p
          BY <1>1, <2>1, <3>1 DEF Announced, Unstored
    <3> QED BY <3>1, <3>2
  <2>4. ASSUME NEW q \in Panels
        PROVE  /\ panels'[q].pc \in Resetting => Intent(panels'[q].seq) \in gaps'
               /\ panels'[q].pc \in Cumulating => Intent(panels'[q].seq) \notin gaps'
    <3>1. CASE q = p
          BY <1>1, <2>1, <2>2, <3>1 DEF Announced
    <3>2. CASE q # p
          BY <1>1, <2>1, <3>2 DEF Announced, Same
    <3> QED BY <3>1, <3>2
  <2>5. ASSUME NEW x \in wire', NEW q \in Panels, panels'[q].pc \in Unstored, panels'[q].seq = x[2]
        PROVE  q = x[1] /\ panels'[q].pc = "await"
    <3>1. q # p
          BY <2>2, <2>3, <2>5
    <3> QED BY <1>1, <2>1, <2>5, <3>1 DEF Announced, Same
  <2>6. \A x \in wire' : x = <<x[1], x[2]>> /\ x[2] \in 1..sequence' /\ Intent(x[2]) \in gaps'
        BY <1>1 DEF Announced
  <2> QED BY <1>1, <2>4, <2>5, <2>6 DEF Announced
<1> QED BY <1>2, <1>3

\* That of a panel that stores a reading
LEMMA RecordAnnounces ==
  ASSUME OrderInv, Announced, NEW p \in Panels, RecordTrafficPoll(p)
  PROVE  Announced'
<1> USE DEF Resetting, Cumulating
<1> DEFINE s == panels[p].seq
<1>1. /\ Same(p) /\ panels'[p].pc = "process" /\ wire' = wire /\ sequence' = sequence
      /\ panels[p].pc \in {"store", "store_cumulative"}
      BY RecordEffects
<1>2. \A t : Intent(t) \in gaps' <=> Intent(t) \in gaps /\ t # s
      BY RecordedGaps
<1> HIDE DEF s
<1>3. ASSUME NEW q \in Panels
      PROVE  /\ panels'[q].pc \in Resetting => Intent(panels'[q].seq) \in gaps'
             /\ panels'[q].pc \in Cumulating => Intent(panels'[q].seq) \notin gaps'
  <2>1. CASE q = p
        BY <1>1, <2>1
  <2>2. CASE q # p
    <3>1. panels'[q] = panels[q]
          BY <1>1, <2>2 DEF Same
    <3>2. panels[q].pc \in Resetting => panels[q].seq # s
          BY <1>1, <2>2 DEF OrderInv, Reserved, Unstored, s
    <3> QED BY <1>2, <3>1, <3>2 DEF Announced
  <2> QED BY <2>1, <2>2
<1>4. ASSUME NEW r \in wire'
      PROVE  /\ r = <<r[1], r[2]>> /\ r[2] \in 1..sequence' /\ Intent(r[2]) \in gaps'
             /\ \A q \in Panels : panels'[q].pc \in Unstored /\ panels'[q].seq = r[2] =>
                  q = r[1] /\ panels'[q].pc = "await"
  <2>1. /\ r = <<r[1], r[2]>> /\ r[2] \in 1..sequence /\ Intent(r[2]) \in gaps
        /\ \A q \in Panels : panels[q].pc \in Unstored /\ panels[q].seq = r[2] =>
                  q = r[1] /\ panels[q].pc = "await"
        BY <1>1, <1>4 DEF Announced
  <2>2. r[2] # s
        BY <1>1, <2>1 DEF s, Unstored
  <2>3. \A q \in Panels : q = p \/ panels'[q] = panels[q]
        BY <1>1 DEF Same
  <2>4. panels'[p].pc \notin Unstored
        BY <1>1 DEF Unstored
  <2> QED BY <1>1, <1>2, <2>1, <2>2, <2>3, <2>4
<1>5. \A t : Intent(t) \in gaps' => t \in 1..sequence'
      BY <1>1, <1>2 DEF Announced
<1> QED BY <1>3, <1>4, <1>5 DEF Announced

\* That of a panel, or a retry, that charges one, and of what happens elsewhere
LEMMA OthersAnnounce ==
  ASSUME OrderInv, Announced, Retires, wire' = wire, sequence' = sequence,
         gaps \subseteq gaps', \A s : Intent(s) \in gaps' => Intent(s) \in gaps
  PROVE  Announced'
<1> USE DEF Resetting, Cumulating
<1>1. \A q \in Panels : panels'[q].pc \in Unstored => panels'[q] = panels[q]
      BY DEF Retires, Unstored
<1>2. Resetting \subseteq Unstored /\ Cumulating \subseteq Unstored
      BY DEF Unstored
<1> QED BY <1>1, <1>2 DEF Announced

\* Every step keeps what is announced
LEMMA AnnouncedStays ==
  ASSUME OrderInv, Sent, Announced, [Next]_vars
  PROVE  Announced'
<1>1. ASSUME NEW s \in Sequences, Charging(s) PROVE Announced'
  <2>1. PICK broken : ProcessPoll(s, broken)
        BY <1>1 DEF Charging
  <2>2. /\ gaps \subseteq gaps' /\ \A x : Intent(x) \in gaps' => Intent(x) \in gaps
        /\ sequence' = sequence
        BY <1>1, <2>1, ChargingEffects DEF Charging
  <2> QED BY <1>1, <2>2, OthersAnnounce DEF Charging
<1>2. ASSUME Elsewhere PROVE Announced'
      BY <1>2, OthersAnnounce DEF Elsewhere, journal
<1>3. ASSUME RestartCore \/ \E n \in Names : Traffic(n) PROVE Announced'
      BY <1>3, WorldEffects, OthersAnnounce DEF Retires
<1> QED BY <1>1, <1>2, <1>3, PanelAnnounces, AnswerAnnounced, RecordAnnounces, StepsAre
-----------------------------------------------------------------------------
(* The process the meter knows                                               *)

\* A cumulative reading comes with the cumulative mode
LEMMA ModeOfReadings ==
  ASSUME OrderInv
  PROVE  /\ \A s \in Sequences : Stored(s) /\ polls[s].mode = "cumulative" =>
              meter.mode = "cumulative"
         /\ meter.mode \in {"reset", "cumulative"} /\ meter.last \in Nat
         /\ \A s \in Sequences : polls[s].mode \in {"reset", "cumulative"}
<1>1. ASSUME NEW s \in Sequences, Stored(s), polls[s].mode = "cumulative"
      PROVE  meter.mode = "cumulative"
  <2>1. PollReading(s) \in Readings /\ PollReading(s).cumulative
        BY <1>1, ReadingIs DEF PollReading
  <2> QED BY <2>1 DEF OrderInv, Switched
<1> QED BY <1>1 DEF OrderInv, Typed, JournalTyped, MeterRow, PollRow

\* A step that leaves the readings and the meter alone
LEMMA KeepsMetered ==
  ASSUME Metered, Keeps,
         \A p \in Panels : panels'[p].pc \in Cumulating /\ panels'[p].transition =>
           panels[p].pc \in Cumulating /\ panels[p].transition
  PROVE  Metered'
BY DEF Metered, Keeps, Stored

\* Storing a reading leaves the meter on its last reading
LEMMA RecordMetered ==
  ASSUME OrderInv, Metered, NEW p \in Panels, RecordTrafficPoll(p)
  PROVE  Metered'
<1> DEFINE s == panels[p].seq
<1>1. /\ s \in Sequences /\ ~Stored(s) /\ polls'[s].state = "pending"
      /\ polls'[s].epoch = panels[p].epoch /\ polls'[s].transition = panels[p].transition
      /\ \A x \in Sequences \ {s} : polls'[x] = polls[x]
      /\ Same(p) /\ panels'[p].pc = "process"
      /\ meter' = IF panels[p].transition /\ s > meter.last
                    THEN [mode |-> "cumulative", epoch |-> panels[p].epoch, last |-> s]
                    ELSE meter
      BY RecordEffects
<1> HIDE DEF s
<1>2. \A q \in Panels : panels'[q].pc \in Cumulating => ~panels'[q].transition
      BY <1>1 DEF Cumulating, Same, Metered
<1>3. \A x \in Sequences : Stored(x) => x # s /\ polls'[x] = polls[x]
      BY <1>1
<1>4. CASE meter' = meter
  <2>1. meter.last # 0 => meter.last \in Sequences /\ Stored(meter.last)
        BY DEF OrderInv, Reserved
  <2>2. meter.last # 0 => meter.epoch = polls'[meter.last].epoch
        BY <1>3, <2>1 DEF Metered
  <2>3. meter.mode = "cumulative" =>
          \E r \in Sequences : Stored(r)' /\ polls'[r].transition /\ r <= meter.last
        BY <1>3 DEF Metered, Stored
  <2> QED BY <1>2, <1>4, <2>2, <2>3 DEF Metered
<1>5. CASE meter' # meter
  <2>1. meter' = [mode |-> "cumulative", epoch |-> panels[p].epoch, last |-> s] /\ panels[p].transition
        BY <1>1, <1>5
  <2>2. polls'[s].state # "none" /\ polls'[s].transition /\ s <= meter'.last
        BY <1>1, <2>1 DEF Sequences
  <2>3. meter'.epoch = polls'[meter'.last].epoch
        BY <1>1, <2>1
  <2> QED BY <1>1, <1>2, <2>2, <2>3 DEF Metered, Stored
<1> QED BY <1>4, <1>5

\* Charging a reading leaves the meter on its last reading
LEMMA ChargingMetered ==
  ASSUME OrderInv, Metered, NEW s \in Sequences, Charging(s)
  PROVE  Metered'
<1> PICK broken : ProcessPoll(s, broken)
    BY DEF Charging
<1>1. /\ Untouched /\ \A x \in Sequences \ {s} : polls'[x] = polls[x]
      /\ polls'[s].transition = polls[s].transition
      /\ meter' = IF s < meter.last THEN meter
                  ELSE [mode |-> IF meter.mode = "cumulative" \/ polls[s].transition
                                   THEN "cumulative" ELSE polls[s].mode,
                        epoch |-> polls[s].epoch, last |-> s]
      BY ChargingEffects DEF Charging
<1>2. Stored(s) /\ Retires /\ s \in Nat /\ meter.last \in Nat
      BY NumbersTyped DEF Charging, OrderInv
<1>3. \A q \in Panels : panels'[q].pc \in Cumulating => ~panels'[q].transition
      BY <1>2 DEF Cumulating, Retires, Metered
<1>4. \A x \in Sequences : /\ polls'[x].transition = polls[x].transition
                           /\ polls'[x].epoch = polls[x].epoch /\ (Stored(x)' <=> Stored(x))
      BY <1>1 DEF Untouched
<1>5. CASE s < meter.last
  <2>1. meter.last # 0 => meter.last \in Sequences
        BY DEF OrderInv, Reserved
  <2> QED BY <1>1, <1>3, <1>4, <1>5, <2>1 DEF Metered
<1>6. CASE ~(s < meter.last)
  <2>1. /\ meter'.mode = (IF meter.mode = "cumulative" \/ polls[s].transition
                            THEN "cumulative" ELSE polls[s].mode)
        /\ meter'.epoch = polls[s].epoch /\ meter'.last = s
        BY <1>1, <1>6
  <2>2. meter'.epoch = polls'[meter'.last].epoch
        BY <1>4, <2>1
  <2>3. ASSUME meter'.mode = "cumulative"
        PROVE  \E r \in Sequences : Stored(r)' /\ polls'[r].transition /\ r <= meter'.last
    <3>1. meter.mode = "cumulative" \/ polls[s].transition
          BY <1>2, <2>1, <2>3, ModeOfReadings
    <3>2. CASE polls[s].transition
          BY <1>2, <1>4, <2>1, <3>2
    <3>3. CASE meter.mode = "cumulative"
      <4>1. PICK r \in Sequences : Stored(r) /\ polls[r].transition /\ r <= meter.last
            BY <3>3 DEF Metered
      <4>2. r <= s
            BY <1>2, <1>6, <4>1 DEF Sequences
      <4> QED BY <1>4, <2>1, <4>1, <4>2
    <3> QED BY <3>1, <3>2, <3>3
  <2> QED BY <1>3, <2>2, <2>3 DEF Metered
<1> QED BY <1>5, <1>6

\* Every step leaves the meter on its last reading
LEMMA MeteredStays ==
  ASSUME OrderInv, Sent, Metered, [Next]_vars
  PROVE  Metered'
<1>1. ASSUME NEW p \in Panels, PanelStep(p) PROVE Metered'
  <2>1. PanelEffect(p)
        BY <1>1, PanelEffects
  <2>2. \A q \in Panels : panels'[q].pc \in Cumulating /\ panels'[q].transition =>
           panels[q].pc \in Cumulating /\ panels[q].transition
        BY <2>1 DEF PanelEffect, Same
  <2> QED BY <2>1, <2>2, KeepsMetered DEF PanelEffect, Keeps
<1>2. ASSUME NEW r \in wire, ExecuteReset(r) PROVE Metered'
  <2>1. Keeps
        BY <1>2, WorldEffects
  <2>2. \A q \in Panels : panels'[q].pc \in Cumulating => panels'[q] = panels[q]
    <3>1. CASE panels' = panels
          BY <3>1
    <3>2. CASE panels' # panels
      <4>1. r[1] \in Panels /\ panels[r[1]] \in PanelRow /\ Typed
            BY NumbersTyped DEF Sent, OrderInv
      <4>2. /\ Same(r[1])
            /\ panels'[r[1]] = [panels[r[1]] EXCEPT !.pc = "answered", !.count = core.count,
                          !.top = total[core.epoch], !.born = core.epoch]
            BY <1>2, <3>2, <4>1, StepIs DEF ExecuteReset
      <4>3. panels'[r[1]].pc = "answered"
            BY <4>1, <4>2 DEF PanelRow
      <4> QED BY <4>2, <4>3 DEF Same, Cumulating
    <3> QED BY <3>1, <3>2
  <2> QED BY <2>1, <2>2, KeepsMetered
<1>3. ASSUME RestartCore \/ \E n \in Names : Traffic(n) PROVE Metered'
      BY <1>3, WorldEffects, KeepsMetered
<1>4. ASSUME Elsewhere PROVE Metered'
      BY <1>4, KeepsMetered DEF Elsewhere, journal, Keeps, Retires, Cumulating
<1> QED BY <1>1, <1>2, <1>3, <1>4, RecordMetered, ChargingMetered, StepsAre
-----------------------------------------------------------------------------
(* A loss stays on record                                                    *)

\* With no loss on record the machine's process is known, by a reading that did not
\* straggle
LEMMA ProcessIsKnown ==
  ASSUME OrderInv, Tidy, Metered, ~Straggled, meter.mode = "cumulative"
  PROVE  /\ meter.last \in Sequences /\ Stored(meter.last) /\ meter.epoch \in Epochs
         /\ meter.epoch <= core.epoch /\ meter.epoch = polls[meter.last].epoch
         /\ \E r \in Sequences : Stored(r) /\ polls[r].transition /\ r <= meter.last
<1>1. PICK r \in Sequences : Stored(r) /\ polls[r].transition /\ r <= meter.last
      BY DEF Metered
<1>2. meter.last \in Sequences /\ Stored(meter.last)
      BY <1>1 DEF OrderInv, Reserved, Sequences
<1>3. meter.epoch = polls[meter.last].epoch
      BY <1>2 DEF Metered, Sequences
<1>4. meter.epoch \in Epochs
  <2>1. CASE r = meter.last
        BY <1>1, <1>3, <2>1 DEF Tidy
  <2>2. CASE r # meter.last
    <3>1. r < meter.last
          BY <1>1, <1>2, <2>2 DEF Sequences
    <3>2. polls[meter.last].mode = "cumulative"
          BY <1>1, <1>2, <3>1, ModeOfReadings DEF Straggled, Stored
    <3>3. PollReading(meter.last) \in Readings /\ polls[meter.last].epoch = polls[meter.last].born
          BY <1>2, <3>2, ReadingIs DEF OrderInv, Verified
    <3> QED BY <1>3, <3>3 DEF OrderInv, Measured, PollReading
  <2> QED BY <2>1, <2>2
<1> QED BY <1>1, <1>2, <1>3, <1>4 DEF Tidy

\* Who straggled once always did
LEMMA StragglingStays ==
  ASSUME OrderInv, [Next]_vars, Straggled
  PROVE  Straggled'
<1>1. PICK r, s \in Sequences :
        r < s /\ Stored(r) /\ Stored(s) /\ polls[r].transition /\ polls[s].mode = "reset"
      BY DEF Straggled, Stored
<1>2. ASSUME \A x \in {r, s} : /\ Stored(x)' /\ polls'[x].transition = polls[x].transition
                               /\ polls'[x].mode = polls[x].mode
      PROVE  Straggled'
      BY <1>1, <1>2 DEF Straggled, Stored
<1>3. ASSUME polls' = polls PROVE Straggled'
      BY <1>3 DEF Straggled
<1>4. ASSUME NEW p \in Panels, RecordTrafficPoll(p) PROVE Straggled'
  <2>1. \A x \in Sequences : Stored(x) => polls'[x] = polls[x]
        BY <1>4, RecordEffects
  <2> QED BY <1>1, <1>2, <2>1 DEF Stored
<1>5. ASSUME NEW x \in Sequences, Charging(x) PROVE Straggled'
  <2> PICK broken : ProcessPoll(x, broken)
      BY <1>5 DEF Charging
  <2>1. /\ Untouched /\ \A y \in Sequences \ {x} : polls'[y] = polls[y]
        /\ polls'[x].transition = polls[x].transition
        BY <1>5, ChargingEffects DEF Charging
  <2> QED BY <1>1, <1>2, <2>1 DEF Untouched
<1>6. ASSUME NEW p \in Panels, PanelStep(p) PROVE Straggled'
      BY <1>3, <1>6, PanelEffects DEF PanelEffect
<1> QED BY <1>3, <1>4, <1>5, <1>6, WorldEffects, StepsAre DEF Elsewhere, journal, Keeps

\* An announcement that may still be met could be met before
LEMMA AwaitedBefore ==
  ASSUME OrderInv, Sent, Announced, [Next]_vars, NEW s, Intent(s) \in gaps, Awaited(s)'
  PROVE  Awaited(s)
<1>1. s \in 1..sequence /\ sequence \in Nat
      BY NumbersTyped DEF Announced, OrderInv
<1>2. PICK q \in Panels : /\ panels'[q].seq = s
                          /\ \/ panels'[q].pc \in {"send", "await"} /\ panels'[q].live
                             \/ panels'[q].pc \in {"answered", "store"}
      BY DEF Awaited
<1>3. CASE panels'[q] = panels[q]
      BY <1>2, <1>3 DEF Awaited
<1>4. ASSUME NEW p \in Panels, PanelStep(p) PROVE Awaited(s)
  <2>1. PanelEffect(p)
        BY <1>4, PanelEffects
  <2>2. CASE q # p
        BY <1>3, <2>1, <2>2 DEF PanelEffect, Same
  <2>3. CASE q = p
    <3>1. panels'[p].seq # sequence + 1
          BY <1>1, <1>2, <2>3
    <3>2. panels'[p].seq = panels[p].seq /\ (panels'[p].live => panels[p].live)
          BY <1>2, <2>1, <2>3, <3>1 DEF PanelEffect, Resetting
    <3>3. /\ panels'[p].pc \in {"send", "await"} => panels[p].pc \in {"send", "await"}
          /\ panels'[p].pc \in {"answered", "store"} => panels[p].pc \in {"answered", "store"}
          BY <1>2, <2>1, <2>3, <3>1 DEF PanelEffect
    <3> QED BY <1>2, <2>3, <3>2, <3>3 DEF Awaited
  <2> QED BY <2>2, <2>3
<1>5. ASSUME NEW r \in wire, ExecuteReset(r) PROVE Awaited(s)
  <2>1. CASE panels' = panels
        BY <1>3, <2>1
  <2>2. CASE panels' # panels
    <3>1. r[1] \in Panels /\ panels[r[1]] \in PanelRow /\ Typed
          BY NumbersTyped DEF Sent, OrderInv
    <3>2. /\ Same(r[1]) /\ panels[r[1]].pc = "await" /\ panels[r[1]].live
          /\ panels'[r[1]] = [panels[r[1]] EXCEPT !.pc = "answered", !.count = core.count,
                          !.top = total[core.epoch], !.born = core.epoch]
          BY <1>5, <2>2, <3>1, StepIs DEF ExecuteReset
    <3>3. panels'[r[1]].seq = panels[r[1]].seq
          BY <3>1, <3>2 DEF PanelRow
    <3>4. CASE q = r[1]
          BY <1>2, <3>2, <3>3, <3>4 DEF Awaited
    <3>5. CASE q # r[1]
          BY <1>3, <3>2, <3>5 DEF Same
    <3> QED BY <3>4, <3>5
  <2> QED BY <2>1, <2>2
<1>6. ASSUME NEW p \in Panels, RecordTrafficPoll(p) PROVE Awaited(s)
  <2>1. Same(p) /\ panels'[p].pc = "process"
        BY <1>6, RecordEffects
  <2>2. q # p
        BY <1>2, <2>1
  <2> QED BY <1>3, <2>1, <2>2 DEF Same
<1>7. ASSUME Retires PROVE Awaited(s)
      BY <1>2, <1>3, <1>7 DEF Retires
<1>8. ASSUME RestartCore \/ \E n \in Names : Traffic(n) PROVE Awaited(s)
      BY <1>3, <1>8, WorldEffects
<1> QED BY <1>4, <1>5, <1>6, <1>7, <1>8, StepsAre DEF Charging, Elsewhere

\* What is on record stays, but for the announcement of a reset whose answer is stored
LEMMA GapsStay ==
  ASSUME OrderInv, Sent, Announced, [Next]_vars, NEW g \in gaps, g \notin gaps'
  PROVE  \E s \in Sequences : g = Intent(s) /\ Awaited(s)
<1>1. ASSUME NEW p \in Panels, PanelStep(p) PROVE FALSE
      BY <1>1, PanelEffects DEF PanelEffect
<1>2. ASSUME NEW s \in Sequences, Charging(s) PROVE FALSE
      BY <1>2, ChargingEffects DEF Charging
<1>3. ASSUME NEW p \in Panels, RecordTrafficPoll(p)
      PROVE  \E s \in Sequences : g = Intent(s) /\ Awaited(s)
  <2>1. g = Intent(panels[p].seq) /\ panels[p].pc = "store"
        BY <1>3, RecordedGaps
  <2>2. panels[p].seq \in Sequences
        BY <1>3, RecordEffects
  <2>3. Awaited(panels[p].seq)
        BY <2>1 DEF Awaited
  <2> QED BY <2>1, <2>2, <2>3
<1> QED BY <1>1, <1>2, <1>3, WorldEffects, StepsAre DEF Elsewhere, journal

\* Where no loss is on record, none was
LEMMA NoLossBefore ==
  ASSUME OrderInv, Sent, Announced, [Next]_vars, NoLoss'
  PROVE  NoLoss
<1>1. ~Straggled
      BY StragglingStays DEF NoLoss
<1>2. ASSUME NEW g \in gaps PROVE \E s \in Sequences : g = Intent(s) /\ Awaited(s)
  <2>1. CASE g \in gaps'
    <3>1. PICK s \in Sequences : g = Intent(s) /\ Awaited(s)'
          BY <2>1 DEF NoLoss, Intent
    <3> QED BY <1>2, <3>1, AwaitedBefore
  <2>2. CASE g \notin gaps'
        BY <1>2, <2>2, GapsStay
  <2> QED BY <2>1, <2>2
<1> QED BY <1>1, <1>2 DEF NoLoss

\* While no loss is on record the cumulative meter knows one process
LEMMA MeterSteady ==
  ASSUME OrderInv, Sent, Tidy, Announced, Metered, [Next]_vars, NoLoss', meter.mode = "cumulative"
  PROVE  meter'.mode = "cumulative" /\ meter'.epoch = meter.epoch
<1>1. NoLoss /\ ~Straggled /\ ~Straggled'
      BY NoLossBefore DEF NoLoss
<1>2. PICK r \in Sequences : Stored(r) /\ polls[r].transition /\ r <= meter.last
      BY <1>1, ProcessIsKnown
<1>3. meter.last \in Sequences /\ meter.epoch = polls[meter.last].epoch /\ meter.epoch \in Epochs
      BY <1>1, ProcessIsKnown
<1>4. CASE meter' = meter
      BY <1>4
<1>5. ASSUME NEW p \in Panels, RecordTrafficPoll(p)
      PROVE  meter'.mode = "cumulative" /\ meter'.epoch = meter.epoch
  <2> DEFINE s == panels[p].seq
  <2>1. /\ s \in Sequences /\ ~Stored(s) /\ panels[p].pc \in {"store", "store_cumulative"}
        /\ polls'[s].state = "pending"
        /\ polls'[s].mode = (IF panels[p].pc = "store" THEN "reset" ELSE "cumulative")
        /\ \A x \in Sequences \ {s} : polls'[x] = polls[x]
        /\ meter' = IF panels[p].transition /\ s > meter.last
                      THEN [mode |-> "cumulative", epoch |-> panels[p].epoch, last |-> s]
                      ELSE meter
        BY <1>5, RecordEffects
  <2> HIDE DEF s
  <2>2. CASE panels[p].transition /\ s > meter.last
    <3>1. panels[p].pc = "store"
          BY <2>1, <2>2 DEF Metered, Cumulating
    <3>2. r < s /\ polls'[r] = polls[r] /\ polls'[s].mode = "reset"
          BY <1>2, <1>3, <2>1, <2>2, <3>1 DEF Sequences
    <3>3. Straggled'
          BY <1>2, <2>1, <3>2 DEF Straggled, Stored
    <3> QED BY <1>1, <3>3
  <2> QED BY <1>4, <2>1, <2>2
<1>6. ASSUME NEW s \in Sequences, Charging(s)
      PROVE  meter'.mode = "cumulative" /\ meter'.epoch = meter.epoch
  <2> PICK broken : ProcessPoll(s, broken)
      BY <1>6 DEF Charging
  <2>1. /\ meter' = IF s < meter.last THEN meter
                  ELSE [mode |-> IF meter.mode = "cumulative" \/ polls[s].transition
                                   THEN "cumulative" ELSE polls[s].mode,
                        epoch |-> polls[s].epoch, last |-> s]
        /\ \A g \in RestartGap(PollOf(s), s) : g \in gaps' /\ \A x : g # Intent(x)
        BY <1>6, ChargingEffects DEF Charging
  <2>2. RestartGap(PollOf(s), s) = {}
        BY <2>1 DEF NoLoss, Intent
  <2>3. Stored(s) /\ s \in Nat /\ meter.last \in Nat
        BY <1>3, <1>6 DEF Charging, Sequences
  <2>4. CASE s > meter.last
    <3>1. polls[s].mode = "cumulative"
      <4>1. r < s
            BY <1>2, <2>3, <2>4 DEF Sequences
      <4> QED BY <1>1, <1>2, <2>3, <4>1, ModeOfReadings DEF Straggled, Stored
    <3>2. meter.epoch # NoEpoch
          BY <1>3, LedgerAssumption, NumbersTyped DEF OrderInv
    <3>3. PollOf(s).mode = "cumulative" /\ PollOf(s).epoch = polls[s].epoch
          BY <3>1, PollOfTyped DEF OrderInv
    <3>4. meter.epoch = polls[s].epoch
          BY <2>2, <2>4, <3>2, <3>3 DEF RestartGap
    <3> QED BY <2>1, <2>3, <2>4, <3>4
  <2>5. CASE s = meter.last
        BY <1>3, <2>1, <2>3, <2>5
  <2>6. CASE s < meter.last
        BY <1>4, <2>1, <2>6
  <2> QED BY <2>3, <2>4, <2>5, <2>6
<1>7. ASSUME NEW p \in Panels, PanelStep(p) PROVE meter' = meter
      BY <1>7, PanelEffects DEF PanelEffect
<1> QED BY <1>4, <1>5, <1>6, <1>7, WorldEffects, StepsAre DEF Elsewhere, journal, Keeps

\* Where the last reading came from the running process, it did before
LEMMA KnownBefore ==
  ASSUME OrderInv, Sent, Tidy, Announced, Metered, [Next]_vars, NoLoss', Known'
  PROVE  Known
<1> SUFFICES ASSUME meter.mode = "cumulative" PROVE meter.epoch = core.epoch
    BY DEF Known
<1>1. meter.epoch = core'.epoch
      BY MeterSteady DEF Known
<1>2. meter.epoch <= core.epoch /\ meter.epoch \in Nat /\ core.epoch \in Nat
  <2>1. NoLoss
        BY NoLossBefore
  <2> QED BY <2>1, ProcessIsKnown, NumbersTyped DEF NoLoss, OrderInv
<1>3. core'.epoch = core.epoch \/ core'.epoch > core.epoch
  <2>1. ASSUME NEW p \in Panels, PanelStep(p) PROVE core'.epoch = core.epoch
        BY <2>1, PanelEffects DEF PanelEffect
  <2>2. ASSUME NEW p \in Panels, RecordTrafficPoll(p) PROVE core'.epoch = core.epoch
        BY <2>2, RecordEffects
  <2>3. ASSUME RestartCore PROVE core'.epoch > core.epoch
        BY <2>3, WorldEffects
  <2>4. ASSUME NEW n \in Names, Traffic(n) PROVE core'.epoch = core.epoch
        BY <2>4, WorldEffects
  <2>5. ASSUME NEW r \in wire, ExecuteReset(r) PROVE core'.epoch = core.epoch
        BY <2>5, WorldEffects
  <2> QED BY <2>1, <2>2, <2>3, <2>4, <2>5, StepsAre DEF Elsewhere, Charging
<1> QED BY <1>1, <1>2, <1>3

\* A cumulative reading in hand was there before or comes from the running process
LEMMA PanelReads ==
  ASSUME OrderInv, NEW p \in Panels, PanelStep(p),
         panels'[p].pc \in {"compare", "store_cumulative"}
  PROVE  \/ panels[p].pc \in {"compare", "store_cumulative"} /\ panels'[p].born = panels[p].born
         \/ panels[p].pc = "query" /\ panels[p].live /\ panels'[p].born = core.epoch
<1>1. Typed /\ panels[p] \in PanelRow
      BY NumbersTyped DEF OrderInv
<1>2. ASSUME Step(p, Idle) PROVE FALSE
  <2>1. panels'[p] = Idle
        BY <1>1, <1>2, StepIs
  <2> QED BY <2>1 DEF Idle
<1>3. CASE AcquireLease(p)
  <2>1. panels'[p] = [Idle EXCEPT !.pc = "choose", !.live = TRUE]
        BY <1>1, <1>3, StepIs DEF AcquireLease
  <2> QED BY <2>1 DEF Idle
<1>4. CASE ChooseReader(p)
  <2>1. PICK e, t : \/ Step(p, [panels[p] EXCEPT !.pc = "intend", !.epoch = e])
                    \/ Step(p, [panels[p] EXCEPT !.epoch = e, !.transition = t, !.pc = "intend"])
                    \/ Step(p, [panels[p] EXCEPT !.epoch = e, !.transition = t, !.pc = "reserve"])
        BY <1>2, <1>4 DEF ChooseReader, Leave
  <2>2. \/ panels'[p] = [panels[p] EXCEPT !.pc = "intend", !.epoch = e]
        \/ panels'[p] = [panels[p] EXCEPT !.epoch = e, !.transition = t, !.pc = "intend"]
        \/ panels'[p] = [panels[p] EXCEPT !.epoch = e, !.transition = t, !.pc = "reserve"]
        BY <1>1, <2>1, StepIs
  <2> QED BY <1>1, <2>2 DEF PanelRow
<1>5. CASE BeginTrafficReset(p)
  <2>1. panels'[p] = [panels[p] EXCEPT !.pc = "send", !.seq = sequence + 1]
        BY <1>1, <1>5, StepIs DEF BeginTrafficReset
  <2> QED BY <1>1, <2>1 DEF PanelRow
<1>6. CASE ReserveSequence(p)
  <2>1. panels'[p] = [panels[p] EXCEPT !.pc = "query", !.seq = sequence + 1, !.transition = FALSE]
        BY <1>1, <1>6, StepIs DEF ReserveSequence
  <2> QED BY <1>1, <2>1 DEF PanelRow
<1>7. CASE ReadCounters(p)
  <2>1. panels'[p] = [panels[p] EXCEPT !.pc = "compare", !.count = core.count,
                                   !.top = total[core.epoch], !.born = core.epoch]
        BY <1>1, <1>7, StepIs DEF ReadCounters
  <2>2. panels'[p].born = core.epoch
        BY <1>1, <2>1 DEF PanelRow
  <2> QED BY <1>7, <2>2 DEF ReadCounters
<1>8. CASE SendReset(p) \/ CheckResetEpoch(p) \/ CompareEpoch(p) \/ GiveUp(p)
  <2>1. CASE GoTo(p, "store_cumulative") /\ panels[p].pc = "compare"
        BY <1>1, <2>1, GoToIs
  <2>2. CASE GoTo(p, "await") \/ GoTo(p, "store")
    <3>1. panels'[p].pc \in {"await", "store"}
          BY <1>1, <2>2, GoToIs
    <3> QED BY <3>1
  <2> QED BY <1>2, <1>8, <2>1, <2>2 DEF SendReset, CheckResetEpoch, CompareEpoch, GiveUp, Leave
<1>9. CASE ContextEnds(p)
  <2>1. panels'[p] = [panels[p] EXCEPT !.live = FALSE]
        BY <1>1, <1>9, StepIs DEF ContextEnds
  <2> QED BY <1>1, <2>1 DEF PanelRow
<1> QED BY <1>3, <1>4, <1>5, <1>6, <1>7, <1>8, <1>9 DEF PanelStep

\* So were all
LEMMA CumulativeComes ==
  ASSUME OrderInv, Sent, [Next]_vars, NEW t \in Readings', t.cumulative
  PROVE  \/ \E r \in Readings : r.cumulative /\ r.born = t.born
         \/ meter.mode = "cumulative" /\ t.born = core.epoch
<1>1. CASE \E x \in Sequences : Stored(x)' /\ t = PollReading(x)'
  <2>1. PICK x \in Sequences : Stored(x)' /\ t = PollReading(x)'
        BY <1>1
  <2>2. polls'[x].mode = "cumulative" /\ t.born = polls'[x].born
        BY <2>1 DEF PollReading
  <2>3. CASE Stored(x) /\ polls[x].mode = "cumulative" /\ polls[x].born = polls'[x].born
        BY <2>2, <2>3, ReadingIs DEF PollReading
  <2>4. CASE polls' = polls
        BY <2>1, <2>2, <2>3, <2>4 DEF Stored
  <2>5. ASSUME NEW s \in Sequences, Charging(s) PROVE Stored(x) /\ polls[x].mode = "cumulative" /\ polls[x].born = polls'[x].born
    <3>1. Untouched
          BY <2>5, ChargingEffects DEF Charging
    <3> QED BY <2>1, <2>2, <3>1 DEF Untouched
  <2>6. ASSUME NEW p \in Panels, RecordTrafficPoll(p)
        PROVE  \E r \in Readings : r.cumulative /\ r.born = t.born
    <3>1. CASE x = panels[p].seq
      <4>1. /\ panels[p].pc \in {"store", "store_cumulative"} /\ polls'[x].born = panels[p].born
            /\ polls'[x].mode = (IF panels[p].pc = "store" THEN "reset" ELSE "cumulative")
            BY <2>6, <3>1, RecordEffects
      <4>2. panels[p].pc = "store_cumulative"
            BY <2>2, <4>1
      <4>3. PanelReading(p) \in Readings /\ PanelReading(p).cumulative
            BY <4>2, ReadingIs DEF Holding, PanelReading
      <4> QED BY <2>2, <4>1, <4>3 DEF PanelReading
    <3>2. CASE x # panels[p].seq
      <4>1. polls'[x] = polls[x]
            BY <2>6, <3>2, RecordEffects
      <4>2. Stored(x) /\ polls[x].mode = "cumulative" /\ polls[x].born = polls'[x].born
            BY <2>1, <2>2, <4>1 DEF Stored
      <4>3. PollReading(x) \in Readings /\ PollReading(x).cumulative
            BY <4>2, ReadingIs DEF PollReading
      <4> QED BY <2>2, <4>2, <4>3 DEF PollReading
    <3> QED BY <3>1, <3>2
  <2>7. ASSUME NEW p \in Panels, PanelStep(p) PROVE polls' = polls
        BY <2>7, PanelEffects DEF PanelEffect
  <2> QED BY <2>3, <2>4, <2>5, <2>6, <2>7, WorldEffects, StepsAre DEF Elsewhere, journal, Keeps
<1>2. CASE \E q \in Panels : panels'[q].pc \in Holding /\ t = PanelReading(q)'
  <2>1. PICK q \in Panels : panels'[q].pc \in Holding /\ t = PanelReading(q)'
        BY <1>2
  <2>2. panels'[q].pc \in {"compare", "store_cumulative"} /\ t.born = panels'[q].born
        BY <2>1 DEF PanelReading
  <2>3. CASE panels[q].pc \in {"compare", "store_cumulative"} /\ panels'[q].born = panels[q].born
        BY <2>2, <2>3, ReadingIs DEF Holding, PanelReading
  <2>4. CASE panels'[q] = panels[q]
        BY <2>2, <2>3, <2>4
  <2>5. ASSUME NEW p \in Panels, PanelStep(p), p # q PROVE panels'[q] = panels[q]
        BY <2>5, PanelEffects DEF PanelEffect, Same
  <2>6. ASSUME PanelStep(q)
        PROVE  \/ panels[q].pc \in {"compare", "store_cumulative"} /\ panels'[q].born = panels[q].born
               \/ meter.mode = "cumulative" /\ t.born = core.epoch
    <3>1. panels[q].pc = "query" /\ panels[q].live => meter.mode = "cumulative"
          BY DEF OrderInv, Switched
    <3> QED BY <2>2, <2>6, <3>1, PanelReads
  <2>7. ASSUME NEW p \in Panels, RecordTrafficPoll(p) PROVE panels'[q] = panels[q]
        BY <2>2, <2>7, RecordEffects DEF Same
  <2>8. ASSUME NEW r \in wire, ExecuteReset(r) PROVE panels'[q] = panels[q]
    <3>1. r[1] \in Panels /\ panels[r[1]] \in PanelRow /\ Typed
          BY NumbersTyped DEF Sent, OrderInv
    <3>2. CASE panels' # panels
      <4>1. /\ Same(r[1])
            /\ panels'[r[1]] = [panels[r[1]] EXCEPT !.pc = "answered", !.count = core.count,
                          !.top = total[core.epoch], !.born = core.epoch]
            BY <2>8, <3>1, <3>2, StepIs DEF ExecuteReset
      <4>2. panels'[r[1]].pc = "answered"
            BY <3>1, <4>1 DEF PanelRow
      <4> QED BY <2>2, <4>1, <4>2 DEF Same
    <3> QED BY <3>2
  <2>9. ASSUME Retires PROVE panels'[q] = panels[q]
        BY <2>2, <2>9 DEF Retires
  <2>10. ASSUME RestartCore \/ \E n \in Names : Traffic(n) PROVE panels' = panels
        BY <2>10, WorldEffects
  <2> QED BY <2>3, <2>4, <2>5, <2>6, <2>7, <2>8, <2>9, <2>10, StepsAre DEF Charging, Elsewhere
<1> QED BY <1>1, <1>2 DEF Readings

\* Every step keeps the readings of earlier processes out of the cumulative ones
LEMMA SinceSwitchStays ==
  ASSUME OrderInv, Sent, Tidy, Announced, Metered, SinceSwitch, [Next]_vars
  PROVE  SinceSwitch'
<1> SUFFICES ASSUME NoLoss', meter'.mode = "cumulative", NEW t \in Readings', t.cumulative
             PROVE  t.born >= meter'.epoch
    BY DEF SinceSwitch
<1>1. meter.mode = "cumulative"
  <2>1. \A r \in Readings : r.cumulative => meter.mode = "cumulative"
        BY DEF OrderInv, Switched
  <2> QED BY <2>1, CumulativeComes
<1>2. NoLoss /\ meter'.epoch = meter.epoch
      BY <1>1, NoLossBefore, MeterSteady
<1>3. \A r \in Readings : r.cumulative => r.born >= meter.epoch
      BY <1>1, <1>2 DEF SinceSwitch
<1>4. core.epoch \in Nat /\ meter.epoch \in Nat /\ meter.epoch <= core.epoch
      BY <1>1, <1>2, ProcessIsKnown, NumbersTyped DEF NoLoss, OrderInv
<1> QED BY <1>2, <1>3, <1>4, CumulativeComes
-----------------------------------------------------------------------------
(* The balance                                                               *)

\* The terms of the balance are natural numbers
TermsAre(n) ==
  /\ IsFiniteSet(Sequences) /\ IsFiniteSet(Epochs) /\ IsFiniteSet(Panels)
  /\ IsFiniteSet(ChargesOf(n))
  /\ \A s \in Sequences : PollParts(n)[s] = PollPart(n, s) /\ PollPart(n, s) \in Nat
  /\ \A p \in Panels : PanelParts(n)[p] = PanelPart(n, p) /\ PanelPart(n, p) \in Nat
  /\ \A e \in Epochs : Totals(n)[e] = total[e][n] /\ total[e][n] \in Nat
  /\ \A c \in ChargesOf(n) : Lengths(n)[c] = c.hi - c.lo /\ c.hi - c.lo \in Nat
  /\ SumOver(Lengths(n), ChargesOf(n)) \in Nat /\ SumOver(PollParts(n), Sequences) \in Nat
  /\ SumOver(PanelParts(n), Panels) \in Nat /\ SumOver(Totals(n), Epochs) \in Nat
  /\ unmetered[n] \in Nat /\ core.count[n] \in Nat
  /\ \A e \in Epochs : cursors[n][e].at \in Nat /\ cursors[n][e].seq \in Nat
  /\ core.epoch \in Epochs /\ Waiting(n) \in Int

AllTermsAre == \A n \in Names : TermsAre(n)

\* They are in every state
LEMMA TermsTyped == OrderInv /\ Tidy /\ ChargeInv => AllTermsAre
<1> SUFFICES ASSUME OrderInv, Tidy, ChargeInv, NEW n \in Names PROVE TermsAre(n)
    BY DEF AllTermsAre
<1>1. IsFiniteSet(Sequences) /\ IsFiniteSet(Epochs) /\ IsFiniteSet(Panels)
      BY LedgerAssumption, Constants, FS_Interval DEF Sequences, Epochs
<1>2. IsFiniteSet(ChargesOf(n))
  <2>1. ChargesOf(n) \subseteq charges
        BY DEF ChargesOf
  <2> QED BY <2>1, FS_Subset DEF Tidy
<1>3. ASSUME NEW s \in Sequences PROVE PollParts(n)[s] = PollPart(n, s) /\ PollPart(n, s) \in Nat
      BY NumbersTyped, PollFields DEF OrderInv, PollParts, PollPart, Counters
<1>4. ASSUME NEW p \in Panels PROVE PanelParts(n)[p] = PanelPart(n, p) /\ PanelPart(n, p) \in Nat
      BY NumbersTyped DEF OrderInv, PanelParts, PanelPart, PanelRow, Counters
<1>5. \A e \in Epochs : Totals(n)[e] = total[e][n] /\ total[e][n] \in Nat
      BY NumbersTyped DEF OrderInv, Totals
<1>6. ASSUME NEW c \in ChargesOf(n) PROVE Lengths(n)[c] = c.hi - c.lo /\ c.hi - c.lo \in Nat
  <2>1. c.lo \in Int /\ c.hi \in Int /\ c.lo < c.hi
        BY DEF ChargeInv, Charged, ChargesOf
  <2> QED BY <2>1 DEF Lengths
<1>7. /\ SumOver(Lengths(n), ChargesOf(n)) \in Nat /\ SumOver(PollParts(n), Sequences) \in Nat
      /\ SumOver(PanelParts(n), Panels) \in Nat /\ SumOver(Totals(n), Epochs) \in Nat
      BY <1>1, <1>2, <1>3, <1>4, <1>5, <1>6, SumIsNat
<1>8. /\ unmetered[n] \in Nat /\ core.count[n] \in Nat /\ core.epoch \in Epochs
      /\ \A e \in Epochs : cursors[n][e].at \in Nat /\ cursors[n][e].seq \in Nat
      BY NumbersTyped DEF OrderInv, Typed, JournalTyped, CursorRow, Tidy, Counters
<1>9. Waiting(n) \in Int
      BY <1>8 DEF Waiting
<1> QED BY <1>1, <1>2, <1>3, <1>4, <1>5, <1>6, <1>7, <1>8, <1>9 DEF TermsAre

\* And in the next
LEMMA TermsTypedNext == OrderInv' /\ Tidy' /\ ChargeInv' => AllTermsAre'
BY TermsTyped, PTL

\* No cursor moved before the switch, or while a reset may still be answered
LEMMA NoCursorYet ==
  ASSUME OrderInv, Tidy, NEW n \in Names,
         meter.mode = "reset" \/ \E p \in Panels : panels[p].live /\ panels[p].pc = "await"
  PROVE  \A e \in Epochs : cursors[n][e].at = 0
<1>1. ASSUME NEW s \in Sequences, Stored(s), polls[s].mode = "cumulative" PROVE FALSE
  <2>1. PollReading(s) \in Readings /\ PollReading(s).cumulative
        BY <1>1, ReadingIs DEF PollReading
  <2> QED BY <2>1 DEF OrderInv, Switched
<1> QED BY <1>1 DEF Tidy

\* With the readings, the charges and the cursors the balance keeps its terms
LEMMA SameTerms ==
  ASSUME NEW n \in Names, UNCHANGED <<polls, charges, cursors>>
  PROVE  /\ PollParts(n)' = PollParts(n)
         /\ ChargesOf(n)' = ChargesOf(n) /\ Lengths(n)' = Lengths(n)
BY DEF PollParts, PollPart, ChargesOf, Lengths

\* A collection that stores nothing moves no bytes: who leaves with an answer leaves
\* its announcement behind
LEMMA PanelBalance ==
  ASSUME OrderInv, Announced, NoLoss', NEW p \in Panels, PanelStep(p),
         NEW n \in Names, Balanced(n)
  PROVE  Balanced(n)'
<1>1. PanelEffect(p) /\ UNCHANGED <<core, total, meter, polls, cursors, charges, unmetered>>
      BY PanelEffects DEF PanelEffect
<1>2. PanelPart(n, p)' = PanelPart(n, p)
  <2>1. CASE panels'[p].pc \in {"answered", "store"}
        BY <1>1, <2>1 DEF PanelEffect, PanelPart
  <2>2. CASE panels'[p].pc \notin {"answered", "store"} /\ panels[p].pc \in {"answered", "store"}
    <3> DEFINE s == panels[p].seq
    <3>1. panels'[p].pc = "idle"
          BY <1>1, <2>2 DEF PanelEffect
    <3>2. Intent(s) \in gaps'
          BY <1>1, <2>2 DEF PanelEffect, Announced, Resetting
    <3> HIDE DEF s
    <3>3. PICK x \in Sequences : Intent(s) = Intent(x) /\ Awaited(x)'
          BY <3>2 DEF NoLoss, Intent
    <3>4. x = s
          BY <3>3 DEF Intent
    <3>5. PICK q \in Panels : panels'[q].seq = s /\ panels'[q].pc \in {"send", "await", "answered", "store"}
          BY <3>3, <3>4 DEF Awaited
    <3>6. q # p
          BY <3>1, <3>5
    <3>7. panels'[q] = panels[q]
          BY <1>1, <3>6 DEF PanelEffect, Same
    <3> QED BY <2>2, <3>5, <3>6, <3>7 DEF OrderInv, Reserved, Unstored, s
  <2>3. CASE panels'[p].pc \notin {"answered", "store"} /\ panels[p].pc \notin {"answered", "store"}
        BY <2>3 DEF PanelPart
  <2> QED BY <2>1, <2>2, <2>3
<1>3. \A q \in Panels : PanelPart(n, q)' = PanelPart(n, q)
      BY <1>1, <1>2 DEF PanelEffect, Same, PanelPart
<1>4. PanelParts(n)' = PanelParts(n)
      BY <1>3 DEF PanelParts
<1>5. Waiting(n)' = Waiting(n) /\ Totals(n)' = Totals(n)
      BY <1>1 DEF Waiting, Totals
<1> QED BY <1>1, <1>4, <1>5, SameTerms DEF Balanced

\* A reset that nobody waits for any more leaves its announcement behind; the others
\* hand what the counters held to the panel
LEMMA AnswerBalance ==
  ASSUME OrderInv, OrderInv', Sent, Tidy, Tidy', ChargeInv, ChargeInv', Announced, NoLoss',
         NEW r \in wire, ExecuteReset(r), NEW n \in Names, Balanced(n)
  PROVE  Balanced(n)'
<1> DEFINE p == r[1]
<1>1. p \in Panels /\ panels[p] \in PanelRow /\ Typed
      BY NumbersTyped DEF Sent, OrderInv
<1>2. /\ Keeps /\ UNCHANGED <<gaps, unmetered, total>>
      /\ core'.epoch = core.epoch /\ core'.count = Zero
      BY WorldEffects
<1>3. panels[p].pc = "await" /\ panels[p].live /\ panels[p].seq = r[2]
  <2>1. Intent(r[2]) \in gaps'
        BY <1>2 DEF Announced
  <2>2. PICK s \in Sequences : Intent(r[2]) = Intent(s) /\ Awaited(s)'
        BY <2>1 DEF NoLoss, Intent
  <2>3. s = r[2]
        BY <2>2 DEF Intent
  <2>4. SUFFICES ASSUME panels' = panels
                 PROVE  panels[p].pc = "await" /\ panels[p].live /\ panels[p].seq = r[2]
        BY DEF ExecuteReset
  <2>5. PICK q \in Panels : /\ panels[q].seq = r[2] /\ panels[q].pc \in {"send", "await", "answered", "store"}
                            /\ panels[q].pc = "await" => panels[q].live
        BY <2>2, <2>3, <2>4 DEF Awaited
  <2>6. q = p /\ panels[q].pc = "await"
        BY <2>5 DEF Announced, Unstored
  <2> QED BY <2>5, <2>6
<1>4. /\ Same(p)
      /\ panels'[p] = [panels[p] EXCEPT !.pc = "answered", !.count = core.count,
                          !.top = total[core.epoch], !.born = core.epoch]
      BY <1>1, <1>3, StepIs DEF ExecuteReset
<1>5. panels'[p].pc = "answered" /\ panels'[p].count = core.count
      BY <1>1, <1>4 DEF PanelRow
<1>6. /\ PanelPart(n, p) = 0 /\ PanelPart(n, p)' = core.count[n]
      /\ \A q \in Panels \ {p} : PanelPart(n, q)' = PanelPart(n, q)
      BY <1>1, <1>3, <1>4, <1>5 DEF PanelPart, Same
<1>7. SumOver(PanelParts(n), Panels)' = SumOver(PanelParts(n), Panels) + core.count[n]
  <2>1. /\ IsFiniteSet(Panels)
        /\ \A q \in Panels : PanelParts(n)[q] = PanelPart(n, q) /\ PanelPart(n, q) \in Nat
        BY TermsTyped DEF AllTermsAre, TermsAre
  <2>2. \A q \in Panels : PanelParts(n)'[q] = PanelPart(n, q)' /\ PanelPart(n, q)' \in Nat
        BY TermsTypedNext DEF AllTermsAre, TermsAre
  <2>3. SumOver(PanelParts(n)', Panels) + PanelParts(n)[p] = SumOver(PanelParts(n), Panels) + PanelParts(n)'[p]
        BY <1>1, <1>6, <2>1, <2>2, SumChanges
  <2>4. SumOver(PanelParts(n)', Panels) \in Nat /\ core.count[n] \in Nat
        BY TermsTyped, TermsTypedNext DEF AllTermsAre, TermsAre
  <2> QED BY <1>1, <1>6, <2>1, <2>2, <2>3, <2>4
<1>8. Waiting(n) = core.count[n] /\ Waiting(n)' = 0
  <2>1. cursors[n][core.epoch].at = 0 /\ core.count[n] \in Nat
        BY <1>1, <1>3, NoCursorYet, TermsTyped DEF AllTermsAre, TermsAre
  <2>2. core'.count[n] = 0
        BY <1>2 DEF Zero
  <2> QED BY <1>2, <2>1, <2>2 DEF Waiting, Keeps
<1>9. Totals(n)' = Totals(n)
      BY <1>2 DEF Totals
<1>10. /\ SumOver(PollParts(n), Sequences)' = SumOver(PollParts(n), Sequences)
       /\ SumOver(Lengths(n), ChargesOf(n))' = SumOver(Lengths(n), ChargesOf(n))
       /\ SumOver(Totals(n), Epochs)' = SumOver(Totals(n), Epochs)
       /\ unmetered'[n] = unmetered[n]
      BY <1>2, <1>9, SameTerms DEF Keeps
<1> QED BY <1>7, <1>8, <1>10, TermsTyped DEF AllTermsAre, TermsAre, Balanced

\* What a panel held is what the reading it stores holds
LEMMA RecordBalance ==
  ASSUME OrderInv, OrderInv', Tidy, Tidy', ChargeInv, ChargeInv', NEW p \in Panels,
         RecordTrafficPoll(p), NEW n \in Names, Balanced(n)
  PROVE  Balanced(n)'
<1> DEFINE s == panels[p].seq
<1>1. /\ s \in Sequences /\ ~Stored(s) /\ panels[p].pc \in {"store", "store_cumulative"}
      /\ polls'[s].seen = {} /\ polls'[s].count = panels[p].count
      /\ polls'[s].mode = (IF panels[p].pc = "store" THEN "reset" ELSE "cumulative")
      /\ \A x \in Sequences \ {s} : polls'[x] = polls[x]
      /\ Same(p) /\ panels'[p].pc = "process"
      /\ meter' = IF panels[p].transition /\ s > meter.last
                    THEN [mode |-> "cumulative", epoch |-> panels[p].epoch, last |-> s]
                    ELSE meter
      /\ UNCHANGED <<core, total, unmetered, cursors, charges>>
      BY RecordEffects
<1> HIDE DEF s
<1>2. TermsAre(n) /\ TermsAre(n)'
      BY TermsTyped, TermsTypedNext DEF AllTermsAre
<1> DEFINE held == IF panels[p].pc = "store" THEN panels[p].count[n] ELSE 0
<1>3. SumOver(PollParts(n), Sequences)' = SumOver(PollParts(n), Sequences) + held
  <2>1. PollPart(n, s) = 0
    <3>1. polls[s] = NoPoll
          BY <1>1 DEF Tidy
    <3> QED BY <3>1 DEF PollPart, NoPoll, Zero
  <2>2. PollParts(n)'[s] = held
    <3>1. PollParts(n)'[s] = IF polls'[s].mode = "reset" /\ n \notin polls'[s].seen
                               THEN polls'[s].count[n] ELSE 0
          BY <1>1 DEF PollParts, PollPart
    <3> QED BY <1>1, <3>1
  <2>3. \A x \in Sequences \ {s} : PollPart(n, x)' = PollPart(n, x)
        BY <1>1 DEF PollPart
  <2>4. /\ \A x \in Sequences : PollParts(n)[x] = PollPart(n, x) /\ PollParts(n)[x] \in Nat
        /\ \A x \in Sequences : PollParts(n)'[x] = PollPart(n, x)' /\ PollParts(n)'[x] \in Nat
        /\ IsFiniteSet(Sequences)
        BY <1>2 DEF TermsAre
  <2>5. \A x \in Sequences \ {s} : PollParts(n)'[x] = PollParts(n)[x]
        BY <2>3, <2>4
  <2>6. SumOver(PollParts(n)', Sequences) + PollParts(n)[s] =
          SumOver(PollParts(n), Sequences) + PollParts(n)'[s]
        BY <1>1, <2>4, <2>5, SumChanges
  <2>7. SumOver(PollParts(n)', Sequences) \in Nat
        BY <1>2 DEF TermsAre
  <2>8. PollParts(n)[s] = 0
        BY <1>1, <2>1, <2>4
  <2> QED BY <2>2, <2>6, <2>7, <2>8
<1>4. SumOver(PanelParts(n), Panels)' + held = SumOver(PanelParts(n), Panels)
  <2>1. PanelPart(n, p) = held /\ PanelPart(n, p)' = 0
        BY <1>1 DEF PanelPart
  <2>2. \A q \in Panels \ {p} : PanelPart(n, q)' = PanelPart(n, q)
        BY <1>1 DEF Same, PanelPart
  <2>3. /\ \A x \in Panels : PanelParts(n)[x] = PanelPart(n, x) /\ PanelParts(n)[x] \in Nat
        /\ \A x \in Panels : PanelParts(n)'[x] = PanelPart(n, x)' /\ PanelParts(n)'[x] \in Nat
        /\ IsFiniteSet(Panels)
        BY <1>2 DEF TermsAre
  <2>4. SumOver(PanelParts(n)', Panels) + PanelParts(n)[p] =
          SumOver(PanelParts(n), Panels) + PanelParts(n)'[p]
        BY <2>2, <2>3, SumChanges
  <2>5. SumOver(PanelParts(n), Panels) \in Nat
        BY <1>2 DEF TermsAre
  <2> QED BY <2>1, <2>3, <2>4, <2>5
<1>5. Waiting(n)' = Waiting(n)
  <2>1. CASE meter'.mode = meter.mode
        BY <1>1, <2>1 DEF Waiting
  <2>2. CASE meter'.mode # meter.mode
    <3>1. meter.mode = "reset"
          BY <1>1, <2>2, ModeOfReadings
    <3>2. cursors[n][core.epoch].at = 0 /\ core.count[n] \in Nat
          BY <1>2, <3>1, NoCursorYet DEF TermsAre
    <3> QED BY <1>1, <3>2 DEF Waiting
  <2> QED BY <2>1, <2>2
<1>6. /\ SumOver(Lengths(n), ChargesOf(n))' = SumOver(Lengths(n), ChargesOf(n))
      /\ SumOver(Totals(n), Epochs)' = SumOver(Totals(n), Epochs) /\ unmetered'[n] = unmetered[n]
  <2>1. Lengths(n)' = Lengths(n) /\ ChargesOf(n)' = ChargesOf(n) /\ Totals(n)' = Totals(n)
        BY <1>1 DEF Lengths, ChargesOf, Totals
  <2> QED BY <1>1, <2>1
<1>7. /\ SumOver(Lengths(n), ChargesOf(n)) \in Nat /\ SumOver(PollParts(n), Sequences) \in Nat
      /\ SumOver(PanelParts(n), Panels) \in Nat /\ SumOver(PanelParts(n), Panels)' \in Nat
      /\ Waiting(n) \in Int /\ unmetered[n] \in Nat
      BY <1>2 DEF TermsAre
<1>8. held \in Nat
  <2>1. panels[p] \in PanelRow
        BY NumbersTyped DEF OrderInv
  <2> QED BY <2>1 DEF PanelRow, Counters
<1> HIDE DEF held
<1> QED BY <1>3, <1>4, <1>5, <1>6, <1>7, <1>8 DEF Balanced

\* What charging a reading adds to what was observed
ChargedOf(s, broken, n) ==
  IF n \in DoneIn(s, broken) THEN Delta(PollOf(s), s, n) ELSE 0

\* The charge is as long as what is observed
LEMMA ObservedGrows ==
  ASSUME OrderInv, OrderInv', Tidy, Tidy', ChargeInv, ChargeInv', NEW s \in Sequences, Stored(s),
         NEW broken, ProcessPoll(s, broken), NEW n \in Names
  PROVE  /\ ChargedOf(s, broken, n) \in Nat
         /\ SumOver(Lengths(n), ChargesOf(n))' =
              SumOver(Lengths(n), ChargesOf(n)) + ChargedOf(s, broken, n)
<1> DEFINE d == ChargedOf(s, broken, n)
<1>1. TermsAre(n) /\ TermsAre(n)'
      BY TermsTyped, TermsTypedNext DEF AllTermsAre
<1>2. charges' = charges \cup FreshIn(s, broken) /\ DoneIn(s, broken) \subseteq Names \ polls[s].seen
      BY ChargingEffects
<1>3. d \in Nat
  <2>1. /\ polls[s] \in PollRow /\ PollOf(s).mode = polls[s].mode /\ PollOf(s).epoch = polls[s].epoch
        /\ PollOf(s).count = polls[s].count /\ polls[s].count[n] \in Nat
        /\ polls[s].mode \in {"reset", "cumulative"}
        BY PollOfTyped, PollFields DEF OrderInv, Counters
  <2>2. ASSUME polls[s].mode = "cumulative"
        PROVE  /\ polls[s].epoch \in Epochs
               /\ cursors[n][polls[s].epoch].at \in Nat
               /\ cursors[n][polls[s].epoch].seq = 0 => cursors[n][polls[s].epoch].at = 0
    <3>1. PollReading(s) \in Readings /\ polls[s].epoch = polls[s].born
          BY <2>2, ReadingIs DEF OrderInv, Verified
    <3>2. polls[s].epoch \in Epochs
          BY <3>1 DEF OrderInv, Measured, PollReading
    <3> QED BY <1>1, <3>2 DEF TermsAre, Tidy
  <2>3. Delta(PollOf(s), s, n) \in Nat
    <3>1. CASE polls[s].mode = "reset"
          BY <2>1, <3>1 DEF Delta, Quality
    <3>2. CASE polls[s].mode = "cumulative"
          BY <2>1, <2>2, <3>2 DEF Delta, Quality
    <3> QED BY <2>1, <3>1, <3>2
  <2> QED BY <2>3 DEF ChargedOf
<1>4. CASE d = 0
  <2>1. \A c \in FreshIn(s, broken) : c.name # n
        BY <1>2, <1>4 DEF FreshIn, Interval, ChargedOf
  <2>2. ChargesOf(n)' = ChargesOf(n)
        BY <1>2, <2>1 DEF ChargesOf
  <2>3. Lengths(n)' = Lengths(n)
        BY <2>2 DEF Lengths
  <2> QED BY <1>1, <1>4, <2>2, <2>3 DEF TermsAre
<1>5. CASE d # 0
  <2> DEFINE c == Interval(PollOf(s), s, n, PollOf(s).bound[n].bucket)
  <2>1. n \in DoneIn(s, broken) /\ d = Delta(PollOf(s), s, n) /\ d > 0
        BY <1>3, <1>5 DEF ChargedOf
  <2>2. c \in FreshIn(s, broken) /\ c.name = n /\ c.poll = s
        BY <2>1 DEF FreshIn, Interval
  <2>3. c.hi - c.lo = d
    <3>1. PollOf(s).top[n] \in Nat
          BY PollOfTyped, PollFields DEF OrderInv, Counters
    <3> QED BY <1>3, <2>1, <3>1 DEF Interval
  <2>4. \A x \in FreshIn(s, broken) : x.name = n => x = c
        BY <1>2 DEF FreshIn, Interval
  <2>5. c \notin ChargesOf(n)
        BY <1>2, <2>1, <2>2 DEF ChargesOf, ChargeInv, Charged
  <2> HIDE DEF c, d
  <2>6. ChargesOf(n)' = ChargesOf(n) \cup {c}
        BY <1>2, <2>2, <2>4 DEF ChargesOf
  <2>7. /\ \A x \in ChargesOf(n) : Lengths(n)[x] \in Nat /\ Lengths(n)'[x] = Lengths(n)[x]
        /\ Lengths(n)'[c] = d
        BY <1>1, <2>3, <2>6 DEF TermsAre, Lengths
  <2>8. SumOver(Lengths(n)', ChargesOf(n) \cup {c}) = SumOver(Lengths(n), ChargesOf(n)) + d
        BY <1>1, <1>3, <2>5, <2>7, SumAdds DEF TermsAre
  <2> QED BY <1>3, <2>6, <2>8 DEF d
<1> QED BY <1>3, <1>4, <1>5

\* Charging a reading that destroyed its counters moves bytes from the reading to the
\* charges; charging a cumulative one moves its cursor as far
LEMMA ChargingBalance ==
  ASSUME OrderInv, OrderInv', Tidy, Tidy', ChargeInv, ChargeInv', SinceSwitch, NoLoss, NoLoss',
         Known, NEW s \in Sequences, Charging(s), NEW n \in Names, Balanced(n)
  PROVE  Balanced(n)'
<1> PICK broken : ProcessPoll(s, broken)
    BY DEF Charging
<1> DEFINE d == ChargedOf(s, broken, n)
           done == DoneIn(s, broken)
<1>1. Stored(s) /\ Retires /\ UNCHANGED <<core, total, wire, unmetered>>
      BY DEF Charging
<1>2. /\ Untouched /\ \A x \in Sequences \ {s} : polls'[x] = polls[x]
      /\ polls'[s].seen = polls[s].seen \cup done
      /\ done \subseteq Names \ polls[s].seen
      /\ meter' = IF s < meter.last THEN meter
                  ELSE [mode |-> IF meter.mode = "cumulative" \/ polls[s].transition
                                   THEN "cumulative" ELSE polls[s].mode,
                        epoch |-> polls[s].epoch, last |-> s]
      /\ polls[s].mode # "cumulative" => cursors'[n] = cursors[n]
      /\ n \notin done => cursors'[n] = cursors[n]
      BY <1>1, ChargingEffects
<1>3. TermsAre(n) /\ TermsAre(n)'
      BY TermsTyped, TermsTypedNext DEF AllTermsAre
<1>4. d \in Nat /\ SumOver(Lengths(n), ChargesOf(n))' = SumOver(Lengths(n), ChargesOf(n)) + d
      BY <1>1, ObservedGrows
<1>5. /\ polls'[s].mode = polls[s].mode /\ polls'[s].count = polls[s].count
      /\ polls[s].mode \in {"reset", "cumulative"} /\ polls[s].count[n] \in Nat
      /\ PollOf(s).mode = polls[s].mode /\ PollOf(s).count = polls[s].count
      /\ PollOf(s).epoch = polls[s].epoch
      BY <1>2, PollOfTyped, PollFields DEF Untouched, OrderInv, Counters
<1>6. SumOver(PanelParts(n), Panels)' = SumOver(PanelParts(n), Panels)
  <2>1. \A p \in Panels : PanelPart(n, p)' = PanelPart(n, p)
        BY <1>1 DEF Retires, PanelPart
  <2>2. PanelParts(n)' = PanelParts(n)
        BY <2>1 DEF PanelParts
  <2> QED BY <2>2
<1>7. \A x \in Sequences \ {s} : PollPart(n, x)' = PollPart(n, x)
      BY <1>2 DEF PollPart
<1>8. SumOver(Totals(n), Epochs)' = SumOver(Totals(n), Epochs) /\ unmetered'[n] = unmetered[n]
      BY <1>1 DEF Totals
<1>9. /\ SumOver(Lengths(n), ChargesOf(n)) \in Nat /\ SumOver(PollParts(n), Sequences) \in Nat
      /\ SumOver(PollParts(n), Sequences)' \in Nat
      /\ SumOver(PanelParts(n), Panels) \in Nat /\ Waiting(n) \in Int /\ unmetered[n] \in Nat
      BY <1>3 DEF TermsAre
<1>10. /\ \A x \in Sequences : PollParts(n)[x] = PollPart(n, x) /\ PollParts(n)[x] \in Nat
       /\ \A x \in Sequences : PollParts(n)'[x] = PollPart(n, x)' /\ PollParts(n)'[x] \in Nat
       /\ IsFiniteSet(Sequences) /\ core.count[n] \in Nat /\ core.epoch \in Epochs
       /\ \A e \in Epochs : cursors[n][e].at \in Nat
       BY <1>3 DEF TermsAre
<1>11. CASE polls[s].mode = "reset"
  <2>1. SumOver(PollParts(n), Sequences)' + d = SumOver(PollParts(n), Sequences)
    <3>1. PollPart(n, s) = PollPart(n, s)' + d
      <4>1. n \in done => d = polls[s].count[n]
            BY <1>5, <1>11 DEF ChargedOf, Delta, Quality
      <4>2. n \notin done => d = 0
            BY DEF ChargedOf
      <4> QED BY <1>2, <1>5, <1>11, <4>1, <4>2 DEF PollPart
    <3>2. \A x \in Sequences \ {s} : PollParts(n)'[x] = PollParts(n)[x]
          BY <1>7, <1>10
    <3> HIDE DEF d
    <3>3. SumOver(PollParts(n)', Sequences) + PollParts(n)[s] =
            SumOver(PollParts(n), Sequences) + PollParts(n)'[s]
          BY <1>10, <3>2, SumChanges
    <3>4. PollParts(n)[s] = PollParts(n)'[s] + d
          BY <1>10, <3>1
    <3> QED BY <1>4, <1>9, <1>10, <3>3, <3>4
  <2>2. Waiting(n)' = Waiting(n)
    <3>1. CASE meter'.mode = meter.mode
          BY <1>1, <1>2, <1>11, <3>1 DEF Waiting
    <3>2. CASE meter'.mode # meter.mode
      <4>1. meter.mode = "reset"
            BY <1>2, <3>2, ModeOfReadings
      <4>2. cursors[n][core.epoch].at = 0
            BY <1>10, <4>1, NoCursorYet
      <4> QED BY <1>1, <1>2, <1>10, <1>11, <4>2 DEF Waiting
    <3> QED BY <3>1, <3>2
  <2> HIDE DEF d
  <2> QED BY <1>4, <1>6, <1>8, <1>9, <2>1, <2>2 DEF Balanced
<1>12. CASE polls[s].mode = "cumulative"
  <2>1. SumOver(PollParts(n), Sequences)' = SumOver(PollParts(n), Sequences)
    <3>1. \A x \in Sequences : PollPart(n, x)' = PollPart(n, x)
          BY <1>5, <1>7, <1>12 DEF PollPart
    <3>2. PollParts(n)' = PollParts(n)
          BY <3>1 DEF PollParts
    <3> QED BY <3>2
  <2>2. meter.mode = "cumulative" /\ meter'.mode = "cumulative"
        BY <1>1, <1>2, <1>12, ModeOfReadings
  <2>3. polls[s].epoch = core.epoch
    <3>1. PollReading(s) \in Readings /\ polls[s].epoch = polls[s].born /\ PollReading(s).cumulative
          BY <1>1, <1>12, ReadingIs DEF OrderInv, Verified, PollReading
    <3>2. polls[s].born >= meter.epoch /\ meter.epoch = core.epoch
          BY <2>2, <3>1 DEF SinceSwitch, Known, PollReading
    <3>3. polls[s].born <= core.epoch /\ polls[s].born \in Nat /\ core.epoch \in Nat
          BY <3>1, NumbersTyped, PollFields DEF OrderInv, Measured, PollReading
    <3> QED BY <3>1, <3>2, <3>3
  <2>4. Waiting(n)' + d = Waiting(n)
    <3>1. CASE n \in done
      <4>1. Quality(PollOf(s), s, n) = "observed"
        <5>1. Quality(PollOf(s), s, n) # "observed" => \E g \in gaps' : \A x : g # Intent(x)
              BY <1>1, <1>12, <3>1, ChargingEffects
        <5> QED BY <5>1 DEF NoLoss
      <4>2. d = polls[s].count[n] - cursors[n][core.epoch].at
            BY <1>5, <1>12, <2>3, <3>1, <4>1 DEF ChargedOf, Delta
      <4>3. cursors'[n] = [cursors[n] EXCEPT ![polls[s].epoch] = CursorAfter(PollOf(s), s, n)]
            BY <1>1, <1>12, <3>1, ChargingEffects
      <4>4. cursors[n] \in [Epochs -> CursorRow]
            BY DEF OrderInv, Typed, JournalTyped
      <4>5. cursors'[n][core.epoch].at = polls[s].count[n]
            BY <1>5, <1>10, <2>3, <4>1, <4>3, <4>4 DEF CursorAfter
      <4> HIDE DEF d
      <4> QED BY <1>1, <1>4, <1>5, <1>10, <2>2, <4>2, <4>5 DEF Waiting
    <3>2. CASE n \notin done
      <4>1. d = 0 /\ cursors'[n] = cursors[n]
            BY <1>2, <3>2 DEF ChargedOf
      <4> HIDE DEF d
      <4> QED BY <1>1, <1>9, <2>2, <4>1 DEF Waiting
    <3> QED BY <3>1, <3>2
  <2>5. Waiting(n)' \in Int
        BY <1>3 DEF TermsAre
  <2> HIDE DEF d
  <2> QED BY <1>4, <1>6, <1>8, <1>9, <2>1, <2>4, <2>5 DEF Balanced
<1> QED BY <1>5, <1>11, <1>12

\* A byte that passes waits in the counter
LEMMA TrafficBalance ==
  ASSUME OrderInv, OrderInv', Tidy, Tidy', ChargeInv, ChargeInv', NEW m \in Names, Traffic(m),
         NEW n \in Names, Balanced(n)
  PROVE  Balanced(n)'
<1>1. /\ core'.epoch = core.epoch /\ core' = [core EXCEPT !.count[m] = @ + 1]
      /\ total' = [total EXCEPT ![core.epoch][m] = @ + 1]
      /\ Keeps /\ UNCHANGED <<panels, unmetered>>
      BY WorldEffects
<1>2. TermsAre(n) /\ TermsAre(n)'
      BY TermsTyped, TermsTypedNext DEF AllTermsAre
<1>3. core.count \in Counters /\ core \in CoreRow /\ total \in [Epochs -> Counters]
      BY NumbersTyped DEF OrderInv, Typed, WorldTyped
<1> DEFINE more == IF n = m THEN 1 ELSE 0
<1>4. Waiting(n)' = Waiting(n) + more
  <2>1. core'.count[n] = core.count[n] + more
        BY <1>1, <1>2, <1>3 DEF CoreRow, Counters, TermsAre
  <2>2. core.count[n] \in Nat /\ core.epoch \in Epochs /\ \A e \in Epochs : cursors[n][e].at \in Nat
        BY <1>2 DEF TermsAre
  <2> QED BY <1>1, <2>1, <2>2 DEF Waiting, Keeps
<1>5. SumOver(Totals(n), Epochs)' = SumOver(Totals(n), Epochs) + more
  <2>1. /\ \A e \in Epochs : Totals(n)[e] = total[e][n] /\ Totals(n)[e] \in Nat
        /\ \A e \in Epochs : Totals(n)'[e] = total'[e][n] /\ Totals(n)'[e] \in Nat
        /\ IsFiniteSet(Epochs) /\ core.epoch \in Epochs
        BY <1>2 DEF TermsAre
  <2>2. \A e \in Epochs \ {core.epoch} : total'[e][n] = total[e][n]
        BY <1>1, <1>3
  <2>3. total'[core.epoch][n] = total[core.epoch][n] + more
        BY <1>1, <1>3, <2>1 DEF Counters
  <2>4. \A e \in Epochs \ {core.epoch} : Totals(n)'[e] = Totals(n)[e]
        BY <2>1, <2>2
  <2>5. /\ SumOver(Totals(n)', Epochs) + Totals(n)[core.epoch] =
             SumOver(Totals(n), Epochs) + Totals(n)'[core.epoch]
        /\ SumOver(Totals(n)', Epochs) \in Nat /\ SumOver(Totals(n), Epochs) \in Nat
        BY <2>1, <2>4, SumChanges
  <2> QED BY <2>1, <2>3, <2>5
<1>6. PollParts(n)' = PollParts(n) /\ ChargesOf(n)' = ChargesOf(n) /\ Lengths(n)' = Lengths(n)
      BY <1>1, SameTerms DEF Keeps
<1>7. PanelParts(n)' = PanelParts(n)
      BY <1>1 DEF PanelParts, PanelPart
<1>8. /\ SumOver(PollParts(n), Sequences)' = SumOver(PollParts(n), Sequences)
      /\ SumOver(Lengths(n), ChargesOf(n))' = SumOver(Lengths(n), ChargesOf(n))
      /\ SumOver(PanelParts(n), Panels)' = SumOver(PanelParts(n), Panels)
      /\ unmetered'[n] = unmetered[n]
      BY <1>1, <1>6, <1>7
<1>9. /\ SumOver(Lengths(n), ChargesOf(n)) \in Nat /\ SumOver(PollParts(n), Sequences) \in Nat
      /\ SumOver(PanelParts(n), Panels) \in Nat /\ Waiting(n) \in Int /\ unmetered[n] \in Nat
      /\ SumOver(Totals(n), Epochs) \in Nat
      BY <1>2 DEF TermsAre
<1>10. more \in Nat
      OBVIOUS
<1> HIDE DEF more
<1> QED BY <1>4, <1>5, <1>8, <1>9, <1>10 DEF Balanced

\* A process in reset mode takes what it held with it
LEMMA RestartBalance ==
  ASSUME OrderInv, OrderInv', Tidy, Tidy', ChargeInv, ChargeInv', RestartCore,
         meter.mode = "reset", NEW n \in Names, Balanced(n)
  PROVE  Balanced(n)'
<1>1. /\ core' = [epoch |-> core.epoch + 1, count |-> Zero]
      /\ unmetered' = [x \in Names |-> unmetered[x] +
                                 IF meter.mode = "cumulative" THEN 0 ELSE core.count[x]]
      /\ Keeps /\ UNCHANGED <<panels, total>>
      BY WorldEffects
<1>2. TermsAre(n)
      BY TermsTyped DEF AllTermsAre
<1>3. Waiting(n) = core.count[n] /\ Waiting(n)' = 0
  <2>1. core'.count[n] = 0 /\ meter'.mode = meter.mode /\ core.count[n] \in Nat
        BY <1>1, <1>2 DEF Zero, Keeps, TermsAre
  <2> QED BY <2>1 DEF Waiting
<1>4. unmetered'[n] = unmetered[n] + core.count[n]
      BY <1>1
<1>5. /\ PollParts(n)' = PollParts(n) /\ ChargesOf(n)' = ChargesOf(n) /\ Lengths(n)' = Lengths(n)
      /\ PanelParts(n)' = PanelParts(n) /\ Totals(n)' = Totals(n)
      BY <1>1, SameTerms DEF Keeps, PanelParts, PanelPart, Totals
<1>6. /\ SumOver(Lengths(n), ChargesOf(n)) \in Nat /\ SumOver(PollParts(n), Sequences) \in Nat
      /\ SumOver(PanelParts(n), Panels) \in Nat /\ unmetered[n] \in Nat /\ core.count[n] \in Nat
      BY <1>2 DEF TermsAre
<1> QED BY <1>3, <1>4, <1>5, <1>6 DEF Balanced

\* What happens elsewhere moves no bytes
LEMMA ElsewhereBalance ==
  ASSUME Elsewhere, NEW n \in Names, Balanced(n)
  PROVE  Balanced(n)'
<1>1. UNCHANGED <<polls, charges, cursors, meter, core, total, unmetered>> /\ Retires
      BY DEF Elsewhere, journal
<1>2. PanelParts(n)' = PanelParts(n)
  <2>1. \A p \in Panels : PanelPart(n, p)' = PanelPart(n, p)
        BY <1>1 DEF Retires, PanelPart
  <2> QED BY <2>1 DEF PanelParts
<1>3. Waiting(n)' = Waiting(n) /\ Totals(n)' = Totals(n)
      BY <1>1 DEF Waiting, Totals
<1> QED BY <1>1, <1>2, <1>3, SameTerms DEF Balanced

\* Every step keeps the balance
LEMMA BalanceStays ==
  ASSUME OrderInv, OrderInv', Sent, ChargeInv, ChargeInv', LossInv, Tidy', [Next]_vars
  PROVE  Balance'
<1> SUFFICES ASSUME NoLoss', Known', NEW n \in Names PROVE Balanced(n)'
    BY DEF Balance
<1> USE DEF LossInv
<1>1. NoLoss /\ Known /\ Balanced(n)
      BY NoLossBefore, KnownBefore DEF Balance
<1>2. ASSUME RestartCore PROVE Balanced(n)'
  <2>1. meter.mode = "reset"
    <3>1. CASE meter.mode = "cumulative"
      <4>1. meter.epoch = core.epoch /\ meter' = meter /\ core'.epoch > core.epoch
            BY <1>1, <1>2, <3>1, WorldEffects DEF Known, Keeps
      <4>2. meter.epoch = core'.epoch
            BY <3>1, <4>1 DEF Known
      <4>3. core.epoch \in Nat
            BY NumbersTyped DEF OrderInv
      <4> QED BY <4>1, <4>2, <4>3
    <3> QED BY <3>1, ModeOfReadings
  <2> QED BY <1>1, <1>2, <2>1, RestartBalance
<1> QED BY <1>1, <1>2, PanelBalance, AnswerBalance, RecordBalance, ChargingBalance,
           TrafficBalance, ElsewhereBalance, StepsAre

\* Nothing has happened yet
LEMMA InitLoss == Init => LossInv
<1> SUFFICES ASSUME Init PROVE LossInv
    OBVIOUS
<1> USE DEF Init
<1>1. /\ \A s \in Sequences : polls[s] = NoPoll
      /\ \A p \in Panels : panels[p].pc = "idle"
      /\ \A n \in Names, e \in Epochs : cursors[n][e] = NoCursor
      /\ meter.mode = "reset" /\ meter.last = 0
      BY DEF Idle
<1>2. Tidy
  <2>1. \A e \in Epochs : e \in Nat
        BY Constants DEF Epochs
  <2>2. NoPoll.epoch \notin Epochs /\ NoPoll.state = "none" /\ ~NoPoll.transition
        BY <2>1, LedgerAssumption DEF NoPoll
  <2>3. unmetered \in Counters /\ IsFiniteSet(charges)
        BY FS_EmptySet DEF Counters
  <2> QED BY <1>1, <2>2, <2>3 DEF Tidy, NoCursor
<1>3. Announced
      BY <1>1 DEF Announced, Resetting, Cumulating
<1>4. Metered
      BY <1>1 DEF Metered, Cumulating
<1>5. SinceSwitch
      BY <1>1 DEF SinceSwitch
<1>6. ASSUME NEW n \in Names PROVE Balanced(n)
  <2>1. ChargesOf(n) = {}
        BY DEF ChargesOf
  <2>2. SumOver(Lengths(n), ChargesOf(n)) = 0
        BY <2>1, SumOfNone
  <2>3. IsFiniteSet(Sequences) /\ IsFiniteSet(Epochs) /\ IsFiniteSet(Panels)
        BY LedgerAssumption, Constants, FS_Interval DEF Sequences, Epochs
  <2>4. /\ \A s \in Sequences : PollParts(n)[s] = 0
        /\ \A p \in Panels : PanelParts(n)[p] = 0
        /\ \A e \in Epochs : Totals(n)[e] = 0
        BY <1>1 DEF PollParts, PollPart, NoPoll, PanelParts, PanelPart, Totals, Zero
  <2>5. /\ SumOver(PollParts(n), Sequences) = 0 /\ SumOver(PanelParts(n), Panels) = 0
        /\ SumOver(Totals(n), Epochs) = 0
        BY <2>3, <2>4, SumOfZeros
  <2>6. Waiting(n) = 0 /\ unmetered[n] = 0
        BY DEF Waiting, Zero
  <2> QED BY <2>2, <2>5, <2>6 DEF Balanced
<1> QED BY <1>2, <1>3, <1>4, <1>5, <1>6 DEF LossInv, Balance

\* What was observed is the sum of the lengths of the charges
LEMMA ObservedIsSum ==
  ASSUME NEW n
  PROVE  Observed(n) = SumOver(Lengths(n), ChargesOf(n))
<1> DEFINE S == ChargesOf(n)
           f == Lengths(n)
<1>1. ASSUME NEW g
      PROVE  [t \in SUBSET S |-> IF t = {} THEN 0 ELSE (Any(t).hi - Any(t).lo) + g[t \ {Any(t)}]]
                = [t \in SUBSET S |-> Entry(f, g, t)]
  <2>1. ASSUME NEW t \in SUBSET S, t # {} PROVE Any(t).hi - Any(t).lo = f[Any(t)]
        BY <2>1 DEF Any, Lengths
  <2> QED BY <2>1 DEF Entry
<1>2. (CHOOSE g : g = [t \in SUBSET S |-> IF t = {} THEN 0
                                          ELSE (Any(t).hi - Any(t).lo) + g[t \ {Any(t)}]])
         = CHOOSE g : g = [t \in SUBSET S |-> Entry(f, g, t)]
      BY Zenon, <1>1
<1>3. Observed(n)
         = (CHOOSE g : g = [t \in SUBSET S |-> IF t = {} THEN 0
                                 ELSE (Any(t).hi - Any(t).lo) + g[t \ {Any(t)}]])[S]
      BY Zenon DEF Observed, MapThenSumSet, MapThenFoldSet, Any, ChargesOf
<1> QED BY Zenon, <1>2, <1>3 DEF SumOver, Partial

\* So are the bytes that passed
LEMMA PassedIsSum ==
  ASSUME NEW n
  PROVE  MapThenSumSet(LAMBDA e : total[e][n], Epochs) = SumOver(Totals(n), Epochs)
<1> DEFINE f == Totals(n)
<1>1. ASSUME NEW g
      PROVE  [t \in SUBSET Epochs |-> IF t = {} THEN 0 ELSE total[Any(t)][n] + g[t \ {Any(t)}]]
                = [t \in SUBSET Epochs |-> Entry(f, g, t)]
  <2>1. ASSUME NEW t \in SUBSET Epochs, t # {} PROVE total[Any(t)][n] = f[Any(t)]
        BY <2>1 DEF Any, Totals
  <2> QED BY <2>1 DEF Entry
<1>2. (CHOOSE g : g = [t \in SUBSET Epochs |-> IF t = {} THEN 0
                                               ELSE total[Any(t)][n] + g[t \ {Any(t)}]])
         = CHOOSE g : g = [t \in SUBSET Epochs |-> Entry(f, g, t)]
      BY Zenon, <1>1
<1>3. MapThenSumSet(LAMBDA e : total[e][n], Epochs)
         = (CHOOSE g : g = [t \in SUBSET Epochs |-> IF t = {} THEN 0
                                 ELSE total[Any(t)][n] + g[t \ {Any(t)}]])[Epochs]
      BY Zenon DEF MapThenSumSet, MapThenFoldSet, Any
<1> QED BY Zenon, <1>2, <1>3 DEF SumOver, Partial

\* A byte that no reading accounts for is announced: with nothing under way, no gap on
\* record and the last reading taken from the running process, every byte that passed
\* was observed, waits in the counter or was lost with a process in reset mode
\* (trafficGap, BeginTrafficReset, RecordTrafficBoundaryGap).
THEOREM LossesAreAnnounced == Spec => []LossIsAnnounced
<1>1. Init => LossInv
      BY InitLoss
<1>2. IInv /\ IInv' /\ LossInv /\ [Next]_vars => LossInv'
  <2> SUFFICES ASSUME IInv, IInv', LossInv, [Next]_vars PROVE LossInv'
      OBVIOUS
  <2>1. OrderInv /\ OrderInv' /\ Sent /\ ChargeInv /\ ChargeInv'
        BY DEF IInv
  <2>2. Tidy'
        BY <2>1, TidyStays DEF LossInv
  <2>3. Announced' /\ Metered'
        BY <2>1, AnnouncedStays, MeteredStays DEF LossInv
  <2>4. SinceSwitch'
        BY <2>1, SinceSwitchStays DEF LossInv
  <2>5. Balance'
        BY <2>1, <2>2, BalanceStays
  <2> QED BY <2>2, <2>3, <2>4, <2>5 DEF LossInv
<1>3. IInv /\ LossInv => LossIsAnnounced
  <2> SUFFICES ASSUME IInv, LossInv, Quiet, gaps = {}, ~Straggled,
                      meter.mode = "cumulative" => meter.epoch = core.epoch, NEW n \in Names
      PROVE  Observed(n) + unmetered[n] + Waiting(n) = MapThenSumSet(LAMBDA e : total[e][n], Epochs)
      BY DEF LossIsAnnounced
  <2>1. OrderInv /\ Tidy /\ ChargeInv
        BY DEF IInv, LossInv
  <2>2. TermsAre(n)
        BY <2>1, TermsTyped DEF AllTermsAre
  <2>3. Balanced(n)
        BY DEF LossInv, Balance, NoLoss, Known
  <2>4. ASSUME NEW s \in Sequences PROVE PollPart(n, s) = 0
    <3>1. polls[s] = NoPoll \/ polls[s].seen = Names
      <4>1. polls[s].state \in {"none", "done"}
            BY <2>1, NumbersTyped, PollFields DEF OrderInv, Quiet
      <4> QED BY <2>1, <4>1 DEF Tidy, Stored
    <3> QED BY <3>1 DEF PollPart, NoPoll, Zero
  <2>5. \A p \in Panels : PanelPart(n, p) = 0
        BY DEF Quiet, PanelPart
  <2>6. SumOver(PollParts(n), Sequences) = 0 /\ SumOver(PanelParts(n), Panels) = 0
        BY <2>2, <2>4, <2>5, SumOfZeros DEF TermsAre
  <2>7. SumOver(Lengths(n), ChargesOf(n)) + Waiting(n) + unmetered[n] = SumOver(Totals(n), Epochs)
        BY <2>2, <2>3, <2>6 DEF Balanced, TermsAre
  <2>8. SumOver(Lengths(n), ChargesOf(n)) + unmetered[n] + Waiting(n) = SumOver(Totals(n), Epochs)
        BY <2>2, <2>7 DEF TermsAre
  <2> QED BY <2>8, ObservedIsSum, PassedIsSum
<1> QED BY <1>1, <1>2, <1>3, AlwaysIInv, PTL DEF Spec
=============================================================================
