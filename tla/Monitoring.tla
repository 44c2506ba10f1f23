------------------------------ MODULE Monitoring ------------------------------
(* Probe samples of one machine, the hourly sweep that raises and closes its *)
(* alerts, and the messages about its provider's budgets.  The machine is a  *)
(* row of servers with a probe, or the panel's own, which samples itself,    *)
(* has no row and keeps its fields in a setting.  Time is in half days; a    *)
(* fresh sample is one of the current tick.  "hot" stands for the three      *)
(* alerts on a metric, counters for one direction (a second one counts the   *)
(* same), and resolved alerts, which nothing but the page reads, are not     *)
(* kept.                                                                     *)
EXTENDS Integers, FiniteSets, Sequences, SequencesExt

CONSTANTS
  Horizon,    \* bound on the time
  MaxReports, \* bound on the samples kept
  MaxOps,     \* bound on edits, acknowledgements, calibrations and restarts
  Limit,      \* a provider's limit, in units of the counters
  Machines    \* the machines looked at, each with the inputs it gets

Types == {"offline", "expiring", "expired", "hot", "traffic"}
Flappy == {"offline", "hot"}
Window == 2         \* reAlertWindow: a day
CycleLength == 2
Keep == 2           \* PruneMetrics keeps more than a cycle

VARIABLES
  machine,    \* [local: it is the panel's own, setting: alert_consecutive, daily: its mode,
              \*   expiry, limit: its first budgets, reports: its samples [hot, total, booted,
              \*   valid], patches: what edits change, others: the other requests made]
  now,
  row,        \* the row of servers, or the panel's asset setting
  samples,    \* server_metrics, oldest first
  calibration,\* server_traffic_calibrations: NoRow, or the cycle, the mode and the offset
  open,       \* unresolved rows of server_alerts
  streak,     \* in memory: consecutive checks a sampled condition held for
  cursor,     \* device_notify_state
  sweep,      \* the sweep under way and what it read
  edit,       \* a monitor edit under way and the row it read
  judged,     \* history, per type: [n: checks in a row, of a watched machine and of this run of
              \*   the panel, that found the condition (-1: the last one did not), at: when the
              \*   last one was]
  told,       \* history: messages accepted, per budget and period
  lost,       \* history: a delivery was not recorded
  ops

vars == <<machine, now, row, samples, calibration, open, streak, cursor, sweep, edit, judged,
          told, lost, ops>>
local == machine.local
data == <<row, samples, calibration>>
alerts == <<open, streak, judged>>
mail == <<cursor, told, lost>>

NoRow == [is |-> "none"]
Lesser(a, b) == IF a < b THEN a ELSE b
Greatest(S) == CHOOSE m \in S : \A x \in S : x <= m
Asked(request) == request \in machine.others
Spend == ops < MaxOps /\ ops' = ops + 1
Of(S, ty) == {a \in S : a.type = ty}

Slots == ({"expiry"} \X (1..Horizon + 1) \X (1..Horizon)) \cup ({"traffic"} \X (-1..Horizon) \X {0})

Init ==
  /\ machine \in Machines /\ now = 1
  /\ row \in [is : {"row"}, probe : {TRUE}, expiry : {machine.expiry}, limit : {machine.limit},
              reset : {0}, mode : {"sum"}, seen : {0}]
  /\ samples = <<>> /\ calibration = NoRow
  /\ open = {} /\ streak = [ty \in Types |-> 0] /\ cursor = {}
  /\ sweep = [at |-> "idle"] /\ edit = NoRow
  /\ judged = [ty \in Types |-> [n |-> -1, at |-> 0]]
  /\ told = [s \in Slots |-> 0] /\ lost = FALSE /\ ops = 0
-----------------------------------------------------------------------------
(* Samples                                                                   *)

\* The bytes since the previous sample: a counter below the last one counts in full after a
\* reboot, and for nothing otherwise
Delta(m) ==
  IF ~m.valid \/ samples = <<>> \/ ~Last(samples).valid THEN 0
  ELSE LET prev == Last(samples)
       IN  IF m.total >= prev.total THEN m.total - prev.total
           ELSE IF m.booted THEN m.total ELSE 0

InsertMetrics(m) ==
  samples' = Append(samples, [ts |-> now, hot |-> m.hot, total |-> m.total, valid |-> m.valid,
                              bytes |-> Delta(m)])

\* A report is refused unless its token belongs to a row whose probe is on
MonitorReport ==
  /\ ~local /\ row.is = "row" /\ row.probe /\ Len(samples) < MaxReports
  /\ \E m \in machine.reports : InsertMetrics(m)
  /\ row' = [row EXCEPT !.seen = now]
  /\ UNCHANGED <<machine, now, calibration, alerts, mail, sweep, edit, ops>>

LocalMetrics ==
  /\ local /\ Len(samples) < MaxReports
  /\ \E m \in machine.reports : InsertMetrics(m)
  /\ UNCHANGED <<machine, now, row, calibration, alerts, mail, sweep, edit, ops>>

\* The row of the panel's own machine is made up from its newest sample
Seen(r) == IF local THEN IF samples = <<>> THEN 0 ELSE Last(samples).ts ELSE r.seen
-----------------------------------------------------------------------------
(* Usage of a billing cycle                                                  *)

TrafficCycleStart(r) ==
  LET candidate == (now \div CycleLength) * CycleLength + r.reset
  IN  IF now >= candidate THEN candidate ELSE candidate - CycleLength

TrafficTotalForMode(bytes, mode) == IF mode = "sum" THEN 2 * bytes ELSE bytes

Counted(since) == SelectSeq(samples, LAMBDA m : m.valid /\ m.ts >= since)
RawUsage(since, mode) ==
  TrafficTotalForMode(FoldLeft(LAMBDA n, m : n + m.bytes, 0, Counted(since)), mode)

\* A calibration counts for the cycle and the mode it was made for, and never below zero
TrafficUsage(since, mode) ==
  LET raw == RawUsage(since, mode)
      calibrated == calibration # NoRow /\ calibration.cycle = since /\ calibration.mode = mode
      total == IF calibrated THEN raw + calibration.offset ELSE raw
  IN  [total |-> IF total < 0 THEN 0 ELSE total, calibrated |-> calibrated, n |-> Len(Counted(since))]

\* What is stored is the distance from what the samples say
SetTrafficCalibration(cycle, mode, used) ==
  calibration' = [is |-> "row", cycle |-> cycle, mode |-> mode, offset |-> used - RawUsage(cycle, mode)]

CalibrateServerTraffic ==
  /\ Asked("calibrate") /\ row.is = "row" /\ Spend
  /\ \E used \in {0, Limit} : SetTrafficCalibration(TrafficCycleStart(row), row.mode, used)
  /\ UNCHANGED <<machine, now, row, samples, alerts, mail, sweep, edit>>
-----------------------------------------------------------------------------
(* Alert rows                                                                *)

\* One observation: it merges into an unread episode, is quiet for a day after an
\* acknowledged one, and opens an episode otherwise
InsertAlert(ty) ==
  LET mine == Of(open, ty)
      new == [type |-> ty, ts |-> now, read |-> FALSE]
  IN  IF \E a \in mine : ~a.read THEN {IF a.read THEN a ELSE new : a \in mine}
      ELSE IF mine # {} /\ now - Greatest({a.ts : a \in mine}) < Window THEN mine
      ELSE mine \cup {new}

\* Mutant: only what is unread is closed
ResolveUnread(ty) == {a \in Of(open, ty) : a.read}

\* Closing an episode closes the acknowledged rows with it
ResolveAlert(ty) == {}

\* A condition that can flap counts once it held for as many checks as are asked for
AlertStreakRequired == IF machine.setting < 1 THEN 1 ELSE machine.setting
ObserveStreak(ty) == Lesser(streak[ty] + 1, AlertStreakRequired)
Needed(ty) == IF ty \in Flappy THEN AlertStreakRequired ELSE 1

MarkAlertRead ==
  /\ Asked("read")
  /\ \E a \in open : ~a.read /\ open' = (open \ {a}) \cup {[a EXCEPT !.read = TRUE]}
  /\ Spend /\ UNCHANGED <<machine, now, data, streak, judged, mail, sweep, edit>>

MarkAllAlertsRead ==
  /\ Asked("read all") /\ \E a \in open : ~a.read
  /\ open' = {[a EXCEPT !.read = TRUE] : a \in open}
  /\ Spend /\ UNCHANGED <<machine, now, data, streak, judged, mail, sweep, edit>>

Judged(ty, holds) ==
  [n |-> IF holds THEN Lesser((IF judged[ty].n < 0 THEN 0 ELSE judged[ty].n) + 1, 2) ELSE -1, at |-> now]
\* The checks in a row are broken off
Uncounted(ty) == [judged[ty] EXCEPT !.n = Lesser(@, 0)]
-----------------------------------------------------------------------------
(* The hourly sweep                                                          *)

\* Each pass works on the rows it listed, whatever happens to them meanwhile
ListServers ==
  /\ sweep.at = "idle" /\ (row.is = "row" \/ streak # [ty \in Types |-> 0])
  /\ sweep' = [at |-> "check", row |-> row]
  /\ UNCHANGED <<machine, now, data, alerts, mail, edit, ops>>

Fresh == samples # <<>> /\ Last(samples).ts = now
Holds(ty, r) ==
  CASE ty = "offline"  -> Seen(r) > 0 /\ Seen(r) < now
    [] ty = "expiring" -> r.expiry > now /\ r.expiry <= now + 1
    [] ty = "expired"  -> r.expiry > 0 /\ r.expiry <= now
    [] ty = "hot"      -> Fresh /\ Last(samples).hot
    [] OTHER           -> FALSE
Unjudged(ty) == ty = "traffic" \/ (ty = "hot" /\ ~Fresh)

\* A machine that is gone, or the panel's own while it has no sample, only loses its streaks;
\* with the probe off everything is closed; otherwise what holds is raised, what cannot be
\* told is left alone and the rest is closed
CheckProbeAlerts ==
  /\ sweep.at = "check"
  /\ LET r == sweep.row
         watched == r.is = "row" /\ (local => samples # <<>>)
         counts(ty) == watched /\ r.probe /\ Holds(ty, r)
         left(ty) == ~watched \/ (r.probe /\ Unjudged(ty))
     IN  /\ streak' = [ty \in Types |-> IF ~watched THEN 0
                                       ELSE IF counts(ty) /\ ty \in Flappy THEN ObserveStreak(ty)
                                       ELSE IF left(ty) \/ counts(ty) THEN streak[ty] ELSE 0]
         /\ open' = UNION {IF counts(ty) /\ (ty \in Flappy => streak'[ty] >= AlertStreakRequired)
                           THEN InsertAlert(ty)
                           ELSE IF counts(ty) \/ left(ty) THEN Of(open, ty) ELSE ResolveAlert(ty)
                           : ty \in Types}
         /\ judged' = [ty \in Types |-> IF ~watched THEN Uncounted(ty)
                                       ELSE IF left(ty) THEN judged[ty] ELSE Judged(ty, counts(ty))]
  /\ sweep' = [at |-> "budgets"]
  /\ UNCHANGED <<machine, now, data, mail, edit, ops>>

\* A sweep ends by pruning the samples
PruneMetrics == samples' = SelectSeq(samples, LAMBDA m : m.ts >= now - Keep)

DeviceNotifyState(kind, key) ==
  LET mine == {c \in cursor : c.kind = kind /\ c.key = key}
  IN  IF mine = {} THEN [n |-> 0, day |-> 0] ELSE CHOOSE c \in mine : TRUE

Slot(kind, key, day) == IF kind = "expiry" THEN <<kind, key, day>> ELSE <<kind, key, 0>>

MarkDeviceNotifySent(kind, key, day) ==
  LET st == DeviceNotifyState(kind, key)
  IN  cursor' = {c \in cursor : c.kind # kind \/ c.key # key}
                  \cup {[kind |-> kind, key |-> key, n |-> Lesser(st.n + 1, 2), day |-> day]}

\* A message is recorded only when some management chat accepted it; the record may fail
SendDeviceOps(kind, key, day) ==
  \/ UNCHANGED mail
  \/ /\ told' = [told EXCEPT ![Slot(kind, key, day)] = @ + 1]
     /\ \/ MarkDeviceNotifySent(kind, key, day) /\ UNCHANGED lost
        \/ ~lost /\ lost' = TRUE /\ UNCHANGED cursor

\* One message a day inside the lead time, and no more than one in all unless it is daily
ExpiryDue(r) ==
  LET st == DeviceNotifyState("expiry", r.expiry)
  IN  /\ r.expiry > now /\ r.expiry <= now + 1
      /\ st.day # now /\ (machine.daily \/ st.n < 1)

SweepDeviceNotifications ==
  /\ sweep.at = "budgets"
  /\ IF row.is = "row"
     THEN /\ LET start == TrafficCycleStart(row)
             IN  sweep' = [at |-> IF ExpiryDue(row) THEN "expiry" ELSE "traffic", row |-> row,
                           start |-> start, used |-> TrafficUsage(start, row.mode), day |-> now]
          /\ UNCHANGED samples
     ELSE sweep' = [at |-> "idle"] /\ PruneMetrics
  /\ UNCHANGED <<machine, now, row, calibration, alerts, mail, edit, ops>>

NotifyDeviceExpiry ==
  /\ sweep.at = "expiry"
  /\ SendDeviceOps("expiry", sweep.row.expiry, sweep.day)
  /\ sweep' = [sweep EXCEPT !.at = "traffic"]
  /\ UNCHANGED <<machine, now, data, alerts, edit, ops>>

\* Mutant: the cursor is looked at for the alert's episode, not for the cycle
NotifyEveryEpisode ==
  /\ sweep.at = "traffic"
  /\ LET r == sweep.row
         u == sweep.used
         reached == r.limit > 0 /\ (u.calibrated \/ u.n >= 2) /\ u.total >= r.limit
         fresh == Of(open, "traffic") = {}
     IN  /\ open' = (open \ Of(open, "traffic"))
                      \cup (IF reached THEN InsertAlert("traffic") ELSE ResolveAlert("traffic"))
         /\ judged' = [judged EXCEPT !["traffic"] = Judged("traffic", reached)]
         /\ IF reached /\ fresh
            THEN SendDeviceOps("traffic", sweep.start, sweep.day) ELSE UNCHANGED mail
  /\ PruneMetrics /\ sweep' = [at |-> "idle"]
  /\ UNCHANGED <<machine, now, row, calibration, streak, edit, ops>>

\* The threshold is judged once a usage can be told: from two samples or a calibration
NotifyDeviceTraffic ==
  /\ sweep.at = "traffic"
  /\ LET r == sweep.row
         u == sweep.used
         reached == r.limit > 0 /\ (u.calibrated \/ u.n >= 2) /\ u.total >= r.limit
     IN  /\ open' = (open \ Of(open, "traffic"))
                      \cup (IF reached THEN InsertAlert("traffic") ELSE ResolveAlert("traffic"))
         /\ judged' = [judged EXCEPT !["traffic"] = Judged("traffic", reached)]
         /\ IF reached /\ DeviceNotifyState("traffic", sweep.start).n = 0
            THEN SendDeviceOps("traffic", sweep.start, sweep.day) ELSE UNCHANGED mail
  /\ PruneMetrics /\ sweep' = [at |-> "idle"]
  /\ UNCHANGED <<machine, now, row, calibration, streak, edit, ops>>

-----------------------------------------------------------------------------
(* Administration, time and restarts                                         *)

\* An edit writes back the whole row it read, with the fields it names changed
ReadServerMonitor ==
  /\ machine.patches # {} /\ row.is = "row" /\ edit = NoRow /\ Spend /\ edit' = row
  /\ UNCHANGED <<machine, now, data, alerts, mail, sweep>>

Patched(r, p) ==
  CASE p = "probe"  -> [r EXCEPT !.probe = local \/ ~@]
    [] p = "limit"  -> [r EXCEPT !.limit = Limit - @]
    [] p = "reset"  -> [r EXCEPT !.reset = 1 - @]
    [] p = "expiry" -> [r EXCEPT !.expiry = 2]
    [] p = "mode"   -> [r EXCEPT !.mode = IF @ = "sum" THEN "rx" ELSE "sum"]

UpdateServerMonitor ==
  /\ edit # NoRow
  /\ \E p \in machine.patches :
       row' = IF row.is = "row" THEN [Patched(edit, p) EXCEPT !.seen = row.seen] ELSE row
  /\ edit' = NoRow
  /\ UNCHANGED <<machine, now, samples, calibration, alerts, mail, sweep, ops>>

\* The alerts and the samples of a deleted server stay
DeleteServer ==
  /\ Asked("delete") /\ ~local /\ row.is = "row" /\ Spend /\ row' = NoRow
  /\ UNCHANGED <<machine, now, samples, calibration, alerts, mail, sweep, edit>>

\* What is in memory is gone: the streaks, the sweep and the edit
Restart ==
  /\ Asked("restart") /\ Spend
  /\ streak' = [ty \in Types |-> 0] /\ sweep' = [at |-> "idle"] /\ edit' = NoRow
  /\ judged' = [ty \in Types |-> Uncounted(ty)]
  /\ UNCHANGED <<machine, now, data, open, mail>>

Tick ==
  /\ now < Horizon /\ now' = now + 1
  /\ UNCHANGED <<machine, data, alerts, mail, sweep, edit, ops>>

Next ==
  \/ MonitorReport \/ LocalMetrics \/ CalibrateServerTraffic \/ MarkAlertRead \/ MarkAllAlertsRead
  \/ ListServers \/ CheckProbeAlerts \/ SweepDeviceNotifications \/ NotifyDeviceExpiry
  \/ NotifyDeviceTraffic
  \/ ReadServerMonitor \/ UpdateServerMonitor \/ DeleteServer \/ Restart \/ Tick

Spec == Init /\ [][Next]_vars
-----------------------------------------------------------------------------
(* An episode follows its condition.  A type whose last check found that the *)
(* condition does not hold, or that nothing is watched, has no open alert;   *)
(* one whose condition held for all the checks asked for has one, unread or  *)
(* acknowledged less than a day before the last check; and no type has two   *)
(* unread ones.                                                              *)
EpisodesFollowConditions ==
  \A ty \in Types :
    /\ judged[ty].n = -1 => Of(open, ty) = {}
    /\ judged[ty].n >= Needed(ty)
         => \E a \in Of(open, ty) : a.read => judged[ty].at - a.ts < Window
    /\ Cardinality({a \in Of(open, ty) : ~a.read}) <= 1

(* One message for a billing cycle, and one a day about an expiry, through   *)
(* restarts, edits that move the cycle away and back, and alerts that come   *)
(* and go: unless a delivery could not be recorded.                          *)
TellsOnce == lost \/ \A s \in Slots : told[s] <= 1
=============================================================================
