---------------------------- MODULE NodeSoftware ----------------------------
(* What the panel installs on a managed machine over SSH, and what it knows  *)
(* of it: the probe's one-click installation (api/probe_admin.go,            *)
(* InstallProbe), the reinstallation of sing-box (api/nodever_admin.go,      *)
(* UpgradeSingBox), the connection test and the pinned host key              *)
(* (api/server_admin.go, sshctl/remote.go), the binary's cached place and    *)
(* the cached capability of its build (resolveBin, statsSupported), and the  *)
(* row an administrator edits meanwhile (UpdateServer writes every column it *)
(* read).                                                                    *)
(*                                                                           *)
(* One row, which may be pointed at any of Hosts.  A machine is its host     *)
(* key, the sing-box on it (release and place) and its probe: binary,        *)
(* environment file and the token the running process reports with.          *)
(* Credentials are always present; an SSH command fails at any point; a job  *)
(* whose process is gone with a restart of the panel is not resumed.         *)
EXTENDS Naturals, FiniteSets

CONSTANTS Hosts, None,
          MaxTokens,  \* probe tokens minted
          MaxOps      \* administrators' calls, changes of machines and restarts

Places == {"opt", "stock"}   \* where a sing-box may be, most preferred first

VARIABLES row,     \* servers: [host, pin, token, enabled, bin]
          minted,  \* probe tokens drawn so far
          machines,\* [Hosts -> [key, box, probe]]
          seen,    \* node_singbox: [version, error] or None
          caps,    \* the controller's statsCap: None, TRUE, FALSE
          place,   \* its binary cache: None or [host, bin, at]
          probing, \* the probe's installation job
          upgrade, \* the sing-box job
          form,    \* a row read by UpdateServer and not written yet
          installed, \* host of the last installation answered with success, while nothing took it back
          ops

vars == <<row, minted, machines, seen, caps, place, probing, upgrade, form, installed, ops>>
software == <<seen, caps, place, upgrade>>
probe    == <<minted, probing, installed>>

Spend == ops < MaxOps /\ ops' = ops + 1
Idle  == [at |-> "idle", cfg |-> None, ok |-> FALSE]

\* What happens to the machine a step of a job works on.
OnMachine(h, m) == machines' = [machines EXCEPT ![h] = m]
-----------------------------------------------------------------------------
(* The connection                                                            *)

\* HostKeyCallback: a pinned key must match; without one the presented key is accepted.
Trusted(cfg) == cfg.pin \in {None, machines[cfg.host].key}

\* The first connection pins what it saw, whatever the row has become since it was read.
Pinned(cfg) == IF cfg.pin = None THEN [row EXCEPT !.pin = machines[cfg.host].key] ELSE row

\* A call that fails has connected, or has not.
Failed(cfg) == row' \in {cfg} \cup (IF Trusted(cfg) THEN {Pinned(cfg)} ELSE {})

\* ResolveBin: the path of the row, then the usual places.
Found(h, bin) ==
  LET has == {machines[h].box.at} \ {None} IN
  IF bin \in has THEN bin ELSE IF has = {} THEN None ELSE CHOOSE p \in has : TRUE

\* HandleAdminTestServer, or HandleAdminClearServerHostKey, which drops the pin first:
\* connect, ask for the version, record it and (test) the place the binary was found at.
HandleAdminTestServer(clear) ==
  LET cfg == IF clear THEN [row EXCEPT !.pin = None] ELSE row
      box == machines[cfg.host].box
      at  == Found(cfg.host, cfg.bin) IN
  /\ Spend
  /\ \/ /\ Trusted(cfg) /\ at # None
        /\ row' = [Pinned(cfg) EXCEPT !.bin = IF clear THEN @ ELSE at]
        /\ seen' = (IF clear THEN seen ELSE [version |-> box.version, error |-> FALSE])
     \/ Failed(cfg) /\ UNCHANGED seen
  /\ UNCHANGED <<machines, caps, place, upgrade, probe, form>>
-----------------------------------------------------------------------------
(* The row                                                                   *)

\* HandleAdminUpdateServer reads the row, then the body of the request onto it ...
ReadForUpdate ==
  /\ Spend /\ form = None /\ form' = row
  /\ UNCHANGED <<row, machines, software, probe>>

\* ... and UpdateServer writes every column it read but the pin; a new host drops the pin in
\* a statement of its own.
UpdateServer(h) ==
  /\ form # None /\ form' = None
  /\ row' = [form EXCEPT !.host = h, !.pin = IF h # form.host THEN None ELSE row.pin]
  /\ installed' = IF h # row.host \/ form.token # row.token \/ form.enabled # row.enabled THEN None ELSE installed
  /\ UNCHANGED <<machines, minted, probing, software, ops>>

\* The machine is reinstalled: a new host key, no probe and, until someone installs it, no
\* sing-box; or an operator moves or replaces the binary by hand.
Reinstall(h) ==
  /\ Spend
  /\ OnMachine(h, [key |-> IF machines[h].key = "k1" THEN "k2" ELSE "k1", box |-> [version |-> 0, at |-> None],
                   probe |-> [bin |-> FALSE, env |-> None, run |-> None]])
  /\ installed' = IF installed = h THEN None ELSE installed
  /\ UNCHANGED <<row, minted, probing, software, form>>

ReplaceBinary(h, at) ==
  /\ Spend /\ OnMachine(h, [machines[h] EXCEPT !.box = [version |-> 2, at |-> at]])
  /\ UNCHANGED <<row, probe, software, form>>
-----------------------------------------------------------------------------
(* The probe                                                                 *)

\* Mutant: every click draws a new token.
AlwaysMint ==
  /\ Spend /\ probing.at = "idle" /\ minted < MaxTokens
  /\ minted' = minted + 1
  /\ row' = [row EXCEPT !.token = minted', !.enabled = TRUE]
  /\ probing' = [at |-> "dial", cfg |-> row', ok |-> FALSE]
  /\ UNCHANGED <<machines, software, form, installed>>

\* HandleAdminProbeUpgrade: a row without a token draws one, the job slot is claimed, the
\* token is stored beside nothing else (EnableServerProbe) and the row read again for the job.
HandleAdminProbeUpgrade ==
  /\ Spend /\ probing.at = "idle"
  /\ row.token = None => minted < MaxTokens
  /\ minted' = IF row.token = None THEN minted + 1 ELSE minted
  /\ row' = [row EXCEPT !.token = IF @ = None THEN minted' ELSE @, !.enabled = TRUE]
  /\ probing' = [at |-> "dial", cfg |-> row', ok |-> FALSE]
  /\ UNCHANGED <<machines, software, form, installed>>

\* UpgradeRemoteProbe connects (trust on first use) before it uploads.
DialForProbe ==
  /\ probing.at = "dial"
  /\ Trusted(probing.cfg) /\ row' = Pinned(probing.cfg)
  /\ probing' = [probing EXCEPT !.at = "install", !.cfg.pin = machines[probing.cfg.host].key]
  /\ UNCHANGED <<minted, machines, software, form, installed, ops>>

\* InstallProbe, one elevated command after the other: the binary renamed into place, the
\* environment, the unit, then the restart and the question whether it is active.
InstallProbe ==
  /\ probing.at \in {"install", "env", "restart"}
  /\ LET h == probing.cfg.host IN
     \/ /\ probing.at = "install" /\ OnMachine(h, [machines[h] EXCEPT !.probe.bin = TRUE])
        /\ probing' = [probing EXCEPT !.at = "env"]
     \/ /\ probing.at = "env" /\ OnMachine(h, [machines[h] EXCEPT !.probe.env = probing.cfg.token])
        /\ probing' = [probing EXCEPT !.at = "restart"]
     \/ /\ probing.at = "restart" /\ machines[h].probe.bin
        /\ OnMachine(h, [machines[h] EXCEPT !.probe.run = machines[h].probe.env])
        /\ probing' = [probing EXCEPT !.at = "done", !.ok = TRUE]
  /\ UNCHANGED <<row, minted, software, form, installed, ops>>

\* A command fails or the job's five minutes are over: what was done stays done.  The service
\* may have been restarted all the same.
InstallProbeFails ==
  /\ probing.at \in {"dial", "install", "env", "restart"}
  /\ \/ UNCHANGED machines
     \/ /\ probing.at = "restart"
        /\ \E run \in {None, machines[probing.cfg.host].probe.env} :
             OnMachine(probing.cfg.host, [machines[probing.cfg.host] EXCEPT !.probe.run = run])
  /\ probing' = [probing EXCEPT !.at = "done"]
  /\ installed' = IF machines'[probing.cfg.host].probe.run = None /\ installed = probing.cfg.host
                  THEN None ELSE installed
  /\ UNCHANGED <<row, minted, software, form, ops>>

\* FinishProbeUpgrade publishes the answer.  A success is taken back only by what happened to
\* the row or the machine while the job ran.
FinishProbeUpgrade ==
  /\ probing.at = "done" /\ probing' = Idle
  /\ LET h == probing.cfg.host IN
     installed' = IF ~probing.ok THEN installed
                  ELSE IF row.host = h /\ row.token = probing.cfg.token /\ row.enabled
                          /\ machines[h].key = probing.cfg.pin /\ machines[h].probe.bin
                       THEN h ELSE None
  /\ UNCHANGED <<row, minted, machines, software, form, ops>>
-----------------------------------------------------------------------------
(* sing-box                                                                  *)

\* SupportsStatsAPI through statsSupported: a cached yes stands, a cached no is asked again
\* once it is old; the binary's place comes from the cache when it was found for this host and
\* path.  A failure keeps the version last seen and counts as a no.
StatsSupported ==
  /\ caps # TRUE
  /\ LET cached == place # None /\ place.host = row.host /\ place.bin = row.bin
         at  == IF cached THEN place.at ELSE Found(row.host, row.bin)
         box == machines[row.host].box IN
     \/ /\ Trusted(row) /\ at # None /\ at = box.at
        /\ row' = Pinned(row) /\ caps' = TRUE
        /\ place' = [host |-> row.host, bin |-> row.bin, at |-> at]
        /\ seen' = [version |-> box.version, error |-> FALSE]
     \/ /\ caps' = FALSE /\ Failed(row) /\ UNCHANGED place
        /\ seen' = [version |-> IF seen = None THEN 0 ELSE seen.version, error |-> TRUE]
  /\ UNCHANGED <<machines, upgrade, probe, form, ops>>

\* HandleAdminNodeSingboxUpgrade: one job per node; the row is read when it starts.
HandleAdminNodeSingboxUpgrade ==
  /\ Spend /\ upgrade.at = "idle" /\ upgrade' = [at |-> "run", cfg |-> row, ok |-> FALSE]
  /\ UNCHANGED <<row, machines, seen, caps, place, probe, form>>

\* UpgradeSingBox: the embedded script runs to its end, or the job ends before it does.
UpgradeSingBox ==
  /\ upgrade.at = "run" /\ Trusted(upgrade.cfg)
  /\ row' = Pinned(upgrade.cfg)
  /\ LET h == upgrade.cfg.host IN OnMachine(h, [machines[h] EXCEPT !.box = [version |-> 1, at |-> "stock"]])
  /\ upgrade' \in {[upgrade EXCEPT !.at = "done", !.ok = ok] : ok \in BOOLEAN}
  /\ UNCHANGED <<seen, caps, place, probe, form, ops>>

UpgradeFails ==
  /\ upgrade.at = "run" /\ upgrade' = [upgrade EXCEPT !.at = "done"]
  /\ UNCHANGED <<row, machines, seen, caps, place, probe, form, ops>>

\* FinishUpgrade, then RefreshVersions after a success: both caches are dropped and the node
\* is asked again (StatsSupported).
FinishUpgrade ==
  /\ upgrade.at = "done" /\ upgrade' = Idle
  /\ IF upgrade.ok THEN caps' = None /\ place' = None ELSE UNCHANGED <<caps, place>>
  /\ UNCHANGED <<row, machines, seen, probe, form, ops>>

RefreshVersions ==
  /\ Spend /\ caps' = None /\ place' = None
  /\ UNCHANGED <<row, machines, seen, upgrade, probe, form>>

\* The panel restarts: jobs, caches and requests are gone; commands sent may have finished.
Restart ==
  /\ Spend /\ caps' = None /\ place' = None /\ upgrade' = Idle /\ probing' = Idle /\ form' = None
  /\ UNCHANGED <<row, minted, machines, seen, installed>>
-----------------------------------------------------------------------------
Init ==
  /\ \E h \in Hosts, b \in Places \cup {None} : row = [host |-> h, pin |-> None, token |-> None, enabled |-> FALSE, bin |-> b]
  /\ machines = [h \in Hosts |-> [key |-> "k1", box |-> [version |-> 1, at |-> "stock"],
                                  probe |-> [bin |-> FALSE, env |-> None, run |-> None]]]
  /\ minted = 0 /\ seen = None /\ caps = None /\ place = None
  /\ probing = Idle /\ upgrade = Idle /\ form = None /\ installed = None /\ ops = 0

Next ==
  \/ \E clear \in BOOLEAN : HandleAdminTestServer(clear)
  \/ ReadForUpdate \/ \E h \in Hosts : UpdateServer(h)
  \/ \E h \in Hosts : Reinstall(h) \/ \E at \in Places : ReplaceBinary(h, at)
  \/ HandleAdminProbeUpgrade \/ DialForProbe \/ InstallProbe \/ InstallProbeFails \/ FinishProbeUpgrade
  \/ StatsSupported \/ HandleAdminNodeSingboxUpgrade \/ UpgradeSingBox \/ UpgradeFails \/ FinishUpgrade
  \/ RefreshVersions \/ Restart

Spec == Init /\ [][Next]_vars
-----------------------------------------------------------------------------
(* Properties                                                                *)

\* An installation the panel called a success leaves a probe whose reports the panel accepts
\* (GetServerByProbeToken), and it stays so through later clicks, failed or interrupted
\* installations and restarts of the panel, until the row is pointed elsewhere or written back
\* from before the token existed, or the machine is reinstalled or its service found stopped
\* (HandleAdminProbeUpgrade, InstallProbe).
InstalledProbesReport ==
  installed # None =>
    /\ row.enabled /\ row.host = installed
    /\ machines[installed].probe.run = row.token
=============================================================================
