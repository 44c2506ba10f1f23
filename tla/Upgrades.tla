------------------------------- MODULE Upgrades -------------------------------
(* The panel's own update and its one-step rollback: a verified download, a  *)
(* snapshot of the database, the swap of three files by renames and a        *)
(* restart in place.  Any step may fail and the machine may stop between any *)
(* two.  A binary is its version: two files of a version are the same bytes. *)
(* Progress reports and damaged snapshots (which stop an update) are left    *)
(* out.                                                                      *)
EXTENDS Integers, FiniteSets

CONSTANTS
  Versions,   \* releases, numbered
  Retention,  \* SnapshotRetention
  None,
  MaxOps      \* bound on updates and rollbacks

VARIABLES
  exe,        \* the version of the installed binary
  prev,       \* the kept binary: a version or None
  meta,       \* its sidecar: None, or [label, bytes, snap]
  snaps,      \* published snapshots: [id, source]
  pending,    \* snapshot directories not published
  process,    \* the version that is running
  job,        \* the update or rollback under way
  hosted,     \* the release of the probe binaries that are served
  sync,       \* the release whose probes a start is fetching, or None
  count,      \* snapshots taken so far
  adrift,     \* history: an install began while another version was running than installed
  spoiled,    \* history: an install that failed made a usable rollback unusable
  ops

vars == <<exe, prev, meta, snaps, pending, process, job, hosted, sync, count, adrift, spoiled, ops>>
files == <<exe, prev, meta>>
probes == <<hosted, sync>>

Idle == [at |-> "idle"]
At(pc) == job.at = pc
To(pc) == job' = [job EXCEPT !.at = pc]
Smallest(S) == CHOOSE x \in S : \A y \in S : x <= y

Init ==
  /\ exe = 1 /\ process = 1
  /\ prev \in {None, 1} /\ meta = None        \* a kept binary may predate the sidecar
  /\ snaps = {} /\ pending = 0 /\ count = 0 /\ hosted = 1 /\ sync = 1
  /\ job = Idle /\ adrift = FALSE /\ spoiled = FALSE /\ ops = 0
-----------------------------------------------------------------------------
(* Asking                                                                    *)

\* Without a sidecar the kept binary is taken as it is
CheckBackup == prev # None /\ (meta # None => meta.bytes = prev)

\* What a poll sees; the digest is only compared before a swap, the size always
RollbackState ==
  IF CheckBackup THEN [available |-> TRUE, target |-> IF meta = None THEN None ELSE meta.label]
  ELSE [available |-> FALSE, target |-> None]

Job(kind, target) ==
  [at |-> "fetch", kind |-> kind, target |-> target, had |-> CheckBackup, tmp |-> None, snap |-> 0,
   kept |-> None, new |-> None]

\* One at a time; a version that is named may be older
ApplyVersion ==
  /\ job = Idle /\ ops < MaxOps /\ ops' = ops + 1
  /\ \E v \in Versions, pinned \in BOOLEAN : job' = Job(IF pinned THEN "pinned" ELSE "latest", v)
  /\ UNCHANGED <<files, probes, snaps, pending, process, count, adrift, spoiled>>

Rollback ==
  /\ job = Idle /\ ops < MaxOps /\ ops' = ops + 1
  /\ RollbackState.available /\ job' = Job("rollback", RollbackState.target)
  /\ UNCHANGED <<files, probes, snaps, pending, process, count, adrift, spoiled>>

Fail ==
  /\ job' = Idle
  /\ spoiled' = (spoiled \/ (job.had /\ ~CheckBackup'))

\* Latest is looked up again and must be newer than what runs; a digest or signature that
\* does not match drops the download
RunFetch ==
  /\ At("fetch") /\ job.kind # "rollback"
  /\ UNCHANGED <<files, probes, snaps, pending, process, count, adrift, ops>>
  /\ \/ /\ job.kind = "pinned" \/ job.target > process
        /\ job' = [job EXCEPT !.at = "snapshot", !.tmp = job.target]
        /\ UNCHANGED spoiled
     \/ Fail

\* The kept binary is verified and copied aside
RestorePreviousBinary ==
  /\ At("fetch") /\ job.kind = "rollback"
  /\ UNCHANGED <<files, probes, snaps, pending, process, count, adrift, ops>>
  /\ \/ CheckBackup /\ job' = [job EXCEPT !.at = "snapshot", !.tmp = prev] /\ UNCHANGED spoiled
     \/ Fail
-----------------------------------------------------------------------------
(* The snapshot                                                              *)

Protected == IF meta = None THEN 0 ELSE meta.snap

\* Mutant: the oldest go, whatever they belong to
PruneOldest(keep) ==
  {s \in snaps : Cardinality({t \in snaps : t.id > s.id}) < keep}

\* The oldest go until so many are left, never the one the kept binary belongs to
PruneSnapshots(keep) ==
  {s \in snaps : \/ s.id = Protected
                 \/ Cardinality({t \in snaps : t.id > s.id /\ t.id # Protected})
                      < keep - Cardinality({t \in snaps : t.id = Protected})}

\* Room is made first: what a killed update left unpublished goes, and the protected
\* snapshot must still be there
CreateUpgradeSnapshot ==
  /\ At("snapshot")
  /\ UNCHANGED <<files, probes, process, count, adrift, ops>>
  /\ IF Protected = 0 \/ \E s \in snaps : s.id = Protected
     THEN /\ snaps' = PruneSnapshots(Retention - 1) /\ pending' = 1
          /\ To("publish") /\ UNCHANGED spoiled
     ELSE Fail /\ UNCHANGED <<snaps, pending>>

\* The copy is complete and synced before it is renamed into place; it is labelled with the
\* version that runs
PublishSnapshot ==
  /\ At("publish") /\ pending' = 0
  /\ UNCHANGED <<files, probes, process, adrift, ops>>
  /\ \/ /\ count' = count + 1
        /\ snaps' = snaps \cup {[id |-> count', source |-> process]}
        /\ job' = [job EXCEPT !.at = "stage", !.snap = count'] /\ UNCHANGED spoiled
     \/ Fail /\ UNCHANGED <<snaps, count>>
-----------------------------------------------------------------------------
(* The swap                                                                  *)

\* The installed binary is linked aside and the pair it replaces is kept
StageBackupMeta ==
  /\ At("stage")
  /\ UNCHANGED <<files, probes, snaps, pending, process, count, ops>>
  /\ \/ /\ job' = [job EXCEPT !.at = "prev", !.kept = [prev |-> prev, meta |-> meta],
                              !.new = [label |-> process, bytes |-> exe, snap |-> job.snap]]
        /\ adrift' = (adrift \/ exe # process) /\ UNCHANGED spoiled
     \/ Fail /\ UNCHANGED adrift

\* A failure after the first rename puts the kept pair back
RestorePair == prev' = job.kept.prev /\ meta' = job.kept.meta

RenamePrev ==
  /\ At("prev")
  /\ UNCHANGED <<exe, meta, probes, snaps, pending, process, count, adrift, ops>>
  /\ \/ prev' = job.new.bytes /\ To("meta") /\ UNCHANGED spoiled
     \/ UNCHANGED prev /\ Fail

RenameMeta ==
  /\ At("meta")
  /\ UNCHANGED <<exe, probes, snaps, pending, process, count, adrift, ops>>
  /\ \/ meta' = job.new /\ To("swap") /\ UNCHANGED <<prev, spoiled>>
     \/ RestorePair /\ Fail

RenameExe ==
  /\ At("swap")
  /\ UNCHANGED <<probes, snaps, pending, process, count, adrift, ops>>
  /\ \/ /\ exe' = job.tmp /\ To(IF job.kind = "rollback" THEN "restart" ELSE "probes")
        /\ UNCHANGED <<prev, meta, spoiled>>
     \/ RestorePair /\ UNCHANGED exe /\ Fail

\* The probes of the release follow the binary; one that cannot be had is left as it is
RefreshHostedProbes ==
  /\ At("probes") /\ hosted' \in {hosted, job.tmp} /\ To("restart")
  /\ UNCHANGED <<files, snaps, pending, process, sync, count, adrift, spoiled, ops>>

\* Each start fetches its own, while an update may do the same
SyncHostedProbes ==
  /\ sync # None /\ hosted' \in {hosted, sync} /\ sync' = None
  /\ UNCHANGED <<files, snaps, pending, process, job, count, adrift, spoiled, ops>>
-----------------------------------------------------------------------------
(* The restart, and a stop of the machine                                    *)

\* A failed hand-over after an update puts the previous binary back, if it can
RestartSelf ==
  /\ At("restart")
  /\ \/ process' = exe /\ sync' = exe /\ UNCHANGED <<exe, prev>>
     \/ /\ IF job.kind = "rollback" THEN UNCHANGED <<exe, prev>>
           ELSE \/ exe' = prev /\ prev' = None
                \/ UNCHANGED <<exe, prev>>
        /\ UNCHANGED <<process, sync>>
  /\ job' = Idle
  /\ UNCHANGED <<meta, snaps, pending, hosted, count, adrift, spoiled, ops>>

\* The service starts whatever is installed
Stop ==
  /\ job # Idle \/ process # exe
  /\ process' = exe /\ sync' = exe /\ job' = Idle
  /\ UNCHANGED <<files, snaps, pending, hosted, count, adrift, spoiled, ops>>

Next ==
  \/ ApplyVersion \/ Rollback \/ RunFetch \/ RestorePreviousBinary
  \/ CreateUpgradeSnapshot \/ PublishSnapshot \/ StageBackupMeta
  \/ RenamePrev \/ RenameMeta \/ RenameExe \/ RefreshHostedProbes
  \/ SyncHostedProbes \/ RestartSelf \/ Stop

Spec == Init /\ [][Next]_vars
-----------------------------------------------------------------------------
(* The way back is whole.  Whatever fails and wherever the machine stops,    *)
(* the snapshot the sidecar names is on disk and was taken by the version it *)
(* names; the kept binary that passes the digest is the version it is        *)
(* labelled with, unless an install began while another version was running  *)
(* than installed; and an install that fails leaves a rollback that could be *)
(* used as usable as it was.                                                 *)
RollbackIsWhole ==
  /\ meta # None => \E s \in snaps : s.id = meta.snap /\ s.source = meta.label
  /\ meta # None /\ meta.bytes = prev /\ ~adrift => meta.label = prev
  /\ ~spoiled
=============================================================================
