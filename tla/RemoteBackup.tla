----------------------------- MODULE RemoteBackup -----------------------------
(* Backups of the database in a remote object store, and the records of      *)
(* them, which are one setting that is read and written back whole.  A       *)
(* backup runs in the background and then removes what retention no longer   *)
(* keeps; a record may be deleted by hand meanwhile.  Time is in days.       *)
(* Writes of settings succeed, and reading the records and writing them back *)
(* without a remote call between is one step.  Keys are the records' ids:    *)
(* two backups within one second are not considered.                         *)
EXTENDS Integers, FiniteSets

CONSTANTS
  Buckets,
  Optional,    \* the sources of the recovery manifest, each with whether it is optional
  MaxRecords,  \* maxRecords
  MaxBackups,  \* bound on backups
  MaxOps,      \* bound on edits, deletions and stops
  Horizon      \* bound on the time

VARIABLES
  config,      \* the bucket of the setting
  schedule,    \* the setting: [on, days, count]
  cron,        \* the timer is running
  records,     \* the setting: [id, status, expires]
  objects,     \* what the buckets hold: <<bucket, id>>
  running,     \* in memory: a backup is under way
  job,         \* the backup under way
  delete,      \* a deletion by hand under way
  taken,       \* backups started
  now,
  excused,     \* history: something the program leaves behind happened (see the property)
  ops

vars == <<config, schedule, cron, records, objects, running, job, delete, taken, now, excused, ops>>
settings == <<config, schedule, cron>>

Idle == [at |-> "idle"]
To(pc) == job' = [job EXCEPT !.at = pc]
Spend == ops < MaxOps /\ ops' = ops + 1
Record(id, status, expires) == [id |-> id, status |-> status, expires |-> expires]
Recorded(id) == \E r \in records : r.id = id
Newest(S, n) == {r \in S : Cardinality({x \in S : x.id > r.id}) < n}
Completed(S) == {r \in S : r.status = "completed"}

Schedules == {[on |-> FALSE, days |-> 1, count |-> 0], [on |-> TRUE, days |-> 0, count |-> 1]}

Init ==
  /\ config \in Buckets /\ schedule \in Schedules /\ cron = schedule.on
  /\ records = {} /\ objects = {} /\ running = FALSE
  /\ job = Idle /\ delete = Idle /\ taken = 0 /\ now = 0 /\ excused = FALSE /\ ops = 0
-----------------------------------------------------------------------------
(* Settings                                                                  *)

\* Records do not say which bucket they are in
SaveConfig ==
  /\ Spend /\ \E b \in Buckets \ {config} : config' = b
  /\ excused' = (excused \/ records # {} \/ objects # {})
  /\ UNCHANGED <<schedule, cron, records, objects, running, job, delete, taken, now>>

ApplySchedule(s) == cron' = s.on

SaveSchedule ==
  /\ Spend /\ \E s \in Schedules \ {schedule} : schedule' = s /\ ApplySchedule(s)
  /\ UNCHANGED <<config, records, objects, running, job, delete, taken, now, excused>>

\* The newest are kept when there are too many, whatever became of them
SaveRecords(S) == records' = Newest(S, MaxRecords)
Cut(S) == Completed(S \ Newest(S, MaxRecords)) # {}

\* A record that was deleted meanwhile is not written
UpdateRecord(r) ==
  IF Recorded(r.id) THEN SaveRecords({x \in records : x.id # r.id} \cup {r}) ELSE UNCHANGED records
-----------------------------------------------------------------------------
(* A backup                                                                  *)

\* One at a time; by hand or by the timer
StartBackup ==
  /\ ~running /\ taken < MaxBackups /\ taken' = taken + 1
  /\ \/ cron /\ UNCHANGED ops
     \/ Spend
  /\ running' = TRUE
  /\ LET all == records \cup {Record(taken', "pending", 0)}
     IN  SaveRecords(all) /\ excused' = (excused \/ Cut(all))
  /\ job' = [at |-> "snapshot", id |-> taken', bucket |-> config, read |-> {}, keep |-> {}, doomed |-> {},
             gone |-> FALSE]
  /\ UNCHANGED <<settings, objects, delete, now>>

FailRecord ==
  /\ UpdateRecord(Record(job.id, "failed", 0))
  /\ job' = Idle /\ running' = FALSE

\* Every file of the manifest goes in; one that is optional may be missing; one that changes,
\* is a link or a live database stops the backup
CreateRecoveryArchive(found) ==
  \A s \in DOMAIN Optional : found[s] = "file" \/ (found[s] = "gone" /\ Optional[s])

Snapshot ==
  /\ job.at = "snapshot"
  /\ \E found \in [DOMAIN Optional -> {"file", "gone", "unfit"}] :
       IF CreateRecoveryArchive(found) THEN To("put") /\ UNCHANGED <<records, running>> ELSE FailRecord
  /\ UNCHANGED <<settings, objects, delete, taken, now, excused, ops>>

\* An upload that fails may have left its object
RunBackup ==
  /\ job.at = "put"
  /\ \/ /\ objects' = objects \cup {<<job.bucket, job.id>>}
        /\ To("record") /\ UNCHANGED <<records, running, excused>>
     \/ /\ FailRecord /\ objects' \in {objects, objects \cup {<<job.bucket, job.id>>}}
        /\ excused' = (excused \/ objects' # objects)
  /\ UNCHANGED <<settings, delete, taken, now, ops>>

Complete ==
  /\ job.at = "record"
  /\ UpdateRecord(Record(job.id, "completed", IF schedule.days > 0 THEN now + schedule.days ELSE 0))
  /\ excused' = (excused \/ ~Recorded(job.id))
  /\ To("cleanup")
  /\ UNCHANGED <<settings, objects, running, delete, taken, now, ops>>

\* Neither beyond the count nor past its date
Kept(S) ==
  {r \in Completed(S) :
     /\ schedule.count > 0 => Cardinality({x \in Completed(S) : x.id > r.id}) < schedule.count
     /\ r.expires > 0 => r.expires > now}

Cleanup ==
  /\ job.at = "cleanup"
  /\ job' = [job EXCEPT !.at = "remove", !.read = records, !.doomed = Completed(records) \ Kept(records),
                        !.keep = records \ (Completed(records) \ Kept(records))]
  /\ UNCHANGED <<settings, records, objects, running, delete, taken, now, excused, ops>>

\* Mutant: a record goes even when its object could not be removed
RemoveAnyway ==
  /\ job.at = "remove" /\ job.doomed # {}
  /\ \E r \in job.doomed :
       \/ /\ objects' = objects \ {<<job.bucket, r.id>>}
          /\ job' = [job EXCEPT !.doomed = @ \ {r}, !.gone = TRUE]
       \/ job' = [job EXCEPT !.doomed = @ \ {r}] /\ UNCHANGED objects
  /\ UNCHANGED <<settings, records, running, delete, taken, now, excused, ops>>

\* A record whose object could not be removed stays
RemoveExpired ==
  /\ job.at = "remove" /\ job.doomed # {}
  /\ \E r \in job.doomed :
       \/ /\ objects' = objects \ {<<job.bucket, r.id>>}
          /\ job' = [job EXCEPT !.doomed = @ \ {r}, !.gone = TRUE]
       \/ job' = [job EXCEPT !.doomed = @ \ {r}, !.keep = @ \cup {r}] /\ UNCHANGED objects
  /\ UNCHANGED <<settings, records, running, delete, taken, now, excused, ops>>

\* What is written back is what was read, less what went
SaveRemaining ==
  /\ job.at = "remove" /\ job.doomed = {}
  /\ SaveRecords(job.keep) /\ excused' = (excused \/ records # job.read)
  /\ job' = Idle /\ running' = FALSE
  /\ UNCHANGED <<settings, objects, delete, taken, now, ops>>
-----------------------------------------------------------------------------
(* A deletion by hand                                                        *)

ReadRecords ==
  /\ delete = Idle /\ Spend
  /\ \E r \in records : delete' = [at |-> "remove", record |-> r, read |-> records, bucket |-> config]
  /\ UNCHANGED <<settings, records, objects, running, job, taken, now, excused>>

\* Only a completed backup has an object to remove; a refusal ends it
RemoveObject ==
  /\ delete.at = "remove"
  /\ \/ /\ objects' = IF delete.record.status = "completed"
                      THEN objects \ {<<delete.bucket, delete.record.id>>} ELSE objects
        /\ delete' = [delete EXCEPT !.at = "save"]
     \/ delete.record.status = "completed" /\ delete' = Idle /\ UNCHANGED objects
  /\ UNCHANGED <<settings, records, running, job, taken, now, excused, ops>>

Delete ==
  /\ delete.at = "save"
  /\ SaveRecords(delete.read \ {delete.record})
  /\ excused' = (excused \/ records # delete.read)
  /\ delete' = Idle
  /\ UNCHANGED <<settings, objects, running, job, taken, now, ops>>
-----------------------------------------------------------------------------
(* The process stops and starts                                              *)

\* What ran is forgotten: its record stays as it was
Restart ==
  /\ Spend /\ job' = Idle /\ delete' = Idle /\ running' = FALSE
  /\ ApplySchedule(schedule)
  /\ excused' = (excused \/ job.at = "record" \/ (job.at = "remove" /\ job.gone) \/ delete.at = "save")
  /\ UNCHANGED <<config, schedule, records, objects, taken, now>>

Tick ==
  /\ now < Horizon /\ now' = now + 1
  /\ UNCHANGED <<settings, records, objects, running, job, delete, taken, excused, ops>>

Next ==
  \/ SaveConfig \/ SaveSchedule \/ StartBackup \/ Snapshot \/ RunBackup \/ Complete
  \/ Cleanup \/ RemoveExpired \/ SaveRemaining \/ ReadRecords \/ RemoveObject \/ Delete
  \/ Restart \/ Tick

Spec == Init /\ [][Next]_vars
-----------------------------------------------------------------------------
(* Backups are accounted for.  Between the steps of backups and deletions    *)
(* that touch the bucket, every completed record has its object and every    *)
(* object its completed record, and a backup counts as running exactly while *)
(* one is: unless the bucket was changed, an upload failed after storing its *)
(* object, the records were too many, the process stopped between the object *)
(* store and the setting, or two writers of the setting overlapped, all of   *)
(* which the program is seen to leave behind.                                *)
BackupsAreAccountedFor ==
  ~excused /\ delete = Idle /\ job.at \in {"idle", "snapshot", "put", "cleanup"}
    => /\ \A r \in Completed(records) : <<config, r.id>> \in objects
       /\ \A o \in objects : \E r \in Completed(records) : r.id = o[2] /\ config = o[1]
       /\ running <=> job # Idle
=============================================================================
