------------------------------- MODULE Panel -------------------------------
(* The parts that keep the panel itself: accounts, credentials, codes,       *)
(* alerts, updates, backups, the database and messages. They share no table  *)
(* that one changes while another reads it, so a behaviour plays one of      *)
(* them, the scenario; the variables keep the names of the parts' own, and   *)
(* one that several parts use is each part's in its own scenario.            *)
EXTENDS Integers, Sequences, FiniteSets

CONSTANTS
  None,
  MaxOps,      \* per part: bound on requests
  Horizon,     \* per part: bound on the time
  Users, Jobs,
  Addresses, Subjects, MaxUses,                       \* accounts
  Admins, Names, Devices, Cooldown, Grace,            \* credentials
  Codes, Worth, Limit, Lock, MaxBalance,              \* point codes
  Machines, MaxReports, Allowance,                    \* monitoring
  Versions, Retention,                                \* upgrades
  Buckets, Optional, MaxRecords, MaxBackups,          \* backup
  Packages, Chain,                                    \* migrations
  Members, Chats, MaxTokens                           \* notifications

VARIABLES
  scenario,
  \* what several parts have
  user, session, code, job, now, told, sweep, ops,
  \* accounts
  token, identity,
  \* credentials
  alias, apiToken, allowed, dead, kept, hasty, raced,
  \* point codes
  attempt, balance, banned, ledger, wrong,
  \* monitoring
  machine, row, samples, calibration, open, streak, cursor, edit, judged, lost,
  \* upgrades
  exe, prev, meta, snaps, pending, process, hosted, sync, count, adrift, spoiled,
  \* backup
  config, schedule, cron, records, objects, running, delete, taken, excused,
  \* migrations
  db, binary, serving, adopted, held, sold, chosen,
  \* notifications
  bind, tokens, updates, offset, mail, plan, channels, claims, reached, unsure, rows, workers

accountsOnly == <<token, identity>>
credentialsOnly == <<alias, apiToken, allowed, dead, kept, hasty, raced>>
codesOnly == <<attempt, balance, banned, ledger, wrong>>
monitoringOnly == <<machine, row, samples, calibration, open, streak, cursor, edit, judged, lost>>
upgradesOnly == <<exe, prev, meta, snaps, pending, process, hosted, sync, count, adrift, spoiled>>
backupOnly == <<config, schedule, cron, records, objects, running, delete, taken, excused>>
migrationsOnly == <<db, binary, serving, adopted, held, sold, chosen>>
notificationsOnly == <<bind, tokens, updates, offset, mail, plan, channels, claims, reached, unsure,
                       rows, workers>>

vars == <<scenario, user, session, code, job, now, told, sweep, ops, accountsOnly, credentialsOnly,
          codesOnly, monitoringOnly, upgradesOnly, backupOnly, migrationsOnly, notificationsOnly>>
-----------------------------------------------------------------------------
(* What an instance has to give: ids that are none of the values which stand *)
(* for no id, and data of the shape the part reads                           *)

\* The release the panel is first installed with
UpgradesSane == 1 \in Versions

\* A page of the list of records has a size
BackupSane == MaxRecords \in Nat

\* Codes are worth something, the limit and the lock are positive, as the settings are
CodeRow == [points : Nat, expires : Nat, disabled : BOOLEAN, by : Users \cup {None}]
AttemptRow == [failures : Nat, until : Nat]
CodesSane ==
  /\ Worth \subseteq Nat /\ Limit \in Nat \ {0} /\ Lock \in Nat \ {0}
  /\ None \notin Users /\ None \notin CodeRow /\ None \notin AttemptRow

\* Users can be counted, a code has a number of places, and no identity is None
AccountsSane ==
  /\ IsFiniteSet(Users) /\ MaxUses \in Nat
  /\ None \notin [user : Users, prov : BOOLEAN]

\* A cooldown is a number of days, a member has a browser, and no name or password is None
CredsSane ==
  /\ Cooldown \in Nat /\ Devices # {}
  /\ None \notin Names /\ None \notin [secret : Nat] /\ None \notin [own : Names]

\* A sweep lists the members
NoticesSane == IsFiniteSet(Members)

\* The setting of how many hot checks in a row make an alert is a number
MonitoringSane == \A m \in Machines : m.setting \in Int

ASSUME PanelIsSane ==
  /\ AccountsSane /\ CredsSane /\ CodesSane /\ MonitoringSane
  /\ UpgradesSane /\ BackupSane /\ NoticesSane
-----------------------------------------------------------------------------
Accounts == INSTANCE Accounts WITH MaxOps <- MaxOps["accounts"]
Credentials == INSTANCE Credentials WITH MaxOps <- MaxOps["credentials"], Horizon <- Horizon["credentials"]
PointCodes == INSTANCE PointCodes WITH Horizon <- Horizon["codes"]
Monitoring == INSTANCE Monitoring WITH
  MaxOps <- MaxOps["monitoring"], Horizon <- Horizon["monitoring"], Limit <- Allowance
Upgrades == INSTANCE Upgrades WITH MaxOps <- MaxOps["upgrades"]
RemoteBackup == INSTANCE RemoteBackup WITH MaxOps <- MaxOps["backup"], Horizon <- Horizon["backup"]
Migrations == INSTANCE Migrations WITH MaxOps <- MaxOps["migrations"], Horizon <- Horizon["migrations"]
Notifications == INSTANCE Notifications WITH MaxOps <- MaxOps["notifications"], Users <- Members
-----------------------------------------------------------------------------
\* What a scenario does not use stays empty
NoAccounts == /\ token = None /\ identity = None
NoCredentials == /\ alias = None /\ apiToken = None /\ allowed = None /\ dead = None
                 /\ kept = None /\ hasty = None /\ raced = None
NoCodes == /\ attempt = None /\ balance = None /\ banned = None /\ ledger = None /\ wrong = None
NoMonitoring == /\ machine = None /\ row = None /\ samples = None /\ calibration = None
                /\ open = None /\ streak = None /\ cursor = None /\ edit = None /\ judged = None
                /\ lost = None
NoUpgrades == /\ exe = None /\ prev = None /\ meta = None /\ snaps = None /\ pending = None
              /\ process = None /\ hosted = None /\ sync = None /\ count = None /\ adrift = None
              /\ spoiled = None
NoBackup == /\ config = None /\ schedule = None /\ cron = None /\ records = None
            /\ objects = None /\ running = None /\ delete = None /\ taken = None
            /\ excused = None
NoMigrations == /\ db = None /\ binary = None /\ serving = None /\ adopted = None /\ held = None
                /\ sold = None /\ chosen = None
NoNotifications == /\ bind = None /\ tokens = None /\ updates = None /\ offset = None
                   /\ mail = None /\ plan = None /\ channels = None /\ claims = None
                   /\ reached = None /\ unsure = None /\ rows = None /\ workers = None

Init ==
  \/ /\ scenario = "accounts" /\ Accounts!Init
     /\ NoCredentials /\ NoCodes /\ NoMonitoring /\ NoUpgrades /\ NoBackup /\ NoMigrations
     /\ NoNotifications /\ now = None /\ told = None /\ sweep = None
  \/ /\ scenario = "credentials" /\ Credentials!Init
     /\ NoAccounts /\ NoCodes /\ NoMonitoring /\ NoUpgrades /\ NoBackup /\ NoMigrations
     /\ NoNotifications /\ code = None /\ told = None /\ sweep = None
  \/ /\ scenario = "codes" /\ PointCodes!Init
     /\ NoAccounts /\ NoCredentials /\ NoMonitoring /\ NoUpgrades /\ NoBackup /\ NoMigrations
     /\ NoNotifications /\ user = None /\ session = None /\ job = None /\ told = None
     /\ sweep = None /\ ops = None
  \/ /\ scenario = "monitoring" /\ Monitoring!Init
     /\ NoAccounts /\ NoCredentials /\ NoCodes /\ NoUpgrades /\ NoBackup /\ NoMigrations
     /\ NoNotifications /\ user = None /\ session = None /\ code = None /\ job = None
  \/ /\ scenario = "upgrades" /\ Upgrades!Init
     /\ NoAccounts /\ NoCredentials /\ NoCodes /\ NoMonitoring /\ NoBackup /\ NoMigrations
     /\ NoNotifications /\ user = None /\ session = None /\ code = None /\ now = None
     /\ told = None /\ sweep = None
  \/ /\ scenario = "backup" /\ RemoteBackup!Init
     /\ NoAccounts /\ NoCredentials /\ NoCodes /\ NoMonitoring /\ NoUpgrades /\ NoMigrations
     /\ NoNotifications /\ user = None /\ session = None /\ code = None /\ told = None
     /\ sweep = None
  \/ /\ scenario = "migrations" /\ Migrations!Init
     /\ NoAccounts /\ NoCredentials /\ NoCodes /\ NoMonitoring /\ NoUpgrades /\ NoBackup
     /\ NoNotifications /\ user = None /\ session = None /\ code = None /\ job = None
     /\ told = None /\ sweep = None
  \/ /\ scenario = "notifications" /\ Notifications!Init
     /\ NoAccounts /\ NoCredentials /\ NoCodes /\ NoMonitoring /\ NoUpgrades /\ NoBackup
     /\ NoMigrations /\ user = None /\ session = None /\ code = None /\ job = None /\ now = None

Next ==
  /\ UNCHANGED scenario
  /\ \/ /\ scenario = "accounts" /\ Accounts!Next
        /\ UNCHANGED <<now, told, sweep, credentialsOnly, codesOnly, monitoringOnly,
                       upgradesOnly, backupOnly, migrationsOnly, notificationsOnly>>
     \/ /\ scenario = "credentials" /\ Credentials!Next
        /\ UNCHANGED <<code, told, sweep, accountsOnly, codesOnly, monitoringOnly,
                       upgradesOnly, backupOnly, migrationsOnly, notificationsOnly>>
     \/ /\ scenario = "codes" /\ PointCodes!Next
        /\ UNCHANGED <<user, session, job, told, sweep, ops, accountsOnly, credentialsOnly,
                       monitoringOnly, upgradesOnly, backupOnly, migrationsOnly,
                       notificationsOnly>>
     \/ /\ scenario = "monitoring" /\ Monitoring!Next
        /\ UNCHANGED <<user, session, code, job, accountsOnly, credentialsOnly, codesOnly,
                       upgradesOnly, backupOnly, migrationsOnly, notificationsOnly>>
     \/ /\ scenario = "upgrades" /\ Upgrades!Next
        /\ UNCHANGED <<user, session, code, now, told, sweep, accountsOnly, credentialsOnly,
                       codesOnly, monitoringOnly, backupOnly, migrationsOnly,
                       notificationsOnly>>
     \/ /\ scenario = "backup" /\ RemoteBackup!Next
        /\ UNCHANGED <<user, session, code, told, sweep, accountsOnly, credentialsOnly,
                       codesOnly, monitoringOnly, upgradesOnly, migrationsOnly,
                       notificationsOnly>>
     \/ /\ scenario = "migrations" /\ Migrations!Next
        /\ UNCHANGED <<user, session, code, job, told, sweep, accountsOnly, credentialsOnly,
                       codesOnly, monitoringOnly, upgradesOnly, backupOnly, notificationsOnly>>
     \/ /\ scenario = "notifications" /\ Notifications!Next
        /\ UNCHANGED <<user, session, code, job, now, accountsOnly, credentialsOnly,
                       codesOnly, monitoringOnly, upgradesOnly, backupOnly, migrationsOnly>>

Spec == Init /\ [][Next]_vars
-----------------------------------------------------------------------------
(* Each property is stated in the module of the part it is about; here it is *)
(* asked of the scenario that plays it                                       *)

\* Whoever got in was let in by a rule that held, and a code admits no more than it says
AdmissionIsSettled == scenario = "accounts" => Accounts!AdmissionIsSettled

\* An alert is open while its condition holds, and once
EpisodesFollowConditions == scenario = "monitoring" => Monitoring!EpisodesFollowConditions

\* A budget message is sent once per period
TellsOnce == scenario = "monitoring" => Monitoring!TellsOnce

\* What a rollback would put back is complete
RollbackIsWhole == scenario = "upgrades" => Upgrades!RollbackIsWhole

\* Records and stored backups agree
BackupsAreAccountedFor == scenario = "backup" => RemoteBackup!BackupsAreAccountedFor

\* An older database keeps its accounts' plans, traffic and credentials
AdoptionKeepsAccounts == scenario = "migrations" => Migrations!AdoptionKeepsAccounts

\* Reminders and broadcasts are heard once, and bookkeeping says so
MessagesAreAccountedFor == scenario = "notifications" => Notifications!MessagesAreAccountedFor

\* A reset, a new password and a ban take away what they should, and nothing else
CredentialsAreSettled == scenario = "credentials" => Credentials!CredentialsAreSettled

\* A code pays once, and the lockout holds
CodesPayOnce == scenario = "codes" => PointCodes!CodesPayOnce
=============================================================================
