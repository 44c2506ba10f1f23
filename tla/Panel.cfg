\* Accounts, credentials, codes, alerts, updates, backups, migrations and messages, each on an instance
\* of its own.
SPECIFICATION Spec

CONSTANTS
    None = None
    MaxOps <- MCMaxOps
    Horizon <- MCHorizon
    Users = {u1, u2}
    Jobs = {q1, q2}
    Addresses = {"a"}
    Subjects = {s1}
    MaxUses = 1
    Admins = {u1}
    Names = {n1}
    Devices = {d1, d2}
    Cooldown = 1
    Grace = 1
    Codes = {k1, k2}
    Worth = {2}
    Limit = 2
    Lock = 2
    MaxBalance = 3
    Machines <- MCMachines
    MaxReports = 2
    Allowance = 2
    Versions <- MCVersions
    Retention = 2
    Buckets = {b1, b2}
    Optional <- MCOptional
    MaxRecords = 2
    MaxBackups = 3
    Packages = {p1}
    Chain <- MCChain
    Members = {u1}
    Chats = {c1}
    MaxTokens = 1

CHECK_DEADLOCK FALSE

INVARIANTS
    AdmissionIsSettled
    EpisodesFollowConditions
    TellsOnce
    RollbackIsWhole
    BackupsAreAccountedFor
    AdoptionKeepsAccounts
    MessagesAreAccountedFor
    CredentialsAreSettled
    CodesPayOnce
