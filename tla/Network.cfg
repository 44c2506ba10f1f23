\* Inventory, sources, access, relay credentials, certificates, subscriptions and
\* node software, each on an instance of its own.
SPECIFICATION Spec

CONSTANTS
    None = None
    Local = Local
    i1 = i1   i2 = i2   n1 = n1   n2 = n2   t1 = t1   t2 = t2   s1 = s1
    MaxOps <- MCMaxOps
    Horizon = 1
    Jobs = {q1, q2}
    Groups = {g1, g2}
    Inbounds = {i1, i2}
    Servers = {s1}
    Routes = {n1}
    Egresses = {e1}
    Tags = {t1, t2}
    Profile = t1
    Requests = {q1, q2}
    Drawings <- MCDrawings
    Sources = {x1, x2}
    Upstream = {n1, n2}
    Buckets <- MCBuckets
    Kind <- MCKind
    Nodes = {n1, n2}
    Tag <- MCTag
    Owners = {1}
    Specs = {"a", "b"}
    MaxGen = 2
    Certs = {x1, x2}
    Profiles = {t1}
    Presenters = {i1}
    MaxIssues = 3
    Slots = {1, 2}
    Offers <- MCOffers
    Templates <- MCTemplates
    Clean <- MCClean
    Hosts = {x1, x2}
    MaxTokens = 2

CHECK_DEADLOCK FALSE

INVARIANTS
    MeteredTrafficLeaves
    OffersLastAnswer
    ListedIsServed
    DialsAreAccepted
    RenewalsArrive
    ProfilesWork
    InstalledProbesReport
