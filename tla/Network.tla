------------------------------ MODULE Network ------------------------------
(* The parts that draw, deploy and describe the network: machines and what   *)
(* runs on them, external sources, who may enter where, relay credentials,   *)
(* certificates, what users download, and the software of the machines. A    *)
(* behaviour plays one of them, the scenario; the variables keep the names   *)
(* of the parts' own, and one that several parts use is each part's in its   *)
(* own scenario.                                                             *)
EXTENDS Integers, Sequences, FiniteSets

CONSTANTS
  None, Local,
  MaxOps,      \* per part: bound on requests
  Horizon,     \* bound on the time of access
  Jobs, Groups, Inbounds,
  Servers, Routes, Egresses, Tags, Profile, Requests, Drawings,  \* inventory
  Sources, Upstream,                                             \* sources
  Buckets, Kind, Nodes, Tag,                                     \* access
  Owners, Specs, MaxGen,                                         \* relay
  Certs, Profiles, Presenters, MaxIssues,                        \* certificates
  Slots, Offers, Templates, Clean,                               \* subscriptions
  Hosts, MaxTokens                                               \* software

VARIABLES
  scenario,
  \* what several parts have
  inbound, node, job, running, ops,
  \* inventory
  server, tls, egress, metering, req,
  \* sources
  source, group, good,
  \* access
  now, bucket, free, account,
  \* relay
  mode, spec, subjects, link, gens, rows, compat, flight, pass, byTag, calm,
  \* certificates
  issues, disk, cert, profile, queue, failed, reverted,
  \* subscriptions
  offered, cached, blocked, template, served, hidden,
  \* software
  row, minted, machines, seen, caps, place, probing, upgrade, form, installed

inventoryOnly == <<server, tls, egress, metering, req>>
sourcesOnly == <<source, group, good>>
accessOnly == <<now, bucket, free, account>>
relayOnly == <<mode, spec, subjects, link, gens, rows, compat, flight, pass, byTag, calm>>
certificatesOnly == <<issues, disk, cert, profile, queue, failed, reverted>>
subscriptionsOnly == <<offered, cached, blocked, template, served, hidden>>
softwareOnly == <<row, minted, machines, seen, caps, place, probing, upgrade, form, installed>>

vars == <<scenario, inbound, node, job, running, ops, inventoryOnly, sourcesOnly, accessOnly, relayOnly,
          certificatesOnly, subscriptionsOnly, softwareOnly>>
-----------------------------------------------------------------------------
Inventory == INSTANCE Inventory WITH MaxOps <- MaxOps["inventory"], Nodes <- Routes
NodeSources == INSTANCE NodeSources WITH MaxOps <- MaxOps["sources"], Links <- Upstream
Access == INSTANCE Access WITH MaxOps <- MaxOps["access"]
RelayMetering == INSTANCE RelayMetering WITH MaxOps <- MaxOps["relay"]
Certificates == INSTANCE Certificates WITH MaxOps <- MaxOps["certificates"], Inbounds <- Presenters
Subscriptions == INSTANCE Subscriptions WITH MaxOps <- MaxOps["subscriptions"], Drawings <- Offers
NodeSoftware == INSTANCE NodeSoftware WITH MaxOps <- MaxOps["software"]
-----------------------------------------------------------------------------
(* What an instance has to give: ids that are none of the values which stand *)
(* for no id, and data of the shape the part reads                           *)

\* A drawing there may be at first is one the check of link metering accepts, and its
\* tags are unique, as the column is
InventorySane ==
  /\ IsFiniteSet(Inbounds) /\ None \notin Inbounds
  /\ \A d \in Drawings :
       /\ DOMAIN d \subseteq Inbounds /\ d \in [DOMAIN d -> Inventory!Rows]
       /\ \A i, j \in DOMAIN d : d[i].tag = d[j].tag => i = j
       /\ Inventory!Sound([s \in Servers |-> "on"], "good", d, << >>)

\* Buckets are numbered; one is free at most, and one a pool; every node is entered by an inbound
AccessSane ==
  /\ Buckets \subseteq Nat /\ None \notin Buckets
  /\ \A b \in Buckets : Kind[b] \in {"plan", "grant", "pool", "free"}
  /\ \A a, b \in Buckets : Kind[a] = Kind[b] /\ Kind[a] \in {"free", "pool"} => a = b
  /\ Tag \in [Nodes -> Inbounds] /\ None \notin Inbounds /\ None \notin Nodes
  /\ Horizon \in Nat

\* A credential has an owner, a user id, and something to dial
RelaySane == Owners \subseteq Nat \ {0} /\ Specs # {}

\* The empty certificate is none
CertsSane == None \notin Certs

\* Tokens are numbered, and no token is not a number
SoftwareSane == None \notin Nat

ASSUME NetworkIsSane == InventorySane /\ AccessSane /\ RelaySane /\ CertsSane /\ SoftwareSane
-----------------------------------------------------------------------------
\* What a scenario does not use stays empty
NoInventory == /\ server = None /\ tls = None /\ egress = None /\ metering = None /\ req = None
NoSources == /\ source = None /\ group = None /\ good = None
NoAccess == /\ now = None /\ bucket = None /\ free = None /\ account = None
NoRelay == /\ mode = None /\ spec = None /\ subjects = None /\ link = None /\ gens = None
           /\ rows = None /\ compat = None /\ flight = None /\ pass = None /\ byTag = None
           /\ calm = None
NoCertificates == /\ issues = None /\ disk = None /\ cert = None /\ profile = None
                  /\ queue = None /\ failed = None /\ reverted = None
NoSubscriptions == /\ offered = None /\ cached = None /\ blocked = None /\ template = None
                   /\ served = None /\ hidden = None
NoSoftware == /\ row = None /\ minted = None /\ machines = None /\ seen = None /\ caps = None
              /\ place = None /\ probing = None /\ upgrade = None /\ form = None
              /\ installed = None

Init ==
  \/ /\ scenario = "inventory" /\ Inventory!Init
     /\ NoSources /\ NoAccess /\ NoRelay /\ NoCertificates /\ NoSubscriptions /\ NoSoftware
     /\ job = None /\ running = None
  \/ /\ scenario = "sources" /\ NodeSources!Init
     /\ NoInventory /\ NoAccess /\ NoRelay /\ NoCertificates /\ NoSubscriptions /\ NoSoftware
     /\ inbound = None /\ running = None
  \/ /\ scenario = "access" /\ Access!Init
     /\ NoInventory /\ NoSources /\ NoRelay /\ NoCertificates /\ NoSubscriptions /\ NoSoftware
     /\ job = None /\ running = None
  \/ /\ scenario = "relay" /\ RelayMetering!Init
     /\ NoInventory /\ NoSources /\ NoAccess /\ NoCertificates /\ NoSubscriptions /\ NoSoftware
     /\ inbound = None /\ node = None /\ job = None
  \/ /\ scenario = "certificates" /\ Certificates!Init
     /\ NoInventory /\ NoSources /\ NoAccess /\ NoRelay /\ NoSubscriptions /\ NoSoftware
     /\ node = None
  \/ /\ scenario = "subscriptions" /\ Subscriptions!Init
     /\ NoInventory /\ NoSources /\ NoAccess /\ NoRelay /\ NoCertificates /\ NoSoftware
     /\ inbound = None /\ node = None /\ job = None /\ running = None
  \/ /\ scenario = "software" /\ NodeSoftware!Init
     /\ NoInventory /\ NoSources /\ NoAccess /\ NoRelay /\ NoCertificates /\ NoSubscriptions
     /\ inbound = None /\ node = None /\ job = None /\ running = None

Next ==
  /\ UNCHANGED scenario
  /\ \/ /\ scenario = "inventory" /\ Inventory!Next
        /\ UNCHANGED <<job, running, sourcesOnly, accessOnly, relayOnly, certificatesOnly,
                       subscriptionsOnly, softwareOnly>>
     \/ /\ scenario = "sources" /\ NodeSources!Next
        /\ UNCHANGED <<inbound, running, inventoryOnly, accessOnly, relayOnly,
                       certificatesOnly, subscriptionsOnly, softwareOnly>>
     \/ /\ scenario = "access" /\ Access!Next
        /\ UNCHANGED <<job, running, inventoryOnly, sourcesOnly, relayOnly, certificatesOnly,
                       subscriptionsOnly, softwareOnly>>
     \/ /\ scenario = "relay" /\ RelayMetering!Next
        /\ UNCHANGED <<inbound, node, job, inventoryOnly, sourcesOnly, accessOnly,
                       certificatesOnly, subscriptionsOnly, softwareOnly>>
     \/ /\ scenario = "certificates" /\ Certificates!Next
        /\ UNCHANGED <<node, inventoryOnly, sourcesOnly, accessOnly, relayOnly,
                       subscriptionsOnly, softwareOnly>>
     \/ /\ scenario = "subscriptions" /\ Subscriptions!Next
        /\ UNCHANGED <<inbound, node, job, running, inventoryOnly, sourcesOnly, accessOnly,
                       relayOnly, certificatesOnly, softwareOnly>>
     \/ /\ scenario = "software" /\ NodeSoftware!Next
        /\ UNCHANGED <<inbound, node, job, running, inventoryOnly, sourcesOnly, accessOnly,
                       relayOnly, certificatesOnly, subscriptionsOnly>>

Spec == Init /\ [][Next]_vars

-----------------------------------------------------------------------------
(* Each property is stated in the module of the part it is about; here it is *)
(* asked of the scenario that plays it                                       *)

\* Metered traffic crosses enabled hops, meets no machine twice and leaves
MeteredTrafficLeaves == scenario = "inventory" => Inventory!MeteredTrafficLeaves

\* A source offers what its last complete answer held, and nothing once deleted
OffersLastAnswer == scenario = "sources" => NodeSources!OffersLastAnswer

\* Every login a user is shown is one the generated configuration accepts
ListedIsServed == scenario = "access" => Access!ListedIsServed

\* A relay dials only with credentials its landing accepts
DialsAreAccepted == scenario = "relay" => RelayMetering!DialsAreAccepted

\* A renewed certificate reaches the machines that present it
RenewalsArrive == scenario = "certificates" => Certificates!RenewalsArrive

\* A rendered profile loads, dials its nodes as they ask and honours the blocklist
ProfilesWork == scenario = "subscriptions" => Subscriptions!ProfilesWork

\* A probe installed with success goes on reporting with a token the panel accepts
InstalledProbesReport == scenario = "software" => NodeSoftware!InstalledProbesReport
=============================================================================
