------------------------------- MODULE Access -------------------------------
(* Which nodes a user may use, by which of the user's buckets, and by which  *)
(* machine the traffic leaves.  Three readers derive it from the same rows:  *)
(* the configuration (the credentials an inbound accepts and its route       *)
(* rules), the subscription (links and proxy logins), and the meter of the   *)
(* account login. One user; link metering off; credentials kept from older   *)
(* releases, addresses and the text of links are left out.                   *)
EXTENDS Integers, FiniteSets

CONSTANTS
  Buckets,      \* ids of the user's rows of user_plans, numbers
  Kind,         \* [Buckets -> plan, grant (no package), pool or free]
  Groups,       \* ids of node_groups
  Inbounds,     \* ids of sb_inbounds; every inbound has a node tagged with it
  Nodes,        \* ids of self-built nodes
  Tag,          \* [Nodes -> Inbounds], the inbound a node is entered by
  None,         \* no bucket, node, group or inbound
  Horizon,      \* last moment of the clock
  MaxOps        \* bound on changes

VARIABLES
  now,
  bucket,       \* rows of user_plans: status, quota, expiry (0: never), groups, login expiry
  free,         \* setting free_group_id
  node,         \* rows of nodes
  inbound,      \* rows of sb_inbounds: enabled, type, landing, TLS profile usable
  account,      \* the user's account login: none, or the moment it expires (0: never)
  ops

vars == <<now, bucket, free, node, inbound, account, ops>>

Spend == ops < MaxOps /\ ops' = ops + 1
Past(t) == t # 0 /\ t <= now
-----------------------------------------------------------------------------
(* Ownership                                                                 *)

\* Bucket.Active: a zero limit carries nothing, the free bucket has none to spend
Active(b) ==
  \/ Kind[b] = "free"
  \/ bucket[b].quota = "left" /\ ~Past(bucket[b].expiry)

Waiting(b) == bucket[b].status = "queued"

\* Groups of the plans that are paid for and in time, exhausted ones included
PlanGroups ==
  UNION {bucket[b].groups : b \in {c \in Buckets :
    /\ Kind[c] = "plan" /\ ~Waiting(c)
    /\ bucket[c].quota # "none" /\ ~Past(bucket[c].expiry)}}

FreeGroups == IF free = None THEN {} ELSE {free}

\* Groups a bucket serves: none while it waits in the queue
Covers(b) ==
  IF Waiting(b) \/ ~Active(b) THEN {}
  ELSE CASE Kind[b] = "free" -> FreeGroups
         [] Kind[b] = "plan" -> bucket[b].groups
         [] Kind[b] = "grant" -> FreeGroups \cup PlanGroups
         [] Kind[b] = "pool" -> PlanGroups

Listed(b) == \/ Kind[b] = "free" /\ free # None /\ ~Waiting(b)
             \/ Kind[b] \in {"plan", "grant"} /\ ~Waiting(b) /\ Active(b)
             \/ Kind[b] = "pool" /\ ~Waiting(b) /\ Active(b) /\ PlanGroups # {}

\* Plans and grants by soonest expiry, then id; the free bucket; the pool
Class(b) == CASE Kind[b] = "free" -> 1 [] Kind[b] = "pool" -> 2 [] OTHER -> 0
Deadline(b) == IF bucket[b].expiry = 0 THEN Horizon + 2 ELSE bucket[b].expiry
Before(a, b) ==
  \/ Class(a) < Class(b)
  \/ /\ Class(a) = 0 /\ Class(b) = 0
     /\ \/ Deadline(a) < Deadline(b)
        \/ Deadline(a) = Deadline(b) /\ a < b

First(C) == IF C = {} THEN None ELSE CHOOSE b \in C : \A c \in C \ {b} : Before(b, c)
Owner(groups) == First({b \in Buckets : Listed(b) /\ Covers(b) \cap groups # {}})

\* Groups of the plain nodes of an inbound, disabled nodes included
InboundGroups(i) ==
  UNION {node[n].groups : n \in {m \in Nodes : Tag[m] = i /\ node[m].up = None /\ ~node[m].broken}}

\* The landing and every hop after it are there and enabled
RouteHealthy(first) ==
  /\ inbound[first].on
  /\ LET hop[k \in 0..Cardinality(Inbounds)] ==
           IF k = 0 THEN first ELSE IF hop[k-1] = None THEN None ELSE inbound[hop[k-1]].up
     IN /\ hop[Cardinality(Inbounds)] = None
        /\ \A k \in 1..Cardinality(Inbounds) : hop[k] # None => inbound[hop[k]].on

RouteOn(n) == node[n].on /\ node[n].up # None /\ ~node[n].broken

\* UserOwnedInbounds and UserOwnedNodes: what the subscription goes by
OwnedInbounds == [i \in {j \in Inbounds : inbound[j].on} |-> Owner(InboundGroups(i))]
OwnedNodes == [n \in {m \in Nodes : node[m].on /\ ~node[m].broken} |-> Owner(node[n].groups)]
-----------------------------------------------------------------------------
(* The configuration                                                         *)

AccountOn == account # None /\ ~Past(account)
ProxyActive(b) == ~Past(bucket[b].login) /\ Active(b)

Cred(i, b, n, as) == [inbound |-> i, bucket |-> b, node |-> n, as |-> as]

\* What one bucket may log in with on one inbound
Emit(i, b, n) ==
  {Cred(i, b, n, as) : as \in
     {a \in {"client", "account", "proxy"} :
        \/ a = "client" /\ inbound[i].type # "mixed"
        \/ a = "account" /\ inbound[i].type = "mixed" /\ Kind[b] # "free" /\ AccountOn /\ Active(b)
        \/ a = "proxy" /\ inbound[i].type = "mixed" /\ ProxyActive(b)}}

\* Mutant: a route is entered by the bucket that owns the entry inbound
UsersByTagEntryOwned ==
  UNION ({Emit(i, Owner(InboundGroups(i)), None) :
            i \in {j \in Inbounds : inbound[j].on /\ Owner(InboundGroups(j)) # None}}
         \cup {Emit(Tag[n], Owner(InboundGroups(Tag[n])), n) :
            n \in {m \in Nodes : /\ RouteOn(m) /\ inbound[Tag[m]].on /\ RouteHealthy(node[m].up)
                                 /\ Owner(InboundGroups(Tag[m])) # None}})

\* Plain nodes share the inbound's owner, a logical route has its own
UsersByTag ==
  UNION ({Emit(i, Owner(InboundGroups(i)), None) :
            i \in {j \in Inbounds : inbound[j].on /\ Owner(InboundGroups(j)) # None}}
         \cup {Emit(Tag[n], Owner(node[n].groups), n) :
            n \in {m \in Nodes : /\ RouteOn(m) /\ inbound[Tag[m]].on /\ RouteHealthy(node[m].up)
                                 /\ Owner(node[m].groups) # None}})

\* relayOutbound renders an outbound to this landing
Dialable(i) == inbound[i].type # "mixed" /\ inbound[i].tls

\* Rules of logical routes: the node's credentials on the entry leave by the landing
RouteRules ==
  {n \in Nodes : /\ RouteOn(n) /\ inbound[Tag[n]].on /\ inbound[node[n].up].on
                 /\ \E u \in UsersByTag : u.inbound = Tag[n] /\ u.node = n
                 /\ Dialable(node[n].up)}

\* Rules of whole inbounds
ChainRules ==
  {i \in Inbounds : /\ inbound[i].on /\ inbound[i].up # None
                    /\ inbound[inbound[i].up].on /\ Dialable(inbound[i].up)}

\* First match: the route of the credential, the chain of the inbound, route.final
NextHop(u) ==
  IF u.node \in RouteRules THEN node[u.node].up
  ELSE IF u.inbound \in ChainRules THEN inbound[u.inbound].up ELSE "direct"
-----------------------------------------------------------------------------
(* The subscription, the proxy page and the meter of the account login       *)

\* The plain nodes of an inbound share one link, by the owner of the inbound
PlainLinks ==
  {Cred(i, OwnedInbounds[i], None, "client") :
     i \in {j \in DOMAIN OwnedInbounds :
              /\ OwnedInbounds[j] # None
              /\ \E n \in DOMAIN OwnedNodes : Tag[n] = j /\ node[n].up = None}}

\* A route has a link of its own while its landing can be reached
RouteLinks ==
  {Cred(Tag[n], OwnedNodes[n], n, "client") :
     n \in {m \in DOMAIN OwnedNodes :
              /\ node[m].up # None /\ inbound[Tag[m]].on
              /\ RouteHealthy(node[m].up) /\ OwnedNodes[m] # None}}

\* No link renders for a plain proxy
Links == {l \in PlainLinks \cup RouteLinks : inbound[l.inbound].type # "mixed"}

\* Every mixed inbound shows the bucket's login, and the account's unless it is free
Proxies ==
  LET mixed == {i \in DOMAIN OwnedInbounds : inbound[i].type = "mixed" /\ OwnedInbounds[i] # None}
  IN {Cred(i, OwnedInbounds[i], None, "proxy") :
        i \in {j \in mixed : ~Past(bucket[OwnedInbounds[j]].login)}}
     \cup {Cred(i, OwnedInbounds[i], None, "account") :
        i \in {j \in mixed : Kind[OwnedInbounds[j]] # "free" /\ AccountOn}}

\* The first bucket in the order that is not the free one pays for the account login
AccountMeterBucket == First({b \in Buckets : Listed(b) /\ Kind[b] # "free"})
-----------------------------------------------------------------------------
Tick == now < Horizon /\ now' = now + 1 /\ UNCHANGED <<bucket, free, node, inbound, account, ops>>

\* What billing does to a row: traffic, top-ups, queueing and promotion
BucketChanges ==
  /\ Spend
  /\ \E b \in Buckets :
       \/ \E q \in {"none", "left", "spent"} : bucket' = [bucket EXCEPT ![b].quota = q]
       \/ \E s \in {"active", "queued"} : Kind[b] = "plan" /\ bucket' = [bucket EXCEPT ![b].status = s]
  /\ UNCHANGED <<now, free, node, inbound, account>>

SetBucketProxyCred ==
  /\ Spend
  /\ \E b \in Buckets, t \in 0..Horizon : bucket' = [bucket EXCEPT ![b].login = t]
  /\ UNCHANGED <<now, free, node, inbound, account>>

SetPlanGroups ==
  /\ Spend
  /\ \E b \in Buckets, gs \in SUBSET Groups :
       Kind[b] = "plan" /\ bucket' = [bucket EXCEPT ![b].groups = gs]
  /\ UNCHANGED <<now, free, node, inbound, account>>

SetFreeGroup ==
  /\ Spend
  /\ \E g \in Groups \cup {None} : free' = g
  /\ UNCHANGED <<now, bucket, node, inbound, account>>

SetUserProxyCred ==
  /\ Spend
  /\ \E t \in 0..Horizon : account' = t
  /\ UNCHANGED <<now, bucket, free, node, inbound>>

SaveNode ==
  /\ Spend
  /\ \E n \in Nodes :
       \/ node' = [node EXCEPT ![n].on = ~@]
       \/ \E gs \in SUBSET Groups : node' = [node EXCEPT ![n].groups = gs]
       \/ node' = [node EXCEPT ![n].up = None, ![n].broken = FALSE]
       \/ \E u \in Inbounds \ {Tag[n]} :
            /\ inbound[Tag[n]].type # "mixed" /\ inbound[u].type # "mixed" /\ RouteHealthy(u)
            /\ node' = [node EXCEPT ![n].up = u, ![n].broken = FALSE]
  /\ UNCHANGED <<now, bucket, free, inbound, account>>

\* Its own chain is checked for a loop; what leads to it is not
SaveInbound ==
  /\ Spend
  /\ \E i \in Inbounds :
       \/ inbound' = [inbound EXCEPT ![i].on = ~@]
       \/ \E t \in {"vless", "mixed"} : inbound' = [inbound EXCEPT ![i].type = t]
       \/ inbound' = [inbound EXCEPT ![i].up = None]
       \/ \E u \in Inbounds \ {i} : /\ inbound[u].up = None
                                    /\ inbound' = [inbound EXCEPT ![i].up = u]
  /\ UNCHANGED <<now, bucket, free, node, account>>

\* A TLS profile is edited into one no client can use, or back
SaveTls ==
  /\ Spend
  /\ \E i \in Inbounds : inbound' = [inbound EXCEPT ![i].tls = ~@]
  /\ UNCHANGED <<now, bucket, free, node, account>>

Next ==
  \/ Tick \/ BucketChanges \/ SetBucketProxyCred \/ SetPlanGroups \/ SetFreeGroup
  \/ SetUserProxyCred \/ SaveNode \/ SaveInbound \/ SaveTls

\* A plan of one group that is about to expire, one of another that is not, an empty
\* pool; two nodes on the entry, one of them a route
Init ==
  /\ now = 0
  /\ \E g \in Groups, h \in Groups :
       /\ g # h
       /\ bucket = [b \in Buckets |->
            [status |-> "active", quota |-> IF Kind[b] \in {"plan", "free"} THEN "left" ELSE "none",
             expiry |-> IF Kind[b] = "plan" /\ \E c \in Buckets : Kind[c] = "plan" /\ c < b
                          THEN 1 ELSE 0,
             groups |-> IF Kind[b] # "plan" THEN {}
                        ELSE IF \E c \in Buckets : Kind[c] = "plan" /\ c < b THEN {g, h} ELSE {g},
             login |-> 0]]
       /\ node = [n \in Nodes |-> [on |-> TRUE, groups |-> {g}, up |-> None, broken |-> FALSE]]
       /\ free = None
  /\ inbound = [i \in Inbounds |-> [on |-> TRUE, type |-> "vless", up |-> None, tls |-> TRUE]]
  /\ account = None
  /\ ops = 0

Spec == Init /\ [][Next]_vars
-----------------------------------------------------------------------------
(* Properties                                                                *)

\* Every link and every proxy login a user is shown is accepted by its inbound, as
\* the bucket the page names, and a route's link leaves by the landing the node names,
\* not by the chain of its entry, whenever that landing can be dialled at all; the
\* account login is accepted only while some bucket pays for it; and a bucket that owns
\* is an entitled one: its groups come from a plan in time or from the free group.
ListedIsServed ==
  /\ Links \cup Proxies \subseteq UsersByTag
  /\ \A u \in Links : u.node # None /\ Dialable(node[u.node].up) => NextHop(u) = node[u.node].up
  /\ (\E u \in UsersByTag : u.as = "account") => AccountMeterBucket # None
  /\ \A u \in UsersByTag :
       LET groups == IF u.node = None THEN InboundGroups(u.inbound) ELSE node[u.node].groups
       IN \/ groups \cap FreeGroups # {}
          \/ groups \cap PlanGroups # {}
=============================================================================
