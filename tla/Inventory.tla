------------------------------ MODULE Inventory ------------------------------
(* What an administrator draws: machines, their inbounds, the landing or the *)
(* third-party egress each inbound leaves by, and the logical nodes that     *)
(* send an inbound's users to a landing of their own.  A save reads and      *)
(* checks in one set of statements and writes in another, so requests        *)
(* overlap; with link metering on, the writing transaction checks the whole  *)
(* drawing once more. Ports, protocols and display order are left out; the   *)
(* requests for a new configuration that follow a save are those of module   *)
(* Deploy.                                                                   *)
EXTENDS Integers, FiniteSets, Functions

CONSTANTS
  Servers,      \* ids of rows of servers
  Local,        \* the panel's own machine, which has no row
  Inbounds,     \* ids of rows of sb_inbounds
  Nodes,        \* ids of self-built nodes
  Egresses,     \* ids of rows of sb_egresses
  Tags,         \* inbound tags
  Profile,      \* the one TLS profile
  Drawings,     \* rows of sb_inbounds there may be at first
  None,         \* id 0
  Requests,     \* requests that can be in flight together
  MaxOps        \* bound on requests

VARIABLES
  server,       \* [Servers -> absent, on or off]
  tls,          \* the TLS profile: absent, good, or bad (no client can use it)
  inbound,      \* rows of sb_inbounds by id
  node,         \* rows of nodes by id
  egress,       \* ids of sb_egresses that exist
  metering,     \* setting relay_metering_enabled
  req,          \* what each request is about to write
  ops           \* requests so far

vars == <<server, tls, inbound, node, egress, metering, req, ops>>

Rows == [server : Servers \cup {Local}, tag : Tags, on : BOOLEAN, tls : {None, Profile},
         up : Inbounds \cup {None}, egress : Egresses \cup {None}, broken : BOOLEAN]
Idle == [op |-> "idle"]
With(f, id, row) == [x \in DOMAIN f \cup {id} |-> IF x = id THEN row ELSE f[x]]
Without(f, ids) == Restrict(f, DOMAIN f \ ids)
Spend == ops < MaxOps /\ ops' = ops + 1
-----------------------------------------------------------------------------
(* The check of the drawing, inside the transaction that changes it          *)

EntryOf(inb, n) == {i \in DOMAIN inb : inb[i].tag = n.tag}

\* Enabled chains, and enabled logical routes whose entry is enabled or missing
Edges(inb, nds) ==
  {[from |-> {i}, to |-> inb[i].up] : i \in {j \in DOMAIN inb : inb[j].on /\ inb[j].up # None}}
  \cup {[from |-> EntryOf(inb, nds[n]), to |-> nds[n].up] :
          n \in {m \in DOMAIN nds : /\ nds[m].on /\ ~nds[m].broken /\ nds[m].up # None
                                    /\ \A i \in EntryOf(inb, nds[m]) : inb[i].on}}

HostUp(srv, h) == h = Local \/ (h \in Servers /\ srv[h] = "on")

\* Some machine of every set of machines sends nothing to that set
NoLoop(links) ==
  \A S \in SUBSET (Servers \cup {Local}) :
    S # {} => \E h \in S : \A l \in links : ~(l[1] = h /\ l[2] \in S)

\* Mutant: each route is looked at on its own
EdgesOnly(srv, tl, inb, nds) ==
  \A e \in Edges(inb, nds) :
    /\ e.from # {} /\ e.to \in DOMAIN inb
    /\ inb[e.to].on /\ HostUp(srv, inb[e.to].server)

\* Both ends of every active route are there, enabled, on machines that are, the
\* landing can be dialled, and traffic does not return to a machine it left
Sound(srv, tl, inb, nds) ==
  /\ \A e \in Edges(inb, nds) :
       /\ e.from # {} /\ e.to \in DOMAIN inb
       /\ inb[e.to].on
       /\ inb[e.to].tls = None \/ tl = "good"
       /\ \A i \in e.from : /\ inb[i].server # inb[e.to].server
                            /\ HostUp(srv, inb[i].server)
       /\ HostUp(srv, inb[e.to].server)
  /\ NoLoop({<<inb[CHOOSE i \in e.from : TRUE].server, inb[e.to].server>> : e \in Edges(inb, nds)})

\* The transaction commits the new rows, or leaves everything as it was
Commit(srv, tl, inb, nds) ==
  \/ /\ ~metering \/ Sound(srv, tl, inb, nds)
     /\ server' = srv /\ tls' = tl /\ inbound' = inb /\ node' = nds
  \/ /\ metering /\ ~Sound(srv, tl, inb, nds)
     /\ UNCHANGED <<server, tls, inbound, node>>
-----------------------------------------------------------------------------
(* Inbounds                                                                  *)

\* Where the stored chain leads from a landing: its n-th hop, None past the end
Hop(start) ==
  LET hop[n \in 0..Cardinality(Inbounds)] ==
        IF n = 0 THEN start
        ELSE IF hop[n-1] \in DOMAIN inbound THEN inbound[hop[n-1]].up ELSE None
  IN hop

\* A landing must exist, be another inbound, and not lead back; landing and egress
\* exclude each other
FormAccepted(id, row) ==
  /\ row.up = None \/ row.egress = None
  /\ row.egress # None => row.egress \in egress
  /\ row.up # None =>
       /\ row.up \in DOMAIN inbound
       /\ \A n \in DOMAIN Hop(row.up) : Hop(row.up)[n] # id
       /\ Hop(row.up)[Cardinality(Inbounds)] = None

\* The form is laid over the row as it is stored now and sent with one field changed
Forms(id) ==
  LET r == inbound[id] IN
    {[r EXCEPT !.on = ~@]} \cup {[r EXCEPT !.tag = t] : t \in Tags}
    \cup {[r EXCEPT !.up = u, !.egress = None] : u \in Inbounds \cup {None}}
    \cup {[r EXCEPT !.egress = e, !.up = None] : e \in Egresses}
    \cup {[r EXCEPT !.server = h] : h \in Servers \cup {Local}}

CheckInbound(q) ==
  /\ req[q] = Idle /\ Spend
  /\ \/ \E id \in DOMAIN inbound : \E row \in Forms(id) :
          /\ FormAccepted(id, row)
          /\ req' = [req EXCEPT ![q] = [op |-> "inbound", id |-> id, new |-> FALSE, row |-> row]]
     \/ \E id \in Inbounds \ DOMAIN inbound, row \in Rows :
          /\ row.on /\ ~row.broken /\ row.egress = None
          /\ FormAccepted(id, row)
          /\ req' = [req EXCEPT ![q] = [op |-> "inbound", id |-> id, new |-> TRUE, row |-> row]]
  /\ UNCHANGED <<server, tls, inbound, node, egress, metering>>

\* A save that gives the inbound an exit again takes the mark of a lost one away;
\* nodes follow a new tag.  Tags are unique; a row deleted meanwhile stays deleted.
SaveSbInbound(q) ==
  /\ req[q].op = "inbound"
  /\ LET id == req[q].id
         row == req[q].row
         live == id \in DOMAIN inbound
         taken == \E i \in DOMAIN inbound \ {id} : inbound[i].tag = row.tag
         kept == [row EXCEPT !.broken =
                    live /\ inbound[id].broken /\ row.up = None /\ row.egress = None]
         moved == [n \in DOMAIN node |->
                     IF live /\ node[n].tag = inbound[id].tag
                     THEN [node[n] EXCEPT !.tag = row.tag] ELSE node[n]]
     IN IF taken \/ (~req[q].new /\ ~live)
          THEN UNCHANGED <<server, tls, inbound, node>>
          ELSE Commit(server, tls, With(inbound, id, kept), moved)
  /\ req' = [req EXCEPT ![q] = Idle]
  /\ UNCHANGED <<egress, metering, ops>>

AckUpstreamBroken ==
  /\ Spend
  /\ \E id \in DOMAIN inbound : inbound' = [inbound EXCEPT ![id].broken = FALSE]
  /\ UNCHANGED <<server, tls, node, egress, metering, req>>

\* What metering counts on is not taken away by a deletion
Referenced(id) == \E e \in Edges(inbound, node) : e.from # {} /\ e.to = id

\* The nodes that enter by it go too; what used it as a landing exits directly from
\* now on, and is marked
DeleteSbInbound ==
  /\ Spend
  /\ \E id \in DOMAIN inbound :
       /\ ~(metering /\ Referenced(id))
       /\ inbound' = Without([i \in DOMAIN inbound |->
            IF inbound[i].up = id THEN [inbound[i] EXCEPT !.up = None, !.broken = TRUE]
            ELSE inbound[i]], {id})
       /\ node' = LET mine == {n \in DOMAIN node : node[n].tag = inbound[id].tag}
                  IN Without([n \in DOMAIN node |->
                       IF node[n].up = id THEN [node[n] EXCEPT !.up = None, !.broken = TRUE]
                       ELSE node[n]], mine)
  /\ UNCHANGED <<server, tls, egress, metering, req>>
-----------------------------------------------------------------------------
(* Logical nodes                                                             *)

RouteAccepted(n) ==
  /\ EntryOf(inbound, n) # {}
  /\ n.up # None =>
       /\ n.up \in DOMAIN inbound /\ inbound[n.up].on
       /\ \A k \in DOMAIN Hop(n.up) :
            /\ Hop(n.up)[k] \notin EntryOf(inbound, n)
            /\ Hop(n.up)[k] # None =>
                 Hop(n.up)[k] \in DOMAIN inbound /\ inbound[Hop(n.up)[k]].on
       /\ Hop(n.up)[Cardinality(Inbounds)] = None

CheckNode(q) ==
  /\ req[q] = Idle /\ Spend
  /\ \E id \in Nodes, t \in Tags, on \in BOOLEAN, u \in Inbounds \cup {None} :
       LET row == [tag |-> t, on |-> on, up |-> u, broken |-> FALSE] IN
         /\ RouteAccepted(row)
         /\ req' = [req EXCEPT ![q] =
              [op |-> "node", id |-> id, new |-> id \notin DOMAIN node, row |-> row]]
  /\ UNCHANGED <<server, tls, inbound, node, egress, metering>>

SaveNode(q) ==
  /\ req[q].op = "node"
  /\ IF req[q].new \/ req[q].id \in DOMAIN node
       THEN Commit(server, tls, inbound, With(node, req[q].id, req[q].row))
       ELSE UNCHANGED <<server, tls, inbound, node>>
  /\ req' = [req EXCEPT ![q] = Idle]
  /\ UNCHANGED <<egress, metering, ops>>

DeleteNode ==
  /\ Spend
  /\ \E id \in DOMAIN node : node' = Without(node, {id})
  /\ UNCHANGED <<server, tls, inbound, egress, metering, req>>
-----------------------------------------------------------------------------
(* Machines, TLS profiles, egresses and the metering switch                  *)

CreateServer ==
  /\ Spend
  /\ \E s \in Servers : server[s] = "absent" /\ server' = [server EXCEPT ![s] = "on"]
  /\ UNCHANGED <<tls, inbound, node, egress, metering, req>>

UpdateServer ==
  /\ Spend
  /\ \E s \in Servers, to \in {"on", "off"} : 
       server[s] # "absent" /\ Commit([server EXCEPT ![s] = to], tls, inbound, node)
  /\ UNCHANGED <<egress, metering, req>>

\* Refused while an inbound is bound to it
DeleteServer ==
  /\ Spend
  /\ \E s \in Servers :
       /\ server[s] # "absent" /\ \A i \in DOMAIN inbound : inbound[i].server # s
       /\ server' = [server EXCEPT ![s] = "absent"]
  /\ UNCHANGED <<tls, inbound, node, egress, metering, req>>

\* A new profile invalidates nothing and is not checked
SaveSbTls ==
  /\ Spend
  /\ \E to \in {"good", "bad"} :
       IF tls = "absent" THEN tls' = to /\ UNCHANGED <<server, inbound, node>>
       ELSE Commit(server, to, inbound, node)
  /\ UNCHANGED <<egress, metering, req>>

DeleteSbTls ==
  /\ Spend
  /\ tls # "absent" /\ \A i \in DOMAIN inbound : inbound[i].tls = None
  /\ tls' = "absent"
  /\ UNCHANGED <<server, inbound, node, egress, metering, req>>

SaveSbEgress ==
  /\ Spend
  /\ \E e \in Egresses \ egress : egress' = egress \cup {e}
  /\ UNCHANGED <<server, tls, inbound, node, metering, req>>

\* The references are counted in one statement and the row deleted in the next
CountEgressRefs(q) ==
  /\ req[q] = Idle /\ Spend
  /\ \E e \in egress :
       /\ \A i \in DOMAIN inbound : inbound[i].egress # e
       /\ req' = [req EXCEPT ![q] = [op |-> "egress", id |-> e]]
  /\ UNCHANGED <<server, tls, inbound, node, egress, metering>>

DeleteSbEgress(q) ==
  /\ req[q].op = "egress"
  /\ egress' = egress \ {req[q].id}
  /\ req' = [req EXCEPT ![q] = Idle]
  /\ UNCHANGED <<server, tls, inbound, node, metering, ops>>

\* Link metering goes on only over a drawing that stands the check
ConfigureTrafficMetering ==
  /\ Spend
  /\ metering \/ Sound(server, tls, inbound, node)
  /\ metering' = ~metering
  /\ UNCHANGED <<server, tls, inbound, node, egress, req>>
-----------------------------------------------------------------------------
Init ==
  /\ metering \in BOOLEAN
  /\ server = [s \in Servers |-> "on"]
  /\ tls = "good"
  /\ inbound \in Drawings /\ node = << >> /\ egress = Egresses
  /\ req = [q \in Requests |-> Idle]
  /\ ops = 0

Next ==
  \/ \E q \in Requests : \/ CheckInbound(q) \/ SaveSbInbound(q)
                         \/ CheckNode(q) \/ SaveNode(q)
                         \/ CountEgressRefs(q) \/ DeleteSbEgress(q)
  \/ AckUpstreamBroken \/ DeleteSbInbound \/ DeleteNode
  \/ CreateServer \/ UpdateServer \/ DeleteServer
  \/ SaveSbTls \/ DeleteSbTls \/ SaveSbEgress \/ ConfigureTrafficMetering

Spec == Init /\ [][Next]_vars
-----------------------------------------------------------------------------
(* Properties                                                                *)

\* The machines traffic passes from an inbound on, hop by hop
Path(i) ==
  LET hop[n \in 0..Cardinality(Inbounds)] ==
        IF n = 0 THEN i
        ELSE IF hop[n-1] \in DOMAIN inbound THEN inbound[hop[n-1]].up ELSE None
  IN hop

\* With metering on, whatever requests overlapped, traffic that enters by an enabled
\* inbound or by an enabled node's route crosses enabled inbounds on machines in
\* service, meets no machine twice and comes to an exit: deletions, renames and
\* machine edits that do not look at routes rely on the checks of the others.
MeteredTrafficLeaves ==
  metering =>
    \A start \in {inbound[i].up : i \in {j \in DOMAIN inbound : inbound[j].on}}
             \cup {node[n].up : n \in {m \in DOMAIN node : node[m].on /\ ~node[m].broken
                                 /\ \E i \in EntryOf(inbound, node[m]) : inbound[i].on}} :
      start # None =>
        LET p == Path(start) IN
          /\ p[Cardinality(Inbounds)] = None
          /\ \A n \in DOMAIN p : p[n] # None =>
               p[n] \in DOMAIN inbound /\ inbound[p[n]].on /\ HostUp(server, inbound[p[n]].server)
          /\ \A m, n \in DOMAIN p : m # n /\ p[m] # None /\ p[n] # None =>
               inbound[p[m]].server # inbound[p[n]].server
=============================================================================
