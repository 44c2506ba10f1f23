---------------------------- MODULE NetworkProofs ----------------------------
(* What holds of the parts of Network for every value of the constants. Each *)
(* section is about one part: the inductive invariant, its lemmas, one per   *)
(* kind of step, and the theorem.                                            *)
EXTENDS Network, Sums
-----------------------------------------------------------------------------
(* Inventory                                                                 *)
NodeRow == [tag : Tags, on : BOOLEAN, up : Inbounds \cup {None}, broken : BOOLEAN]
InboundSave == [op : {"inbound"}, id : Inbounds, new : BOOLEAN, row : Inventory!Rows]
NodeSave == [op : {"node"}, id : Routes, new : BOOLEAN, row : NodeRow]
EgressDrop == [op : {"egress"}, id : Egresses]

RowsTyped(inb, nds) ==
  /\ DOMAIN inb \subseteq Inbounds /\ inb \in [DOMAIN inb -> Inventory!Rows]
  /\ DOMAIN nds \subseteq Routes /\ nds \in [DOMAIN nds -> NodeRow]

\* An inbound is known by its tag, so a node is entered by one at most
TagsApart(inb) == \A i, j \in DOMAIN inb : inb[i].tag = inb[j].tag => i = j

InventoryTyped ==
  /\ server \in [Servers -> {"absent", "on", "off"}]
  /\ RowsTyped(inbound, node)
  /\ egress \subseteq Egresses
  /\ req \in [Requests -> {Inventory!Idle} \cup InboundSave \cup NodeSave \cup EgressDrop]

\* Deletions, acknowledgements and machine edits keep what the checked saves established
InventoryInv ==
  /\ InventoryTyped /\ TagsApart(inbound)
  /\ metering => Inventory!Sound(server, tls, inbound, node)

LEMMA InventoryInit == ASSUME InventorySane, Inventory!Init PROVE InventoryInv
<1>1. /\ server = [s \in Servers |-> "on"] /\ tls = "good" /\ node = << >> /\ egress = Egresses
      /\ req = [q \in Requests |-> Inventory!Idle] /\ inbound \in Drawings
      BY DEF Inventory!Init
<1>2. /\ DOMAIN inbound \subseteq Inbounds /\ inbound \in [DOMAIN inbound -> Inventory!Rows]
      /\ TagsApart(inbound) /\ Inventory!Sound(server, tls, inbound, node)
      BY <1>1 DEF InventorySane, TagsApart
<1>3. DOMAIN node = {} /\ node \in [DOMAIN node -> NodeRow]
      BY <1>1
<1>4. req \in [Requests -> {Inventory!Idle} \cup InboundSave \cup NodeSave \cup EgressDrop]
      BY <1>1
<1> QED BY <1>1, <1>2, <1>3, <1>4 DEF InventoryInv, InventoryTyped, RowsTyped

-----------------------------------------------------------------------------
(* A drawing with no more edges, on the same machines, is as sound           *)

LEMMA FewerLinks ==
  ASSUME NEW A, NEW B, A \subseteq B, Inventory!NoLoop(B) PROVE Inventory!NoLoop(A)
  BY DEF Inventory!NoLoop

LEMMA StillSound ==
  ASSUME NEW srv, NEW tl, NEW inb, NEW nds, Inventory!Sound(srv, tl, inb, nds),
         NEW srv2, NEW tl2, NEW inb2, NEW nds2,
         Inventory!Edges(inb2, nds2) \subseteq Inventory!Edges(inb, nds),
         \A e \in Inventory!Edges(inb2, nds2) :
           /\ e.to \in DOMAIN inb2
           /\ inb2[e.to].on = inb[e.to].on /\ inb2[e.to].server = inb[e.to].server
           /\ inb[e.to].tls = None \/ tl = "good" => inb2[e.to].tls = None \/ tl2 = "good"
           /\ \A i \in e.from : inb2[i].server = inb[i].server
           /\ \A i \in e.from \cup {e.to} : Inventory!HostUp(srv, inb[i].server) => Inventory!HostUp(srv2, inb[i].server)
  PROVE  Inventory!Sound(srv2, tl2, inb2, nds2)
<1> DEFINE E == Inventory!Edges(inb, nds)
           F == Inventory!Edges(inb2, nds2)
           L == {<<inb[CHOOSE i \in e.from : TRUE].server, inb[e.to].server>> : e \in E}
           M == {<<inb2[CHOOSE i \in e.from : TRUE].server, inb2[e.to].server>> : e \in F}
<1>1. /\ \A e \in E :
           /\ e.from # {} /\ e.to \in DOMAIN inb /\ inb[e.to].on
           /\ inb[e.to].tls = None \/ tl = "good"
           /\ \A i \in e.from : inb[i].server # inb[e.to].server /\ Inventory!HostUp(srv, inb[i].server)
           /\ Inventory!HostUp(srv, inb[e.to].server)
      /\ Inventory!NoLoop(L)
      BY DEF Inventory!Sound
<1> HIDE DEF E, F
<1>2. /\ F \subseteq E
      /\ \A e \in F :
           /\ e.to \in DOMAIN inb2
           /\ inb2[e.to].on = inb[e.to].on /\ inb2[e.to].server = inb[e.to].server
           /\ inb[e.to].tls = None \/ tl = "good" => inb2[e.to].tls = None \/ tl2 = "good"
           /\ \A i \in e.from : inb2[i].server = inb[i].server
           /\ \A i \in e.from \cup {e.to} : Inventory!HostUp(srv, inb[i].server) => Inventory!HostUp(srv2, inb[i].server)
      BY DEF E, F
<1>3. \A e \in F :
        /\ e.from # {} /\ inb2[e.to].on
        /\ inb2[e.to].tls = None \/ tl2 = "good"
        /\ \A i \in e.from : inb2[i].server # inb2[e.to].server /\ Inventory!HostUp(srv2, inb2[i].server)
        /\ Inventory!HostUp(srv2, inb2[e.to].server)
  <2> SUFFICES ASSUME NEW e \in F
               PROVE  /\ e.from # {} /\ inb2[e.to].on
                      /\ inb2[e.to].tls = None \/ tl2 = "good"
                      /\ \A i \in e.from : inb2[i].server # inb2[e.to].server /\ Inventory!HostUp(srv2, inb2[i].server)
                      /\ Inventory!HostUp(srv2, inb2[e.to].server)
      OBVIOUS
  <2>1. e \in E
        BY <1>2
  <2> QED BY <1>1, <1>2, <2>1
<1>4. M \subseteq L
  <2>1. ASSUME NEW e \in F
        PROVE  <<inb2[CHOOSE i \in e.from : TRUE].server, inb2[e.to].server>>
                 = <<inb[CHOOSE i \in e.from : TRUE].server, inb[e.to].server>>
    <3>1. (CHOOSE i \in e.from : TRUE) \in e.from
          BY <1>3
    <3> QED BY <1>2, <3>1
  <2> QED BY <1>2, <2>1
<1>5. Inventory!NoLoop(M)
      BY <1>1, <1>4, FewerLinks
<1> HIDE DEF L
<1> QED BY <1>2, <1>3, <1>5 DEF Inventory!Sound, F

-----------------------------------------------------------------------------
(* What each request does to the drawing                                     *)

\* Both ends of a link are inbounds
LEMMA EndsAreInbounds ==
  ASSUME NEW inb, NEW nds, NEW e \in Inventory!Edges(inb, nds)
  PROVE  e.from \subseteq DOMAIN inb
  BY DEF Inventory!Edges, Inventory!EntryOf

\* Rows go or lose their landing, and no entry changes hands
LEMMA LinksOnlyGo ==
  ASSUME NEW inb, NEW nds, NEW inb2, NEW nds2,
         DOMAIN inb2 \subseteq DOMAIN inb, DOMAIN nds2 \subseteq DOMAIN nds,
         \A i \in DOMAIN inb2 : /\ inb2[i].on = inb[i].on
                                /\ inb2[i].up = None \/ inb2[i].up = inb[i].up,
         \A n \in DOMAIN nds2 : /\ nds2[n].on = nds[n].on
                                /\ nds2[n].up = None \/ (nds2[n].up = nds[n].up /\ nds2[n].broken = nds[n].broken)
                                /\ Inventory!EntryOf(inb2, nds2[n]) = Inventory!EntryOf(inb, nds[n])
  PROVE  Inventory!Edges(inb2, nds2) \subseteq Inventory!Edges(inb, nds)
<1> SUFFICES ASSUME NEW e \in Inventory!Edges(inb2, nds2) PROVE e \in Inventory!Edges(inb, nds)
    OBVIOUS
<1>1. CASE \E i \in DOMAIN inb2 : inb2[i].on /\ inb2[i].up # None /\ e = [from |-> {i}, to |-> inb2[i].up]
  <2>1. PICK i \in DOMAIN inb2 : inb2[i].on /\ inb2[i].up # None /\ e = [from |-> {i}, to |-> inb2[i].up]
        BY <1>1
  <2>2. i \in DOMAIN inb /\ inb[i].on /\ inb[i].up # None /\ e = [from |-> {i}, to |-> inb[i].up]
        BY <2>1
  <2> QED BY <2>2 DEF Inventory!Edges
<1>2. CASE \E n \in DOMAIN nds2 :
             /\ nds2[n].on /\ ~nds2[n].broken /\ nds2[n].up # None
             /\ \A i \in Inventory!EntryOf(inb2, nds2[n]) : inb2[i].on
             /\ e = [from |-> Inventory!EntryOf(inb2, nds2[n]), to |-> nds2[n].up]
  <2>1. PICK n \in DOMAIN nds2 :
             /\ nds2[n].on /\ ~nds2[n].broken /\ nds2[n].up # None
             /\ \A i \in Inventory!EntryOf(inb2, nds2[n]) : inb2[i].on
             /\ e = [from |-> Inventory!EntryOf(inb2, nds2[n]), to |-> nds2[n].up]
        BY <1>2
  <2>2. /\ n \in DOMAIN nds /\ nds[n].on /\ ~nds[n].broken /\ nds[n].up # None
        /\ Inventory!EntryOf(inb2, nds2[n]) = Inventory!EntryOf(inb, nds[n]) /\ nds2[n].up = nds[n].up
        BY <2>1
  <2>3. Inventory!EntryOf(inb2, nds2[n]) \subseteq DOMAIN inb2
        BY DEF Inventory!EntryOf
  <2>4. \A i \in Inventory!EntryOf(inb, nds[n]) : inb[i].on
        BY <2>1, <2>2, <2>3
  <2>5. e = [from |-> Inventory!EntryOf(inb, nds[n]), to |-> nds[n].up]
        BY <2>1, <2>2
  <2> HIDE <2>1, <1>2
  <2> QED BY <2>2, <2>4, <2>5 DEF Inventory!Edges
<1> QED BY <1>1, <1>2 DEF Inventory!Edges

\* What is committed while metering is on is sound, or was there before
LEMMA CommitIsSound ==
  ASSUME NEW srv, NEW tl, NEW inb, NEW nds, Inventory!Commit(srv, tl, inb, nds),
         metering => Inventory!Sound(server, tls, inbound, node), metering' = metering
  PROVE  metering' => Inventory!Sound(server', tls', inbound', node')
  BY DEF Inventory!Commit

LEMMA CommitIsEither ==
  ASSUME NEW srv, NEW tl, NEW inb, NEW nds, Inventory!Commit(srv, tl, inb, nds)
  PROVE  \/ server' = srv /\ tls' = tl /\ inbound' = inb /\ node' = nds
         \/ UNCHANGED <<server, tls, inbound, node>>
  BY DEF Inventory!Commit

LEMMA SaveOfInbound ==
  ASSUME InventorySane, InventoryInv, NEW q \in Requests, Inventory!SaveSbInbound(q)
  PROVE  InventoryInv'
<1> DEFINE id == req[q].id
           sent == req[q].row
           live == id \in DOMAIN inbound
           taken == \E i \in DOMAIN inbound \ {id} : inbound[i].tag = sent.tag
           kept == [sent EXCEPT !.broken =
                      live /\ inbound[id].broken /\ sent.up = None /\ sent.egress = None]
           moved == [n \in DOMAIN node |->
                       IF live /\ node[n].tag = inbound[id].tag
                       THEN [node[n] EXCEPT !.tag = sent.tag] ELSE node[n]]
<1>0. /\ RowsTyped(inbound, node) /\ TagsApart(inbound)
      /\ server \in [Servers -> {"absent", "on", "off"}] /\ egress \subseteq Egresses
      /\ req \in [Requests -> {Inventory!Idle} \cup InboundSave \cup NodeSave \cup EgressDrop]
      /\ metering => Inventory!Sound(server, tls, inbound, node)
      BY DEF InventoryInv, InventoryTyped
<1>1. /\ req[q].op = "inbound"
      /\ IF taken \/ (~req[q].new /\ ~live)
           THEN UNCHANGED <<server, tls, inbound, node>>
           ELSE Inventory!Commit(server, tls, Inventory!With(inbound, id, kept), moved)
      /\ req' = [req EXCEPT ![q] = Inventory!Idle]
      /\ UNCHANGED <<egress, metering, ops>>
      BY DEF Inventory!SaveSbInbound
<1>2. req[q] \in InboundSave
      BY <1>0, <1>1 DEF Inventory!Idle, InboundSave, NodeSave, EgressDrop
<1>3. id \in Inbounds /\ sent \in Inventory!Rows
      BY <1>2 DEF InboundSave
<1>4. req' \in [Requests -> {Inventory!Idle} \cup InboundSave \cup NodeSave \cup EgressDrop]
      BY <1>0, <1>1
<1> HIDE DEF id, sent
<1>5. kept \in Inventory!Rows /\ kept.tag = sent.tag
  <2>1. sent = [server |-> sent.server, tag |-> sent.tag, on |-> sent.on, tls |-> sent.tls,
               up |-> sent.up, egress |-> sent.egress, broken |-> sent.broken]
        BY <1>3 DEF Inventory!Rows
  <2>2. (live /\ inbound[id].broken /\ sent.up = None /\ sent.egress = None) \in BOOLEAN
    <3>1. live => inbound[id].broken \in BOOLEAN
          BY <1>0 DEF RowsTyped, Inventory!Rows
    <3> QED BY <3>1
  <2> HIDE DEF live
  <2> QED BY <1>3, <2>2 DEF Inventory!Rows
<1>6. RowsTyped(inbound, moved)
  <2>1. \A n \in DOMAIN node : node[n] \in NodeRow
        BY <1>0 DEF RowsTyped
  <2>2. sent.tag \in Tags
        BY <1>3 DEF Inventory!Rows
  <2>3. \A n \in DOMAIN node : [node[n] EXCEPT !.tag = sent.tag] \in NodeRow
        BY <2>1, <2>2 DEF NodeRow
  <2>4. DOMAIN moved = DOMAIN node /\ moved \in [DOMAIN node -> NodeRow]
        BY <2>1, <2>3
  <2> HIDE DEF moved
  <2> QED BY <1>0, <2>4 DEF RowsTyped
<1> HIDE DEF kept, moved
<1>7. RowsTyped(Inventory!With(inbound, id, kept), moved)
  <2>1. DOMAIN Inventory!With(inbound, id, kept) = DOMAIN inbound \cup {id}
        BY DEF Inventory!With
  <2>2. \A i \in DOMAIN inbound : inbound[i] \in Inventory!Rows
        BY <1>0 DEF RowsTyped
  <2>3. Inventory!With(inbound, id, kept) \in [DOMAIN inbound \cup {id} -> Inventory!Rows]
        BY <1>5, <2>2 DEF Inventory!With
  <2> QED BY <1>0, <1>3, <1>6, <2>1, <2>3 DEF RowsTyped
<1>8. ~taken => TagsApart(Inventory!With(inbound, id, kept))
      BY <1>0, <1>5 DEF TagsApart, Inventory!With
<1>9. CASE taken \/ (~req[q].new /\ ~live)
  <2>1. UNCHANGED <<server, tls, inbound, node, egress, metering>>
        BY <1>1, <1>9
  <2> HIDE DEF taken, live
  <2> QED BY <1>0, <1>4, <2>1 DEF InventoryInv, InventoryTyped
<1>10. CASE ~(taken \/ (~req[q].new /\ ~live))
  <2>1. Inventory!Commit(server, tls, Inventory!With(inbound, id, kept), moved)
        BY <1>1, <1>10
  <2>2. TagsApart(Inventory!With(inbound, id, kept))
        BY <1>8, <1>10
  <2> HIDE DEF taken, live
  <2>3. metering' => Inventory!Sound(server', tls', inbound', node')
        BY <1>0, <1>1, <2>1, CommitIsSound
  <2>4. \/ server' = server /\ inbound' = Inventory!With(inbound, id, kept) /\ node' = moved
        \/ UNCHANGED <<server, tls, inbound, node>>
        BY <2>1, CommitIsEither
  <2>5. RowsTyped(inbound', node') /\ TagsApart(inbound')
        BY <1>0, <1>7, <2>2, <2>4
  <2>6. server' \in [Servers -> {"absent", "on", "off"}] /\ egress' \subseteq Egresses
        BY <1>0, <1>1, <2>4
  <2> QED BY <1>4, <2>3, <2>5, <2>6 DEF InventoryInv, InventoryTyped
<1> QED BY <1>9, <1>10

LEMMA SaveOfNode ==
  ASSUME InventoryInv, NEW q \in Requests, Inventory!SaveNode(q)
  PROVE  InventoryInv'
<1>0. /\ RowsTyped(inbound, node) /\ TagsApart(inbound)
      /\ server \in [Servers -> {"absent", "on", "off"}] /\ egress \subseteq Egresses
      /\ req \in [Requests -> {Inventory!Idle} \cup InboundSave \cup NodeSave \cup EgressDrop]
      /\ metering => Inventory!Sound(server, tls, inbound, node)
      BY DEF InventoryInv, InventoryTyped
<1>1. /\ req[q].op = "node"
      /\ \/ Inventory!Commit(server, tls, inbound, Inventory!With(node, req[q].id, req[q].row))
         \/ UNCHANGED <<server, tls, inbound, node>>
      /\ req' = [req EXCEPT ![q] = Inventory!Idle]
      /\ UNCHANGED <<egress, metering, ops>>
      BY DEF Inventory!SaveNode
<1>2. req[q] \in NodeSave
      BY <1>0, <1>1 DEF Inventory!Idle, InboundSave, NodeSave, EgressDrop
<1>3. req[q].id \in Routes /\ req[q].row \in NodeRow
      BY <1>2 DEF NodeSave
<1>4. req' \in [Requests -> {Inventory!Idle} \cup InboundSave \cup NodeSave \cup EgressDrop]
      BY <1>0, <1>1
<1>5. RowsTyped(inbound, Inventory!With(node, req[q].id, req[q].row))
  <2>1. DOMAIN Inventory!With(node, req[q].id, req[q].row) = DOMAIN node \cup {req[q].id}
        BY DEF Inventory!With
  <2>2. \A n \in DOMAIN node : node[n] \in NodeRow
        BY <1>0 DEF RowsTyped
  <2>3. Inventory!With(node, req[q].id, req[q].row) \in [DOMAIN node \cup {req[q].id} -> NodeRow]
        BY <1>3, <2>2 DEF Inventory!With
  <2> QED BY <1>0, <1>3, <2>1, <2>3 DEF RowsTyped
<1>6. \/ server' = server /\ inbound' = inbound /\ node' = Inventory!With(node, req[q].id, req[q].row)
      \/ UNCHANGED <<server, tls, inbound, node>>
      BY <1>1, CommitIsEither
<1>7. metering' => Inventory!Sound(server', tls', inbound', node')
  <2>1. CASE Inventory!Commit(server, tls, inbound, Inventory!With(node, req[q].id, req[q].row))
        BY <1>0, <1>1, <2>1, CommitIsSound
  <2>2. CASE UNCHANGED <<server, tls, inbound, node>>
        BY <1>0, <1>1, <2>2
  <2> QED BY <1>1, <2>1, <2>2
<1>8. RowsTyped(inbound', node') /\ TagsApart(inbound')
      BY <1>0, <1>5, <1>6
<1>9. server' \in [Servers -> {"absent", "on", "off"}] /\ egress' \subseteq Egresses
      BY <1>0, <1>1, <1>6
<1> QED BY <1>4, <1>7, <1>8, <1>9 DEF InventoryInv, InventoryTyped

\* A request is handed on typed
LEMMA InventoryChecks ==
  ASSUME InventoryInv, NEW q \in Requests,
         Inventory!CheckInbound(q) \/ Inventory!CheckNode(q) \/ Inventory!CountEgressRefs(q) \/ Inventory!DeleteSbEgress(q)
  PROVE  InventoryInv'
<1>0. /\ RowsTyped(inbound, node)
      /\ server \in [Servers -> {"absent", "on", "off"}] /\ egress \subseteq Egresses
      /\ req \in [Requests -> {Inventory!Idle} \cup InboundSave \cup NodeSave \cup EgressDrop]
      BY DEF InventoryInv, InventoryTyped
<1>1. UNCHANGED <<server, tls, inbound, node, metering>> /\ egress' \subseteq Egresses
      BY <1>0 DEF Inventory!CheckInbound, Inventory!CheckNode, Inventory!CountEgressRefs, Inventory!DeleteSbEgress
<1>2. \E r \in {Inventory!Idle} \cup InboundSave \cup NodeSave \cup EgressDrop : req' = [req EXCEPT ![q] = r]
  <2>1. CASE Inventory!CheckInbound(q)
    <3>1. CASE \E id \in DOMAIN inbound : \E sent \in Inventory!Forms(id) :
                 req' = [req EXCEPT ![q] = [op |-> "inbound", id |-> id, new |-> FALSE, row |-> sent]]
      <4>0. PICK id \in DOMAIN inbound : \E sent \in Inventory!Forms(id) :
                 req' = [req EXCEPT ![q] = [op |-> "inbound", id |-> id, new |-> FALSE, row |-> sent]]
            BY <3>1
      <4>1. PICK sent \in Inventory!Forms(id) :
                 req' = [req EXCEPT ![q] = [op |-> "inbound", id |-> id, new |-> FALSE, row |-> sent]]
            BY <4>0
      <4>2. id \in Inbounds /\ inbound[id] \in Inventory!Rows
            BY <1>0 DEF RowsTyped
      <4> DEFINE r == inbound[id]
      <4>3. /\ r.server \in Servers \cup {Local} /\ r.tag \in Tags /\ r.on \in BOOLEAN
            /\ r.tls \in {None, Profile} /\ r.up \in Inbounds \cup {None}
            /\ r.egress \in Egresses \cup {None} /\ r.broken \in BOOLEAN
            BY <4>2 DEF Inventory!Rows
      <4>4. r = [server |-> r.server, tag |-> r.tag, on |-> r.on, tls |-> r.tls, up |-> r.up,
                 egress |-> r.egress, broken |-> r.broken]
            BY <4>2 DEF Inventory!Rows
      <4>5. sent \in    {[r EXCEPT !.on = ~@]} \cup {[r EXCEPT !.tag = t] : t \in Tags}
                  \cup {[r EXCEPT !.up = u, !.egress = None] : u \in Inbounds \cup {None}}
                  \cup {[r EXCEPT !.egress = e, !.up = None] : e \in Egresses}
                  \cup {[r EXCEPT !.server = h] : h \in Servers \cup {Local}}
            BY <4>1 DEF Inventory!Forms
      <4>r. r \in Inventory!Rows
            BY <4>2
      <4> HIDE DEF r
      <4>6. [r EXCEPT !.on = ~@] \in Inventory!Rows
            BY <4>r, <4>3 DEF Inventory!Rows
      <4>7. \A t \in Tags : [r EXCEPT !.tag = t] \in Inventory!Rows
            BY <4>r, <4>3 DEF Inventory!Rows
      <4>8. \A u \in Inbounds \cup {None} : [r EXCEPT !.up = u, !.egress = None] \in Inventory!Rows
            BY <4>r, <4>3 DEF Inventory!Rows
      <4>9. \A e \in Egresses : [r EXCEPT !.egress = e, !.up = None] \in Inventory!Rows
            BY <4>r, <4>3 DEF Inventory!Rows
      <4>10. \A h \in Servers \cup {Local} : [r EXCEPT !.server = h] \in Inventory!Rows
            BY <4>r, <4>3 DEF Inventory!Rows
      <4>11. sent \in Inventory!Rows
            BY <4>5, <4>6, <4>7, <4>8, <4>9, <4>10
      <4>12. [op |-> "inbound", id |-> id, new |-> FALSE, row |-> sent] \in InboundSave
            BY <4>2, <4>11 DEF InboundSave
      <4> QED BY <4>1, <4>12
    <3>2. CASE \E id \in Inbounds \ DOMAIN inbound, sent \in Inventory!Rows :
                 req' = [req EXCEPT ![q] = [op |-> "inbound", id |-> id, new |-> TRUE, row |-> sent]]
      <4>1. PICK id \in Inbounds \ DOMAIN inbound, sent \in Inventory!Rows :
                 req' = [req EXCEPT ![q] = [op |-> "inbound", id |-> id, new |-> TRUE, row |-> sent]]
            BY <3>2
      <4>2. [op |-> "inbound", id |-> id, new |-> TRUE, row |-> sent] \in InboundSave
            BY DEF InboundSave
      <4> QED BY <4>1, <4>2
    <3> QED BY <2>1, <3>1, <3>2 DEF Inventory!CheckInbound
  <2>2. CASE Inventory!CheckNode(q)
    <3>0. \E id \in Routes, t \in Tags, on \in BOOLEAN, u \in Inbounds \cup {None} :
            /\ Inventory!RouteAccepted([tag |-> t, on |-> on, up |-> u, broken |-> FALSE])
            /\ req' = [req EXCEPT ![q] = [op |-> "node", id |-> id, new |-> id \notin DOMAIN node,
                         row |-> [tag |-> t, on |-> on, up |-> u, broken |-> FALSE]]]
          BY <2>2, Zenon DEF Inventory!CheckNode
    <3>1. PICK id \in Routes, t \in Tags, on \in BOOLEAN, u \in Inbounds \cup {None} :
            /\ Inventory!RouteAccepted([tag |-> t, on |-> on, up |-> u, broken |-> FALSE])
            /\ req' = [req EXCEPT ![q] = [op |-> "node", id |-> id, new |-> id \notin DOMAIN node,
                         row |-> [tag |-> t, on |-> on, up |-> u, broken |-> FALSE]]]
          BY <3>0
    <3>2. [tag |-> t, on |-> on, up |-> u, broken |-> FALSE] \in NodeRow
          BY DEF NodeRow
    <3>3. [op |-> "node", id |-> id, new |-> id \notin DOMAIN node,
           row |-> [tag |-> t, on |-> on, up |-> u, broken |-> FALSE]] \in NodeSave
          BY <3>2 DEF NodeSave
    <3> QED BY <3>1, <3>3
  <2>3. CASE Inventory!CountEgressRefs(q)
    <3>1. PICK e \in egress : req' = [req EXCEPT ![q] = [op |-> "egress", id |-> e]]
          BY <2>3 DEF Inventory!CountEgressRefs
    <3>2. [op |-> "egress", id |-> e] \in EgressDrop
          BY <1>0 DEF EgressDrop
    <3> QED BY <3>1, <3>2
  <2>4. CASE Inventory!DeleteSbEgress(q)
        BY <2>4 DEF Inventory!DeleteSbEgress
  <2> QED BY <2>1, <2>2, <2>3, <2>4
<1>3. req' \in [Requests -> {Inventory!Idle} \cup InboundSave \cup NodeSave \cup EgressDrop]
      BY <1>0, <1>2
<1> QED BY <1>0, <1>1, <1>3 DEF InventoryInv, InventoryTyped

LEMMA MarkIsAcknowledged ==
  ASSUME InventoryInv, Inventory!AckUpstreamBroken
  PROVE  InventoryInv'
<1>0. /\ RowsTyped(inbound, node) /\ TagsApart(inbound)
      /\ server \in [Servers -> {"absent", "on", "off"}] /\ egress \subseteq Egresses
      /\ req \in [Requests -> {Inventory!Idle} \cup InboundSave \cup NodeSave \cup EgressDrop]
      /\ metering => Inventory!Sound(server, tls, inbound, node)
      BY DEF InventoryInv, InventoryTyped
<1>1. PICK id \in DOMAIN inbound : inbound' = [inbound EXCEPT ![id].broken = FALSE]
      BY DEF Inventory!AckUpstreamBroken
<1>2. UNCHANGED <<server, tls, node, egress, metering, req>>
      BY DEF Inventory!AckUpstreamBroken
<1>3. DOMAIN inbound' = DOMAIN inbound
      BY <1>1
<1>4. ASSUME NEW i \in DOMAIN inbound
      PROVE  /\ inbound'[i] \in Inventory!Rows
             /\ inbound'[i].on = inbound[i].on /\ inbound'[i].up = inbound[i].up
             /\ inbound'[i].tag = inbound[i].tag /\ inbound'[i].server = inbound[i].server
             /\ inbound'[i].tls = inbound[i].tls
  <2>1. inbound[i] \in Inventory!Rows
        BY <1>0 DEF RowsTyped
  <2>2. inbound'[i] = IF i = id THEN [inbound[i] EXCEPT !.broken = FALSE] ELSE inbound[i]
        BY <1>1
  <2>3. CASE i = id
    <3>1. inbound'[i] = [inbound[i] EXCEPT !.broken = FALSE]
          BY <2>2, <2>3
    <3>2. [inbound[i] EXCEPT !.broken = FALSE] \in Inventory!Rows
          BY <2>1 DEF Inventory!Rows
    <3> QED BY <2>1, <3>1, <3>2 DEF Inventory!Rows
  <2>4. CASE i # id
        BY <2>1, <2>2, <2>4
  <2> QED BY <2>3, <2>4
<1>5. RowsTyped(inbound', node') /\ TagsApart(inbound')
  <2>1. inbound' \in [DOMAIN inbound -> Inventory!Rows]
        BY <1>1, <1>3, <1>4
  <2> QED BY <1>0, <1>2, <1>3, <1>4, <2>1 DEF RowsTyped, TagsApart
<1>6. \A n : Inventory!EntryOf(inbound', n) = Inventory!EntryOf(inbound, n)
      BY <1>3, <1>4 DEF Inventory!EntryOf
<1>7. Inventory!Edges(inbound', node) \subseteq Inventory!Edges(inbound, node)
      BY <1>3, <1>4, <1>6, LinksOnlyGo
<1>8. ASSUME metering PROVE Inventory!Sound(server, tls, inbound', node)
  <2>1. ASSUME NEW e \in Inventory!Edges(inbound', node)
        PROVE  /\ e.to \in DOMAIN inbound'
               /\ inbound'[e.to].on = inbound[e.to].on /\ inbound'[e.to].server = inbound[e.to].server
               /\ inbound'[e.to].tls = inbound[e.to].tls
               /\ \A i \in e.from : inbound'[i].server = inbound[i].server
    <3>1. e \in Inventory!Edges(inbound, node)
          BY <1>7
    <3>2. e.to \in DOMAIN inbound
          BY <1>0, <1>8, <3>1 DEF Inventory!Sound
    <3>3. e.from \subseteq DOMAIN inbound
          BY <3>1, EndsAreInbounds
    <3> QED BY <1>3, <1>4, <3>2, <3>3
  <2>2. Inventory!Sound(server, tls, inbound, node)
        BY <1>0, <1>8
  <2> QED BY <1>7, <2>1, <2>2, StillSound
<1>9. metering' => Inventory!Sound(server', tls', inbound', node')
      BY <1>2, <1>8
<1> QED BY <1>0, <1>2, <1>5, <1>9 DEF InventoryInv, InventoryTyped

\* What used the inbound as a landing exits directly, its own nodes go with it, and
\* every other node keeps its entry
LEMMA DeletionOfInbound ==
  ASSUME InventoryInv, Inventory!DeleteSbInbound
  PROVE  InventoryInv'
<1>0. /\ RowsTyped(inbound, node) /\ TagsApart(inbound)
      /\ server \in [Servers -> {"absent", "on", "off"}] /\ egress \subseteq Egresses
      /\ req \in [Requests -> {Inventory!Idle} \cup InboundSave \cup NodeSave \cup EgressDrop]
      /\ metering => Inventory!Sound(server, tls, inbound, node)
      BY DEF InventoryInv, InventoryTyped
<1>1. UNCHANGED <<server, tls, egress, metering, req>>
      BY DEF Inventory!DeleteSbInbound
<1>2. PICK id \in DOMAIN inbound :
       /\ inbound' = Inventory!Without([i \in DOMAIN inbound |->
            IF inbound[i].up = id THEN [inbound[i] EXCEPT !.up = None, !.broken = TRUE]
            ELSE inbound[i]], {id})
       /\ node' = LET mine == {n \in DOMAIN node : node[n].tag = inbound[id].tag}
                  IN Inventory!Without([n \in DOMAIN node |->
                       IF node[n].up = id THEN [node[n] EXCEPT !.up = None, !.broken = TRUE]
                       ELSE node[n]], mine)
      BY DEF Inventory!DeleteSbInbound
<1>3. /\ DOMAIN inbound' = DOMAIN inbound \ {id}
      /\ \A i \in DOMAIN inbound' :
           inbound'[i] = IF inbound[i].up = id THEN [inbound[i] EXCEPT !.up = None, !.broken = TRUE]
                         ELSE inbound[i]
      /\ inbound' = [i \in DOMAIN inbound' |-> inbound'[i]]
      BY <1>2 DEF Inventory!Without, Inventory!Restrict
<1>4. /\ DOMAIN node' = DOMAIN node \ {n \in DOMAIN node : node[n].tag = inbound[id].tag}
      /\ \A n \in DOMAIN node' :
           node'[n] = IF node[n].up = id THEN [node[n] EXCEPT !.up = None, !.broken = TRUE]
                      ELSE node[n]
      /\ node' = [n \in DOMAIN node' |-> node'[n]]
      BY <1>2 DEF Inventory!Without, Inventory!Restrict
<1>5. ASSUME NEW i \in DOMAIN inbound'
      PROVE  /\ inbound'[i] \in Inventory!Rows
             /\ inbound'[i].on = inbound[i].on /\ inbound'[i].tag = inbound[i].tag
             /\ inbound'[i].server = inbound[i].server /\ inbound'[i].tls = inbound[i].tls
             /\ inbound'[i].up = IF inbound[i].up = id THEN None ELSE inbound[i].up
  <2>1. i \in DOMAIN inbound /\ inbound[i] \in Inventory!Rows
        BY <1>0, <1>3 DEF RowsTyped
  <2>2. [inbound[i] EXCEPT !.up = None, !.broken = TRUE] \in Inventory!Rows
        BY <2>1 DEF Inventory!Rows
  <2>3. CASE inbound[i].up = id
    <3>1. inbound'[i] = [inbound[i] EXCEPT !.up = None, !.broken = TRUE]
          BY <1>3, <2>3
    <3> QED BY <2>1, <2>2, <2>3, <3>1 DEF Inventory!Rows
  <2>4. CASE inbound[i].up # id
    <3>1. inbound'[i] = inbound[i]
          BY <1>3, <2>4
    <3> QED BY <2>1, <2>4, <3>1
  <2> QED BY <2>3, <2>4
<1>6. ASSUME NEW n \in DOMAIN node'
      PROVE  /\ n \in DOMAIN node
             /\ node'[n] \in NodeRow
             /\ node'[n].on = node[n].on /\ node'[n].tag = node[n].tag
             /\ \/ node'[n].up = None
                \/ node'[n].up = node[n].up /\ node'[n].broken = node[n].broken
             /\ node[n].tag # inbound[id].tag
             /\ node'[n].up # id \/ node'[n].up = None
  <2>1. n \in DOMAIN node /\ node[n] \in NodeRow /\ node[n].tag # inbound[id].tag
        BY <1>0, <1>4 DEF RowsTyped
  <2>2. [node[n] EXCEPT !.up = None, !.broken = TRUE] \in NodeRow
        BY <2>1 DEF NodeRow
  <2>3. CASE node[n].up = id
    <3>1. node'[n] = [node[n] EXCEPT !.up = None, !.broken = TRUE]
          BY <1>4, <2>3
    <3> QED BY <2>1, <2>2, <2>3, <3>1 DEF NodeRow
  <2>4. CASE node[n].up # id
    <3>1. node'[n] = node[n]
          BY <1>4, <2>4
    <3> QED BY <2>1, <2>4, <3>1
  <2> QED BY <2>3, <2>4
<1>7. RowsTyped(inbound', node') /\ TagsApart(inbound')
  <2>1. inbound' \in [DOMAIN inbound' -> Inventory!Rows]
        BY <1>3, <1>5
  <2>2. node' \in [DOMAIN node' -> NodeRow]
        BY <1>4, <1>6
  <2>3. DOMAIN inbound' \subseteq Inbounds /\ DOMAIN node' \subseteq Routes
        BY <1>0, <1>3, <1>4 DEF RowsTyped
  <2>4. TagsApart(inbound')
        BY <1>0, <1>3, <1>5 DEF TagsApart
  <2> QED BY <2>1, <2>2, <2>3, <2>4 DEF RowsTyped
<1>8. ASSUME NEW n \in DOMAIN node' PROVE Inventory!EntryOf(inbound', node'[n]) = Inventory!EntryOf(inbound, node[n])
  <2>1. node'[n].tag = node[n].tag /\ node[n].tag # inbound[id].tag
        BY <1>6
  <2>2. \A i \in DOMAIN inbound' : inbound'[i].tag = inbound[i].tag
        BY <1>5
  <2>3. DOMAIN inbound' = DOMAIN inbound \ {id}
        BY <1>3
  <2> HIDE <1>0, <1>2, <1>3
  <2> QED BY <2>1, <2>2, <2>3 DEF Inventory!EntryOf
<1>9. Inventory!Edges(inbound', node') \subseteq Inventory!Edges(inbound, node)
  <2>1. \A i \in DOMAIN inbound' : inbound'[i].up = None \/ inbound'[i].up = inbound[i].up
        BY <1>5
  <2> QED BY <1>3, <1>5, <1>6, <1>8, <2>1, LinksOnlyGo
<1>10. ASSUME metering PROVE Inventory!Sound(server, tls, inbound', node')
  <2>1. Inventory!Sound(server, tls, inbound, node)
        BY <1>0, <1>10
  <2>2. ASSUME NEW e \in Inventory!Edges(inbound', node')
        PROVE  /\ e.to \in DOMAIN inbound'
               /\ inbound'[e.to].on = inbound[e.to].on /\ inbound'[e.to].server = inbound[e.to].server
               /\ inbound'[e.to].tls = inbound[e.to].tls
               /\ \A i \in e.from : inbound'[i].server = inbound[i].server
    <3>1. e \in Inventory!Edges(inbound, node)
          BY <1>9
    <3>2. e.to \in DOMAIN inbound
          BY <2>1, <3>1 DEF Inventory!Sound
    <3>3. e.from \subseteq DOMAIN inbound'
          BY EndsAreInbounds
    <3>4. e.to # id
      <4>1. CASE \E i \in DOMAIN inbound' : inbound'[i].up # None /\ e = [from |-> {i}, to |-> inbound'[i].up]
            BY <1>5, <4>1
      <4>2. CASE \E n \in DOMAIN node' : node'[n].up # None /\ e.to = node'[n].up
            BY <1>6, <4>2
      <4> QED BY <4>1, <4>2 DEF Inventory!Edges
    <3> QED BY <1>3, <1>5, <3>2, <3>3, <3>4
  <2> QED BY <1>9, <2>1, <2>2, StillSound
<1>11. metering' => Inventory!Sound(server', tls', inbound', node')
       BY <1>1, <1>10
<1> QED BY <1>0, <1>1, <1>7, <1>11 DEF InventoryInv, InventoryTyped

LEMMA DeletionOfNode ==
  ASSUME InventoryInv, Inventory!DeleteNode
  PROVE  InventoryInv'
<1>0. /\ RowsTyped(inbound, node) /\ TagsApart(inbound)
      /\ server \in [Servers -> {"absent", "on", "off"}] /\ egress \subseteq Egresses
      /\ req \in [Requests -> {Inventory!Idle} \cup InboundSave \cup NodeSave \cup EgressDrop]
      /\ metering => Inventory!Sound(server, tls, inbound, node)
      BY DEF InventoryInv, InventoryTyped
<1>1. UNCHANGED <<server, tls, inbound, egress, metering, req>>
      BY DEF Inventory!DeleteNode
<1>2. PICK id \in DOMAIN node : node' = Inventory!Without(node, {id})
      BY DEF Inventory!DeleteNode
<1>3. /\ DOMAIN node' = DOMAIN node \ {id} /\ \A n \in DOMAIN node' : node'[n] = node[n]
      /\ node' = [n \in DOMAIN node' |-> node'[n]]
      BY <1>2 DEF Inventory!Without, Inventory!Restrict
<1>4. RowsTyped(inbound, node')
      BY <1>0, <1>3 DEF RowsTyped
<1>5. Inventory!Edges(inbound, node') \subseteq Inventory!Edges(inbound, node)
      BY <1>3, LinksOnlyGo
<1>6. ASSUME metering PROVE Inventory!Sound(server, tls, inbound, node')
  <2>1. Inventory!Sound(server, tls, inbound, node)
        BY <1>0, <1>6
  <2>2. \A e \in Inventory!Edges(inbound, node') : e.to \in DOMAIN inbound
        BY <1>5, <2>1 DEF Inventory!Sound
  <2> QED BY <1>5, <2>1, <2>2, StillSound
<1>7. metering' => Inventory!Sound(server', tls', inbound', node')
      BY <1>1, <1>6
<1> QED BY <1>0, <1>1, <1>4, <1>7 DEF InventoryInv, InventoryTyped

\* A machine that comes, or goes when no inbound is bound to it
LEMMA MachineComesOrGoes ==
  ASSUME InventoryInv, Inventory!CreateServer \/ Inventory!DeleteServer
  PROVE  InventoryInv'
<1>0. /\ RowsTyped(inbound, node) /\ TagsApart(inbound)
      /\ server \in [Servers -> {"absent", "on", "off"}] /\ egress \subseteq Egresses
      /\ req \in [Requests -> {Inventory!Idle} \cup InboundSave \cup NodeSave \cup EgressDrop]
      /\ metering => Inventory!Sound(server, tls, inbound, node)
      BY DEF InventoryInv, InventoryTyped
<1>1. UNCHANGED <<tls, inbound, node, egress, metering, req>>
      BY DEF Inventory!CreateServer, Inventory!DeleteServer
<1>2. PICK s \in Servers, to \in {"absent", "on"} :
        /\ server' = [server EXCEPT ![s] = to]
        /\ to = "on" \/ \A i \in DOMAIN inbound : inbound[i].server # s
      BY DEF Inventory!CreateServer, Inventory!DeleteServer
<1>3. server' \in [Servers -> {"absent", "on", "off"}]
      BY <1>0, <1>2
<1>4. \A i \in DOMAIN inbound : Inventory!HostUp(server, inbound[i].server) => Inventory!HostUp(server', inbound[i].server)
      BY <1>0, <1>2 DEF Inventory!HostUp
<1>5. ASSUME metering PROVE Inventory!Sound(server', tls, inbound, node)
  <2>1. Inventory!Sound(server, tls, inbound, node)
        BY <1>0, <1>5
  <2>2. ASSUME NEW e \in Inventory!Edges(inbound, node)
        PROVE  /\ e.to \in DOMAIN inbound
               /\ \A i \in e.from \cup {e.to} :
                    Inventory!HostUp(server, inbound[i].server) => Inventory!HostUp(server', inbound[i].server)
    <3>1. e.to \in DOMAIN inbound
          BY <2>1 DEF Inventory!Sound
    <3>2. e.from \subseteq DOMAIN inbound
          BY EndsAreInbounds
    <3> QED BY <1>4, <3>1, <3>2
  <2> HIDE <1>4
  <2> QED BY <2>1, <2>2, StillSound
<1>6. metering' => Inventory!Sound(server', tls', inbound', node')
      BY <1>1, <1>5
<1> QED BY <1>0, <1>1, <1>3, <1>6 DEF InventoryInv, InventoryTyped

LEMMA MachineIsEdited ==
  ASSUME InventoryInv, Inventory!UpdateServer
  PROVE  InventoryInv'
<1>0. /\ RowsTyped(inbound, node) /\ TagsApart(inbound)
      /\ server \in [Servers -> {"absent", "on", "off"}] /\ egress \subseteq Egresses
      /\ req \in [Requests -> {Inventory!Idle} \cup InboundSave \cup NodeSave \cup EgressDrop]
      /\ metering => Inventory!Sound(server, tls, inbound, node)
      BY DEF InventoryInv, InventoryTyped
<1>1. UNCHANGED <<egress, metering, req>>
      BY DEF Inventory!UpdateServer
<1>2. PICK s \in Servers, to \in {"on", "off"} : Inventory!Commit([server EXCEPT ![s] = to], tls, inbound, node)
      BY DEF Inventory!UpdateServer
<1>3. \/ server' = [server EXCEPT ![s] = to] /\ inbound' = inbound /\ node' = node
      \/ UNCHANGED <<server, inbound, node>>
      BY <1>2, CommitIsEither
<1>4. metering' => Inventory!Sound(server', tls', inbound', node')
      BY <1>0, <1>1, <1>2, CommitIsSound
<1>5. server' \in [Servers -> {"absent", "on", "off"}] /\ inbound' = inbound /\ node' = node
      BY <1>0, <1>3
<1> QED BY <1>0, <1>1, <1>4, <1>5 DEF InventoryInv, InventoryTyped

\* A new profile, or the deletion of one no inbound names, breaks no link: none needs it
LEMMA ProfileChanges ==
  ASSUME InventoryInv, Inventory!SaveSbTls \/ Inventory!DeleteSbTls
  PROVE  InventoryInv'
<1>0. /\ RowsTyped(inbound, node) /\ TagsApart(inbound)
      /\ server \in [Servers -> {"absent", "on", "off"}] /\ egress \subseteq Egresses
      /\ req \in [Requests -> {Inventory!Idle} \cup InboundSave \cup NodeSave \cup EgressDrop]
      /\ metering => Inventory!Sound(server, tls, inbound, node)
      BY DEF InventoryInv, InventoryTyped
<1>1. UNCHANGED <<egress, metering, req>>
      BY DEF Inventory!SaveSbTls, Inventory!DeleteSbTls
<1>2. CASE \E to \in {"good", "bad"} : Inventory!Commit(server, to, inbound, node)
  <2>1. PICK to \in {"good", "bad"} : Inventory!Commit(server, to, inbound, node)
        BY <1>2
  <2>2. server' = server /\ inbound' = inbound /\ node' = node
        BY <2>1, CommitIsEither
  <2>3. metering' => Inventory!Sound(server', tls', inbound', node')
        BY <1>0, <1>1, <2>1, CommitIsSound
  <2> QED BY <1>0, <1>1, <2>2, <2>3 DEF InventoryInv, InventoryTyped
<1>3. CASE /\ UNCHANGED <<server, inbound, node>>
           /\ tls = "absent" \/ \A i \in DOMAIN inbound : inbound[i].tls = None
  <2>1. ASSUME metering PROVE Inventory!Sound(server, tls', inbound, node)
    <3>1. Inventory!Sound(server, tls, inbound, node)
          BY <1>0, <2>1
    <3>2. \A e \in Inventory!Edges(inbound, node) :
            e.to \in DOMAIN inbound /\ (inbound[e.to].tls = None \/ tls = "good")
          BY <3>1 DEF Inventory!Sound
    <3>3. \A e \in Inventory!Edges(inbound, node) : e.to \in DOMAIN inbound /\ inbound[e.to].tls = None
          BY <1>3, <3>2
    <3> QED BY <3>1, <3>3, StillSound
  <2>2. metering' => Inventory!Sound(server', tls', inbound', node')
        BY <1>1, <1>3, <2>1
  <2> QED BY <1>0, <1>1, <1>3, <2>2 DEF InventoryInv, InventoryTyped
<1> QED BY <1>2, <1>3 DEF Inventory!SaveSbTls, Inventory!DeleteSbTls

LEMMA SwitchAndEgress ==
  ASSUME InventoryInv, Inventory!ConfigureTrafficMetering \/ Inventory!SaveSbEgress
  PROVE  InventoryInv'
<1>1. CASE Inventory!ConfigureTrafficMetering
  <2>1. metering' => Inventory!Sound(server, tls, inbound, node)
        BY <1>1, Zenon DEF InventoryInv, Inventory!ConfigureTrafficMetering
  <2>2. UNCHANGED <<server, tls, inbound, node, egress, req>>
        BY <1>1 DEF Inventory!ConfigureTrafficMetering
  <2> QED BY <2>1, <2>2 DEF InventoryInv, InventoryTyped
<1>2. CASE Inventory!SaveSbEgress
  <2>1. UNCHANGED <<server, tls, inbound, node, metering, req>> /\ egress' \subseteq Egresses
        BY <1>2 DEF InventoryInv, InventoryTyped, Inventory!SaveSbEgress
  <2> QED BY <2>1 DEF InventoryInv, InventoryTyped
<1> QED BY <1>1, <1>2

LEMMA InventoryStep == ASSUME InventorySane, InventoryInv, [Inventory!Next]_(Inventory!vars) PROVE InventoryInv'
<1>1. CASE \E q \in Requests : \/ Inventory!CheckInbound(q) \/ Inventory!SaveSbInbound(q)
                               \/ Inventory!CheckNode(q) \/ Inventory!SaveNode(q)
                               \/ Inventory!CountEgressRefs(q) \/ Inventory!DeleteSbEgress(q)
      BY <1>1, InventoryChecks, SaveOfInbound, SaveOfNode
<1>2. CASE Inventory!AckUpstreamBroken \/ Inventory!DeleteSbInbound \/ Inventory!DeleteNode
      BY <1>2, MarkIsAcknowledged, DeletionOfInbound, DeletionOfNode
<1>3. CASE Inventory!CreateServer \/ Inventory!UpdateServer \/ Inventory!DeleteServer
      BY <1>3, MachineComesOrGoes, MachineIsEdited
<1>4. CASE Inventory!SaveSbTls \/ Inventory!DeleteSbTls \/ Inventory!SaveSbEgress \/ Inventory!ConfigureTrafficMetering
      BY <1>4, ProfileChanges, SwitchAndEgress
<1>5. CASE UNCHANGED Inventory!vars
      BY <1>5 DEF InventoryInv, InventoryTyped, Inventory!vars
<1> QED BY <1>1, <1>2, <1>3, <1>4, <1>5 DEF Inventory!Next

-----------------------------------------------------------------------------
(* Along the chain of a sound drawing                                        *)

\* Where the traffic of an inbound goes on to, and what it must be to get there
Onward(x) == IF x \in DOMAIN inbound THEN inbound[x].up ELSE None
Serves(x) == x \in DOMAIN inbound /\ inbound[x].on /\ Inventory!HostUp(server, inbound[x].server)

\* A chain of any length can be followed
LEMMA HopsExist ==
  ASSUME NEW i, NEW k \in Nat
  PROVE  \E h : h = [n \in 0..k |-> IF n = 0 THEN i ELSE Onward(h[n-1])]
<1> DEFINE T == {m \in Nat : \E h : h = [n \in 0..m |-> IF n = 0 THEN i ELSE Onward(h[n-1])]}
<1>1. 0 \in T
  <2> DEFINE h == [n \in 0..0 |-> i]
  <2>1. \A n \in 0..0 : h[n] = IF n = 0 THEN i ELSE Onward(h[n-1])
        OBVIOUS
  <2>2. h = [n \in 0..0 |-> IF n = 0 THEN i ELSE Onward(h[n-1])]
        BY <2>1
  <2> HIDE DEF h
  <2> QED BY <2>2
<1>2. ASSUME NEW m \in Nat, m \in T PROVE m + 1 \in T
  <2>1. PICK g : g = [n \in 0..m |-> IF n = 0 THEN i ELSE Onward(g[n-1])]
        BY <1>2
  <2> DEFINE h == [n \in 0..(m+1) |-> IF n = 0 THEN i ELSE Onward(g[n-1])]
  <2>2. ASSUME NEW n \in 0..(m+1) PROVE h[n] = IF n = 0 THEN i ELSE Onward(h[n-1])
    <3>1. CASE n = 0
          BY <3>1
    <3>2. CASE n # 0
      <4>1. n - 1 \in 0..m /\ n - 1 \in 0..(m+1)
            BY <3>2
      <4>2. g[n-1] = h[n-1]
            BY <2>1, <4>1
      <4> QED BY <3>2, <4>2
    <3> QED BY <3>1, <3>2
  <2>3. h = [n \in 0..(m+1) |-> IF n = 0 THEN i ELSE Onward(h[n-1])]
        BY <2>2
  <2> HIDE DEF h
  <2> QED BY <2>3
<1>3. Nat \subseteq T
  <2> HIDE DEF T
  <2> QED BY <1>1, <1>2, Induction
<1> QED BY <1>3

LEMMA PathSteps ==
  ASSUME NEW i, NEW k \in Nat, k = Inventory!Cardinality(Inbounds)
  PROVE  /\ DOMAIN Inventory!Path(i) = 0..k
         /\ Inventory!Path(i)[0] = i
         /\ \A n \in 0..k : n # 0 => Inventory!Path(i)[n] = Onward(Inventory!Path(i)[n-1])
<1> DEFINE h == CHOOSE h : h = [n \in 0..k |-> IF n = 0 THEN i ELSE Onward(h[n-1])]
<1>1. h = [n \in 0..k |-> IF n = 0 THEN i ELSE Onward(h[n-1])]
      BY HopsExist
<1>2. Inventory!Path(i) = h
      BY DEF Inventory!Path, Onward
<1> HIDE DEF h
<1>3. DOMAIN h = 0..k /\ h[0] = i /\ \A n \in 0..k : n # 0 => h[n] = Onward(h[n-1])
      BY <1>1
<1> QED BY <1>2, <1>3

Hops == {<<inbound[CHOOSE i \in e.from : TRUE].server, inbound[e.to].server>> : e \in Inventory!Edges(inbound, node)}

\* An inbound that serves hands its traffic to one that does, over a link of the drawing
LEMMA HopServes ==
  ASSUME Inventory!Sound(server, tls, inbound, node), NEW x, Serves(x), Onward(x) # None
  PROVE  /\ Serves(Onward(x))
         /\ <<inbound[x].server, inbound[Onward(x)].server>> \in Hops
<1> DEFINE e == [from |-> {x}, to |-> inbound[x].up]
<1>1. Onward(x) = inbound[x].up /\ x \in DOMAIN inbound /\ inbound[x].on /\ inbound[x].up # None
      BY DEF Onward, Serves
<1>2. e \in Inventory!Edges(inbound, node)
      BY <1>1 DEF Inventory!Edges
<1>3. e.from = {x} /\ e.to = inbound[x].up /\ (CHOOSE i \in e.from : TRUE) = x
      OBVIOUS
<1> HIDE DEF e
<1>4. e.to \in DOMAIN inbound /\ inbound[e.to].on /\ Inventory!HostUp(server, inbound[e.to].server)
      BY <1>2 DEF Inventory!Sound
<1>5. <<inbound[x].server, inbound[e.to].server>> \in Hops
      BY <1>2, <1>3 DEF Hops
<1> QED BY <1>1, <1>3, <1>4, <1>5 DEF Serves

Starts == {inbound[i].up : i \in {j \in DOMAIN inbound : inbound[j].on}}
            \cup {node[n].up : n \in {m \in DOMAIN node : node[m].on /\ ~node[m].broken
                                /\ \E i \in Inventory!EntryOf(inbound, node[m]) : inbound[i].on}}

\* Traffic starts on an inbound that serves
LEMMA StartServes ==
  ASSUME Inventory!Sound(server, tls, inbound, node), TagsApart(inbound), NEW x \in Starts, x # None
  PROVE  Serves(x)
<1>1. CASE \E i \in DOMAIN inbound : inbound[i].on /\ x = inbound[i].up
  <2>1. PICK i \in DOMAIN inbound : inbound[i].on /\ x = inbound[i].up
        BY <1>1
  <2> DEFINE e == [from |-> {i}, to |-> inbound[i].up]
  <2>2. e \in Inventory!Edges(inbound, node)
        BY <2>1 DEF Inventory!Edges
  <2>3. e.to = x
        BY <2>1
  <2> HIDE DEF e
  <2> QED BY <2>2, <2>3 DEF Inventory!Sound, Serves
<1>2. CASE \E n \in DOMAIN node : /\ node[n].on /\ ~node[n].broken /\ x = node[n].up
                                  /\ \E i \in Inventory!EntryOf(inbound, node[n]) : inbound[i].on
  <2>1. PICK n \in DOMAIN node : /\ node[n].on /\ ~node[n].broken /\ x = node[n].up
                                 /\ \E i \in Inventory!EntryOf(inbound, node[n]) : inbound[i].on
        BY <1>2
  <2>2. \A i \in Inventory!EntryOf(inbound, node[n]) : inbound[i].on
        BY <2>1 DEF Inventory!EntryOf, TagsApart
  <2> DEFINE e == [from |-> Inventory!EntryOf(inbound, node[n]), to |-> node[n].up]
  <2>3. e \in Inventory!Edges(inbound, node)
        BY <2>1, <2>2 DEF Inventory!Edges
  <2>4. e.to = x
        BY <2>1
  <2> HIDE DEF e
  <2> QED BY <2>3, <2>4 DEF Inventory!Sound, Serves
<1> QED BY <1>1, <1>2 DEF Starts

\* Every hop of a chain that starts well serves, and a chain that has ended stays ended
LEMMA HopsServe ==
  ASSUME Inventory!Sound(server, tls, inbound, node), None \notin DOMAIN inbound,
         NEW x, Serves(x), NEW k \in Nat, k = Inventory!Cardinality(Inbounds), NEW n \in 0..k
  PROVE  Inventory!Path(x)[n] # None => Serves(Inventory!Path(x)[n]) /\ \A j \in 0..n : Inventory!Path(x)[j] # None
<1> DEFINE p == Inventory!Path(x)
           T == {m \in Nat : m <= k /\ p[m] # None => Serves(p[m]) /\ \A j \in 0..m : p[j] # None}
<1>0. p[0] = x /\ \A m \in 0..k : m # 0 => p[m] = Onward(p[m-1])
      BY PathSteps
<1> HIDE DEF p
<1>1. 0 \in T
      BY <1>0
<1>2. ASSUME NEW m \in Nat, m \in T PROVE m + 1 \in T
  <2> SUFFICES ASSUME m + 1 <= k, p[m+1] # None
               PROVE  Serves(p[m+1]) /\ \A j \in 0..(m+1) : p[j] # None
      OBVIOUS
  <2>1. p[m+1] = Onward(p[m])
        BY <1>0
  <2>2. p[m] # None
        BY <2>1 DEF Onward
  <2>3. Serves(p[m]) /\ \A j \in 0..m : p[j] # None
        BY <1>2, <2>2
  <2>4. Serves(p[m+1])
        BY <2>1, <2>3, HopServes
  <2> QED BY <2>3, <2>4
<1>3. Nat \subseteq T
  <2> HIDE DEF T
  <2> QED BY <1>1, <1>2, Induction
<1>4. n \in T
      BY <1>3
<1> QED BY <1>4 DEF p

\* A chain that came back to a machine would be a set of machines that all send to it
LEMMA MachinesDiffer ==
  ASSUME Inventory!Sound(server, tls, inbound, node), None \notin DOMAIN inbound,
         \A i \in DOMAIN inbound : inbound[i].server \in Servers \cup {Local},
         NEW x, Serves(x), NEW k \in Nat, k = Inventory!Cardinality(Inbounds),
         NEW m \in 0..k, NEW n \in 0..k, m < n, Inventory!Path(x)[n] # None
  PROVE  inbound[Inventory!Path(x)[m]].server # inbound[Inventory!Path(x)[n]].server
<1> DEFINE p == Inventory!Path(x)
           S == {inbound[p[j]].server : j \in m..(n-1)}
<1>0. \A j \in 0..k : j # 0 => p[j] = Onward(p[j-1])
      BY PathSteps
<1>1. \A j \in 0..n : p[j] # None
      BY HopsServe
<1>2. \A j \in 0..n : Serves(p[j])
      BY <1>1, HopsServe
<1> HIDE DEF p
<1> SUFFICES ASSUME inbound[p[m]].server = inbound[p[n]].server PROVE FALSE
    BY DEF p
<1>3. Inventory!NoLoop(Hops)
      BY DEF Inventory!Sound, Hops
<1>4. S \in SUBSET (Servers \cup {Local}) /\ S # {}
  <2>1. \A j \in m..(n-1) : inbound[p[j]].server \in Servers \cup {Local}
        BY <1>2 DEF Serves
  <2>2. m \in m..(n-1)
        OBVIOUS
  <2> QED BY <2>1, <2>2
<1>5. ASSUME NEW h \in S PROVE \E l \in Hops : l[1] = h /\ l[2] \in S
  <2>1. PICK j \in m..(n-1) : h = inbound[p[j]].server
        BY <1>5
  <2>2. j \in 0..n /\ j + 1 \in 0..n /\ j + 1 \in 0..k /\ (j + 1 \in m..(n-1) \/ j + 1 = n)
        OBVIOUS
  <2>3. p[j+1] = Onward(p[j])
        BY <1>0, <2>2
  <2>4. <<inbound[p[j]].server, inbound[p[j+1]].server>> \in Hops
        BY <1>1, <1>2, <2>2, <2>3, HopServes
  <2>5. inbound[p[j+1]].server \in S
    <3>1. m \in m..(n-1)
          OBVIOUS
    <3> QED BY <2>2, <3>1
  <2> HIDE DEF S
  <2> DEFINE l == <<inbound[p[j]].server, inbound[p[j+1]].server>>
  <2>6. l[1] = h /\ l[2] = inbound[p[j+1]].server
        BY <2>1
  <2> QED BY <2>4, <2>5, <2>6
<1> HIDE DEF S
<1> QED BY <1>3, <1>4, <1>5 DEF Inventory!NoLoop

\* The module counts as the library does
LEMMA SameCount == \A S : Inventory!Cardinality(S) = Cardinality(S)
  BY DEF Inventory!Cardinality, Cardinality

\* There are not inbounds enough for a chain that does not end
LEMMA ChainEnds ==
  ASSUME Inventory!Sound(server, tls, inbound, node), None \notin DOMAIN inbound,
         \A i \in DOMAIN inbound : inbound[i].server \in Servers \cup {Local},
         DOMAIN inbound \subseteq Inbounds, IsFiniteSet(Inbounds),
         NEW x, Serves(x)
  PROVE  Inventory!Path(x)[Inventory!Cardinality(Inbounds)] = None
<1>0. Inventory!Cardinality(Inbounds) \in Nat
      BY FS_CardinalityType, SameCount
<1>1. PICK k \in Nat : k = Inventory!Cardinality(Inbounds)
      BY <1>0
<1> SUFFICES ASSUME Inventory!Path(x)[k] # None PROVE FALSE
    BY <1>1
<1> DEFINE p == [j \in 0..k |-> Inventory!Path(x)[j]]
<1>2. \A j \in 0..k : Inventory!Path(x)[j] \in Inbounds
      BY <1>1, HopsServe DEF Serves
<1>3. p \in [0..k -> Inbounds]
      BY <1>2
<1>4. IsFiniteSet(0..k) /\ Inventory!Cardinality(0..k) = k + 1
      BY FS_Interval, SameCount
<1>5. PICK a, b \in 0..k : a # b /\ p[a] = p[b]
  <2> HIDE DEF p
  <2>1. Inventory!Cardinality(Inbounds) < Inventory!Cardinality(0..k)
        BY <1>1, <1>4
  <2> QED BY <1>3, <1>4, <2>1, FS_PigeonHole, SameCount
<1>6. \A j \in 0..k : Inventory!Path(x)[j] # None
      BY <1>1, HopsServe
<1>7. a < b \/ b < a
      BY <1>5
<1> QED BY <1>1, <1>5, <1>6, <1>7, MachinesDiffer

LEMMA InventoryInvLeaves == InventorySane /\ InventoryInv => Inventory!MeteredTrafficLeaves
<1> SUFFICES ASSUME InventorySane, InventoryInv, metering, NEW x \in Starts, x # None
             PROVE  /\ Inventory!Path(x)[Inventory!Cardinality(Inbounds)] = None
                    /\ \A n \in DOMAIN Inventory!Path(x) : Inventory!Path(x)[n] # None => Serves(Inventory!Path(x)[n])
                    /\ \A m, n \in DOMAIN Inventory!Path(x) : m # n /\ Inventory!Path(x)[m] # None /\ Inventory!Path(x)[n] # None =>
                         inbound[Inventory!Path(x)[m]].server # inbound[Inventory!Path(x)[n]].server
    BY DEF Inventory!MeteredTrafficLeaves, Starts, Serves
<1>1. /\ Inventory!Sound(server, tls, inbound, node) /\ TagsApart(inbound)
      /\ DOMAIN inbound \subseteq Inbounds /\ IsFiniteSet(Inbounds) /\ None \notin DOMAIN inbound
      /\ \A i \in DOMAIN inbound : inbound[i].server \in Servers \cup {Local}
      BY DEF InventoryInv, InventoryTyped, InventorySane, RowsTyped, Inventory!Rows
<1>2. Serves(x)
      BY <1>1, StartServes
<1>3. PICK k \in Nat : k = Inventory!Cardinality(Inbounds)
      BY <1>1, FS_CardinalityType, SameCount
<1>4. DOMAIN Inventory!Path(x) = 0..k
      BY <1>3, PathSteps
<1>5. Inventory!Path(x)[Inventory!Cardinality(Inbounds)] = None
      BY <1>1, <1>2, ChainEnds
<1>6. \A n \in 0..k : Inventory!Path(x)[n] # None => Serves(Inventory!Path(x)[n])
      BY <1>1, <1>2, <1>3, HopsServe
<1>7. \A m, n \in 0..k : m < n /\ Inventory!Path(x)[n] # None =>
                           inbound[Inventory!Path(x)[m]].server # inbound[Inventory!Path(x)[n]].server
      BY <1>1, <1>2, <1>3, MachinesDiffer
<1>8. \A m, n \in 0..k : m # n => m < n \/ n < m
      OBVIOUS
<1> QED BY <1>4, <1>5, <1>6, <1>7, <1>8

\* With link metering on, whatever requests overlapped (deletions, renames and machine edits
\* look at no route), traffic crosses enabled inbounds on machines in service, meets no machine
\* twice and comes to an exit, for any number of machines, inbounds, nodes and requests
THEOREM MeteredLinksLeave == Spec => []MeteredTrafficLeaves
<1> DEFINE Inv == scenario = "inventory" => InventoryInv
<1>1. Init => Inv
      BY InventoryInit, NetworkIsSane DEF Init
<1>2. Inv /\ [Next]_vars => Inv'
  <2> SUFFICES ASSUME Inv, [Next]_vars, scenario = "inventory"
               PROVE  InventoryInv'
      BY DEF Next, vars
  <2>1. [Inventory!Next]_(Inventory!vars)
        BY DEF Next, vars, Inventory!vars, inventoryOnly
  <2> QED BY <2>1, InventoryStep, NetworkIsSane
<1>3. Inv => MeteredTrafficLeaves
      BY InventoryInvLeaves, NetworkIsSane DEF MeteredTrafficLeaves
<1> QED BY <1>1, <1>2, <1>3, PTL DEF Spec
-----------------------------------------------------------------------------
(* External sources                                                          *)
\* Rows belong to sources; the node table and the history cover all of them
SourceRows ==
  /\ DOMAIN source \subseteq Sources
  /\ DOMAIN node = Sources
  /\ DOMAIN good = Sources

OfferInv == SourceRows /\ NodeSources!OffersLastAnswer

\* Before the first source is created nothing is offered
LEMMA OffersInit == NodeSources!Init => OfferInv
  BY DEF NodeSources!Init, OfferInv, SourceRows, NodeSources!OffersLastAnswer

\* A replacement writes nodes and answer together and only for a row that is there;
\* a deletion takes the nodes with the row: every step keeps the offer
LEMMA OffersStep == ASSUME OfferInv, [NodeSources!Next]_(NodeSources!vars) PROVE OfferInv'
<1> USE DEF OfferInv, SourceRows, NodeSources!OffersLastAnswer
<1>1. CASE NodeSources!CreateSource
      BY <1>1 DEF NodeSources!CreateSource
<1>2. CASE NodeSources!UpdateSource
      BY <1>2 DEF NodeSources!UpdateSource
<1>3. CASE NodeSources!DeleteSource
      BY <1>3 DEF NodeSources!DeleteSource, NodeSources!Restrict
<1>4. CASE NodeSources!DeleteGroup
      BY <1>4 DEF NodeSources!DeleteGroup
<1>5. ASSUME NEW j \in Jobs, NodeSources!FetchSource(j) \/ NodeSources!SourceSync(j) \/ NodeSources!FetchFails(j)
      PROVE  OfferInv'
      BY <1>5 DEF NodeSources!FetchSource, NodeSources!SourceSync, NodeSources!FetchFails
<1>6. ASSUME NEW j \in Jobs, NodeSources!ReplaceSourceNodes(j)
      PROVE  OfferInv'
  <2> DEFINE s == job[j].on
  <2>1. CASE s \in DOMAIN source
        BY <1>6, <2>1 DEF NodeSources!ReplaceSourceNodes
  <2>2. CASE s \notin DOMAIN source
        BY <1>6, <2>2 DEF NodeSources!ReplaceSourceNodes
  <2> QED BY <2>1, <2>2
<1>7. CASE UNCHANGED NodeSources!vars
      BY <1>7 DEF NodeSources!vars
<1> QED BY <1>1, <1>2, <1>3, <1>4, <1>5, <1>6, <1>7 DEF NodeSources!Next

LEMMA OfferInvOffers == OfferInv => NodeSources!OffersLastAnswer
      BY DEF OfferInv

\* However fetches, edits and deletions overlap, a source offers what its last
\* complete answer held, and a deleted one nothing: ReplaceSourceNodes looks the row
\* up in the transaction that writes.
THEOREM SourcesOfferTheirLastAnswer == Spec => []OffersLastAnswer
<1> DEFINE Inv == scenario = "sources" => OfferInv
<1>1. Init => Inv
      BY OffersInit DEF Init
<1>2. Inv /\ [Next]_vars => Inv'
  <2> SUFFICES ASSUME Inv, [Next]_vars, scenario = "sources"
               PROVE  OfferInv'
      BY DEF Next, vars
  <2>1. [NodeSources!Next]_(NodeSources!vars)
        BY DEF Next, vars, NodeSources!vars, sourcesOnly
  <2> QED BY <2>1, OffersStep
<1>3. Inv => OffersLastAnswer
      BY OfferInvOffers DEF OffersLastAnswer
<1> QED BY <1>1, <1>2, <1>3, PTL DEF Spec
-----------------------------------------------------------------------------
(* Access                                                                    *)
BucketRow == [status : {"active", "queued"}, quota : {"none", "left", "spent"}, expiry : 0..1,
              groups : SUBSET Groups, login : Nat]
AccessInv == now \in Nat /\ bucket \in [Buckets -> BucketRow]

LEMMA LeastExists ==
  ASSUME NEW T, T \subseteq Nat, T # {} PROVE \E x \in T : \A y \in T : x <= y
<1>1. PICK R : IsWellFoundedOn(R, Nat) /\ \A x, y \in Nat : y < x => <<y, x>> \in R
  <2>1. IsWellFoundedOn(OpToRel(<, Nat), Nat)
        BY Zenon, NatLessThanWellFounded
  <2>2. \A x, y \in Nat : y < x => <<y, x>> \in OpToRel(<, Nat)
        BY Zenon DEF OpToRel
  <2> QED BY Zenon, <2>1, <2>2
<1>2. PICK x \in T : \A y \in T : <<y, x>> \notin R
      BY <1>1, WFMin
<1>3. \A y \in T : x \in Nat /\ y \in Nat /\ ~(y < x)
      BY <1>1, <1>2
<1> QED BY <1>3

\* The order of buckets always has a first one
LEMMA FirstIsOne ==
  ASSUME AccessSane, AccessInv, NEW C \in SUBSET Buckets, C # {}
  PROVE  Access!First(C) \in C /\ Access!First(C) # None
<1> DEFINE lines == {b \in C : Access!Class(b) = 0}
<1>1. \A b \in C : b \in Nat /\ Access!Class(b) \in 0..2 /\ Access!Deadline(b) \in Nat /\ Kind[b] \in {"plan", "grant", "pool", "free"}
      BY DEF AccessSane, AccessInv, BucketRow, Access!Class, Access!Deadline
<1>2. \E b \in C : \A c \in C \ {b} : Access!Before(b, c)
  <2>1. CASE lines # {}
    <3>1. PICK d \in {Access!Deadline(b) : b \in lines} : \A e \in {Access!Deadline(b) : b \in lines} : d <= e
      <4>1. {Access!Deadline(b) : b \in lines} \subseteq Nat /\ {Access!Deadline(b) : b \in lines} # {}
            BY <1>1, <2>1
      <4> QED BY <4>1, LeastExists
    <3> DEFINE soon == {b \in lines : Access!Deadline(b) = d}
    <3>2. soon \subseteq Nat /\ soon # {}
          BY <1>1
    <3>3. PICK b \in soon : \A c \in soon : b <= c
          BY <3>2, LeastExists
    <3>4. ASSUME NEW c \in C \ {b} PROVE Access!Before(b, c)
      <4>1. /\ Access!Class(b) = 0 /\ Access!Deadline(b) = d /\ b \in C /\ b \in Nat /\ c \in Nat /\ Access!Class(c) \in 0..2 /\ Access!Deadline(c) \in Nat
            /\ b # c /\ d \in Nat
            BY <1>1
      <4>2. CASE Access!Class(c) # 0
            BY <4>1, <4>2 DEF Access!Before
      <4>3. CASE Access!Class(c) = 0
        <5>1. d <= Access!Deadline(c) /\ (Access!Deadline(c) = d => b <= c)
              BY <3>1, <3>3, <4>3
        <5> QED BY <4>1, <4>3, <5>1 DEF Access!Before
      <4> QED BY <4>2, <4>3
    <3> QED BY <3>4
  <2>2. CASE lines = {}
    <3>1. \A b \in C : Kind[b] \in {"free", "pool"}
          BY <1>1, <2>2 DEF Access!Class
    <3>2. CASE \E b \in C : Kind[b] = "free"
          BY <1>1, <3>1, <3>2 DEF Access!Before, Access!Class, AccessSane
    <3>3. CASE \A b \in C : Kind[b] = "pool"
          BY <3>3 DEF AccessSane
    <3> QED BY <3>1, <3>2, <3>3
  <2> QED BY <2>1, <2>2
<1>3. Access!First(C) = CHOOSE b \in C : \A c \in C \ {b} : Access!Before(b, c)
      BY DEF Access!First
<1>4. Access!First(C) \in C
      BY <1>2, <1>3
<1> QED BY <1>4 DEF AccessSane

\* An owner carries traffic, serves one of the groups, and is entitled to it
LEMMA OwnerServes ==
  ASSUME AccessSane, AccessInv, NEW groups, Access!Owner(groups) # None
  PROVE  /\ Access!Owner(groups) \in Buckets /\ Access!Listed(Access!Owner(groups)) /\ Access!Active(Access!Owner(groups))
         /\ groups \cap Access!FreeGroups # {} \/ groups \cap Access!PlanGroups # {}
<1> DEFINE C == {b \in Buckets : Access!Listed(b) /\ Access!Covers(b) \cap groups # {}}
           o == Access!Owner(groups)
<1>1. C # {}
      BY DEF Access!Owner, Access!First
<1>2. o \in C
  <2>1. C \in SUBSET Buckets
        OBVIOUS
  <2>2. o = Access!First(C)
        BY DEF Access!Owner
  <2> HIDE DEF C, o
  <2> QED BY <1>1, <2>1, <2>2, FirstIsOne
<1> HIDE DEF o
<1>3. Access!Active(o)
      BY <1>2 DEF Access!Listed, Access!Active
<1>4. Access!Covers(o) \subseteq Access!FreeGroups \cup Access!PlanGroups
  <2>1. CASE Kind[o] = "plan"
    <3>1. ~Access!Waiting(o) /\ bucket[o].quota # "none" /\ ~Access!Past(bucket[o].expiry)
          BY <1>2, <1>3, <2>1 DEF Access!Listed, Access!Active
    <3>2. Access!Covers(o) = bucket[o].groups
          BY <1>3, <2>1, <3>1 DEF Access!Covers
    <3> QED BY <1>2, <2>1, <3>1, <3>2 DEF Access!PlanGroups
  <2>2. CASE Kind[o] # "plan"
        BY <1>2, <1>3, <2>2 DEF Access!Covers, AccessSane
  <2> QED BY <2>1, <2>2
<1> QED BY <1>2, <1>3, <1>4 DEF o

\* The bucket that pays for the account login
LEMMA AccountIsPaid ==
  ASSUME AccessSane, AccessInv, NEW b \in Buckets, Access!Listed(b), Kind[b] # "free" PROVE Access!AccountMeterBucket # None
<1> DEFINE C == {c \in Buckets : Access!Listed(c) /\ Kind[c] # "free"}
<1>1. C \in SUBSET Buckets /\ C # {}
      OBVIOUS
<1>2. Access!AccountMeterBucket = Access!First(C)
      BY DEF Access!AccountMeterBucket
<1> HIDE DEF C
<1> QED BY <1>1, <1>2, FirstIsOne

LEMMA AcceptedByOwner ==
  ASSUME NEW u \in Access!UsersByTag
  PROVE  \/ \E i \in Inbounds : /\ inbound[i].on /\ Access!Owner(Access!InboundGroups(i)) # None
                                /\ u \in Access!Emit(i, Access!Owner(Access!InboundGroups(i)), None)
         \/ \E n \in Nodes : /\ Access!RouteOn(n) /\ inbound[Tag[n]].on /\ Access!RouteHealthy(node[n].up) /\ Access!Owner(node[n].groups) # None
                             /\ u \in Access!Emit(Tag[n], Access!Owner(node[n].groups), n)
<1> DEFINE plain == {i \in Inbounds : inbound[i].on /\ Access!Owner(Access!InboundGroups(i)) # None}
           routes == {n \in Nodes : /\ Access!RouteOn(n) /\ inbound[Tag[n]].on /\ Access!RouteHealthy(node[n].up)
                                    /\ Access!Owner(node[n].groups) # None}
           P(i) == Access!Emit(i, Access!Owner(Access!InboundGroups(i)), None)
           R(n) == Access!Emit(Tag[n], Access!Owner(node[n].groups), n)
<1>1. Access!UsersByTag = UNION ({P(i) : i \in plain} \cup {R(n) : n \in routes})
      BY Zenon DEF Access!UsersByTag
<1> DEFINE A == {P(i) : i \in plain}
           B == {R(n) : n \in routes}
<1>2. (\A e \in A : \E i \in plain : e = P(i)) /\ (\A e \in B : \E n \in routes : e = R(n))
      BY Zenon
<1>3. Access!UsersByTag = UNION (A \cup B)
      BY <1>1
<1> HIDE DEF A, B
<1>4. \E e : e \in A \cup B /\ u \in e
      BY <1>3
<1> QED BY <1>2, <1>4

LEMMA PlainServes ==
  ASSUME NEW i \in Inbounds, inbound[i].on, Access!Owner(Access!InboundGroups(i)) # None
  PROVE  Access!Emit(i, Access!Owner(Access!InboundGroups(i)), None) \subseteq Access!UsersByTag
  BY DEF Access!UsersByTag

LEMMA RouteServes ==
  ASSUME NEW n \in Nodes, Access!RouteOn(n), inbound[Tag[n]].on, Access!RouteHealthy(node[n].up), Access!Owner(node[n].groups) # None
  PROVE  Access!Emit(Tag[n], Access!Owner(node[n].groups), n) \subseteq Access!UsersByTag
<1> DEFINE plain == {i \in Inbounds : inbound[i].on /\ Access!Owner(Access!InboundGroups(i)) # None}
           P(i) == Access!Emit(i, Access!Owner(Access!InboundGroups(i)), None)
           routes == {m \in Nodes : /\ Access!RouteOn(m) /\ inbound[Tag[m]].on /\ Access!RouteHealthy(node[m].up)
                                    /\ Access!Owner(node[m].groups) # None}
           R(m) == Access!Emit(Tag[m], Access!Owner(node[m].groups), m)
<1>1. Access!UsersByTag = UNION ({P(i) : i \in plain} \cup {R(m) : m \in routes})
      BY Zenon DEF Access!UsersByTag
<1>2. n \in routes
      OBVIOUS
<1> DEFINE A == {P(i) : i \in plain}
           B == {R(m) : m \in routes}
<1>3. R(n) \in B
      BY Zenon, <1>2
<1>4. Access!UsersByTag = UNION (A \cup B)
      BY <1>1
<1> HIDE DEF A, B
<1>5. R(n) \subseteq Access!UsersByTag
      BY <1>3, <1>4
<1> QED BY <1>5

LEMMA ServedLinks ==
  ASSUME AccessSane, NEW l \in Access!Links
  PROVE  /\ l \in Access!UsersByTag
         /\ l.node # None => l.node \in Access!RouteRules \/ ~Access!Dialable(node[l.node].up)
<1>1. inbound[l.inbound].type # "mixed"
      BY DEF Access!Links
<1>2. CASE l \in Access!PlainLinks
  <2>1. PICK i \in Inbounds : /\ inbound[i].on /\ Access!OwnedInbounds[i] # None
                              /\ l = Access!Cred(i, Access!OwnedInbounds[i], None, "client")
        BY <1>2 DEF Access!PlainLinks, Access!OwnedInbounds
  <2>2. Access!OwnedInbounds[i] = Access!Owner(Access!InboundGroups(i))
        BY <2>1 DEF Access!OwnedInbounds
  <2>3. l \in Access!Emit(i, Access!Owner(Access!InboundGroups(i)), None) /\ l.node = None
        BY <1>1, <2>1, <2>2 DEF Access!Emit, Access!Cred
  <2> QED BY <2>1, <2>2, <2>3, PlainServes
<1>3. CASE l \in Access!RouteLinks
  <2>1. PICK n \in Nodes : /\ node[n].on /\ ~node[n].broken /\ node[n].up # None /\ inbound[Tag[n]].on
                           /\ Access!RouteHealthy(node[n].up) /\ Access!OwnedNodes[n] # None
                           /\ l = Access!Cred(Tag[n], Access!OwnedNodes[n], n, "client")
        BY <1>3 DEF Access!RouteLinks, Access!OwnedNodes
  <2>2. Access!OwnedNodes[n] = Access!Owner(node[n].groups)
        BY <2>1 DEF Access!OwnedNodes
  <2>3. l \in Access!Emit(Tag[n], Access!Owner(node[n].groups), n) /\ l.node = n /\ l.inbound = Tag[n]
        BY <1>1, <2>1, <2>2 DEF Access!Emit, Access!Cred
  <2>4. Access!RouteOn(n)
        BY <2>1 DEF Access!RouteOn
  <2>5. l \in Access!UsersByTag
        BY <2>1, <2>2, <2>3, <2>4, RouteServes
  <2>6. inbound[node[n].up].on
        BY <2>1 DEF Access!RouteHealthy
  <2> QED BY <2>1, <2>3, <2>4, <2>5, <2>6 DEF Access!RouteRules
<1> QED BY <1>2, <1>3 DEF Access!Links

LEMMA ServedProxies ==
  ASSUME AccessSane, AccessInv, NEW p \in Access!Proxies PROVE p \in Access!UsersByTag
<1>1. PICK i \in Inbounds : /\ inbound[i].on /\ inbound[i].type = "mixed" /\ Access!OwnedInbounds[i] # None
                            /\ \/ /\ p = Access!Cred(i, Access!OwnedInbounds[i], None, "proxy")
                                  /\ ~Access!Past(bucket[Access!OwnedInbounds[i]].login)
                               \/ /\ p = Access!Cred(i, Access!OwnedInbounds[i], None, "account")
                                  /\ Kind[Access!OwnedInbounds[i]] # "free" /\ Access!AccountOn
      BY DEF Access!Proxies, Access!OwnedInbounds
<1>2. Access!OwnedInbounds[i] = Access!Owner(Access!InboundGroups(i))
      BY <1>1 DEF Access!OwnedInbounds
<1>3. Access!Active(Access!OwnedInbounds[i])
      BY <1>1, <1>2, OwnerServes
<1>4. p \in Access!Emit(i, Access!Owner(Access!InboundGroups(i)), None)
      BY <1>1, <1>2, <1>3 DEF Access!Emit, Access!ProxyActive
<1> QED BY <1>1, <1>2, <1>4, PlainServes

LEMMA ListedIsServedHolds == ASSUME AccessSane, AccessInv PROVE Access!ListedIsServed
<1>1. Access!Links \cup Access!Proxies \subseteq Access!UsersByTag
      BY ServedLinks, ServedProxies
<1>2. ASSUME NEW u \in Access!Links, u.node # None, Access!Dialable(node[u.node].up) PROVE Access!NextHop(u) = node[u.node].up
      BY <1>2, ServedLinks DEF Access!NextHop
<1>3. ASSUME NEW u \in Access!UsersByTag, u.as = "account" PROVE Access!AccountMeterBucket # None
  <2>1. PICK groups : /\ Access!Owner(groups) # None
                      /\ \E i, n : u \in Access!Emit(i, Access!Owner(groups), n)
        BY AcceptedByOwner
  <2>2. Kind[Access!Owner(groups)] # "free"
        BY <1>3, <2>1 DEF Access!Emit, Access!Cred
  <2> QED BY <2>1, <2>2, OwnerServes, AccountIsPaid
<1>4. ASSUME NEW u \in Access!UsersByTag
      PROVE  LET groups == IF u.node = None THEN Access!InboundGroups(u.inbound) ELSE node[u.node].groups
             IN  groups \cap Access!FreeGroups # {} \/ groups \cap Access!PlanGroups # {}
  <2>1. CASE \E i \in Inbounds : Access!Owner(Access!InboundGroups(i)) # None /\ u \in Access!Emit(i, Access!Owner(Access!InboundGroups(i)), None)
    <3>1. PICK i \in Inbounds : Access!Owner(Access!InboundGroups(i)) # None /\ u \in Access!Emit(i, Access!Owner(Access!InboundGroups(i)), None)
          BY <2>1
    <3>2. u.node = None /\ u.inbound = i
          BY <3>1 DEF Access!Emit, Access!Cred
    <3> QED BY <3>1, <3>2, OwnerServes
  <2>2. CASE \E n \in Nodes : Access!Owner(node[n].groups) # None /\ u \in Access!Emit(Tag[n], Access!Owner(node[n].groups), n)
    <3>1. PICK n \in Nodes : Access!Owner(node[n].groups) # None /\ u \in Access!Emit(Tag[n], Access!Owner(node[n].groups), n)
          BY <2>2
    <3>2. u.node = n /\ n # None
          BY <3>1 DEF Access!Emit, Access!Cred, AccessSane
    <3> QED BY <3>1, <3>2, OwnerServes
  <2> QED BY <2>1, <2>2, AcceptedByOwner
<1> QED BY <1>1, <1>2, <1>3, <1>4 DEF Access!ListedIsServed

LEMMA AccessInit == ASSUME Access!Init PROVE AccessInv
<1>1. PICK g \in Groups, h \in Groups :
        bucket = [b \in Buckets |->
            [status |-> "active", quota |-> IF Kind[b] \in {"plan", "free"} THEN "left" ELSE "none",
             expiry |-> IF Kind[b] = "plan" /\ \E c \in Buckets : Kind[c] = "plan" /\ c < b
                          THEN 1 ELSE 0,
             groups |-> IF Kind[b] # "plan" THEN {}
                        ELSE IF \E c \in Buckets : Kind[c] = "plan" /\ c < b THEN {g, h} ELSE {g},
             login |-> 0]]
      BY DEF Access!Init
<1>2. bucket \in [Buckets -> BucketRow]
      BY <1>1 DEF BucketRow
<1> QED BY <1>2 DEF Access!Init, AccessInv

LEMMA AccessStep == ASSUME AccessSane, AccessInv, [Access!Next]_(Access!vars) PROVE AccessInv'
<1>1. now' \in Nat
  <2>1. CASE Access!Tick
        BY <2>1 DEF Access!Tick, AccessInv
  <2>2. CASE UNCHANGED now
        BY <2>2 DEF AccessInv
  <2> QED BY <2>1, <2>2 DEF Access!Next, Access!vars, Access!BucketChanges, Access!SetBucketProxyCred, Access!SetPlanGroups, Access!SetFreeGroup,
             Access!SetUserProxyCred, Access!SaveNode, Access!SaveInbound, Access!SaveTls
<1>2. bucket' \in [Buckets -> BucketRow]
  <2>1. ASSUME NEW b \in Buckets, NEW r \in BucketRow, bucket' = [bucket EXCEPT ![b] = r]
        PROVE  bucket' \in [Buckets -> BucketRow]
        BY <2>1 DEF AccessInv
  <2>2. \A b \in Buckets : /\ bucket[b] \in BucketRow
                           /\ \A q \in {"none", "left", "spent"} : [bucket[b] EXCEPT !.quota = q] \in BucketRow
                           /\ \A s \in {"active", "queued"} : [bucket[b] EXCEPT !.status = s] \in BucketRow
                           /\ \A t \in 0..Horizon : [bucket[b] EXCEPT !.login = t] \in BucketRow
                           /\ \A gs \in SUBSET Groups : [bucket[b] EXCEPT !.groups = gs] \in BucketRow
        BY DEF AccessInv, AccessSane, BucketRow
  <2>3. CASE Access!BucketChanges
        BY <2>1, <2>2, <2>3 DEF Access!BucketChanges
  <2>4. CASE Access!SetBucketProxyCred
        BY <2>1, <2>2, <2>4 DEF Access!SetBucketProxyCred
  <2>5. CASE Access!SetPlanGroups
        BY <2>1, <2>2, <2>5 DEF Access!SetPlanGroups
  <2>6. CASE UNCHANGED bucket
        BY <2>6 DEF AccessInv
  <2> QED BY <2>3, <2>4, <2>5, <2>6 DEF Access!Next, Access!vars, Access!Tick, Access!SetFreeGroup, Access!SetUserProxyCred, Access!SaveNode, Access!SaveInbound, Access!SaveTls
<1> QED BY <1>1, <1>2 DEF AccessInv

\* Every link and proxy login a user is shown is accepted by its inbound as the bucket the
\* page names, for any buckets, groups, nodes and inbounds: what BuildUsersByTag generates
\* and what the pages of the user list choose the same owner.
THEOREM WhatIsListedIsServed == Spec => []ListedIsServed
<1> DEFINE Inv == scenario = "access" => AccessInv
<1>1. Init => Inv
      BY AccessInit, NetworkIsSane DEF Init
<1>2. Inv /\ [Next]_vars => Inv'
  <2> SUFFICES ASSUME Inv, [Next]_vars, scenario = "access"
               PROVE  AccessInv'
      BY DEF Next, vars
  <2>1. [Access!Next]_(Access!vars)
        BY DEF Next, vars, Access!vars, accessOnly
  <2> QED BY <2>1, AccessStep, NetworkIsSane
<1>3. Inv => ListedIsServed
      BY ListedIsServedHolds, NetworkIsSane DEF ListedIsServed
<1> QED BY <1>1, <1>2, <1>3, PTL DEF Spec
-----------------------------------------------------------------------------
(* Relay metering                                                            *)
States == {"prepared", "accepted", "active"}
LinkRow == [gen : Nat, state : States, spec : Specs]
GenRow == [acc : BOOLEAN, retired : BOOLEAN, gone : BOOLEAN]
UserRow == [on : BOOLEAN, state : States, acc : BOOLEAN, names : Nat,
            life : {"none", "active", "restoring", "retiring", "retired"}, clear : BOOLEAN]

RelayTyped ==
  /\ mode \in {"off", "link", "user"} /\ spec \in Specs /\ subjects \in [Owners -> Nat] /\ byTag \in [Owners -> Nat]
  /\ link \in LinkRow /\ gens \in [1..link.gen -> GenRow]
  /\ rows \in [DOMAIN rows -> UserRow] /\ DOMAIN rows \subseteq Owners \X (1..link.gen)
  /\ pass \in {{"idle"}, {"prepared"}} \cup SUBSET RelayMetering!Machines
  /\ running = [m \in RelayMetering!Machines |-> running[m]] /\ flight = [m \in RelayMetering!Machines |-> flight[m]]

\* What the relay's configuration can dial, and the machines' two configurations: the one
\* running and the one on its way
Dialed(id) == id \in running["relay"].uses
Newest == {id \in {RelayMetering!Shared} \cup ({0} \X (1..link.gen)) \cup DOMAIN rows : id = RelayMetering!Shared \/ id[2] = link.gen}

\* A landing's configuration accepts the generations and users acknowledged so far
LandingOk(c) ==
  /\ c.accepts \subseteq {RelayMetering!Shared} \cup (({0} \cup Owners) \X (1..link.gen))
  /\ \A o \in Owners : <<o, link.gen>> \in c.accepts => <<0, link.gen>> \in c.accepts
  /\ \A g \in 1..link.gen : gens[g].acc => <<0, g>> \in c.accepts
  /\ \A id \in DOMAIN rows : rows[id].on /\ rows[id].acc /\ (id[2] = link.gen \/ Dialed(id)) => id \in c.accepts

\* A relay's configuration dials with what was minted, with the newest only once acknowledged
RelayOk(c) ==
  /\ c.uses \subseteq {RelayMetering!Shared} \cup ({0} \X (1..link.gen)) \cup DOMAIN rows
  /\ link.gen # 0 /\ <<0, link.gen>> \in c.uses => gens[link.gen].acc

ConfigsOk ==
  /\ LandingOk(running["landing"]) /\ RelayOk(running["relay"])
  /\ flight["landing"] # RelayMetering!Nothing => LandingOk(flight["landing"])
  /\ flight["relay"] # RelayMetering!Nothing => RelayOk(flight["relay"]) /\ flight["relay"].uses \subseteq Newest
  /\ pass \in {{"idle"}, {"prepared"}} => flight["landing"] = RelayMetering!Nothing /\ flight["relay"] = RelayMetering!Nothing

GensOk ==
  \A g \in 1..link.gen :
    /\ gens[g].acc => ~gens[g].retired
    /\ gens[g].retired => g # link.gen /\ ~Dialed(<<0, g>>)

RowsOk ==
  \A id \in DOMAIN rows :
    /\ rows[id].state # "prepared" => rows[id].acc
    /\ id[2] = link.gen => rows[id].life = "none" /\ (rows[id].acc => gens[link.gen].acc)
    /\ rows[id].on /\ rows[id].acc /\ Dialed(id) => rows[id].life \notin {"retiring", "retired"}

LinkOk ==
  /\ link.state # "prepared" => link.gen # 0 /\ gens[link.gen].acc
  /\ link.state = "active" \/ (\E id \in DOMAIN rows : id[2] = link.gen /\ rows[id].state = "active")
       => running["relay"].uses \subseteq Newest

RelayInv == RelayTyped /\ ConfigsOk /\ GensOk /\ RowsOk /\ LinkOk

-----------------------------------------------------------------------------
LEMMA RelayInit == ASSUME RelaySane, RelayMetering!Init PROVE RelayInv
<1>1. /\ link = [gen |-> 0, state |-> "prepared", spec |-> spec] /\ spec \in Specs /\ gens = << >> /\ rows = << >>
      /\ mode \in {"off", "link", "user"} /\ subjects = [o \in Owners |-> 1] /\ byTag = subjects
      /\ running = [m \in RelayMetering!Machines |-> IF m = "landing" THEN RelayMetering!LandingConfig ELSE RelayMetering!SharedConfig]
      /\ flight = [m \in RelayMetering!Machines |-> RelayMetering!Nothing] /\ pass = {"idle"}
      BY DEF RelayMetering!Init, RelaySane
<1>2. link.gen = 0 /\ link \in LinkRow /\ DOMAIN rows = {} /\ 1..link.gen = {}
      BY <1>1 DEF LinkRow, States
<1>3. RelayTyped
  <2>1. gens \in [1..link.gen -> GenRow] /\ rows \in [DOMAIN rows -> UserRow]
        BY <1>1, <1>2
  <2>2. running = [m \in RelayMetering!Machines |-> running[m]] /\ flight = [m \in RelayMetering!Machines |-> flight[m]]
        BY <1>1, Zenon
  <2> QED BY <1>1, <1>2, <2>1, <2>2 DEF RelayTyped
<1>4. /\ running["landing"] = RelayMetering!LandingConfig /\ running["relay"] = RelayMetering!SharedConfig
      /\ flight["landing"] = RelayMetering!Nothing /\ flight["relay"] = RelayMetering!Nothing
      BY <1>1 DEF RelayMetering!Machines
<1>5. RelayMetering!LandingConfig.accepts \subseteq {RelayMetering!Shared}
      BY <1>1, <1>2 DEF RelayMetering!LandingConfig, RelayMetering!AcceptedGenerations, RelayMetering!LandingUsers
<1>6. LandingOk(running["landing"])
  <2>1. \A o \in Owners : <<o, link.gen>> # RelayMetering!Shared
        BY DEF RelaySane, RelayMetering!Shared
  <2> QED BY <1>2, <1>4, <1>5, <2>1 DEF LandingOk
<1>7. RelayOk(running["relay"]) /\ running["relay"].uses = {RelayMetering!Shared}
      BY <1>2, <1>4 DEF RelayOk, RelayMetering!SharedConfig
<1> QED BY <1>1, <1>2, <1>3, <1>4, <1>6, <1>7 DEF RelayInv, ConfigsOk, GensOk, RowsOk, LinkOk, Newest

\* A step that touches neither the link nor the machines
LEMMA RowsStay ==
  ASSUME RelayInv, UNCHANGED <<link, gens, rows, running, flight>>,
         UNCHANGED pass \/ pass' = RelayMetering!Machines,
         mode' \in {"off", "link", "user"}, spec' \in Specs, subjects' \in [Owners -> Nat], byTag' \in [Owners -> Nat]
  PROVE  RelayInv'
<1>1. pass' \in {{"idle"}, {"prepared"}} => pass \in {{"idle"}, {"prepared"}}
      BY DEF RelayMetering!Machines
<1>2. RelayTyped' /\ GensOk' /\ RowsOk' /\ LinkOk'
      BY DEF RelayInv, RelayTyped, GensOk, RowsOk, LinkOk, Dialed, Newest
<1>3. ConfigsOk'
      BY <1>1 DEF RelayInv, ConfigsOk, LandingOk, RelayOk, Dialed, Newest
<1> QED BY <1>2, <1>3 DEF RelayInv

LEMMA NewLandingIsOk == ASSUME RelaySane, RelayInv PROVE LandingOk(RelayMetering!LandingConfig)
<1> DEFINE c == RelayMetering!LandingConfig
<1>1. c.accepts = (IF compat \in {"retiring", "retired"} THEN {} ELSE {RelayMetering!Shared}) \cup RelayMetering!AcceptedGenerations \cup RelayMetering!LandingUsers
      BY DEF RelayMetering!LandingConfig
<1>2. RelayMetering!AcceptedGenerations \subseteq {0} \X (1..link.gen) /\ RelayMetering!LandingUsers \subseteq Owners \X (1..link.gen)
  <2>1. DOMAIN gens = 1..link.gen
        BY DEF RelayInv, RelayTyped
  <2>2. RelayMetering!LandingUsers \subseteq DOMAIN rows
        BY DEF RelayMetering!LandingUsers
  <2> QED BY <2>1, <2>2 DEF RelayMetering!AcceptedGenerations, RelayInv, RelayTyped
<1>3. \A g \in 1..link.gen : gens[g].acc => <<0, g>> \in RelayMetering!AcceptedGenerations
      BY DEF RelayMetering!AcceptedGenerations, RelayInv, RelayTyped, GensOk
<1>4. ASSUME NEW o \in Owners, <<o, link.gen>> \in RelayMetering!LandingUsers PROVE <<0, link.gen>> \in RelayMetering!AcceptedGenerations
  <2> DEFINE id == <<o, link.gen>>
  <2>1. id \in DOMAIN rows /\ id[2] = link.gen /\ link.gen \in 1..link.gen
        BY <1>4 DEF RelayMetering!LandingUsers, RelayInv, RelayTyped
  <2>2. rows[id].life = "none" /\ (rows[id].acc => gens[link.gen].acc)
        BY <2>1 DEF RelayInv, RowsOk
  <2>3. rows[id].acc \/ mode = "user"
        BY <1>4, <2>2 DEF RelayMetering!LandingUsers
  <2>4. ~gens[link.gen].retired
        BY <2>1 DEF RelayInv, GensOk
  <2>5. link.gen \in DOMAIN gens
        BY <2>1 DEF RelayInv, RelayTyped
  <2> HIDE DEF id
  <2> QED BY <2>2, <2>3, <2>4, <2>5 DEF RelayMetering!AcceptedGenerations
<1>5. ASSUME NEW id \in DOMAIN rows, rows[id].on, rows[id].acc, id[2] = link.gen \/ Dialed(id)
      PROVE  id \in RelayMetering!LandingUsers
      BY <1>5 DEF RelayMetering!LandingUsers, RelayInv, RowsOk
<1>6. ASSUME NEW o \in Owners, <<o, link.gen>> \in c.accepts PROVE <<0, link.gen>> \in RelayMetering!AcceptedGenerations
  <2>1. o # 0
        BY DEF RelaySane
  <2>2. <<o, link.gen>> # RelayMetering!Shared /\ <<o, link.gen>> \notin RelayMetering!AcceptedGenerations
        BY <1>2, <2>1 DEF RelayMetering!Shared
  <2> HIDE DEF c
  <2>3. <<o, link.gen>> \in RelayMetering!LandingUsers
        BY <1>1, <1>6, <2>2
  <2> QED BY <1>4, <2>3
<1> HIDE DEF c
<1>7. c.accepts \subseteq {RelayMetering!Shared} \cup (({0} \cup Owners) \X (1..link.gen))
      BY <1>1, <1>2
<1>8. RelayMetering!AcceptedGenerations \subseteq c.accepts /\ RelayMetering!LandingUsers \subseteq c.accepts
      BY <1>1
<1> QED BY <1>3, <1>5, <1>6, <1>7, <1>8 DEF LandingOk, c

LEMMA NewRelayIsOk ==
  ASSUME RelaySane, RelayInv, RelayMetering!RelayConfig # RelayMetering!Nothing PROVE RelayOk(RelayMetering!RelayConfig) /\ RelayMetering!RelayConfig.uses \subseteq Newest
<1> DEFINE riders == IF mode = "user" THEN {o \in Owners : byTag[o] # 0} ELSE {}
<1>1. CASE mode = "off"
  <2>1. RelayMetering!RelayConfig.uses = {RelayMetering!Shared}
        BY <1>1 DEF RelayMetering!RelayConfig, RelayMetering!SharedConfig
  <2>2. link.gen # 0 => <<0, link.gen>> # RelayMetering!Shared
        BY DEF RelayMetering!Shared
  <2> QED BY <2>1, <2>2 DEF RelayOk, Newest
<1>2. CASE mode # "off"
  <2>1. /\ RelayMetering!LinkReady /\ (mode = "user" => RelayMetering!UsersReady)
        /\ RelayMetering!RelayConfig.uses = {RelayMetering!Current(0)} \cup {RelayMetering!Current(o) : o \in riders}
        BY <1>2 DEF RelayMetering!RelayConfig
  <2>2. link.gen \in 1..link.gen /\ gens[link.gen].acc
        BY <2>1 DEF RelayMetering!LinkReady, RelayInv, RelayTyped, LinkRow, LinkOk
  <2>3. RelayMetering!Current(0) = <<0, link.gen>>
        BY DEF RelayMetering!Current
  <2>4. \A o \in riders : RelayMetering!Current(o) \in DOMAIN rows /\ RelayMetering!Current(o)[2] = link.gen
        BY <2>1 DEF RelayMetering!UsersReady, RelayMetering!Current
  <2> HIDE DEF riders
  <2>5. \A id \in RelayMetering!RelayConfig.uses : id = <<0, link.gen>> \/ (id \in DOMAIN rows /\ id[2] = link.gen)
        BY <2>1, <2>3, <2>4
  <2>6. <<0, link.gen>> \in {0} \X (1..link.gen) /\ <<0, link.gen>>[2] = link.gen
        BY <2>2
  <2>7. RelayMetering!RelayConfig.uses \subseteq Newest
        BY <2>5, <2>6 DEF Newest
  <2>8. RelayOk(RelayMetering!RelayConfig)
        BY <2>2, <2>5, <2>6 DEF RelayOk
  <2> QED BY <2>7, <2>8
<1> QED BY <1>1, <1>2

\* What is on its way changes, and nothing else the invariant speaks of
LEMMA FlightChanges ==
  ASSUME RelayInv, NEW m \in RelayMetering!Machines, NEW c, NEW left,
         flight' = [flight EXCEPT ![m] = c], UNCHANGED <<mode, spec, subjects, link, gens, rows, running, byTag>>,
         pass' = (IF left = {} /\ RelayMetering!Range(flight') = {RelayMetering!Nothing} THEN {"idle"} ELSE left),
         left \in SUBSET RelayMetering!Machines \/ (c = RelayMetering!Nothing /\ left = pass),
         c # RelayMetering!Nothing => IF m = "landing" THEN LandingOk(c) ELSE RelayOk(c) /\ c.uses \subseteq Newest
  PROVE  RelayInv'
<1>1. /\ DOMAIN flight' = RelayMetering!Machines /\ flight' = [k \in RelayMetering!Machines |-> flight'[k]]
      /\ \A k \in RelayMetering!Machines : flight'[k] = IF k = m THEN c ELSE flight[k]
  <2>1. flight = [k \in RelayMetering!Machines |-> flight[k]]
        BY DEF RelayInv, RelayTyped
  <2> QED BY <2>1
<1>2. RelayTyped' /\ GensOk' /\ RowsOk' /\ LinkOk'
      BY <1>1 DEF RelayInv, RelayTyped, GensOk, RowsOk, LinkOk, Dialed, Newest
<1>3. pass' \in {{"idle"}, {"prepared"}} => flight'["landing"] = RelayMetering!Nothing /\ flight'["relay"] = RelayMetering!Nothing
  <2>1. CASE left = {} /\ RelayMetering!Range(flight') = {RelayMetering!Nothing}
    <3>1. \A k \in RelayMetering!Machines : flight'[k] \in {RelayMetering!Nothing}
          BY <1>1, <2>1 DEF RelayMetering!Range
    <3> QED BY <3>1 DEF RelayMetering!Machines
  <2>2. CASE ~(left = {} /\ RelayMetering!Range(flight') = {RelayMetering!Nothing})
    <3>1. pass' = left
          BY <2>2
    <3>2. CASE left \in SUBSET RelayMetering!Machines
          BY <3>1, <3>2 DEF RelayMetering!Machines
    <3>3. CASE c = RelayMetering!Nothing /\ left = pass
          BY <1>1, <3>1, <3>3 DEF RelayInv, ConfigsOk, RelayMetering!Machines
    <3> QED BY <3>2, <3>3
  <2> QED BY <2>1, <2>2
<1>4. m = "landing" \/ m = "relay"
      BY DEF RelayMetering!Machines
<1>5. /\ flight'["landing"] # RelayMetering!Nothing => LandingOk(flight'["landing"])
      /\ flight'["relay"] # RelayMetering!Nothing => RelayOk(flight'["relay"]) /\ flight'["relay"].uses \subseteq Newest
      BY <1>1, <1>4 DEF RelayInv, ConfigsOk, RelayMetering!Machines
<1>6. \A d : (LandingOk(d) => LandingOk(d)') /\ (RelayOk(d) => RelayOk(d)') /\ Newest' = Newest
      BY DEF LandingOk, RelayOk, Dialed, Newest
<1>7. ConfigsOk'
      BY <1>3, <1>5, <1>6 DEF RelayInv, ConfigsOk
<1> QED BY <1>2, <1>7 DEF RelayInv

LEMMA CompileKeeps ==
  ASSUME RelaySane, RelayInv, NEW m \in RelayMetering!Machines, RelayMetering!Compile(m) PROVE RelayInv'
<1> DEFINE c == IF m = "landing" THEN RelayMetering!LandingConfig ELSE RelayMetering!RelayConfig
<1>1. pass \ {m} \in SUBSET RelayMetering!Machines
  <2>1. m \in pass /\ m # "idle" /\ m # "prepared"
        BY DEF RelayMetering!Compile, RelayMetering!Machines
  <2> QED BY <2>1 DEF RelayInv, RelayTyped
<1>2. /\ flight' = [flight EXCEPT ![m] = c]
      /\ pass' = (IF pass \ {m} = {} /\ RelayMetering!Range(flight') = {RelayMetering!Nothing} THEN {"idle"} ELSE pass \ {m})
      /\ UNCHANGED <<mode, spec, subjects, link, gens, rows, running, byTag>>
      BY DEF RelayMetering!Compile, RelayMetering!Send
<1>3. c # RelayMetering!Nothing => IF m = "landing" THEN LandingOk(c) ELSE RelayOk(c) /\ c.uses \subseteq Newest
      BY NewLandingIsOk, NewRelayIsOk
<1> HIDE DEF c
<1> QED BY <1>1, <1>2, <1>3, FlightChanges

LEMMA ApplyFailsKeeps ==
  ASSUME RelayInv, NEW m \in RelayMetering!Machines, RelayMetering!ApplyFails(m) PROVE RelayInv'
<1>1. /\ flight' = [flight EXCEPT ![m] = RelayMetering!Nothing]
      /\ pass' = (IF pass = {} /\ RelayMetering!Range(flight') = {RelayMetering!Nothing} THEN {"idle"} ELSE pass)
      /\ UNCHANGED <<mode, spec, subjects, link, gens, rows, running, byTag>>
      BY DEF RelayMetering!ApplyFails, RelayMetering!Send
<1> QED BY <1>1, FlightChanges

\* The machine runs what was on its way
LEMMA ApplyKeeps ==
  ASSUME RelayInv, NEW m \in RelayMetering!Machines, RelayMetering!Apply(m) PROVE RelayInv'
<1>1. /\ flight[m] # RelayMetering!Nothing /\ running' = [running EXCEPT ![m] = flight[m]]
      /\ UNCHANGED <<mode, spec, subjects, link, gens, rows, flight, pass, byTag>>
      BY DEF RelayMetering!Apply
<1>2. /\ running' = [k \in RelayMetering!Machines |-> running'[k]]
      /\ \A k \in RelayMetering!Machines : running'[k] = IF k = m THEN flight[m] ELSE running[k]
  <2>1. running = [k \in RelayMetering!Machines |-> running[k]]
        BY DEF RelayInv, RelayTyped
  <2> QED BY <1>1, <2>1
<1>3. RelayTyped'
      BY <1>1, <1>2 DEF RelayInv, RelayTyped
<1>4. CASE m = "landing"
  <2>1. running'["landing"] = flight["landing"] /\ running'["relay"] = running["relay"]
        BY <1>2, <1>4 DEF RelayMetering!Machines
  <2>2. \A id : Dialed(id)' = Dialed(id)
        BY <2>1 DEF Dialed
  <2>3. GensOk' /\ RowsOk' /\ LinkOk'
        BY <1>1, <2>1 DEF RelayInv, GensOk, RowsOk, LinkOk, Dialed, Newest
  <2>4. ConfigsOk'
        BY <1>1, <1>4, <2>1, <2>2 DEF RelayInv, ConfigsOk, LandingOk, RelayOk, Newest
  <2> QED BY <1>3, <2>3, <2>4 DEF RelayInv
<1>5. CASE m = "relay"
  <2>1. running'["relay"] = flight["relay"] /\ running'["landing"] = running["landing"]
        BY <1>2, <1>5 DEF RelayMetering!Machines
  <2>2. flight["relay"].uses \subseteq Newest /\ RelayOk(flight["relay"])
        BY <1>1, <1>5 DEF RelayInv, ConfigsOk
  <2>3. \A id : Dialed(id)' => id \in Newest
        BY <2>1, <2>2 DEF Dialed
  <2>4. LinkOk'
        BY <1>1, <2>1, <2>2 DEF RelayInv, LinkOk, Newest
  <2>5. RowsOk'
    <3>1. \A id \in DOMAIN rows : Dialed(id)' => id[2] = link.gen
      <4>1. \A id \in DOMAIN rows : id # RelayMetering!Shared
            BY DEF RelayInv, RelayTyped, RelayMetering!Shared
      <4> QED BY <2>3, <4>1 DEF Newest
    <3> QED BY <1>1, <3>1 DEF RelayInv, RowsOk
  <2>6. GensOk'
    <3>1. \A g \in 1..link.gen : Dialed(<<0, g>>)' => g = link.gen
      <4>1. \A g \in 1..link.gen : <<0, g>> # RelayMetering!Shared /\ <<0, g>>[2] = g
            BY DEF RelayMetering!Shared
      <4> QED BY <2>3, <4>1 DEF Newest
    <3> QED BY <1>1, <3>1 DEF RelayInv, GensOk
  <2>7. ConfigsOk'
    <3>1. \A id \in DOMAIN rows : Dialed(id)' => id[2] = link.gen
      <4>1. \A id \in DOMAIN rows : id # RelayMetering!Shared
            BY DEF RelayInv, RelayTyped, RelayMetering!Shared
      <4> QED BY <2>3, <4>1 DEF Newest
    <3>2. \A c : LandingOk(c) => LandingOk(c)'
          BY <1>1, <3>1 DEF LandingOk
    <3>3. \A c : (RelayOk(c) => RelayOk(c)') /\ Newest' = Newest
          BY <1>1 DEF RelayOk, Newest
    <3> QED BY <1>1, <2>1, <2>2, <3>2, <3>3 DEF RelayInv, ConfigsOk
  <2> QED BY <1>3, <2>4, <2>5, <2>6, <2>7 DEF RelayInv
<1> QED BY <1>4, <1>5 DEF RelayMetering!Machines

\* A change of a replaced credential
LEMMA ChangeKeeps ==
  ASSUME RelaySane, RelayInv, RelayMetering!Retire \/ RelayMetering!Restore PROVE RelayInv'
<1>1. PICK id \in RelayMetering!Replaced, retire \in BOOLEAN : RelayMetering!ChangeCredential(id, retire) /\ (retire => RelayMetering!CanRetire(id))
      BY DEF RelayMetering!Retire, RelayMetering!Restore
<1>2. UNCHANGED <<mode, spec, subjects, link, running, flight, pass, byTag>>
      BY <1>1 DEF RelayMetering!ChangeCredential
<1>3. \/ id = RelayMetering!Shared
      \/ \E g \in 1..link.gen : id = <<0, g>> /\ g < link.gen
      \/ id \in DOMAIN rows /\ id[2] < link.gen /\ id[1] # 0
  <2>1. DOMAIN gens = 1..link.gen /\ \A i \in DOMAIN rows : i[1] \in Owners
        BY DEF RelayInv, RelayTyped
  <2> QED BY <1>1, <2>1 DEF RelayMetering!Replaced, RelaySane
<1>4. retire => id = RelayMetering!Shared \/ running["relay"].uses \subseteq Newest
  <2>1. CASE id[1] = 0
        BY <1>1, <2>1 DEF RelayMetering!CanRetire, RelayInv, LinkOk
  <2>2. CASE id[1] # 0 /\ retire
    <3>1. RelayMetering!CanRetireUser(id)
          BY <1>1, <2>2 DEF RelayMetering!CanRetire
    <3>2. RelayMetering!Current(id[1]) \in DOMAIN rows /\ RelayMetering!Current(id[1])[2] = link.gen /\ rows[RelayMetering!Current(id[1])].state = "active"
          BY <3>1 DEF RelayMetering!CanRetireUser, RelayMetering!Current
    <3> QED BY <3>2 DEF RelayInv, LinkOk
  <2> QED BY <2>1, <2>2
<1>5. CASE id = RelayMetering!Shared
  <2>1. UNCHANGED <<gens, rows>>
        BY <1>1, <1>5 DEF RelayMetering!ChangeCredential, RelayMetering!Shared
  <2> QED BY <1>2, <2>1, RowsStay DEF RelayInv, RelayTyped
<1>6. ASSUME NEW g \in 1..link.gen, id = <<0, g>>, g < link.gen PROVE RelayInv'
  <2> DEFINE r == [acc |-> FALSE, retired |-> retire, gone |-> FALSE]
  <2>1. UNCHANGED rows /\ gens' = [gens EXCEPT ![g] = r]
    <3>1. id[1] = 0 /\ id[2] = g /\ id # RelayMetering!Shared
          BY <1>6 DEF RelayMetering!Shared
    <3> QED BY <1>1, <3>1 DEF RelayMetering!ChangeCredential
  <2>2. gens' \in [1..link.gen -> GenRow] /\ \A h \in 1..link.gen : gens'[h] = IF h = g THEN r ELSE gens[h]
        BY <2>1 DEF RelayInv, RelayTyped, GenRow
  <2>3. link.gen \in 1..link.gen /\ gens'[link.gen] = gens[link.gen]
        BY <1>6, <2>2 DEF RelayInv, RelayTyped, LinkRow
  <2>4. retire => ~Dialed(<<0, g>>)
    <3>1. <<0, g>> # RelayMetering!Shared /\ <<0, g>>[2] = g /\ <<0, g>> \notin DOMAIN rows
          BY DEF RelayMetering!Shared, RelayInv, RelayTyped, RelaySane
    <3> QED BY <1>4, <1>6, <3>1 DEF Dialed, Newest
  <2>5. RelayTyped'
        BY <1>2, <2>1, <2>2 DEF RelayInv, RelayTyped
  <2>6. GensOk'
    <3>1. /\ link' = link /\ g # link.gen /\ ~r.acc /\ r.retired = retire
          /\ \A i : Dialed(i)' = Dialed(i)
          BY <1>2, <1>6 DEF Dialed, RelayInv, RelayTyped, LinkRow
    <3>2. GensOk
          BY DEF RelayInv
    <3> HIDE DEF r
    <3> QED BY <2>2, <2>4, <3>1, <3>2 DEF GensOk
  <2>7. RowsOk' /\ LinkOk'
        BY <1>2, <2>1, <2>3 DEF RelayInv, RowsOk, LinkOk, Dialed, Newest
  <2>8. \A c : LandingOk(c) => LandingOk(c)'
        BY <1>2, <2>1, <2>2 DEF LandingOk, Dialed
  <2>9. \A c : (RelayOk(c) => RelayOk(c)') /\ Newest' = Newest
        BY <1>2, <2>1, <2>3 DEF RelayOk, Newest
  <2>10. ConfigsOk'
        BY <1>2, <2>8, <2>9 DEF RelayInv, ConfigsOk
  <2> QED BY <2>5, <2>6, <2>7, <2>10 DEF RelayInv
<1>7. ASSUME id \in DOMAIN rows, id[2] < link.gen, id[1] # 0 PROVE RelayInv'
  <2> DEFINE life == IF retire THEN "retiring" ELSE "restoring"
  <2>1. UNCHANGED gens /\ rows' = [rows EXCEPT ![id].life = life]
        BY <1>1, <1>7 DEF RelayMetering!ChangeCredential
  <2>2. rows[id] \in UserRow /\ life \in {"retiring", "restoring"} /\ rows \in [DOMAIN rows -> UserRow]
        BY <1>7 DEF RelayInv, RelayTyped
  <2> DEFINE r == [rows[id] EXCEPT !.life = life]
  <2>3. /\ r \in UserRow /\ r.life = life /\ r.on = rows[id].on /\ r.acc = rows[id].acc /\ r.state = rows[id].state
        BY <2>2 DEF UserRow
  <2>4. rows' = [rows EXCEPT ![id] = r]
        BY <2>1
  <2> HIDE DEF r
  <2>5. /\ DOMAIN rows' = DOMAIN rows /\ rows' \in [DOMAIN rows -> UserRow]
        /\ \A i \in DOMAIN rows : rows'[i] = IF i = id THEN r ELSE rows[i]
        BY <2>2, <2>3, <2>4
  <2>6. RelayTyped'
        BY <1>2, <2>1, <2>5 DEF RelayInv, RelayTyped
  <2>7. \A i \in DOMAIN rows : rows'[i].on = rows[i].on /\ rows'[i].acc = rows[i].acc /\ rows'[i].state = rows[i].state
        BY <2>3, <2>5
  <2>8. retire => ~Dialed(id)
    <3>1. id # RelayMetering!Shared /\ id[2] # link.gen
          BY <1>7 DEF RelayMetering!Shared, RelayInv, RelayTyped, LinkRow
    <3> QED BY <1>4, <3>1 DEF Dialed, Newest
  <2>9. RowsOk'
    <3>1. id[2] # link.gen
          BY <1>7 DEF RelayInv, RelayTyped, LinkRow
    <3> QED BY <1>2, <2>1, <2>3, <2>5, <2>8, <3>1 DEF RelayInv, RowsOk, Dialed
  <2>10. GensOk' /\ LinkOk'
        BY <1>2, <2>1, <2>5, <2>7 DEF RelayInv, GensOk, LinkOk, Dialed, Newest
  <2>11. \A c : LandingOk(c) => LandingOk(c)'
        BY <1>2, <2>1, <2>5, <2>7 DEF LandingOk, Dialed
  <2>12. \A c : (RelayOk(c) => RelayOk(c)') /\ Newest' = Newest
        BY <1>2, <2>1, <2>5 DEF RelayOk, Newest
  <2>13. ConfigsOk'
        BY <1>2, <2>11, <2>12 DEF RelayInv, ConfigsOk
  <2> QED BY <2>6, <2>9, <2>10, <2>13 DEF RelayInv
<1> QED BY <1>3, <1>5, <1>6, <1>7

\* What preparation makes of a row that is there, and of one that is not
RowKept(id, r, gen) ==
  /\ id \notin DOMAIN rows => id[2] = gen /\ ~r.acc /\ r.state = "prepared" /\ r.life = "none"
  /\ id \in DOMAIN rows => /\ r.acc => rows[id].acc
                           /\ r.on /\ r.acc => rows[id].on
                           /\ r.life = rows[id].life
                           /\ r.state # "prepared" => r.acc /\ rows[id].state # "prepared"
                           /\ r.state = "active" => rows[id].state = "active"

LEMMA PreparedRow ==
  ASSUME RelayInv, NEW gen, NEW id \in RelayMetering!Registered(gen), mode = "user"
  PROVE  RelayMetering!PreparedRows(gen)[id] \in UserRow /\ RowKept(id, RelayMetering!PreparedRows(gen)[id], gen)
<1> DEFINE before == IF id \in DOMAIN rows THEN RelayMetering!Toggled(rows[id], id[1]) ELSE RelayMetering!FreshUser
           r == RelayMetering!PreparedRows(gen)[id]
<1>1. r = RelayMetering!Named(before, id, gen)
      BY DEF RelayMetering!PreparedRows
<1>2. id \notin DOMAIN rows => id[2] = gen /\ id[1] \in Owners
      BY DEF RelayMetering!Registered
<1>3. id \in DOMAIN rows => rows[id] \in UserRow /\ (rows[id].state # "prepared" => rows[id].acc) /\ id[1] \in Owners
      BY DEF RelayInv, RelayTyped, RowsOk
<1>4. before \in UserRow
      BY <1>3 DEF RelayMetering!Toggled, RelayMetering!FreshUser, UserRow, RelayMetering!OwnerOn, States
<1>5. id \notin DOMAIN rows => before = RelayMetering!FreshUser
      OBVIOUS
<1>6. id \in DOMAIN rows => /\ before.acc => rows[id].acc
                            /\ before.on /\ before.acc => rows[id].on
                            /\ before.life = rows[id].life
                            /\ before.state # "prepared" => before.acc /\ rows[id].state # "prepared"
                            /\ before.state = "active" => rows[id].state = "active"
      BY <1>3 DEF RelayMetering!Toggled, UserRow, RelayMetering!OwnerOn
<1>7. subjects[id[1]] \in Nat
      BY <1>2, <1>3 DEF RelayInv, RelayTyped
<1> HIDE DEF before, r
<1>8. /\ r \in UserRow /\ r.acc = before.acc /\ r.on = before.on /\ r.life = before.life
      /\ r.state # "prepared" <=> before.state # "prepared"
      /\ r.state = "active" => before.state = "active"
      BY <1>1, <1>4, <1>7 DEF RelayMetering!Named, UserRow, States
<1>9. RowKept(id, r, gen)
  <2>1. CASE id \in DOMAIN rows
        BY <1>6, <1>8, <2>1 DEF RowKept
  <2>2. CASE id \notin DOMAIN rows
        BY <1>2, <1>5, <1>8, <2>2 DEF RelayMetering!FreshUser, RowKept
  <2> QED BY <2>1, <2>2
<1> QED BY <1>8, <1>9 DEF r

LEMMA PrepareKeeps ==
  ASSUME RelaySane, RelayInv, RelayMetering!Prepare PROVE RelayInv'
<1> DEFINE l == RelayMetering!PreparedLink
<1>1. /\ pass = {"idle"} /\ pass' = {"prepared"}
      /\ link' \in {l, [l EXCEPT !.state = "prepared"]}
      /\ rows' = (IF mode = "user" THEN RelayMetering!PreparedRows(l.gen) ELSE rows)
      /\ gens' = (IF l.gen = link.gen THEN gens
                   ELSE [g \in 1..l.gen |-> IF g \in DOMAIN gens THEN gens[g]
                           ELSE [acc |-> FALSE, retired |-> FALSE, gone |-> FALSE]])
      /\ UNCHANGED <<mode, spec, subjects, running, flight, byTag>>
      BY DEF RelayMetering!Prepare
<1>2. flight["landing"] = RelayMetering!Nothing /\ flight["relay"] = RelayMetering!Nothing
      BY <1>1 DEF RelayInv, ConfigsOk
<1>3. l = link \/ (l.gen = link.gen + 1 /\ l.state = "prepared" /\ l \in LinkRow)
      BY DEF RelayMetering!PreparedLink, RelayInv, RelayTyped, LinkRow, States
<1>4. link \in LinkRow /\ link.gen \in Nat /\ DOMAIN gens = 1..link.gen
      BY DEF RelayInv, RelayTyped, LinkRow
<1>5. /\ link' \in LinkRow /\ link'.gen = l.gen /\ (link'.gen = link.gen \/ link'.gen = link.gen + 1)
      /\ link'.state # "prepared" => link' = link
      BY <1>1, <1>3, <1>4 DEF LinkRow, States
<1> HIDE DEF l
<1>6. /\ gens' \in [1..link'.gen -> GenRow]
      /\ \A g \in 1..link.gen : g \in 1..link'.gen /\ gens'[g] = gens[g]
      /\ \A g \in 1..link'.gen : g \in 1..link.gen \/ (g = link'.gen /\ g # link.gen /\ ~gens'[g].acc /\ ~gens'[g].retired)
  <2>1. CASE l.gen = link.gen
        BY <1>1, <1>5, <2>1 DEF RelayInv, RelayTyped
  <2>2. CASE l.gen = link.gen + 1
    <3>1. gens' = [g \in 1..l.gen |-> IF g \in 1..link.gen THEN gens[g]
                           ELSE [acc |-> FALSE, retired |-> FALSE, gone |-> FALSE]]
          BY <1>1, <1>4, <2>2
    <3>2. \A g \in 1..link.gen : gens[g] \in GenRow
          BY DEF RelayInv, RelayTyped
    <3> QED BY <1>4, <1>5, <2>2, <3>1, <3>2 DEF GenRow
  <2> QED BY <1>5, <2>1, <2>2
<1>7. /\ rows' \in [DOMAIN rows' -> UserRow] /\ DOMAIN rows \subseteq DOMAIN rows'
      /\ DOMAIN rows' \subseteq Owners \X (1..link'.gen)
      /\ \A id \in DOMAIN rows' : RowKept(id, rows'[id], link'.gen)
  <2>1. DOMAIN rows \subseteq Owners \X (1..link'.gen)
        BY <1>4, <1>5 DEF RelayInv, RelayTyped
  <2>2. CASE mode = "user"
    <3>1. rows' = RelayMetering!PreparedRows(l.gen) /\ DOMAIN rows' = RelayMetering!Registered(l.gen)
          BY <1>1, <2>2 DEF RelayMetering!PreparedRows
    <3>2. RelayMetering!Registered(l.gen) \subseteq Owners \X (1..link'.gen)
      <4>1. \A o \in Owners : RelayMetering!OwnerOn(o) /\ l.gen # 0 => <<o, l.gen>> \in Owners \X (1..link'.gen)
            BY <1>4, <1>5
      <4>2. l.gen # 0
            BY <2>2, <1>4 DEF l, RelayMetering!PreparedLink
      <4> QED BY <2>1, <4>1, <4>2 DEF RelayMetering!Registered
    <3>3. rows' = [id \in DOMAIN rows' |-> rows'[id]]
          BY <3>1 DEF RelayMetering!PreparedRows
    <3>4. \A id \in DOMAIN rows' : rows'[id] \in UserRow
          BY <2>2, <3>1, PreparedRow
    <3>5. rows' \in [DOMAIN rows' -> UserRow]
          BY <3>3, <3>4
    <3>6. DOMAIN rows \subseteq DOMAIN rows'
          BY <3>1 DEF RelayMetering!Registered
    <3>7. ASSUME NEW id \in DOMAIN rows' PROVE RowKept(id, rows'[id], link'.gen)
      <4>1. id \in RelayMetering!Registered(l.gen) /\ rows'[id] = RelayMetering!PreparedRows(l.gen)[id] /\ link'.gen = l.gen
            BY <1>5, <3>1
      <4> QED BY <2>2, <4>1, PreparedRow
    <3>8. \A id \in DOMAIN rows' : RowKept(id, rows'[id], link'.gen)
          BY <3>7
    <3> HIDE DEF RowKept
    <3> QED BY <3>1, <3>2, <3>5, <3>6, <3>8
  <2>3. CASE mode # "user"
        BY <1>1, <2>1, <2>3 DEF RelayInv, RelayTyped, RowsOk, RowKept
  <2> QED BY <2>2, <2>3
<1>8. \A id : Dialed(id)' = Dialed(id)
      BY <1>1 DEF Dialed
<1>9. RelayTyped'
      BY <1>1, <1>5, <1>6, <1>7 DEF RelayInv, RelayTyped
<1>10. GensOk'
  <2> SUFFICES ASSUME NEW g \in 1..link'.gen
               PROVE  /\ gens'[g].acc => ~gens'[g].retired
                      /\ gens'[g].retired => g # link'.gen /\ ~Dialed(<<0, g>>)
      BY <1>8 DEF GensOk
  <2>1. CASE g \in 1..link.gen
        BY <1>4, <1>5, <1>6, <2>1 DEF RelayInv, GensOk
  <2>2. CASE g \notin 1..link.gen
        BY <1>6, <2>2
  <2> QED BY <2>1, <2>2
<1>11. \A id \in DOMAIN rows : id[2] \in 1..link.gen
      BY DEF RelayInv, RelayTyped
<1>12. RowsOk'
  <2> SUFFICES ASSUME NEW id \in DOMAIN rows'
               PROVE  /\ rows'[id].state # "prepared" => rows'[id].acc
                      /\ id[2] = link'.gen => rows'[id].life = "none" /\ (rows'[id].acc => gens'[link'.gen].acc)
                      /\ rows'[id].on /\ rows'[id].acc /\ Dialed(id) => rows'[id].life \notin {"retiring", "retired"}
      BY <1>8 DEF RowsOk
  <2>1. CASE id \notin DOMAIN rows
        BY <1>7, <2>1 DEF RowKept
  <2>2. CASE id \in DOMAIN rows
    <3>1. id[2] = link'.gen => link'.gen = link.gen /\ gens'[link.gen] = gens[link.gen]
          BY <1>4, <1>5, <1>6, <1>11, <2>2
    <3>2. RowKept(id, rows'[id], link'.gen)
          BY Zenon, <1>7
    <3>3. /\ rows[id].state # "prepared" => rows[id].acc
          /\ id[2] = link.gen => rows[id].life = "none" /\ (rows[id].acc => gens[link.gen].acc)
          /\ rows[id].on /\ rows[id].acc /\ Dialed(id) => rows[id].life \notin {"retiring", "retired"}
          BY <2>2 DEF RelayInv, RowsOk
    <3> HIDE DEF Dialed
    <3> QED BY <2>2, <3>1, <3>2, <3>3 DEF RowKept
  <2> QED BY <2>1, <2>2
<1>13. LinkOk'
  <2>1. link'.state # "prepared" => link'.gen # 0 /\ gens'[link'.gen].acc
        BY <1>4, <1>5, <1>6 DEF RelayInv, LinkOk
  <2>2. Newest \subseteq Newest' \/ link'.gen # link.gen
        BY <1>5, <1>7 DEF Newest
  <2>3. CASE link'.gen = link.gen
    <3>1. (\E id \in DOMAIN rows' : id[2] = link'.gen /\ rows'[id].state = "active")
             => \E id \in DOMAIN rows : id[2] = link.gen /\ rows[id].state = "active"
      <4>1. SUFFICES ASSUME NEW id \in DOMAIN rows', id[2] = link'.gen, rows'[id].state = "active"
                     PROVE  id \in DOMAIN rows /\ id[2] = link.gen /\ rows[id].state = "active"
            OBVIOUS
      <4>2. RowKept(id, rows'[id], link'.gen)
            BY Zenon, <1>7
      <4> QED BY <2>3, <4>1, <4>2 DEF RowKept
    <3>2. link'.state = "active" => link.state = "active"
          BY <1>5
    <3> QED BY <1>1, <2>1, <2>2, <2>3, <3>1, <3>2 DEF RelayInv, LinkOk
  <2>4. CASE link'.gen # link.gen
    <3>1. link'.state = "prepared"
          BY <1>5, <2>4
    <3>2. \A id \in DOMAIN rows' : id[2] = link'.gen => rows'[id].state = "prepared"
          BY <1>4, <1>5, <1>7, <1>11, <2>4 DEF RowKept
    <3> QED BY <2>1, <3>1, <3>2 DEF LinkOk
  <2> QED BY <2>3, <2>4
<1>14. LandingOk(running["landing"])'
  <2> DEFINE c == running["landing"]
  <2>1. LandingOk(c)
        BY DEF RelayInv, ConfigsOk
  <2>2. c' = c
        BY <1>1
  <2> HIDE DEF c
  <2>3. c.accepts \subseteq {RelayMetering!Shared} \cup (({0} \cup Owners) \X (1..link'.gen))
        BY <1>4, <1>5, <2>1 DEF LandingOk
  <2>4. \A o \in Owners : <<o, link'.gen>> \in c.accepts => <<0, link'.gen>> \in c.accepts
    <3>1. CASE link'.gen = link.gen
          BY <2>1, <3>1 DEF LandingOk
    <3>2. CASE link'.gen # link.gen
      <4>1. \A o \in Owners : <<o, link'.gen>> # RelayMetering!Shared
            BY DEF RelayMetering!Shared, RelaySane
      <4>2. link'.gen \notin 1..link.gen
            BY <1>4, <1>5, <3>2
      <4> QED BY <2>1, <4>1, <4>2 DEF LandingOk
    <3> QED BY <3>1, <3>2
  <2>5. \A g \in 1..link'.gen : gens'[g].acc => <<0, g>> \in c.accepts
        BY <1>6, <2>1 DEF LandingOk
  <2>6. ASSUME NEW id \in DOMAIN rows', rows'[id].on, rows'[id].acc, id[2] = link'.gen \/ Dialed(id)
        PROVE  id \in c.accepts
    <3>1. id \in DOMAIN rows /\ rows[id].on /\ rows[id].acc
      <4>1. RowKept(id, rows'[id], link'.gen)
            BY Zenon, <1>7
      <4> QED BY <2>6, <4>1 DEF RowKept
    <3>2. id[2] = link'.gen => id[2] = link.gen
          BY <1>4, <1>5, <1>11, <3>1
    <3> QED BY <2>1, <2>6, <3>1, <3>2 DEF LandingOk
  <2> QED BY <1>8, <2>2, <2>3, <2>4, <2>5, <2>6 DEF LandingOk, c
<1>15. RelayOk(running["relay"])'
  <2>1. RelayOk(running["relay"])
        BY DEF RelayInv, ConfigsOk
  <2>2. 1..link.gen \subseteq 1..link'.gen
        BY <1>4, <1>5
  <2>3. link'.gen # link.gen => <<0, link'.gen>> \notin running["relay"].uses
    <3>1. <<0, link'.gen>> \notin DOMAIN rows
          BY DEF RelayInv, RelayTyped, RelaySane
    <3>2. link'.gen # link.gen => <<0, link'.gen>> # RelayMetering!Shared /\ link'.gen \notin 1..link.gen
          BY <1>4, <1>5 DEF RelayMetering!Shared
    <3> QED BY <2>1, <3>1, <3>2 DEF RelayOk
  <2>4. link.gen # 0 => gens'[link.gen] = gens[link.gen]
        BY <1>4, <1>6
  <2> QED BY <1>1, <1>7, <2>1, <2>2, <2>3, <2>4 DEF RelayOk
<1>16. ConfigsOk'
      BY <1>1, <1>2, <1>14, <1>15 DEF ConfigsOk
<1> QED BY <1>9, <1>10, <1>12, <1>13, <1>16 DEF RelayInv

\* What recording makes of a row: an acknowledgement is the landing's, an activation the relay's
RowRecorded(m, c, id, r) ==
  /\ r \in UserRow /\ r.on = rows[id].on
  /\ r.acc => rows[id].acc \/ (m = "landing" /\ id \in c.accepts)
  /\ r.state # "prepared" => r.acc
  /\ r.state = "active" => rows[id].state = "active" \/ m = "relay"
  /\ id[2] = link.gen => r.life = rows[id].life
  /\ r.life \in {"retiring", "retired"} => rows[id].life \in {"retiring", "retired"}
  /\ m = "relay" \/ id[2] # link.gen => r.acc = rows[id].acc

LEMMA AckedRow ==
  ASSUME RelayInv, NEW m \in RelayMetering!Machines, NEW c, NEW id \in DOMAIN rows
  PROVE  RowRecorded(m, c, id, RelayMetering!AckUser(m, c, id)) /\ RelayMetering!AckUser(m, c, id).life = rows[id].life
<1> DEFINE r == rows[id]
<1>1. r \in UserRow /\ (r.state # "prepared" => r.acc)
      BY DEF RelayInv, RelayTyped, RowsOk
<1> HIDE DEF r
<1>2. CASE ~RelayMetering!Counted(id)
  <2>1. RelayMetering!AckUser(m, c, id) = r
        BY <1>2 DEF RelayMetering!AckUser, r
  <2> QED BY <1>1, <2>1 DEF RowRecorded, r
<1>3. CASE RelayMetering!Counted(id) /\ m = "landing"
  <2>1. RelayMetering!AckUser(m, c, id) = RelayMetering!AckAtLanding(c, id)
        BY <1>3 DEF RelayMetering!AckUser
  <2>2. CASE id \in c.accepts /\ c.spec = spec
    <3>1. RelayMetering!AckAtLanding(c, id) = IF r.state = "prepared" THEN [r EXCEPT !.state = "accepted", !.acc = TRUE] ELSE r
          BY <2>2 DEF RelayMetering!AckAtLanding, r
    <3>2. CASE r.state = "prepared"
      <4> DEFINE n == [r EXCEPT !.state = "accepted", !.acc = TRUE]
      <4>1. n \in UserRow /\ n.on = r.on /\ n.acc /\ n.state = "accepted" /\ n.life = r.life
            BY <1>1 DEF UserRow, States
      <4>2. RelayMetering!AckUser(m, c, id) = n
            BY <2>1, <3>1, <3>2
      <4> HIDE DEF n
      <4>3. id[2] = link.gen
            BY <1>3 DEF RelayMetering!Counted
      <4> QED BY <1>3, <2>2, <4>1, <4>2, <4>3 DEF RowRecorded, r
    <3>3. CASE r.state # "prepared"
          BY <1>1, <2>1, <3>1, <3>3 DEF RowRecorded, r
    <3> QED BY <3>2, <3>3
  <2>3. CASE ~(id \in c.accepts /\ c.spec = spec)
    <3>1. RelayMetering!AckAtLanding(c, id) = [r EXCEPT !.state = "prepared", !.acc = FALSE]
          BY <2>3 DEF RelayMetering!AckAtLanding, r
    <3>2. id[2] = link.gen
          BY <1>3 DEF RelayMetering!Counted
    <3> QED BY <1>1, <1>3, <2>1, <3>1, <3>2 DEF RowRecorded, UserRow, States, r
  <2> QED BY <2>2, <2>3
<1>4. CASE RelayMetering!Counted(id) /\ m = "relay"
  <2>1. RelayMetering!AckUser(m, c, id) = RelayMetering!AckAtRelay(c, id)
        BY <1>4 DEF RelayMetering!AckUser
  <2>2. RelayMetering!AckAtRelay(c, id) \in {r, [r EXCEPT !.state = "active"], [r EXCEPT !.state = "accepted"]}
        BY DEF RelayMetering!AckAtRelay, r
  <2>3. RelayMetering!AckAtRelay(c, id) # r => r.state # "prepared"
        BY DEF RelayMetering!AckAtRelay, r
  <2> QED BY <1>1, <1>4, <2>1, <2>2, <2>3 DEF RowRecorded, UserRow, States, r
<1> QED BY <1>2, <1>3, <1>4 DEF RelayMetering!Machines

LEMMA RecordedRow ==
  ASSUME RelayInv, NEW m \in RelayMetering!Machines, NEW c, NEW id \in DOMAIN rows, NEW acked,
         acked = [i \in DOMAIN rows |-> RelayMetering!AckUser(m, c, i)]
  PROVE  RowRecorded(m, c, id, RelayMetering!AckReplaced(m, c, id, acked))
<1> DEFINE a == acked[id]
<1>1. a = RelayMetering!AckUser(m, c, id)
      OBVIOUS
<1>2. RowRecorded(m, c, id, a) /\ a.life = rows[id].life
      BY <1>1, AckedRow
<1>3. id[2] \in Nat /\ link.gen \in Nat
      BY DEF RelayInv, RelayTyped, LinkRow
<1> HIDE DEF a
<1>4. CASE id[2] >= link.gen
  <2>1. RelayMetering!AckReplaced(m, c, id, acked) = a
        BY <1>4 DEF RelayMetering!AckReplaced, a
  <2> QED BY <1>2, <2>1
<1>5. CASE ~(id[2] >= link.gen) /\ m = "relay"
  <2>1. RelayMetering!AckReplaced(m, c, id, acked) = [a EXCEPT !.clear = RelayMetering!Rid(c, id, acked)]
        BY <1>5 DEF RelayMetering!AckReplaced, a
  <2>2. RelayMetering!Rid(c, id, acked) \in BOOLEAN
        BY DEF RelayMetering!Rid
  <2> QED BY <1>2, <2>1, <2>2 DEF RowRecorded, UserRow
<1>6. CASE ~(id[2] >= link.gen) /\ m # "relay"
  <2> DEFINE life == RelayMetering!LifeAt(c, id, a.life)
  <2>1. RelayMetering!AckReplaced(m, c, id, acked) = [a EXCEPT !.life = life]
        BY <1>6 DEF RelayMetering!AckReplaced, a
  <2>2. /\ life \in {"none", "active", "restoring", "retiring", "retired"}
        /\ life \in {"retiring", "retired"} => a.life \in {"retiring", "retired"}
        BY <1>2 DEF RelayMetering!LifeAt, RowRecorded, UserRow
  <2> HIDE DEF life
  <2> QED BY <1>2, <1>3, <1>6, <2>1, <2>2 DEF RowRecorded, UserRow
<1> QED BY <1>4, <1>5, <1>6

\* What recording makes of the generations and of the link
LEMMA RecordKeeps ==
  ASSUME RelaySane, RelayInv, NEW m \in RelayMetering!Machines, RelayMetering!Record(m) PROVE RelayInv'
<1> DEFINE c == flight[m]
           acked == [id \in DOMAIN rows |-> RelayMetering!AckUser(m, c, id)]
           state == RelayMetering!AckLink(m, c, acked)
<1>1. /\ c # RelayMetering!Nothing /\ c = running[m]
      /\ flight' = [flight EXCEPT ![m] = RelayMetering!Nothing]
      /\ pass' = (IF pass = {} /\ RelayMetering!Range(flight') = {RelayMetering!Nothing} THEN {"idle"} ELSE pass)
      /\ UNCHANGED <<mode, spec, subjects, running, byTag>>
      BY DEF RelayMetering!Record, RelayMetering!Send
<1>2. CASE mode = "off"
  <2>1. UNCHANGED <<link, gens, rows>>
        BY <1>2 DEF RelayMetering!Record
  <2> QED BY <1>1, <2>1, FlightChanges
<1>3. CASE mode # "off"
  <2>1. /\ link' = [link EXCEPT !.state = state]
        /\ rows' = [id \in DOMAIN rows |-> RelayMetering!AckReplaced(m, c, id, acked)]
        /\ gens' = (IF m = "landing" THEN [g \in DOMAIN gens |-> RelayMetering!AckGeneration(c, g)] ELSE gens)
        BY <1>3 DEF RelayMetering!Record
  <2>2. \A id \in DOMAIN rows :
          /\ RowRecorded(m, c, id, acked[id])
          /\ RowRecorded(m, c, id, rows'[id])
          /\ id[2] = link.gen => rows'[id] = acked[id]
    <3> SUFFICES ASSUME NEW id \in DOMAIN rows
                 PROVE  /\ RowRecorded(m, c, id, acked[id])
                        /\ RowRecorded(m, c, id, rows'[id])
                        /\ id[2] = link.gen => rows'[id] = acked[id]
        OBVIOUS
    <3>1. rows'[id] = RelayMetering!AckReplaced(m, c, id, acked)
          BY <2>1
    <3>2. RowRecorded(m, c, id, acked[id])
          BY AckedRow
    <3>3. RowRecorded(m, c, id, rows'[id])
      <4> HIDE DEF c
      <4> QED BY <3>1, RecordedRow
    <3>4. id[2] = link.gen => rows'[id] = acked[id]
      <4>1. link.gen \in Nat
            BY DEF RelayInv, RelayTyped, LinkRow
      <4>2. id[2] = link.gen => id[2] >= link.gen
            BY <4>1
      <4> HIDE DEF acked, c
      <4> QED BY <3>1, <4>2 DEF RelayMetering!AckReplaced
    <3> QED BY <3>2, <3>3, <3>4
  <2>3. DOMAIN rows' = DOMAIN rows /\ rows' = [id \in DOMAIN rows |-> rows'[id]] /\ DOMAIN acked = DOMAIN rows
        BY <2>1
  <2>4. rows' \in [DOMAIN rows' -> UserRow]
        BY <2>2, <2>3 DEF RowRecorded
  <2> HIDE DEF acked
  <2>5. /\ gens' \in [1..link.gen -> GenRow]
        /\ \A g \in 1..link.gen : /\ gens'[g].retired = gens[g].retired
                                  /\ gens[g].acc => gens'[g].acc
                                  /\ gens'[g].acc => ~gens[g].retired
                                  /\ gens'[g].acc => gens[g].acc \/ (m = "landing" /\ <<0, g>> \in c.accepts)
                                  /\ m = "landing" /\ <<0, g>> \in c.accepts /\ ~gens[g].retired => gens'[g].acc
    <3>1. gens \in [1..link.gen -> GenRow] /\ DOMAIN gens = 1..link.gen
          /\ \A g \in 1..link.gen : gens[g].acc => ~gens[g].retired
          BY DEF RelayInv, RelayTyped, GensOk
    <3> QED BY <2>1, <3>1 DEF RelayMetering!AckGeneration, GenRow
  <2>6. \A k \in RelayMetering!Machines : flight'[k] = IF k = m THEN RelayMetering!Nothing ELSE flight[k]
    <3>1. flight = [k \in RelayMetering!Machines |-> flight[k]]
          BY DEF RelayInv, RelayTyped
    <3> QED BY <1>1, <3>1
  <2>7. flight' = [k \in RelayMetering!Machines |-> flight'[k]] /\ DOMAIN flight' = RelayMetering!Machines
    <3>1. flight = [k \in RelayMetering!Machines |-> flight[k]]
          BY DEF RelayInv, RelayTyped
    <3> QED BY <1>1, <3>1
  <2>8. m = "landing" \/ m = "relay"
        BY DEF RelayMetering!Machines
  <2>9. /\ m = "landing" => LandingOk(c)
        /\ m = "relay" => c.uses \subseteq Newest /\ running["relay"].uses \subseteq Newest
        BY <1>1, <2>8 DEF RelayInv, ConfigsOk
  <2> HIDE DEF c
  <2>10. link.gen \in Nat /\ link \in LinkRow /\ (link.gen # 0 => link.gen \in 1..link.gen)
        BY DEF RelayInv, RelayTyped, LinkRow
  <2>11. \A id \in DOMAIN rows : id \in Owners \X (1..link.gen)
        BY DEF RelayInv, RelayTyped
  <2>12. ASSUME NEW id \in DOMAIN rows, id[2] = link.gen, acked[id].acc \/ rows'[id].acc PROVE gens'[link.gen].acc
    <3>1. rows[id].acc => gens[link.gen].acc
          BY <2>12 DEF RelayInv, RowsOk
    <3>2. rows[id].acc \/ (m = "landing" /\ id \in c.accepts)
          BY <2>2, <2>12 DEF RowRecorded
    <3>3. link.gen \in 1..link.gen /\ id[1] \in Owners /\ id = <<id[1], link.gen>>
          BY <2>11, <2>12
    <3>4. m = "landing" /\ id \in c.accepts => <<0, link.gen>> \in c.accepts
          BY <2>9, <3>3 DEF LandingOk
    <3>5. ~gens[link.gen].retired
          BY <3>3 DEF RelayInv, GensOk
    <3> QED BY <2>5, <3>1, <3>2, <3>3, <3>4, <3>5
  <2>13. state \in States /\ (state # "prepared" => link.gen # 0 /\ gens'[link.gen].acc)
         /\ (state = "active" => \/ m = "relay" \/ link.state = "active"
                                \/ \E id \in DOMAIN rows : id[2] = link.gen /\ rows[id].state = "active")
    <3> DEFINE states == {acked[id].state : id \in {i \in DOMAIN acked : i[2] = link.gen /\ acked[i].on}}
    <3>1. state \in {RelayMetering!OwnState(m, c)} \/ (states # {} /\ state = (IF "prepared" \in states THEN "prepared"
                                                           ELSE IF "accepted" \in states THEN "accepted" ELSE "active"))
          BY DEF RelayMetering!AckLink
    <3>2. CASE state = RelayMetering!OwnState(m, c)
      <4>1. /\ link.state \in States /\ (link.state # "prepared" => link.gen # 0 /\ gens[link.gen].acc)
            BY <2>10 DEF LinkRow, RelayInv, LinkOk
      <4>2. \/ state = link.state
            \/ state = "accepted" /\ link.gen # 0 /\ m = "landing" /\ <<0, link.gen>> \in c.accepts
            \/ state = "active" /\ m = "relay" /\ link.state = "accepted"
            BY <3>2 DEF RelayMetering!OwnState, RelayMetering!Current
      <4>3. link.gen # 0 => ~gens[link.gen].retired
            BY <2>10 DEF RelayInv, GensOk
      <4> HIDE DEF state
      <4> QED BY <2>5, <2>10, <4>1, <4>2, <4>3 DEF States
    <3>3. CASE states # {} /\ state = (IF "prepared" \in states THEN "prepared"
                                             ELSE IF "accepted" \in states THEN "accepted" ELSE "active")
      <4>1. PICK id \in DOMAIN rows : id[2] = link.gen /\ acked[id].state \in states
            BY <2>3, <3>3
      <4>2. \A i \in DOMAIN rows : acked[i].state \in States /\ (acked[i].state # "prepared" => acked[i].acc)
            BY <2>2 DEF RowRecorded, UserRow
      <4>3. state # "prepared" => acked[id].state # "prepared"
            BY <3>3, <4>1
      <4>4. state # "prepared" => link.gen # 0 /\ gens'[link.gen].acc
            BY <2>10, <2>11, <2>12, <4>1, <4>2, <4>3
      <4>5. state = "active" => acked[id].state = "active"
            BY <3>3, <4>1, <4>2 DEF States
      <4>6. acked[id].state = "active" => m = "relay" \/ rows[id].state = "active"
            BY <2>2 DEF RowRecorded
      <4>7. state \in States
            BY <3>3 DEF States
      <4> HIDE DEF state, states
      <4> QED BY <4>1, <4>4, <4>5, <4>6, <4>7
    <3> QED BY <3>1, <3>2, <3>3
  <2> HIDE DEF state
  <2>14. link' \in LinkRow /\ link'.gen = link.gen /\ link'.state = state
        BY <2>1, <2>10, <2>13 DEF LinkRow
  <2>15. \A id : Dialed(id)' = Dialed(id)
        BY <1>1 DEF Dialed
  <2>16. Newest' = Newest
        BY <2>3, <2>14 DEF Newest
  <2>17. RelayTyped'
    <3>1. pass' \in {{"idle"}, {"prepared"}} \cup SUBSET RelayMetering!Machines
          BY <1>1 DEF RelayInv, RelayTyped
    <3>2. running' = [k \in RelayMetering!Machines |-> running'[k]]
          BY <1>1 DEF RelayInv, RelayTyped
    <3> QED BY <1>1, <2>3, <2>4, <2>5, <2>7, <2>11, <2>14, <3>1, <3>2 DEF RelayInv, RelayTyped
  <2>18. GensOk'
        BY <2>5, <2>14, <2>15 DEF RelayInv, GensOk
  <2>19. RowsOk'
    <3> SUFFICES ASSUME NEW id \in DOMAIN rows
                 PROVE  /\ rows'[id].state # "prepared" => rows'[id].acc
                        /\ id[2] = link.gen => rows'[id].life = "none" /\ (rows'[id].acc => gens'[link.gen].acc)
                        /\ rows'[id].on /\ rows'[id].acc /\ Dialed(id) => rows'[id].life \notin {"retiring", "retired"}
        BY <2>3, <2>14, <2>15 DEF RowsOk
    <3>1. RowRecorded(m, c, id, rows'[id])
          BY <2>2
    <3>2. /\ id[2] = link.gen => rows[id].life = "none"
          /\ rows[id].on /\ rows[id].acc /\ Dialed(id) => rows[id].life \notin {"retiring", "retired"}
          BY DEF RelayInv, RowsOk
    <3>3. id[2] = link.gen /\ rows'[id].acc => gens'[link.gen].acc
          BY <2>12
    <3> QED BY <3>1, <3>2, <3>3 DEF RowRecorded
  <2>20. LinkOk'
    <3>1. ASSUME NEW id \in DOMAIN rows, id[2] = link.gen, rows'[id].state = "active"
          PROVE  m = "relay" \/ rows[id].state = "active"
          BY <2>2, <3>1 DEF RowRecorded
    <3>2. m = "landing" /\ (link'.state = "active" \/ \E id \in DOMAIN rows' : id[2] = link'.gen /\ rows'[id].state = "active")
            => running["relay"].uses \subseteq Newest
          BY <2>3, <2>13, <2>14, <3>1 DEF RelayInv, LinkOk
    <3>3. running'["relay"].uses = running["relay"].uses
          BY <1>1
    <3> QED BY <2>8, <2>9, <2>13, <2>14, <2>16, <3>2, <3>3 DEF LinkOk
  <2>21. \A d : RelayOk(d) => RelayOk(d)'
        BY <2>3, <2>5, <2>10, <2>14 DEF RelayOk
  <2>22. ASSUME NEW d, LandingOk(d), m = "relay" \/ d = c PROVE LandingOk(d)'
    <3>1. \A g \in 1..link.gen : gens'[g].acc => <<0, g>> \in d.accepts
          BY <2>5, <2>22 DEF LandingOk
    <3>2. ASSUME NEW id \in DOMAIN rows, rows'[id].on, rows'[id].acc, id[2] = link.gen \/ Dialed(id) PROVE id \in d.accepts
      <4>1. RowRecorded(m, c, id, rows'[id])
            BY <2>2
      <4>2. rows[id].on /\ (rows[id].acc \/ (m = "landing" /\ id \in c.accepts))
            BY <3>2, <4>1 DEF RowRecorded
      <4>3. rows[id].acc => id \in d.accepts
            BY <2>22, <3>2, <4>2 DEF LandingOk
      <4> QED BY <2>22, <4>2, <4>3
    <3> QED BY <2>3, <2>14, <2>15, <2>22, <3>1, <3>2 DEF LandingOk
  <2>23. ConfigsOk'
    <3>1. LandingOk(running["landing"]) /\ RelayOk(running["relay"])
          BY DEF RelayInv, ConfigsOk
    <3>2. m = "landing" => running["landing"] = c /\ flight'["landing"] = RelayMetering!Nothing
          BY <1>1, <2>6 DEF RelayMetering!Machines
    <3>3. flight'["landing"] # RelayMetering!Nothing => m = "relay" /\ flight'["landing"] = flight["landing"] /\ LandingOk(flight["landing"])
          BY <2>6, <2>8, <3>2 DEF RelayInv, ConfigsOk, RelayMetering!Machines
    <3>4. flight'["relay"] # RelayMetering!Nothing => /\ flight'["relay"] = flight["relay"] /\ RelayOk(flight["relay"])
                                                    /\ flight["relay"].uses \subseteq Newest
          BY <2>6, <2>8 DEF RelayInv, ConfigsOk, RelayMetering!Machines
    <3>5. LandingOk(running["landing"])'
          BY <1>1, <2>8, <2>22, <3>1, <3>2
    <3>6. RelayOk(running["relay"])'
          BY <1>1, <2>21, <3>1
    <3>7. flight'["landing"] # RelayMetering!Nothing => LandingOk(flight["landing"])'
          BY <2>22, <3>3
    <3>8. flight'["relay"] # RelayMetering!Nothing => RelayOk(flight["relay"])' /\ flight'["relay"].uses \subseteq Newest'
          BY <2>16, <2>21, <3>4
    <3>9. pass' \in {{"idle"}, {"prepared"}} => flight'["landing"] = RelayMetering!Nothing /\ flight'["relay"] = RelayMetering!Nothing
      <4>1. CASE pass = {} /\ RelayMetering!Range(flight') = {RelayMetering!Nothing}
        <5>1. \A k \in RelayMetering!Machines : flight'[k] \in {RelayMetering!Nothing}
              BY <2>7, <4>1 DEF RelayMetering!Range
        <5> QED BY <5>1 DEF RelayMetering!Machines
      <4>2. CASE ~(pass = {} /\ RelayMetering!Range(flight') = {RelayMetering!Nothing})
        <5>1. pass' = pass
              BY <1>1, <4>2
        <5> QED BY <2>6, <5>1 DEF RelayInv, ConfigsOk, RelayMetering!Machines
      <4> QED BY <4>1, <4>2
    <3> QED BY <3>5, <3>6, <3>7, <3>8, <3>9 DEF ConfigsOk
  <2> QED BY <2>17, <2>18, <2>19, <2>20, <2>23 DEF RelayInv
<1> QED BY <1>2, <1>3

LEMMA RelayStep ==
  ASSUME RelaySane, RelayInv, [RelayMetering!Next]_(RelayMetering!vars) PROVE RelayInv'
<1>1. CASE RelayMetering!Start \/ RelayMetering!EditLanding \/ RelayMetering!ConfigureMetering \/ RelayMetering!EntitlementChanges \/ RelayMetering!Collect \/ UNCHANGED RelayMetering!vars
  <2>1. UNCHANGED <<link, gens, rows, running, flight>> /\ (UNCHANGED pass \/ pass' = RelayMetering!Machines)
        BY <1>1 DEF RelayMetering!Start, RelayMetering!EditLanding, RelayMetering!ConfigureMetering, RelayMetering!EntitlementChanges, RelayMetering!Collect, RelayMetering!vars
  <2>2. /\ mode \in {"off", "link", "user"} /\ spec \in Specs /\ subjects \in [Owners -> Nat] /\ byTag \in [Owners -> Nat]
        BY DEF RelayInv, RelayTyped
  <2>3. mode' \in {"off", "link", "user"} /\ spec' \in Specs /\ byTag' \in [Owners -> Nat]
        BY <1>1, <2>2 DEF RelayMetering!Start, RelayMetering!EditLanding, RelayMetering!ConfigureMetering, RelayMetering!EntitlementChanges, RelayMetering!Collect, RelayMetering!vars
  <2>4. subjects' \in [Owners -> Nat]
        BY <1>1, <2>2 DEF RelayMetering!Start, RelayMetering!EditLanding, RelayMetering!ConfigureMetering, RelayMetering!EntitlementChanges, RelayMetering!Collect, RelayMetering!vars
  <2> QED BY <2>1, <2>3, <2>4, RowsStay
<1>2. CASE RelayMetering!Prepare
      BY <1>2, PrepareKeeps
<1>3. CASE \E m \in RelayMetering!Machines : RelayMetering!Compile(m) \/ RelayMetering!Apply(m) \/ RelayMetering!ApplyFails(m) \/ RelayMetering!Record(m)
      BY <1>3, CompileKeeps, ApplyKeeps, ApplyFailsKeeps, RecordKeeps
<1>4. CASE RelayMetering!Retire \/ RelayMetering!Restore
      BY <1>4, ChangeKeeps
<1> QED BY <1>1, <1>2, <1>3, <1>4 DEF RelayMetering!Next

\* What the invariant says of a credential the running relay dials with
LEMMA RelayInvAccepts == ASSUME RelaySane, RelayInv PROVE RelayMetering!DialsAreAccepted
<1> SUFFICES ASSUME NEW id \in running["relay"].uses \ {RelayMetering!Shared}, RelayMetering!Expected(id)
             PROVE  id \in running["landing"].accepts
    BY DEF RelayMetering!DialsAreAccepted
<1>1. LandingOk(running["landing"]) /\ RelayOk(running["relay"]) /\ Dialed(id)
      BY DEF RelayInv, ConfigsOk, Dialed
<1>2. CASE id \in DOMAIN rows
  <2>1. id[1] # 0
        BY <1>2 DEF RelayInv, RelayTyped, RelaySane
  <2>2. rows[id].on /\ rows[id].acc
        BY <2>1 DEF RelayMetering!Expected
  <2> QED BY <1>1, <1>2, <2>2 DEF LandingOk
<1>3. ASSUME NEW g \in 1..link.gen, id = <<0, g>> PROVE id \in running["landing"].accepts
  <2>1. g = link.gen \/ gens[g].acc \/ gens[g].retired
        BY <1>3 DEF RelayMetering!Expected
  <2>2. ~gens[g].retired
        BY <1>1, <1>3 DEF RelayInv, GensOk
  <2>3. g = link.gen => gens[g].acc
    <3>1. link.gen \in Nat
          BY DEF RelayInv, RelayTyped, LinkRow
    <3> QED BY <1>1, <1>3, <3>1 DEF RelayOk, Dialed
  <2> QED BY <1>1, <1>3, <2>1, <2>2, <2>3 DEF LandingOk
<1>4. id \in DOMAIN rows \/ \E g \in 1..link.gen : id = <<0, g>>
      BY <1>1 DEF RelayOk
<1> QED BY <1>2, <1>3, <1>4

\* However edits, switches, failed applications and retirements interleave, a credential that
\* was minted is accepted by the running landing for as long as the running relay dials with it
\* (PrepareRelayMetering, RecordRelayMeteringApplied), for any owners and definitions.
THEOREM RelaysAreAccepted == Spec => []DialsAreAccepted
<1> DEFINE Inv == scenario = "relay" => RelayInv
<1>1. Init => Inv
      BY RelayInit, NetworkIsSane DEF Init
<1>2. Inv /\ [Next]_vars => Inv'
  <2> SUFFICES ASSUME Inv, [Next]_vars, scenario = "relay"
               PROVE  RelayInv'
      BY DEF Next, vars
  <2>1. [RelayMetering!Next]_(RelayMetering!vars)
        BY DEF Next, vars, RelayMetering!vars, relayOnly
  <2> QED BY <2>1, RelayStep, NetworkIsSane
<1>3. Inv => DialsAreAccepted
      BY RelayInvAccepts, NetworkIsSane DEF DialsAreAccepted
<1> QED BY <1>1, <1>2, <1>3, PTL DEF Spec
-----------------------------------------------------------------------------
(* Certificates                                                              *)
CertRow == [is : {"row"}, source : {"acme", "paste", "selfsigned"}, auto : BOOLEAN, crt : Nat, key : Nat]
Gone == [is |-> "gone"]
ProfileRow == [is : {"row"}, cert : Certs \cup {None}]
Presented == [cert : Certs, crt : Nat, key : Nat]
RowJob == [at : {"issue", "install", "crt", "key", "save", "push", "edit"}, cert : Certs, row : CertRow, new : BOOLEAN]
DeleteJob == [at : {"delete"}, cert : Certs]
ProfileJob == [at : {"profile"}, cert : Certs \cup {None}, profile : Profiles]

AnyJob == RowJob \cup DeleteJob \cup ProfileJob \cup {Certificates!Idle}

CertsTyped ==
  /\ issues \in Nat /\ disk \in [crt : Nat, key : Nat]
  /\ cert \in [Certs -> CertRow \cup {Certificates!Absent, Gone}]
  /\ profile \in [Profiles -> ProfileRow \cup {Certificates!Absent}]
  /\ inbound \in [Presenters -> Profiles \cup {None}]
  /\ running \in [Presenters -> Presented \cup {None}]
  /\ job \in [Jobs -> AnyJob]

\* What is stored, presented or about to be written back is a certificate with its key
Paired ==
  /\ \A c \in Certs : Certificates!Exists(c) => Certificates!Pair(cert[c])
  /\ \A i \in Presenters : running[i] # None => Certificates!Pair(running[i])
  /\ \A j \in Jobs : job[j].at = "edit" => Certificates!Pair(job[j].row)

\* A request for a new certificate is alone with it; others are about one that is stored
Asks(n) == n \in RowJob /\ n.new
Rightful(j, n) ==
  n # Certificates!Idle =>
    IF Asks(n)
    THEN cert[n.cert] = Certificates!Absent /\ \A k \in Jobs : k # j /\ job[k] # Certificates!Idle => job[k].cert # n.cert
    ELSE n.cert # None => cert[n.cert] # Certificates!Absent

\* A certificate that is yet to be stored is named by nothing but the request that makes it
Unnamed ==
  /\ \A c \in Certs : cert[c] = Certificates!Absent =>
       /\ \A t \in Profiles : profile[t] # Certificates!Absent => profile[t].cert # c
       /\ \A i \in Presenters : running[i] # None => running[i].cert # c
  /\ \A j \in Jobs : Rightful(j, job[j])

\* The second half of the property
Outdated(i) ==
  LET c == running[i].cert
  IN  /\ i \in Certificates!CertServerIDs(c) /\ Certificates!Exists(c) /\ c \notin reverted
      /\ cert[c].crt > running[i].crt
Awaited(i) ==
  running[i] # None /\ Outdated(i) =>
    \/ i \in queue \cup failed
    \/ \E j \in Jobs : job[j].at = "push" /\ job[j].cert = running[i].cert

CertsInv == CertsTyped /\ Paired /\ Unnamed /\ \A i \in Presenters : Awaited(i)
-----------------------------------------------------------------------------
LEMMA CertsInit == ASSUME CertsSane, Certificates!Init PROVE CertsInv
<1>1. /\ issues = 1 /\ disk = [crt |-> 1, key |-> 1] /\ job = [j \in Jobs |-> Certificates!Idle]
      BY DEF Certificates!Init
<1>2. PICK c \in Certs, t \in Profiles :
       /\ cert = [x \in Certs |-> IF x = c THEN Certificates!Row("acme", TRUE, 1, 1) ELSE Certificates!Absent]
       /\ profile = [x \in Profiles |-> IF x = t THEN [is |-> "row", cert |-> c] ELSE Certificates!Absent]
       /\ inbound = [i \in Presenters |-> t]
       /\ running = [i \in Presenters |-> [cert |-> c, crt |-> 1, key |-> 1]]
      BY DEF Certificates!Init
<1>3. Certificates!Row("acme", TRUE, 1, 1) \in CertRow /\ Certificates!Row("acme", TRUE, 1, 1).crt = 1 /\ Certificates!Row("acme", TRUE, 1, 1).key = 1
      BY DEF CertRow, Certificates!Row
<1>4. cert[c] # Certificates!Absent
  <2>1. Certificates!Row("acme", TRUE, 1, 1).is = "row" /\ Certificates!Absent.is = "absent"
        BY DEF Certificates!Row, Certificates!Absent
  <2> QED BY <1>2, <2>1
<1>5. CertsTyped
      BY <1>1, <1>2, <1>3 DEF CertsTyped, Presented, ProfileRow, AnyJob
<1>6. Paired
      BY <1>1, <1>2, <1>3 DEF Paired, Certificates!Pair, Certificates!Exists, Certificates!Absent, Certificates!Idle
<1>7. Unnamed
      BY <1>1, <1>2, <1>4 DEF Unnamed, Rightful
<1>8. ASSUME NEW i \in Presenters PROVE Awaited(i)
  <2>1. running[i].cert = c /\ running[i].crt = 1 /\ cert[c].crt = 1
        BY <1>2, <1>3
  <2> QED BY <2>1 DEF Awaited, Outdated
<1> QED BY <1>5, <1>6, <1>7, <1>8 DEF CertsInv

\* One request goes on or ends; what is stored and presented stays
LEMMA RequestMoves ==
  ASSUME CertsSane, CertsInv, NEW j \in Jobs, NEW n \in AnyJob, job' = [job EXCEPT ![j] = n],
         UNCHANGED <<cert, profile, inbound, running, queue, failed, reverted>>,
         issues' \in Nat, disk' \in [crt : Nat, key : Nat],
         job[j].at # "push", n.at = "edit" => Certificates!Pair(n.row), Rightful(j, n)
  PROVE  CertsInv'
<1>1. \A k \in Jobs : job'[k] = IF k = j THEN n ELSE job[k]
      BY DEF CertsInv, CertsTyped
<1>2. CertsTyped'
      BY DEF CertsInv, CertsTyped
<1>3. Paired'
      BY <1>1 DEF CertsInv, Paired, Certificates!Exists
<1>4. Unnamed'
  <2>1. ASSUME NEW k \in Jobs, k # j, Asks(job[k]), n # Certificates!Idle
        PROVE  n.cert # job[k].cert
    <3>1. job[k] # Certificates!Idle /\ job[k] \in RowJob /\ job[k].cert \in Certs
          BY <2>1 DEF Asks, RowJob, Certificates!Idle
    <3>2. cert[job[k].cert] = Certificates!Absent /\ \A l \in Jobs : l # k /\ job[l] # Certificates!Idle => job[l].cert # job[k].cert
          BY <2>1, <3>1 DEF CertsInv, Unnamed, Rightful
    <3>3. CASE Asks(n)
          BY <2>1, <3>1, <3>3 DEF Rightful
    <3>4. CASE ~Asks(n)
          BY <2>1, <3>1, <3>2, <3>4 DEF Rightful, CertsSane
    <3> QED BY <3>3, <3>4
  <2>2. ASSUME NEW k \in Jobs PROVE Rightful(k, job[k])'
    <3>1. CASE k = j
          BY <1>1, <3>1 DEF Rightful
    <3>2. CASE k # j
      <4>1. job'[k] = job[k] /\ Rightful(k, job[k])
            BY <1>1, <3>2 DEF CertsInv, Unnamed
      <4> QED BY <1>1, <2>1, <3>2, <4>1 DEF Rightful
    <3> QED BY <3>1, <3>2
  <2> QED BY <2>2 DEF CertsInv, Unnamed
<1>5. \A i \in Presenters : Awaited(i)'
  <2>1. ASSUME NEW i \in Presenters PROVE Awaited(i)'
    <3>1. Awaited(i) /\ (Outdated(i)' => Outdated(i))
          BY DEF CertsInv, Outdated, Certificates!CertServerIDs, Certificates!Exists
    <3> QED BY <1>1, <3>1 DEF Awaited
  <2> QED BY <2>1
<1> QED BY <1>2, <1>3, <1>4, <1>5 DEF CertsInv

\* The rows a request holds
LEMMA HeldRow ==
  ASSUME CertsInv, NEW j \in Jobs, job[j].at \in {"issue", "install", "crt", "key", "save", "push", "edit"}
  PROVE  job[j] \in RowJob /\ job[j] # Certificates!Idle /\ job[j].row \in CertRow /\ job[j].cert \in Certs
<1>1. job[j] \in AnyJob
      BY DEF CertsInv, CertsTyped
<1>2. job[j] \in RowJob
      BY <1>1 DEF AnyJob, RowJob, DeleteJob, ProfileJob, Certificates!Idle
<1> QED BY <1>2 DEF RowJob, Certificates!Idle

\* A request that holds a row reads or writes part of it
LEMMA HeldRowMoves ==
  ASSUME CertsSane, CertsInv, NEW j \in Jobs,
         job[j].at \in {"issue", "install", "crt", "key", "save"},
         NEW n, n = Certificates!Idle \/ (n \in RowJob /\ n.cert = job[j].cert /\ n.new = job[j].new /\ n.at # "edit"),
         job' = [job EXCEPT ![j] = n],
         UNCHANGED <<cert, profile, inbound, running, queue, failed, reverted>>,
         issues' \in Nat, disk' \in [crt : Nat, key : Nat]
  PROVE  CertsInv'
<1>1. job[j] \in RowJob /\ job[j] # Certificates!Idle
      BY HeldRow
<1>2. n \in AnyJob /\ n.at # "edit"
      BY DEF AnyJob, Certificates!Idle
<1>3. Rightful(j, job[j])
      BY DEF CertsInv, Unnamed
<1>4. Rightful(j, n)
      BY <1>1, <1>3 DEF Rightful, Asks
<1> QED BY <1>2, <1>4, RequestMoves

LEMMA IssueKeeps ==
  ASSUME CertsSane, CertsInv, NEW j \in Jobs, Certificates!Issue(j) \/ Certificates!Renew(j) \/ Certificates!Install(j) \/ Certificates!ReadCrt(j) \/ Certificates!ReadKey(j)
  PROVE  CertsInv'
<1>1. UNCHANGED <<cert, profile, inbound, running, queue, failed, reverted>>
      BY DEF Certificates!Issue, Certificates!Renew, Certificates!AcmeRun, Certificates!Install, Certificates!ReadCrt, Certificates!ReadKey
<1>2. job[j].at \in {"issue", "install", "crt", "key"}
      BY DEF Certificates!Issue, Certificates!Renew, Certificates!Install, Certificates!ReadCrt, Certificates!ReadKey
<1>3. job[j] \in RowJob /\ job[j].row \in CertRow
      BY <1>2, HeldRow
<1>4. issues \in Nat /\ disk \in [crt : Nat, key : Nat] /\ disk.crt \in Nat /\ disk.key \in Nat
      BY DEF CertsInv, CertsTyped
<1> DEFINE Same(n) == n \in RowJob /\ n.cert = job[j].cert /\ n.new = job[j].new /\ n.at # "edit"
<1>5. \A pc \in {"crt"} : Same([job[j] EXCEPT !.at = pc])
      BY <1>3 DEF RowJob
<1>6. \A m \in Nat : /\ Same([job[j] EXCEPT !.at = "install", !.row.key = m])
                      /\ Same([job[j] EXCEPT !.at = "key", !.row.crt = m])
                      /\ Same([job[j] EXCEPT !.at = "save", !.row.key = m])
  <2> TAKE m \in Nat
  <2>1. [job[j].row EXCEPT !.key = m] \in CertRow /\ [job[j].row EXCEPT !.crt = m] \in CertRow
        BY <1>3 DEF CertRow
  <2>2. \A pc \in {"install", "key", "save"}, r \in CertRow : Same([job[j] EXCEPT !.at = pc, !.row = r])
        BY <1>3 DEF RowJob
  <2>3. \A pc : [job[j] EXCEPT !.at = pc].row = job[j].row
        BY <1>3 DEF RowJob
  <2> QED BY <2>1, <2>2, <2>3
<1> HIDE DEF Same
<1>7. CASE Certificates!Issue(j) \/ Certificates!Renew(j)
  <2>1. PICK n : (n = Certificates!Idle \/ Same(n)) /\ job' = [job EXCEPT ![j] = n]
    <3>1. issues + 1 \in Nat
          BY <1>4
    <3> QED BY <1>5, <1>6, <1>7, <3>1 DEF Certificates!Issue, Certificates!Renew, Certificates!AcmeRun, Certificates!Go, Certificates!To
  <2>2. issues' \in Nat /\ disk' \in [crt : Nat, key : Nat]
        BY <1>4, <1>7 DEF Certificates!Issue, Certificates!Renew, Certificates!AcmeRun
  <2> QED BY <1>1, <1>2, <2>1, <2>2, HeldRowMoves DEF Same
<1>8. CASE Certificates!Install(j)
  <2>1. issues' \in Nat /\ disk' \in [crt : Nat, key : Nat]
        BY <1>3, <1>4, <1>8 DEF Certificates!Install, CertRow
  <2> QED BY <1>1, <1>2, <1>5, <1>8, <2>1, HeldRowMoves DEF Same, Certificates!Install, Certificates!To, Certificates!Go
<1>9. CASE Certificates!ReadCrt(j)
      BY <1>1, <1>2, <1>4, <1>6, <1>9, HeldRowMoves DEF Same, Certificates!ReadCrt, Certificates!Go
<1>10. CASE Certificates!ReadKey(j)
      BY <1>1, <1>2, <1>4, <1>6, <1>10, HeldRowMoves DEF Same, Certificates!ReadKey, Certificates!Go
<1> QED BY <1>7, <1>8, <1>9, <1>10
LEMMA RequestsBegin ==
  ASSUME CertsSane, CertsInv, NEW j \in Jobs,
         \/ Certificates!CertAcme(j) \/ Certificates!RenewDueCerts(j) \/ Certificates!CertRenew(j) \/ Certificates!UpdateCertRead(j)
         \/ Certificates!CountCertRefs(j) \/ Certificates!SaveCertTlsCheck(j)
  PROVE  CertsInv'
<1>1. /\ UNCHANGED <<cert, profile, inbound, running, queue, failed, reverted, issues, disk>>
      /\ job[j] = Certificates!Idle
      BY DEF Certificates!CertAcme, Certificates!RenewDueCerts, Certificates!CertRenew, Certificates!UpdateCertRead, Certificates!CountCertRefs, Certificates!SaveCertTlsCheck
<1>2. job[j].at # "push" /\ issues' \in Nat /\ disk' \in [crt : Nat, key : Nat]
      BY <1>1 DEF Certificates!Idle, CertsInv, CertsTyped
<1>3. ASSUME NEW n \in AnyJob, job' = [job EXCEPT ![j] = n], n.at = "edit" => Certificates!Pair(n.row), Rightful(j, n)
      PROVE  CertsInv'
      BY <1>1, <1>2, <1>3, RequestMoves
<1>4. CASE Certificates!CertAcme(j)
  <2>1. PICK c \in Certs : /\ cert[c] = Certificates!Absent
                           /\ \A k \in Jobs : job[k] # Certificates!Idle => job[k].cert # c
                           /\ Certificates!Go(j, [at |-> "issue", cert |-> c, row |-> Certificates!Row("acme", TRUE, 0, 0), new |-> TRUE])
        BY <1>4 DEF Certificates!CertAcme
  <2> DEFINE n == [at |-> "issue", cert |-> c, row |-> Certificates!Row("acme", TRUE, 0, 0), new |-> TRUE]
  <2>2. n \in RowJob
        BY DEF RowJob, CertRow, Certificates!Row
  <2>3. Rightful(j, n)
        BY <2>1, <2>2 DEF Rightful, Asks
  <2> QED BY <1>3, <2>1, <2>2, <2>3 DEF AnyJob, Certificates!Go
<1>5. CASE Certificates!RenewDueCerts(j) \/ Certificates!CertRenew(j)
  <2>1. PICK c \in Certs : Certificates!Exists(c) /\ Certificates!Go(j, [at |-> "issue", cert |-> c, row |-> cert[c], new |-> FALSE])
        BY <1>5 DEF Certificates!RenewDueCerts, Certificates!CertRenew
  <2> DEFINE n == [at |-> "issue", cert |-> c, row |-> cert[c], new |-> FALSE]
  <2>2. cert[c] \in CertRow /\ cert[c] # Certificates!Absent
        BY <2>1 DEF CertsInv, CertsTyped, Certificates!Exists, Certificates!Absent, Gone
  <2>3. n \in RowJob /\ Rightful(j, n)
        BY <2>2 DEF RowJob, Rightful, Asks
  <2> QED BY <1>3, <2>1, <2>3 DEF AnyJob, Certificates!Go
<1>6. CASE Certificates!UpdateCertRead(j)
  <2>1. PICK c \in Certs : /\ Certificates!Exists(c)
                           /\ Certificates!Go(j, [at |-> "edit", cert |-> c, row |-> [cert[c] EXCEPT !.auto = ~@], new |-> FALSE])
        BY <1>6 DEF Certificates!UpdateCertRead
  <2> DEFINE n == [at |-> "edit", cert |-> c, row |-> [cert[c] EXCEPT !.auto = ~@], new |-> FALSE]
  <2>2. cert[c] \in CertRow /\ cert[c] # Certificates!Absent /\ Certificates!Pair(cert[c])
        BY <2>1 DEF CertsInv, CertsTyped, Certificates!Exists, Certificates!Absent, Gone, Paired
  <2>3. n.row \in CertRow /\ Certificates!Pair(n.row)
        BY <2>2 DEF CertRow, Certificates!Pair
  <2>4. n \in RowJob /\ Rightful(j, n)
        BY <2>2, <2>3 DEF RowJob, Rightful, Asks
  <2> QED BY <1>3, <2>1, <2>3, <2>4 DEF AnyJob, Certificates!Go
<1>7. CASE Certificates!CountCertRefs(j)
  <2>1. PICK c \in Certs : Certificates!Exists(c) /\ Certificates!Go(j, [at |-> "delete", cert |-> c])
        BY <1>7 DEF Certificates!CountCertRefs
  <2> DEFINE n == [at |-> "delete", cert |-> c]
  <2>2. cert[c] # Certificates!Absent
        BY <2>1 DEF Certificates!Exists, Certificates!Absent
  <2>3. n \in DeleteJob /\ Rightful(j, n)
        BY <2>2 DEF DeleteJob, Rightful, Asks, RowJob
  <2> QED BY <1>3, <2>1, <2>3 DEF AnyJob, Certificates!Go
<1>8. CASE Certificates!SaveCertTlsCheck(j)
  <2>1. PICK t \in Profiles, c \in {d \in Certs : Certificates!Exists(d)} \cup {None} :
               Certificates!Go(j, [at |-> "profile", cert |-> c, profile |-> t])
        BY <1>8 DEF Certificates!SaveCertTlsCheck
  <2> DEFINE n == [at |-> "profile", cert |-> c, profile |-> t]
  <2>2. c # None => cert[c] # Certificates!Absent
        BY DEF Certificates!Exists, Certificates!Absent
  <2>3. n \in ProfileJob /\ Rightful(j, n)
        BY <2>2 DEF ProfileJob, Rightful, Asks, RowJob
  <2> QED BY <1>3, <2>1, <2>3 DEF AnyJob, Certificates!Go
<1> QED BY <1>4, <1>5, <1>6, <1>7, <1>8

\* A row is stored: under a certificate that is being made, or in place of one that is there.
\* Whoever presents the old pair is waited for
LEMMA StoredRow ==
  ASSUME CertsSane, CertsInv, NEW j \in Jobs, NEW c \in Certs, NEW new \in CertRow, Certificates!Pair(new),
         c = job[j].cert, job[j] \in RowJob,
         NEW n \in AnyJob, job' = [job EXCEPT ![j] = n],
         \/ Asks(job[j]) /\ n = Certificates!Idle
         \/ Certificates!Exists(c) /\ n.at = "push" /\ n.cert = c /\ ~Asks(n)
         \/ /\ Certificates!Exists(c) /\ job[j].at # "push" /\ n = Certificates!Idle
            /\ new.crt # cert[c].crt => c \in reverted',
         cert' = [cert EXCEPT ![c] = new], reverted \subseteq reverted',
         UNCHANGED <<issues, disk, profile, inbound, running, queue, failed>>
  PROVE  CertsInv'
<1>1. job[j] # Certificates!Idle /\ (n = Certificates!Idle \/ (n.at = "push" /\ n.cert = c /\ ~Asks(n)))
      BY DEF RowJob, Certificates!Idle
<1>3. \A k \in Jobs : job'[k] = IF k = j THEN n ELSE job[k]
      BY DEF CertsInv, CertsTyped
<1>4. \A d \in Certs : cert'[d] = IF d = c THEN new ELSE cert[d]
      BY DEF CertsInv, CertsTyped
<1>5. new.is = "row" /\ new # Certificates!Absent /\ new # Gone
      BY DEF CertRow, Certificates!Absent, Gone
<1>6. CertsTyped'
      BY DEF CertsInv, CertsTyped
<1>7. n.at # "edit"
      BY <1>1 DEF Certificates!Idle
<1>8. Paired'
      BY <1>3, <1>4, <1>7 DEF CertsInv, Paired, Certificates!Exists
<1>9. Unnamed'
  <2>1. ASSUME NEW k \in Jobs PROVE Rightful(k, job[k])'
    <3>1. CASE k = j
      <4> QED BY <1>1, <1>3, <1>4, <1>5, <3>1 DEF Rightful, Asks
    <3>2. CASE k # j
      <4>1. job'[k] = job[k] /\ Rightful(k, job[k])
            BY <1>3, <3>2 DEF CertsInv, Unnamed
      <4>2. Asks(job[k]) => job[k].cert # c
            BY <1>1, <3>2, <4>1 DEF Rightful, Asks, RowJob, Certificates!Idle
      <4>3. Asks(job[k]) => job[k].cert \in Certs
            BY DEF Asks, RowJob
      <4>4. job[k] # Certificates!Idle => job[k].cert \in Certs \cup {None}
            BY DEF CertsInv, CertsTyped, AnyJob, RowJob, DeleteJob, ProfileJob
      <4> QED BY <1>1, <1>3, <1>4, <1>5, <3>2, <4>1, <4>2, <4>3, <4>4 DEF Rightful, Asks
    <3> QED BY <3>1, <3>2
  <2> QED BY <1>4, <1>5, <2>1 DEF CertsInv, Unnamed
<1>10. ASSUME NEW i \in Presenters PROVE Awaited(i)'
  <2>1. CASE running[i] = None
        BY <2>1 DEF Awaited
  <2>2. CASE running[i] # None /\ running[i].cert # c
    <3>1. running[i].cert \in Certs
          BY <2>2 DEF CertsInv, CertsTyped, Presented
    <3>2. Outdated(i)' => Outdated(i)
          BY <1>4, <2>2, <3>1 DEF Outdated, Certificates!CertServerIDs, Certificates!Exists
    <3>3. \A k \in Jobs : job[k].at = "push" /\ job[k].cert = running[i].cert => job'[k] = job[k]
          BY <1>3, <2>2
    <3> QED BY <2>2, <3>2, <3>3 DEF CertsInv, Awaited
  <2>3. CASE running[i] # None /\ running[i].cert = c
    <3>1. CASE Asks(job[j])
      <4>1. cert[c] = Certificates!Absent
            BY <1>1, <3>1 DEF CertsInv, Unnamed, Rightful
      <4> QED BY <2>3, <4>1 DEF CertsInv, Unnamed
    <3>2. CASE n.at = "push" /\ n.cert = c
          BY <1>3, <2>3, <3>2 DEF Awaited
    <3>3. CASE /\ Certificates!Exists(c) /\ job[j].at # "push"
               /\ (new.crt # cert[c].crt => c \in reverted')
      <4>1. Outdated(i)' => Outdated(i)
            BY <1>4, <2>3, <3>3 DEF Outdated, Certificates!CertServerIDs
      <4>2. \A k \in Jobs : job[k].at = "push" => job'[k] = job[k]
            BY <1>3, <3>3
      <4> QED BY <2>3, <4>1, <4>2 DEF CertsInv, Awaited
    <3> QED BY <3>1, <3>2, <3>3
  <2> QED BY <2>1, <2>2, <2>3
<1> QED BY <1>6, <1>8, <1>9, <1>10 DEF CertsInv
LEMMA SaveKeeps ==
  ASSUME CertsSane, CertsInv, NEW j \in Jobs, Certificates!SaveCert(j) PROVE CertsInv'
<1> DEFINE c == job[j].cert
           pushed == [job[j] EXCEPT !.at = "push"]
<1>1. /\ job[j].at = "save"
      /\ UNCHANGED <<issues, disk, profile, inbound, running, queue, failed, reverted>>
      BY DEF Certificates!SaveCert
<1>2. job[j] \in RowJob /\ job[j] # Certificates!Idle /\ job[j].row \in CertRow /\ c \in Certs
      BY <1>1, HeldRow
<1>3. issues' \in Nat /\ disk' \in [crt : Nat, key : Nat]
      BY <1>1 DEF CertsInv, CertsTyped
<1>4. pushed \in RowJob /\ pushed.cert = c /\ pushed.new = job[j].new /\ pushed.at = "push"
      BY <1>2 DEF RowJob
<1> HIDE DEF pushed
<1>5. CASE ~Certificates!Pair(job[j].row) \/ (~job[j].new /\ ~Certificates!Exists(c))
  <2>1. cert' = cert /\ \E n \in {Certificates!Idle, pushed} : job' = [job EXCEPT ![j] = n]
        BY <1>5 DEF Certificates!SaveCert, Certificates!To, Certificates!Go, pushed
  <2> QED BY <1>1, <1>2, <1>3, <1>4, <2>1, HeldRowMoves
<1>6. CASE Certificates!Pair(job[j].row) /\ (job[j].new \/ Certificates!Exists(c))
  <2>1. /\ cert' = [cert EXCEPT ![c] = job[j].row]
        /\ job' = [job EXCEPT ![j] = IF job[j].new THEN Certificates!Idle ELSE pushed]
        BY <1>6 DEF Certificates!SaveCert, Certificates!To, Certificates!Go, pushed
  <2>2. CASE job[j].new
    <3>1. job' = [job EXCEPT ![j] = Certificates!Idle] /\ Certificates!Idle \in AnyJob /\ Asks(job[j])
          BY <1>2, <2>1, <2>2 DEF AnyJob, Asks
    <3> QED BY <1>1, <1>2, <1>6, <2>1, <3>1, StoredRow
  <2>3. CASE ~job[j].new
    <3>1. job' = [job EXCEPT ![j] = pushed] /\ pushed \in AnyJob /\ ~Asks(pushed) /\ Certificates!Exists(c)
          BY <1>4, <1>6, <2>1, <2>3 DEF AnyJob, Asks
    <3> QED BY <1>1, <1>2, <1>4, <1>6, <2>1, <3>1, StoredRow
  <2> QED BY <2>2, <2>3
<1> QED BY <1>5, <1>6

LEMMA EditKeeps ==
  ASSUME CertsSane, CertsInv, NEW j \in Jobs, Certificates!UpdateCert(j) PROVE CertsInv'
<1> DEFINE c == job[j].cert
<1>1. /\ job[j].at = "edit" /\ job' = [job EXCEPT ![j] = Certificates!Idle]
      /\ cert' = IF Certificates!Exists(c) THEN [cert EXCEPT ![c] = job[j].row] ELSE cert
      /\ reverted' = IF Certificates!Exists(c) /\ cert[c].crt # job[j].row.crt THEN reverted \cup {c} ELSE reverted
      /\ UNCHANGED <<issues, disk, profile, inbound, running, queue, failed>>
      BY DEF Certificates!UpdateCert, Certificates!Go
<1>2. /\ job[j] \in RowJob /\ job[j].row \in CertRow /\ c \in Certs /\ Certificates!Pair(job[j].row)
      /\ Certificates!Idle \in AnyJob /\ Certificates!Idle.at # "edit" /\ Rightful(j, Certificates!Idle)
      BY <1>1, HeldRow DEF CertsInv, Paired, AnyJob, Certificates!Idle, Rightful
<1>3. CASE Certificates!Exists(c)
      BY <1>1, <1>2, <1>3, StoredRow
<1>4. CASE ~Certificates!Exists(c)
      BY <1>1, <1>2, <1>4, RequestMoves DEF CertsInv, CertsTyped
<1> QED BY <1>3, <1>4

\* A request ends
LEMMA RequestEnds ==
  ASSUME CertsInv, NEW j \in Jobs, job' = [job EXCEPT ![j] = Certificates!Idle]
  PROVE  /\ job' \in [Jobs -> AnyJob]
         /\ \A k \in Jobs : job'[k] = IF k = j THEN Certificates!Idle ELSE job[k]
         /\ \A k \in Jobs : job'[k] # Certificates!Idle => job'[k] = job[k]
<1>1. Certificates!Idle \in AnyJob
      BY DEF AnyJob
<1> QED BY <1>1 DEF CertsInv, CertsTyped

LEMMA PushKeeps ==
  ASSUME CertsSane, CertsInv, NEW j \in Jobs, Certificates!PushCertServers(j) PROVE CertsInv'
<1>1. /\ job[j].at = "push" /\ job' = [job EXCEPT ![j] = Certificates!Idle]
      /\ queue' = queue \cup Certificates!CertServerIDs(job[j].cert)
      /\ UNCHANGED <<issues, disk, cert, profile, inbound, running, failed, reverted>>
      BY DEF Certificates!PushCertServers, Certificates!Go
<1>2. /\ job' \in [Jobs -> AnyJob]
      /\ \A k \in Jobs : job'[k] = IF k = j THEN Certificates!Idle ELSE job[k]
      BY <1>1, RequestEnds
<1>3. CertsTyped'
      BY <1>1, <1>2 DEF CertsInv, CertsTyped
<1>4. Paired'
      BY <1>1, <1>2 DEF CertsInv, Paired, Certificates!Exists, Certificates!Idle
<1>5. Unnamed'
      BY <1>1, <1>2 DEF CertsInv, Unnamed, Rightful
<1>6. ASSUME NEW i \in Presenters PROVE Awaited(i)'
  <2>1. Awaited(i) /\ (Outdated(i)' => Outdated(i) /\ i \in Certificates!CertServerIDs(running[i].cert))
        BY <1>1 DEF CertsInv, Outdated, Certificates!CertServerIDs, Certificates!Exists
  <2> QED BY <1>1, <1>2, <2>1 DEF Awaited
<1> QED BY <1>3, <1>4, <1>5, <1>6 DEF CertsInv

LEMMA ImportKeeps ==
  ASSUME CertsSane, CertsInv, Certificates!CertPaste \/ Certificates!CertSelfSigned PROVE CertsInv'
<1>1. PICK c \in Certs, origin \in {"paste", "selfsigned"} :
        /\ cert[c] = Certificates!Absent
        /\ \A k \in Jobs : job[k] # Certificates!Idle => job[k].cert # c
        /\ cert' = [cert EXCEPT ![c] = Certificates!Row(origin, FALSE, 0, 0)]
      BY DEF Certificates!CertPaste, Certificates!CertSelfSigned, Certificates!Imported
<1>2. UNCHANGED <<issues, disk, profile, inbound, running, queue, failed, reverted, job>>
      BY DEF Certificates!CertPaste, Certificates!CertSelfSigned, Certificates!Imported
<1> DEFINE new == Certificates!Row(origin, FALSE, 0, 0)
<1>3. new \in CertRow /\ Certificates!Pair(new) /\ new # Certificates!Absent
      BY DEF Certificates!Row, CertRow, Certificates!Pair, Certificates!Absent
<1> HIDE DEF new
<1>4. \A d \in Certs : cert'[d] = IF d = c THEN new ELSE cert[d]
      BY <1>1 DEF CertsInv, CertsTyped, new
<1>5. CertsTyped'
      BY <1>1, <1>2, <1>3 DEF CertsInv, CertsTyped, new
<1>6. Paired'
      BY <1>2, <1>3, <1>4 DEF CertsInv, Paired, Certificates!Exists
<1>7. Unnamed'
  <2>1. ASSUME NEW k \in Jobs PROVE Rightful(k, job[k])'
    <3>1. job[k] # Certificates!Idle => job[k].cert \in Certs \cup {None} /\ (Asks(job[k]) => job[k].cert \in Certs)
          BY DEF CertsInv, CertsTyped, AnyJob, RowJob, DeleteJob, ProfileJob, Asks
    <3> QED BY <1>1, <1>2, <1>4, <3>1 DEF CertsInv, Unnamed, Rightful
  <2> QED BY <1>2, <1>3, <1>4, <2>1 DEF CertsInv, Unnamed
<1>8. ASSUME NEW i \in Presenters PROVE Awaited(i)'
  <2>1. running[i] # None => running[i].cert # c /\ running[i].cert \in Certs
        BY <1>1 DEF CertsInv, Unnamed, CertsTyped, Presented
  <2>2. running[i] # None /\ Outdated(i)' => Outdated(i)
        BY <1>2, <1>4, <2>1 DEF Outdated, Certificates!CertServerIDs, Certificates!Exists
  <2> QED BY <1>2, <2>2 DEF CertsInv, Awaited
<1> QED BY <1>5, <1>6, <1>7, <1>8 DEF CertsInv

LEMMA DeleteCertKeeps ==
  ASSUME CertsSane, CertsInv, NEW j \in Jobs, Certificates!DeleteCert(j) PROVE CertsInv'
<1> DEFINE c == job[j].cert
<1>1. /\ job[j].at = "delete" /\ job' = [job EXCEPT ![j] = Certificates!Idle]
      /\ cert' = [cert EXCEPT ![c] = Gone]
      /\ UNCHANGED <<issues, disk, profile, inbound, running, queue, failed, reverted>>
      BY DEF Certificates!DeleteCert, Certificates!Go, Gone
<1>2. job[j] \in DeleteJob /\ c \in Certs /\ job[j] # Certificates!Idle /\ ~Asks(job[j])
      BY <1>1 DEF CertsInv, CertsTyped, AnyJob, RowJob, DeleteJob, ProfileJob, Certificates!Idle, Asks
<1>3. /\ job' \in [Jobs -> AnyJob]
      /\ \A k \in Jobs : job'[k] = IF k = j THEN Certificates!Idle ELSE job[k]
      BY <1>1, RequestEnds
<1>4. /\ \A d \in Certs : cert'[d] = IF d = c THEN Gone ELSE cert[d]
      /\ cert' \in [Certs -> CertRow \cup {Certificates!Absent, Gone}]
      /\ Gone # Certificates!Absent /\ Gone.is # "row"
      BY <1>1 DEF CertsInv, CertsTyped, Gone, Certificates!Absent
<1>5. CertsTyped'
      BY <1>1, <1>3, <1>4 DEF CertsInv, CertsTyped
<1>6. Paired'
      BY <1>1, <1>3, <1>4 DEF CertsInv, Paired, Certificates!Exists, Certificates!Idle
<1>7. Unnamed'
  <2>1. ASSUME NEW k \in Jobs PROVE Rightful(k, job[k])'
    <3>1. job[k] # Certificates!Idle => job[k].cert \in Certs \cup {None} /\ (Asks(job[k]) => job[k].cert \in Certs)
          BY DEF CertsInv, CertsTyped, AnyJob, RowJob, DeleteJob, ProfileJob, Asks
    <3>2. k # j /\ Asks(job[k]) => job[k].cert # c
          BY <1>2 DEF CertsInv, Unnamed, Rightful, Asks, RowJob, Certificates!Idle
    <3> QED BY <1>3, <1>4, <3>1, <3>2 DEF CertsInv, Unnamed, Rightful
  <2> QED BY <1>1, <1>4, <2>1 DEF CertsInv, Unnamed
<1>8. ASSUME NEW i \in Presenters PROVE Awaited(i)'
  <2>1. running[i] # None => running[i].cert \in Certs
        BY DEF CertsInv, CertsTyped, Presented
  <2>2. running[i] # None /\ Outdated(i)' => Outdated(i)
        BY <1>1, <1>4, <2>1 DEF Outdated, Certificates!CertServerIDs, Certificates!Exists
  <2>3. \A k \in Jobs : job[k].at = "push" => job'[k] = job[k]
        BY <1>1, <1>3
  <2> QED BY <1>1, <2>2, <2>3 DEF CertsInv, Awaited
<1> QED BY <1>5, <1>6, <1>7, <1>8 DEF CertsInv

\* Every machine is asked to rebuild
LEMMA AllAsked ==
  ASSUME CertsInv, queue' = Presenters, UNCHANGED running
  PROVE  \A i \in Presenters : Awaited(i)'
  BY DEF Awaited

LEMMA SaveTlsKeeps ==
  ASSUME CertsSane, CertsInv, NEW j \in Jobs, Certificates!SaveSbTls(j) PROVE CertsInv'
<1> DEFINE c == job[j].cert
           t == job[j].profile
           new == [is |-> "row", cert |-> c]
<1>1. /\ job[j].at = "profile" /\ job' = [job EXCEPT ![j] = Certificates!Idle]
      /\ profile' = [profile EXCEPT ![t] = new] /\ queue' = Presenters
      /\ UNCHANGED <<issues, disk, cert, inbound, running, failed, reverted>>
      BY DEF Certificates!SaveSbTls, Certificates!Go
<1>2. /\ job[j] \in ProfileJob /\ t \in Profiles /\ c \in Certs \cup {None} /\ job[j] # Certificates!Idle /\ ~Asks(job[j])
      /\ new \in ProfileRow /\ new.cert = c
      BY <1>1 DEF CertsInv, CertsTyped, AnyJob, RowJob, DeleteJob, ProfileJob, Certificates!Idle, Asks, ProfileRow
<1>3. c # None => cert[c] # Certificates!Absent
      BY <1>2 DEF CertsInv, Unnamed, Rightful
<1> HIDE DEF new
<1>4. /\ job' \in [Jobs -> AnyJob]
      /\ \A k \in Jobs : job'[k] = IF k = j THEN Certificates!Idle ELSE job[k]
      BY <1>1, RequestEnds
<1>5. /\ \A u \in Profiles : profile'[u] = IF u = t THEN new ELSE profile[u]
      /\ profile' \in [Profiles -> ProfileRow \cup {Certificates!Absent}]
      BY <1>1, <1>2 DEF CertsInv, CertsTyped
<1>6. CertsTyped'
      BY <1>1, <1>4, <1>5 DEF CertsInv, CertsTyped
<1>7. Paired'
      BY <1>1, <1>4 DEF CertsInv, Paired, Certificates!Exists, Certificates!Idle
<1>8. Unnamed'
      BY <1>1, <1>2, <1>3, <1>4, <1>5 DEF CertsInv, Unnamed, Rightful, CertsSane
<1> QED BY <1>1, <1>6, <1>7, <1>8, AllAsked DEF CertsInv

\* Profiles by hand and inbounds: no profile comes to name a managed certificate
LEMMA ProfilesKeep ==
  ASSUME CertsSane, CertsInv,
         Certificates!UpdateRealityTls \/ (Certificates!NewInlineTls /\ UNCHANGED queue) \/ Certificates!DeleteSbTls \/ Certificates!SaveSbInbound
  PROVE  CertsInv'
<1>1. UNCHANGED <<issues, disk, cert, running, failed, reverted, job>>
      BY DEF Certificates!UpdateRealityTls, Certificates!NewInlineTls, Certificates!DeleteSbTls, Certificates!SaveSbInbound
<1>2. /\ profile' \in [Profiles -> ProfileRow \cup {Certificates!Absent}]
      /\ \A t \in Profiles : profile'[t] = profile[t] \/ profile'[t] = Certificates!Absent \/ profile'[t].cert = None
      /\ inbound' \in [Presenters -> Profiles \cup {None}]
  <2>1. CASE Certificates!UpdateRealityTls
    <3>1. PICK t \in Profiles : profile[t] # Certificates!Absent /\ profile' = [profile EXCEPT ![t].cert = None]
          BY <2>1 DEF Certificates!UpdateRealityTls
    <3>2. profile[t] \in ProfileRow
          BY <3>1 DEF CertsInv, CertsTyped
    <3>3. [profile[t] EXCEPT !.cert = None] \in ProfileRow /\ [profile[t] EXCEPT !.cert = None].cert = None
          BY <3>2 DEF ProfileRow
    <3> QED BY <2>1, <3>1, <3>3 DEF CertsInv, CertsTyped, Certificates!UpdateRealityTls
  <2>2. CASE Certificates!NewInlineTls
    <3>1. PICK t \in Profiles : profile' = [profile EXCEPT ![t] = [is |-> "row", cert |-> None]]
          BY <2>2 DEF Certificates!NewInlineTls
    <3>2. [is |-> "row", cert |-> None] \in ProfileRow
          BY DEF ProfileRow
    <3> QED BY <2>2, <3>1, <3>2 DEF CertsInv, CertsTyped, Certificates!NewInlineTls
  <2>3. CASE Certificates!DeleteSbTls
        BY <2>3 DEF CertsInv, CertsTyped, Certificates!DeleteSbTls
  <2>4. CASE Certificates!SaveSbInbound
        BY <2>4 DEF CertsInv, CertsTyped, Certificates!SaveSbInbound
  <2> QED BY <2>1, <2>2, <2>3, <2>4
<1>3. CertsTyped'
      BY <1>1, <1>2 DEF CertsInv, CertsTyped
<1>4. Paired'
      BY <1>1 DEF CertsInv, Paired, Certificates!Exists
<1>5. Unnamed'
      BY <1>1, <1>2 DEF CertsInv, Unnamed, Rightful, CertsSane
<1>6. ASSUME NEW i \in Presenters PROVE Awaited(i)'
  <2>1. CASE queue' = Presenters
        BY <1>1, <2>1, AllAsked
  <2>2. CASE Certificates!NewInlineTls /\ UNCHANGED queue
    <3>1. queue' = queue /\ inbound' = inbound
          BY <2>2 DEF Certificates!NewInlineTls
    <3>2. running[i] # None => running[i].cert \in Certs
          BY DEF CertsInv, CertsTyped, Presented
    <3>3. running[i] # None /\ Outdated(i)' => Outdated(i)
          BY <1>1, <1>2, <3>1, <3>2 DEF Outdated, Certificates!CertServerIDs, Certificates!Exists, CertsSane
    <3> QED BY <1>1, <3>1, <3>3 DEF CertsInv, Awaited
  <2>3. CASE Certificates!SaveSbInbound
    <3>1. PICK k \in Presenters, t \in Profiles \cup {None} :
            inbound' = [inbound EXCEPT ![k] = t] /\ queue' = queue \cup {k}
          BY <2>3 DEF Certificates!SaveSbInbound
    <3>2. profile' = profile
          BY <2>3 DEF Certificates!SaveSbInbound
    <3>3. CASE i = k
          BY <1>1, <3>1, <3>3 DEF Awaited
    <3>4. CASE i # k
      <4>1. inbound'[i] = inbound[i]
            BY <3>1, <3>4 DEF CertsInv, CertsTyped
      <4>2. Outdated(i)' => Outdated(i)
            BY <1>1, <3>2, <4>1 DEF Outdated, Certificates!CertServerIDs, Certificates!Exists
      <4> QED BY <1>1, <3>1, <4>2 DEF CertsInv, Awaited
    <3> QED BY <3>3, <3>4
  <2> QED BY <2>1, <2>2, <2>3 DEF Certificates!UpdateRealityTls, Certificates!DeleteSbTls
<1> QED BY <1>3, <1>4, <1>5, <1>6 DEF CertsInv

LEMMA RebuildKeeps ==
  ASSUME CertsSane, CertsInv, Certificates!Rebuild PROVE CertsInv'
<1> DEFINE Dangling(i) == /\ inbound[i] # None /\ profile[inbound[i]] # Certificates!Absent /\ profile[inbound[i]].cert # None
                          /\ ~Certificates!Exists(profile[inbound[i]].cert)
<1>1. PICK i \in Presenters :
        /\ queue' = queue \ {i}
        /\ IF Dangling(i) THEN failed' = failed \cup {i} /\ UNCHANGED running
           ELSE failed' = failed \ {i} /\ running' = [running EXCEPT ![i] = Certificates!ResolveTlsBlock(i)]
        /\ UNCHANGED <<issues, disk, cert, profile, inbound, reverted, job>>
      BY DEF Certificates!Rebuild
<1>2. \/ failed' = failed \cup {i} /\ running' = running
      \/ /\ failed' = failed \ {i} /\ running' = [running EXCEPT ![i] = Certificates!ResolveTlsBlock(i)]
         /\ ~Dangling(i)
      BY <1>1
<1>3. ~Dangling(i) => Certificates!ResolveTlsBlock(i) \in Presented \cup {None}
      /\ (Certificates!ResolveTlsBlock(i) # None =>
            LET p == Certificates!ResolveTlsBlock(i)
            IN  Certificates!Exists(p.cert) /\ p.cert \in Certs /\ p.crt = cert[p.cert].crt /\ p.key = cert[p.cert].key)
  <2> DEFINE c == profile[inbound[i]].cert
  <2>1. CASE inbound[i] = None \/ profile[inbound[i]] = Certificates!Absent \/ c = None
        BY <2>1 DEF Certificates!ResolveTlsBlock
  <2>2. CASE ~(inbound[i] = None \/ profile[inbound[i]] = Certificates!Absent \/ c = None) /\ ~Dangling(i)
    <3>1. inbound[i] \in Profiles /\ profile[inbound[i]] \in ProfileRow
          BY <2>2 DEF CertsInv, CertsTyped
    <3>2. c \in Certs /\ Certificates!Exists(c)
          BY <2>2, <3>1 DEF ProfileRow
    <3>3. cert[c] \in CertRow
          BY <3>2 DEF CertsInv, CertsTyped, Certificates!Exists, Certificates!Absent, Gone
    <3>4. Certificates!ResolveTlsBlock(i) = [cert |-> c, crt |-> cert[c].crt, key |-> cert[c].key]
          BY <2>2 DEF Certificates!ResolveTlsBlock
    <3> QED BY <3>2, <3>3, <3>4 DEF Presented, CertRow
  <2> QED BY <2>1, <2>2
<1> DEFINE p == Certificates!ResolveTlsBlock(i)
<1> HIDE DEF p, Dangling
<1>4. \A k \in Presenters : \/ running'[k] = running[k] /\ (k = i => k \in failed')
                            \/ k = i /\ ~Dangling(i) /\ running'[k] = p
  <2>1. CASE failed' = failed \cup {i} /\ running' = running
        BY <2>1
  <2>2. CASE running' = [running EXCEPT ![i] = p] /\ ~Dangling(i)
        BY <2>2 DEF CertsInv, CertsTyped
  <2> QED BY <1>2, <2>1, <2>2 DEF p
<1>5. running' \in [Presenters -> Presented \cup {None}]
      BY <1>2, <1>3 DEF CertsInv, CertsTyped
<1>6. CertsTyped'
      BY <1>1, <1>5 DEF CertsInv, CertsTyped
<1>7. Paired'
  <2>1. ~Dangling(i) /\ p # None => Certificates!Pair(p)
        BY <1>3 DEF p, CertsInv, Paired, Certificates!Pair
  <2> QED BY <1>1, <1>4, <2>1 DEF CertsInv, Paired, Certificates!Exists
<1>8. Unnamed'
  <2>1. ~Dangling(i) /\ p # None => cert[p.cert] # Certificates!Absent
        BY <1>3 DEF p, Certificates!Exists, Certificates!Absent
  <2> QED BY <1>1, <1>4, <2>1 DEF CertsInv, Unnamed, Rightful
<1>9. ASSUME NEW k \in Presenters PROVE Awaited(k)'
  <2>1. CASE running'[k] = running[k] /\ (k = i => k \in failed')
    <3>1. Outdated(k)' => Outdated(k)
          BY <1>1, <2>1 DEF Outdated, Certificates!CertServerIDs, Certificates!Exists
    <3>2. k # i => (k \in queue \cup failed => k \in queue' \cup failed')
          BY <1>1, <1>2
    <3> QED BY <1>1, <2>1, <3>1, <3>2 DEF CertsInv, Awaited
  <2>2. CASE k = i /\ ~Dangling(i) /\ running'[k] = p
    <3>1. p # None => p.crt = cert[p.cert].crt /\ p.crt \in Nat
          BY <1>3, <2>2 DEF p, Presented
    <3>2. p # None => ~(p.crt < cert[p.cert].crt)
          BY <3>1
    <3> QED BY <1>1, <2>2, <3>2 DEF Awaited, Outdated
  <2> QED BY <1>4, <2>1, <2>2
<1> QED BY <1>6, <1>7, <1>8, <1>9 DEF CertsInv

LEMMA RestartKeepsCerts ==
  ASSUME CertsInv, Certificates!PanelRestarts PROVE CertsInv'
<1>1. /\ job' = [j \in Jobs |-> Certificates!Idle] /\ queue' = Presenters
      /\ UNCHANGED <<issues, disk, cert, profile, inbound, running, failed, reverted>>
      BY DEF Certificates!PanelRestarts
<1>2. CertsTyped'
      BY <1>1 DEF CertsInv, CertsTyped, AnyJob
<1>3. Paired' /\ Unnamed'
      BY <1>1 DEF CertsInv, Paired, Certificates!Exists, Certificates!Idle, Unnamed, Rightful
<1> QED BY <1>1, <1>2, <1>3, AllAsked DEF CertsInv

LEMMA CertsStep == ASSUME CertsSane, CertsInv, [Certificates!Next]_(Certificates!vars) PROVE CertsInv'
<1>1. CASE UNCHANGED Certificates!vars
  <2>1. UNCHANGED <<issues, disk, cert, profile, inbound, running, queue, failed, reverted, job>>
        BY <1>1 DEF Certificates!vars
  <2> QED BY <2>1 DEF CertsInv, CertsTyped, Paired, Certificates!Exists, Unnamed, Rightful, Awaited, Outdated, Certificates!CertServerIDs
<1>2. ASSUME NEW j \in Jobs,
             \/ Certificates!CertAcme(j) \/ Certificates!RenewDueCerts(j) \/ Certificates!CertRenew(j) \/ Certificates!Issue(j) \/ Certificates!Renew(j) \/ Certificates!Install(j)
             \/ Certificates!ReadCrt(j) \/ Certificates!ReadKey(j) \/ Certificates!SaveCert(j) \/ Certificates!PushCertServers(j)
             \/ Certificates!UpdateCertRead(j) \/ Certificates!UpdateCert(j) \/ Certificates!CountCertRefs(j) \/ Certificates!DeleteCert(j)
             \/ Certificates!SaveCertTlsCheck(j) \/ Certificates!SaveSbTls(j)
      PROVE  CertsInv'
      BY <1>2, RequestsBegin, IssueKeeps, SaveKeeps, PushKeeps, EditKeeps, DeleteCertKeeps, SaveTlsKeeps
<1>3. CASE Certificates!CreateRealityTls \/ Certificates!QuickSelfSignedTls \/ Certificates!UpdateRealityTls \/ Certificates!DeleteSbTls \/ Certificates!SaveSbInbound
      BY <1>3, ProfilesKeep DEF Certificates!CreateRealityTls, Certificates!QuickSelfSignedTls
<1> QED BY <1>1, <1>2, <1>3, ImportKeeps, RebuildKeeps, RestartKeepsCerts DEF Certificates!Next

LEMMA CertsInvArrives == CertsInv => Certificates!RenewalsArrive
  BY DEF CertsInv, Paired, Awaited, Outdated, Certificates!RenewalsArrive

\* A machine presents a certificate with its own key, and one whose stored certificate is newer
\* is about to be rebuilt or on record as failed, however issues, renewals, imports and
\* rebuilds overlap, for any certificates, profiles, inbounds and requests.
THEOREM CertificatesArrive == Spec => []RenewalsArrive
<1> DEFINE Inv == scenario = "certificates" => CertsInv
<1>1. Init => Inv
      BY CertsInit, NetworkIsSane DEF Init
<1>2. Inv /\ [Next]_vars => Inv'
  <2> SUFFICES ASSUME Inv, [Next]_vars, scenario = "certificates"
               PROVE  CertsInv'
      BY DEF Next, vars
  <2>1. [Certificates!Next]_(Certificates!vars)
        BY DEF Next, vars, Certificates!vars, certificatesOnly
  <2> QED BY <2>1, CertsStep, NetworkIsSane
<1>3. Inv => RenewalsArrive
      BY CertsInvArrives, NetworkIsSane DEF RenewalsArrive
<1> QED BY <1>1, <1>2, <1>3, PTL DEF Spec
-----------------------------------------------------------------------------
(* Node software                                                             *)
Keys == {"k1", "k2"}
ServerRow == [host : Hosts, pin : Keys \cup {None}, token : Nat \cup {None}, enabled : BOOLEAN,
              bin : NodeSoftware!Places \cup {None}]
Box == [version : Nat, at : NodeSoftware!Places \cup {None}]
Probe == [bin : BOOLEAN, env : Nat \cup {None}, run : Nat \cup {None}]
Machine == [key : Keys, box : Box, probe : Probe]
ProbeJob == [at : {"dial", "install", "env", "restart", "done"}, cfg : ServerRow, ok : BOOLEAN]
BoxJob == [at : {"run", "done"}, cfg : ServerRow, ok : BOOLEAN]

SoftwareTyped ==
  /\ row \in ServerRow /\ form \in ServerRow \cup {None} /\ minted \in Nat
  /\ machines \in [Hosts -> Machine]
  /\ probing \in ProbeJob \cup {NodeSoftware!Idle} /\ upgrade \in BoxJob \cup {NodeSoftware!Idle}

\* The row that goes with the last success, and the machine it was about
Reporting ==
  installed # None =>
    /\ row.enabled /\ row.host = installed /\ row.token # None
    /\ machines[installed].probe.run = row.token /\ machines[installed].probe.env = row.token

\* The token an installation hands out: the row's as long as a success stands; a binary the
\* job put there starts with it
Installing ==
  probing # NodeSoftware!Idle =>
    /\ probing.cfg.token # None
    /\ installed # None => probing.cfg.token = row.token
    /\ probing.at # "done" => ~probing.ok
    /\ LET p == machines[probing.cfg.host].probe
       IN  /\ probing.at = "restart" /\ p.bin => p.env = probing.cfg.token
           /\ probing.ok /\ p.bin => p.run = probing.cfg.token /\ p.env = probing.cfg.token

SoftwareInv == SoftwareTyped /\ Reporting /\ Installing
-----------------------------------------------------------------------------
LEMMA SoftwareInit == NodeSoftware!Init => SoftwareInv
<1> SUFFICES ASSUME NodeSoftware!Init PROVE SoftwareInv
    OBVIOUS
<1>1. /\ minted = 0 /\ probing = NodeSoftware!Idle /\ upgrade = NodeSoftware!Idle /\ form = None /\ installed = None
      BY DEF NodeSoftware!Init
<1>2. row \in ServerRow
      BY DEF NodeSoftware!Init, ServerRow
<1>3. machines \in [Hosts -> Machine]
  <2>1. [key |-> "k1", box |-> [version |-> 1, at |-> "stock"],
         probe |-> [bin |-> FALSE, env |-> None, run |-> None]] \in Machine
        BY DEF Machine, Box, Probe, Keys, NodeSoftware!Places
  <2> QED BY <2>1 DEF NodeSoftware!Init
<1> QED BY <1>1, <1>2, <1>3 DEF SoftwareInv, SoftwareTyped, Reporting, Installing

\* The row keeps what the property reads of it
Repinned ==
  row' \in ServerRow /\ row'.host = row.host /\ row'.token = row.token /\ row'.enabled = row.enabled

LEMMA PinIsKept ==
  ASSUME SoftwareTyped, NEW cfg \in ServerRow, row' = NodeSoftware!Pinned(cfg) PROVE Repinned
<1>1. machines[cfg.host].key \in Keys
      BY DEF SoftwareTyped, ServerRow, Machine
<1>2. row' = row \/ row' = [row EXCEPT !.pin = machines[cfg.host].key]
      BY DEF NodeSoftware!Pinned
<1> QED BY <1>1, <1>2 DEF Repinned, SoftwareTyped, ServerRow

LEMMA FailureKeepsRow ==
  ASSUME SoftwareTyped, NEW cfg \in ServerRow, NodeSoftware!Failed(cfg),
         cfg.host = row.host, cfg.token = row.token, cfg.enabled = row.enabled
  PROVE  Repinned
<1>1. CASE row' = cfg
      BY <1>1 DEF Repinned
<1>2. CASE row' = NodeSoftware!Pinned(cfg)
      BY <1>2, PinIsKept
<1> QED BY <1>1, <1>2 DEF NodeSoftware!Failed

\* A step that leaves the probes, the installation and its answer alone
LEMMA ProbesStay ==
  ASSUME SoftwareInv, Repinned, machines' \in [Hosts -> Machine],
         \A h \in Hosts : machines'[h].probe = machines[h].probe,
         UNCHANGED <<probing, installed, minted>>, form' \in ServerRow \cup {None}, upgrade' \in BoxJob \cup {NodeSoftware!Idle}
  PROVE  SoftwareInv'
<1>1. SoftwareTyped'
      BY DEF SoftwareInv, SoftwareTyped, Repinned
<1>2. probing # NodeSoftware!Idle => probing.cfg.host \in Hosts
      BY DEF SoftwareInv, SoftwareTyped, ProbeJob, ServerRow
<1>3. installed # None => installed \in Hosts
      BY DEF SoftwareInv, SoftwareTyped, Reporting, ServerRow
<1>4. Reporting'
      BY <1>3 DEF SoftwareInv, Reporting, Repinned
<1>5. Installing'
      BY <1>2 DEF SoftwareInv, Installing, Repinned
<1> QED BY <1>1, <1>4, <1>5 DEF SoftwareInv

LEMMA TestKeeps ==
  ASSUME SoftwareInv, NEW clear \in BOOLEAN, NodeSoftware!HandleAdminTestServer(clear) PROVE SoftwareInv'
<1> DEFINE cfg == IF clear THEN [row EXCEPT !.pin = None] ELSE row
           at == NodeSoftware!Found(cfg.host, cfg.bin)
<1>1. UNCHANGED <<machines, probing, installed, minted, form, upgrade>>
      BY DEF NodeSoftware!HandleAdminTestServer, NodeSoftware!probe
<1>2. /\ cfg \in ServerRow /\ cfg.host = row.host /\ cfg.token = row.token /\ cfg.enabled = row.enabled
      /\ row \in ServerRow
      BY DEF SoftwareInv, SoftwareTyped, ServerRow
<1>3. \/ NodeSoftware!Failed(cfg)
      \/ at # None /\ row' = [NodeSoftware!Pinned(cfg) EXCEPT !.bin = IF clear THEN @ ELSE at]
      BY DEF NodeSoftware!HandleAdminTestServer
<1>4. at \in NodeSoftware!Places \cup {None}
  <2>1. machines[cfg.host].box.at \in NodeSoftware!Places \cup {None}
        BY <1>2 DEF SoftwareInv, SoftwareTyped, Machine, Box, ServerRow
  <2> QED BY <2>1 DEF NodeSoftware!Found
<1> HIDE DEF cfg, at
<1>5. Repinned
  <2>1. CASE NodeSoftware!Failed(cfg)
        BY <1>2, <2>1, FailureKeepsRow DEF SoftwareInv
  <2>2. CASE row' = [NodeSoftware!Pinned(cfg) EXCEPT !.bin = IF clear THEN @ ELSE at]
    <3>1. /\ NodeSoftware!Pinned(cfg) \in ServerRow /\ NodeSoftware!Pinned(cfg).host = row.host /\ NodeSoftware!Pinned(cfg).token = row.token
          /\ NodeSoftware!Pinned(cfg).enabled = row.enabled
      <4>1. machines[cfg.host].key \in Keys
            BY <1>2 DEF SoftwareInv, SoftwareTyped, ServerRow, Machine
      <4> QED BY <1>2, <4>1 DEF NodeSoftware!Pinned, ServerRow
    <3> HIDE DEF NodeSoftware!Pinned
    <3>2. (IF clear THEN NodeSoftware!Pinned(cfg).bin ELSE at) \in NodeSoftware!Places \cup {None}
          BY <1>4, <3>1 DEF ServerRow
    <3> QED BY <2>2, <3>1, <3>2 DEF Repinned, ServerRow
  <2> QED BY <1>3, <2>1, <2>2
<1> QED BY <1>1, <1>5, ProbesStay DEF SoftwareInv, SoftwareTyped

LEMMA BoxJobTyped ==
  ASSUME SoftwareInv, upgrade.at # "idle"
  PROVE  upgrade \in BoxJob /\ upgrade.cfg \in ServerRow /\ upgrade.cfg.host \in Hosts
<1>1. upgrade \in BoxJob
      BY DEF SoftwareInv, SoftwareTyped, NodeSoftware!Idle
<1> QED BY <1>1 DEF BoxJob, ServerRow

LEMMA SoftwareStepsKeep ==
  ASSUME SoftwareInv,
         \/ NodeSoftware!ReadForUpdate \/ NodeSoftware!StatsSupported \/ NodeSoftware!HandleAdminNodeSingboxUpgrade \/ NodeSoftware!UpgradeSingBox
         \/ NodeSoftware!UpgradeFails \/ NodeSoftware!FinishUpgrade \/ NodeSoftware!RefreshVersions
         \/ \E h \in Hosts, at \in NodeSoftware!Places : NodeSoftware!ReplaceBinary(h, at)
  PROVE  SoftwareInv'
<1>1. UNCHANGED <<probing, installed, minted>>
      BY DEF NodeSoftware!ReadForUpdate, NodeSoftware!StatsSupported, NodeSoftware!HandleAdminNodeSingboxUpgrade, NodeSoftware!UpgradeSingBox, NodeSoftware!UpgradeFails,
             NodeSoftware!FinishUpgrade, NodeSoftware!RefreshVersions, NodeSoftware!ReplaceBinary, NodeSoftware!probe
<1>2. form' \in ServerRow \cup {None}
      BY DEF NodeSoftware!ReadForUpdate, NodeSoftware!StatsSupported, NodeSoftware!HandleAdminNodeSingboxUpgrade, NodeSoftware!UpgradeSingBox, NodeSoftware!UpgradeFails,
             NodeSoftware!FinishUpgrade, NodeSoftware!RefreshVersions, NodeSoftware!ReplaceBinary, SoftwareInv, SoftwareTyped
<1>3. upgrade' \in BoxJob \cup {NodeSoftware!Idle}
  <2>1. CASE NodeSoftware!HandleAdminNodeSingboxUpgrade
        BY <2>1 DEF NodeSoftware!HandleAdminNodeSingboxUpgrade, BoxJob, SoftwareInv, SoftwareTyped
  <2>2. CASE NodeSoftware!UpgradeSingBox \/ NodeSoftware!UpgradeFails
    <3>1. upgrade.at = "run"
          BY <2>2 DEF NodeSoftware!UpgradeSingBox, NodeSoftware!UpgradeFails
    <3>2. upgrade \in BoxJob
          BY <3>1, BoxJobTyped
    <3> QED BY <2>2, <3>2 DEF NodeSoftware!UpgradeSingBox, NodeSoftware!UpgradeFails, BoxJob
  <2>3. CASE NodeSoftware!FinishUpgrade
        BY <2>3 DEF NodeSoftware!FinishUpgrade
  <2>4. CASE UNCHANGED upgrade
        BY <2>4 DEF SoftwareInv, SoftwareTyped
  <2> QED BY <2>1, <2>2, <2>3, <2>4 DEF NodeSoftware!ReadForUpdate, NodeSoftware!StatsSupported, NodeSoftware!RefreshVersions, NodeSoftware!ReplaceBinary, NodeSoftware!software
<1>4. /\ machines' \in [Hosts -> Machine]
      /\ \A h \in Hosts : machines'[h].probe = machines[h].probe
  <2>1. ASSUME NEW h \in Hosts, NEW b \in Box, NodeSoftware!OnMachine(h, [machines[h] EXCEPT !.box = b])
        PROVE  /\ machines' \in [Hosts -> Machine]
               /\ \A k \in Hosts : machines'[k].probe = machines[k].probe
    <3>1. machines[h] \in Machine
          BY DEF SoftwareInv, SoftwareTyped
    <3>2. [machines[h] EXCEPT !.box = b] \in Machine /\ [machines[h] EXCEPT !.box = b].probe = machines[h].probe
          BY <3>1 DEF Machine
    <3> QED BY <2>1, <3>2 DEF NodeSoftware!OnMachine, SoftwareInv, SoftwareTyped
  <2>2. CASE \E h \in Hosts, at \in NodeSoftware!Places : NodeSoftware!ReplaceBinary(h, at)
    <3>1. \A at \in NodeSoftware!Places : [version |-> 2, at |-> at] \in Box
          BY DEF Box
    <3> QED BY <2>1, <2>2, <3>1 DEF NodeSoftware!ReplaceBinary
  <2>3. CASE NodeSoftware!UpgradeSingBox
    <3> upgrade.at = "run"
        BY <2>3 DEF NodeSoftware!UpgradeSingBox
    <3>1. upgrade.cfg.host \in Hosts
          BY BoxJobTyped
    <3>2. [version |-> 1, at |-> "stock"] \in Box
          BY DEF Box, NodeSoftware!Places
    <3> QED BY <2>1, <2>3, <3>1, <3>2 DEF NodeSoftware!UpgradeSingBox
  <2>4. CASE UNCHANGED machines
        BY <2>4 DEF SoftwareInv, SoftwareTyped
  <2> QED BY <2>2, <2>3, <2>4 DEF NodeSoftware!ReadForUpdate, NodeSoftware!StatsSupported, NodeSoftware!HandleAdminNodeSingboxUpgrade, NodeSoftware!UpgradeFails,
             NodeSoftware!FinishUpgrade, NodeSoftware!RefreshVersions
<1>5. Repinned
  <2>1. CASE NodeSoftware!StatsSupported
        BY <2>1, PinIsKept, FailureKeepsRow DEF NodeSoftware!StatsSupported, SoftwareInv, SoftwareTyped
  <2>2. CASE NodeSoftware!UpgradeSingBox
    <3> upgrade.at = "run"
        BY <2>2 DEF NodeSoftware!UpgradeSingBox
    <3>1. upgrade.cfg \in ServerRow
          BY BoxJobTyped
    <3> QED BY <2>2, <3>1, PinIsKept DEF NodeSoftware!UpgradeSingBox, SoftwareInv
  <2>3. CASE UNCHANGED row
        BY <2>3 DEF SoftwareInv, SoftwareTyped, Repinned
  <2> QED BY <2>1, <2>2, <2>3 DEF NodeSoftware!ReadForUpdate, NodeSoftware!HandleAdminNodeSingboxUpgrade, NodeSoftware!UpgradeFails,
             NodeSoftware!FinishUpgrade, NodeSoftware!RefreshVersions, NodeSoftware!ReplaceBinary
<1> QED BY <1>1, <1>2, <1>3, <1>4, <1>5, ProbesStay

LEMMA UpdateKeeps ==
  ASSUME SoftwareInv, NEW h \in Hosts, NodeSoftware!UpdateServer(h) PROVE SoftwareInv'
<1>1. /\ form # None /\ form' = None
      /\ row' = [form EXCEPT !.host = h, !.pin = IF h # form.host THEN None ELSE row.pin]
      /\ installed' = IF h # row.host \/ form.token # row.token \/ form.enabled # row.enabled THEN None ELSE installed
      /\ UNCHANGED <<machines, minted, probing, upgrade>>
      BY DEF NodeSoftware!UpdateServer, NodeSoftware!software
<1>2. form \in ServerRow /\ row.pin \in Keys \cup {None}
      BY <1>1 DEF SoftwareInv, SoftwareTyped, ServerRow
<1>3. row' \in ServerRow /\ row'.host = h /\ row'.token = form.token /\ row'.enabled = form.enabled
  <2>1. (IF h # form.host THEN None ELSE row.pin) \in Keys \cup {None}
        BY <1>2
  <2> QED BY <1>1, <1>2, <2>1 DEF ServerRow
<1>4. SoftwareTyped'
      BY <1>1, <1>3 DEF SoftwareInv, SoftwareTyped
<1>5. installed' # None => /\ installed' = installed /\ row'.host = row.host /\ row'.token = row.token
                           /\ row'.enabled = row.enabled
      BY <1>1, <1>3
<1>6. Reporting'
      BY <1>1, <1>5 DEF SoftwareInv, Reporting
<1>7. Installing'
      BY <1>1, <1>5 DEF SoftwareInv, Installing
<1> QED BY <1>4, <1>6, <1>7 DEF SoftwareInv

LEMMA ReinstallKeeps ==
  ASSUME SoftwareInv, NEW h \in Hosts, NodeSoftware!Reinstall(h) PROVE SoftwareInv'
<1> DEFINE m == [key |-> IF machines[h].key = "k1" THEN "k2" ELSE "k1", box |-> [version |-> 0, at |-> None],
                 probe |-> [bin |-> FALSE, env |-> None, run |-> None]]
<1>1. /\ machines' = [machines EXCEPT ![h] = m] /\ installed' = (IF installed = h THEN None ELSE installed)
      /\ UNCHANGED <<row, minted, probing, upgrade, form>>
      BY DEF NodeSoftware!Reinstall, NodeSoftware!OnMachine, NodeSoftware!software
<1>2. m \in Machine /\ ~m.probe.bin
      BY DEF Machine, Keys, Box, Probe
<1> HIDE DEF m
<1>3. \A k \in Hosts : machines'[k] = IF k = h THEN m ELSE machines[k]
      BY <1>1 DEF SoftwareInv, SoftwareTyped
<1>4. SoftwareTyped'
      BY <1>1, <1>2 DEF SoftwareInv, SoftwareTyped
<1>5. installed # None => installed \in Hosts
      BY DEF SoftwareInv, SoftwareTyped, Reporting, ServerRow
<1>6. Reporting'
      BY <1>1, <1>3, <1>5 DEF SoftwareInv, Reporting
<1>7. probing # NodeSoftware!Idle => probing.cfg.host \in Hosts
      BY DEF SoftwareInv, SoftwareTyped, ProbeJob, ServerRow
<1>8. Installing'
      BY <1>1, <1>2, <1>3, <1>7 DEF SoftwareInv, Installing
<1> QED BY <1>4, <1>6, <1>8 DEF SoftwareInv

LEMMA ClickKeeps ==
  ASSUME SoftwareSane, SoftwareInv, NodeSoftware!HandleAdminProbeUpgrade PROVE SoftwareInv'
<1>1. /\ probing.at = "idle" /\ minted' = (IF row.token = None THEN minted + 1 ELSE minted)
      /\ row' = [row EXCEPT !.token = IF @ = None THEN minted' ELSE @, !.enabled = TRUE]
      /\ probing' = [at |-> "dial", cfg |-> row', ok |-> FALSE]
      /\ UNCHANGED <<machines, upgrade, form, installed>>
      BY DEF NodeSoftware!HandleAdminProbeUpgrade, NodeSoftware!software
<1>2. row \in ServerRow /\ minted' \in Nat /\ minted' # None
      BY <1>1 DEF SoftwareInv, SoftwareTyped, SoftwareSane
<1>3. /\ row' \in ServerRow /\ row'.token # None /\ row'.enabled /\ row'.host = row.host
      /\ row.token # None => row'.token = row.token
  <2>1. (IF row.token = None THEN minted' ELSE row.token) \in Nat \cup {None}
        BY <1>2 DEF ServerRow
  <2> QED BY <1>1, <1>2, <2>1 DEF ServerRow
<1>4. probing' \in ProbeJob /\ probing'.cfg = row' /\ probing'.at = "dial" /\ ~probing'.ok
      BY <1>1, <1>3 DEF ProbeJob
<1>5. SoftwareTyped'
      BY <1>1, <1>2, <1>3, <1>4 DEF SoftwareInv, SoftwareTyped
<1>6. Reporting'
      BY <1>1, <1>3 DEF SoftwareInv, Reporting
<1>7. Installing'
      BY <1>1, <1>3, <1>4 DEF SoftwareInv, Installing
<1> QED BY <1>5, <1>6, <1>7 DEF SoftwareInv

LEMMA ProbeJobTyped ==
  ASSUME SoftwareInv, probing.at # "idle"
  PROVE  /\ probing \in ProbeJob /\ probing # NodeSoftware!Idle /\ probing.cfg \in ServerRow /\ probing.cfg.host \in Hosts
         /\ probing.cfg.token \in Nat \cup {None}
<1>1. probing \in ProbeJob /\ probing # NodeSoftware!Idle
      BY DEF SoftwareInv, SoftwareTyped, NodeSoftware!Idle
<1> QED BY <1>1 DEF ProbeJob, ServerRow

LEMMA DialKeeps ==
  ASSUME SoftwareInv, NodeSoftware!DialForProbe PROVE SoftwareInv'
<1>1. /\ probing.at = "dial" /\ row' = NodeSoftware!Pinned(probing.cfg)
      /\ probing' = [probing EXCEPT !.at = "install", !.cfg.pin = machines[probing.cfg.host].key]
      /\ UNCHANGED <<minted, machines, upgrade, form, installed>>
      BY DEF NodeSoftware!DialForProbe, NodeSoftware!software
<1>2. /\ probing \in ProbeJob /\ probing # NodeSoftware!Idle /\ probing.cfg \in ServerRow /\ probing.cfg.host \in Hosts
      BY <1>1, ProbeJobTyped
<1>3. Repinned
      BY <1>1, <1>2, PinIsKept DEF SoftwareInv
<1>4. machines[probing.cfg.host].key \in Keys
      BY <1>2 DEF SoftwareInv, SoftwareTyped, Machine
<1>5. /\ probing' \in ProbeJob /\ probing'.at = "install" /\ probing'.ok = probing.ok
      /\ probing'.cfg.token = probing.cfg.token /\ probing'.cfg.host = probing.cfg.host
  <2> DEFINE c == [probing.cfg EXCEPT !.pin = machines[probing.cfg.host].key]
  <2>1. c \in ServerRow /\ c.token = probing.cfg.token /\ c.host = probing.cfg.host
        BY <1>2, <1>4 DEF ServerRow
  <2>2. probing' = [probing EXCEPT !.at = "install", !.cfg = c]
        BY <1>1, <1>2 DEF ProbeJob
  <2> HIDE DEF c
  <2> QED BY <1>2, <2>1, <2>2 DEF ProbeJob
<1>6. SoftwareTyped'
      BY <1>1, <1>3, <1>5 DEF SoftwareInv, SoftwareTyped, Repinned
<1>7. Reporting'
      BY <1>1, <1>3 DEF SoftwareInv, Reporting, Repinned
<1>8. Installing'
      BY <1>1, <1>2, <1>3, <1>5 DEF SoftwareInv, Installing, Repinned
<1> QED BY <1>6, <1>7, <1>8 DEF SoftwareInv

\* A step of the installation that changes only the probe of the machine it works on
LEMMA ProbeChanges ==
  ASSUME SoftwareInv, probing.at # "idle", NEW p \in Probe,
         NodeSoftware!OnMachine(probing.cfg.host, [machines[probing.cfg.host] EXCEPT !.probe = p])
  PROVE  /\ machines' \in [Hosts -> Machine] /\ machines'[probing.cfg.host].probe = p
         /\ \A h \in Hosts \ {probing.cfg.host} : machines'[h] = machines[h]
<1> DEFINE h == probing.cfg.host
           m == [machines[h] EXCEPT !.probe = p]
<1>1. h \in Hosts
      BY ProbeJobTyped
<1>2. machines[h] \in Machine /\ machines \in [Hosts -> Machine]
      BY <1>1 DEF SoftwareInv, SoftwareTyped
<1>3. m \in Machine /\ m.probe = p
      BY <1>2 DEF Machine
<1>4. machines' = [machines EXCEPT ![h] = m]
      BY DEF NodeSoftware!OnMachine
<1> HIDE DEF m, h
<1>5. machines' \in [Hosts -> Machine] /\ machines'[h] = m /\ \A k \in Hosts \ {h} : machines'[k] = machines[k]
      BY <1>1, <1>2, <1>3, <1>4
<1> QED BY <1>3, <1>5 DEF h

LEMMA InstallKeeps ==
  ASSUME SoftwareInv, NodeSoftware!InstallProbe PROVE SoftwareInv'
<1> DEFINE h == probing.cfg.host
           p == machines[h].probe
<1>1. probing.at \in {"install", "env", "restart"} /\ UNCHANGED <<row, minted, upgrade, form, installed>>
      BY DEF NodeSoftware!InstallProbe, NodeSoftware!software
<1>2. /\ probing \in ProbeJob /\ probing # NodeSoftware!Idle /\ h \in Hosts
      /\ probing.cfg.token \in Nat \cup {None} /\ ~probing.ok
      /\ probing.cfg.token # None /\ (installed # None => probing.cfg.token = row.token)
      BY <1>1, ProbeJobTyped DEF SoftwareInv, Installing
<1>3. p \in Probe
      BY <1>2 DEF SoftwareInv, SoftwareTyped, Machine
<1>4. installed # None => /\ installed \in Hosts /\ row.enabled /\ row.host = installed /\ row.token # None
                          /\ machines[installed].probe.run = row.token /\ machines[installed].probe.env = row.token
      BY DEF SoftwareInv, SoftwareTyped, Reporting, ServerRow
<1>5. CASE probing.at = "install"
  <2> DEFINE q == [p EXCEPT !.bin = TRUE]
  <2>1. q \in Probe /\ q.run = p.run /\ q.env = p.env
        BY <1>3 DEF Probe
  <2>2. NodeSoftware!OnMachine(h, [machines[h] EXCEPT !.probe = q]) /\ probing' = [probing EXCEPT !.at = "env"]
    <3>1. NodeSoftware!OnMachine(h, [machines[h] EXCEPT !.probe.bin = TRUE]) /\ probing' = [probing EXCEPT !.at = "env"]
          BY <1>5 DEF NodeSoftware!InstallProbe
    <3>2. machines[h] \in Machine
          BY <1>2 DEF SoftwareInv, SoftwareTyped
    <3> QED BY <3>1, <3>2 DEF Machine
  <2> HIDE DEF q
  <2>3. /\ machines' \in [Hosts -> Machine] /\ machines'[h].probe = q
        /\ \A k \in Hosts \ {h} : machines'[k] = machines[k]
        BY <1>1, <2>1, <2>2, ProbeChanges
  <2>4. /\ probing' \in ProbeJob /\ probing'.at = "env" /\ ~probing'.ok /\ probing'.cfg = probing.cfg
        BY <1>2, <2>2 DEF ProbeJob
  <2> HIDE DEF p, h
  <2>5. SoftwareTyped'
        BY <1>1, <2>3, <2>4 DEF SoftwareInv, SoftwareTyped
  <2>6. Reporting'
        BY <1>1, <1>4, <2>1, <2>3 DEF Reporting, p
  <2>7. Installing'
        BY <1>1, <1>2, <2>4 DEF Installing
  <2> QED BY <2>5, <2>6, <2>7 DEF SoftwareInv
<1>6. CASE probing.at = "env"
  <2> DEFINE q == [p EXCEPT !.env = probing.cfg.token]
  <2>1. q \in Probe /\ q.run = p.run /\ q.env = probing.cfg.token
        BY <1>2, <1>3 DEF Probe
  <2>2. NodeSoftware!OnMachine(h, [machines[h] EXCEPT !.probe = q]) /\ probing' = [probing EXCEPT !.at = "restart"]
    <3>1. NodeSoftware!OnMachine(h, [machines[h] EXCEPT !.probe.env = probing.cfg.token]) /\ probing' = [probing EXCEPT !.at = "restart"]
          BY <1>6 DEF NodeSoftware!InstallProbe
    <3>2. machines[h] \in Machine
          BY <1>2 DEF SoftwareInv, SoftwareTyped
    <3> QED BY <3>1, <3>2 DEF Machine
  <2> HIDE DEF q
  <2>3. /\ machines' \in [Hosts -> Machine] /\ machines'[h].probe = q
        /\ \A k \in Hosts \ {h} : machines'[k] = machines[k]
        BY <1>1, <2>1, <2>2, ProbeChanges
  <2>4. /\ probing' \in ProbeJob /\ probing'.at = "restart" /\ ~probing'.ok /\ probing'.cfg = probing.cfg
        BY <1>2, <2>2 DEF ProbeJob
  <2>5. probing'.cfg.host = h
        BY <2>4
  <2> HIDE DEF p, h
  <2>6. SoftwareTyped'
        BY <1>1, <2>3, <2>4 DEF SoftwareInv, SoftwareTyped
  <2>7. Reporting'
        BY <1>1, <1>2, <1>4, <2>1, <2>3 DEF Reporting, p
  <2>8. Installing'
        BY <1>1, <1>2, <2>1, <2>3, <2>4, <2>5 DEF Installing
  <2> QED BY <2>6, <2>7, <2>8 DEF SoftwareInv
<1>7. CASE probing.at = "restart"
  <2> DEFINE q == [p EXCEPT !.run = p.env]
  <2>1. q \in Probe /\ q.run = p.env /\ q.env = p.env
        BY <1>3 DEF Probe
  <2>2. NodeSoftware!OnMachine(h, [machines[h] EXCEPT !.probe = q]) /\ probing' = [probing EXCEPT !.at = "done", !.ok = TRUE] /\ p.bin
    <3>1. /\ NodeSoftware!OnMachine(h, [machines[h] EXCEPT !.probe.run = machines[h].probe.env])
          /\ probing' = [probing EXCEPT !.at = "done", !.ok = TRUE] /\ p.bin
          BY <1>7 DEF NodeSoftware!InstallProbe
    <3>2. machines[h] \in Machine
          BY <1>2 DEF SoftwareInv, SoftwareTyped
    <3> QED BY <3>1, <3>2 DEF Machine
  <2>3. p.env = probing.cfg.token
        BY <1>2, <1>7, <2>2 DEF SoftwareInv, Installing
  <2> HIDE DEF q
  <2>4. /\ machines' \in [Hosts -> Machine] /\ machines'[h].probe = q
        /\ \A k \in Hosts \ {h} : machines'[k] = machines[k]
        BY <1>1, <2>1, <2>2, ProbeChanges
  <2>5. /\ probing' \in ProbeJob /\ probing'.at = "done" /\ probing'.cfg = probing.cfg
        BY <1>2, <2>2 DEF ProbeJob
  <2>6. probing'.cfg.host = h
        BY <2>5
  <2> HIDE DEF p, h
  <2>7. SoftwareTyped'
        BY <1>1, <2>4, <2>5 DEF SoftwareInv, SoftwareTyped
  <2>8. Reporting'
        BY <1>1, <1>4, <2>1, <2>4 DEF Reporting, p
  <2>9. Installing'
        BY <1>1, <1>2, <2>1, <2>3, <2>4, <2>5, <2>6 DEF Installing
  <2> QED BY <2>7, <2>8, <2>9 DEF SoftwareInv
<1> QED BY <1>1, <1>5, <1>6, <1>7

LEMMA InstallFailsKeeps ==
  ASSUME SoftwareInv, NodeSoftware!InstallProbeFails PROVE SoftwareInv'
<1> DEFINE h == probing.cfg.host
           p == machines[h].probe
<1>1. /\ probing.at \in {"dial", "install", "env", "restart"} /\ UNCHANGED <<row, minted, upgrade, form>>
      /\ probing' = [probing EXCEPT !.at = "done"]
      /\ installed' = IF machines'[h].probe.run = None /\ installed = h THEN None ELSE installed
      BY DEF NodeSoftware!InstallProbeFails, NodeSoftware!software
<1>2. /\ probing \in ProbeJob /\ probing # NodeSoftware!Idle /\ h \in Hosts
      /\ probing.cfg.token \in Nat \cup {None} /\ ~probing.ok
      /\ probing.cfg.token # None /\ (installed # None => probing.cfg.token = row.token)
      BY <1>1, ProbeJobTyped DEF SoftwareInv, Installing
<1>3. p \in Probe
      BY <1>2 DEF SoftwareInv, SoftwareTyped, Machine
<1>4. installed # None => /\ installed \in Hosts /\ row.enabled /\ row.host = installed /\ row.token # None
                          /\ machines[installed].probe.run = row.token /\ machines[installed].probe.env = row.token
      BY DEF SoftwareInv, SoftwareTyped, Reporting, ServerRow
<1>5. /\ machines' \in [Hosts -> Machine]
      /\ \A k \in Hosts \ {h} : machines'[k] = machines[k]
      /\ machines'[h].probe.env = p.env /\ machines'[h].probe.run \in {p.run, None, p.env}
  <2>1. CASE UNCHANGED machines
        BY <2>1 DEF SoftwareInv, SoftwareTyped
  <2>2. CASE \E run \in {None, p.env} : NodeSoftware!OnMachine(h, [machines[h] EXCEPT !.probe.run = run])
    <3>1. PICK run \in {None, p.env} : NodeSoftware!OnMachine(h, [machines[h] EXCEPT !.probe.run = run])
          BY <2>2
    <3> DEFINE q == [p EXCEPT !.run = run]
    <3>2. q \in Probe /\ q.run = run /\ q.env = p.env
          BY <1>3 DEF Probe
    <3>3. NodeSoftware!OnMachine(h, [machines[h] EXCEPT !.probe = q])
      <4>1. machines[h] \in Machine
            BY <1>2 DEF SoftwareInv, SoftwareTyped
      <4> QED BY <3>1, <4>1 DEF Machine
    <3> HIDE DEF q
    <3>4. /\ machines' \in [Hosts -> Machine] /\ machines'[h].probe = q
          /\ \A k \in Hosts \ {h} : machines'[k] = machines[k]
          BY <1>1, <3>2, <3>3, ProbeChanges
    <3> QED BY <3>2, <3>4
  <2> QED BY <2>1, <2>2 DEF NodeSoftware!InstallProbeFails
<1>6. probing' \in ProbeJob /\ probing'.at = "done" /\ probing'.cfg = probing.cfg /\ ~probing'.ok
      BY <1>1, <1>2 DEF ProbeJob
<1> HIDE DEF p, h
<1>7. SoftwareTyped'
      BY <1>1, <1>5, <1>6 DEF SoftwareInv, SoftwareTyped
<1>8. Reporting'
      BY <1>1, <1>2, <1>4, <1>5 DEF Reporting, p
<1>9. Installing'
      BY <1>1, <1>2, <1>6 DEF Installing
<1> QED BY <1>7, <1>8, <1>9 DEF SoftwareInv

LEMMA FinishKeeps ==
  ASSUME SoftwareInv, NodeSoftware!FinishProbeUpgrade PROVE SoftwareInv'
<1> DEFINE h == probing.cfg.host
<1>1. /\ probing.at = "done" /\ probing' = NodeSoftware!Idle
      /\ UNCHANGED <<row, minted, machines, upgrade, form>>
      /\ installed' = IF ~probing.ok THEN installed
                      ELSE IF row.host = h /\ row.token = probing.cfg.token /\ row.enabled
                              /\ machines[h].key = probing.cfg.pin /\ machines[h].probe.bin
                           THEN h ELSE None
      BY DEF NodeSoftware!FinishProbeUpgrade, NodeSoftware!software
<1>2. probing \in ProbeJob /\ probing # NodeSoftware!Idle /\ h \in Hosts /\ probing.cfg.token # None
      BY <1>1, ProbeJobTyped DEF SoftwareInv, Installing
<1>3. SoftwareTyped'
      BY <1>1 DEF SoftwareInv, SoftwareTyped
<1>4. Installing'
      BY <1>1 DEF Installing
<1>5. Reporting'
  <2>1. CASE ~probing.ok
        BY <1>1, <2>1 DEF SoftwareInv, Reporting
  <2>2. CASE probing.ok
        BY <1>1, <1>2, <2>2 DEF SoftwareInv, Reporting, Installing
  <2> QED BY <2>1, <2>2
<1> QED BY <1>3, <1>4, <1>5 DEF SoftwareInv

LEMMA SoftwareRestartKeeps ==
  ASSUME SoftwareInv, NodeSoftware!Restart \/ UNCHANGED NodeSoftware!vars PROVE SoftwareInv'
<1>1. UNCHANGED <<row, minted, machines, installed>>
      BY DEF NodeSoftware!Restart, NodeSoftware!vars
<1>2. SoftwareTyped'
      BY DEF SoftwareInv, SoftwareTyped, NodeSoftware!Restart, NodeSoftware!vars
<1>3. Reporting'
      BY <1>1 DEF SoftwareInv, Reporting
<1>4. Installing'
      BY <1>1 DEF SoftwareInv, Installing, NodeSoftware!Restart, NodeSoftware!vars
<1> QED BY <1>2, <1>3, <1>4 DEF SoftwareInv

LEMMA SoftwareStep ==
  ASSUME SoftwareSane, SoftwareInv, [NodeSoftware!Next]_(NodeSoftware!vars) PROVE SoftwareInv'
<1>1. CASE \E clear \in BOOLEAN : NodeSoftware!HandleAdminTestServer(clear)
      BY <1>1, TestKeeps
<1>2. CASE \/ NodeSoftware!ReadForUpdate \/ NodeSoftware!StatsSupported \/ NodeSoftware!HandleAdminNodeSingboxUpgrade \/ NodeSoftware!UpgradeSingBox
           \/ NodeSoftware!UpgradeFails \/ NodeSoftware!FinishUpgrade \/ NodeSoftware!RefreshVersions
           \/ \E h \in Hosts, at \in NodeSoftware!Places : NodeSoftware!ReplaceBinary(h, at)
      BY <1>2, SoftwareStepsKeep
<1>3. CASE \E h \in Hosts : NodeSoftware!UpdateServer(h) \/ NodeSoftware!Reinstall(h)
      BY <1>3, UpdateKeeps, ReinstallKeeps
<1>4. CASE NodeSoftware!HandleAdminProbeUpgrade \/ NodeSoftware!DialForProbe
      BY <1>4, ClickKeeps, DialKeeps
<1>5. CASE NodeSoftware!InstallProbe \/ NodeSoftware!InstallProbeFails \/ NodeSoftware!FinishProbeUpgrade
      BY <1>5, InstallKeeps, InstallFailsKeeps, FinishKeeps
<1>6. CASE NodeSoftware!Restart \/ UNCHANGED NodeSoftware!vars
      BY <1>6, SoftwareRestartKeeps
<1> QED BY <1>1, <1>2, <1>3, <1>4, <1>5, <1>6 DEF NodeSoftware!Next

LEMMA SoftwareInvReports == SoftwareInv => NodeSoftware!InstalledProbesReport
  BY DEF SoftwareInv, Reporting, NodeSoftware!InstalledProbesReport

\* An installation the panel called a success leaves a probe that reports with the token of
\* the row, through later clicks, failed or interrupted installations and restarts
\* (HandleAdminProbeUpgrade, InstallProbe), for any hosts.
THEOREM ProbesReport == Spec => []InstalledProbesReport
<1> DEFINE Inv == scenario = "software" => SoftwareInv
<1>1. Init => Inv
      BY SoftwareInit, NetworkIsSane DEF Init
<1>2. Inv /\ [Next]_vars => Inv'
  <2> SUFFICES ASSUME Inv, [Next]_vars, scenario = "software"
               PROVE  SoftwareInv'
      BY DEF Next, vars
  <2>1. [NodeSoftware!Next]_(NodeSoftware!vars)
        BY DEF Next, vars, NodeSoftware!vars, softwareOnly
  <2> QED BY <2>1, SoftwareStep, NetworkIsSane
<1>3. Inv => InstalledProbesReport
      BY SoftwareInvReports, NetworkIsSane DEF InstalledProbesReport
<1> QED BY <1>1, <1>2, <1>3, PTL DEF Spec
=============================================================================
