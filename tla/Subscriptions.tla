---------------------------- MODULE Subscriptions ----------------------------
(* The subscription a user's client downloads: the nodes on offer, less the  *)
(* ones the user switched off, written as a profile of the client's own      *)
(* format, with policy groups, the groups an administrator's template adds,  *)
(* and routing rules.  A profile with one bad entry is refused as a whole by *)
(* the client that loads it.                                                 *)
EXTENDS Integers, Sequences, SequencesExt, FiniteSetsExt, Links

CONSTANTS
  Slots,       \* places on offer, 1..n, each with a server of its own
  Drawings,    \* slot -> what may be on offer there
  Templates,   \* what an administrator may have saved, for Clash and for sing-box
  Clean,       \* name -> the name without the characters Surge treats as its own
  MaxOps       \* bound on what users, administrators and clients do

VARIABLES
  offered,     \* slot -> the node there
  cached,      \* the entries the panel computed for this user a moment ago, or None
  blocked,     \* the keys on the user's blocklist
  template,    \* format -> the template
  served,      \* the profile last sent
  hidden,      \* history: the slots the user switched off and not on again
  ops

vars == <<offered, cached, blocked, template, served, hidden, ops>>

Spend == ops < MaxOps /\ ops' = ops + 1
NothingServed == [format |-> "none", proxies |-> <<>>, groups |-> <<>>, rules |-> <<>>, bypass |-> {}, off |-> {}]
Name(base) == <<base, 1>>
Names(ps) == [i \in 1..Len(ps) |-> ps[i].name]
-----------------------------------------------------------------------------
(* Entries and the blocklist                                                 *)

\* An entry's link: built for a node of the panel's own or out of somebody's Clash file
LinkOf(d) ==
  CASE d.from = "own" -> BuildShareLink(d.node)
    [] d.from = "clash" -> ClashToLink(d.node)
    [] OTHER -> d.node

ComputeNodeEntries ==
  LET entry(i) == [slot |-> i, name |-> offered[i].name, ai |-> offered[i].ai, address |-> offered[i].address,
                   link |-> LinkOf(offered[i]), source |-> offered[i]]
      listed == SelectSeq([i \in 1..Cardinality(Slots) |-> i], LAMBDA i : LinkOf(offered[i]) # None)
  IN  [k \in 1..Len(listed) |-> entry(listed[k])]

VolatileParams == {"xudp", "tfo", "mptcp", "mux", "noudp"}

\* A vmess link is one encoded object, hashed whole with its name
NodeKey(e) ==
  IF e.link.proto = "vmess" THEN <<e.slot, e.link, e.name>>
  ELSE <<e.slot, [e.link EXCEPT !.opts = @ \ VolatileParams], "">>

LegacyNodeKey(e) == <<e.slot, e.link, IF e.link.proto = "vmess" THEN e.name ELSE "">>
NodeKeys(e) == {NodeKey(e), LegacyNodeKey(e)}
NodeDisabled(e) == NodeKeys(e) \cap blocked # {}
-----------------------------------------------------------------------------
(* Names and groups                                                          *)

ReservedTags == {Name(t) : t \in {"proxy", "fixed", "fallback", "ai", "auto", "direct"}}

UniqueName(base, used) == <<base, CHOOSE k \in 1..10 : <<base, k>> \notin used /\ \A j \in 1..k - 1 : <<base, j>> \in used>>

DedupeNames(ps, extra) ==
  LET add(named, p) ==
        Append(named, [p EXCEPT !.name = UniqueName(@, ReservedTags \cup extra \cup Range(Names(named)))])
  IN  FoldLeft(add, <<>>, ps)

DedupeSurgeNames(ps) == DedupeNames([i \in 1..Len(ps) |-> [ps[i] EXCEPT !.name = Clean[@]]], {})

Group(name, to) == [name |-> name, to |-> to]
AiNames(ps) == Names(SelectSeq(ps, LAMBDA p : p.ai))
AiFallbackOrder(ps) == AiNames(ps) \o Names(SelectSeq(ps, LAMBDA p : ~p.ai))
Some(condition, sequence) == IF condition THEN sequence ELSE <<>>

\* The main choice, the fixed node, the next node when one fails, and the nodes for AI
StrategyGroups(ps, aiOrder) ==
  LET all == Names(ps) IN
  <<Group(Name("proxy"), Some(all # <<>>, <<Name("fixed")>>) \o Some(Len(all) > 1, <<Name("fallback")>>) \o <<Name("direct")>>)>>
    \o Some(all # <<>>, <<Group(Name("fixed"), all)>>)
    \o Some(Len(all) > 1, <<Group(Name("fallback"), all)>>)
    \o Some(AiNames(ps) # <<>>, <<Group(Name("ai"), aiOrder)>>)

\* In place of "all" every node; in place of the old automatic group its successor
Expanded(to, names, legacy) ==
  FoldLeft(LAMBDA out, m : out \o (CASE m = Name("all") -> names
                                     [] m = Name("auto") /\ legacy # None -> <<legacy>>
                                     [] OTHER -> <<m>>), <<>>, to)

ExpandAllPlaceholder(g, names, legacy) ==
  LET out == Expanded(g.to, names, legacy) IN [g EXCEPT !.to = IF out = <<>> THEN names ELSE out]

FirstOfEachName(groups, taken) ==
  SelectSeq([i \in 1..Len(groups) |-> [g |-> groups[i], n |-> i]],
            LAMBDA x : x.g.name \notin taken /\ \A j \in 1..x.n - 1 : groups[j].name # x.g.name)

MergeClashGroups(custom, generated, names) ==
  LET kept == FirstOfEachName(custom, {generated[i].name : i \in 1..Len(generated)})
  IN  <<Head(generated)>>
        \o [i \in 1..Len(kept) |-> ExpandAllPlaceholder(kept[i].g, names, Name("fallback"))]
        \o Tail(generated)

\* References outside what is generated are dropped; with none left, the main choice
MergeSingboxSelectors(custom, names, generated) ==
  LET kept == FirstOfEachName(custom, generated)
      refs(g) == SelectSeq(Expanded(g.to, names, Name("fallback")), LAMBDA m : m \in generated)
  IN  [i \in 1..Len(kept) |->
        Group(kept[i].g.name, IF refs(kept[i].g) = <<>> THEN <<Name("proxy")>> ELSE refs(kept[i].g))]
-----------------------------------------------------------------------------
(* Profiles                                                                  *)

Rule(kind, to) == [kind |-> kind, to |-> to]
WithoutCN(rules) == SelectSeq(rules, LAMBDA r : r.kind # "cn")

ParseWithAI(entries) ==
  LET good == SelectSeq(entries, LAMBDA e : ParseLink(e.link) # None)
  IN  [i \in 1..Len(good) |-> [good[i] EXCEPT !.link = ParseLink(@)]]

\* The entries a format can write, as it writes them
Converted(entries, Convert(_)) ==
  LET good == SelectSeq(entries, LAMBDA e : Convert(e.link) # None)
  IN  [i \in 1..Len(good) |-> [good[i] EXCEPT !.link = Convert(@)]]

\* The servers kept out of the tunnel: by address, or by resolving their names outside it
Bypass(entries) == {entries[i].slot : i \in {j \in 1..Len(entries) : entries[j].address \in {"public", "domain"}}}

ApplyClashRoutingProfile(rules, profile, primary) ==
  IF profile = "legacy" THEN rules
  ELSE Append(WithoutCN(rules), Rule("cn", IF profile = "cn-direct" THEN Name("direct") ELSE primary))

ClashWithProfile(entries, tpl, profile, disableUDP) ==
  LET own == IF tpl.only THEN {tpl.groups[i].name : i \in 1..Len(tpl.groups)} ELSE {}
      kept == DedupeNames(Converted(entries, LAMBDA p : ClashProxy(p, disableUDP)), own)
      primary == IF tpl.only THEN tpl.groups[1].name ELSE Name("proxy")
      onlyGroup(g) == LET e == ExpandAllPlaceholder(g, Names(kept), None)
                      IN  IF e.to = <<>> THEN Group(g.name, <<Name("direct")>>) ELSE e
      catchAll == Some(tpl.only, SelectSeq(tpl.rules, LAMBDA r : r.kind = "match"))
      rules == ApplyClashRoutingProfile(
                 IF tpl.only THEN SelectSeq(tpl.rules, LAMBDA r : r.kind # "match") ELSE tpl.rules, profile, primary)
  IN  [ format |-> "clash", proxies |-> kept, bypass |-> Bypass(entries),
        groups |-> IF tpl.only THEN [i \in 1..Len(tpl.groups) |-> onlyGroup(tpl.groups[i])]
                   ELSE MergeClashGroups(tpl.groups, StrategyGroups(kept, AiFallbackOrder(kept)), Names(kept)),
        rules |-> Some(AiNames(kept) # <<>> /\ ~tpl.only, <<Rule("ai", Name("ai"))>>) \o rules
                    \o (IF catchAll # <<>> THEN catchAll ELSE <<Rule("match", primary)>>) ]

SingboxTemplateSelectorTags(tpl) ==
  {tpl.groups[i].name : i \in 1..Len(tpl.groups)} \ {Name(t) : t \in {"proxy", "fixed", "fallback", "direct", "all"}}

ApplySingboxRoutingProfile(rules, profile) ==
  IF profile = "legacy" THEN rules
  ELSE WithoutCN(rules) \o Some(profile = "cn-direct", <<Rule("cn", Name("direct"))>>)

SingboxWithProfile(entries, tpl, profile) ==
  LET kept == DedupeNames(Converted(entries, SingboxOutbound), SingboxTemplateSelectorTags(tpl))
      generated == {Name(t) : t \in {"proxy", "fixed", "fallback", "direct"}} \cup Range(Names(kept))
                     \cup {Name("ai") : i \in 1..Len(AiNames(kept))}
      strategy == StrategyGroups(kept, AiNames(kept))
  IN  [ format |-> "singbox", proxies |-> kept, bypass |-> Bypass(entries),
        groups |-> <<Head(strategy)>> \o MergeSingboxSelectors(tpl.groups, Names(kept), generated) \o Tail(strategy),
        rules |-> Some(AiNames(kept) # <<>>, <<Rule("ai", Name("ai"))>>)
                    \o ApplySingboxRoutingProfile(tpl.rules, profile) \o <<Rule("match", Name("proxy"))>> ]

SurgeWithProfile(entries, profile) ==
  LET kept == DedupeSurgeNames(Converted(entries, SurgeProxy))
  IN  [ format |-> "surge", proxies |-> kept, bypass |-> Bypass(entries),
        groups |-> StrategyGroups(kept, AiFallbackOrder(kept)),
        rules |-> Some(AiNames(kept) # <<>>, <<Rule("ai", Name("ai"))>>)
                    \o Some(profile # "proxy-all", <<Rule("cn", Name("direct"))>>)
                    \o <<Rule("match", Name("proxy"))>> ]

RenderWithOptions(format, links, profile, disableUDP) ==
  LET entries == ParseWithAI(links) IN
  CASE format = "clash" -> ClashWithProfile(entries, template.clash, profile, disableUDP)
    [] format = "singbox" -> SingboxWithProfile(entries, template.singbox, profile)
    [] format = "surge" -> SurgeWithProfile(entries, profile)
-----------------------------------------------------------------------------
(* What users, administrators and clients do                                 *)

Init ==
  /\ offered \in {f \in [Slots -> UNION {Drawings[i] : i \in Slots}] : \A i \in Slots : f[i] \in Drawings[i]}
  /\ template \in Templates
  /\ cached = None /\ served = NothingServed /\ ops = 0
  /\ \/ blocked = {} /\ hidden = {}
     \/ \* switched off in a release that hashed the whole link
        LET e == ComputeNodeEntries IN
        /\ e # <<>> /\ blocked = {LegacyNodeKey(e[1])} /\ hidden = {e[1].slot}

EntryAt(i) == {ComputeNodeEntries[k] : k \in {k \in 1..Len(ComputeNodeEntries) : ComputeNodeEntries[k].slot = i}}

ToggleNode(i) ==
  /\ Spend
  /\ \E e \in EntryAt(i) :
       IF NodeDisabled(e)
       THEN blocked' = blocked \ NodeKeys(e) /\ hidden' = hidden \ {i}
       ELSE blocked' = blocked \cup {NodeKey(e)} /\ hidden' = hidden \cup {i}
  /\ UNCHANGED <<offered, cached, template, served>>

EnableAllNodes ==
  /\ Spend /\ blocked # {}
  /\ blocked' = {} /\ hidden' = {}
  /\ UNCHANGED <<offered, cached, template, served>>

\* Works from the cached entries, and on those that can be read
DisableAllNodes ==
  /\ Spend /\ cached # None
  /\ LET ps == SelectSeq(cached, LAMBDA e : ParseLink(e.link) # None) IN
     /\ blocked' = blocked \cup {NodeKey(ps[k]) : k \in 1..Len(ps)}
     /\ hidden' = hidden \cup {ps[k].slot : k \in {k \in 1..Len(ps) :
                                 ps[k].link.proto # "vmess" \/ NodeKey(ps[k]) \in {NodeKey(e) : e \in EntryAt(ps[k].slot)}}}
  /\ UNCHANGED <<offered, cached, template, served>>

\* The inbound is retuned, or its exit stops carrying UDP: still the same node.  A
\* choice kept under a hash of the whole link is lost, as the code accepts
Retune(i, o) ==
  /\ Spend /\ offered[i].from = "own"
  /\ offered' = [offered EXCEPT ![i].node.opts = IF o \in @ THEN @ \ {o} ELSE @ \cup {o}]
  /\ hidden' = {h \in hidden : h # i \/ (offered[i].node.proto # "vmess"
                                         /\ \A e \in EntryAt(i) : NodeKey(e) \in blocked)}
  /\ UNCHANGED <<cached, blocked, template, served>>

CacheEntries ==
  /\ cached = None /\ cached' = ComputeNodeEntries
  /\ UNCHANGED <<offered, blocked, template, served, hidden, ops>>

InvalidateLinks ==
  /\ cached # None /\ cached' = None
  /\ UNCHANGED <<offered, blocked, template, served, hidden, ops>>

HandleSub(format, profile, disableUDP) ==
  /\ Spend /\ cached # None
  /\ served' = [off |-> hidden]
                 @@ RenderWithOptions(format, SelectSeq(cached, LAMBDA e : ~NodeDisabled(e)), profile, disableUDP)
  /\ UNCHANGED <<offered, cached, blocked, template, hidden>>

Next ==
  \/ \E i \in Slots : ToggleNode(i)
  \/ EnableAllNodes
  \/ DisableAllNodes
  \/ \E i \in Slots, o \in {"mux", "noudp"} : Retune(i, o)
  \/ CacheEntries
  \/ InvalidateLinks
  \/ \E format \in {"clash", "singbox", "surge"}, profile \in {"legacy", "cn-direct", "proxy-all"},
        disableUDP \in BOOLEAN :
       (disableUDP => format = "clash") /\ HandleSub(format, profile, disableUDP)

Spec == Init /\ [][Next]_vars
-----------------------------------------------------------------------------
(* Properties                                                                *)

\* What a source asks of whoever dials it.  A link never asks to skip verifying Reality
Asked(d) ==
  LET n == d.node
      said(o) == o \in n.opts
  IN  [ insecure |-> n.opts \cap {"insecure", "allowInsecure", "allow_insecure"} # {} /\ n.sec # "none"
                       /\ (d.from = "own" => n.sec = "tls"),
        sni |-> (said("sni") \/ said("peer")) /\ n.sec # "none",
        flow |-> said("flow") /\ n.proto = "vless" /\ (d.from = "own" => Vision(n)),
        path |-> said("path") /\ n.net \in {"ws", "httpupgrade"},
        headers |-> said("headers") /\ n.net = "ws",
        service |-> said("service") /\ n.net = "grpc",
        password |-> n.proto \in {"hysteria", "hysteria2"} /\ said(IF d.from = "link" /\ n.proto = "hysteria" THEN "obfsParam" ELSE "obfs"),
        udp |-> ~said("noudp") ]

\* The transports a format's writer carries.  The others are written as plain TCP, so that
\* the node is dialled and never answers: what comments in singbox.go (555-556, 725-730)
\* call a bug where it was mended, and what is left of it.  Surge writes WebSocket only
\* (surge.go:234), Clash no other transport of trojan (clash.go:485), sing-box no other
\* of vmess (singbox.go:537)
Carries(format, n) ==
  \/ n.net \in {"tcp", "ws"}
  \/ format = "clash" /\ n.proto # "trojan"
  \/ format = "singbox" /\ n.proto # "vmess"

\* A transport's own options: Clash writes those of WebSocket only (clash.go:647)
CarriesOptions(format, n) == Carries(format, n) /\ (format = "singbox" \/ n.net = "ws")

\* An entry says what its source asks, less what the writers and readers lose: the
\* transports and their options above; obfuscation in Surge, which has no hysteria or vless
\* at all; obfuscation and the gRPC service of an entry read out of a Clash file
Faithful(format, e) ==
  LET n == e.source.node
      a == Asked(e.source)
      options == CarriesOptions(format, n)
      fromFile == e.source.from = "clash"
      has(o) == o \in e.link.opts
  IN  /\ e.link.proto = n.proto /\ e.link.sec = n.sec
      /\ e.link.net = IF Carries(format, n) THEN n.net ELSE "tcp"
      /\ has("insecure") = a.insecure
      /\ has("sni") = a.sni \/ n.sec = "none"
      /\ has("flow") = a.flow
      /\ has("path") = (a.path /\ options)
      /\ has("headers") = (a.headers /\ options)
      /\ has("service") = (a.service /\ options /\ ~fromFile)
      /\ (format # "surge" /\ ~(fromFile /\ n.proto = "hysteria2")) => has("obfs") = a.password
      /\ has("flow") => ~has("mux")
      /\ has("udp") \/ has("xudp") => a.udp \/ format = "singbox"

Resolves(doc) ==
  LET groups == Range(doc.groups)
      known == Range(Names(doc.proxies)) \cup {g.name : g \in groups}
                 \cup {Name(b) : b \in {"direct", "reject"}}
  IN  /\ Cardinality(known) = Len(doc.proxies) + Len(doc.groups) + 2
      /\ \A g \in groups : g.to # <<>> /\ Range(g.to) \subseteq known
      /\ \A r \in Range(doc.rules) : r.to \in known
      /\ Last(doc.rules).kind = "match" /\ \A i \in 1..Len(doc.rules) - 1 : doc.rules[i].kind # "match"

Loads(doc) ==
  /\ \A i \in 1..Len(doc.proxies) :
       /\ doc.proxies[i].link.flaw \in {"none", "method", "password", "ws"}
       /\ doc.proxies[i].link.proto = "ss" => doc.proxies[i].link.flaw # "method"
       /\ doc.format = "clash" /\ doc.proxies[i].link.proto = "hysteria" => "bw" \in doc.proxies[i].link.opts
  /\ Resolves(doc)

\* A profile is one its client accepts and can use: names are unique and every group
\* and rule points at something in the profile, every node is dialled with the
\* protocol, security and options its source asks for and with its transport where
\* the format's writer carries it, servers stay out of the tunnel, and the nodes in
\* it are those the user has not switched off (subconv's renderers, parsers and
\* NodeKey; api handleSub).  Left out, because the code does lose them: transports
\* other than WebSocket in Surge, of trojan in Clash and of vmess in sing-box, which
\* are written as plain TCP, and the other losses Faithful and Carries name;
\* templates whose groups need more nodes than there are, or bear a node's name
ProfilesWork ==
  served.format # "none" =>
    /\ Loads(served) \/ Len(served.proxies) < 2
    /\ \A e \in Range(served.proxies) :
         /\ Faithful(served.format, e)
         /\ e.address \in {"public", "domain"} => e.slot \in served.bypass
         /\ e.slot \notin served.off

\* Every profile made from an administrator's template resolves, whatever the number
\* of nodes: the generated groups it may refer to exist (clash.go expandAllPlaceholder)
TemplatesResolve == served.format # "none" => Resolves(served)
=============================================================================
