-------------------------------- MODULE Links --------------------------------
(* How a node is written down for each client and read back: the share link  *)
(* every subscription is made of, the link built from an entry of somebody's *)
(* Clash file, and the entry of a sing-box, Clash or Surge profile made from *)
(* a link.                                                                   *)
(*                                                                           *)
(* In every form a node is its protocol, transport and security with the set *)
(* of options written down.  Options have one name in all forms except where *)
(* the dialects disagree: a link says insecure, allowInsecure or             *)
(* allow_insecure, and peer or sni; a client's entry says insecure and sni.  *)
(* Hysteria's "obfs" is the mode in a link and the password in Clash,        *)
(* "obfsParam" the password in a link and "obfs-protocol" the mode in Clash. *)
(* A flaw is a missing server, port zero, an unknown cipher, no password or  *)
(* bad headers.                                                              *)
EXTENDS FiniteSets

CONSTANT None      \* not written, not readable, not expressible

Node(proto, net, sec, opts, flaw) ==
  [proto |-> proto, net |-> net, sec |-> sec, opts |-> opts, flaw |-> flaw]
If(condition, options) == IF condition THEN options ELSE {}
TcpFamily == {"vless", "vmess", "trojan"}
-----------------------------------------------------------------------------
(* The share link of a node of the panel's own                               *)

TuningQuery(p, allowMux) == p.opts \cap ({"tfo", "mptcp"} \cup If(allowMux, {"mux"}))

TransportQuery(p) ==
  p.opts \cap (CASE p.net = "ws" -> {"path", "host", "headers", "multi", "early"}
                 [] p.net = "httpupgrade" -> {"path", "host"}
                 [] p.net = "grpc" -> {"service"}
                 [] OTHER -> {})

\* Vision only over raw TCP with Reality, and then no multiplexing
Vision(p) == p.sec = "reality" /\ p.net = "tcp" /\ "flow" \in p.opts

VlessLink(p) ==
  TransportQuery(p) \cup {"xudp"} \cup TuningQuery(p, ~Vision(p)) \cup (p.opts \cap {"noudp"})
    \cup If(p.sec # "none", {"fp"} \cup (p.opts \cap {"sni", "alpn"}))
    \cup If(p.sec = "reality", {"pbk"}) \cup If(Vision(p), {"flow"})
    \cup If(p.sec = "tls" /\ "insecure" \in p.opts, {"allowInsecure"})

TrojanLink(p) ==
  TransportQuery(p) \cup TuningQuery(p, TRUE) \cup (p.opts \cap {"noudp"})
    \cup If(p.sec # "none", {"fp"} \cup (p.opts \cap {"sni", "alpn"})
                            \cup If("insecure" \in p.opts, {"allowInsecure"}))

TuicLink(p) == {"fp", "relay"} \cup (p.opts \cap {"insecure", "sni", "alpn", "cc", "rtt", "noudp"})

Hysteria2Link(p) == {"fp"} \cup (p.opts \cap {"insecure", "sni", "pin", "obfs", "bbr", "hop", "noudp"})

VmessLink(p) ==
  (p.opts \cap {"tfo", "mptcp", "mux", "noudp", "path", "host", "service"})
    \cup If(p.net = "ws", p.opts \cap {"headers", "multi", "early"})
    \cup If(p.sec = "tls", {"fp"} \cup (p.opts \cap {"sni", "alpn"})
                           \cup If("insecure" \in p.opts, {"insecure", "allowInsecure"}))

SsLink(p) == p.opts \cap {"noudp"}

AnytlsLink(p) == {"fp"} \cup (p.opts \cap {"sni", "insecure", "noudp"})

HysteriaLink(p) ==
  (p.opts \cap {"insecure", "bw", "alpn", "pin", "noudp"}) \cup If("sni" \in p.opts, {"peer"})

BuildShareLink(p) ==
  IF p.flaw \in {"server", "port"} \/ (p.net = "ws" /\ p.flaw = "ws") THEN None
  ELSE [p EXCEPT !.opts =
         CASE p.proto = "vless" -> VlessLink(p)
           [] p.proto = "trojan" -> TrojanLink(p)
           [] p.proto = "tuic" -> TuicLink(p)
           [] p.proto = "hysteria2" -> Hysteria2Link(p)
           [] p.proto = "vmess" -> VmessLink(p)
           [] p.proto = "ss" -> SsLink(p)
           [] p.proto = "anytls" -> AnytlsLink(p)
           [] p.proto = "hysteria" -> HysteriaLink(p)]
-----------------------------------------------------------------------------
(* The link built from an entry of a Clash file                              *)

Spelled(m, spelling) == If("insecure" \in m.opts, spelling)
ClashWSToQuery(m) == If(m.net = "ws", m.opts \cap {"path", "host", "headers", "early"})

VlessOfClash(m) ==
  (m.opts \cap {"sni", "flow", "fp", "alpn"}) \cup If(m.sec = "reality", {"pbk"})
    \cup ClashWSToQuery(m) \cup Spelled(m, {"allowInsecure"})

VmessOfClash(m) ==
  ClashWSToQuery(m)
    \cup If(m.sec = "tls", (m.opts \cap {"sni", "fp", "alpn"}) \cup Spelled(m, {"insecure", "allowInsecure"}))

TrojanOfClash(m) ==
  ClashWSToQuery(m) \cup (m.opts \cap {"alpn", "fp", "sni"}) \cup Spelled(m, {"allowInsecure"})

Hysteria2OfClash(m) == (m.opts \cap {"sni"}) \cup Spelled(m, {"insecure"})

AnytlsOfClash(m) == (m.opts \cap {"sni", "fp", "alpn"}) \cup Spelled(m, {"insecure"})

HysteriaMbps(m) == m.opts \cap {"bw"}

HysteriaOfClash(m) ==
  HysteriaMbps(m) \cup (m.opts \cap {"alpn"}) \cup Spelled(m, {"insecure"}) \cup If("sni" \in m.opts, {"peer"})
    \cup If("obfs" \in m.opts, {"obfsParam"}) \cup If("obfs-protocol" \in m.opts, {"obfs"})

TuicOfClash(m) == (m.opts \cap {"sni", "alpn", "cc"}) \cup Spelled(m, {"allow_insecure"})

ClashToLink(m) ==
  IF m.flaw = "server" \/ (m.net = "ws" /\ m.flaw = "ws") THEN None
  ELSE [m EXCEPT !.opts =
         CASE m.proto = "vless" -> VlessOfClash(m)
           [] m.proto = "vmess" -> VmessOfClash(m)
           [] m.proto = "ss" -> {}
           [] m.proto = "trojan" -> TrojanOfClash(m)
           [] m.proto = "hysteria2" -> Hysteria2OfClash(m)
           [] m.proto = "anytls" -> AnytlsOfClash(m)
           [] m.proto = "hysteria" -> HysteriaOfClash(m)
           [] m.proto = "tuic" -> TuicOfClash(m)]
-----------------------------------------------------------------------------
(* Reading a link                                                            *)

Peered(link) == IF "peer" \in link.opts THEN (link.opts \ {"peer"}) \cup {"sni"} ELSE link.opts

ParseLinkRaw(link) == IF link.proto = "hysteria" THEN [link EXCEPT !.opts = Peered(link)] ELSE link

Validate(p) ==
  /\ p.flaw \notin {"server", "port"}
  /\ p.proto = "ss" => p.flaw # "method"
  /\ p.proto = "anytls" => p.flaw # "password"
  /\ p.net = "ws" => p.flaw # "ws"

ParseLink(link) ==
  IF link # None /\ Validate(ParseLinkRaw(link)) THEN ParseLinkRaw(link) ELSE None

UdpBlocked(p) == "noudp" \in p.opts

\* Mutant: a renderer accepts the spelling its own links use and no other
InsecureAsWritten(p) == "allowInsecure" \in p.opts

TlsInsecure(p) == p.opts \cap {"insecure", "allowInsecure", "allow_insecure"} # {}

SkipVerify(p) == If(TlsInsecure(p), {"insecure"})

Tuning(p) ==
  p.opts \cap ({"tfo", "mptcp"} \cup If(~(p.proto = "vless" /\ "flow" \in p.opts), {"mux"}))
-----------------------------------------------------------------------------
(* A sing-box outbound                                                       *)

SbTLS(p) == (p.opts \cap ({"sni", "alpn", "fp"} \cup If(p.sec = "reality", {"pbk"}))) \cup SkipVerify(p)

WsOptions(p) == p.opts \cap {"path", "host", "headers", "multi", "early"}

SbTransport(p) ==
  CASE p.net = "ws" -> WsOptions(p)
    [] p.net = "grpc" -> p.opts \cap {"service"}
    [] p.net \in {"httpupgrade", "http"} -> p.opts \cap {"path", "host"}
    [] OTHER -> {}

SbSpecific(p) ==
  CASE p.proto = "vless" -> {"xudp"} \cup (p.opts \cap {"flow"}) \cup SbTransport(p)
    [] p.proto = "trojan" -> SbTransport(p)
    [] p.proto = "vmess" -> If(p.net = "ws", WsOptions(p))
    [] p.proto = "hysteria2" -> p.opts \cap {"obfs", "bbr", "hop"}
    [] p.proto = "hysteria" -> (p.opts \cap {"bw"}) \cup If("obfsParam" \in p.opts, {"obfs"})
    [] p.proto = "tuic" -> p.opts \cap {"cc", "rtt", "relay"}
    [] OTHER -> {}

SingboxOutbound(p) ==
  LET tcpOnly == If(UdpBlocked(p) /\ p.proto # "anytls", {"noudp"})
  IN  [p EXCEPT !.net = IF p.proto = "vmess" /\ @ # "ws" THEN "tcp" ELSE @,
                !.opts = SbSpecific(p) \cup tcpOnly \cup If(p.proto \in TcpFamily, Tuning(p))
                           \cup If(p.sec # "none", SbTLS(p))]
-----------------------------------------------------------------------------
(* A Clash proxy                                                             *)

\* mihomo has no plaintext trojan and one value per header
ClashExpresses(p) ==
  /\ ~(p.proto = "trojan" /\ p.sec = "none")
  /\ p.net = "ws" => "multi" \notin p.opts

ClashWS(p) == If(p.net = "ws", p.opts \cap {"path", "host", "headers", "early"})

VlessClash(p) ==
  {"udp", "xudp"} \cup (p.opts \cap {"sni", "alpn", "flow", "fp"}) \cup ClashWS(p) \cup SkipVerify(p)
    \cup If(p.sec = "reality", p.opts \cap {"pbk"})

VmessClash(p) ==
  {"udp"} \cup ClashWS(p) \cup If(p.sec = "tls", (p.opts \cap {"sni", "fp", "alpn"}) \cup SkipVerify(p))

TrojanClash(p) == {"udp"} \cup (p.opts \cap {"alpn", "fp", "sni"}) \cup ClashWS(p) \cup SkipVerify(p)

Hysteria2Clash(p) == (p.opts \cap {"sni", "obfs"}) \cup SkipVerify(p)

AnytlsClash(p) == {"udp"} \cup (p.opts \cap {"sni", "fp", "alpn"}) \cup SkipVerify(p)

\* mihomo refuses a file with a hysteria node that states no bandwidth
HysteriaClash(p) ==
  {"bw"} \cup (p.opts \cap {"sni", "alpn"}) \cup SkipVerify(p)
    \cup If("obfsParam" \in p.opts, {"obfs"}) \cup If("obfs" \in p.opts, {"obfs-protocol"})

TuicClash(p) == (p.opts \cap {"sni", "alpn", "cc", "rtt", "relay"}) \cup SkipVerify(p)

\* Reports what it cannot carry only where it would have promised it
ClashUDP(p, opts, disableUDP) ==
  IF UdpBlocked(p) THEN (opts \ {"udp", "xudp"}) \cup If("udp" \in opts, {"noudp"})
  ELSE IF disableUDP THEN opts \ {"udp", "xudp"} ELSE opts

ClashProxy(p, disableUDP) ==
  IF ~ClashExpresses(p) THEN None
  ELSE LET specific ==
             CASE p.proto = "vless" -> VlessClash(p)
               [] p.proto = "vmess" -> VmessClash(p)
               [] p.proto = "ss" -> {"udp"}
               [] p.proto = "trojan" -> TrojanClash(p)
               [] p.proto = "hysteria2" -> Hysteria2Clash(p)
               [] p.proto = "anytls" -> AnytlsClash(p)
               [] p.proto = "hysteria" -> HysteriaClash(p)
               [] p.proto = "tuic" -> TuicClash(p)
       IN [p EXCEPT !.net = IF p.proto = "trojan" /\ @ # "ws" THEN "tcp" ELSE @,
                    !.opts = ClashUDP(p, specific \cup If(p.proto \in TcpFamily, Tuning(p)), disableUDP)]
-----------------------------------------------------------------------------
(* A Surge policy                                                            *)

SurgeWSCompatible(p) ==
  /\ ~(p.proto = "trojan" /\ p.sec = "none")
  /\ p.net = "ws" /\ p.proto \in {"vmess", "trojan"} => "multi" \notin p.opts

SurgeWSParams(p) == If(p.net = "ws", p.opts \cap {"path", "host", "headers"})

SurgeUDPRelay(p) == If(UdpBlocked(p), {"noudp"})

SurgeSpecific(p) ==
  CASE p.proto = "ss" -> SurgeUDPRelay(p)
    [] p.proto = "trojan" -> SurgeWSParams(p) \cup (p.opts \cap {"sni", "alpn"}) \cup SkipVerify(p) \cup SurgeUDPRelay(p)
    [] p.proto = "vmess" -> SurgeWSParams(p) \cup If(p.sec = "tls", (p.opts \cap {"alpn", "sni"}) \cup SkipVerify(p))
    [] OTHER -> (p.opts \cap {"sni"}) \cup SkipVerify(p)

SurgeProxy(p) ==
  IF ~SurgeWSCompatible(p) \/ p.proto \notin {"ss", "trojan", "vmess", "hysteria2", "anytls"} THEN None
  ELSE [p EXCEPT !.net = IF @ = "ws" THEN @ ELSE "tcp", !.opts = SurgeSpecific(p)]
=============================================================================
