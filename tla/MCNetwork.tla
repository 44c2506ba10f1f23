----------------------------- MODULE MCNetwork -----------------------------
(* A small instance of each part of Network:                                 *)
(*   inventory      one machine beside the panel's, a route from one to the  *)
(*                  other                                                    *)
(*   sources        two external subscriptions, two fetches at a time        *)
(*   access         two plans, a grant, a pool and the free bucket over two  *)
(*                  inbounds                                                 *)
(*   relay          one entry and one landing, two generations of link       *)
(*                  credentials                                              *)
(*   certificates   two certificates of one domain, two requests at a time   *)
(*   subscriptions  two places on offer: every protocol, transport and       *)
(*                  origin of a node                                         *)
(*   software       one row that may point at two machines                   *)
EXTENDS Network, TLC

CONSTANTS i1, i2, n1, n2, t1, t2, s1

L == INSTANCE Links

MCMaxOps == [inventory |-> 3, sources |-> 4, access |-> 3, relay |-> 2, certificates |-> 3,
             subscriptions |-> 2, software |-> 3]
-----------------------------------------------------------------------------
(* What an administrator may have drawn: a relay from the panel's machine to *)
(* the other, or two inbounds that traffic leaves from                       *)
Drawn(host, tag, up) == [server |-> host, tag |-> tag, on |-> TRUE, tls |-> None,
                         up |-> up, egress |-> None, broken |-> FALSE]

MCDrawings == {(i1 :> Drawn(Local, t1, up)) @@ (i2 :> Drawn(s1, t2, None)) : up \in {i2, None}}

(* Buckets, and the inbound nodes are entered by                             *)
MCBuckets == 1..5
MCKind == <<"plan", "plan", "grant", "pool", "free">>
MCTag == (n1 :> i1) @@ (n2 :> i1)
-----------------------------------------------------------------------------
(* What may be on offer                                                      *)

\* The options a node of the panel's own, or an entry of a Clash file, can carry
OptionsOf(proto, net, sec) ==
  {"noudp"}
    \cup (IF sec # "none" /\ proto # "ss" THEN {"sni", "insecure", "alpn"} ELSE {})
    \cup (IF proto \in L!TcpFamily THEN {"mux", "tfo"} ELSE {})
    \cup (IF net = "ws" THEN {"path", "headers", "multi", "early"} ELSE {})
    \cup (IF net = "grpc" THEN {"service"} ELSE {}) \cup (IF net = "httpupgrade" THEN {"path"} ELSE {})
    \cup (CASE proto = "vless" -> {"flow"} [] proto = "hysteria2" -> {"obfs"}
            [] proto = "hysteria" -> {"bw"} [] proto = "tuic" -> {"cc", "rtt"} [] OTHER -> {})
Ways ==
  ({"vless"} \X {"tcp", "ws"} \X {"none", "tls", "reality"}) \cup ({"vmess"} \X {"tcp", "ws"} \X {"none", "tls"})
    \cup ({"trojan"} \X {"tcp", "ws", "grpc"} \X {"tls"}) \cup ({"tuic", "hysteria2", "hysteria", "anytls"} \X {"tcp"} \X {"tls"})
    \cup {<<"ss", "tcp", "none">>, <<"trojan", "ws", "none">>, <<"trojan", "httpupgrade", "tls">>}
    \cup ({"vless", "vmess"} \X {"grpc", "httpupgrade"} \X {"tls"})
Own == {L!Node(w[1], w[2], w[3], o, "none") : w \in Ways, o \in {{"insecure"}}}
         \cup {L!Node(w[1], w[2], w[3], OptionsOf(w[1], w[2], w[3]), "none") : w \in Ways}
         \cup {L!Node("vmess", "ws", "tls", {"path", "noudp", "sni"}, "none")}
Clash == {L!Node(w[1], w[2], w[3], OptionsOf(w[1], w[2], w[3]) \ {"noudp", "tfo", "mux", "multi"}, "none") :
            w \in {w \in Ways : w[2] # "httpupgrade" /\ w # <<"trojan", "ws", "none">>}}
           \cup {L!Node("ss", "tcp", "none", {}, "method"), L!Node("anytls", "tcp", "tls", {"sni"}, "password"),
                 L!Node("hysteria", "tcp", "tls", {"obfs", "obfs-protocol", "sni"}, "none"),
                 L!Node("vless", "tcp", "tls", {"sni"}, "port")}
Shared == {L!Node("trojan", "tcp", "tls", {o}, "none") : o \in {"insecure", "allow_insecure", "allowInsecure", "mux"}}
            \cup {L!Node("hysteria", "tcp", "tls", {"peer", "obfsParam", "obfs"}, "none"),
                  L!Node("hysteria", "tcp", "tls", {"sni"}, "none"), L!Node("vless", "ws", "tls", {"path"}, "ws")}

Offer(from, nodes, name, ai, address) ==
  {[from |-> from, node |-> n, name |-> name, ai |-> ai, address |-> address] : n \in nodes}
Name(n) == <<n, 1>>
Group(n, to) == [name |-> Name(n), to |-> [i \in 1..Len(to) |-> Name(to[i])]]
Template(only, groups, rules) == [only |-> only, groups |-> groups, rules |-> rules]
To(kind, n) == [kind |-> kind, to |-> Name(n)]

MCOffers ==
  <<Offer("own", Own, "hk", FALSE, "public") \cup Offer("clash", Clash, "fixed", FALSE, "domain")
      \cup Offer("link", Shared, "h,k", TRUE, "private"),
    Offer("own", {L!Node("trojan", "tcp", "tls", {"sni"}, "none")}, "hk", TRUE, "domain")>>

MCTemplates ==
    {[clash |-> Template(FALSE, <<Group("video", <<"auto", "all">>), Group("proxy", <<"all">>), Group("video", <<"direct">>)>>,
                         <<To("cn", "direct")>>),
      singbox |-> Template(FALSE, <<Group("game", <<"all", "gone">>), Group("ai", <<"auto">>)>>, <<To("cn", "proxy")>>)],
     [clash |-> Template(TRUE, <<Group("hk", <<"all">>), Group("video", <<"hk", "all">>)>>,
                         <<To("match", "hk"), To("app", "video")>>),
      singbox |-> Template(FALSE, <<>>, <<To("lan", "direct")>>)]}

MCClean == [n \in {"hk", "h,k", "fixed", "game"} |-> IF n = "h,k" THEN "hk" ELSE n]
=============================================================================
