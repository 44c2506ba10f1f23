---------------------------- MODULE MCTemplates ----------------------------
(* A Clash and a sing-box template that mention the automatic group, over    *)
(* one node or two, of which the user may switch off any.                    *)
EXTENDS Subscriptions

Offer(n, name) == [from |-> "own", node |-> n, name |-> name, ai |-> FALSE, address |-> "public"]
MCDrawings ==
  <<{Offer(Node("trojan", "tcp", "tls", {"sni"}, "none"), "hk"),
     Offer(Node("trojan", "tcp", "none", {}, "none"), "hk")},
    {Offer(Node("ss", "tcp", "none", {}, "none"), "jp")}>>

Template(groups) == [only |-> FALSE, groups |-> groups, rules |-> <<Rule("lan", Name("direct"))>>]
MCSaved ==
  {[clash |-> Template(<<Group(Name("video"), <<Name("auto")>>)>>),
    singbox |-> Template(<<Group(Name("game"), <<Name("all")>>)>>)]}
MCClean == [n \in {"hk", "jp"} |-> n]
=============================================================================
