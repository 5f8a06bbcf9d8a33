---------------------------- MODULE NodeFormats ----------------------------
(***************************************************************************)
(* From an entry of a subscription to a connection: what each parser of    *)
(* subscription.Service keeps of an entry, and what upstream.DialTarget,   *)
(* proxy.dialUpstream and the health check do with what was kept.          *)
(* An entry says what any format can say; "empty" is the empty string, and *)
(* one other value stands for all others.  The method of ss and the uuid   *)
(* of vless and vmess are the user.  A parser returns a set of one node,   *)
(* or none: the entry is skipped, or, in a list of lines and in a form,    *)
(* the import ends.                                                        *)
(***************************************************************************)
EXTENDS Naturals, Sequences

Formats == {"singbox", "clash", "surge", "quantumultx", "shadowrocket", "manual", "form"}
Protocols == {"http", "https", "socks", "socks5", "ss", "shadowsocks", "trojan", "vless", "vmess", "other"}

(* The name of a certificate is that of the host, or another one, "sni".   *)
(* variant: the other way in which a format can write the entry, a vmess   *)
(* link with "type": "none", credentials in a line of Surge as options,    *)
(* "password=...", a line of Quantumult X without a tag.                   *)
Entries ==
    [proto : Protocols, address : BOOLEAN, user : {"empty", "user"}, secret : {"empty", "secret"},
     tls : BOOLEAN, name : {"empty", "sni"}, network : {"empty", "tcp", "ws"},
     flow : {"empty", "vision"}, reality : BOOLEAN, variant : BOOLEAN]

Supported == Protocols \ {"https", "other"}
IsSocks(p) == p \in {"socks", "socks5"}
IsShadowsocks(p) == p \in {"ss", "shadowsocks"}
HasUuid(p) == p \in {"vless", "vmess"}

Dropped == {}
Node(protocol, user, secret, tls, name) ==
    {[protocol |-> protocol, user |-> user, secret |-> secret, tls |-> tls, name |-> name]}

OwnName(name, tls) == IF name = "empty" /\ tls THEN "host" ELSE name

-----------------------------------------------------------------------------
Singbox(e) ==
    IF e.proto \notin Supported \/ ~e.address \/ (e.proto = "vless" /\ e.network = "ws")
    THEN Dropped
    ELSE Node(e.proto, e.user, IF HasUuid(e.proto) THEN "empty" ELSE e.secret,
              e.tls \/ e.proto = "trojan", e.name)

(* A network that is not stated is read from "type", which is the protocol.*)
Clash(e) ==
    LET tls == e.tls \/ e.proto = "trojan" IN
    IF \/ e.proto \notin Supported \/ ~e.address
       \/ HasUuid(e.proto) /\ e.network # "tcp"
       \/ e.proto = "vless" /\ e.flow # "empty"
    THEN Dropped
    ELSE Node(e.proto, e.user, IF HasUuid(e.proto) THEN "empty" ELSE e.secret, tls, OwnName(e.name, tls))

(* Mistake: https is read as http.                                         *)
FaultyNormalized(p) ==
    IF p \in {"http", "https"} THEN {[protocol |-> "http", tls |-> FALSE]}
    ELSE IF IsSocks(p) THEN {[protocol |-> "socks", tls |-> FALSE]}
    ELSE IF IsShadowsocks(p) THEN {[protocol |-> "ss", tls |-> FALSE]}
    ELSE IF p \in {"trojan", "vless"} THEN {[protocol |-> p, tls |-> p = "trojan"]}
    ELSE {}

(* normalizeProxyProtocol *)
Normalized(p) ==
    IF p \in {"http", "https"} THEN {[protocol |-> "http", tls |-> p = "https"]}
    ELSE IF IsSocks(p) THEN {[protocol |-> "socks", tls |-> FALSE]}
    ELSE IF IsShadowsocks(p) THEN {[protocol |-> "ss", tls |-> FALSE]}
    ELSE IF p \in {"trojan", "vless"} THEN {[protocol |-> p, tls |-> p = "trojan"]}
    ELSE {}

(* What follows the port of a line of Surge: credentials by position, or   *)
(* as options, then the other options.  Empty parts are taken out, and what*)
(* comes where credentials are expected is kept as it is, options too; only*)
(* of ss they are read.                                                    *)
Part(text) == IF text = "empty" THEN <<>> ELSE <<text>>
Credential(e, text) == IF e.variant /\ text # "empty" THEN "option" ELSE text
SurgeParts(e) ==
    (IF e.proto = "trojan" THEN <<>> ELSE Part(Credential(e, e.user))) \o Part(Credential(e, e.secret))
        \o (IF e.name = "empty" THEN <<>> ELSE <<"option">>)

Surge(e) ==
    LET parts == SurgeParts(e)
        name == IF Len(parts) > 1 /\ \E i \in 2..Len(parts) : parts[i] = "option"
                  THEN OwnName(e.name, TRUE) ELSE "host"
        build(p) ==
            IF ~e.address \/ Len(parts) < 2 THEN Dropped
            ELSE IF p.protocol = "ss" THEN
                IF e.user = "empty" \/ e.secret = "empty" THEN Dropped
                ELSE Node("ss", e.user, e.secret, FALSE, name)
            ELSE IF p.protocol = "trojan" THEN Node("trojan", parts[1], parts[1], TRUE, name)
            ELSE Node(p.protocol, parts[1], parts[2], p.tls, name) IN
    UNION {build(p) : p \in Normalized(e.proto)}

(* Without a tag, an option is needed for the line to have two parts.      *)
Bare(e) == e.variant /\ e.user = "empty" /\ e.secret = "empty" /\ ~e.tls /\ e.name = "empty"

QuantumultX(e) ==
    LET build(p) ==
            IF \/ ~e.address \/ Bare(e)
               \/ p.protocol = "ss" /\ (e.user = "empty" \/ e.secret = "empty")
               \/ p.protocol = "trojan" /\ e.secret = "empty"
            THEN Dropped
            ELSE Node(p.protocol, e.user, e.secret, p.tls \/ e.tls, OwnName(e.name, p.tls \/ e.tls)) IN
    UNION {build(p) : p \in Normalized(e.proto)}

(* A link of each protocol has a parser of its own.                        *)
VlessLink(e) ==
    LET tls == e.tls \/ e.name # "empty" IN
    IF e.user = "empty" \/ e.network = "ws" \/ e.reality \/ e.flow # "empty" THEN Dropped
    ELSE Node("vless", e.user, "empty", tls, OwnName(e.name, tls))

VmessLink(e) ==
    IF e.user = "empty" \/ e.network = "ws" \/ e.variant THEN Dropped
    ELSE Node("vmess", e.user, "empty", e.tls, OwnName(e.name, e.tls))

ShadowsocksLink(e) ==
    IF e.user = "empty" THEN Dropped ELSE Node("ss", e.user, e.secret, FALSE, "empty")

TrojanLink(e) ==
    IF e.secret = "empty" THEN Dropped ELSE Node("trojan", "empty", e.secret, TRUE, OwnName(e.name, TRUE))

Shadowrocket(e) ==
    IF ~e.address THEN Dropped
    ELSE CASE e.proto \in {"http", "https"} -> Node("http", e.user, e.secret, e.proto = "https", "host")
           [] IsSocks(e.proto) -> Node("socks", e.user, e.secret, FALSE, "host")
           [] IsShadowsocks(e.proto) -> ShadowsocksLink(e)
           [] e.proto = "trojan" -> TrojanLink(e)
           [] e.proto = "vless" -> VlessLink(e)
           [] e.proto = "vmess" -> VmessLink(e)
           [] OTHER -> Dropped

(* A line host:port or host:port:user:password; every node is an http one. *)
Manual(e) ==
    IF ~e.address \/ (e.user = "empty") # (e.secret = "empty") THEN Dropped
    ELSE Node("http", e.user, e.secret, FALSE, "empty")

(* ImportManualNodes: the fields of a form.                                *)
Form(e) ==
    IF e.proto \notin Supported \/ ~e.address THEN Dropped
    ELSE Node(e.proto, e.user, e.secret, FALSE, "empty")

(* parseSubscriptionBody, entry by entry.                                  *)
Parse(format, e) ==
    CASE format = "singbox" -> Singbox(e)
      [] format = "clash" -> Clash(e)
      [] format = "surge" -> Surge(e)
      [] format = "quantumultx" -> QuantumultX(e)
      [] format = "shadowrocket" -> Shadowrocket(e)
      [] format = "manual" -> Manual(e)
      [] format = "form" -> Form(e)

-----------------------------------------------------------------------------
(* DialTarget refuses a node without the credentials of its protocol; what *)
(* is not a method or a uuid is refused as well.                           *)
CanDial(n) ==
    CASE IsShadowsocks(n.protocol) -> n.user = "user" /\ n.secret # "empty"
      [] n.protocol = "trojan" -> n.secret # "empty"
      [] HasUuid(n.protocol) -> n.user = "user"
      [] OTHER -> TRUE

Wire(protocol, user, secret, tls, name) ==
    [protocol |-> protocol, user |-> user, secret |-> secret,
     tls |-> tls, name |-> IF tls THEN OwnName(name, TRUE) ELSE "empty"]

(* What is used of a node: socks and ss are dialled without TLS, trojan    *)
(* with it.                                                                *)
Dialled(n) ==
    CASE IsSocks(n.protocol) -> Wire("socks", n.user, n.secret, FALSE, "empty")
      [] IsShadowsocks(n.protocol) -> Wire("ss", n.user, n.secret, FALSE, "empty")
      [] n.protocol = "trojan" -> Wire("trojan", "empty", n.secret, TRUE, n.name)
      [] HasUuid(n.protocol) -> Wire(n.protocol, n.user, "empty", n.tls, n.name)
      [] OTHER -> Wire("http", n.user, n.secret, n.tls, n.name)

(* The health check reaches an http proxy through net/http, which expects  *)
(* the certificate of the host.                                            *)
Probed(n) ==
    IF n.protocol = "http" THEN Wire("http", n.user, n.secret, n.tls, "host") ELSE Dialled(n)

(* What an entry asks for. *)
Stated(e) ==
    LET tls == e.tls \/ e.proto \in {"https", "trojan"} IN
    CASE IsSocks(e.proto) -> Wire("socks", e.user, e.secret, tls, e.name)
      [] IsShadowsocks(e.proto) -> Wire("ss", e.user, e.secret, tls, e.name)
      [] e.proto = "trojan" -> Wire("trojan", "empty", e.secret, TRUE, e.name)
      [] HasUuid(e.proto) -> Wire(e.proto, e.user, "empty", tls, e.name)
      [] OTHER -> Wire("http", e.user, e.secret, tls, e.name)

(* The entries that a format can write down.                               *)
SaysNothingOf(e, parts) ==
    /\ "tls" \in parts => ~e.tls
    /\ "name" \in parts => e.name = "empty"
    /\ "network" \in parts => e.network = "empty" /\ e.flow = "empty" /\ ~e.reality

WrittenIn(format, e) ==
    /\ e.name # "empty" => e.tls \/ e.proto \in {"https", "trojan"}
    /\ e.proto \in {"https", "trojan"} => ~e.tls
    /\ ~HasUuid(e.proto) => SaysNothingOf(e, {"network"})
    /\ e.variant => format \in {"surge", "quantumultx"} \/ (format = "shadowrocket" /\ e.proto = "vmess")
    /\ CASE format = "manual" -> e.proto = "http" /\ SaysNothingOf(e, {"tls", "name", "network"})
         [] format = "form" -> SaysNothingOf(e, {"tls", "name", "network"})
         [] format = "surge" -> SaysNothingOf(e, {"tls", "network"})
         [] format = "shadowrocket" -> ~HasUuid(e.proto) => ~e.tls /\ (e.proto = "https" => e.name = "empty")
         [] format = "quantumultx" -> TRUE
         [] format = "singbox" -> e.proto # "https" /\ e.network # "tcp"
         [] format = "clash" -> e.proto # "https"
=============================================================================
