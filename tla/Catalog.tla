------------------------------- MODULE Catalog -------------------------------
(***************************************************************************)
(* The case catalog (fw-verify/src/catalog.rs): the rule text of each bundle *)
(* and the cases run under it, and the rule semantics of idps-fw the catalog *)
(* counts on.  Ports keep their numbers; an address is the side it belongs   *)
(* to, or "other" for any further one.                                       *)
(***************************************************************************)
EXTENDS Integers, Sequences, FiniteSetsExt

Ip == {"peer", "target", "other"}

\* cfg.peer_slash24(): the veth pair's /24, or the peer alone for IPv6
PeerSlash24 == {"peer", "target"}

Port == 0 .. 65535
Proto == {"tcp", "udp", "icmp"}

(***************************************************************************)
(* Rule lines.  The number of a line in its text is its rule_id.             *)
(***************************************************************************)
Default(action) == [what |-> "default", chain |-> "localin", action |-> action]
App(action) == [what |-> "app", chain |-> "connect", action |-> action]

Tuple(chain, sip, sport, dip, dport, proto, action) ==
  [what |-> "tuple", chain |-> chain, sip |-> sip, sport |-> sport, dip |-> dip,
   dport |-> dport, proto |-> proto, action |-> action]

LocalIn(sip, sport, dport, proto, action) ==
  Tuple("localin", sip, sport, {"target"}, dport, proto, action)
FromPeer(port, proto, action) == LocalIn({"peer"}, Port, {port}, {proto}, action)
ToPeer(port, proto, action) ==
  Tuple("output", {"target"}, Port, {"peer"}, {port}, {proto}, action)

\* Mutant: the bundle of the match cases denies by default.
MatchByDefault == <<Default("LD"), LocalIn({"peer"}, Port, {7001}, {"tcp"}, "LD")>>

\* Bundle::MatchFields of firewall_text
MatchFields ==
  <<Default("P"),
    LocalIn({"peer"}, Port, {7001}, {"tcp"}, "LD"),
    LocalIn(PeerSlash24, Port, {7002}, {"tcp"}, "LD"),
    LocalIn(Ip, Port, 7100 .. 7110, {"tcp"}, "LD"),
    LocalIn(Ip, 8000 .. 8005, {7200}, {"udp"}, "LD"),
    LocalIn(Ip, Port, Port, {"icmp"}, "LD"),
    LocalIn(Ip, Port, {7300}, Proto, "LD")>>

FirewallText ==
  [IngressTuple |-> <<Default("P"), FromPeer(5001, "tcp", "P"), FromPeer(5002, "tcp", "LP"),
                      FromPeer(5003, "tcp", "LD"), FromPeer(5004, "tcp", "NLD")>>,
   DefaultDeny  |-> <<Default("LD"), FromPeer(5101, "tcp", "P")>>,
   DefaultAllow |-> <<Default("P")>>,
   EgressTuple  |-> <<Default("P"), ToPeer(6001, "tcp", "LD"), ToPeer(6002, "tcp", "LP"),
                      ToPeer(6003, "udp", "LD")>>,
   AppDeny      |-> <<Default("P"), App("LD")>>,
   AppAllow     |-> <<Default("P"), App("LP")>>,
   MatchFields  |-> MatchFields,
   Detection    |-> <<Default("LD")>>,
   Priority     |-> <<Default("P"), FromPeer(8001, "tcp", "P"), FromPeer(8001, "tcp", "LD"),
                      FromPeer(8002, "tcp", "P")>>,
   Traffic      |-> <<Default("P"), App("LP"), FromPeer(5301, "udp", "P")>>]

(***************************************************************************)
(* Cases: traffic is the TrafficKind with its ports and count, listen the    *)
(* set of listeners, event the kind of the expected event ("none" for None)  *)
(* and rule its rule_id (0 for None).  Of an expected event its action,      *)
(* proto, match_dport and detail are left out: the worker's verdict does not *)
(* depend on them, and the check that does is CaseRun's.  No case has a skip. *)
(***************************************************************************)
Traffic(kind, ports, count) == [kind |-> kind, ports |-> ports, count |-> count]
Tcp(port) == Traffic("Tcp", <<port>>, 1)
UdpAwait(port) == Traffic("Udp", <<port>>, 1)
Icmp == Traffic("Icmp", <<>>, 1)

\* listen: one listener to start before the traffic, on a side
Listen(side, proto, port) == {[side |-> side, proto |-> proto, port |-> port]}
Serve(port) == Listen("target", "tcp", port)
AtPeer(proto, port) == Listen("peer", proto, port)

FwCase(group, bundle, origin, listen, traffic, enforce, event, rule) ==
  [group |-> group, bundle |-> bundle, origin |-> origin, uid |-> FALSE, sport |-> 0,
   listen |-> listen, traffic |-> traffic, enforce |-> enforce, event |-> event,
   rule |-> rule]

\* A peer-side probe that expects no event.
Probe(group, bundle, listen, traffic, enforce) ==
  FwCase(group, bundle, "peer", listen, traffic, enforce, "none", 0)
Scan(kind, ports, enforce) ==
  FwCase("detection", "Detection", "peer", {}, Traffic(kind, ports, 1), enforce,
         "PortScan", 0)
AsUid(c) == [c EXCEPT !.uid = TRUE]

IngressCases ==
  <<Probe("ingress", "IngressTuple", Serve(5001), Tcp(5001), "allowed"),
    Probe("ingress", "IngressTuple", Serve(5002), Tcp(5002), "allowed"),
    Probe("ingress", "IngressTuple", {}, Tcp(5003), "blocked"),
    Probe("ingress", "IngressTuple", {}, Tcp(5004), "refused")>>

DefaultCases ==
  <<Probe("default", "DefaultDeny", {}, Tcp(5102), "blocked"),
    Probe("default", "DefaultDeny", Serve(5101), Tcp(5101), "allowed"),
    Probe("default", "DefaultAllow", Serve(5201), Tcp(5201), "allowed")>>

EgressCases ==
  <<FwCase("egress", "EgressTuple", "target", AtPeer("tcp", 6001), Tcp(6001),
           "blocked", "NetworkBlock", 2),
    FwCase("egress", "EgressTuple", "target", AtPeer("tcp", 6002), Tcp(6002),
           "allowed", "none", 0),
    FwCase("egress", "EgressTuple", "target", AtPeer("udp", 6003), UdpAwait(6003),
           "blocked", "NetworkBlock", 4)>>

AppCases ==
  <<AsUid(FwCase("app", "AppDeny", "target", AtPeer("tcp", 6101), Tcp(6101),
                 "blocked", "PolicyDeny", 0)),
    AsUid(FwCase("app", "AppAllow", "target", AtPeer("tcp", 6101), Tcp(6101),
                 "allowed", "none", 0))>>

MatchCases ==
  <<Probe("match", "MatchFields", {}, Tcp(7001), "blocked"),
    Probe("match", "MatchFields", {}, Tcp(7002), "blocked"),
    Probe("match", "MatchFields", {}, Tcp(7100), "blocked"),
    Probe("match", "MatchFields", {}, Tcp(7110), "blocked"),
    Probe("match", "MatchFields", Serve(7111), Tcp(7111), "allowed"),
    [Probe("match", "MatchFields", {}, UdpAwait(7200), "blocked") EXCEPT !.sport = 8000],
    Probe("match", "MatchFields", {}, Icmp, "blocked"),
    Probe("match", "MatchFields", {}, Tcp(7300), "blocked"),
    Probe("match", "MatchFields", {}, UdpAwait(7300), "blocked")>>

\* Mutant: three ports, as many as the detector needs.
ScanThree(from) == [i \in 1 .. 3 |-> from + i - 1]

\* the five ports of a scan
ScanPorts(from) == [i \in 1 .. 5 |-> from + i - 1]

DetectionCases ==
  <<Scan("TcpScan", ScanPorts(9001), "blocked"),
    Scan("UdpScan", ScanPorts(9001), "sent"),
    Scan("TcpFinScan", ScanPorts(9011), "sent"),
    FwCase("detection", "Detection", "peer", {}, Traffic("TcpBurst", <<9100>>, 5),
           "blocked", "ConnectionAbnormal", 0),
    Probe("detection", "Detection", {}, Traffic("TcpScan", <<9201, 9202>>, 1), "blocked")>>

TrafficCases ==
  <<Probe("traffic", "Traffic", {}, Traffic("UdpVolume", <<5301>>, 200), "allowed"),
    AsUid(FwCase("traffic", "Traffic", "target", {}, Traffic("UdpVolume", <<5301>>, 200),
                 "allowed", "none", 0))>>

PriorityCases ==
  <<Probe("match", "Priority", Serve(8001), Tcp(8001), "blocked"),
    Probe("match", "Priority", Serve(8002), Tcp(8002), "allowed")>>

AllCases ==
  IngressCases \o DefaultCases \o EgressCases \o AppCases \o MatchCases
    \o DetectionCases \o TrafficCases \o PriorityCases

(***************************************************************************)
(* idps-fw's reading of a rule text (external): an app line decides at       *)
(* connect time; of the tuple lines that match, the later wins; otherwise    *)
(* the chain's default, and a chain without one passes.                      *)
(***************************************************************************)
Matches(line, pkt) ==
  /\ line.what = "tuple" /\ line.chain = pkt.chain
  /\ pkt.src \in line.sip /\ pkt.dst \in line.dip /\ pkt.proto \in line.proto
  /\ pkt.sport \in line.sport /\ pkt.dport \in line.dport

\* The line that decides about a packet, 0 for none; idps-fw overlooks `missed`.
Deciding(text, pkt, missed) ==
  LET of(P(_)) == {i \in DOMAIN text \ {missed} : P(text[i])}
      app   == of(LAMBDA l : l.what = "app" /\ l.action = "LD" /\ pkt.uid)
      tuple == of(LAMBDA l : Matches(l, pkt))
      basis == of(LAMBDA l : l.what = "default" /\ l.chain = pkt.chain)
  IN IF app # {} THEN Max(app)
     ELSE IF tuple # {} THEN Max(tuple)
     ELSE IF basis # {} THEN Max(basis) ELSE 0

\* NLD passes the first packet of a flow; an app line denies the connect itself.
Fate(text, pkt, missed) ==
  LET i == Deciding(text, pkt, missed) IN
    IF i = 0 \/ text[i].action \in {"P", "LP", "NLD"} THEN "pass"
    ELSE IF text[i].what = "app" THEN "deny" ELSE "drop"

=============================================================================
