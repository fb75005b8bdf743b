---------------------------- MODULE Worker_proofs ----------------------------
(***************************************************************************)
(* What the traffic worker guarantees for every case of the catalog, whatever *)
(* its process id and those of other workers, the delays of its threads and   *)
(* its surroundings.                                                        *)
(***************************************************************************)
EXTENDS Worker, FiniteSetTheorems, TLAPS

(***************************************************************************)
(* The catalog: its cases, and that the command of each is well formed.    *)
(***************************************************************************)

\* The cases of a list.
Elems(s) == {s[i] : i \in DOMAIN s}
IsList(s) == s \in Seq(Elems(s))

\* The elements of a concatenation are those of its parts.
LEMMA Joined ==
  ASSUME NEW s, NEW t, IsList(s), IsList(t)
  PROVE  IsList(s \o t) /\ Elems(s \o t) = Elems(s) \cup Elems(t)
<1> DEFINE S == Elems(s) \cup Elems(t)
<1>1. s \in Seq(S) /\ t \in Seq(S)
  BY DEF IsList
<1>a. /\ DOMAIN s = 1 .. Len(s) /\ Len(s) \in Nat
      /\ DOMAIN t = 1 .. Len(t) /\ Len(t) \in Nat
  BY <1>1
<1> HIDE DEF S
<1>2. /\ s \o t \in Seq(S) /\ Len(s \o t) = Len(s) + Len(t)
      /\ DOMAIN (s \o t) = 1 .. Len(s) + Len(t)
      /\ \A i \in 1 .. Len(s) : (s \o t)[i] = s[i]
      /\ \A i \in 1 .. Len(t) : (s \o t)[Len(s) + i] = t[i]
      /\ \A i \in 1 .. Len(s) + Len(t) :
           i > Len(s) => i - Len(s) \in 1 .. Len(t) /\ (s \o t)[i] = t[i - Len(s)]
  BY <1>1
<1>3. \A x \in S : x \in Elems(s \o t)
  <2>1. \A i \in DOMAIN s : s[i] \in Elems(s \o t)
    <3> SUFFICES ASSUME NEW i \in DOMAIN s PROVE s[i] \in Elems(s \o t)
      OBVIOUS
    <3>1. i \in DOMAIN (s \o t) /\ (s \o t)[i] = s[i]
      BY <1>a, <1>2
    <3> QED BY <3>1 DEF Elems
  <2>2. \A i \in DOMAIN t : t[i] \in Elems(s \o t)
    <3> SUFFICES ASSUME NEW i \in DOMAIN t PROVE t[i] \in Elems(s \o t)
      OBVIOUS
    <3>1. Len(s) + i \in DOMAIN (s \o t) /\ (s \o t)[Len(s) + i] = t[i]
      BY <1>a, <1>2
    <3> QED BY <3>1 DEF Elems
  <2> QED BY <2>1, <2>2 DEF S, Elems
<1>4. \A x \in Elems(s \o t) : x \in S
  BY <1>2 DEF Elems
<1>5. Elems(s \o t) = S
  BY <1>3, <1>4
<1> QED BY <1>2, <1>5 DEF IsList, S

\* A tuple is a list.
LEMMA Tuples == ASSUME NEW n \in Nat, NEW s, s = [i \in 1 .. n |-> s[i]] PROVE IsList(s)
BY DEF IsList, Elems

\* The groups of the catalog are lists.
LEMMA Lists ==
  /\ IsList(IngressCases) /\ IsList(DefaultCases) /\ IsList(EgressCases) /\ IsList(AppCases)
  /\ IsList(MatchCases) /\ IsList(DetectionCases) /\ IsList(TrafficCases)
  /\ IsList(PriorityCases)
<1>1. IsList(IngressCases)
  <2>1. IngressCases = [i \in 1 .. 4 |-> IngressCases[i]]
    BY DEF IngressCases
  <2> QED BY <2>1, Tuples
<1>2. IsList(DefaultCases)
  <2>1. DefaultCases = [i \in 1 .. 3 |-> DefaultCases[i]]
    BY DEF DefaultCases
  <2> QED BY <2>1, Tuples
<1>3. IsList(EgressCases)
  <2>1. EgressCases = [i \in 1 .. 3 |-> EgressCases[i]]
    BY DEF EgressCases
  <2> QED BY <2>1, Tuples
<1>4. IsList(AppCases)
  <2>1. AppCases = [i \in 1 .. 2 |-> AppCases[i]]
    BY DEF AppCases
  <2> QED BY <2>1, Tuples
<1>5. IsList(MatchCases)
  <2>1. MatchCases = [i \in 1 .. 9 |-> MatchCases[i]]
    BY DEF MatchCases
  <2> QED BY <2>1, Tuples
<1>6. IsList(DetectionCases)
  <2>1. DetectionCases = [i \in 1 .. 5 |-> DetectionCases[i]]
    BY DEF DetectionCases
  <2> QED BY <2>1, Tuples
<1>7. IsList(TrafficCases)
  <2>1. TrafficCases = [i \in 1 .. 2 |-> TrafficCases[i]]
    BY DEF TrafficCases
  <2> QED BY <2>1, Tuples
<1>8. IsList(PriorityCases)
  <2>1. PriorityCases = [i \in 1 .. 2 |-> PriorityCases[i]]
    BY DEF PriorityCases
  <2> QED BY <2>1, Tuples
<1> QED BY <1>1, <1>2, <1>3, <1>4, <1>5, <1>6, <1>7, <1>8

\* The catalog has the cases of its eight groups and no others.
LEMMA CatalogCases ==
  {AllCases[i] : i \in DOMAIN AllCases} =
    Elems(IngressCases) \cup Elems(DefaultCases) \cup Elems(EgressCases) \cup Elems(AppCases)
      \cup Elems(MatchCases) \cup Elems(DetectionCases) \cup Elems(TrafficCases)
      \cup Elems(PriorityCases)
<1> DEFINE l1 == IngressCases \o DefaultCases
           l2 == l1 \o EgressCases
           l3 == l2 \o AppCases
           l4 == l3 \o MatchCases
           l5 == l4 \o DetectionCases
           l6 == l5 \o TrafficCases
           l7 == l6 \o PriorityCases
<1>1. IsList(l1) /\ Elems(l1) = Elems(IngressCases) \cup Elems(DefaultCases)
  BY Lists, Joined
<1> HIDE DEF l1
<1>2. IsList(l2) /\ Elems(l2) = Elems(l1) \cup Elems(EgressCases)
  BY <1>1, Lists, Joined
<1> HIDE DEF l2
<1>3. IsList(l3) /\ Elems(l3) = Elems(l2) \cup Elems(AppCases)
  BY <1>2, Lists, Joined
<1> HIDE DEF l3
<1>4. IsList(l4) /\ Elems(l4) = Elems(l3) \cup Elems(MatchCases)
  BY <1>3, Lists, Joined
<1> HIDE DEF l4
<1>5. IsList(l5) /\ Elems(l5) = Elems(l4) \cup Elems(DetectionCases)
  BY <1>4, Lists, Joined
<1> HIDE DEF l5
<1>6. IsList(l6) /\ Elems(l6) = Elems(l5) \cup Elems(TrafficCases)
  BY <1>5, Lists, Joined
<1> HIDE DEF l6
<1>7. Elems(l7) = Elems(l6) \cup Elems(PriorityCases)
  BY <1>6, Lists, Joined
<1>8. AllCases = l7
  BY DEF AllCases, l1, l2, l3, l4, l5, l6
<1> HIDE DEF l7
<1>9. Elems(AllCases) = {AllCases[i] : i \in DOMAIN AllCases}
  BY DEF Elems
<1>10. Elems(AllCases) = Elems(l7)
  BY <1>8
<1> QED BY <1>1, <1>2, <1>3, <1>4, <1>5, <1>6, <1>7, <1>9, <1>10

\* The cases of a group bear its name.
LEMMA Groups ==
  /\ \A c \in Elems(IngressCases) : c.group = "ingress"
  /\ \A c \in Elems(DefaultCases) : c.group = "default"
  /\ \A c \in Elems(EgressCases) : c.group = "egress"
  /\ \A c \in Elems(AppCases) : c.group = "app"
  /\ \A c \in Elems(MatchCases) : c.group = "match"
  /\ \A c \in Elems(DetectionCases) : c.group = "detection"
  /\ \A c \in Elems(TrafficCases) : c.group = "traffic"
  /\ \A c \in Elems(PriorityCases) : c.group = "match"
<1>1. \A c \in Elems(IngressCases) : c.group = "ingress"
  BY DEF Elems, IngressCases, Probe, FwCase
<1>2. \A c \in Elems(DefaultCases) : c.group = "default"
  BY DEF Elems, DefaultCases, Probe, FwCase
<1>3. \A c \in Elems(EgressCases) : c.group = "egress"
  BY DEF Elems, EgressCases, FwCase
<1>4. \A c \in Elems(AppCases) : c.group = "app"
  BY DEF Elems, AppCases, FwCase, AsUid
<1>5. \A c \in Elems(MatchCases) : c.group = "match"
  BY DEF Elems, MatchCases, Probe, FwCase
<1>6. \A c \in Elems(DetectionCases) : c.group = "detection"
  BY DEF Elems, DetectionCases, Probe, FwCase, Scan
<1>7. \A c \in Elems(TrafficCases) : c.group = "traffic"
  BY DEF Elems, TrafficCases, Probe, FwCase, AsUid
<1>8. \A c \in Elems(PriorityCases) : c.group = "match"
  BY DEF Elems, PriorityCases, Probe, FwCase
<1> QED BY <1>1, <1>2, <1>3, <1>4, <1>5, <1>6, <1>7, <1>8

\* A scan has five consecutive ports.
LEMMA FivePorts ==
  ASSUME NEW from \in Nat
  PROVE  /\ ScanPorts(from) \in Seq(Nat) /\ Len(ScanPorts(from)) = 5
         /\ DOMAIN ScanPorts(from) = 1 .. 5
         /\ \A i \in 1 .. 5 : ScanPorts(from)[i] = from + i - 1
BY DEF ScanPorts

\* A number below 65536 is a port.
LEMMA PortNumber == ASSUME NEW p \in Nat, p < 65536 PROVE p \in Port
<1>1. PICK n \in Nat : n = 65535
  OBVIOUS
<1>2. Port = 0 .. n
  BY <1>1 DEF Port
<1>3. p <= n
  BY <1>1
<1> QED BY <1>2, <1>3

\* The command of a case is well formed: real ports, at least one attempt on each, and a
\* FIN scan names each port once, and not so many that its source ports run over.
WellFormed(t) ==
  /\ t.ports \in Seq(Port) /\ t.count \in Nat \ {0}
  /\ t.kind = "TcpFinScan" =>
       /\ t.count = 1 /\ Len(t.ports) <= 25536
       /\ \A j, k \in DOMAIN t.ports : t.ports[j] = t.ports[k] => j = k

\* Traffic to one port is well formed.
LEMMA OnePortTraffic ==
  ASSUME NEW kind, kind # "TcpFinScan", NEW p \in Nat, p < 65536, NEW n \in Nat \ {0}
  PROVE  WellFormed(Traffic(kind, <<p>>, n))
<1>1. <<p>> \in Seq(Port)
  BY PortNumber
<1> QED BY <1>1 DEF WellFormed, Traffic

\* The ports of a scan are ports.
LEMMA PortsScanned ==
  ASSUME NEW from \in Nat, from < 65500
  PROVE  ScanPorts(from) \in Seq(Port)
<1>1. \A i \in 1 .. 5 : ScanPorts(from)[i] \in Port
  <2> SUFFICES ASSUME NEW i \in 1 .. 5 PROVE ScanPorts(from)[i] \in Port
    OBVIOUS
  <2>1. ScanPorts(from)[i] = from + i - 1
    BY DEF ScanPorts
  <2>2. from + i - 1 \in Nat /\ from + i - 1 < 65536
    OBVIOUS
  <2> QED BY <2>1, <2>2, PortNumber
<1> QED BY <1>1 DEF ScanPorts

\* A scan of five different ports is well formed.
LEMMA ScanTraffic ==
  ASSUME NEW kind, NEW p \in Seq(Port), Len(p) = 5,
         \A j, k \in DOMAIN p : p[j] = p[k] => j = k
  PROVE  WellFormed(Traffic(kind, p, 1))
<1> DEFINE t == Traffic(kind, p, 1)
<1>1. t.ports = p /\ t.count = 1
  BY DEF Traffic
<1>2. \A j, k \in DOMAIN t.ports : t.ports[j] = t.ports[k] => j = k
  BY <1>1, Zenon
<1>3. t.ports \in Seq(Port) /\ t.count \in Nat \ {0} /\ t.count = 1 /\ Len(t.ports) = 5
  BY <1>1
<1>4. 5 <= 25536
  OBVIOUS
<1> HIDE DEF t
<1>5. WellFormed(t)
  BY <1>2, <1>3, <1>4 DEF WellFormed
<1> QED BY <1>5 DEF t

\* The ports of a scan differ.
LEMMA PortsDiffer ==
  ASSUME NEW from \in Nat
  PROVE  \A j, k \in DOMAIN ScanPorts(from) : ScanPorts(from)[j] = ScanPorts(from)[k] => j = k
<1>1. \A j, k \in 1 .. 5 : from + j - 1 = from + k - 1 => j = k
  OBVIOUS
<1>2. DOMAIN ScanPorts(from) = 1 .. 5 /\ \A i \in 1 .. 5 : ScanPorts(from)[i] = from + i - 1
  BY FivePorts
<1> SUFFICES ASSUME NEW j \in DOMAIN ScanPorts(from), NEW k \in DOMAIN ScanPorts(from),
                    ScanPorts(from)[j] = ScanPorts(from)[k]
             PROVE  j = k
  OBVIOUS
<1>3. from + j - 1 = from + k - 1 /\ j \in 1 .. 5 /\ k \in 1 .. 5
  BY <1>2
<1> QED BY <1>3

\* The traffic of every case of the catalog is well formed.
LEMMA CatalogFacts ==
  ASSUME NEW c \in {AllCases[i] : i \in DOMAIN AllCases}
  PROVE  WellFormed(c.traffic)
<1>1. CASE c \in Elems(IngressCases)
  <2>1. \E p \in Nat : p < 65536 /\ c.traffic = Traffic("Tcp", <<p>>, 1)
    BY <1>1 DEF Elems, IngressCases, Probe, FwCase, Tcp
  <2> QED BY <2>1, OnePortTraffic
<1>2. CASE c \in Elems(DefaultCases)
  <2>1. \E p \in Nat : p < 65536 /\ c.traffic = Traffic("Tcp", <<p>>, 1)
    <3>1. \E k \in 1 .. 3 : c = DefaultCases[k]
      <4>1. DOMAIN DefaultCases = 1 .. 3
        BY DEF DefaultCases
      <4> QED BY <1>2, <4>1 DEF Elems
    <3>2. c.traffic \in {Tcp(5102), Tcp(5101), Tcp(5201)}
      BY <3>1 DEF DefaultCases, Probe, FwCase
    <3> QED BY <3>2 DEF Tcp
  <2> QED BY <2>1, OnePortTraffic
<1>3. CASE c \in Elems(EgressCases)
  <2>1. \E kind \in {"Tcp", "Udp"} : \E p \in Nat :
          p < 65536 /\ c.traffic = Traffic(kind, <<p>>, 1)
    BY <1>3 DEF Elems, EgressCases, FwCase, Tcp, UdpAwait
  <2> QED BY <2>1, OnePortTraffic
<1>4. CASE c \in Elems(AppCases)
  <2>1. \E p \in Nat : p < 65536 /\ c.traffic = Traffic("Tcp", <<p>>, 1)
    BY <1>4 DEF Elems, AppCases, AsUid, FwCase, Tcp
  <2> QED BY <2>1, OnePortTraffic
<1>5. CASE c \in Elems(MatchCases)
  <2>1. \/ \E kind \in {"Tcp", "Udp"} : \E p \in Nat :
             p < 65536 /\ c.traffic = Traffic(kind, <<p>>, 1)
        \/ c.traffic = Icmp
    <3>1. PICK k \in 1 .. 9 : c = MatchCases[k]
      <4>1. DOMAIN MatchCases = 1 .. 9
        BY DEF MatchCases
      <4> QED BY <1>5, <4>1 DEF Elems
    <3>2. CASE k # 7
      <4>1. \E p \in Nat : p < 65536 /\ (c.traffic = Tcp(p) \/ c.traffic = UdpAwait(p))
        BY <3>1, <3>2 DEF MatchCases, Probe, FwCase
      <4> QED BY <4>1 DEF Tcp, UdpAwait
    <3>3. CASE k = 7
      BY <3>1, <3>3 DEF MatchCases, Probe, FwCase
    <3> QED BY <3>2, <3>3
  <2>2. WellFormed(Icmp)
    BY DEF WellFormed, Icmp, Traffic
  <2>3. \A kind \in {"Tcp", "Udp"} : \A p \in Nat :
          p < 65536 => WellFormed(Traffic(kind, <<p>>, 1))
    <3> SUFFICES ASSUME NEW kind \in {"Tcp", "Udp"}, NEW p \in Nat, p < 65536
                 PROVE  WellFormed(Traffic(kind, <<p>>, 1))
      OBVIOUS
    <3> QED BY OnePortTraffic
  <2>4. CASE c.traffic = Icmp
    BY <2>2, <2>4
  <2>5. CASE \E kind \in {"Tcp", "Udp"} : \E p \in Nat :
               p < 65536 /\ c.traffic = Traffic(kind, <<p>>, 1)
    BY <2>3, <2>5
  <2> QED BY <2>1, <2>4, <2>5
<1>6. CASE c \in Elems(DetectionCases)
  <2>1. \/ \E kind \in {"TcpScan", "UdpScan", "TcpFinScan"} : \E from \in {9001, 9011} :
             c.traffic = Traffic(kind, ScanPorts(from), 1)
        \/ c.traffic = Traffic("TcpBurst", <<9100>>, 5)
        \/ c.traffic = Traffic("TcpScan", <<9201, 9202>>, 1)
    <3>1. \E k \in 1 .. 5 : c = DetectionCases[k]
      <4>1. DOMAIN DetectionCases = 1 .. 5
        BY DEF DetectionCases
      <4> QED BY <1>6, <4>1 DEF Elems
    <3> QED BY <3>1 DEF DetectionCases, Probe, FwCase, Scan
  <2>2. WellFormed(Traffic("TcpBurst", <<9100>>, 5))
    BY OnePortTraffic
  <2>3. WellFormed(Traffic("TcpScan", <<9201, 9202>>, 1))
    <3>1. <<9201, 9202>> \in Seq(Port)
      BY PortNumber
    <3> QED BY <3>1 DEF WellFormed, Traffic
  <2>4. \A kind : \A from \in {9001, 9011} : WellFormed(Traffic(kind, ScanPorts(from), 1))
    <3> SUFFICES ASSUME NEW kind, NEW from \in {9001, 9011}
                 PROVE  WellFormed(Traffic(kind, ScanPorts(from), 1))
      OBVIOUS
    <3>1. from \in Nat /\ from < 65500
      OBVIOUS
    <3>2. ScanPorts(from) \in Seq(Port)
      BY <3>1, PortsScanned
    <3>3. Len(ScanPorts(from)) = 5
      BY <3>1, FivePorts
    <3>4. \A j, k \in DOMAIN ScanPorts(from) : ScanPorts(from)[j] = ScanPorts(from)[k] => j = k
      BY <3>1, PortsDiffer
    <3> QED BY <3>2, <3>3, <3>4, ScanTraffic
  <2> QED BY <2>1, <2>2, <2>3, <2>4
<1>7. CASE c \in Elems(TrafficCases)
  <2>1. c.traffic = Traffic("UdpVolume", <<5301>>, 200)
    BY <1>7 DEF Elems, TrafficCases, Probe, FwCase, AsUid
  <2> QED BY <2>1, OnePortTraffic
<1>8. CASE c \in Elems(PriorityCases)
  <2>1. \E p \in Nat : p < 65536 /\ c.traffic = Traffic("Tcp", <<p>>, 1)
    BY <1>8 DEF Elems, PriorityCases, Probe, FwCase, Tcp
  <2> QED BY <2>1, OnePortTraffic
<1> QED BY <1>1, <1>2, <1>3, <1>4, <1>5, <1>6, <1>7, <1>8, CatalogCases

(***************************************************************************)
(* The worker: attempts, tally and source ports.                           *)
(***************************************************************************)

\* The case is one of the catalog and the attempts made are counted.
CountInv ==
  /\ case \in {AllCases[i] : i \in DOMAIN AllCases} /\ next \in Nat /\ clock \in Nat
  /\ next <= Attempts

\* What CatalogFacts says of the case's command.
LEMMA CommandFacts ==
  ASSUME case \in {AllCases[i] : i \in DOMAIN AllCases}
  PROVE  /\ Len(Cmd.ports) \in Nat /\ Repeat \in Nat \ {0} /\ Attempts \in Nat
         /\ Cmd.proto \in {"tcp", "udp", "icmp"} /\ Cmd.fin \in BOOLEAN /\ Cmd.timeout \in Nat
         /\ Cmd.fin => /\ Repeat = 1 /\ DOMAIN Cmd.ports = 1 .. Attempts /\ Attempts <= 25536
                       /\ \A j, k \in 1 .. Attempts : Cmd.ports[j] = Cmd.ports[k] => j = k
<1> DEFINE t == case.traffic
<1>1. /\ t.ports \in Seq(Port) /\ t.count \in Nat \ {0}
      /\ t.kind = "TcpFinScan" =>
           /\ t.count = 1 /\ Len(t.ports) <= 25536
           /\ \A j, k \in DOMAIN t.ports : t.ports[j] = t.ports[k] => j = k
  <2>1. WellFormed(t)
    BY CatalogFacts
  <2> QED BY <2>1 DEF WellFormed
<1>2. /\ Cmd.ports = (IF t.kind = "Icmp" THEN <<0>> ELSE t.ports) /\ Cmd.count = t.count
      /\ Cmd.proto \in {"tcp", "udp", "icmp"} /\ Cmd.timeout \in {4, 5, 30}
      /\ Cmd.fin \in BOOLEAN
  BY DEF Cmd, BuildCmd
<1> HIDE DEF t
<1>3. Len(Cmd.ports) \in Nat /\ Repeat \in Nat \ {0}
  BY <1>1, <1>2 DEF Repeat
<1>4. Attempts \in Nat
  BY <1>3 DEF Attempts
<1>5. ASSUME Cmd.fin
      PROVE  /\ Repeat = 1 /\ DOMAIN Cmd.ports = 1 .. Attempts /\ Attempts <= 25536
             /\ \A j, k \in 1 .. Attempts : Cmd.ports[j] = Cmd.ports[k] => j = k
  <2>1. t.kind = "TcpFinScan"
    BY <1>5 DEF Cmd, BuildCmd, t
  <2>2. Cmd.ports = t.ports /\ Repeat = 1
    BY <1>1, <1>2, <2>1 DEF Repeat
  <2>3. Attempts = Len(Cmd.ports) /\ DOMAIN t.ports = 1 .. Len(t.ports)
    BY <1>1, <1>3, <2>2 DEF Attempts
  <2> QED BY <1>1, <2>1, <2>2, <2>3
<1> QED BY <1>2, <1>3, <1>4, <1>5

\* An attempt has an outcome or an error.
LEMMA AttemptFacts ==
  ASSUME case \in {AllCases[i] : i \in DOMAIN AllCases}, NEW port, NEW result \in Attempt(port)
  PROVE  result \in Outcome \cup {"error"}
<1>1. FateOf(port) \in {"deny", "drop", "pass"}
  BY DEF FateOf, Fate
<1>2. Answer(port) \in Outcome
  BY DEF Answer, ClassifyIo, Outcome
<1>3. Attempt(port) \in {FinAttempt(port), TcpAttempt(port), UdpAttempt(port), IcmpAttempt(port)}
  BY CommandFacts DEF Attempt
<1>4. TcpAttempt(port) \subseteq Outcome \cup {"error"}
  BY <1>1, <1>2 DEF TcpAttempt, ClassifyIo, Outcome
<1>5. UdpAttempt(port) \subseteq Outcome \cup {"error"}
  BY <1>1, <1>2 DEF UdpAttempt, ClassifyIo, Outcome
<1>6. IcmpAttempt(port) \subseteq Outcome \cup {"error"}
  BY DEF IcmpAttempt, ClassifyIo, Outcome
<1>7. FinAttempt(port) \subseteq Outcome \cup {"error"}
  BY DEF FinAttempt, Outcome
<1> QED BY <1>3, <1>4, <1>5, <1>6, <1>7

\* What an attempt does, of a thread or of the loop, that has an outcome.
Tried(outcome, at) ==
  /\ pc = "probe" /\ next < Attempts
  /\ tally' = Record(outcome) /\ hits' = Seen(outcome, Hit(PortOf(next), at))
  /\ next' = next + 1 /\ UNCHANGED <<case, env, pid, pc, verdict>>

\* An attempt with an error ends the loop.
GivesUp == pc = "probe" /\ Fail

\* The next attempt has an outcome, or ends the worker.
LEMMA ProbeStep ==
  ASSUME CountInv, BurstProbe \/ LoopProbe
  PROVE  /\ clock' \in Nat
         /\ GivesUp \/ \E outcome \in Outcome : \E at \in Nat : Tried(outcome, at)
<1>1. case \in {AllCases[i] : i \in DOMAIN AllCases} /\ clock \in Nat
  BY DEF CountInv
<1>2. CASE BurstProbe
  <2>1. PICK result \in Attempt(PortOf(next)), delay \in ThreadDelays :
          LET outcome == IF result = "error" THEN "other" ELSE result IN
            /\ tally' = Record(outcome)
            /\ hits' = Seen(outcome, Hit(PortOf(next), clock + delay))
    BY <1>2 DEF BurstProbe
  <2> DEFINE outcome == IF result = "error" THEN "other" ELSE result
             at == clock + delay
  <2>2. outcome \in Outcome
    BY <1>1, AttemptFacts DEF Outcome
  <2>3. at \in Nat
    BY <1>1, TimeAssumption DEF Second
  <2>4. Tried(outcome, at)
    BY <1>2, <2>1 DEF Tried, BurstProbe, Stay
  <2>5. clock' \in Nat
    BY <1>1, <1>2 DEF BurstProbe
  <2> HIDE DEF outcome, at
  <2> QED BY <2>2, <2>3, <2>4, <2>5, Zenon
<1>3. CASE LoopProbe /\ ~ GivesUp
  <2>1. PICK result \in Attempt(PortOf(next)) :
          /\ result # "error" /\ tally' = Record(result)
          /\ hits' = Seen(result, Hit(PortOf(next), clock))
    BY <1>3 DEF LoopProbe, GivesUp
  <2>2. result \in Outcome
    BY <1>1, <2>1, AttemptFacts
  <2>3. Tried(result, clock)
    BY <1>3, <2>1 DEF Tried, LoopProbe, GivesUp, Stay
  <2>4. clock' \in Nat
    <3>1. Cmd.timeout \in Nat
      BY <1>1, CommandFacts
    <3>2. \E lost \in Nat : clock' = clock + lost \/ clock' = clock + lost + Cmd.timeout
      <4>1. PICK lost \in IF Timed THEN 0 .. Overhead ELSE {0}, r \in Attempt(PortOf(next)) :
              clock' = clock + lost + IF Timed /\ r = "timeout" THEN Cmd.timeout ELSE 0
        BY <1>3 DEF LoopProbe, GivesUp
      <4>2. lost \in Nat
        BY TimeAssumption
      <4>3. clock' = clock + lost \/ clock' = clock + lost + Cmd.timeout
        BY <1>1, <4>1, <4>2
      <4> QED BY <4>2, <4>3
    <3> QED BY <1>1, <3>1, <3>2
  <2> QED BY <1>1, <2>2, <2>3, <2>4, Zenon
<1>4. CASE GivesUp
  BY <1>1, <1>4 DEF GivesUp, Fail
<1> QED BY <1>2, <1>3, <1>4

\* Every other step leaves the attempts alone.
LEMMA OtherStep ==
  ASSUME Spawn \/ Start \/ Emit \/ GivesUp \/ UNCHANGED vars
  PROVE  UNCHANGED <<case, env, pid, clock, next, tally, hits>>
BY DEF Spawn, Start, Emit, GivesUp, Fail, Stay, vars

\* A step of the worker.
LEMMA Steps ==
  ASSUME CountInv, [Next]_vars
  PROVE  \/ Spawn \/ Start \/ Emit \/ GivesUp \/ UNCHANGED vars
         \/ \E outcome \in Outcome : \E at \in Nat : Tried(outcome, at)
BY ProbeStep DEF Next

\* Attempts are counted from the start.
LEMMA CountInit == Init => CountInv
<1> SUFFICES ASSUME Init PROVE CountInv
  OBVIOUS
<1>1. case \in {AllCases[i] : i \in DOMAIN AllCases} /\ next = 0
  BY DEF Init
<1>2. clock \in Nat
  BY DEF Init, Second
<1>3. Attempts \in Nat
  BY <1>1, CommandFacts
<1> QED BY <1>1, <1>2, <1>3 DEF CountInv

\* The case stays the same, and so do the attempts it asks for.
LEMMA CountNext == CountInv /\ [Next]_vars => CountInv'
<1> SUFFICES ASSUME CountInv, [Next]_vars PROVE CountInv'
  OBVIOUS
<1>1. case \in {AllCases[i] : i \in DOMAIN AllCases} /\ Attempts \in Nat /\ next \in Nat
  BY CommandFacts DEF CountInv
<1>2. ASSUME case' = case PROVE Attempts' = Attempts
  BY <1>2 DEF Attempts, Repeat, Cmd
<1>3. CASE Spawn \/ Start \/ Emit \/ GivesUp \/ UNCHANGED vars
  BY <1>2, <1>3, OtherStep DEF CountInv
<1>4. CASE BurstProbe \/ LoopProbe
  <2>1. clock' \in Nat
    BY <1>4, ProbeStep
  <2>2. CASE GivesUp
    BY <1>3, <2>2
  <2>3. CASE \E outcome \in Outcome : \E at \in Nat : Tried(outcome, at)
    <3>1. next < Attempts /\ next' = next + 1 /\ case' = case
      BY <2>3 DEF Tried
    <3>2. next' \in Nat /\ next' <= Attempts
      BY <1>1, <3>1
    <3> QED BY <1>1, <1>2, <2>1, <3>1, <3>2 DEF CountInv
  <2> QED BY <1>4, <2>2, <2>3, ProbeStep
<1> QED BY <1>3, <1>4 DEF Next

\* The tally of an outcome has one more.
LEMMA Recording ==
  ASSUME tally \in [Outcome -> Nat], NEW outcome \in Outcome, tally' = Record(outcome)
  PROVE  tally' \in [Outcome -> Nat] /\ Recorded' = Recorded + 1
<1>1. /\ tally'[outcome] = tally[outcome] + 1
      /\ \A o \in Outcome : tally[o] \in Nat /\ (o # outcome => tally'[o] = tally[o])
  BY DEF Record
<1>2. tally' \in [Outcome -> Nat]
  BY DEF Record
<1>3. Recorded' = Recorded + 1
  BY <1>1 DEF Recorded, Outcome
<1> QED BY <1>2, <1>3

\* The worker's tally and its verdict are what Tally::record and Tally::verdict make
\* of them, for every case, process id, delay and surroundings: each attempt is
\* counted exactly once, and the verdict is that of a complete tally.
THEOREM WorkerTypeCorrect == Spec => []TypeOK
<1>1. Init => TypeOK
  <2> SUFFICES ASSUME Init PROVE TypeOK
    OBVIOUS
  <2>1. clock \in Nat /\ next = 0 /\ Attempts \in Nat
    BY CountInit, CommandFacts DEF CountInv, Init
  <2>2. tally = [o \in Outcome |-> 0] /\ pc = "spawn" /\ verdict = "none"
    BY DEF Init
  <2>3. tally \in [Outcome -> Nat] /\ Recorded = 0
    BY <2>2 DEF Outcome, Recorded
  <2> QED BY <2>1, <2>2, <2>3 DEF TypeOK
<1>2. CountInv /\ CountInv' /\ TypeOK /\ [Next]_vars => TypeOK'
  <2> SUFFICES ASSUME CountInv, CountInv', TypeOK, [Next]_vars PROVE TypeOK'
    OBVIOUS
  <2>1. /\ clock' \in Nat /\ next' \in Nat /\ next' <= Attempts' /\ Attempts \in Nat
        /\ next \in Nat /\ tally \in [Outcome -> Nat] /\ Recorded = next
    BY CommandFacts DEF CountInv, TypeOK
  <2>2. Attempts' \in Nat /\ (case' = case => Attempts' = Attempts)
    <3>1. case' = case => Attempts' = Attempts
      BY DEF Attempts, Repeat, Cmd
    <3>2. case' = case
      BY Steps, OtherStep DEF Tried
    <3> QED BY <2>1, <3>1, <3>2
  <2>3. CASE Spawn \/ Start \/ GivesUp \/ UNCHANGED vars
    <3>1. /\ pc' \in {"spawn", "start", "probe", "failed"} /\ verdict' = verdict
          /\ pc \in {"spawn", "start", "probe", "failed"}
          \/ UNCHANGED <<pc, verdict>>
      BY <2>3 DEF Spawn, Start, GivesUp, Fail, vars, TypeOK
    <3>2. UNCHANGED <<case, clock, next, tally>> /\ Recorded' = Recorded
      BY <2>3, OtherStep DEF Recorded
    <3> QED BY <2>1, <2>2, <3>1, <3>2 DEF TypeOK
  <2>4. CASE Emit
    <3>1. pc = "probe" /\ next = Attempts /\ pc' = "done" /\ verdict' = Verdict(tally)
      BY <2>4 DEF Emit
    <3>2. UNCHANGED <<case, clock, next, tally>> /\ Recorded' = Recorded
      BY <2>4, OtherStep DEF Recorded
    <3>3. verdict' \in {"allowed", "blocked", "refused", "sent", "unknown"}
      BY <3>1 DEF Verdict
    <3> QED BY <2>1, <2>2, <3>1, <3>2, <3>3 DEF TypeOK
  <2>5. ASSUME NEW outcome \in Outcome, NEW at \in Nat, Tried(outcome, at) PROVE TypeOK'
    <3>1. /\ pc = "probe" /\ next' = next + 1 /\ tally' = Record(outcome)
          /\ UNCHANGED <<case, pc, verdict>>
      BY <2>5 DEF Tried
    <3>2. tally' \in [Outcome -> Nat] /\ Recorded' = next'
      BY <2>1, <3>1, Recording
    <3> QED BY <2>1, <2>2, <3>1, <3>2 DEF TypeOK
  <2> QED BY <2>3, <2>4, <2>5, Steps
<1> QED BY <1>1, <1>2, CountInit, CountNext, PTL DEF Spec

-----------------------------------------------------------------------------
\* The probes of a FIN scan: the n-th goes to the n-th port, from a port of its own.
FinInv ==
  Cmd.fin => \A h \in hits : \E n \in 0 .. Attempts - 1 :
               h.sport = FinSport(pid, n) /\ h.dport = Cmd.ports[n + 1]

\* Remainders: of two numbers less than 20000 apart only equal ones have the same.
LEMMA Remainders ==
  ASSUME NEW a \in Nat, NEW b \in Nat, a - b < 20000, b - a < 20000
  PROVE  /\ (a % 20000) \in Nat /\ (a % 20000) < 20000
         /\ a % 20000 = b % 20000 => a = b
OBVIOUS

\* The lower 16 bits of a process id, and what fin_sport_base makes of them.
Low(p) == p % 65536
Base(p) == Low(p) % 20000

\* The lower 16 bits are what the upper ones leave.
LEMMA LowerBits ==
  ASSUME NEW p \in Nat
  PROVE  Low(p) \in Nat /\ p = 65536 * (p \div 65536) + Low(p) /\ (p \div 65536) \in Nat
BY DEF Low

\* Process ids with the same base are 20000 apart, or differ in their upper bits.
LEMMA SameBase ==
  ASSUME NEW p \in Nat, NEW q \in Nat, p - q < 20000, q - p < 20000,
         p \div 65536 = q \div 65536, Base(p) = Base(q)
  PROVE  p = q
<1>1. /\ Low(p) \in Nat /\ p = 65536 * (p \div 65536) + Low(p) /\ (p \div 65536) \in Nat
      /\ Low(q) \in Nat /\ q = 65536 * (p \div 65536) + Low(q)
  <2>1. Low(p) \in Nat /\ p = 65536 * (p \div 65536) + Low(p) /\ (p \div 65536) \in Nat
    BY LowerBits
  <2>2. Low(q) \in Nat /\ q = 65536 * (q \div 65536) + Low(q)
    BY LowerBits
  <2> QED BY <2>1, <2>2
<1>2. Low(p) - Low(q) < 20000 /\ Low(q) - Low(p) < 20000
  BY <1>1
<1>3. Low(p) = Low(q)
  BY <1>1, <1>2, Remainders DEF Base
<1> QED BY <1>1, <1>3

\* A source port is what fin_sport_base and the index add up to, without overflow.
LEMMA SourcePorts ==
  ASSUME NEW p \in Nat, NEW n \in Nat, n < 25536
  PROVE  /\ FinSport(p, n) = 20000 + Base(p) + n /\ Base(p) \in Nat
         /\ FinSport(p, n) >= 1024 /\ FinSport(p, n) < 65536
<1> DEFINE q == 20000 + Base(p) + n
<1>1. Base(p) \in Nat /\ Base(p) < 20000
  <2>1. Low(p) \in Nat
    BY LowerBits
  <2> QED BY <2>1 DEF Base
<1>2. FinSport(p, n) = LET port == q % 65536 IN IF port < 1024 THEN port + 16384 ELSE port
  BY DEF FinSport, Base, Low
<1>3. q \in Nat /\ q < 65536 /\ q >= 20000
  BY <1>1
<1> HIDE DEF q
<1>4. q % 65536 = q
  BY <1>3
<1>5. FinSport(p, n) = q
  BY <1>2, <1>3, <1>4
<1> QED BY <1>1, <1>3, <1>5 DEF q

\* Every attempt of a FIN scan keeps that.
LEMMA FinNext == CountInv /\ FinInv /\ [Next]_vars => FinInv'
<1> SUFFICES ASSUME CountInv, FinInv, [Next]_vars PROVE FinInv'
  OBVIOUS
<1>1. ASSUME UNCHANGED case PROVE UNCHANGED <<Cmd, Attempts, Repeat>>
  BY <1>1 DEF Cmd, Attempts, Repeat
<1>2. CASE Spawn \/ Start \/ Emit \/ GivesUp \/ UNCHANGED vars
  <2>1. UNCHANGED <<case, pid, hits>>
    BY <1>2, OtherStep
  <2> QED BY <1>1, <2>1 DEF FinInv
<1>3. ASSUME NEW outcome \in Outcome, NEW at \in Nat, Tried(outcome, at) PROVE FinInv'
  <2>1. /\ UNCHANGED <<case, pid, Cmd, Attempts>> /\ next < Attempts
        /\ hits' = Seen(outcome, Hit(PortOf(next), at))
    BY <1>1, <1>3 DEF Tried
  <2>2. SUFFICES ASSUME Cmd.fin, NEW h \in hits', h \notin hits
                 PROVE  /\ next \in 0 .. Attempts - 1
                        /\ h.sport = FinSport(pid, next) /\ h.dport = Cmd.ports[next + 1]
    BY <2>1 DEF FinInv
  <2>3. next \in Nat /\ Attempts \in Nat /\ Repeat = 1
    BY <2>2, CommandFacts DEF CountInv
  <2>4. h = Hit(PortOf(next), at)
    BY <2>1, <2>2 DEF Seen
  <2>5. PortOf(next) = Cmd.ports[next + 1]
    BY <2>3 DEF PortOf
  <2>6. h.sport = FinSport(pid, next) /\ h.dport = PortOf(next)
    BY <2>2, <2>4 DEF Hit
  <2> QED BY <2>1, <2>3, <2>5, <2>6
<1> QED BY <1>2, <1>3, Steps

\* The worker keeps its process id.
PidInv == pid \in Pids

\* fin_sport_base gives every probe of a FIN scan a flow of its own: never one that
\* a worker with another process id has used for the same port, as long as the two
\* ids are less than 20000 apart, and never a privileged port.  For every set of
\* such process ids and every FIN scan of distinct ports.
THEOREM FinProbesAreNewFlows == Spec => []FinFlowsNew
<1>1. Init => FinInv /\ PidInv
  <2>1. Init => pid \in Pids
    BY PidAssumption DEF Init
  <2> QED BY <2>1 DEF Init, FinInv, PidInv
<1>2. CountInv /\ PidInv /\ [Next]_vars => PidInv'
  BY Steps, OtherStep DEF Tried, PidInv
<1>3. CountInv /\ PidInv /\ FinInv => FinFlowsNew
  <2> SUFFICES ASSUME CountInv, PidInv, FinInv, Cmd.fin, NEW h \in hits
               PROVE  /\ 1024 <= h.sport /\ h.sport < 65536
                      /\ \A p \in Pids \ {pid} : \A i \in DOMAIN Cmd.ports :
                           <<h.sport, h.dport>> # <<FinSport(p, i - 1), Cmd.ports[i]>>
    BY DEF FinFlowsNew
  <2>1. /\ Attempts \in Nat /\ DOMAIN Cmd.ports = 1 .. Attempts /\ Attempts <= 25536
        /\ \A j, k \in 1 .. Attempts : Cmd.ports[j] = Cmd.ports[k] => j = k
    BY CommandFacts DEF CountInv
  <2>2. PICK n \in 0 .. Attempts - 1 : h.sport = FinSport(pid, n) /\ h.dport = Cmd.ports[n + 1]
    BY DEF FinInv
  <2>3. n \in Nat /\ n < 25536 /\ n + 1 \in 1 .. Attempts /\ pid \in Nat
    BY <2>1, PidAssumption DEF PidInv
  <2>4. /\ h.sport = 20000 + Base(pid) + n /\ Base(pid) \in Nat
        /\ h.sport >= 1024 /\ h.sport < 65536
    BY <2>2, <2>3, SourcePorts
  <2>5. ASSUME NEW p \in Pids \ {pid}, NEW i \in DOMAIN Cmd.ports,
               h.sport = FinSport(p, i - 1), h.dport = Cmd.ports[i]
        PROVE  FALSE
    <3>1. i \in 1 .. Attempts /\ Cmd.ports[i] = Cmd.ports[n + 1]
      BY <2>1, <2>2, <2>5
    <3>2. i = n + 1
      BY <2>1, <2>3, <3>1
    <3>3. p \in Nat /\ p - pid < 20000 /\ pid - p < 20000 /\ p \div 65536 = pid \div 65536
      BY PidAssumption DEF PidInv
    <3>4. i - 1 = n
      BY <2>3, <3>2
    <3>5. FinSport(p, n) = 20000 + Base(p) + n /\ Base(p) \in Nat
      BY <2>3, <3>3, SourcePorts
    <3>6. Base(p) = Base(pid)
      BY <2>3, <2>4, <2>5, <3>4, <3>5
    <3> QED BY <2>3, <3>3, <3>6, SameBase
  <2> QED BY <2>4, <2>5
<1> QED BY <1>1, <1>2, <1>3, CountInit, CountNext, FinNext, PTL DEF Spec

(***************************************************************************)
(* The bundles: which line of a text decides about a packet.               *)
(***************************************************************************)

\* A line has a say about a packet.
Concerns(line, pkt) ==
  \/ line.what = "app" /\ line.action = "LD" /\ pkt.uid
  \/ Matches(line, pkt)
  \/ line.what = "default" /\ line.chain = pkt.chain

\* Actions that let a packet through.
Passing == {"P", "LP", "NLD"}

\* Line d decides (0: none has a say): it is the last to have one, before it are the
\* default and tuples, and none of them would drop what d drops.
Decides(d, text, pkt) ==
  /\ Len(text) \in 1 .. 7 /\ DOMAIN text = 1 .. Len(text) /\ d \in 0 .. Len(text)
  /\ d # 0 => Concerns(text[d], pkt)
  /\ d > 1 => text[d].what # "default"
  /\ \A i \in DOMAIN text : Concerns(text[i], pkt) /\ i # d =>
       /\ i < d /\ text[i].what # "app"
       /\ text[d].action = "LD" => text[i].action \in Passing

\* An upper bound in the set is its maximum.
LEMMA LargestOf ==
  ASSUME NEW S, NEW d \in S, S \subseteq Nat, \A i \in S : i <= d
  PROVE  Max(S) = d
<1>1. d >= d /\ \A y \in S : d >= y
  BY SMT
<1>2. \A x \in S : (\A y \in S : x >= y) => x = d
  BY SMT
<1>3. \E x \in S : \A y \in S : x >= y
  BY <1>1
<1> QED BY <1>2, <1>3, Zenon DEF Max

\* A set of line numbers that is not empty has a maximum.
LEMMA SomeLargest ==
  ASSUME NEW S, S \subseteq 1 .. 7, S # {}
  PROVE  Max(S) \in S
<1> DEFINE Top(d) == d \in S /\ \A i \in S : i <= d
<1>1. \E d \in S : \A i \in S : i <= d
  <2>1. Top(7) \/ S \subseteq 1 .. 6
    OBVIOUS
  <2>2. Top(7) \/ Top(6) \/ S \subseteq 1 .. 5
    BY <2>1
  <2>3. Top(7) \/ Top(6) \/ Top(5) \/ S \subseteq 1 .. 4
    BY <2>2
  <2>4. Top(7) \/ Top(6) \/ Top(5) \/ Top(4) \/ S \subseteq 1 .. 3
    BY <2>3
  <2>5. Top(7) \/ Top(6) \/ Top(5) \/ Top(4) \/ Top(3) \/ Top(2) \/ Top(1)
    <3> SUFFICES ASSUME S \subseteq 1 .. 3 PROVE Top(3) \/ Top(2) \/ Top(1)
      BY <2>4
    <3>1. Top(3) \/ S \subseteq 1 .. 2
      OBVIOUS
    <3>2. Top(3) \/ Top(2) \/ S \subseteq {1}
      BY <3>1
    <3>3. ASSUME S \subseteq {1} PROVE Top(1)
      <4>1. \A i \in S : i = 1
        BY <3>3
      <4>2. 1 \in S
        <5>1. PICK x \in S : TRUE
          OBVIOUS
        <5> QED BY <4>1, <5>1
      <4> QED BY <4>1, <4>2
    <3> QED BY <3>2, <3>3
  <2> QED BY <2>5
<1>2. S \subseteq Nat
  OBVIOUS
<1> QED BY <1>1, <1>2, LargestOf

\* The line that decides is the one whose fate the packet meets.
LEMMA Decision ==
  ASSUME NEW d, NEW text, NEW pkt, Decides(d, text, pkt)
  PROVE  Deciding(text, pkt, 0) = d
<1> DEFINE app == {i \in DOMAIN text \ {0} :
                     text[i].what = "app" /\ text[i].action = "LD" /\ pkt.uid}
           tuple == {i \in DOMAIN text \ {0} : Matches(text[i], pkt)}
           basis == {i \in DOMAIN text \ {0} :
                       text[i].what = "default" /\ text[i].chain = pkt.chain}
<1>1. Deciding(text, pkt, 0) = IF app # {} THEN Max(app)
         ELSE IF tuple # {} THEN Max(tuple)
         ELSE IF basis # {} THEN Max(basis) ELSE 0
  BY DEF Deciding
<1>2. /\ app \subseteq Nat /\ tuple \subseteq Nat /\ basis \subseteq Nat
      /\ \A i \in app : text[i].what = "app" /\ i = d /\ i <= d
      /\ \A i \in tuple : i <= d
      /\ \A i \in basis : text[i].what = "default" /\ i <= d
  BY DEF Decides, Concerns
<1>3. d # 0 => d \in app \/ d \in tuple \/ d \in basis
  BY DEF Decides, Concerns
<1>4. d \in basis => d = 1
  BY <1>2 DEF Decides
<1>5. ASSUME d = 1, d \in basis PROVE tuple = {} /\ app = {}
  <2>1. \A i \in tuple : i = 1
    BY <1>2, <1>5 DEF Decides
  <2>2. 1 \notin tuple
    BY <1>2, <1>5 DEF Matches
  <2>3. 1 \notin app
    BY <1>2, <1>5
  <2> QED BY <1>2, <1>5, <2>1, <2>2, <2>3
<1> HIDE DEF app, tuple, basis
<1>6. CASE d \in app
  BY <1>1, <1>2, <1>6, LargestOf
<1>7. CASE d \in tuple
  <2>1. app = {} \/ d \in app
    BY <1>2
  <2> QED BY <1>1, <1>2, <1>6, <1>7, <2>1, LargestOf
<1>8. CASE d \in basis
  BY <1>1, <1>2, <1>4, <1>5, <1>8, LargestOf
<1>9. CASE d = 0
  <2>1. app = {} /\ tuple = {} /\ basis = {}
    BY <1>9 DEF Decides, Concerns, app, tuple, basis
  <2> QED BY <1>1, <1>9, <2>1
<1> QED BY <1>3, <1>6, <1>7, <1>8, <1>9

\* Without the line that drops it, the packet passes.
LEMMA Overlooked ==
  ASSUME NEW d, NEW text, NEW pkt, Decides(d, text, pkt), d # 0, text[d].action = "LD"
  PROVE  Fate(text, pkt, d) = "pass"
<1> DEFINE app == {i \in DOMAIN text \ {d} :
                     text[i].what = "app" /\ text[i].action = "LD" /\ pkt.uid}
           tuple == {i \in DOMAIN text \ {d} : Matches(text[i], pkt)}
           basis == {i \in DOMAIN text \ {d} :
                       text[i].what = "default" /\ text[i].chain = pkt.chain}
           e == Deciding(text, pkt, d)
<1>1. e = IF app # {} THEN Max(app)
         ELSE IF tuple # {} THEN Max(tuple)
         ELSE IF basis # {} THEN Max(basis) ELSE 0
  BY DEF Deciding
<1>2. /\ app \subseteq 1 .. 7 /\ tuple \subseteq 1 .. 7 /\ basis \subseteq 1 .. 7
      /\ \A i \in app \cup tuple \cup basis : text[i].action \in Passing
  BY DEF Decides, Concerns
<1>3. e = 0 \/ e \in app \cup tuple \cup basis
  <2> HIDE DEF app, tuple, basis, e
  <2> QED BY <1>1, <1>2, SomeLargest
<1>4. e = 0 \/ text[e].action \in Passing
  <2> HIDE DEF app, tuple, basis, e
  <2> QED BY <1>2, <1>3
<1> HIDE DEF e
<1> QED BY <1>4 DEF Fate, Passing, e

\* Port 0 stands for any, 8000 is the source port of the UDP match case.
LEMMA Ports == 0 \in Port /\ 8000 \in Port
BY DEF Port

\* A packet of the peer to the target, and of the target to the peer.
Inbound(pkt) ==
  pkt.src = "peer" /\ pkt.dst = "target" /\ pkt.chain = "localin" /\ pkt.uid = FALSE
Outbound(pkt) ==
  pkt.src = "target" /\ pkt.dst = "peer" /\ pkt.chain = "output" /\ pkt.sport = 0

\* A packet of the target sent by the app user.
AppPacket(pkt) == Outbound(pkt) /\ pkt.uid = TRUE

\* ingress_tuple: each of the four ports has a line of its own.
LEMMA IngressRules ==
  ASSUME NEW pkt, Inbound(pkt), pkt.sport = 0, pkt.proto = "tcp",
         NEW d \in 2 .. 5, pkt.dport = 4999 + d
  PROVE  LET text == FirewallText["IngressTuple"] IN
           /\ Decides(d, text, pkt) /\ text[d].what # "app"
           /\ text[d].action = CASE d = 2 -> "P" [] d = 3 -> "LP"
                                 [] d = 4 -> "LD" [] d = 5 -> "NLD"
<1> DEFINE text == FirewallText["IngressTuple"]
<1>0. text = <<Default("P"), FromPeer(5001, "tcp", "P"), FromPeer(5002, "tcp", "LP"),
                      FromPeer(5003, "tcp", "LD"), FromPeer(5004, "tcp", "NLD")>>
  BY DEF FirewallText
<1> HIDE DEF text
<1>1. Len(text) = 5 /\ DOMAIN text = 1 .. 5
  BY <1>0
<1>2. text[1].what = "default" /\ text[1].action = "P"
  BY <1>0 DEF Default
<1>3. /\ \A i \in 2 .. 5 : text[i].what = "tuple"
      /\ text[d].action = CASE d = 2 -> "P" [] d = 3 -> "LP" [] d = 4 -> "LD" [] d = 5 -> "NLD"
  BY <1>0 DEF FromPeer, LocalIn, Tuple
<1>4. \A i \in 2 .. 5 : Concerns(text[i], pkt) <=> i = d
  BY <1>0, Ports DEF FromPeer, LocalIn, Tuple, Matches, Concerns, Inbound
<1>5. Decides(d, text, pkt)
  BY <1>1, <1>2, <1>3, <1>4 DEF Decides, Passing
<1> QED BY <1>3, <1>5 DEF text

\* default_deny and default_allow: the default decides where no tuple does.
LEMMA DefaultRules ==
  ASSUME NEW pkt, Inbound(pkt), pkt.sport = 0, pkt.proto = "tcp"
  PROVE  /\ LET text == FirewallText["DefaultDeny"] IN
              /\ pkt.dport = 5102 =>
                   Decides(1, text, pkt) /\ text[1].action = "LD" /\ text[1].what # "app"
              /\ pkt.dport = 5101 =>
                   Decides(2, text, pkt) /\ text[2].action = "P" /\ text[2].what # "app"
         /\ LET text == FirewallText["DefaultAllow"] IN
              Decides(1, text, pkt) /\ text[1].action = "P" /\ text[1].what # "app"
<1>1. FirewallText["DefaultDeny"] = <<Default("LD"), FromPeer(5101, "tcp", "P")>>
  BY DEF FirewallText
<1>2. FirewallText["DefaultAllow"] = <<Default("P")>>
  BY DEF FirewallText
<1>3. /\ Decides(1, <<Default("P")>>, pkt)
      /\ <<Default("P")>>[1].action = "P" /\ <<Default("P")>>[1].what # "app"
  BY DEF Decides, Concerns, Default, Inbound
<1>4. LET text == <<Default("LD"), FromPeer(5101, "tcp", "P")>> IN
              /\ pkt.dport = 5102 =>
                   Decides(1, text, pkt) /\ text[1].action = "LD" /\ text[1].what # "app"
              /\ pkt.dport = 5101 =>
                   Decides(2, text, pkt) /\ text[2].action = "P" /\ text[2].what # "app"
  BY Ports DEF Decides, Concerns, Default, Inbound, FromPeer, LocalIn, Tuple, Matches
<1> QED BY <1>1, <1>2, <1>3, <1>4

\* egress_tuple: each of the three ports has a line of its own.
LEMMA EgressRules ==
  ASSUME NEW pkt, Outbound(pkt), NEW d \in 2 .. 4,
         \/ d = 2 /\ pkt.proto = "tcp" /\ pkt.dport = 6001
         \/ d = 3 /\ pkt.proto = "tcp" /\ pkt.dport = 6002
         \/ d = 4 /\ pkt.proto = "udp" /\ pkt.dport = 6003
  PROVE  LET text == FirewallText["EgressTuple"] IN
           /\ Decides(d, text, pkt) /\ text[d].what # "app"
           /\ text[d].action = IF d = 3 THEN "LP" ELSE "LD"
<1> DEFINE text == FirewallText["EgressTuple"]
<1>0. text = <<Default("P"), ToPeer(6001, "tcp", "LD"), ToPeer(6002, "tcp", "LP"),
                      ToPeer(6003, "udp", "LD")>>
  BY DEF FirewallText
<1> HIDE DEF text
<1>1. Len(text) = 4 /\ DOMAIN text = 1 .. 4
  BY <1>0
<1>2. text[1].what = "default" /\ text[1].action = "P" /\ text[1].chain = "localin"
  BY <1>0 DEF Default
<1>3. /\ \A i \in 2 .. 4 : text[i].what = "tuple"
      /\ text[d].action = IF d = 3 THEN "LP" ELSE "LD"
  BY <1>0 DEF ToPeer, Tuple
<1>4. \A i \in 2 .. 4 : Concerns(text[i], pkt) <=> i = d
  BY <1>0, Ports DEF ToPeer, Tuple, Matches, Concerns, Outbound
<1>5. Decides(d, text, pkt)
  BY <1>1, <1>2, <1>3, <1>4 DEF Decides, Passing
<1> QED BY <1>3, <1>5 DEF text

\* app_deny and app_allow: only a denied uid has a line of its own.
LEMMA AppRules ==
  ASSUME NEW pkt, AppPacket(pkt)
  PROVE  /\ LET text == FirewallText["AppDeny"] IN
              Decides(2, text, pkt) /\ text[2].what = "app" /\ text[2].action = "LD"
         /\ Decides(0, FirewallText["AppAllow"], pkt)
<1>1. FirewallText["AppDeny"] = <<Default("P"), App("LD")>>
  BY DEF FirewallText
<1>2. FirewallText["AppAllow"] = <<Default("P"), App("LP")>>
  BY DEF FirewallText
<1>3. LET text == <<Default("P"), App("LD")>> IN
        Decides(2, text, pkt) /\ text[2].what = "app" /\ text[2].action = "LD"
  BY DEF Decides, Concerns, Default, Outbound, App, Matches, AppPacket
<1>4. Decides(0, <<Default("P"), App("LP")>>, pkt)
  BY DEF Decides, Concerns, Default, Outbound, App, Matches, AppPacket
<1> QED BY <1>1, <1>2, <1>3, <1>4

\* priority: of two lines for one packet the later decides.
LEMMA PriorityRules ==
  ASSUME NEW pkt, Inbound(pkt), pkt.sport = 0, pkt.proto = "tcp",
         NEW d \in 3 .. 4, pkt.dport = 7998 + d
  PROVE  LET text == FirewallText["Priority"] IN
           /\ pkt.dport = 8001 =>
                Decides(3, text, pkt) /\ text[3].what # "app" /\ text[3].action = "LD"
           /\ pkt.dport = 8002 =>
                Decides(4, text, pkt) /\ text[4].what # "app" /\ text[4].action = "P"
<1> DEFINE text == FirewallText["Priority"]
<1>0. text = <<Default("P"), FromPeer(8001, "tcp", "P"), FromPeer(8001, "tcp", "LD"),
                      FromPeer(8002, "tcp", "P")>>
  BY DEF FirewallText
<1> HIDE DEF text
<1>1. Len(text) = 4 /\ DOMAIN text = 1 .. 4
  BY <1>0
<1>2. text[1].what = "default" /\ text[1].action = "P"
  BY <1>0 DEF Default
<1>3. /\ \A i \in 2 .. 4 : text[i].what = "tuple"
      /\ text[2].action = "P" /\ text[3].action = "LD" /\ text[4].action = "P"
  BY <1>0 DEF FromPeer, LocalIn, Tuple
<1>4. /\ Concerns(text[2], pkt) <=> pkt.dport = 8001
      /\ Concerns(text[3], pkt) <=> pkt.dport = 8001
      /\ Concerns(text[4], pkt) <=> pkt.dport = 8002
  BY <1>0, Ports DEF FromPeer, LocalIn, Tuple, Matches, Concerns, Inbound
<1>5. pkt.dport = 8001 => Decides(3, text, pkt)
  BY <1>1, <1>2, <1>3, <1>4 DEF Decides, Passing
<1>6. pkt.dport = 8002 => Decides(4, text, pkt)
  BY <1>1, <1>2, <1>3, <1>4 DEF Decides, Passing
<1> QED BY <1>3, <1>5, <1>6 DEF text

\* detection: the default drops every packet of the peer.
LEMMA DetectionRules ==
  ASSUME NEW pkt, Inbound(pkt)
  PROVE  LET text == FirewallText["Detection"] IN
           Decides(1, text, pkt) /\ text[1].what # "app" /\ text[1].action = "LD"
<1>1. FirewallText["Detection"] = <<Default("LD")>>
  BY DEF FirewallText
<1>2. LET text == <<Default("LD")>> IN
        Decides(1, text, pkt) /\ text[1].what # "app" /\ text[1].action = "LD"
  BY DEF Decides, Concerns, Default, Inbound
<1> QED BY <1>1, <1>2

\* match_fields: every field is matched by one line only.
LEMMA MatchRules ==
  ASSUME NEW pkt, Inbound(pkt), NEW d \in 1 .. 7,
         \/ d = 1 /\ pkt.sport = 0 /\ pkt.proto = "tcp" /\ pkt.dport = 7111
         \/ d = 2 /\ pkt.sport = 0 /\ pkt.proto = "tcp" /\ pkt.dport = 7001
         \/ d = 3 /\ pkt.sport = 0 /\ pkt.proto = "tcp" /\ pkt.dport = 7002
         \/ d = 4 /\ pkt.sport = 0 /\ pkt.proto = "tcp" /\ pkt.dport \in {7100, 7110}
         \/ d = 5 /\ pkt.sport = 8000 /\ pkt.proto = "udp" /\ pkt.dport = 7200
         \/ d = 6 /\ pkt.sport = 0 /\ pkt.proto = "icmp" /\ pkt.dport = 0
         \/ d = 7 /\ pkt.sport = 0 /\ pkt.proto \in {"tcp", "udp"} /\ pkt.dport = 7300
  PROVE  /\ FirewallText["MatchFields"] = MatchFields
         /\ Decides(d, MatchFields, pkt) /\ MatchFields[d].what # "app"
         /\ MatchFields[d].action = IF d = 1 THEN "P" ELSE "LD"
<1> USE Ports DEF Inbound
<1>1. Len(MatchFields) = 7 /\ DOMAIN MatchFields = 1 .. 7
  BY DEF MatchFields
<1>2. /\ Concerns(MatchFields[1], pkt) /\ MatchFields[1].what = "default"
      /\ MatchFields[1].action = "P"
  BY DEF MatchFields, Default, Concerns
<1>3. \A i \in 2 .. 7 : MatchFields[i].what = "tuple" /\ MatchFields[i].action = "LD"
  BY DEF MatchFields, LocalIn, Tuple
<1>4. \A i \in 2 .. 7 : Concerns(MatchFields[i], pkt) <=> i = d
  BY DEF MatchFields, LocalIn, Tuple, Matches, Concerns, Ip, Proto, PeerSlash24
<1>5. FirewallText["MatchFields"] = MatchFields
  BY DEF FirewallText
<1> QED BY <1>5, <1>1, <1>2, <1>3, <1>4 DEF Decides, Passing

(***************************************************************************)
(* The cases: each is decided by one line of its bundle's text.            *)
(***************************************************************************)

\* The ports a case's command names.
PortsOf(c) == BuildCmd(c).ports

\* The line that decides about every packet of a case is the one the case is about.
DecidedBy(c, d) ==
  LET text == FirewallText[c.bundle] IN
  /\ \A j \in DOMAIN PortsOf(c) : Decides(d, text, Packet(c, PortsOf(c)[j]))
  /\ c.rule \in {0, d}
  /\ c.enforce \in {"blocked", "sent"} => d # 0 /\ text[d].action = "LD"
  /\ c.enforce \in {"allowed", "refused"} => d = 0 \/ text[d].action \in Passing
  /\ d # 0 /\ text[d].what = "app" => c.traffic.kind = "Tcp"

\* What a case expects suits the kind of its traffic: probes that get no answer are only
\* sent, a listener is there where an answer is expected and not where a refusal is.
Planned(c) ==
  /\ Len(PortsOf(c)) >= 1 /\ DOMAIN PortsOf(c) = 1 .. Len(PortsOf(c))
  /\ c.traffic.kind \in {"Tcp", "TcpScan", "TcpBurst", "Udp", "UdpScan", "TcpFinScan", "Icmp"}
  /\ c.traffic.kind \in {"UdpScan", "TcpFinScan"} <=> c.enforce = "sent"
  /\ c.traffic.kind \in {"TcpScan", "TcpBurst", "Udp", "Icmp"} => c.enforce = "blocked"
  /\ c.traffic.kind = "Tcp" => c.enforce \in {"allowed", "refused", "blocked"}
  /\ c.enforce = "allowed" => \A j \in DOMAIN PortsOf(c) : Served(c, PortsOf(c)[j])
  /\ c.enforce = "refused" => \A j \in DOMAIN PortsOf(c) : ~ Served(c, PortsOf(c)[j])
  /\ c.enforce = "refused" => Len(PortsOf(c)) = 1 /\ c.traffic.count = 1

\* Cases whose packets come from the peer, and from the target.
Peers(c) == c.origin = "peer" /\ c.uid = FALSE
Targets(c) == c.origin = "target" /\ c.sport = 0

\* What a packet from the peer looks like.
LEMMA PeerPackets ==
  ASSUME NEW c, NEW port, Peers(c)
  PROVE  LET pkt == Packet(c, port) IN
           /\ Inbound(pkt) /\ pkt.dport = port /\ pkt.sport = c.sport
           /\ pkt.proto = BuildCmd(c).proto
BY DEF Packet, Inbound, Peers

\* What a packet from the target looks like.
LEMMA TargetPackets ==
  ASSUME NEW c, NEW port, Targets(c)
  PROVE  LET pkt == Packet(c, port) IN
           /\ Outbound(pkt) /\ pkt.dport = port /\ pkt.uid = c.uid
           /\ pkt.proto = BuildCmd(c).proto
BY DEF Packet, Outbound, Targets

\* build_cmd chooses the protocol by the kind of traffic.
LEMMA Protocols ==
  ASSUME NEW c
  PROVE  /\ c.traffic.kind \in {"Tcp", "TcpScan", "TcpBurst", "TcpFinScan"} =>
              BuildCmd(c).proto = "tcp"
         /\ c.traffic.kind \in {"Udp", "UdpScan"} => BuildCmd(c).proto = "udp"
         /\ c.traffic.kind = "Icmp" => BuildCmd(c).proto = "icmp"
BY DEF BuildCmd

\* build_cmd names one port for a case with one port, and for ICMP.
LEMMA OnePort ==
  ASSUME NEW c, NEW port,
         IF c.traffic.kind = "Icmp" THEN port = 0 ELSE c.traffic.ports = <<port>>
  PROVE  /\ Len(PortsOf(c)) = 1 /\ DOMAIN PortsOf(c) = 1 .. 1
         /\ \A j \in DOMAIN PortsOf(c) : PortsOf(c)[j] = port
BY DEF PortsOf, BuildCmd

\* The catalog and the bundle's text agree about a case.
Accounted(c) == Planned(c) /\ \E d \in 0 .. 7 : DecidedBy(c, d)

\* A case with one attempt.
Single(c, bundle, kind, port, enforce) ==
  /\ c.bundle = bundle /\ c.enforce = enforce
  /\ c.traffic.kind = kind /\ c.traffic.count = 1
  /\ IF kind = "Icmp" THEN port = 0 ELSE c.traffic.ports = <<port>>
  /\ kind \in {"Tcp", "Udp", "Icmp"}
  /\ enforce \in {"allowed", "refused", "blocked"} /\ (kind # "Tcp" => enforce = "blocked")
  /\ enforce = "allowed" =>
       c.listen = Listen(IF c.origin = "peer" THEN "target" ELSE "peer", "tcp", port)
  /\ enforce = "refused" => c.listen = {}

\* A case with one attempt is accounted for by the line that decides about it.
LEMMA SingleAccounted ==
  ASSUME NEW c, NEW bundle, NEW kind, NEW port, NEW enforce, NEW d \in 0 .. 7,
         Single(c, bundle, kind, port, enforce),
         Decides(d, FirewallText[bundle], Packet(c, port)), c.rule \in {0, d},
         IF enforce = "blocked"
         THEN /\ d # 0 /\ FirewallText[bundle][d].action = "LD"
              /\ FirewallText[bundle][d].what = "app" => kind = "Tcp"
         ELSE d = 0 \/ FirewallText[bundle][d].action \in Passing
  PROVE  Accounted(c)
<1>1. /\ Len(PortsOf(c)) = 1 /\ DOMAIN PortsOf(c) = 1 .. 1
      /\ \A j \in DOMAIN PortsOf(c) : PortsOf(c)[j] = port
  <2>1. IF c.traffic.kind = "Icmp" THEN port = 0 ELSE c.traffic.ports = <<port>>
    BY DEF Single
  <2> QED BY <2>1, OnePort
<1>a. /\ enforce = "allowed" => Served(c, port)
      /\ enforce = "refused" => ~ Served(c, port)
  <2>1. kind = "Tcp" => BuildCmd(c).proto = "tcp"
    BY Protocols DEF Single
  <2>2. Packet(c, port).dst = IF c.origin = "peer" THEN "target" ELSE "peer"
    BY DEF Packet
  <2>3. enforce \in {"allowed", "refused"} => kind = "Tcp"
    BY DEF Single
  <2>4. ASSUME enforce = "allowed" PROVE Served(c, port)
    <3>1. c.listen = Listen(IF c.origin = "peer" THEN "target" ELSE "peer", "tcp", port)
      BY <2>4 DEF Single
    <3> QED BY <2>1, <2>2, <2>3, <2>4, <3>1 DEF Served, Listen
  <2>5. ASSUME enforce = "refused" PROVE ~ Served(c, port)
    <3>1. c.listen = {}
      BY <2>5 DEF Single
    <3> QED BY <3>1 DEF Served
  <2> QED BY <2>4, <2>5
<1>2. Planned(c)
  BY <1>1, <1>a DEF Planned, Single
<1>3. DecidedBy(c, d)
  BY <1>1 DEF DecidedBy, Single
<1> QED BY <1>2, <1>3 DEF Accounted

\* Every ingress case is accounted for by a line of ingress_tuple.
LEMMA IngressAccounted ==
  ASSUME NEW c \in Elems(IngressCases)
  PROVE  Accounted(c)
<1>1. \E k \in 1 .. 4 : c = IngressCases[k]
  <2>1. DOMAIN IngressCases = 1 .. 4
    BY DEF IngressCases
  <2> QED BY <2>1 DEF Elems
<1>2. Peers(c) /\ c.sport = 0 /\ c.rule = 0
  BY <1>1 DEF IngressCases, Probe, FwCase, Tcp, Traffic, Peers
<1>3. \A port : /\ Inbound(Packet(c, port)) /\ Packet(c, port).dport = port
                /\ Packet(c, port).sport = c.sport /\ Packet(c, port).proto = BuildCmd(c).proto
  BY <1>2, PeerPackets
<1>4. CASE c = IngressCases[1]
  <2>1. Single(c, "IngressTuple", "Tcp", 5001, "allowed")
    BY <1>4 DEF IngressCases, Probe, FwCase, Tcp, Traffic, Listen, Serve, AtPeer, Single
  <2> DEFINE pkt == Packet(c, 5001)
  <2>2. Inbound(pkt) /\ pkt.dport = 5001 /\ pkt.sport = 0 /\ pkt.proto = "tcp"
    BY <1>2, <1>3, <2>1, Protocols DEF Single
  <2> HIDE DEF pkt
  <2>3. /\ Decides(2, FirewallText["IngressTuple"], pkt)
        /\ FirewallText["IngressTuple"][2].action = "P"
    BY <1>2, <2>2, IngressRules
  <2> QED BY <1>2, <2>1, <2>3, SingleAccounted DEF Passing, pkt
<1>5. CASE c = IngressCases[2]
  <2>1. Single(c, "IngressTuple", "Tcp", 5002, "allowed")
    BY <1>5 DEF IngressCases, Probe, FwCase, Tcp, Traffic, Listen, Serve, AtPeer, Single
  <2> DEFINE pkt == Packet(c, 5002)
  <2>2. Inbound(pkt) /\ pkt.dport = 5002 /\ pkt.sport = 0 /\ pkt.proto = "tcp"
    BY <1>2, <1>3, <2>1, Protocols DEF Single
  <2> HIDE DEF pkt
  <2>3. /\ Decides(3, FirewallText["IngressTuple"], pkt)
        /\ FirewallText["IngressTuple"][3].action = "LP"
    BY <1>2, <2>2, IngressRules
  <2> QED BY <1>2, <2>1, <2>3, SingleAccounted DEF Passing, pkt
<1>6. CASE c = IngressCases[3]
  <2>1. Single(c, "IngressTuple", "Tcp", 5003, "blocked")
    BY <1>6 DEF IngressCases, Probe, FwCase, Tcp, Traffic, Listen, Serve, AtPeer, Single
  <2> DEFINE pkt == Packet(c, 5003)
  <2>2. Inbound(pkt) /\ pkt.dport = 5003 /\ pkt.sport = 0 /\ pkt.proto = "tcp"
    BY <1>2, <1>3, <2>1, Protocols DEF Single
  <2> HIDE DEF pkt
  <2>3. /\ Decides(4, FirewallText["IngressTuple"], pkt)
        /\ FirewallText["IngressTuple"][4].action = "LD"
    BY <1>2, <2>2, IngressRules
  <2> QED BY <1>2, <2>1, <2>3, SingleAccounted DEF Passing, pkt
<1>7. CASE c = IngressCases[4]
  <2>1. Single(c, "IngressTuple", "Tcp", 5004, "refused")
    BY <1>7 DEF IngressCases, Probe, FwCase, Tcp, Traffic, Listen, Serve, AtPeer, Single
  <2> DEFINE pkt == Packet(c, 5004)
  <2>2. Inbound(pkt) /\ pkt.dport = 5004 /\ pkt.sport = 0 /\ pkt.proto = "tcp"
    BY <1>2, <1>3, <2>1, Protocols DEF Single
  <2> HIDE DEF pkt
  <2>3. /\ Decides(5, FirewallText["IngressTuple"], pkt)
        /\ FirewallText["IngressTuple"][5].action = "NLD"
    BY <1>2, <2>2, IngressRules
  <2> QED BY <1>2, <2>1, <2>3, SingleAccounted DEF Passing, pkt
<1> QED BY <1>1, <1>4, <1>5, <1>6, <1>7

\* Every default case is accounted for by a line of its bundle.
LEMMA DefaultAccounted ==
  ASSUME NEW c \in Elems(DefaultCases)
  PROVE  Accounted(c)
<1>1. \E k \in 1 .. 3 : c = DefaultCases[k]
  <2>1. DOMAIN DefaultCases = 1 .. 3
    BY DEF DefaultCases
  <2> QED BY <2>1 DEF Elems
<1>2. Peers(c) /\ c.sport = 0 /\ c.rule = 0
  BY <1>1 DEF DefaultCases, Probe, FwCase, Tcp, Traffic, Peers
<1>3. \A port : /\ Inbound(Packet(c, port)) /\ Packet(c, port).dport = port
                /\ Packet(c, port).sport = c.sport /\ Packet(c, port).proto = BuildCmd(c).proto
  BY <1>2, PeerPackets
<1>4. CASE c = DefaultCases[1]
  <2>1. Single(c, "DefaultDeny", "Tcp", 5102, "blocked")
    BY <1>4 DEF DefaultCases, Probe, FwCase, Tcp, Traffic, Listen, Serve, AtPeer, Single
  <2> DEFINE pkt == Packet(c, 5102)
  <2>2. Inbound(pkt) /\ pkt.dport = 5102 /\ pkt.sport = 0 /\ pkt.proto = "tcp"
    BY <1>2, <1>3, <2>1, Protocols DEF Single
  <2> HIDE DEF pkt
  <2>3. /\ Decides(1, FirewallText["DefaultDeny"], pkt)
        /\ FirewallText["DefaultDeny"][1].action = "LD"
    BY <1>2, <2>2, DefaultRules
  <2> QED BY <1>2, <2>1, <2>3, SingleAccounted DEF Passing, pkt
<1>5. CASE c = DefaultCases[2]
  <2>1. Single(c, "DefaultDeny", "Tcp", 5101, "allowed")
    BY <1>5 DEF DefaultCases, Probe, FwCase, Tcp, Traffic, Listen, Serve, AtPeer, Single
  <2> DEFINE pkt == Packet(c, 5101)
  <2>2. Inbound(pkt) /\ pkt.dport = 5101 /\ pkt.sport = 0 /\ pkt.proto = "tcp"
    BY <1>2, <1>3, <2>1, Protocols DEF Single
  <2> HIDE DEF pkt
  <2>3. /\ Decides(2, FirewallText["DefaultDeny"], pkt)
        /\ FirewallText["DefaultDeny"][2].action = "P"
    BY <1>2, <2>2, DefaultRules
  <2> QED BY <1>2, <2>1, <2>3, SingleAccounted DEF Passing, pkt
<1>6. CASE c = DefaultCases[3]
  <2>1. Single(c, "DefaultAllow", "Tcp", 5201, "allowed")
    BY <1>6 DEF DefaultCases, Probe, FwCase, Tcp, Traffic, Listen, Serve, AtPeer, Single
  <2> DEFINE pkt == Packet(c, 5201)
  <2>2. Inbound(pkt) /\ pkt.dport = 5201 /\ pkt.sport = 0 /\ pkt.proto = "tcp"
    BY <1>2, <1>3, <2>1, Protocols DEF Single
  <2> HIDE DEF pkt
  <2>3. /\ Decides(1, FirewallText["DefaultAllow"], pkt)
        /\ FirewallText["DefaultAllow"][1].action = "P"
    BY <1>2, <2>2, DefaultRules
  <2> QED BY <1>2, <2>1, <2>3, SingleAccounted DEF Passing, pkt
<1> QED BY <1>1, <1>4, <1>5, <1>6

\* Every priority case is accounted for by the later line.
LEMMA PriorityAccounted ==
  ASSUME NEW c \in Elems(PriorityCases)
  PROVE  Accounted(c)
<1>1. \E k \in 1 .. 2 : c = PriorityCases[k]
  <2>1. DOMAIN PriorityCases = 1 .. 2
    BY DEF PriorityCases
  <2> QED BY <2>1 DEF Elems
<1>2. Peers(c) /\ c.sport = 0 /\ c.rule = 0
  BY <1>1 DEF PriorityCases, Probe, FwCase, Tcp, Traffic, Peers
<1>3. \A port : /\ Inbound(Packet(c, port)) /\ Packet(c, port).dport = port
                /\ Packet(c, port).sport = c.sport /\ Packet(c, port).proto = BuildCmd(c).proto
  BY <1>2, PeerPackets
<1>4. CASE c = PriorityCases[1]
  <2>1. Single(c, "Priority", "Tcp", 8001, "blocked")
    BY <1>4 DEF PriorityCases, Probe, FwCase, Tcp, Traffic, Listen, Serve, AtPeer, Single
  <2> DEFINE pkt == Packet(c, 8001)
  <2>2. Inbound(pkt) /\ pkt.dport = 8001 /\ pkt.sport = 0 /\ pkt.proto = "tcp"
    BY <1>2, <1>3, <2>1, Protocols DEF Single
  <2> HIDE DEF pkt
  <2>3. /\ Decides(3, FirewallText["Priority"], pkt)
        /\ FirewallText["Priority"][3].action = "LD"
    BY <1>2, <2>2, PriorityRules
  <2> QED BY <1>2, <2>1, <2>3, SingleAccounted DEF Passing, pkt
<1>5. CASE c = PriorityCases[2]
  <2>1. Single(c, "Priority", "Tcp", 8002, "allowed")
    BY <1>5 DEF PriorityCases, Probe, FwCase, Tcp, Traffic, Listen, Serve, AtPeer, Single
  <2> DEFINE pkt == Packet(c, 8002)
  <2>2. Inbound(pkt) /\ pkt.dport = 8002 /\ pkt.sport = 0 /\ pkt.proto = "tcp"
    BY <1>2, <1>3, <2>1, Protocols DEF Single
  <2> HIDE DEF pkt
  <2>3. /\ Decides(4, FirewallText["Priority"], pkt)
        /\ FirewallText["Priority"][4].action = "P"
    BY <1>2, <2>2, PriorityRules
  <2> QED BY <1>2, <2>1, <2>3, SingleAccounted DEF Passing, pkt
<1> QED BY <1>1, <1>4, <1>5

\* Every match case is accounted for by a line of match_fields.
LEMMA MatchAccounted ==
  ASSUME NEW c \in Elems(MatchCases)
  PROVE  Accounted(c)
<1>1. \E k \in 1 .. 9 : c = MatchCases[k]
  <2>1. DOMAIN MatchCases = 1 .. 9
    BY DEF MatchCases
  <2> QED BY <2>1 DEF Elems
<1>2. Peers(c) /\ c.rule = 0
  BY <1>1 DEF MatchCases, Probe, FwCase, Tcp, Traffic, UdpAwait, Icmp, Peers
<1>3. \A port : /\ Inbound(Packet(c, port)) /\ Packet(c, port).dport = port
                /\ Packet(c, port).sport = c.sport /\ Packet(c, port).proto = BuildCmd(c).proto
  BY <1>2, PeerPackets
<1>4. CASE c = MatchCases[1]
  <2>1. Single(c, "MatchFields", "Tcp", 7001, "blocked") /\ c.sport = 0
    BY <1>4 DEF MatchCases, Probe, FwCase, Tcp, Traffic, UdpAwait, Icmp, Listen, Serve, AtPeer, Single
  <2> DEFINE pkt == Packet(c, 7001)
  <2>2. Inbound(pkt) /\ pkt.dport = 7001 /\ pkt.sport = 0 /\ pkt.proto = "tcp"
    BY <1>2, <1>3, <2>1, Protocols DEF Single
  <2> HIDE DEF pkt
  <2>3. /\ Decides(2, FirewallText["MatchFields"], pkt)
        /\ FirewallText["MatchFields"][2].action = "LD"
    BY <1>2, <2>2, MatchRules
  <2> QED BY <1>2, <2>1, <2>3, SingleAccounted DEF Passing, pkt
<1>5. CASE c = MatchCases[2]
  <2>1. Single(c, "MatchFields", "Tcp", 7002, "blocked") /\ c.sport = 0
    BY <1>5 DEF MatchCases, Probe, FwCase, Tcp, Traffic, UdpAwait, Icmp, Listen, Serve, AtPeer, Single
  <2> DEFINE pkt == Packet(c, 7002)
  <2>2. Inbound(pkt) /\ pkt.dport = 7002 /\ pkt.sport = 0 /\ pkt.proto = "tcp"
    BY <1>2, <1>3, <2>1, Protocols DEF Single
  <2> HIDE DEF pkt
  <2>3. /\ Decides(3, FirewallText["MatchFields"], pkt)
        /\ FirewallText["MatchFields"][3].action = "LD"
    BY <1>2, <2>2, MatchRules
  <2> QED BY <1>2, <2>1, <2>3, SingleAccounted DEF Passing, pkt
<1>6. CASE c = MatchCases[3]
  <2>1. Single(c, "MatchFields", "Tcp", 7100, "blocked") /\ c.sport = 0
    BY <1>6 DEF MatchCases, Probe, FwCase, Tcp, Traffic, UdpAwait, Icmp, Listen, Serve, AtPeer, Single
  <2> DEFINE pkt == Packet(c, 7100)
  <2>2. Inbound(pkt) /\ pkt.dport = 7100 /\ pkt.sport = 0 /\ pkt.proto = "tcp"
    BY <1>2, <1>3, <2>1, Protocols DEF Single
  <2> HIDE DEF pkt
  <2>3. /\ Decides(4, FirewallText["MatchFields"], pkt)
        /\ FirewallText["MatchFields"][4].action = "LD"
    BY <1>2, <2>2, MatchRules
  <2> QED BY <1>2, <2>1, <2>3, SingleAccounted DEF Passing, pkt
<1>7. CASE c = MatchCases[4]
  <2>1. Single(c, "MatchFields", "Tcp", 7110, "blocked") /\ c.sport = 0
    BY <1>7 DEF MatchCases, Probe, FwCase, Tcp, Traffic, UdpAwait, Icmp, Listen, Serve, AtPeer, Single
  <2> DEFINE pkt == Packet(c, 7110)
  <2>2. Inbound(pkt) /\ pkt.dport = 7110 /\ pkt.sport = 0 /\ pkt.proto = "tcp"
    BY <1>2, <1>3, <2>1, Protocols DEF Single
  <2> HIDE DEF pkt
  <2>3. /\ Decides(4, FirewallText["MatchFields"], pkt)
        /\ FirewallText["MatchFields"][4].action = "LD"
    BY <1>2, <2>2, MatchRules
  <2> QED BY <1>2, <2>1, <2>3, SingleAccounted DEF Passing, pkt
<1>8. CASE c = MatchCases[5]
  <2>1. Single(c, "MatchFields", "Tcp", 7111, "allowed") /\ c.sport = 0
    BY <1>8 DEF MatchCases, Probe, FwCase, Tcp, Traffic, UdpAwait, Icmp, Listen, Serve, AtPeer, Single
  <2> DEFINE pkt == Packet(c, 7111)
  <2>2. Inbound(pkt) /\ pkt.dport = 7111 /\ pkt.sport = 0 /\ pkt.proto = "tcp"
    BY <1>2, <1>3, <2>1, Protocols DEF Single
  <2> HIDE DEF pkt
  <2>3. /\ Decides(1, FirewallText["MatchFields"], pkt)
        /\ FirewallText["MatchFields"][1].action = "P"
    BY <1>2, <2>2, MatchRules
  <2> QED BY <1>2, <2>1, <2>3, SingleAccounted DEF Passing, pkt
<1>9. CASE c = MatchCases[6]
  <2>1. Single(c, "MatchFields", "Udp", 7200, "blocked") /\ c.sport = 8000
    BY <1>9 DEF MatchCases, Probe, FwCase, Tcp, Traffic, UdpAwait, Icmp, Listen, Serve, AtPeer, Single
  <2> DEFINE pkt == Packet(c, 7200)
  <2>2. Inbound(pkt) /\ pkt.dport = 7200 /\ pkt.sport = 8000 /\ pkt.proto = "udp"
    BY <1>2, <1>3, <2>1, Protocols DEF Single
  <2> HIDE DEF pkt
  <2>3. /\ Decides(5, FirewallText["MatchFields"], pkt)
        /\ FirewallText["MatchFields"][5].action = "LD"
        /\ FirewallText["MatchFields"][5].what # "app"
    BY <1>2, <2>2, MatchRules
  <2> QED BY <1>2, <2>1, <2>3, SingleAccounted DEF Passing, pkt
<1>10. CASE c = MatchCases[7]
  <2>1. Single(c, "MatchFields", "Icmp", 0, "blocked") /\ c.sport = 0
    BY <1>10 DEF MatchCases, Probe, FwCase, Tcp, Traffic, UdpAwait, Icmp, Listen, Serve, AtPeer, Single
  <2> DEFINE pkt == Packet(c, 0)
  <2>2. Inbound(pkt) /\ pkt.dport = 0 /\ pkt.sport = 0 /\ pkt.proto = "icmp"
    BY <1>2, <1>3, <2>1, Protocols DEF Single
  <2> HIDE DEF pkt
  <2>3. /\ Decides(6, FirewallText["MatchFields"], pkt)
        /\ FirewallText["MatchFields"][6].action = "LD"
        /\ FirewallText["MatchFields"][6].what # "app"
    BY <1>2, <2>2, MatchRules
  <2> QED BY <1>2, <2>1, <2>3, SingleAccounted DEF Passing, pkt
<1>11. CASE c = MatchCases[8]
  <2>1. Single(c, "MatchFields", "Tcp", 7300, "blocked") /\ c.sport = 0
    BY <1>11 DEF MatchCases, Probe, FwCase, Tcp, Traffic, UdpAwait, Icmp, Listen, Serve, AtPeer, Single
  <2> DEFINE pkt == Packet(c, 7300)
  <2>2. Inbound(pkt) /\ pkt.dport = 7300 /\ pkt.sport = 0 /\ pkt.proto = "tcp"
    BY <1>2, <1>3, <2>1, Protocols DEF Single
  <2> HIDE DEF pkt
  <2>3. /\ Decides(7, FirewallText["MatchFields"], pkt)
        /\ FirewallText["MatchFields"][7].action = "LD"
    BY <1>2, <2>2, MatchRules
  <2> QED BY <1>2, <2>1, <2>3, SingleAccounted DEF Passing, pkt
<1>12. CASE c = MatchCases[9]
  <2>1. Single(c, "MatchFields", "Udp", 7300, "blocked") /\ c.sport = 0
    BY <1>12 DEF MatchCases, Probe, FwCase, Tcp, Traffic, UdpAwait, Icmp, Listen, Serve, AtPeer, Single
  <2> DEFINE pkt == Packet(c, 7300)
  <2>2. Inbound(pkt) /\ pkt.dport = 7300 /\ pkt.sport = 0 /\ pkt.proto = "udp"
    BY <1>2, <1>3, <2>1, Protocols DEF Single
  <2> HIDE DEF pkt
  <2>3. /\ Decides(7, FirewallText["MatchFields"], pkt)
        /\ FirewallText["MatchFields"][7].action = "LD"
        /\ FirewallText["MatchFields"][7].what # "app"
    BY <1>2, <2>2, MatchRules
  <2> QED BY <1>2, <2>1, <2>3, SingleAccounted DEF Passing, pkt
<1> QED BY <1>1, <1>4, <1>5, <1>6, <1>7, <1>8, <1>9, <1>10, <1>11, <1>12

\* Every egress case is accounted for by a line of egress_tuple.
LEMMA EgressAccounted ==
  ASSUME NEW c \in Elems(EgressCases)
  PROVE  Accounted(c)
<1>1. \E k \in 1 .. 3 : c = EgressCases[k]
  <2>1. DOMAIN EgressCases = 1 .. 3
    BY DEF EgressCases
  <2> QED BY <2>1 DEF Elems
<1>2. Targets(c)
  BY <1>1 DEF EgressCases, FwCase, Tcp, UdpAwait, Traffic, Targets
<1>3. \A port : /\ Outbound(Packet(c, port)) /\ Packet(c, port).dport = port
                /\ Packet(c, port).uid = c.uid /\ Packet(c, port).proto = BuildCmd(c).proto
  BY <1>2, TargetPackets
<1>4. CASE c = EgressCases[1]
  <2>1. Single(c, "EgressTuple", "Tcp", 6001, "blocked") /\ c.rule = 2
    BY <1>4 DEF EgressCases, FwCase, Tcp, UdpAwait, Traffic, Listen, Serve, AtPeer, Single
  <2> DEFINE pkt == Packet(c, 6001)
  <2>2. Outbound(pkt) /\ pkt.dport = 6001 /\ pkt.uid = c.uid /\ pkt.proto = "tcp"
    BY <1>2, <1>3, <2>1, Protocols DEF Single
  <2> HIDE DEF pkt
  <2>3. /\ Decides(2, FirewallText["EgressTuple"], pkt)
        /\ FirewallText["EgressTuple"][2].action = "LD"
    BY <1>2, <2>2, EgressRules
  <2> QED BY <1>2, <2>1, <2>3, SingleAccounted DEF Passing, pkt
<1>5. CASE c = EgressCases[2]
  <2>1. Single(c, "EgressTuple", "Tcp", 6002, "allowed") /\ c.rule = 0
    BY <1>5 DEF EgressCases, FwCase, Tcp, UdpAwait, Traffic, Listen, Serve, AtPeer, Single
  <2> DEFINE pkt == Packet(c, 6002)
  <2>2. Outbound(pkt) /\ pkt.dport = 6002 /\ pkt.uid = c.uid /\ pkt.proto = "tcp"
    BY <1>2, <1>3, <2>1, Protocols DEF Single
  <2> HIDE DEF pkt
  <2>3. /\ Decides(3, FirewallText["EgressTuple"], pkt)
        /\ FirewallText["EgressTuple"][3].action = "LP"
    BY <1>2, <2>2, EgressRules
  <2> QED BY <1>2, <2>1, <2>3, SingleAccounted DEF Passing, pkt
<1>6. CASE c = EgressCases[3]
  <2>1. Single(c, "EgressTuple", "Udp", 6003, "blocked") /\ c.rule = 4
    BY <1>6 DEF EgressCases, FwCase, Tcp, UdpAwait, Traffic, Listen, Serve, AtPeer, Single
  <2> DEFINE pkt == Packet(c, 6003)
  <2>2. Outbound(pkt) /\ pkt.dport = 6003 /\ pkt.uid = c.uid /\ pkt.proto = "udp"
    BY <1>2, <1>3, <2>1, Protocols DEF Single
  <2> HIDE DEF pkt
  <2>3. /\ Decides(4, FirewallText["EgressTuple"], pkt)
        /\ FirewallText["EgressTuple"][4].action = "LD"
        /\ FirewallText["EgressTuple"][4].what # "app"
    BY <1>2, <2>2, EgressRules
  <2> QED BY <1>2, <2>1, <2>3, SingleAccounted DEF Passing, pkt
<1> QED BY <1>1, <1>4, <1>5, <1>6

\* Every app case is accounted for by a line of its bundle, or by none.
LEMMA AppAccounted ==
  ASSUME NEW c \in Elems(AppCases)
  PROVE  Accounted(c)
<1>1. \E k \in 1 .. 2 : c = AppCases[k]
  <2>1. DOMAIN AppCases = 1 .. 2
    BY DEF AppCases
  <2> QED BY <2>1 DEF Elems
<1>2. Targets(c) /\ c.uid = TRUE /\ c.rule = 0
  BY <1>1 DEF AppCases, AsUid, FwCase, Tcp, Traffic, Targets
<1>3. \A port : /\ Outbound(Packet(c, port)) /\ Packet(c, port).dport = port
                /\ Packet(c, port).uid = c.uid /\ Packet(c, port).proto = BuildCmd(c).proto
  BY <1>2, TargetPackets
<1>4. CASE c = AppCases[1]
  <2>1. Single(c, "AppDeny", "Tcp", 6101, "blocked")
    BY <1>4 DEF AppCases, AsUid, FwCase, Tcp, Traffic, Listen, Serve, AtPeer, Single
  <2> DEFINE pkt == Packet(c, 6101)
  <2>2. AppPacket(pkt)
    BY <1>2, <1>3 DEF AppPacket
  <2> HIDE DEF pkt
  <2>3. /\ Decides(2, FirewallText["AppDeny"], pkt)
        /\ FirewallText["AppDeny"][2].action = "LD"
    BY <2>2, AppRules
  <2> QED BY <1>2, <2>1, <2>3, SingleAccounted DEF Passing, pkt
<1>5. CASE c = AppCases[2]
  <2>1. Single(c, "AppAllow", "Tcp", 6101, "allowed")
    BY <1>5 DEF AppCases, AsUid, FwCase, Tcp, Traffic, Listen, Serve, AtPeer, Single
  <2> DEFINE pkt == Packet(c, 6101)
  <2>2. AppPacket(pkt)
    BY <1>2, <1>3 DEF AppPacket
  <2> HIDE DEF pkt
  <2>3. /\ Decides(0, FirewallText["AppAllow"], pkt)
    BY <2>2, AppRules
  <2> QED BY <1>2, <2>1, <2>3, SingleAccounted DEF Passing, pkt
<1> QED BY <1>1, <1>4, <1>5

\* What the catalog says of a detection case.
DetectionCase(c) ==
  /\ c.bundle = "Detection" /\ Peers(c) /\ c.sport = 0 /\ c.rule = 0
  /\ c.enforce = IF c.traffic.kind \in {"UdpScan", "TcpFinScan"} THEN "sent" ELSE "blocked"
  /\ \/ /\ c.event = "PortScan" /\ c.traffic.kind \in {"TcpScan", "UdpScan", "TcpFinScan"}
        /\ c.traffic.count = 1 /\ c.traffic.ports \in {ScanPorts(9001), ScanPorts(9011)}
     \/ /\ c.event = "ConnectionAbnormal" /\ c.traffic.kind = "TcpBurst"
        /\ c.traffic.count = 5 /\ c.traffic.ports = <<9100>>
     \/ /\ c.event = "none" /\ c.traffic.kind = "TcpScan"
        /\ c.traffic.count = 1 /\ c.traffic.ports = <<9201, 9202>>

\* The detection cases are these.
LEMMA DetectionFacts ==
  ASSUME NEW c \in Elems(DetectionCases)
  PROVE  DetectionCase(c)
<1>1. \E k \in 1 .. 5 : c = DetectionCases[k]
  <2>1. DOMAIN DetectionCases = 1 .. 5
    BY DEF DetectionCases
  <2> QED BY <2>1 DEF Elems
<1>2. CASE c \in {DetectionCases[1], DetectionCases[2], DetectionCases[3]}
  BY <1>2 DEF DetectionCases, DetectionCase, Scan, FwCase, Traffic, Peers
<1>3. CASE c = DetectionCases[4]
  BY <1>3 DEF DetectionCases, DetectionCase, FwCase, Traffic, Peers
<1>4. CASE c = DetectionCases[5]
  BY <1>4 DEF DetectionCases, DetectionCase, FwCase, Traffic, Probe, Peers
<1> QED BY <1>1, <1>2, <1>3, <1>4

\* Every detection case is accounted for by the default.
LEMMA DetectionAccounted ==
  ASSUME NEW c \in Elems(DetectionCases)
  PROVE  Accounted(c)
<1>1. DetectionCase(c)
  BY DetectionFacts
<1>2. Len(PortsOf(c)) >= 1 /\ DOMAIN PortsOf(c) = 1 .. Len(PortsOf(c))
  <2>1. PortsOf(c) = c.traffic.ports
    BY <1>1 DEF DetectionCase, PortsOf, BuildCmd
  <2>2. c.traffic.ports \in {ScanPorts(9001), ScanPorts(9011), <<9100>>, <<9201, 9202>>}
    BY <1>1 DEF DetectionCase
  <2>3. CASE c.traffic.ports \in {ScanPorts(9001), ScanPorts(9011)}
    <3>1. PICK from \in Nat : PortsOf(c) = ScanPorts(from)
      BY <2>1, <2>3
    <3> QED BY <3>1, FivePorts
  <2>4. CASE c.traffic.ports = <<9100>>
    <3>1. Len(<<9100>>) = 1 /\ DOMAIN <<9100>> = 1 .. 1
      OBVIOUS
    <3>2. PortsOf(c) = <<9100>>
      BY <2>1, <2>4
    <3> QED BY <3>1, <3>2
  <2>5. CASE c.traffic.ports = <<9201, 9202>>
    <3>1. Len(<<9201, 9202>>) = 2 /\ DOMAIN <<9201, 9202>> = 1 .. 2
      OBVIOUS
    <3>2. PortsOf(c) = <<9201, 9202>>
      BY <2>1, <2>5
    <3> QED BY <3>1, <3>2
  <2> QED BY <2>2, <2>3, <2>4, <2>5
<1>3. Planned(c)
  BY <1>1, <1>2 DEF DetectionCase, Planned
<1>4. \A port : Inbound(Packet(c, port))
  BY <1>1, PeerPackets DEF DetectionCase
<1>5. \A port : LET text == FirewallText["Detection"] IN
        Decides(1, text, Packet(c, port)) /\ text[1].what # "app" /\ text[1].action = "LD"
  BY <1>4, DetectionRules
<1>6. DecidedBy(c, 1)
  BY <1>1, <1>5 DEF DetectionCase, DecidedBy
<1> QED BY <1>3, <1>6 DEF Accounted

(***************************************************************************)
(* The verdicts.                                                           *)
(***************************************************************************)

\* An index of the flattened list of attempts names a port.
LEMMA Quotient ==
  ASSUME NEW n \in Nat, NEW r \in Nat \ {0}, NEW l \in Nat, n < l * r
  PROVE  n \div r \in Nat /\ n \div r < l
<1> DEFINE q == n \div r
<1>1. q \in Nat /\ q * r <= n
  OBVIOUS
<1> HIDE DEF q
<1>2. ASSUME q >= l PROVE FALSE
  <2>1. PICK k \in Nat : q = l + k
    BY <1>1, <1>2
  <2>2. q * r = l * r + k * r
    BY <2>1
  <2>3. k * r >= 0 /\ l * r \in Nat /\ q * r \in Nat /\ k * r \in Nat
    BY <1>1, <2>1
  <2> QED BY <1>1, <2>2, <2>3
<1> QED BY <1>1, <1>2 DEF q

\* The catalog accounts for every case that is judged by its verdict.
LEMMA CasesAccounted ==
  ASSUME case \in {AllCases[i] : i \in DOMAIN AllCases}
  PROVE  /\ case.group # "traffic" => Accounted(case)
         /\ case.group = "detection" => DetectionCase(case)
<1>1. /\ \A c \in Elems(IngressCases) : Accounted(c)
      /\ \A c \in Elems(DefaultCases) : Accounted(c)
      /\ \A c \in Elems(EgressCases) : Accounted(c)
      /\ \A c \in Elems(AppCases) : Accounted(c)
      /\ \A c \in Elems(MatchCases) : Accounted(c)
      /\ \A c \in Elems(DetectionCases) : Accounted(c) /\ DetectionCase(c)
      /\ \A c \in Elems(PriorityCases) : Accounted(c)
  BY IngressAccounted, DefaultAccounted, EgressAccounted, AppAccounted, MatchAccounted,
     DetectionAccounted, DetectionFacts, PriorityAccounted
<1> QED BY <1>1, CatalogCases, Groups

\* When the next attempt begins and how long the loop takes.
Paced(result, at) ==
  IF Parallel THEN clock' = clock /\ clock <= at /\ at < clock + Second
  ELSE /\ at = clock /\ clock <= clock'
       /\ clock' <= clock + Overhead + IF result = "timeout" THEN Cmd.timeout ELSE 0

\* A probe has one of the results of an attempt on its port.
LEMMA ProbeOutcome ==
  ASSUME CountInv, BurstProbe \/ LoopProbe
  PROVE  \E result \in Attempt(PortOf(next)) :
           \/ result = "error" /\ GivesUp
           \/ \E at \in Nat : /\ Tried(IF result = "error" THEN "other" ELSE result, at)
                              /\ Paced(result, at) /\ (result = "error" => Parallel)
<1>1. /\ clock \in Nat /\ case \in {AllCases[i] : i \in DOMAIN AllCases}
      /\ Cmd.timeout \in Nat /\ Overhead \in Nat
  BY CommandFacts, TimeAssumption DEF CountInv
<1>2. CASE BurstProbe
  <2>1. PICK result \in Attempt(PortOf(next)), delay \in ThreadDelays :
          LET outcome == IF result = "error" THEN "other" ELSE result IN
            /\ tally' = Record(outcome)
            /\ hits' = Seen(outcome, Hit(PortOf(next), clock + delay))
    BY <1>2 DEF BurstProbe
  <2> DEFINE outcome == IF result = "error" THEN "other" ELSE result
             at == clock + delay
  <2>3. at \in Nat /\ clock <= at /\ at < clock + Second
    BY <1>1, TimeAssumption DEF Second
  <2>4. Tried(outcome, at)
    BY <1>2, <2>1 DEF Tried, BurstProbe, Stay
  <2>5. Paced(result, at) /\ Parallel
    BY <1>2, <2>3 DEF BurstProbe, Paced
  <2> HIDE DEF at
  <2> QED BY <2>3, <2>4, <2>5, Zenon
<1>3. CASE LoopProbe
  <2>1. PICK result \in Attempt(PortOf(next)) :
          \/ result = "error" /\ Fail
          \/ /\ result # "error"
             /\ tally' = Record(result)
             /\ \E lost \in IF Timed THEN 0 .. Overhead ELSE {0} :
                  clock' = clock + lost
                             + IF Timed /\ result = "timeout" THEN Cmd.timeout ELSE 0
             /\ hits' = Seen(result, Hit(PortOf(next), clock))
             /\ next' = next + 1 /\ UNCHANGED <<pc, verdict>> /\ Stay
    BY <1>3 DEF LoopProbe
  <2>2. CASE result = "error"
    <3>1. GivesUp
      BY <1>3, <2>1, <2>2 DEF LoopProbe, GivesUp
    <3> QED BY <2>2, <3>1
  <2>3. CASE result # "error"
    <3>1. Tried(result, clock)
      BY <1>3, <2>1, <2>3 DEF LoopProbe, Tried, Stay
    <3>2. PICK lost \in Nat :
            /\ lost <= Overhead
            /\ clock' = clock + lost
                          + IF Timed /\ result = "timeout" THEN Cmd.timeout ELSE 0
      BY <1>1, <2>1, <2>3
    <3>3. /\ clock <= clock'
          /\ clock' <= clock + Overhead + IF result = "timeout" THEN Cmd.timeout ELSE 0
      BY <1>1, <3>2
    <3>4. ~ Parallel
      BY <1>3 DEF LoopProbe
    <3>5. Paced(result, clock)
      BY <3>3, <3>4 DEF Paced
    <3> QED BY <1>1, <2>3, <3>1, <3>5, Zenon
  <2> QED BY <2>2, <2>3
<1> QED BY <1>2, <1>3

\* The attempt is one on a port of the command.
LEMMA NextPort ==
  ASSUME CountInv, next < Attempts
  PROVE  \E j \in 1 .. Len(Cmd.ports) : PortOf(next) = Cmd.ports[j]
<1>1. /\ Len(Cmd.ports) \in Nat /\ Repeat \in Nat \ {0} /\ next \in Nat
      /\ next < Len(Cmd.ports) * Repeat
  BY CommandFacts DEF CountInv, Attempts
<1> DEFINE q == next \div Repeat
<1>2. q \in Nat /\ q < Len(Cmd.ports)
  BY <1>1, Quotient
<1>3. PortOf(next) = Cmd.ports[q + 1]
  BY DEF PortOf
<1> HIDE DEF q
<1> QED BY <1>1, <1>2, <1>3

\* The printed verdict is that of the tally.
DoneInv == pc = "done" => verdict = Verdict(tally)

\* A listener of the case answered.
AnswerGiven == env.listening /\ \E j \in 1 .. Len(Cmd.ports) : Served(case, Cmd.ports[j])

\* A success was an answer of the case's listener; a timeout or a denial was idps-fw's doing.
EarnedInv ==
  /\ tally["success"] > 0 => Cmd.proto = "icmp" \/ AnswerGiven
  /\ tally["timeout"] > 0 \/ tally["denied"] > 0 =>
       \E j \in 1 .. Len(Cmd.ports) : FateOf(Cmd.ports[j]) # "pass"

\* What idps-fw and the listener did shows in the outcome of an attempt.
LEMMA EarnedAttempt ==
  ASSUME case \in {AllCases[i] : i \in DOMAIN AllCases}, NEW port, NEW result \in Attempt(port)
  PROVE  /\ result = "success" =>
              Cmd.proto = "icmp" \/ (env.listening /\ Served(case, port))
         /\ result \in {"timeout", "denied"} => FateOf(port) # "pass"
<1>1. Answer(port) = "success" => env.listening /\ Served(case, port)
  BY DEF Answer, ClassifyIo
<1>2. Answer(port) \in {"success", "refused"}
  BY DEF Answer, ClassifyIo
<1>3. \/ Attempt(port) \in {FinAttempt(port), TcpAttempt(port), UdpAttempt(port)}
      \/ Cmd.proto = "icmp" /\ Attempt(port) = IcmpAttempt(port)
  BY CommandFacts DEF Attempt
<1>a. FateOf(port) \in {"deny", "drop", "pass"}
  BY DEF FateOf, Fate
<1>4. CASE result \in TcpAttempt(port)
  BY <1>1, <1>2, <1>4, <1>a DEF TcpAttempt, ClassifyIo
<1>5. CASE result \in UdpAttempt(port)
  BY <1>1, <1>2, <1>5, <1>a DEF UdpAttempt, ClassifyIo
<1>6. CASE result \in FinAttempt(port)
  BY <1>6 DEF FinAttempt
<1>7. CASE Cmd.proto = "icmp" /\ result \in IcmpAttempt(port)
  BY <1>7, <1>a DEF IcmpAttempt, ClassifyIo
<1> QED BY <1>3, <1>4, <1>5, <1>6, <1>7

\* The verdict is printed once and the tally stays.
LEMMA DoneNext == CountInv /\ DoneInv /\ [Next]_vars => DoneInv'
<1> SUFFICES ASSUME CountInv, DoneInv, [Next]_vars PROVE DoneInv'
  OBVIOUS
<1>1. CASE Spawn \/ Start \/ GivesUp
  BY <1>1 DEF Spawn, Start, GivesUp, Fail, DoneInv
<1>2. CASE Emit
  BY <1>2 DEF Emit, DoneInv, Verdict
<1>3. CASE UNCHANGED vars
  BY <1>3 DEF vars, DoneInv, Verdict
<1>4. CASE \E outcome \in Outcome : \E at \in Nat : Tried(outcome, at)
  BY <1>4 DEF Tried, DoneInv
<1> QED BY <1>1, <1>2, <1>3, <1>4, Steps

\* Every attempt keeps that.
LEMMA EarnedNext == CountInv /\ TypeOK /\ EarnedInv /\ [Next]_vars => EarnedInv'
<1> SUFFICES ASSUME CountInv, TypeOK, EarnedInv, [Next]_vars PROVE EarnedInv'
  OBVIOUS
<1>1. ASSUME UNCHANGED <<case, env>>
      PROVE  /\ UNCHANGED <<Cmd, AnswerGiven>>
             /\ \A port : FateOf(port)' = FateOf(port)
  BY <1>1 DEF Cmd, FateOf, AnswerGiven
<1>2. CASE Spawn \/ Start \/ Emit \/ GivesUp \/ UNCHANGED vars
  BY <1>1, <1>2, OtherStep DEF EarnedInv
<1>3. CASE BurstProbe \/ LoopProbe
  <2>1. PICK result \in Attempt(PortOf(next)) :
           \/ result = "error" /\ GivesUp
           \/ \E at \in Nat : Tried(IF result = "error" THEN "other" ELSE result, at)
    BY <1>3, ProbeOutcome
  <2>2. SUFFICES ASSUME NEW at \in Nat, Tried(IF result = "error" THEN "other" ELSE result, at)
                 PROVE  EarnedInv'
    BY <1>2, <2>1
  <2> DEFINE o == IF result = "error" THEN "other" ELSE result
  <2>3. /\ UNCHANGED <<case, env>> /\ tally' = Record(o) /\ next < Attempts
    BY <2>2 DEF Tried
  <2>4. o \in Outcome /\ case \in {AllCases[i] : i \in DOMAIN AllCases}
    BY AttemptFacts DEF CountInv, Outcome
  <2>6. PICK j \in 1 .. Len(Cmd.ports) : PortOf(next) = Cmd.ports[j]
    BY <2>3, NextPort
  <2>5. /\ o = "success" => Cmd.proto = "icmp" \/ AnswerGiven
        /\ o \in {"timeout", "denied"} => FateOf(PortOf(next)) # "pass"
    BY <2>4, <2>6, EarnedAttempt DEF AnswerGiven
  <2> HIDE DEF o
  <2>7. \A x \in Outcome : tally'[x] > 0 => tally[x] > 0 \/ x = o
    BY <2>3, <2>4 DEF Record, TypeOK
  <2>8. /\ tally'["success"] > 0 => Cmd.proto = "icmp" \/ AnswerGiven
        /\ tally'["timeout"] > 0 \/ tally'["denied"] > 0 =>
             \E k \in 1 .. Len(Cmd.ports) : FateOf(Cmd.ports[k]) # "pass"
    <3>1. "success" \in Outcome /\ "timeout" \in Outcome /\ "denied" \in Outcome
      BY DEF Outcome
    <3> QED BY <2>5, <2>6, <2>7, <3>1, Zenon DEF EarnedInv
  <2> QED BY <1>1, <2>3, <2>8 DEF EarnedInv
<1> QED BY <1>2, <1>3 DEF Next

\* A line overlooked lets every packet of a case it should block through.
LEMMA Overlooking ==
  ASSUME case \in {AllCases[i] : i \in DOMAIN AllCases}, case.group # "traffic",
         case.enforce = "blocked", env.missed = DecidingLine(case),
         NEW j \in 1 .. Len(Cmd.ports)
  PROVE  FateOf(Cmd.ports[j]) = "pass"
<1>1. Accounted(case) /\ Cmd.ports = PortsOf(case)
  BY CasesAccounted DEF Cmd, PortsOf
<1>2. PICK d \in 0 .. 7 : DecidedBy(case, d)
  BY <1>1 DEF Accounted
<1> DEFINE text == FirewallText[case.bundle]
           last == Len(PortsOf(case))
<1>3. /\ DOMAIN PortsOf(case) = 1 .. last /\ last \in DOMAIN PortsOf(case)
      /\ j \in DOMAIN PortsOf(case)
  <2>1. Len(Cmd.ports) \in Nat
    BY CommandFacts
  <2> QED BY <1>1, <2>1 DEF Accounted, Planned
<1>4. /\ \A k \in DOMAIN PortsOf(case) : Decides(d, text, Packet(case, PortsOf(case)[k]))
      /\ d # 0 /\ text[d].action = "LD"
  BY <1>2 DEF DecidedBy
<1>5. DecidingLine(case) = d
  <2>1. Deciding(text, Packet(case, PortsOf(case)[last]), 0) = d
    BY <1>3, <1>4, Decision
  <2> QED BY <2>1 DEF DecidingLine, PortsOf
<1>6. Fate(text, Packet(case, PortsOf(case)[j]), d) = "pass"
  BY <1>3, <1>4, Overlooked
<1> QED BY <1>1, <1>5, <1>6 DEF FateOf

\* "blocked proves the rule matched" (peer::traffic, Tally::verdict): for every case of
\* the catalog, every wrong surroundings and every schedule, a verdict that agrees with
\* the case was idps-fw's and the listener's doing.  A blocked one needs an attempt whose
\* packet was dropped or denied, which no packet is once the line that decides about the
\* case is overlooked; an allowed one the case's listener; a refused one a closed port.
THEOREM VerdictsAreEarned == Spec => []VerdictEarned
<1>1. Init => DoneInv /\ EarnedInv
  BY DEF Init, DoneInv, EarnedInv, Outcome
<1>2. CountInv /\ TypeOK /\ DoneInv /\ EarnedInv => VerdictEarned
  <2> SUFFICES ASSUME CountInv, TypeOK, DoneInv, EarnedInv,
                      pc = "done", verdict = case.enforce, case.group # "traffic"
               PROVE  /\ verdict = "blocked" => env.missed # DecidingLine(case)
                      /\ verdict = "allowed" =>
                           env.listening /\ \E i \in DOMAIN Cmd.ports : ServedPort(i)
                      /\ verdict = "refused" =>
                           /\ tally["refused"] = Attempts
                           /\ \A i \in DOMAIN Cmd.ports : ~ ServedPort(i)
    BY DEF VerdictEarned
  <2>1. /\ case \in {AllCases[i] : i \in DOMAIN AllCases} /\ verdict = Verdict(tally)
        /\ next = Attempts /\ Recorded = next /\ tally \in [Outcome -> Nat]
    BY DEF CountInv, DoneInv, TypeOK
  <2>2. Planned(case)
    BY <2>1, CasesAccounted DEF Accounted
  <2>a. Cmd.ports = PortsOf(case) /\ DOMAIN Cmd.ports = 1 .. Len(Cmd.ports)
    BY <2>2 DEF Cmd, PortsOf, Planned
  <2>3. ASSUME verdict = "blocked" PROVE env.missed # DecidingLine(case)
    <3>1. tally["timeout"] > 0 \/ tally["denied"] > 0
      BY <2>1, <2>3 DEF Verdict
    <3>2. PICK j \in 1 .. Len(Cmd.ports) : FateOf(Cmd.ports[j]) # "pass"
      BY <3>1 DEF EarnedInv
    <3> QED BY <2>1, <2>3, <3>2, Overlooking
  <2>4. ASSUME verdict = "allowed"
        PROVE  env.listening /\ \E i \in DOMAIN Cmd.ports : ServedPort(i)
    <3>1. tally["success"] > 0
      BY <2>1, <2>4 DEF Verdict
    <3>2. case.traffic.kind = "Tcp"
      BY <2>2, <2>4 DEF Planned
    <3>3. Cmd.proto # "icmp"
      BY <3>2 DEF Cmd, BuildCmd
    <3>4. AnswerGiven
      BY <3>1, <3>3 DEF EarnedInv
    <3> QED BY <2>a, <3>4, Zenon DEF AnswerGiven, ServedPort
  <2>5. ASSUME verdict = "refused"
        PROVE  tally["refused"] = Attempts /\ \A i \in DOMAIN Cmd.ports : ~ ServedPort(i)
    <3>1. tally["refused"] > 0
      BY <2>1, <2>5 DEF Verdict
    <3>2. Len(PortsOf(case)) = 1 /\ case.traffic.count = 1
      BY <2>2, <2>5 DEF Planned
    <3>3. Attempts = 1
      <4>1. Cmd.ports = PortsOf(case) /\ Cmd.count = 1
        BY <3>2 DEF Cmd, PortsOf, BuildCmd
      <4>2. Repeat = 1 /\ Len(Cmd.ports) = 1
        BY <3>2, <4>1 DEF Repeat
      <4> QED BY <4>2 DEF Attempts
    <3>4. tally["refused"] = 1
      BY <2>1, <3>1, <3>3 DEF Recorded, Outcome
    <3>5. \A i \in DOMAIN Cmd.ports : ~ ServedPort(i)
      BY <2>2, <2>5, <2>a DEF Planned, ServedPort
    <3> QED BY <3>3, <3>4, <3>5
  <2> QED BY <2>3, <2>4, <2>5
<1> QED BY <1>1, <1>2, CountInit, CountNext, WorkerTypeCorrect, DoneNext, EarnedNext, PTL
        DEF Spec

\* The verdict of a tally with this outcome only.
Yields(outcome) ==
  CASE outcome = "success" -> "allowed"
    [] outcome \in {"timeout", "denied"} -> "blocked"
    [] outcome \in {"refused", "sent"} -> outcome
    [] OTHER -> "unknown"

\* Where the case must work every outcome so far is the one it expects.
ExpectedInv ==
  Works /\ case.group # "traffic" =>
    pc # "failed" /\ \A o \in Outcome : tally[o] > 0 => Yields(o) = case.enforce

\* What is right about surroundings in which the case must work.
LEMMA WorkingEnv ==
  ASSUME Works
  PROVE  /\ env.missed = 0 /\ env.nsenter \in {"ok", "nopath", "absent"}
         /\ env.listening = TRUE /\ env.stray = FALSE /\ env.busy = FALSE
         /\ env.root = TRUE /\ env.ip = TRUE
BY DEF Works, Right

\* An idps-fw that overlooks nothing does to every packet what the case expects.
LEMMA ExpectedFate ==
  ASSUME case \in {AllCases[i] : i \in DOMAIN AllCases}, case.group # "traffic",
         env.missed = 0, NEW j \in 1 .. Len(Cmd.ports)
  PROVE  /\ case.enforce \in {"allowed", "refused"} => FateOf(Cmd.ports[j]) = "pass"
         /\ case.enforce \in {"blocked", "sent"} => FateOf(Cmd.ports[j]) \in {"drop", "deny"}
         /\ FateOf(Cmd.ports[j]) = "deny" => case.traffic.kind = "Tcp"
<1>1. Accounted(case) /\ Cmd.ports = PortsOf(case)
  BY CasesAccounted DEF Cmd, PortsOf
<1>2. PICK d \in 0 .. 7 : DecidedBy(case, d)
  BY <1>1 DEF Accounted
<1> DEFINE text == FirewallText[case.bundle]
<1>3. j \in DOMAIN PortsOf(case)
  BY <1>1 DEF Accounted, Planned
<1>4. /\ case.enforce \in {"blocked", "sent"} => d # 0 /\ text[d].action = "LD"
      /\ case.enforce \in {"allowed", "refused"} => d = 0 \/ text[d].action \in Passing
      /\ d # 0 /\ text[d].what = "app" => case.traffic.kind = "Tcp"
  BY <1>2 DEF DecidedBy
<1>5. Deciding(text, Packet(case, PortsOf(case)[j]), 0) = d
  BY <1>2, <1>3, Decision DEF DecidedBy
<1>6. FateOf(Cmd.ports[j]) = IF d = 0 \/ text[d].action \in {"P", "LP", "NLD"} THEN "pass"
                             ELSE IF text[d].what = "app" THEN "deny" ELSE "drop"
  BY <1>1, <1>5 DEF FateOf, Fate
<1> HIDE DEF text
<1> QED BY <1>4, <1>6 DEF Passing

\* Every attempt has the outcome that the case expects.
LEMMA ExpectedAttempt ==
  ASSUME case \in {AllCases[i] : i \in DOMAIN AllCases}, case.group # "traffic", Works,
         NEW j \in 1 .. Len(Cmd.ports), NEW result \in Attempt(Cmd.ports[j])
  PROVE  result # "error" /\ Yields(result) = case.enforce
<1> DEFINE port == Cmd.ports[j]
           kind == case.traffic.kind
<1>1. /\ case.enforce \in {"allowed", "refused"} => FateOf(port) = "pass"
      /\ case.enforce \in {"blocked", "sent"} => FateOf(port) \in {"drop", "deny"}
      /\ FateOf(port) = "deny" => kind = "Tcp"
  BY WorkingEnv, ExpectedFate
<1>2. Planned(case)
  BY CasesAccounted DEF Accounted
<1>3. ~ SourcePortTaken /\ env.root /\ ~ env.stray
  BY WorkingEnv, Zenon DEF SourcePortTaken
<1>4. /\ case.enforce = "allowed" => Answer(port) = "success"
      /\ case.enforce = "refused" => Answer(port) = "refused"
  <2>1. Cmd.ports = PortsOf(case) /\ j \in DOMAIN PortsOf(case)
    BY <1>2 DEF Cmd, PortsOf, Planned
  <2>2. /\ case.enforce = "allowed" => Served(case, port)
        /\ case.enforce = "refused" => ~ Served(case, port)
    BY <1>2, <2>1 DEF Planned
  <2>3. env.listening
    BY WorkingEnv, Zenon
  <2> QED BY <2>2, <2>3 DEF Answer, ClassifyIo
<1> HIDE DEF port
<1>5. CASE kind \in {"Tcp", "TcpScan", "TcpBurst"}
  <2>1. Attempt(port) = TcpAttempt(port)
    BY <1>5 DEF Attempt, Cmd, BuildCmd
  <2>2. case.enforce \in {"allowed", "refused", "blocked"}
    BY <1>2, <1>5 DEF Planned
  <2> QED BY <1>1, <1>3, <1>4, <2>1, <2>2 DEF TcpAttempt, ClassifyIo, Yields, port
<1>6. CASE kind = "Udp"
  <2>1. Attempt(port) = UdpAttempt(port) /\ Cmd.await
    BY <1>6 DEF Attempt, Cmd, BuildCmd
  <2>2. case.enforce = "blocked"
    BY <1>2, <1>6 DEF Planned
  <2> QED BY <1>1, <1>3, <1>6, <2>1, <2>2 DEF UdpAttempt, ClassifyIo, Yields, port
<1>7. CASE kind = "UdpScan"
  <2>1. Attempt(port) = UdpAttempt(port) /\ ~ Cmd.await
    BY <1>7 DEF Attempt, Cmd, BuildCmd
  <2>2. case.enforce = "sent"
    BY <1>2, <1>7 DEF Planned
  <2> QED BY <1>1, <1>3, <1>7, <2>1, <2>2 DEF UdpAttempt, ClassifyIo, Yields, port
<1>8. CASE kind = "TcpFinScan"
  <2>1. Attempt(port) = FinAttempt(port)
    BY <1>8 DEF Attempt, Cmd, BuildCmd
  <2>2. case.enforce = "sent"
    BY <1>2, <1>8 DEF Planned
  <2> QED BY <1>3, <2>1, <2>2 DEF FinAttempt, Yields, port
<1>9. CASE kind = "Icmp"
  <2>1. Attempt(port) = IcmpAttempt(port)
    BY <1>9 DEF Attempt, Cmd, BuildCmd
  <2>2. case.enforce = "blocked"
    BY <1>2, <1>9 DEF Planned
  <2> QED BY <1>1, <1>3, <1>9, <2>1, <2>2 DEF IcmpAttempt, ClassifyIo, Yields, port
<1> QED BY <1>2, <1>5, <1>6, <1>7, <1>8, <1>9 DEF Planned

\* So the tally has no other outcomes, and nothing fails.
LEMMA ExpectedNext == CountInv /\ TypeOK /\ ExpectedInv /\ [Next]_vars => ExpectedInv'
<1> SUFFICES ASSUME CountInv, TypeOK, ExpectedInv, [Next]_vars,
                    Works', (case.group # "traffic")'
             PROVE  /\ pc' # "failed"
                    /\ \A o \in Outcome : tally'[o] > 0 => Yields(o) = case'.enforce
  BY DEF ExpectedInv
<1>1. UNCHANGED <<case, env>>
  BY Steps, OtherStep DEF Tried
<1>2. /\ Works /\ case.group # "traffic" /\ pc # "failed"
      /\ \A o \in Outcome : tally[o] > 0 => Yields(o) = case.enforce
  BY <1>1 DEF ExpectedInv, Works
<1>3. Spawnable /\ env.root
  BY <1>2, WorkingEnv DEF Spawnable
<1>4. CASE Spawn \/ Start \/ Emit \/ UNCHANGED vars
  <2>1. UNCHANGED <<case, tally>>
    BY <1>4, OtherStep
  <2>2. pc' # "failed"
    BY <1>2, <1>3, <1>4 DEF Spawn, Start, Emit, vars
  <2> QED BY <1>2, <2>1, <2>2
<1>5. CASE BurstProbe \/ LoopProbe
  <2>1. PICK result \in Attempt(PortOf(next)) :
           \/ result = "error" /\ GivesUp
           \/ \E at \in Nat : Tried(IF result = "error" THEN "other" ELSE result, at)
    BY <1>5, ProbeOutcome
  <2>2. next < Attempts
    BY <1>5 DEF BurstProbe, LoopProbe
  <2>3. PICK j \in 1 .. Len(Cmd.ports) : PortOf(next) = Cmd.ports[j]
    BY <2>2, NextPort
  <2>4. case \in {AllCases[i] : i \in DOMAIN AllCases}
    BY DEF CountInv
  <2>5. result # "error" /\ Yields(result) = case.enforce
    BY <1>2, <2>1, <2>3, <2>4, ExpectedAttempt
  <2>6. result \in Outcome
    BY <2>1, <2>4, <2>5, AttemptFacts
  <2>7. PICK at \in Nat : Tried(result, at)
    BY <2>1, <2>5
  <2>8. pc' # "failed" /\ tally' = Record(result)
    BY <1>2, <2>7 DEF Tried
  <2>9. \A o \in Outcome : tally'[o] > 0 => tally[o] > 0 \/ o = result
    BY <2>6, <2>8 DEF Record, TypeOK
  <2> QED BY <1>1, <1>2, <2>5, <2>8, <2>9
<1> QED BY <1>4, <1>5 DEF Next

\* The catalog, the rule texts of its bundles, build_cmd and the worker agree: for every
\* case but the traffic ones, where idps-fw enforces its bundle and the surroundings are
\* right, the worker does not fail, its verdict is the one the case expects and the
\* rule_id the case expects is the line that decides.  With any process ids and delays.
THEOREM VerdictsAreAsExpected == Spec => []VerdictAsExpected
<1>1. Init => ExpectedInv
  BY DEF Init, ExpectedInv
<1>2. CountInv /\ TypeOK /\ DoneInv /\ ExpectedInv => VerdictAsExpected
  <2> SUFFICES ASSUME CountInv, TypeOK, DoneInv, ExpectedInv,
                      Ended, Works, case.group # "traffic"
               PROVE  /\ verdict = case.enforce
                      /\ case.rule # 0 => case.rule = DecidingLine(case)
    BY DEF VerdictAsExpected
  <2>1. /\ pc = "done" /\ verdict = Verdict(tally)
        /\ \A o \in Outcome : tally[o] > 0 => Yields(o) = case.enforce
    BY DEF ExpectedInv, Ended, DoneInv
  <2>2. /\ case \in {AllCases[i] : i \in DOMAIN AllCases}
        /\ next = Attempts /\ Recorded = next /\ tally \in [Outcome -> Nat]
    BY <2>1 DEF CountInv, TypeOK
  <2>3. Planned(case) /\ Cmd.ports = PortsOf(case)
    BY <2>2, CasesAccounted DEF Accounted, Cmd, PortsOf
  <2>4. Attempts > 0
    <3>1. Len(Cmd.ports) \in Nat \ {0} /\ Repeat \in Nat \ {0}
      BY <2>2, <2>3, CommandFacts DEF Planned
    <3> QED BY <3>1 DEF Attempts
  <2>5. verdict = case.enforce
    <3>1. \E o \in Outcome : tally[o] > 0
      BY <2>2, <2>4 DEF Recorded, Outcome
    <3>2. case.enforce \in {"allowed", "blocked", "refused", "sent"}
      BY <2>3 DEF Planned
    <3> QED BY <2>1, <2>2, <3>1, <3>2 DEF Verdict, Yields, Outcome
  <2>6. ASSUME case.rule # 0 PROVE case.rule = DecidingLine(case)
    <3>1. PICK d \in 0 .. 7 : DecidedBy(case, d)
      BY <2>2, CasesAccounted DEF Accounted
    <3> DEFINE last == Len(PortsOf(case))
    <3>2. last \in DOMAIN PortsOf(case)
      <4>1. Len(Cmd.ports) \in Nat
        BY <2>2, CommandFacts
      <4> QED BY <2>3, <4>1 DEF Planned
    <3>3. /\ Decides(d, FirewallText[case.bundle], Packet(case, PortsOf(case)[last]))
          /\ case.rule = d
      BY <2>6, <3>1, <3>2 DEF DecidedBy
    <3>4. Deciding(FirewallText[case.bundle], Packet(case, PortsOf(case)[last]), 0) = d
      BY <3>3, Decision
    <3> QED BY <3>3, <3>4 DEF DecidingLine, PortsOf
  <2> QED BY <2>5, <2>6
<1>3. Init => DoneInv
  BY DEF Init, DoneInv
<1> QED BY <1>1, <1>2, <1>3, CountInit, CountNext, WorkerTypeCorrect, DoneNext,
          ExpectedNext, PTL DEF Spec

(***************************************************************************)
(* The detectors.                                                          *)
(***************************************************************************)

\* A new element is one more.
LEMMA OneMore ==
  ASSUME NEW T, IsFiniteSet(T), NEW x, x \notin T
  PROVE  IsFiniteSet(T \cup {x}) /\ Cardinality(T \cup {x}) = Cardinality(T) + 1
BY FS_AddElement

\* Three different elements.
LEMMA AtLeastThree ==
  ASSUME NEW S, IsFiniteSet(S), NEW a \in S, NEW b \in S, NEW c \in S, a # b, a # c, b # c
  PROVE  Cardinality(S) >= 3
<1>1. IsFiniteSet({a}) /\ Cardinality({a}) = 1
  BY FS_Singleton
<1>2. IsFiniteSet({a} \cup {b}) /\ Cardinality({a} \cup {b}) = 2
  <2>1. b \notin {a}
    OBVIOUS
  <2> QED BY <1>1, <2>1, OneMore
<1>3. IsFiniteSet({a} \cup {b} \cup {c}) /\ Cardinality({a} \cup {b} \cup {c}) = 3
  <2>1. c \notin {a} \cup {b}
    OBVIOUS
  <2> QED BY <1>2, <2>1, OneMore
<1>4. Cardinality({a} \cup {b} \cup {c}) <= Cardinality(S)
  BY FS_Subset
<1> QED BY <1>3, <1>4, FS_CardinalityType

\* Four different elements.
LEMMA AtLeastFour ==
  ASSUME NEW S, IsFiniteSet(S), NEW a \in S, NEW b \in S, NEW c \in S, NEW d \in S,
         a # b, a # c, a # d, b # c, b # d, c # d
  PROVE  Cardinality(S) >= 4
<1>1. IsFiniteSet(S \ {d}) /\ Cardinality(S \ {d}) = Cardinality(S) - 1
  BY FS_RemoveElement
<1>2. Cardinality(S \ {d}) >= 3
  BY <1>1, AtLeastThree
<1> QED BY <1>1, <1>2, FS_CardinalityType

\* A subset of a pair.
LEMMA AtMostTwo ==
  ASSUME NEW S, NEW a, NEW b, S \subseteq {a, b}
  PROVE  Cardinality(S) < 3
<1>1. IsFiniteSet({a}) /\ Cardinality({a}) = 1
  BY FS_Singleton
<1>2. IsFiniteSet({a, b}) /\ Cardinality({a, b}) <= 2
  <2>1. {a, b} = {a} \cup {b}
    OBVIOUS
  <2>2. /\ IsFiniteSet({a} \cup {b})
        /\ (Cardinality({a} \cup {b}) = 1 \/ Cardinality({a} \cup {b}) = 2)
    BY <1>1, FS_AddElement
  <2> QED BY <2>1, <2>2
<1>3. Cardinality(S) <= Cardinality({a, b}) /\ IsFiniteSet(S)
  BY <1>2, FS_Subset
<1>4. Cardinality(S) \in Nat /\ Cardinality({a, b}) \in Nat
  BY <1>2, <1>3, FS_CardinalityType
<1> QED BY <1>2, <1>3, <1>4

\* Of five times within 20 units at least three fall into one second.
LEMMA Pigeonhole ==
  ASSUME NEW t \in Nat, NEW f, \A n \in 0 .. 4 : f[n] \in Nat /\ t <= f[n] /\ f[n] < t + Second
  PROVE  \E i, j, k \in 0 .. 4 : /\ i < j /\ j < k
           /\ f[i] \div Second = f[j] \div Second /\ f[j] \div Second = f[k] \div Second
<1> DEFINE q == t \div Second
           g(n) == f[n] \div Second
<1>1. \A n \in 0 .. 4 : g(n) = q \/ g(n) = q + 1
  <2>1. ASSUME NEW a \in Nat, t <= a, a < t + 20
        PROVE  a \div 20 = t \div 20 \/ a \div 20 = t \div 20 + 1
    BY <2>1
  <2> QED BY <2>1 DEF Second
<1> HIDE DEF q, g
<1>2. \E i, j, k \in 0 .. 4 : i < j /\ j < k /\ g(i) = g(j) /\ g(j) = g(k)
  <2>1. /\ g(0) \in {q, q + 1} /\ g(1) \in {q, q + 1} /\ g(2) \in {q, q + 1}
        /\ g(3) \in {q, q + 1} /\ g(4) \in {q, q + 1}
    BY <1>1
  <2> QED BY <2>1
<1> QED BY <1>2 DEF g

\* The most that an attempt of the loop takes.
Pace == IF Cmd.proto = "udp" THEN 2 ELSE 6

\* The hit of attempt n of a probe that began at t.
HitOf(h, n, t) ==
  /\ h.nth = n /\ h.dport = PortOf(n) /\ t <= h.at
  /\ h.at <= IF Parallel THEN t + Second - 1 ELSE t + n * Pace

\* The probe began at t, is not behind its pace, and all its hits were seen.
ScanFrom(t) ==
  /\ t <= clock /\ clock <= IF Parallel THEN t ELSE t + next * Pace
  /\ \A n \in 0 .. next - 1 : \E h \in hits : HitOf(h, n, t)

\* Only ports of the command are hit.
PortsHit ==
  \A h \in hits : h.at \in Nat /\ \E j \in 1 .. Len(Cmd.ports) : h.dport = Cmd.ports[j]

\* What the detectors of idps-fw have seen of a probe.
ScanInv ==
  /\ IsFiniteSet(hits) /\ PortsHit
  /\ Timed /\ env = Right => \E t \in Nat : ScanFrom(t)

\* Only a denial at connect time has that outcome.
LEMMA AttemptDenied ==
  ASSUME case \in {AllCases[i] : i \in DOMAIN AllCases}, NEW port,
         NEW result \in Attempt(port), FateOf(port) # "deny"
  PROVE  result # "denied"
<1>1. Attempt(port) \in
        {FinAttempt(port), TcpAttempt(port), UdpAttempt(port), IcmpAttempt(port)}
  BY CommandFacts DEF Attempt
<1>2. Answer(port) # "denied" /\ FateOf(port) \in {"drop", "pass"}
  BY DEF Answer, ClassifyIo, FateOf, Fate
<1> QED BY <1>1, <1>2 DEF FinAttempt, TcpAttempt, UdpAttempt, IcmpAttempt, ClassifyIo

\* The probes of a detection case are sent, and the TCP ones time out.
LEMMA DetectionAttempt ==
  ASSUME case \in {AllCases[i] : i \in DOMAIN AllCases}, Timed, env = Right,
         NEW j \in 1 .. Len(Cmd.ports), NEW result \in Attempt(Cmd.ports[j])
  PROVE  /\ result \in {"timeout", "sent"} /\ (Cmd.proto = "udp" => result = "sent")
<1>1. Works /\ case.group = "detection" /\ DetectionCase(case)
  BY CasesAccounted DEF Works, Right, Timed
<1>2. case.enforce \in {"blocked", "sent"} /\ case.traffic.kind # "Tcp"
  BY <1>1 DEF DetectionCase
<1>3. FateOf(Cmd.ports[j]) # "deny"
  BY <1>1, <1>2, WorkingEnv, ExpectedFate
<1>4. result # "error" /\ Yields(result) = case.enforce
  BY <1>1, ExpectedAttempt
<1>5. result \in Outcome
  BY <1>4, AttemptFacts
<1>6. result \in {"timeout", "denied", "sent"}
  BY <1>2, <1>4, <1>5 DEF Yields, Outcome
<1>7. result # "denied"
  BY <1>3, AttemptDenied
<1>8. Cmd.proto = "udp" => case.enforce = "sent"
  BY <1>1 DEF DetectionCase, Cmd, BuildCmd
<1> QED BY <1>4, <1>6, <1>7, <1>8 DEF Yields

\* An attempt of the loop takes its timeout and the overhead, no more.
LEMMA LoopPace ==
  ASSUME case \in {AllCases[i] : i \in DOMAIN AllCases}, Timed, env = Right, ~ Parallel,
         Overhead <= 2, NEW result \in {"timeout", "sent"},
         Cmd.proto = "udp" => result = "sent"
  PROVE  Overhead + (IF result = "timeout" THEN Cmd.timeout ELSE 0) <= Pace
<1>1. DetectionCase(case)
  BY CasesAccounted DEF Timed
<1>2. CASE Cmd.proto = "udp"
  BY <1>2, TimeAssumption DEF Pace
<1>3. CASE Cmd.proto # "udp"
  <2>1. case.traffic.kind = "TcpBurst"
    <3>1. CASE case.event = "ConnectionAbnormal"
      BY <1>1, <3>1 DEF DetectionCase
    <3>2. CASE case.event = "none"
      <4>1. Cmd.proto = "tcp" /\ Len(Cmd.ports) = 2 /\ Cmd.count = 1
        BY <1>1, <3>2 DEF DetectionCase, Cmd, BuildCmd
      <4> QED BY <4>1 DEF Parallel
    <3>3. CASE case.event = "PortScan"
      <4>1. PICK from \in Nat : case.traffic.ports = ScanPorts(from)
        BY <1>1, <3>3 DEF DetectionCase
      <4>2. Cmd.proto = "tcp" /\ Cmd.ports = case.traffic.ports /\ Cmd.count = 1
        BY <1>1, <1>3, <3>3 DEF DetectionCase, Cmd, BuildCmd
      <4>3. Len(Cmd.ports) = 5
        BY <4>1, <4>2, FivePorts
      <4> QED BY <4>2, <4>3 DEF Parallel
    <3> QED BY <1>1, <3>1, <3>2, <3>3 DEF DetectionCase
  <2>2. Cmd.timeout = 4
    BY <2>1 DEF Cmd, BuildCmd
  <2> QED BY <1>3, <2>2, TimeAssumption DEF Pace
<1> QED BY <1>2, <1>3

\* Every attempt adds its hit in time.
LEMMA ScanNext == Overhead <= 2 /\ CountInv /\ ScanInv /\ [Next]_vars => ScanInv'
<1> SUFFICES ASSUME Overhead <= 2, CountInv, ScanInv, [Next]_vars PROVE ScanInv'
  OBVIOUS
<1>1. ASSUME UNCHANGED case
      PROVE  UNCHANGED <<Cmd, Parallel, Pace, Timed>> /\ \A n : PortOf(n)' = PortOf(n)
  BY <1>1 DEF Cmd, Parallel, Pace, Timed, PortOf, Repeat
<1>2. CASE Spawn \/ Start \/ Emit \/ GivesUp \/ UNCHANGED vars
  <2>1. /\ UNCHANGED <<case, env, clock, next, hits, Cmd, Parallel, Pace, Timed>>
        /\ \A n : PortOf(n)' = PortOf(n)
    BY <1>1, <1>2, OtherStep
  <2>2. \A t \in Nat : ScanFrom(t) => ScanFrom(t)'
    BY <2>1 DEF ScanFrom, HitOf
  <2>3. PortsHit' /\ IsFiniteSet(hits')
    BY <2>1 DEF PortsHit, ScanInv
  <2> QED BY <2>1, <2>2, <2>3 DEF ScanInv
<1>3. CASE BurstProbe \/ LoopProbe
  <2>1. PICK result \in Attempt(PortOf(next)) :
           \/ result = "error" /\ GivesUp
           \/ \E at \in Nat : /\ Tried(IF result = "error" THEN "other" ELSE result, at)
                              /\ Paced(result, at)
    BY <1>3, ProbeOutcome
  <2>2. SUFFICES ASSUME NEW at \in Nat, Paced(result, at),
                        Tried(IF result = "error" THEN "other" ELSE result, at)
                 PROVE  ScanInv'
    BY <1>2, <2>1
  <2> DEFINE o == IF result = "error" THEN "other" ELSE result
  <2>0. PICK hit, m : hit = Hit(PortOf(next), at) /\ m = next
    OBVIOUS
  <2>3. /\ UNCHANGED <<case, env, Cmd, Parallel, Pace, Timed>> /\ next' = next + 1
        /\ hits' = Seen(o, hit) /\ next < Attempts /\ \A n : PortOf(n)' = PortOf(n)
    BY <1>1, <2>0, <2>2 DEF Tried
  <2>4. /\ m \in Nat /\ case \in {AllCases[i] : i \in DOMAIN AllCases}
        /\ next \in Nat /\ clock \in Nat
    BY <2>0 DEF CountInv
  <2>5. PICK j \in 1 .. Len(Cmd.ports) : PortOf(next) = Cmd.ports[j]
    BY <2>3, NextPort
  <2>6. hit.nth = m /\ hit.dport = PortOf(m) /\ hit.at = at /\ m = next
    BY <2>0 DEF Hit
  <2> HIDE DEF o
  <2>7. hits' = hits \/ hits' = hits \cup {hit}
    BY <2>3 DEF Seen
  <2>8. IsFiniteSet(hits')
    BY <2>7, FS_AddElement DEF ScanInv
  <2>9. PortsHit'
    BY <2>3, <2>5, <2>6, <2>7 DEF PortsHit, ScanInv
  <2>10. ASSUME Timed, env = Right PROVE \E t \in Nat : ScanFrom(t)'
    <3>1. PICK t \in Nat : ScanFrom(t)
      BY <2>10 DEF ScanInv
    <3>2. result \in {"timeout", "sent"} /\ (Cmd.proto = "udp" => result = "sent")
      BY <2>1, <2>4, <2>5, <2>10, DetectionAttempt
    <3>3. hits' = hits \cup {hit}
      BY <2>3, <3>2 DEF Seen, o
    <3>4. /\ t <= clock /\ clock <= IF Parallel THEN t ELSE t + next * Pace
          /\ Pace \in {2, 6}
      BY <3>1 DEF ScanFrom, Pace
    <3>5. /\ t <= clock' /\ clock' <= IF Parallel THEN t ELSE t + (next + 1) * Pace
          /\ t <= at /\ at <= IF Parallel THEN t + Second - 1 ELSE t + next * Pace
      <4>1. CASE Parallel
        BY <2>2, <2>4, <3>4, <4>1 DEF Paced, Second
      <4>2. CASE ~ Parallel
        <5>1. Overhead + (IF result = "timeout" THEN Cmd.timeout ELSE 0) <= Pace
          BY <2>4, <2>10, <3>2, <4>2, LoopPace
        <5>2. /\ at = clock /\ clock <= clock'
              /\ clock' <= clock + Overhead + (IF result = "timeout" THEN Cmd.timeout ELSE 0)
          BY <2>2, <4>2 DEF Paced
        <5>3. Cmd.timeout \in Nat /\ Overhead \in Nat /\ clock' \in Nat
          BY <2>4, <1>3, CommandFacts, ProbeStep, TimeAssumption
        <5>4. clock' <= clock + Pace
          BY <2>4, <3>4, <5>1, <5>2, <5>3
        <5>5. (next + 1) * Pace = next * Pace + Pace
          BY <2>4, <3>4
        <5>6. next * Pace \in Nat
          BY <2>4, <3>4
        <5> QED BY <2>4, <3>4, <4>2, <5>2, <5>3, <5>4, <5>5, <5>6
      <4> QED BY <4>1, <4>2
    <3>6. HitOf(hit, m, t)'
      BY <2>3, <2>6, <3>5 DEF HitOf
    <3>7. \A n \in 0 .. next - 1 : \E h \in hits' : HitOf(h, n, t)'
      BY <2>3, <3>1, <3>3 DEF ScanFrom, HitOf
    <3>8. \A n \in 0 .. next' - 1 : \E h \in hits' : HitOf(h, n, t)'
      <4>1. \A n \in 0 .. next' - 1 : n \in 0 .. next - 1 \/ n = m
        BY <2>3, <2>4, <2>6
      <4> QED BY <3>3, <3>6, <3>7, <4>1
    <3>9. ScanFrom(t)'
      BY <2>3, <3>5, <3>8 DEF ScanFrom
    <3> QED BY <3>9
  <2> QED BY <2>3, <2>8, <2>9, <2>10 DEF ScanInv
<1> QED BY <1>2, <1>3 DEF Next

\* Five ports within a second: three of them in the same whole second.
LEMMA ScanSeen ==
  ASSUME CountInv, ScanInv, DetectionCase(case), case.event = "PortScan",
         next = Attempts, NEW t \in Nat, ScanFrom(t)
  PROVE  \E s \in Seconds : Cardinality(InSecond(s)) >= 3
<1>1. PICK from \in Nat : case.traffic.ports = ScanPorts(from)
  BY DEF DetectionCase
<1>2. /\ Cmd.ports = case.traffic.ports /\ Cmd.count = 1
      /\ Cmd.proto = "udp" \/ (Cmd.proto = "tcp" /\ case.traffic.kind # "UdpScan")
  BY DEF DetectionCase, Cmd, BuildCmd
<1>3. /\ Len(Cmd.ports) = 5 /\ \A i \in 1 .. 5 : Cmd.ports[i] = from + i - 1
  BY <1>1, <1>2, FivePorts
<1>4. Repeat = 1 /\ Attempts = 5 /\ (Parallel \/ Pace = 2)
  <2>1. Repeat = 1
    BY <1>2 DEF Repeat
  <2>2. Attempts = 5
    BY <1>3, <2>1 DEF Attempts
  <2>3. Parallel \/ Pace = 2
    BY <1>2, <1>3 DEF Parallel, Pace
  <2> QED BY <2>1, <2>2, <2>3
<1>5. \A n \in 0 .. 4 : PortOf(n) = from + n
  BY <1>3, <1>4 DEF PortOf
<1>6. \A n \in 0 .. 4 : \E h \in hits : HitOf(h, n, t)
  BY <1>4 DEF ScanFrom
<1> DEFINE hit == [n \in 0 .. 4 |-> CHOOSE h \in hits : HitOf(h, n, t)]
           at == [n \in 0 .. 4 |-> hit[n].at]
<1>7. \A n \in 0 .. 4 : hit[n] \in hits /\ HitOf(hit[n], n, t)
  BY <1>6
<1> HIDE DEF hit
<1>8. \A n \in 0 .. 4 : at[n] \in Nat /\ t <= at[n] /\ at[n] < t + Second
  <2> SUFFICES ASSUME NEW n \in 0 .. 4
               PROVE  hit[n].at \in Nat /\ t <= hit[n].at /\ hit[n].at < t + Second
    OBVIOUS
  <2>1. hit[n].at \in Nat
    BY <1>7 DEF ScanInv, PortsHit
  <2>2. t <= hit[n].at /\ hit[n].at <= IF Parallel THEN t + Second - 1 ELSE t + n * Pace
    BY <1>7 DEF HitOf
  <2> QED BY <1>4, <2>1, <2>2 DEF Second
<1>9. \A n \in 0 .. 4 : hit[n].dport = from + n /\ hit[n].at = at[n]
  BY <1>5, <1>7 DEF HitOf
<1> HIDE DEF at
<1>10. PICK i, j, k \in 0 .. 4 : /\ i < j /\ j < k
          /\ at[i] \div Second = at[j] \div Second /\ at[j] \div Second = at[k] \div Second
  BY <1>8, Pigeonhole
<1> DEFINE s == at[i] \div Second
<1>11. s \in Seconds
  BY <1>7, <1>9 DEF Seconds
<1>12. from + i \in InSecond(s) /\ from + j \in InSecond(s) /\ from + k \in InSecond(s)
  BY <1>7, <1>9, <1>10 DEF InSecond
<1>13. IsFiniteSet(InSecond(s))
  <2>1. InSecond(s) \subseteq from .. from + 4
    BY <1>3 DEF InSecond, ScanInv, PortsHit
  <2>2. IsFiniteSet(from .. from + 4)
    BY FS_Interval
  <2> QED BY <2>1, <2>2, FS_Subset
<1>14. from + i # from + j /\ from + i # from + k /\ from + j # from + k
  BY <1>10
<1> HIDE DEF s
<1>15. Cardinality(InSecond(s)) >= 3
  BY <1>12, <1>13, <1>14, AtLeastThree
<1> QED BY <1>11, <1>15

\* Attempts 0 to 3 of the burst: four hits within the span of a second.
LEMMA BurstSeen ==
  ASSUME CountInv, ScanInv, DetectionCase(case), case.event = "ConnectionAbnormal",
         next = Attempts, NEW t \in Nat, ScanFrom(t)
  PROVE  \E h \in hits : Cardinality({g \in hits : g.at \in h.at .. h.at + Second}) >= 4
<1>1. Cmd.ports = <<9100>> /\ Cmd.count = 5 /\ Cmd.proto = "tcp"
  BY DEF DetectionCase, Cmd, BuildCmd
<1>2. Repeat = 5 /\ Attempts = 5 /\ ~ Parallel /\ Pace = 6
  BY <1>1 DEF Repeat, Attempts, Parallel, Pace
<1>3. \A n \in 0 .. 3 : \E h \in hits :
        h.nth = n /\ h.at \in Nat /\ t <= h.at /\ h.at <= t + n * 6
  <2>1. \A n \in 0 .. 3 : \E h \in hits : HitOf(h, n, t)
    BY <1>2 DEF ScanFrom
  <2>2. \A h \in hits : h.at \in Nat
    BY DEF ScanInv, PortsHit
  <2>3. \A n \in 0 .. 3 : \A h \in hits :
          HitOf(h, n, t) => h.nth = n /\ t <= h.at /\ h.at <= t + n * 6
    BY <1>2 DEF HitOf
  <2> QED BY <2>1, <2>2, <2>3
<1>4. PICK h \in hits : h.nth = 0 /\ h.at = t
  BY <1>3
<1>5. PICK h1 \in hits : h1.nth = 1 /\ h1.at \in t .. t + 20
  BY <1>3
<1>6. PICK h2 \in hits : h2.nth = 2 /\ h2.at \in t .. t + 20
  BY <1>3
<1>7. PICK h3 \in hits : h3.nth = 3 /\ h3.at \in t .. t + 20
  BY <1>3
<1> DEFINE S == {g \in hits : g.at \in h.at .. h.at + Second}
<1>8. h \in S /\ h1 \in S /\ h2 \in S /\ h3 \in S
  BY <1>4, <1>5, <1>6, <1>7 DEF Second
<1>9. IsFiniteSet(S)
  BY FS_Subset DEF ScanInv
<1>10. h # h1 /\ h # h2 /\ h # h3 /\ h1 # h2 /\ h1 # h3 /\ h2 # h3
  BY <1>4, <1>5, <1>6, <1>7
<1> HIDE DEF S
<1>11. Cardinality(S) >= 4
  BY <1>8, <1>9, <1>10, AtLeastFour
<1> QED BY <1>11 DEF S

\* Two ports are never three.
LEMMA BelowThreshold ==
  ASSUME CountInv, ScanInv, DetectionCase(case), case.event = "none", NEW s
  PROVE  Cardinality(InSecond(s)) < 3
<1>1. Cmd.ports = <<9201, 9202>>
  BY DEF DetectionCase, Cmd, BuildCmd
<1>2. InSecond(s) \subseteq {9201, 9202}
  BY <1>1 DEF InSecond, ScanInv, PortsHit
<1> QED BY <1>2, AtMostTwo

\* A complete probe of a detection case is what its detector looks for, wherever in a
\* second it begins and however its threads are scheduled (probe_parallel, run_traffic),
\* while the loop loses at most 100 ms between two attempts.  That is as much as it can
\* afford: four attempts of the burst, 200 ms each, have to begin within one second.
THEOREM ScansAreDetected ==
  ASSUME Overhead <= 2
  PROVE  Spec => []ScanDetected
<1>1. Init => ScanInv
  <2> SUFFICES ASSUME Init PROVE ScanInv
    OBVIOUS
  <2>1. hits = {} /\ next = 0 /\ clock \in Nat
    BY CountInit DEF Init, CountInv
  <2>2. IsFiniteSet(hits)
    BY <2>1, FS_EmptySet
  <2>3. ScanFrom(clock)
    <3>1. 0 * Pace = 0
      BY DEF Pace
    <3> QED BY <2>1, <3>1 DEF ScanFrom
  <2> QED BY <2>1, <2>2, <2>3 DEF ScanInv, PortsHit
<1>2. CountInv /\ TypeOK /\ ScanInv => ScanDetected
  <2> SUFFICES ASSUME CountInv, TypeOK, ScanInv, pc = "done", Timed, env = Right
               PROVE  CASE case.event = "PortScan" ->
                             \E s \in Seconds : Cardinality(InSecond(s)) >= 3
                        [] case.event = "ConnectionAbnormal" ->
                             \E h \in hits :
                               Cardinality({g \in hits : g.at \in h.at .. h.at + Second}) >= 4
                        [] case.event = "none" ->
                             \A s \in Seconds : Cardinality(InSecond(s)) < 3
    BY DEF ScanDetected
  <2>1. next = Attempts /\ DetectionCase(case)
    BY CasesAccounted DEF TypeOK, CountInv, Timed
  <2>2. PICK t \in Nat : ScanFrom(t)
    BY DEF ScanInv
  <2>3. CASE case.event = "PortScan"
    BY <2>1, <2>2, <2>3, ScanSeen
  <2>4. CASE case.event = "ConnectionAbnormal"
    BY <2>1, <2>2, <2>4, BurstSeen
  <2>5. CASE case.event = "none"
    BY <2>1, <2>5, BelowThreshold
  <2>6. case.event \in {"PortScan", "ConnectionAbnormal", "none"}
    BY <2>1 DEF DetectionCase
  <2> QED BY <2>3, <2>4, <2>5, <2>6
<1>3. CountInv /\ ScanInv /\ [Next]_vars => ScanInv'
  BY ScanNext
<1> QED BY <1>1, <1>2, <1>3, CountInit, CountNext, WorkerTypeCorrect, PTL DEF Spec

=============================================================================
