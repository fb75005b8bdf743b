-------------------------------- MODULE Worker --------------------------------
(***************************************************************************)
(* One probe of a case, from the orchestrator's peer::traffic (peer.rs,      *)
(* exec.rs) through the re-executed `agent traffic` (agent/traffic.rs,       *)
(* agent/mod.rs) to the verdict it prints, for every case of the catalog.    *)
(*                                                                         *)
(* The surroundings may be wrong in any respect: idps-fw overlooks a line of  *)
(* the bundle's text, the case's listener is not up, another ICMP packet      *)
(* arrives first, the source port is taken, the worker is not root, or a way  *)
(* into the peer's namespace is missing.  Time is counted in units of 50 ms   *)
(* and matters to idps-fw's detectors only, which count per second.           *)
(***************************************************************************)
EXTENDS Catalog

CONSTANTS
  ThreadDelays, \* how late a scan thread may send after the burst began
  Overhead,     \* bound: units between two attempts of the sequential loop
  Pids          \* process ids the worker and an earlier worker may have

Second == 20

ASSUME TimeAssumption ==
  /\ ThreadDelays \subseteq 0 .. Second - 1 /\ ThreadDelays # {}
  /\ Overhead \in Nat
ASSUME PidAssumption ==
  /\ Pids \subseteq Nat \ {0} /\ Pids # {}
  /\ \A p, q \in Pids : p - q < 20000 /\ p \div 65536 = q \div 65536

VARIABLES
  case,   \* the case whose traffic is generated
  env,    \* its surroundings
  pid,    \* the worker's process id
  pc,
  clock,  \* within the run; the phase of the wall-clock second is arbitrary
  next,   \* attempts made so far
  tally,  \* outcomes recorded so far
  hits,   \* probes idps-fw sees: destination port, source port and time
  verdict \* of the JSON line; "none" when there is none

vars == <<case, env, pid, pc, clock, next, tally, hits, verdict>>

Outcome == {"success", "timeout", "refused", "denied", "sent", "other"}

Right ==
  [missed |-> 0, listening |-> TRUE, stray |-> FALSE, busy |-> FALSE, root |-> TRUE,
   nsenter |-> "ok", ip |-> TRUE]

\* /run/netns/<ns> does not exist, or nsenter is absent: still no fault, while
\* `ip netns exec` works
Surroundings(c) ==
  [missed : 0 .. Len(FirewallText[c.bundle]), listening : BOOLEAN, stray : BOOLEAN,
   busy : BOOLEAN, root : BOOLEAN, nsenter : {"ok", "nopath", "absent", "fails"},
   ip : BOOLEAN]

\* build_cmd (its interval is 0 for every case)
BuildCmd(c) ==
  LET kind == c.traffic.kind IN
  [proto   |-> IF kind = "Icmp" THEN "icmp"
               ELSE IF kind \in {"Udp", "UdpScan", "UdpVolume"} THEN "udp" ELSE "tcp",
   ports   |-> IF kind = "Icmp" THEN <<0>> ELSE c.traffic.ports,
   count   |-> c.traffic.count,
   timeout |-> CASE kind \in {"TcpScan", "UdpScan", "TcpFinScan"} -> 5
                 [] kind \in {"TcpBurst", "UdpVolume"} -> 4
                 [] OTHER -> 30,
   await   |-> kind = "Udp",
   fin     |-> kind = "TcpFinScan"]

\* as TrafficCmd::argv passes it to the worker: a count of 1 is left out and is the
\* worker's default
Cmd == BuildCmd(case)

\* flow: where the case's packets start and which chain sees them first
Packet(c, port) ==
  [src |-> c.origin, dst |-> IF c.origin = "peer" THEN "target" ELSE "peer",
   chain |-> IF c.origin = "peer" THEN "localin" ELSE "output",
   proto |-> BuildCmd(c).proto, sport |-> c.sport, dport |-> port, uid |-> c.uid]

FateOf(port) == Fate(FirewallText[case.bundle], Packet(case, port), env.missed)
Timed == case.group = "detection"

Init ==
  /\ case \in {AllCases[i] : i \in DOMAIN AllCases}
  /\ env \in Surroundings(case)
  /\ pid \in IF Cmd.fin THEN Pids ELSE {CHOOSE p \in Pids : TRUE}
  /\ clock \in IF Timed /\ env = Right THEN 0 .. Second - 1 ELSE {0}
  /\ pc = "spawn" /\ next = 0 /\ tally = [o \in Outcome |-> 0] /\ hits = {}
  /\ verdict = "none"

Stay == UNCHANGED <<case, env, pid>>

Fail == pc' = "failed" /\ UNCHANGED <<clock, next, tally, hits, verdict>> /\ Stay

\* Mutant: no other way than nsenter.
SpawnableByNsenter == case.origin = "target" \/ env.nsenter = "ok"

\* Endpoint::spawn_program: only a missing nsenter is made up for.
Spawnable ==
  \/ case.origin = "target"
  \/ env.nsenter = "ok"
  \/ env.nsenter \in {"nopath", "absent"} /\ env.ip

Spawn ==
  /\ pc = "spawn"
  /\ IF Spawnable
     THEN pc' = "start" /\ UNCHANGED <<clock, next, tally, hits, verdict>> /\ Stay
     ELSE Fail

\* drop_to_uid: setgroups, setgid, setuid
Start ==
  /\ pc = "start"
  /\ IF case.uid /\ ~ env.root THEN Fail
     ELSE pc' = "probe" /\ UNCHANGED <<clock, next, tally, hits, verdict>> /\ Stay

(***************************************************************************)
(* What an attempt may return; "error" is an Err.                            *)
(***************************************************************************)

ClassifyIo(error) ==
  CASE error \in {"TimedOut", "WouldBlock"} -> "timeout"
    [] error = "ConnectionRefused" -> "refused"
    [] error = "PermissionDenied" -> "denied"
    [] OTHER -> "other"

\* A listener of the case is where its packets to the port arrive.
Served(c, port) ==
  [side |-> Packet(c, port).dst, proto |-> BuildCmd(c).proto, port |-> port] \in c.listen

\* A packet that got through is answered by a listener, or refused without one.
Answer(port) ==
  IF env.listening /\ Served(case, port) THEN "success" ELSE ClassifyIo("ConnectionRefused")

SourcePortTaken == case.sport # 0 /\ env.busy

TcpAttempt(port) ==
  IF SourcePortTaken THEN {"error"}
  ELSE CASE FateOf(port) = "deny" -> {ClassifyIo("PermissionDenied")}
         [] FateOf(port) = "drop" -> {ClassifyIo("TimedOut")}
         [] FateOf(port) = "pass" -> {Answer(port)}

\* A read that runs into SO_RCVTIMEO fails with WouldBlock.
UdpAttempt(port) ==
  IF SourcePortTaken \/ FateOf(port) = "deny" THEN {"error"}
  ELSE IF ~ Cmd.await THEN {"sent"}
  ELSE IF FateOf(port) = "drop" THEN {ClassifyIo("WouldBlock")} ELSE {Answer(port)}

\* Mutant: the socket has no read timeout.
IcmpAttemptBlocking(port) ==
  IF ~ env.root THEN {"error"}
  ELSE (IF FateOf(port) = "drop" THEN {} ELSE {"success"})
         \cup (IF env.stray THEN {"other"} ELSE {})

\* One recv on a raw socket, which sees every ICMP packet of the namespace.
IcmpAttempt(port) ==
  IF ~ env.root THEN {"error"}
  ELSE {IF FateOf(port) = "drop" THEN ClassifyIo("WouldBlock") ELSE "success"}
         \cup (IF env.stray THEN {"other"} ELSE {})

FinAttempt(port) == IF env.root THEN {"sent"} ELSE {"error"}

Attempt(port) ==
  CASE Cmd.proto = "tcp" /\ Cmd.fin -> FinAttempt(port)
    [] Cmd.proto = "tcp" /\ ~ Cmd.fin -> TcpAttempt(port)
    [] Cmd.proto = "udp" -> UdpAttempt(port)
    [] Cmd.proto = "icmp" -> IcmpAttempt(port)

\* Mutant: the source port fin_attempt falls back to.
FinSportFixed(p, i) == 40000

\* fin_sport_base plus the probe's index, in u16
FinSport(p, i) ==
  LET port == (20000 + ((p % 65536) % 20000) + i) % 65536
  IN IF port < 1024 THEN port + 16384 ELSE port

Hit(port, at) ==
  [dport |-> port, sport |-> IF Cmd.fin THEN FinSport(pid, next) ELSE case.sport,
   at |-> at, nth |-> next]

\* Mutant: an unclassified outcome is not counted.
RecordKnown(outcome) ==
  IF outcome = "other" THEN tally ELSE [tally EXCEPT ![outcome] = @ + 1]

\* Tally::record
Record(outcome) == [tally EXCEPT ![outcome] = @ + 1]

\* A packet denied at connect time is never sent.
Seen(outcome, hit) == IF outcome \in {"denied", "other"} THEN hits ELSE hits \cup {hit}

\* A multi-port TCP probe is one burst of threads, anything else is sequential.
Parallel == Cmd.proto = "tcp" /\ Len(Cmd.ports) > 1 /\ Cmd.count <= 1
Repeat == IF Cmd.count > 1 THEN Cmd.count ELSE 1
Attempts == Len(Cmd.ports) * Repeat
PortOf(n) == Cmd.ports[n \div Repeat + 1]

\* Threads of the burst: an Err is only one more outcome.
BurstProbe ==
  /\ pc = "probe" /\ Parallel /\ next < Attempts
  /\ \E result \in Attempt(PortOf(next)) : \E delay \in ThreadDelays :
       LET outcome == IF result = "error" THEN "other" ELSE result IN
         /\ tally' = Record(outcome)
         /\ hits' = Seen(outcome, Hit(PortOf(next), clock + delay))
  /\ next' = next + 1 /\ UNCHANGED <<pc, clock, verdict>> /\ Stay

\* The loop waits for each outcome and ends at the first Err.
LoopProbe ==
  /\ pc = "probe" /\ ~ Parallel /\ next < Attempts
  /\ \E result \in Attempt(PortOf(next)) :
       \/ result = "error" /\ Fail
       \/ /\ result # "error"
          /\ tally' = Record(result)
          /\ \E lost \in IF Timed THEN 0 .. Overhead ELSE {0} :
               clock' = clock + lost
                          + IF Timed /\ result = "timeout" THEN Cmd.timeout ELSE 0
          /\ hits' = Seen(result, Hit(PortOf(next), clock))
          /\ next' = next + 1 /\ UNCHANGED <<pc, verdict>> /\ Stay

\* Tally::verdict
Verdict(t) ==
  IF t["success"] > 0 THEN "allowed"
  ELSE IF t["timeout"] > 0 \/ t["denied"] > 0 THEN "blocked"
  ELSE IF t["refused"] > 0 THEN "refused"
  ELSE IF t["sent"] > 0 THEN "sent" ELSE "unknown"

\* emit: the one JSON line, which agent_json parses
Emit ==
  /\ pc = "probe" /\ next = Attempts
  /\ verdict' = Verdict(tally)
  /\ pc' = "done" /\ UNCHANGED <<clock, next, tally, hits>> /\ Stay

Next == Spawn \/ Start \/ BurstProbe \/ LoopProbe \/ Emit

\* The worker's process keeps running.
Spec == Init /\ [][Next]_vars /\ WF_vars(Next)

-----------------------------------------------------------------------------
\* All outcomes of the tally.
Recorded ==
  tally["success"] + tally["timeout"] + tally["refused"] + tally["denied"]
    + tally["sent"] + tally["other"]

\* The tally holds every attempt exactly once, and only a complete one is judged.
TypeOK ==
  /\ pc \in {"spawn", "start", "probe", "done", "failed"}
  /\ clock \in Nat /\ next \in 0 .. Attempts
  /\ tally \in [Outcome -> Nat] /\ Recorded = next
  /\ verdict \in {"none", "allowed", "blocked", "refused", "sent", "unknown"}
  /\ pc = "done" <=> verdict # "none"
  /\ pc = "done" => next = Attempts

Ended == pc \in {"done", "failed"}
Works == env \in {[Right EXCEPT !.nsenter = n] : n \in {"ok", "nopath", "absent"}}
DecidingLine(c) ==
  LET ports == BuildCmd(c).ports IN
    Deciding(FirewallText[c.bundle], Packet(c, ports[Len(ports)]), 0)

\* The catalog, the rule texts, build_cmd and the worker agree: with an idps-fw
\* that enforces its bundle, every firewall case ends with the verdict the
\* catalog expects, and the rule_id it expects is the line that decides.  (The
\* traffic cases are judged by statistics, not by the verdict.)  The catalog's word
\* counts: it expects "refused" of ingress-tuple-blocksilent, where the table of the
\* testing guide (docs/fw-verify-testing.md:217) says blocked.
VerdictAsExpected ==
  Ended /\ Works /\ case.group # "traffic" =>
    /\ verdict = case.enforce
    /\ case.rule # 0 => case.rule = DecidingLine(case)

ServedPort(i) == Served(case, Cmd.ports[i])

\* "blocked proves the rule matched": a blocked verdict where one is expected
\* means that idps-fw did not overlook the line the case is about; an allowed one
\* that a listener of the case's own answered, on the side, protocol and port its
\* packets go to; and a refused one that the packet got to a closed port.  Between
\* two hosts that reach each other, none of the wrong surroundings can fake them.
VerdictEarned ==
  pc = "done" /\ verdict = case.enforce /\ case.group # "traffic" =>
    /\ verdict = "blocked" => env.missed # DecidingLine(case)
    /\ verdict = "allowed" => env.listening /\ \E i \in DOMAIN Cmd.ports : ServedPort(i)
    /\ verdict = "refused" =>
         tally["refused"] = Attempts /\ \A i \in DOMAIN Cmd.ports : ~ ServedPort(i)

InSecond(s) == {h.dport : h \in {g \in hits : g.at \div Second = s}}
Seconds == {h.at \div Second : h \in hits}

\* A complete probe of a detection case is what its detector looks for, wherever
\* in a second it begins and however its threads are scheduled: at least three
\* ports of a scan within one whole second, four connections to one port within
\* the span of a second, and never three ports for the case below the threshold.
ScanDetected ==
  pc = "done" /\ Timed /\ env = Right =>
    CASE case.event = "PortScan" -> \E s \in Seconds : Cardinality(InSecond(s)) >= 3
      [] case.event = "ConnectionAbnormal" ->
           \E h \in hits : Cardinality({g \in hits : g.at \in h.at .. h.at + Second}) >= 4
      [] case.event = "none" -> \A s \in Seconds : Cardinality(InSecond(s)) < 3

\* "a unique source port per (process, port)": a FIN probe is a new flow to the
\* firewall - also when a scan by another process came before, as long as their
\* process ids are less than 20000 apart and agree above their lower 16 bits.
FinFlowsNew ==
  Cmd.fin =>
    /\ \A h \in hits : 1024 <= h.sport /\ h.sport < 65536
    /\ \A h \in hits : \A p \in Pids \ {pid} : \A i \in DOMAIN Cmd.ports :
         <<h.sport, h.dport>> # <<FinSport(p, i - 1), Cmd.ports[i]>>

\* The worker ends whatever becomes of its packets: every wait has a timeout.
WorkerEnds == <>Ended

=============================================================================
