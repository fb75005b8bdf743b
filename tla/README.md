# fw-verify: TLA+ models, checks and proofs

`fw-verify` tests the idps-fw firewall daemon on a device: it stages a network
topology, delivers firewall rules, sends traffic from both sides and compares
what was enforced, recorded and reported with what its catalog expects. The
modules here model `fw-verify` itself. The question throughout is whether its
answers can be trusted: is the rule it thinks is in force in force, is a PASS
earned, and is the device given back as it was found.

| Module | Models | Proved about in |
|---|---|---|
| `Delivery` | what `provision_firewall` promises (abstract) | `Delivery_proofs` |
| `Provision` | rule delivery, both modes; implements `Delivery` in host mode | `Provision_proofs`, `Delivery_proofs` |
| `Session` (`MCSession`) | commands as plans of provisioning calls and cases; extends `Provision` | `Session_proofs` |
| `EnvSetup` | setup-env, clean-env | `EnvSetup_proofs` |
| `CaseRun` (`MCCaseRun`) | `run_case`: listener, watermark, traffic, events, report | `CaseRun_proofs` |
| `Catalog` | rule texts and cases, and the rule semantics they rely on | `Worker_proofs` |
| `Worker` | one probe of a catalog case; extends `Catalog` | `Worker_proofs` |
| `Monitor` (`MCMonitor`) | monitor cases and `run_traffic_case` against idps-fw's schedules | `Monitor_proofs` |
| `Config` (`MCConfig`) | flags, environment, files, the generated conf | `Config_proofs` |

## The system

| Part | State | Operations | Interacts with |
|---|---|---|---|
| rule provisioning (`provision.rs`, `agent/provision.rs`, `vsoc.rs`) | none of its own; VSOC's rule store, the depot, idps-fw's loaded rules | `provision_firewall`, `write_traffic_rule`, `provision_traffic_cycle`, `reset_rules`, `agent provision-rule` | writes the depot (Android) or PUTs to VSOC (host); polls `idps-fw health` |
| environment (`env.rs`) | netns, veth, ip rules, `idps-fw.yaml`, its `.fwv-bak`, `fw-verify.conf`, the idps-fw process, the keystore | `setup-env`, `clean-env` | `ip`, `stop`/`start`, files |
| case runner (`verify.rs`, `agent/events.rs`, `peer.rs`, `target.rs`) | watermark, listeners, results | `run_case`, `run_traffic_case`, `confirm_local_sent` | workers as child processes; idps-fw's event database |
| run plans (`verify.rs`, `main.rs`, `monitor.rs`) | position, results | `run_filtered`, `run_one`, `run_all`, `run_monitor_filtered`, the `provision` and `reset-rules` commands | provisioning, then the case runner |
| monitors (`monitor.rs`, `agent/connflood.rs`, `agent/arp.rs`) | watermark, listener and flood processes | four monitor cases | idps-fw's 10 s samples and its report table |
| catalog (`catalog.rs`) | constant data | `all_cases`, `firewall_text`, `bundle_order` | - |
| traffic and listener workers (`agent/traffic.rs`, `agent/listen.rs`) | tally of outcomes, sockets | `traffic`, `listen` | the network; one JSON line back to the runner |
| execution (`exec.rs`) | none | `spawn_program`, `agent_json`, `agent_spawn` | `nsenter`, `ip netns exec`, the inherited environment |
| configuration (`cli.rs`, `config.rs`, `main.rs`) | the process environment, `fw-verify.conf` | `apply_config_env`, `Cli::parse`, `RunConfig::resolve` | setup-env writes the conf later commands read |
| reporting (`report.rs`) | none | print | - |

fw-verify is one sequential process. What makes it hard is that the daemons run
beside it: rules move through VSOC, depot, idps-fw's fetched copy and its
enforced copy at their own pace; events are stored and reported after the
traffic; the process may be killed anywhere in a sequence of kernel, file and
daemon changes. `PROJECT.json` lists these hazards line by line.

What makes each part correct:

- provisioning: after Ok, exactly that rule is in force; every call returns;
- environment: the operator's configuration is never lost and is given back;
  success means applied; clean-env leaves nothing; every command ends;
- case runner: a PASS is earned by the case's own traffic, a FAIL of a silent
  case is not caused by another case; every case gets a result;
- run plans: cases run under their own bundle's rules, each is reported once,
  and nothing fails without a fault;
- catalog and worker: with a firewall that does what its rules say every case gets
  the verdict it expects, and with one that overlooks a rule it does not;
- monitors: the fixed waits cover every phase of idps-fw's schedules, and no
  child process stays behind;
- configuration: the documented precedence, the same topology for setup-env and
  the runs after it, and for the workers the same environment as for their parent.

## Modules

**Provision.** `cloud`, `depot`, `fetched`, `loaded` are the stages of the
pipeline, each a rule (version and payload) per function (`fw`, `traffic`).
A call goes through `Call`, then `ReadBefore`/`WriteDepot` (Android) or
`PutRule` (host), then the loop `PollOk`/`PollMiss`/`Expire`/`SleepPoll`;
`write_traffic_rule` ends after the write. `WriteDepot` may fail after it wrote
(missing key), `PutRule` may store the rule and lose the answer, any health read
may fail. `CloudSync`, `Fetch`, `Apply`, `Restart` are external. Whether idps-fw
accepts an older version is left open, so nothing depends on it. `goal`,
`granted` and `ahead` are ghosts: the last rule written, whether the last call
of a function waited and returned Ok, whether the written version was above all
versions in the pipeline; `fresh` tells whether a written cycle was new, neither in the
pipeline nor in the configuration. `reset_rules` may leave everything
as it was (`ResetFails`: the PUT is refused, or no shell or no removal). A version past `i32::MAX` is stored as the negative
number `ver as i32` makes of it.

**Delivery** has three variables: the text asked for, whether the call has
returned Ok, and the text enforced. `DeliversAsPromised` in Provision is its
specification with `goal`, `granted` and `loaded` of the firewall function put in
their place.

**EnvSetup.** One action per step of `setup` and `clean` after which another
step may fail or the process may be killed. A file is represented by whose
configuration it holds: an operator's, the generated one (`TestCfg`), `Torn`
(truncated, not yet or only partly written) or `Absent`. `fs::copy` and
`fs::write` are two steps, truncation and completion. `Faults` selects what may
go wrong: `ip`, `write`, `copy` (also: a kill during a backup copy), `remove`,
`stop`, `start`, `crash`, `reboot`. The 30 s poll of `wait_healthy` is one step:
it changes nothing, and only its outcome matters. `Edit` is the operator installing another
configuration while nothing is staged.

**CaseRun.** `run_case` as `StartCase`, `Mark` (watermark), `Traffic`,
`ReadEvents` (after the settle time) and `Confirm` (the 8 s report wait), for a
script of cases in a row, on a wall clock in ticks. The firewall is arbitrary:
the traffic of a case may raise any events and get any verdict. Kind, action,
proto and detail of an event are one value. An event is stored at most `Latency`
ticks after it was raised, and its `event_time_ms` is taken when it is raised or
when it is stored (`Stamps`). `MCCaseRun` has the scripts, built from catalog
cases. No catalog case sets `skip` and `now_ms` never fails, so these branches
are left out.

**Session** extends Provision: a command is a plan, a sequence of ignored policy
writes, of bundles (text, optional cycle, number of cases), of `reset_rules` and of
manual `agent provision-rule` writes; every call is a call of Provision with the
pipeline moving throughout. `RunFiltered`, `RunMonitor`, `RunAll`, `RunOne` and
`ProvisionCommand` build the plans as the code does. A behaviour is `faulty` or
not: if not, health is readable, writes succeed, versions stay below the `i32`
limit and a wait expires only when nothing in the pipeline can move any more.
`MCSession` has the plans for the runs.

**Catalog** has the rule text of every bundle, line by line, and all 30 cases: their
commands, the verdict they expect, and their listeners with side, protocol and port. Of
an expected event it keeps kind and rule id; action, protocol, port and detail are left
out here, and `CaseRun` has what is matched in its own terms. (skip is None in all
cases, notes are wording.)
Ports keep their numbers, an address is the side it belongs to. `Matches`,
`Deciding` and `Fate` are the rule semantics of idps-fw that the comments in
`catalog.rs` rely on: later lines win, then the chain's default; NLD passes the
first packet; an app line denies the connect itself.

**Worker** takes one case through `peer::traffic`: `Spawn` (into the namespace by
nsenter or `ip netns exec`), `Start` (drop to the app's uid), then either one
`BurstProbe` per thread of a multi-port TCP probe or one `LoopProbe` per attempt,
and `Emit`. `Attempt` gives the outcomes an attempt may have; an Err ends the
loop and is one more `other` in a burst. A packet is answered only by a listener on the
side, protocol and port it arrives at (`Served`), and a read that times out surfaces
as the error its socket gives: `TimedOut` from a TCP connect, `WouldBlock` from UDP and
ICMP, which `ClassifyIo` both takes for a timeout. The surroundings `env` may be wrong: a
line of the text overlooked by idps-fw, the listener missing, a stray ICMP packet,
a source port in use, no root, no nsenter. `hits` records what idps-fw's detectors
see, in units of 50 ms at every phase of a second.

**Monitor** runs scripts of monitor or traffic cases in half seconds. `Mark` or
`Baseline` begins a case, one action per kind stimulates idps-fw
(`ProbeTimestamp`, `AwaitTotal`, `SpoofArp`, `SpawnListener` and `SpawnFlood`,
`SendVolume`), and `JudgeReports` or `JudgeStatistics` reads once, after a fixed
wait. idps-fw (external) samples every 10 s and closes windows every cycle at an
arbitrary phase (`Sample`, `CloseWindow`), and stores a row at once or `Lag`
later. At most one thing goes wrong (`upset`): a worker or child that cannot be
started, a failed query, a stimulus that is not noticed, a listener that binds late,
another cycle in force, a restart of idps-fw. `Tick` moves time to the next moment
at which somebody may act.

**Config** takes a command from the shell to its workers: `Start`, one `ReadLine`
per line of the file, `Parse` (clap: flag, variable, default; a value of the wrong
type ends the command), then the three parts of setup, each of which may fail
(`StageTopology`, `StageFwConfig`, `WriteConf`), `Clean`, which ignores what fails, or
`Resolve` and `SpawnWorker`. Ghosts: `wrote`, the topology of the setup-env that wrote
`fw-verify.conf`, and `intact`, whether no later setup-env or clean-env has failed
since. Six
keys stand for the 23: two with a default, one auto-detected, one defaulted
later, and the pair that is written only together. The environment of the process
is a variable of its own because the workers inherit it and not the flags.

## Runs

Passing:

| Run | Shows |
|---|---|
| `session_host` | reset-rules and run-all with and without faults: `DeliversAsPromised` (Provision implements Delivery), `FirewallInForce`, `VersionsFlowForward` (host delivery is monotone, hence `>=` on versions is enough), `RanUnderOwnRules`, `AllReported`, `NothingFails`, `SessionOK`, `SessionEnds` |
| `session_android` | a manual rule, `run`, `provision`, reset-rules and another `run`: `AheadGrantInForce` (a granted call has its rule in force if its version was above every version in the pipeline, also at and past the `i32` limit), `CycleGrantInForce` (so does a granted cycle that was new, although only values are compared), `NothingFails`, `TypeOK` |
| `env_android` | `OriginalKept`, `ConfigGivenBack`, `CleanTearsDown`, `ReadyApplied` under failing writes, kills, reboots and edits, with copies that complete and `ip`, `stop` and `start` that work; `DaemonGivenBack` for behaviours in which nothing was killed |
| `env_faults` | under all faults: `TypeOK` (no command gives addresses to a veth pair that is not split across the namespace), `OverwriteNeedsBackup`, `CommandEnds` |
| `case_sound` | `PassedEventIsOwn`, `SilentPassIsReal`, `FailIsOwn`, `TypeOK` when latency is below the settle time |
| `case_faults` | two cases in a row that expect the same event, then a silent one of the same flow: `PassedEventIsOwn`, `FailIsOwn`, `OnlyOwnListener` with failing listeners, workers and queries and latency above the settle time, when events are stamped as they are raised; `AllJudged` |
| `worker` | all 30 cases: `VerdictAsExpected` (texts, cases, rule ids, listeners, commands and worker agree), `VerdictEarned` (a verdict as expected is not faked by wrong surroundings), `ScanDetected`, `FinFlowsNew`, `WorkerEnds`, `TypeOK` |
| `monitor` | `HealthyPasses` (the waits are long enough at every phase), `PassIsOwn`, `NothingLeftBehind` |
| `config` | `Precedence`, `SameTopology` (a run given the conf works on the topology of the one setup-env that wrote it, also when others failed half-way), `WorkersStart` |

Disagreements between the code and what it or its documentation says, each shown
by a run that ends in a violation and explained under `findings`:

| Run | Shows |
|---|---|
| `provision_stale` | an unreadable or empty health snapshot makes provision_firewall wait for version 1, which an older rule satisfies |
| `case_threshold` | "no event" passes although there was one, for traffic without a single destination port |
| `session_provision` | the `provision` command waits for fun=1 before it writes fun=4 |

Other limits of the code that the models show when a fault or a constant is
changed, and that have no run of their own:

- `Faults = {"copy"}`: a backup copy that fails or is killed half way is trusted by the
  next setup-env, and the original is lost (`OriginalKept` fails);
- `Faults = {"remove"}`: a backup that could not be removed is trusted by the next
  setup-env (`OriginalKept` fails);
- `FirstOwner = Absent`: a device without `idps-fw.yaml` keeps the generated one
  after the rollback and after clean-env (`ConfigGivenBack` fails);
- `Faults = {"stop"}`: "restarted and healthy" although the old process kept running
  (`ReadyApplied` fails);
- `DaemonGivenBack` without its condition `upsets = 0`: a clean-env killed between
  restore and restart is completed by one that does not restart idps-fw;
- two `Subnets`: clean-env leaves the ip rule of another `--veth-prefix`, which
  `fw-verify.conf` does not record (`CleanTearsDown` fails);
- `Faults = {"query"}`: a failed query is an empty one, so "no event" passes
  (`SilentPassIsReal` fails);
- a different `rule_id` is only a remark in the detail text, so it is not part of
  the model, although the testing guide lists it among the conditions of a PASS;
- `provision.rs:101` says of provision_traffic_cycle "wait for it to load", but
  `wait_for_cycle` is satisfied by a cycle the configuration or an older rule already
  had: an older rule with another cycle may be applied after the Ok
  (`CycleGrantInForce` fails without `fresh`), and a traffic case that falls into this
  time may fail (`HealthyPasses` fails for the fault `cycle`);
- `docs/fw-verify-testing.md:217` calls the traffic of `ingress-tuple-blocksilent`
  blocked; the catalog (`catalog.rs:320`, and its note) expects refused, because NLD
  passes the first packet to a closed port, and that is what the model's probe gives
  (`VerdictAsExpected` fails with the guide's word in `Catalog`);
- a setup-env or clean-env that fails half-way leaves the old `fw-verify.conf` beside
  another topology or none, and a run given it still works on the old one
  (`SameTopology` without `intact` fails);
- `Connect`, `Lag` or both larger by half a second: the 13 s of `MONITOR_SETTLE` are
  exhausted (1.5 s to connect, 10 s cadence, 1.5 s to store), and a connection case
  may fail on a healthy system;
- process ids 20000 apart, or close but on two sides of a multiple of 65536, give two
  FIN scans the same source ports (`PidAssumption` of Worker);
- a lost link times out like a drop, so a probe between hosts that cannot reach each
  other counts as blocked; Worker assumes that they can;
- a bad value in environment or file that is hidden by a flag of the command stops
  its workers (the exception in `WorkersStart`);
- `cli.rs` calls the keys of the file "the long option names", but only the spelling
  with underscores is recognised; `veth-prefix` is skipped without a word;
- a host-mode conf carries certificate or key only together with the other, so one
  of them alone is forgotten by the next command.

**Bounds.** Session on the host: reset-rules, the policy write, two bundles, the second
with a cycle, an empty one that is filtered out, and the monitors, which is every kind
of step after every other; seven calls, each with one sleep, and one restart, since
further ones repeat reachable situations; a rule of an earlier session or none; one
cycle. On Android: five commands, two cycles, one of them that of the configuration,
versions 0 and 2 left behind and an `i32` limit of 3, so that
versions collide, wrap and overtake. EnvSetup: two configurations, four commands and
two upsets (setup, interrupted setup, clean, setup again, with an edit in between), a
deletion loop of 2 for the code's 16. CaseRun: three consecutive cases (two on the
same source and port, or all three on one flow with a listener) with one event each;
settle times of one or two ticks against latencies of one to three; the runner at most
`MaxDelay` ticks late. Worker: every case with every combination of surroundings; scan
threads 0, 350 or 950 ms late, up to 100 ms between two attempts of the loop (with 150
the burst case misses its detector), process
ids next to each other and 19999 apart. Monitor: the code's own durations, all 20
phases of the sampler and all 10 of the window, two cases in a row so that one can
meet what the other left, the largest `Connect` and `Lag` the 13 s allow. Config: three
commands (setup, something in between, run), each option set in one place or two, a
file with a key twice and one with a misspelt key. `CHECK_DEADLOCK FALSE` throughout:
a session, a script, a probe and a bounded number of commands end.

**Fairness.** Only of fw-verify's own process: it is one thread without locks, so
its next step is eventually taken (`WF` of `Command`, of the `Runner`s of Session and
CaseRun, and of the worker's `Next`; a worker's socket calls all have timeouts, which is
what its outcomes model).
One thing is assumed beyond that: the child commands fw-verify waits for (`idps-fw
health`, `ip`, `stop`, `start`) return. `exec.rs` waits for them without a timeout, so a
health command that hangs would stop a polling loop that is bounded otherwise.
Nothing is assumed of VSOC, idps-server or the sending of reports. `CaseRun`
also lets time pass and idps-fw keep its storing latency, which is what `Latency`
means.

**Assumptions to know.** `SilentPassIsReal` needs `Latency < Settle`
(`event_settle`, 1500 ms by default). If `event_time_ms` is taken when an event
is stored, then a worker that fails after sending traffic, which ends its case
without the settle time, may leave an event to the next case; with stamps taken
when raised it cannot (`case_faults`). `HealthyPasses` needs an idps-fw that keeps its
10 s cadence and 5 s cycle and stores a row within 1.5 s.

## Proofs

TLAPS proves, for all values of the constants and without the bounds mattering:

- **Provision_proofs**: `TypeCorrect`, `AheadGrantsHold`, `HostVersionsFlowForward`,
  `HostFirewallInForce`. `AheadGrantInForce` is not inductive. `IInv` adds that
  after a write above every version each stage holds an older version or that
  very rule (`Behind`) and holds the rule only if the stage before it does
  (`Chain`), that the awaited version is the written one (`WaitInv`), and that
  once granted nothing else is left below the write (`GrantInv`). `HInv` adds for
  host mode that versions do not increase down the pipeline and that every write
  is ahead, which gives `FirewallInForce`.
- **Delivery_proofs**: `FreshCycleInForce` for both modes and `HostDeliversAsPromised`.
  A value wait says nothing of which rule brought the value. `FreshInv` says that after
  a write of a new cycle every stage holds that very rule or another cycle (`Apart`), and
  holds the rule only if the stage before it does (`Chain`), so the value seen at the
  end of the pipeline shows the rule and that nothing older follows it; `InletInv` keeps
  the rule at the stage fw-verify wrote it to until the next call. The second theorem
  is the step simulation: initial states map to initial states, and under `HInv` of
  Provision_proofs every step of Provision maps to a step of Delivery or to a stutter.
- **Session_proofs**: `SessionRefinesProvision` (every step of a session is a step of
  Provision or leaves its variables alone) and, from it, from `HostFirewallInForce`
  and from an invariant tying the call under way to the plan (`SInv`),
  `HostCasesRunUnderOwnRules`. `SessionTypeCorrect` and `EveryCaseReported` hold for
  every plan and every failure; `ReportInv` counts the lines written for the steps
  passed so far and for the cases of the current one. `FaultFreeSessionSucceeds`
  (`NothingFails`) assumes that the plan writes the traffic policy before its first
  bundle (`PolicyFirst`), which `CommandsWritePolicyFirst` shows of the plans of `run`,
  the monitors, single cases and run-all; the `provision` command is the one that does
  not (`session_provision`). `FreeInv` says that without faults a wait is for the very
  version just written and that a policy is at the pipeline's inlet once the plan has
  passed one, so a pipeline at rest has met the wait.
- **EnvSetup_proofs**: `EnvTypeCorrect` and `OverwriteAlwaysBacked` under every fault
  (that the pair is never half moved rests on `LinkInv`, what each step of setup finds);
  `OriginalAlwaysKept` and `ConfigAlwaysGivenBack` assuming that copies complete
  and removals succeed (`CopiesComplete`; the second also that there was a
  configuration). `KeepInv` says which file holds the operator's configuration at
  each step. `CleanAlwaysTearsDown` assumes that `ip` works and that there is one subnet;
  `TornInv` says that at most one ip rule is ever left to the next teardown, so any
  limit of the deletion loop is enough. `ReadyIsApplied` assumes that `stop` works;
  `LinkInv` and `ConfInv` follow topology and daemon through the steps of setup.
  `DaemonAlwaysGivenBack` assumes `CopiesComplete`, that services stop and start when
  told to (`ServicesObey`), and a configuration to begin with; `DaemonInv` says that
  idps-fw runs with the operator's configuration whenever there is no backup. Each of
  these conditions is needed: TLC finds the losses listed above without it.
- **CaseRun_proofs**: `CaseTypeCorrect` and `OwnListenerOnly` without a condition.
  `PassesAreOwn` and `FailuresAreOwn` under `Attributable`: events are stamped when they
  are raised, or they are stored within the settle time and no worker fails half way.
  The invariant is one of order (`WaterInv`): whatever an earlier case caused is stamped
  no later than the watermark, also if it is stored after it. `SilentPassesAreReal` under
  `Observable`, which is all that "no event" rests on: storage within the settle
  time, a query that works, a case that names the port it reaches, events with a port.
- **Monitor_proofs**: `ChildrenNeverLeft` for every script and fault. `PassesAreEarned`
  where no script has two cases of a kind (`OnePerKind`, true of `monitor_cases`): rows
  older than the watermark are never looked at (`RowInv`), and a row that was seen
  survives a restart of idps-fw (`EarnedInv`). `WaitsAreLongEnough` turns the question of
  the `monitor` run into an inequality (`EnoughTime`): with the code's 13 s, 1.5 s, 22 s
  and 28 s, a healthy run has no failure if a row is stored within 1.5 s, connecting takes
  at most 13 s less the cadence and the time of storing, and the runner is not
  so late that the listener has ended. `ScheduleInv` bounds the next sample, `TimingInv`
  says for each kind of case that its row is there or the sample that makes it comes in
  time, `WindowInv` the same of the traffic window (5 s cycle, 7 s wait).
- **Config_proofs**: `PrecedenceHolds`, `ConfCarriesTopology`, `WorkersAlwaysStart` for
  every file, environment and flags, repeated and unknown keys included, and wherever
  setups fail. `ConfInv` says that `fw-verify.conf` is what one setup-env wrote, and
  `StageInv` that this setup-env staged its topology first and that it is in place while
  `intact`. `ReadInv` describes the environment while a file is half read: a key has its shell value or the
  first value read.
- **Worker_proofs**: all five safety properties of the `worker` run, about the concrete
  catalog, for every thread delay, process id, surroundings and schedule.
  - *The catalog.* `CatalogCases` takes it apart into its eight groups, `CatalogFacts`
    shows that every command is well formed (real ports, at least one attempt; a FIN
    scan names different ports). For each bundle a lemma (`IngressRules`, `MatchRules`,
    ...) shows which line of its text decides about which packet (`Decides`: it is the
    last line that has a say, and no line before it would drop what it drops), and for
    each group another (`IngressAccounted`, ...) that every case is about the line that
    decides on its packets (`Accounted`). `Decision` and `Overlooked` carry that over
    to the rule semantics: the packet meets that line's fate, and passes if idps-fw
    overlooks a line that drops it.
  - `WorkerTypeCorrect`: each attempt is in the tally exactly once, for every outcome.
    `CountInv` keeps the case and the number of attempts.
  - `FinProbesAreNewFlows`, for all process ids of `PidAssumption`: `FinInv` says which
    probe a packet belongs to, and the rest is arithmetic modulo 65536 and 20000.
  - `VerdictsAreEarned`. `VerdictEarned` looks at the verdict only, which says nothing of
    the attempts behind it; `DoneInv` makes it that of the tally, and `EarnedInv` keeps
    where the outcomes in the tally came from: a success from the listener on that
    side, protocol and port, a timeout
    or a denial from a packet that did not pass.
  - `VerdictsAreAsExpected`. `ExpectedInv` says that where the surroundings are right
    nothing fails and every outcome so far is one that gives the expected verdict; a
    mixed tally would be judged by its strongest outcome.
  - `ScansAreDetected`, if the loop loses at most two units (100 ms) between attempts.
    `ScanInv` keeps when the probe began, that it is not behind its pace and that every
    attempt has its hit in time. All five probes of a scan fall into 20 units, hence into
    two seconds, so three of them share one (`Pigeonhole`); the fourth attempt of the
    burst begins at most 3 * (4 + 2) = 18 units after the first. With three units lost
    it may be 21, and TLC finds the burst that the detector misses: the bound is tight.

The proofs use the named assumptions of the modules (`ModeAssumption`,
`PayloadAssumption`, `NumberAssumption`, `EnvModeAssumption`, `ContentAssumption`,
`EnvBoundAssumption`, `PlanAssumption`, `ScriptAssumption`, `TickAssumption`,
`MonitorAssumption`, `ConfigAssumption`, `ValueAssumption`, `TimeAssumption`,
`PidAssumption`), which TLC evaluates in the runs.

Only model-checked: liveness (`CommandEnds`, `AllJudged`, `SessionEnds`, `WorkerEnds`),
which is beyond the prover. Every invariant and every action property of the passing
runs is stated by a theorem.

## Not modelled

Not modelled: the result table and JSON report (`report.rs`), the workers' argument
definitions (`agent/cli.rs`), HTTP and encryption, the bytes of ICMP, FIN and ARP
packets with their checksums, the listener's accept loop as a process of its own, and
the commands that only look (`list`, `health`, `stats`, `preflight`). The IPv6
branches (errors in the raw-socket probes, `/128` for the peer) are left out: the
topology of setup-env is IPv4 unless addresses are given by hand.
