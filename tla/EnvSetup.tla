------------------------------- MODULE EnvSetup -------------------------------
(***************************************************************************)
(* `fw-verify setup-env` and `clean-env`: fw-verify/src/env.rs.             *)
(*                                                                         *)
(* Both commands walk through kernel state (a namespace, a veth pair, an ip  *)
(* rule), files (idps-fw.yaml, its backup, fw-verify.conf) and the idps-fw   *)
(* daemon, and may be cut short anywhere: a step fails, the process is       *)
(* killed, the device reboots.  The next command starts from what is left.   *)
(* Files and the daemon's running configuration are represented by whose     *)
(* configuration they hold.                                                  *)
(***************************************************************************)
EXTENDS Naturals

CONSTANTS
  Mode,          \* "host" or "android"
  Owners,        \* idps-fw configurations an operator may install
  TestCfg,       \* the configuration write_fw_config generates
  Torn,          \* a file cut short by an interrupted write or copy
  Absent,        \* no file
  Down,          \* no idps-fw process
  FirstOwner,    \* idps-fw.yaml before the first setup-env, possibly Absent
  Subnets,       \* test subnets (target IP masked by --veth-prefix)
  DefaultSubnet, \* the subnet of the default prefix
  Faults,        \* which faults may happen
  RuleDelLimit,  \* `for _ in 0..16` of teardown_topology
  MaxPolls,      \* bound: sleeps of the 30 s keystore wait
  MaxCommands,   \* bound: commands of a behaviour
  MaxUpsets      \* bound: kills, reboots and operator edits of a behaviour

Content == Owners \cup {TestCfg, Torn, Absent}

AllFaults == {"ip", "write", "copy", "remove", "stop", "start", "crash", "reboot"}

ASSUME EnvModeAssumption == Mode \in {"host", "android"}
ASSUME ContentAssumption ==
  /\ TestCfg \notin Owners /\ Torn \notin Owners /\ Absent \notin Owners
  /\ Down \notin Content
  /\ TestCfg # Torn /\ TestCfg # Absent /\ Torn # Absent
  /\ FirstOwner \in Owners \cup {Absent}
ASSUME EnvBoundAssumption ==
  /\ DefaultSubnet \in Subnets /\ Faults \subseteq AllFaults
  /\ RuleDelLimit \in Nat \ {0}
  /\ MaxPolls \in Nat /\ MaxCommands \in Nat /\ MaxUpsets \in Nat

VARIABLES
  fwConfig,  \* /etc/idd/idps-fw.yaml
  fwBackup,  \* /etc/idd/idps-fw.yaml.fwv-bak
  fwvConf,   \* /etc/idd/fw-verify.conf exists
  netns,     \* the peer namespace exists
  veth,      \* "none", "root" (both ends in the root namespace) or "split"
  wired,     \* addresses assigned, links up
  rules,     \* number of main-table ip rules per subnet
  debugIds,  \* /data/idd/vin_debug and dsn_debug are written
  keystore,  \* idps-server has derived the keystore
  running,   \* the configuration the idps-fw process has read
  cmd,       \* "setup" or "clean"
  subnet,    \* topo.subnet() of the command
  pc,
  polls,
  commands,
  upsets,
  last,      \* how the last command ended
  owner,     \* ghost: the configuration the operator installed last
  staged     \* ghost: a setup-env has begun and nothing gave the file back since

files == <<fwConfig, fwBackup, fwvConf>>
topology == <<netns, veth, wired, rules>>
daemons == <<debugIds, keystore, running>>
args == <<cmd, subnet>>
ghosts == <<owner, staged>>
counts == <<polls, commands, upsets>>
vars == <<fwConfig, fwBackup, fwvConf, netns, veth, wired, rules, debugIds,
          keystore, running, cmd, subnet, pc, polls, commands, upsets, last,
          owner, staged>>

May(fault) == fault \in Faults

Goto(l) == pc' = l /\ UNCHANGED <<last, staged>>
Done(how) ==
  /\ pc' = "idle" /\ last' = how
  /\ staged' = (staged /\ how \notin {"cleaned", "rolledBack"})
Failed == Done("failed")

Init ==
  /\ fwConfig = FirstOwner /\ fwBackup = Absent /\ fwvConf = FALSE
  /\ netns = FALSE /\ veth = "none" /\ wired = FALSE
  /\ rules = [s \in Subnets |-> 0]
  /\ debugIds = FALSE /\ keystore \in BOOLEAN /\ running = FirstOwner
  /\ cmd = "clean" /\ subnet = DefaultSubnet /\ pc = "idle"
  /\ polls = 0 /\ commands = 0 /\ upsets = 0 /\ last = "none"
  /\ owner = FirstOwner /\ staged = FALSE

(***************************************************************************)
(* The commands.  clean-env is used as documented: neither its defaults nor  *)
(* the generated fw-verify.conf carry another prefix.                        *)
(***************************************************************************)
Start(c, s) ==
  /\ pc = "idle" /\ commands < MaxCommands
  /\ cmd' = c /\ subnet' = s /\ pc' = "teardown" /\ last' = "none"
  /\ commands' = commands + 1
  /\ staged' = (staged \/ c = "setup")
  /\ UNCHANGED <<files, topology, daemons, polls, upsets, owner>>

StartSetup == \E s \in Subnets : Start("setup", s)
StartClean == Start("clean", DefaultSubnet)

\* What the bounded deletion loop may leave of n rules.
RulesLeft(n) == {IF n > RuleDelLimit THEN n - RuleDelLimit ELSE 0}
                  \cup (IF May("ip") THEN 0 .. n ELSE {})

\* Mutant: only the namespace is deleted, not the target end.
TeardownNamespaceOnly ==
  /\ pc = "teardown"
  /\ netns' = FALSE
  /\ veth' = IF veth = "split" THEN "none" ELSE veth
  /\ wired' = (wired /\ veth' # "none")
  /\ \E n \in RulesLeft(rules[subnet]) : rules' = [rules EXCEPT ![subnet] = n]
  /\ Goto(IF cmd = "setup" THEN "netns" ELSE "restore")
  /\ UNCHANGED <<files, daemons, args, counts, owner>>

\* Deleting the namespace destroys a veth pair whose peer end lives in it.  Every
\* failure is ignored.
Teardown ==
  /\ pc = "teardown"
  /\ netns' \in {FALSE} \cup (IF May("ip") THEN {netns} ELSE {})
  /\ \/ veth' = "none"
     \/ May("ip") /\ ~ (veth = "split" /\ ~ netns') /\ UNCHANGED veth
  /\ wired' = (wired /\ veth' # "none")
  /\ \E n \in RulesLeft(rules[subnet]) : rules' = [rules EXCEPT ![subnet] = n]
  /\ Goto(IF cmd = "setup" THEN "netns" ELSE "restore")
  /\ UNCHANGED <<files, daemons, args, counts, owner>>

AddNetns ==
  /\ pc = "netns"
  /\ \/ ~ netns /\ netns' = TRUE /\ Goto("veth")
     \/ (netns \/ May("ip")) /\ UNCHANGED netns /\ Failed
  /\ UNCHANGED <<files, veth, wired, rules, daemons, args, counts, owner>>

\* Direct placement is refused by some kernels; the fallback creates the pair in
\* the root namespace and moves one end.
CreateVeth ==
  /\ pc = "veth"
  /\ \/ veth = "none" /\ veth' = "split" /\ Goto("wire")
     \/ UNCHANGED veth /\ Goto("fallback")
  /\ UNCHANGED <<files, netns, wired, rules, daemons, args, counts, owner>>

CreateVethFallback ==
  /\ pc = "fallback"
  /\ \/ veth = "none" /\ veth' = "root" /\ Goto("move")
     \/ (veth # "none" \/ May("ip")) /\ UNCHANGED veth /\ Failed
  /\ UNCHANGED <<files, netns, wired, rules, daemons, args, counts, owner>>

\* Mutant: a refused move of the peer end goes unnoticed.
MovePeerUnchecked ==
  /\ pc = "move"
  /\ veth' \in {"root", "split"} /\ Goto("wire")
  /\ UNCHANGED <<files, netns, wired, rules, daemons, args, counts, owner>>

MovePeer ==
  /\ pc = "move"
  /\ \/ veth' = "split" /\ Goto("wire")
     \/ May("ip") /\ UNCHANGED veth /\ Failed
  /\ UNCHANGED <<files, netns, wired, rules, daemons, args, counts, owner>>

\* Addresses and links of both ends; disable_ipv6 cannot fail.
Wire ==
  /\ pc = "wire"
  /\ \/ wired' = TRUE /\ Goto(IF Mode = "android" THEN "rule" ELSE "backup")
     \/ May("ip") /\ UNCHANGED wired /\ Failed
  /\ UNCHANGED <<files, netns, veth, rules, daemons, args, counts, owner>>

AddRule ==
  /\ pc = "rule"
  /\ \/ rules' = [rules EXCEPT ![subnet] = @ + 1] /\ Goto("backup")
     \/ May("ip") /\ UNCHANGED rules /\ Failed
  /\ UNCHANGED <<files, netns, veth, wired, daemons, args, counts, owner>>

\* Mutant: a backup is only taken of a configuration that is not staged yet,
\* decided by fw-verify.conf instead of by the backup file.
BackupConfigByConf ==
  /\ pc = "backup"
  /\ \/ fwConfig # Absent /\ ~ fwvConf
        /\ fwBackup' = Torn /\ Goto("copying")
     \/ (fwConfig = Absent \/ fwvConf) /\ UNCHANGED fwBackup /\ Goto("write")
     \/ May("write") /\ UNCHANGED fwBackup /\ Failed
  /\ UNCHANGED <<fwConfig, fwvConf, topology, daemons, args, counts, owner>>

\* Mutant: the configuration is not backed up.
BackupConfigNever ==
  /\ pc = "backup"
  /\ UNCHANGED fwBackup /\ Goto("write")
  /\ UNCHANGED <<fwConfig, fwvConf, topology, daemons, args, counts, owner>>

\* An existing backup is never overwritten.  fs::copy truncates its destination
\* first; creating the directory or the destination may fail.
BackupConfig ==
  /\ pc = "backup"
  /\ \/ fwConfig # Absent /\ fwBackup = Absent
        /\ fwBackup' = Torn /\ Goto("copying")
     \/ (fwConfig = Absent \/ fwBackup # Absent) /\ UNCHANGED fwBackup /\ Goto("write")
     \/ May("write") /\ UNCHANGED fwBackup /\ Failed
  /\ UNCHANGED <<fwConfig, fwvConf, topology, daemons, args, counts, owner>>

FinishBackup ==
  /\ pc = "copying"
  /\ \/ fwBackup' = fwConfig /\ Goto("write")
     \/ May("copy") /\ UNCHANGED fwBackup /\ Failed
  /\ UNCHANGED <<fwConfig, fwvConf, topology, daemons, args, counts, owner>>

WriteConfig ==
  /\ pc = "write"
  /\ \/ fwConfig' = Torn /\ Goto("writing")
     \/ May("write") /\ UNCHANGED fwConfig /\ Failed
  /\ UNCHANGED <<fwBackup, fwvConf, topology, daemons, args, counts, owner>>

FinishConfig ==
  /\ pc = "writing"
  /\ \/ fwConfig' = TestCfg /\ Goto("conf")
     \/ May("write") /\ UNCHANGED fwConfig /\ Failed
  /\ UNCHANGED <<fwBackup, fwvConf, topology, daemons, args, counts, owner>>

\* In host mode the command ends here and the operator restarts idps-fw.
WriteConf ==
  /\ pc = "conf"
  /\ \/ /\ fwvConf' = TRUE
        /\ IF Mode = "android" THEN Goto("keystore") ELSE Done("written")
     \/ May("write") /\ fwvConf' \in {fwvConf, TRUE} /\ Failed
  /\ UNCHANGED <<fwConfig, fwBackup, topology, daemons, args, counts, owner>>

\* Without a keystore: inject the debug identity and restart idps-server.
EnsureKeystore ==
  /\ pc = "keystore"
  /\ \/ keystore /\ UNCHANGED <<debugIds, polls>> /\ Goto("restart")
     \/ ~ keystore /\ debugIds' = TRUE /\ polls' = 0 /\ Goto("derive")
     \/ ~ keystore /\ May("write") /\ UNCHANGED <<debugIds, polls>> /\ Failed
     \/ ~ keystore /\ May("start") /\ debugIds' = TRUE /\ UNCHANGED polls /\ Failed
  /\ UNCHANGED <<files, topology, keystore, running, args, commands, upsets, owner>>

\* Mutant: the wait for the keystore has no deadline.
AwaitKeystoreForever ==
  /\ pc = "derive"
  /\ \/ keystore /\ UNCHANGED polls /\ Goto("restart")
     \/ ~ keystore /\ polls' = (polls + 1) % (MaxPolls + 1) /\ Goto("derive")
  /\ UNCHANGED <<files, topology, daemons, args, commands, upsets, owner>>

AwaitKeystore ==
  /\ pc = "derive"
  /\ \/ keystore /\ UNCHANGED polls /\ Goto("restart")
     \/ ~ keystore /\ polls < MaxPolls /\ polls' = polls + 1 /\ Goto("derive")
     \/ ~ keystore /\ UNCHANGED polls /\ Failed
  /\ UNCHANGED <<files, topology, daemons, args, commands, upsets, owner>>

\* `stop` (its failure ignored), then `start`, which leaves a running service
\* alone: what the process has read afterwards.
AfterRestart ==
  {fwConfig} \cup (IF May("stop") /\ running # Down THEN {running} ELSE {})
             \cup (IF May("start") THEN {Down} ELSE {})

\* Mutant: `start` without `stop`.
RestartFwStartOnly ==
  /\ pc = "restart"
  /\ running' = IF running = Down THEN fwConfig ELSE running
  /\ Goto("health")
  /\ UNCHANGED <<files, topology, debugIds, keystore, args, counts, owner>>

\* A failure to spawn `start` ends setup-env without a rollback; an exit status
\* is not looked at.
RestartFw ==
  /\ pc = "restart"
  /\ \/ running' \in AfterRestart /\ Goto("health")
     \/ /\ May("start") /\ Failed
        /\ running' = Down \/ (May("stop") /\ UNCHANGED running)
  /\ UNCHANGED <<files, topology, debugIds, keystore, args, counts, owner>>

\* 30 s of polling `idps-fw health` for connected == true, then the rollback.  The
\* polls change nothing, so the loop is one step that ends either way.
WaitHealthy ==
  /\ pc = "health"
  /\ \/ running # Down /\ Done("ready")
     \/ Goto("restore")
  /\ UNCHANGED <<files, topology, daemons, args, counts, owner>>

\* Mutant: clean-env never restarts idps-fw.
AfterRestoreNoRestart(restored) == IF cmd = "clean" THEN "unconf" ELSE "undone"

\* restore_fw_config, of clean-env and of the rollback: nothing to restore, or a
\* copy that truncates its destination first.  Only clean-env looks at whether it
\* restored anything.
AfterRestore(restored) ==
  IF cmd = "clean" /\ (~ restored \/ Mode = "host") THEN "unconf" ELSE "undone"

RestoreConfig ==
  /\ pc = "restore"
  /\ \/ fwBackup # Absent /\ fwConfig' = Torn /\ Goto("restoring")
     \/ /\ fwBackup = Absent \/ May("copy")
        /\ UNCHANGED fwConfig /\ Goto(AfterRestore(FALSE))
  /\ UNCHANGED <<fwBackup, fwvConf, topology, daemons, args, counts, owner>>

FinishRestore ==
  /\ pc = "restoring"
  /\ \/ fwConfig' = fwBackup /\ Goto("unback")
     \/ May("copy") /\ UNCHANGED fwConfig /\ Goto(AfterRestore(FALSE))
  /\ UNCHANGED <<fwBackup, fwvConf, topology, daemons, args, counts, owner>>

\* Mutant: the backup stays behind.
RemoveBackupNever ==
  /\ pc = "unback"
  /\ UNCHANGED fwBackup
  /\ Goto(AfterRestore(TRUE))
  /\ UNCHANGED <<fwConfig, fwvConf, topology, daemons, args, counts, owner>>

RemoveBackup ==
  /\ pc = "unback"
  /\ fwBackup' \in {Absent} \cup (IF May("remove") THEN {fwBackup} ELSE {})
  /\ Goto(AfterRestore(TRUE))
  /\ UNCHANGED <<fwConfig, fwvConf, topology, daemons, args, counts, owner>>

\* The restart after a restore; its errors are ignored.
RestartRestored ==
  /\ pc = "undone"
  /\ running' \in AfterRestart
  /\ IF cmd = "clean" THEN Goto("unconf") ELSE Done("rolledBack")
  /\ UNCHANGED <<files, topology, debugIds, keystore, args, counts, owner>>

RemoveConf ==
  /\ pc = "unconf"
  /\ fwvConf' \in {FALSE} \cup (IF May("remove") THEN {fwvConf} ELSE {})
  /\ Done("cleaned")
  /\ UNCHANGED <<fwConfig, fwBackup, topology, daemons, args, counts, owner>>

(***************************************************************************)
(* The rest of the device.  "copy" is the fault that interrupts a backup.    *)
(***************************************************************************)
Interruptible == pc # "copying" \/ May("copy")

Crash ==
  /\ May("crash") /\ pc # "idle" /\ Interruptible /\ upsets < MaxUpsets
  /\ upsets' = upsets + 1
  /\ Done("cut")
  /\ UNCHANGED <<files, topology, daemons, args, polls, commands, owner>>

\* Kernel state is gone, files stay, init starts idps-fw.
Reboot ==
  /\ May("reboot") /\ Interruptible /\ upsets < MaxUpsets
  /\ upsets' = upsets + 1
  /\ netns' = FALSE /\ veth' = "none" /\ wired' = FALSE
  /\ rules' = [s \in Subnets |-> 0]
  /\ running' = fwConfig
  /\ Done("cut")
  /\ UNCHANGED <<files, debugIds, keystore, args, polls, commands, owner>>

DeriveKeystore ==
  /\ debugIds /\ ~ keystore /\ keystore' = TRUE
  /\ UNCHANGED <<files, topology, debugIds, running, args, pc, counts, last, ghosts>>

\* The operator installs another configuration and restarts idps-fw, while no
\* test environment is staged.
Edit(o) ==
  /\ pc = "idle" /\ ~ staged /\ upsets < MaxUpsets
  /\ upsets' = upsets + 1
  /\ fwConfig' = o /\ owner' = o /\ running' = o /\ last' = "none"
  /\ UNCHANGED <<fwBackup, fwvConf, topology, debugIds, keystore, args, pc,
                 polls, commands, staged>>

\* The service is restarted by the Makefile or by hand, which is what host mode
\* leaves to the operator.
ServiceRestart ==
  /\ pc = "idle" /\ running # fwConfig
  /\ running' = fwConfig
  /\ UNCHANGED <<files, topology, debugIds, keystore, args, pc, counts, last, ghosts>>

Command ==
  \/ Teardown \/ AddNetns \/ CreateVeth \/ CreateVethFallback \/ MovePeer
  \/ Wire \/ AddRule \/ BackupConfig \/ FinishBackup \/ WriteConfig
  \/ FinishConfig \/ WriteConf \/ EnsureKeystore \/ AwaitKeystore
  \/ RestartFw \/ WaitHealthy \/ RestoreConfig \/ FinishRestore
  \/ RemoveBackup \/ RestartRestored \/ RemoveConf

Next ==
  \/ StartSetup \/ StartClean
  \/ Command
  \/ Crash \/ Reboot \/ DeriveKeystore \/ ServiceRestart
  \/ \E o \in Owners : Edit(o)

Spec == Init /\ [][Next]_vars

\* A started command keeps running until it returns or is killed.
FairSpec == Spec /\ WF_vars(Command)

-----------------------------------------------------------------------------
Located ==
  {"idle", "teardown", "netns", "veth", "fallback", "move", "wire", "rule",
   "backup", "copying", "write", "writing", "conf", "keystore", "derive",
   "restart", "health", "restore", "restoring", "unback", "undone", "unconf"}

FlagsOK ==
  /\ fwvConf \in BOOLEAN /\ netns \in BOOLEAN /\ wired \in BOOLEAN
  /\ debugIds \in BOOLEAN /\ keystore \in BOOLEAN /\ staged \in BOOLEAN

ValuesOK ==
  /\ fwConfig \in Content /\ fwBackup \in Content
  /\ veth \in {"none", "root", "split"} /\ rules \in [Subnets -> Nat]
  /\ running \in Content \cup {Down}
  /\ cmd \in {"setup", "clean"} /\ subnet \in Subnets /\ pc \in Located
  /\ polls \in 0 .. MaxPolls /\ commands \in 0 .. MaxCommands
  /\ upsets \in 0 .. MaxUpsets
  /\ last \in {"none", "failed", "cut", "written", "ready", "cleaned", "rolledBack"}
  /\ owner \in Owners \cup {Absent}

ShapeOK == FlagsOK /\ ValuesOK

PairOK == (veth = "split" => netns) /\ (wired => veth = "split")

\* Every file holds a known content and the running daemon has read one.  The pair
\* is split only across an existing namespace, and addresses are on a split pair
\* only: whichever `ip` commands of teardown_topology and create_topology fail, and
\* wherever a setup-env was cut short, no later one puts both addresses into the
\* root namespace, where every case would run over the loopback route.
TypeOK == ShapeOK /\ PairOK

\* setup-env replaces the operator's idps-fw.yaml, so at every moment, whatever
\* was cut short and however commands were repeated, the operator's latest
\* configuration is in idps-fw.yaml or in its .fwv-bak backup.
OriginalKept == owner = Absent \/ owner \in {fwConfig, fwBackup}

\* When clean-env has finished, or setup-env has rolled back, idps-fw.yaml is the
\* operator's again.
ConfigGivenBack == last \in {"cleaned", "rolledBack"} => fwConfig = owner

\* When clean-env has finished on Android, idps-fw also runs with the operator's
\* configuration, after any sequence of complete and failed commands: clean restarts
\* the service after restoring the file.  (A clean-env killed between the two leaves
\* nothing to restore to the next one, which then does not restart idps-fw.)
DaemonGivenBack ==
  last = "cleaned" /\ Mode = "android" /\ upsets = 0 => running = owner

\* When setup-env reports success on Android, idps-fw runs with the test
\* configuration and the whole topology is in place.
ReadyApplied ==
  last = "ready" =>
    /\ running = TestCfg /\ fwConfig = TestCfg /\ fwvConf /\ keystore
    /\ netns /\ veth = "split" /\ wired /\ rules[subnet] > 0

\* After clean-env nothing of the topology is left, whatever sequence of
\* interrupted and repeated setups came before.
CleanTearsDown ==
  last = "cleaned" => ~ netns /\ veth = "none" /\ \A s \in Subnets : rules[s] = 0

\* fw-verify never touches the operator's configuration while there is no backup
\* file at all, under any fault.
OverwriteNeedsBackup ==
  [][fwConfig = owner /\ owner # Absent /\ fwConfig' # fwConfig /\ owner' = owner
       => fwBackup # Absent]_vars

\* Every command returns or is killed: no wait of setup-env is unbounded.
CommandEnds == pc # "idle" ~> pc = "idle"

=============================================================================
