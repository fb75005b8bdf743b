-------------------------------- MODULE Config --------------------------------
(***************************************************************************)
(* From command line, environment and file to the configuration of a command: *)
(* apply_config_env in main.rs, GlobalArgs in cli.rs, RunConfig in config.rs,  *)
(* and the fw-verify.conf that setup-env writes for the commands after it.     *)
(*                                                                         *)
(* The file is copied into the process environment before clap looks at it,   *)
(* and workers are re-executions of the same binary that inherit it, without   *)
(* the flags.  Six keys stand for the options: one of each kind.               *)
(***************************************************************************)
EXTENDS Naturals, Sequences

CONSTANTS
  Shells,      \* environments a command may be started from
  FlagSets,    \* flags it may be given
  Files,       \* config files an operator may have written
  Unset,       \* no value
  Bad,         \* a value the option's type refuses
  MaxCommands  \* bound: commands of a behaviour

Key == {"mode", "target_ip", "veth_prefix", "vsoc_url", "vsoc_cert", "vsoc_key"}

\* Options with a type; the others are strings, for which no value is bad.
Typed == {"mode", "target_ip", "veth_prefix"}

DefaultIp == "10.123.0.1"
DefaultUrl == "https://127.0.0.1:8443"

\* default_value of GlobalArgs; the others are Options
Default == [k \in Key |-> CASE k = "mode" -> "host" [] k = "veth_prefix" -> 24 [] OTHER -> Unset]

\* A line without a value sets an empty one.
ASSUME ConfigAssumption ==
  /\ \A m \in Shells \cup FlagSets : DOMAIN m = Key
  /\ \A m \in FlagSets : \A k \in Key : m[k] # Bad
  /\ \A f \in Files : /\ f \in Seq({f[i] : i \in DOMAIN f})
                       /\ \A i \in DOMAIN f : DOMAIN f[i] = {"key", "value"} /\ f[i].value # Unset
  /\ MaxCommands \in Nat
ASSUME ValueAssumption ==
  /\ Unset # Bad
  /\ \A v \in {"host", DefaultIp, DefaultUrl} : v # Unset /\ v # Bad
  /\ \A prefix \in {24} : prefix # Unset /\ prefix # Bad

VARIABLES
  shell,    \* the environment the command was started from
  flags,
  given,    \* the lines of the file named by --config, <<>> for none
  saved,    \* --config names the generated fw-verify.conf
  env,      \* the environment of the process
  lines,    \* lines of the file not read yet
  global,   \* GlobalArgs
  cmd, pc,
  conf,     \* fw-verify.conf, <<>> when there is none
  staged,   \* the topology in place; None
  wrote,    \* the topology conf was written for
  intact,   \* conf was written last; neither setup-env nor clean-env came after
  cfg,      \* RunConfig of the last run
  worker,   \* how the last worker started
  commands

process == <<shell, flags, given, saved, env, lines, global, cmd, pc, commands>>
device == <<conf, staged, wrote, intact>>
vars == <<process, device, cfg, worker>>

None == [mode |-> Unset, ip |-> Unset, url |-> Unset, cert |-> Unset, key |-> Unset]
Empty == [k \in Key |-> Unset]
Or(value, otherwise) == IF value = Unset THEN otherwise ELSE value

Init ==
  /\ shell = Empty /\ flags = Empty /\ given = <<>> /\ saved = FALSE /\ env = Empty
  /\ lines = <<>> /\ global = Default /\ cmd = "clean" /\ pc = "idle" /\ commands = 0
  /\ conf = <<>> /\ staged = None /\ wrote = None /\ intact = FALSE /\ cfg = None /\ worker = "none"

Start(c, sh, fl, file, generated) ==
  /\ pc = "idle" /\ commands < MaxCommands /\ commands' = commands + 1
  /\ cmd' = c /\ shell' = sh /\ env' = sh /\ flags' = fl
  /\ given' = file /\ lines' = file /\ saved' = generated
  /\ pc' = "file" /\ worker' = "none"
  /\ UNCHANGED <<global, device, cfg>>

\* Mutant: the last line of a key wins.
ReadLineOverwrites ==
  /\ pc = "file" /\ lines # <<>> /\ lines' = Tail(lines)
  /\ env' = IF Head(lines).key \in Key /\ shell[Head(lines).key] = Unset
            THEN [env EXCEPT ![Head(lines).key] = Head(lines).value] ELSE env
  /\ UNCHANGED <<shell, flags, given, saved, global, cmd, pc, commands, device, cfg, worker>>

\* Unknown keys are skipped without a word; a variable that is set stays.
ReadLine ==
  /\ pc = "file" /\ lines # <<>> /\ lines' = Tail(lines)
  /\ env' = IF Head(lines).key \in Key /\ env[Head(lines).key] = Unset
            THEN [env EXCEPT ![Head(lines).key] = Head(lines).value] ELSE env
  /\ UNCHANGED <<shell, flags, given, saved, global, cmd, pc, commands, device, cfg, worker>>

\* What clap takes for an option; it looks at a variable only without the flag.
Chosen(fl, e) == [k \in Key |-> Or(fl[k], Or(e[k], Default[k]))]
Refused(g) == \E k \in Typed : g[k] = Bad

\* Mutant: a variable of the wrong type counts as unset.
ParseLenient ==
  /\ pc = "file" /\ lines = <<>>
  /\ global' = [k \in Key |-> IF k \in Typed /\ env[k] = Bad THEN Or(flags[k], Default[k])
                              ELSE Chosen(flags, env)[k]]
  /\ pc' = cmd
  /\ UNCHANGED <<shell, flags, given, saved, env, lines, cmd, commands, device, cfg, worker>>

Parse ==
  /\ pc = "file" /\ lines = <<>>
  /\ global' = Chosen(flags, env)
  /\ pc' = IF Refused(global') THEN "idle" ELSE cmd
  /\ UNCHANGED <<shell, flags, given, saved, env, lines, cmd, commands, device, cfg, worker>>

Line(k, v) == [key |-> k, value |-> v]

\* Mutant: the mode is left to the operator.
WriteFwvConfNoMode(topo) ==
  <<Line("target_ip", topo.ip)>>
    \o IF topo.mode = "host" THEN <<Line("vsoc_url", topo.url)>> ELSE <<>>

\* The host part names the certificate only together with its key.
WriteFwvConf(topo) ==
  <<Line("mode", topo.mode), Line("target_ip", topo.ip)>>
    \o IF topo.mode # "host" THEN <<>>
       ELSE <<Line("vsoc_url", topo.url)>>
            \o IF Unset \in {topo.cert, topo.key} THEN <<>>
               ELSE <<Line("vsoc_cert", topo.cert), Line("vsoc_key", topo.key)>>

\* Topology::from, and what write_fwv_conf takes from GlobalArgs beside it
Topology(g) ==
  [mode |-> g["mode"], ip |-> Or(g["target_ip"], DefaultIp),
   url |-> Or(g["vsoc_url"], DefaultUrl), cert |-> g["vsoc_cert"], key |-> g["vsoc_key"]]

(***************************************************************************)
(* setup-env, in as far as it uses the configuration.  Every step may fail    *)
(* and end the command, and a kill there leaves the same.                    *)
(***************************************************************************)

\* teardown_topology, which ignores errors, and create_topology: a failing `ip`
\* leaves the old interface, none with an address, or one with the new address.
StageTopology ==
  /\ pc = "setup" /\ intact' = FALSE
  /\ \/ staged' = Topology(global) /\ pc' = "fwconfig"
     \/ staged' \in {staged, None, Topology(global)} /\ pc' = "idle"
  /\ UNCHANGED <<shell, flags, given, saved, env, lines, global, cmd, commands, conf, wrote,
                 cfg, worker>>

\* create_dir_all, backup_fw_config, write_fw_config: idps-fw's own configuration
StageFwConfig ==
  /\ pc = "fwconfig" /\ pc' \in {"fwvconf", "idle"}
  /\ UNCHANGED <<shell, flags, given, saved, env, lines, global, cmd, commands, device, cfg,
                 worker>>

\* write_fwv_conf: one write into a truncated file.  What follows on Android neither
\* uses nor undoes it.
WriteConf ==
  /\ pc = "fwvconf" /\ pc' = "idle"
  /\ \/ /\ conf' = WriteFwvConf(Topology(global)) /\ wrote' = Topology(global)
        /\ intact' = TRUE
     \/ conf' \in {conf, <<>>} /\ UNCHANGED <<wrote, intact>>
  /\ UNCHANGED <<shell, flags, given, saved, env, lines, global, cmd, commands, staged, cfg,
                 worker>>

\* clean: errors of the teardown and of the removal are ignored.
Clean ==
  /\ pc = "clean" /\ pc' = "idle" /\ intact' = FALSE
  /\ staged' \in {staged, None} /\ conf' \in {conf, <<>>}
  /\ UNCHANGED <<shell, flags, given, saved, env, lines, global, cmd, commands, wrote, cfg,
                 worker>>

\* RunConfig::resolve: without an address the interface is asked; without an
\* interface the command ends.
Resolve ==
  /\ pc = "run"
  /\ LET ip == Or(global["target_ip"], staged.ip)
         host == global["mode"] = "host"
     IN IF ip = Unset THEN pc' = "idle" /\ UNCHANGED cfg
        ELSE /\ pc' = "spawn"
             /\ cfg' = [mode |-> global["mode"], ip |-> ip,
                        url |-> IF host THEN Or(global["vsoc_url"], DefaultUrl) ELSE Unset,
                        cert |-> IF host THEN global["vsoc_cert"] ELSE Unset,
                        key |-> IF host THEN global["vsoc_key"] ELSE Unset]
  /\ UNCHANGED <<shell, flags, given, saved, env, lines, global, cmd, commands, device, worker>>

\* agent_argv: the binary again, with this environment and none of the flags
SpawnWorker ==
  /\ pc = "spawn" /\ pc' = "idle"
  /\ worker' = IF Refused(Chosen(Empty, env)) THEN "refused" ELSE "started"
  /\ UNCHANGED <<shell, flags, given, saved, env, lines, global, cmd, commands, device, cfg>>

Next ==
  \/ \E c \in {"setup", "run", "clean"}, sh \in Shells, fl \in FlagSets :
       \/ \E file \in Files \cup {<<>>} : Start(c, sh, fl, file, FALSE)
       \/ conf # <<>> /\ Start(c, sh, fl, conf, TRUE)
  \/ ReadLine \/ Parse \/ StageTopology \/ StageFwConfig \/ WriteConf \/ Clean
  \/ Resolve \/ SpawnWorker

Spec == Init /\ [][Next]_vars

-----------------------------------------------------------------------------
\* What the file says of a key: its first line.
InFile(k) ==
  LET at == {i \in DOMAIN given : given[i].key = k}
  IN IF at = {} THEN Unset ELSE given[CHOOSE i \in at : \A j \in at : i <= j].value

\* The documented precedence, for every key of a command that gets as far as
\* acting: flag, then the real environment, then the file, then the default -
\* although the file reaches clap through the environment.
Precedence ==
  pc \in {"setup", "run", "clean"} =>
    \A k \in Key : global[k] = Or(flags[k], Or(shell[k], Or(InFile(k), Default[k])))

\* A run that is given the generated fw-verify.conf, and no flag or variable that says
\* otherwise, works on one setup-env's topology, mode and VSOC endpoint, from whatever
\* flags, variables and file that setup-env had them: never on a mixture of two
\* setups, also when one failed half-way.  It is the topology in place, unless a
\* setup-env or clean-env after the one that wrote the file has failed.
SameTopology ==
  pc = "spawn" /\ saved /\ (\A k \in Key : flags[k] = Unset /\ shell[k] = Unset) =>
    /\ cfg.mode = wrote.mode /\ cfg.ip = wrote.ip
    /\ cfg.mode = "host" => cfg.url = wrote.url
    /\ intact => wrote = staged

\* A command that has parsed its own arguments can start its workers: the values a
\* file put into the inherited environment were checked by the parent, all but
\* those one of its flags has hidden.
WorkersStart ==
  worker = "refused" => \E k \in Typed : flags[k] # Unset /\ env[k] = Bad

=============================================================================
