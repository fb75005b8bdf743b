--------------------------- MODULE EnvSetup_proofs ---------------------------
(***************************************************************************)
(* What setup-env and clean-env guarantee for the operator's configuration,  *)
(* for every set of configurations and every number of commands, kills,      *)
(* reboots and edits.                                                        *)
(*                                                                         *)
(* OriginalKept is not inductive: it does not say which file holds the       *)
(* configuration at which point of a command.  KeepInv says it: a missing    *)
(* backup means the file itself is untouched, and from the backup on until   *)
(* the restore has been copied back the backup is the operator's.            *)
(***************************************************************************)
EXTENDS EnvSetup, TLAPS

USE EnvModeAssumption, ContentAssumption, EnvBoundAssumption

\* Initially the device is untouched.
LEMMA TypeInit == Init => ShapeOK
<1> SUFFICES ASSUME Init PROVE FlagsOK /\ ValuesOK
  BY DEF ShapeOK
<1>1. FlagsOK
  BY Zenon DEF Init, FlagsOK
<1>2. ValuesOK
  BY DEF Init, ValuesOK, Located, Content
<1> QED
  BY <1>1, <1>2

\* Steps that only touch the topology.
TopologyStep ==
  \/ Teardown \/ AddNetns \/ CreateVeth \/ CreateVethFallback \/ MovePeer
  \/ Wire \/ AddRule

\* Steps that only touch the files.
FileStep ==
  \/ BackupConfig \/ FinishBackup \/ WriteConfig \/ FinishConfig \/ WriteConf
  \/ RestoreConfig \/ FinishRestore \/ RemoveBackup \/ RemoveConf

\* Steps that only touch the daemons.
DaemonStep ==
  EnsureKeystore \/ AwaitKeystore \/ RestartFw \/ WaitHealthy \/ RestartRestored

\* Every step is one of these.
LEMMA StepCases ==
  ASSUME [Next]_vars
  PROVE  \/ \E c \in {"setup", "clean"}, s \in Subnets : Start(c, s)
         \/ TopologyStep \/ FileStep \/ DaemonStep
         \/ Crash \/ Reboot \/ DeriveKeystore \/ ServiceRestart
         \/ \E o \in Owners : Edit(o)
         \/ UNCHANGED vars
<1>1. StartSetup \/ StartClean => \E c \in {"setup", "clean"}, s \in Subnets : Start(c, s)
  BY DEF StartSetup, StartClean
<1> QED
  BY <1>1 DEF Next, Command, TopologyStep, FileStep, DaemonStep

\* The flags stay Boolean.
LEMMA FlagsNext == FlagsOK /\ [Next]_vars => FlagsOK'
<1> SUFFICES ASSUME FlagsOK, [Next]_vars PROVE FlagsOK'
  OBVIOUS
<1> USE DEF FlagsOK, Goto, Done, Failed
<1>1. ASSUME NEW c \in {"setup", "clean"}, NEW s \in Subnets, Start(c, s) PROVE FlagsOK'
  BY <1>1, Zenon DEF Start, files, topology, daemons
<1>2. CASE TopologyStep
  <2> USE DEF files, daemons
  <2>1. CASE Teardown
    BY <2>1, Zenon DEF Teardown
  <2>2. CASE AddNetns
    BY <2>2, Zenon DEF AddNetns
  <2>3. CASE CreateVeth
    BY <2>3, Zenon DEF CreateVeth
  <2>4. CASE CreateVethFallback
    BY <2>4, Zenon DEF CreateVethFallback
  <2>5. CASE MovePeer
    BY <2>5, Zenon DEF MovePeer
  <2>6. CASE Wire
    BY <2>6, Zenon DEF Wire
  <2>7. CASE AddRule
    BY <2>7, Zenon DEF AddRule
  <2> QED
    BY <1>2, <2>1, <2>2, <2>3, <2>4, <2>5, <2>6, <2>7 DEF TopologyStep
<1>3. CASE FileStep
  <2> USE DEF topology, daemons
  <2>1. CASE BackupConfig
    BY <2>1, Zenon DEF BackupConfig
  <2>2. CASE FinishBackup
    BY <2>2, Zenon DEF FinishBackup
  <2>3. CASE WriteConfig
    BY <2>3, Zenon DEF WriteConfig
  <2>4. CASE FinishConfig
    BY <2>4, Zenon DEF FinishConfig
  <2>5. CASE WriteConf
    BY <2>5, Zenon DEF WriteConf
  <2>6. CASE RestoreConfig
    BY <2>6, Zenon DEF RestoreConfig
  <2>7. CASE FinishRestore
    BY <2>7, Zenon DEF FinishRestore
  <2>8. CASE RemoveBackup
    BY <2>8, Zenon DEF RemoveBackup
  <2>9. CASE RemoveConf
    BY <2>9, Zenon DEF RemoveConf
  <2> QED
    BY <1>3, <2>1, <2>2, <2>3, <2>4, <2>5, <2>6, <2>7, <2>8, <2>9 DEF FileStep
<1>4. CASE DaemonStep
  <2> USE DEF files, topology, daemons
  <2>1. CASE EnsureKeystore
    BY <2>1, Zenon DEF EnsureKeystore
  <2>2. CASE AwaitKeystore
    BY <2>2, Zenon DEF AwaitKeystore
  <2>3. CASE RestartFw
    BY <2>3, Zenon DEF RestartFw
  <2>4. CASE WaitHealthy
    BY <2>4, Zenon DEF WaitHealthy
  <2>5. CASE RestartRestored
    BY <2>5, Zenon DEF RestartRestored
  <2> QED
    BY <1>4, <2>1, <2>2, <2>3, <2>4, <2>5 DEF DaemonStep
<1>5. CASE Crash
  BY <1>5, Zenon DEF Crash, files, topology, daemons
<1>6. CASE Reboot
  BY <1>6, Zenon DEF Reboot, files
<1>7. CASE DeriveKeystore
  BY <1>7, Zenon DEF DeriveKeystore, files, topology, ghosts
<1>8. CASE ServiceRestart
  BY <1>8, Zenon DEF ServiceRestart, files, topology, ghosts
<1>9. ASSUME NEW o \in Owners, Edit(o) PROVE FlagsOK'
  BY <1>9, Zenon DEF Edit, topology
<1>10. CASE UNCHANGED vars
  BY <1>10, Zenon DEF vars
<1> QED
  BY <1>1, <1>2, <1>3, <1>4, <1>5, <1>6, <1>7, <1>8, <1>9, <1>10, StepCases

\* Every step keeps files, topology and counters in range.
LEMMA ValuesNext == ValuesOK /\ [Next]_vars => ValuesOK'
<1> SUFFICES ASSUME ValuesOK, [Next]_vars PROVE ValuesOK'
  OBVIOUS
<1> USE DEF ValuesOK, Located, Content, Goto, Done, Failed
<1>1. ASSUME NEW c \in {"setup", "clean"}, NEW s \in Subnets, Start(c, s) PROVE ValuesOK'
  BY <1>1 DEF Start, files, topology, daemons
<1>2. CASE TopologyStep
  <2>1. CASE Teardown
    <3>1. PICK n \in RulesLeft(rules[subnet]) : rules' = [rules EXCEPT ![subnet] = n]
      BY <2>1 DEF Teardown
    <3>2. n \in Nat
      BY DEF RulesLeft
    <3>3. rules' \in [Subnets -> Nat]
      BY <3>1, <3>2
    <3> QED
      BY <2>1, <3>3 DEF Teardown, files, daemons, args, counts
  <2>2. CASE AddNetns
    BY <2>2 DEF AddNetns, files, daemons, args, counts
  <2>3. CASE CreateVeth
    BY <2>3 DEF CreateVeth, files, daemons, args, counts
  <2>4. CASE CreateVethFallback
    BY <2>4 DEF CreateVethFallback, files, daemons, args, counts
  <2>5. CASE MovePeer
    BY <2>5 DEF MovePeer, files, daemons, args, counts
  <2>6. CASE Wire
    BY <2>6 DEF Wire, files, daemons, args, counts
  <2>7. CASE AddRule
    BY <2>7 DEF AddRule, files, daemons, args, counts
  <2> QED
    BY <1>2, <2>1, <2>2, <2>3, <2>4, <2>5, <2>6, <2>7 DEF TopologyStep
<1>3. CASE FileStep
  <2> USE DEF topology, daemons, args, counts, AfterRestore
  <2>1. CASE BackupConfig
    BY <2>1 DEF BackupConfig
  <2>2. CASE FinishBackup
    BY <2>2 DEF FinishBackup
  <2>3. CASE WriteConfig
    BY <2>3 DEF WriteConfig
  <2>4. CASE FinishConfig
    BY <2>4 DEF FinishConfig
  <2>5. CASE WriteConf
    <3>1. pc' \in {"keystore", "idle"} /\ last' \in {last, "written", "failed"}
      BY <2>5, Zenon DEF WriteConf
    <3>2. /\ fwConfig' = fwConfig /\ fwBackup' = fwBackup /\ owner' = owner
          /\ UNCHANGED <<topology, daemons, args, counts>>
      BY <2>5, Zenon DEF WriteConf
    <3> QED
      BY <3>1, <3>2
  <2>6. CASE RestoreConfig
    BY <2>6 DEF RestoreConfig
  <2>7. CASE FinishRestore
    BY <2>7 DEF FinishRestore
  <2>8. CASE RemoveBackup
    BY <2>8 DEF RemoveBackup
  <2>9. CASE RemoveConf
    BY <2>9 DEF RemoveConf
  <2> QED
    BY <1>3, <2>1, <2>2, <2>3, <2>4, <2>5, <2>6, <2>7, <2>8, <2>9 DEF FileStep
<1>4. CASE DaemonStep
  <2> USE DEF files, topology, daemons, args, counts
  <2>1. CASE EnsureKeystore
    BY <2>1 DEF EnsureKeystore
  <2>2. CASE AwaitKeystore
    BY <2>2 DEF AwaitKeystore
  <2>3. AfterRestart \subseteq Content \cup {Down}
    BY DEF AfterRestart
  <2>4. CASE RestartFw
    BY <2>3, <2>4 DEF RestartFw
  <2>5. CASE WaitHealthy
    BY <2>5 DEF WaitHealthy
  <2>6. CASE RestartRestored
    BY <2>3, <2>6 DEF RestartRestored
  <2> QED
    BY <1>4, <2>1, <2>2, <2>4, <2>5, <2>6 DEF DaemonStep
<1>5. CASE Crash
  BY <1>5 DEF Crash, files, topology, daemons, args
<1>6. CASE Reboot
  BY <1>6 DEF Reboot, files, args
<1>7. CASE DeriveKeystore
  BY <1>7 DEF DeriveKeystore, files, topology, args, counts, ghosts
<1>8. CASE ServiceRestart
  BY <1>8 DEF ServiceRestart, files, topology, args, counts, ghosts
<1>9. ASSUME NEW o \in Owners, Edit(o) PROVE ValuesOK'
  BY <1>9 DEF Edit, topology, args
<1>10. CASE UNCHANGED vars
  BY <1>10 DEF vars
<1> QED
  BY <1>1, <1>2, <1>3, <1>4, <1>5, <1>6, <1>7, <1>8, <1>9, <1>10, StepCases

\* Every step keeps the state well typed.
LEMMA TypeNext == ShapeOK /\ [Next]_vars => ShapeOK'
BY FlagsNext, ValuesNext DEF ShapeOK

-----------------------------------------------------------------------------
(***************************************************************************)
(* The operator's configuration, when copies and removals complete.         *)
(***************************************************************************)
SetupOnly ==
  {"netns", "veth", "fallback", "move", "wire", "rule", "backup", "copying",
   "write", "writing", "conf", "keystore", "derive", "restart", "health"}

\* A setup-env under way has staged the environment; how a command ended is only
\* remembered between commands.
StagedInv ==
  /\ pc \in SetupOnly => cmd = "setup"
  /\ pc # "idle" /\ cmd = "setup" => staged
  /\ last \in {"cleaned", "rolledBack"} => pc = "idle"

\* Where the backup file is gone for sure.
ClearInv ==
  /\ pc \in {"undone", "unconf"} => fwBackup = Absent
  /\ ~ staged => fwBackup = Absent

\* Where the operator's configuration is.
KeepInv ==
  owner \in Owners =>
    /\ pc \in {"write", "writing", "conf", "keystore", "derive", "restart",
               "health", "restoring"} => fwBackup = owner
    /\ pc # "copying" => fwBackup \in {Absent, owner}
    /\ fwBackup = Absent \/ pc \in {"copying", "unback"} => fwConfig = owner

GivenBackInv ==
  owner \in Owners /\ last \in {"cleaned", "rolledBack"} => fwConfig = owner

FileInv == StagedInv /\ ClearInv /\ KeepInv /\ GivenBackInv

CInv == ShapeOK /\ FileInv

CopiesComplete == ~ May("copy") /\ ~ May("remove")

\* Before the first command the configuration is the operator's own.
LEMMA KeepInit == Init => CInv
<1> SUFFICES ASSUME Init PROVE CInv
  OBVIOUS
<1>1. ShapeOK
  BY TypeInit
<1>2. FileInv
  BY DEF Init, FileInv, StagedInv, ClearInv, KeepInv, GivenBackInv, SetupOnly
<1> QED
  BY <1>1, <1>2 DEF CInv

\* As long as copies complete and backups are removed, every step of setup-env and
\* clean-env keeps the configuration where KeepInv says it is.
LEMMA KeepNext == ASSUME CopiesComplete PROVE CInv /\ [Next]_vars => CInv'
<1> SUFFICES ASSUME CInv, [Next]_vars PROVE CInv'
  OBVIOUS
<1>1. ShapeOK /\ ShapeOK'
  BY TypeNext DEF CInv
<1>2. owner \in Owners \cup {Absent} /\ pc \in Located /\ cmd \in {"setup", "clean"}
  BY <1>1 DEF ShapeOK, ValuesOK
<1> SUFFICES FileInv'
  BY <1>1 DEF CInv
<1> USE DEF CInv, FileInv, StagedInv, ClearInv, KeepInv, GivenBackInv, SetupOnly,
            Goto, Done, Failed, CopiesComplete, Located
<1>3. ASSUME NEW c \in {"setup", "clean"}, NEW s \in Subnets, Start(c, s) PROVE FileInv'
  BY <1>2, <1>3 DEF Start, files
<1>4. CASE TopologyStep
  <2>1. /\ pc \in {"teardown", "netns", "veth", "fallback", "move", "wire", "rule"}
        /\ fwConfig' = fwConfig /\ fwBackup' = fwBackup /\ owner' = owner /\ cmd' = cmd
        /\ \/ /\ last' = last /\ staged' = staged
              /\ pc' \in {"netns", "veth", "fallback", "move", "wire", "rule", "backup",
                          "restore"}
              /\ pc = "teardown" => pc' = IF cmd = "setup" THEN "netns" ELSE "restore"
              /\ pc # "teardown" => pc' # "restore"
           \/ pc' = "idle" /\ last' = "failed" /\ (staged' <=> staged)
    BY <1>4 DEF TopologyStep, Teardown, AddNetns, CreateVeth, CreateVethFallback,
                MovePeer, Wire, AddRule, files, args
  <2> QED
    BY <1>2, <2>1
<1>5. CASE FileStep
  <2> USE DEF args
  <2>1. CASE BackupConfig
    BY <1>2, <2>1 DEF BackupConfig
  <2>2. CASE FinishBackup
    BY <1>2, <2>2 DEF FinishBackup
  <2>3. CASE WriteConfig
    BY <1>2, <2>3 DEF WriteConfig
  <2>4. CASE FinishConfig
    BY <1>2, <2>4 DEF FinishConfig
  <2>5. CASE WriteConf
    BY <1>2, <2>5 DEF WriteConf
  <2>6. CASE RestoreConfig
    BY <1>2, <2>6 DEF RestoreConfig, AfterRestore
  <2>7. CASE FinishRestore
    BY <1>2, <2>7 DEF FinishRestore
  <2>8. CASE RemoveBackup
    BY <1>2, <2>8 DEF RemoveBackup, AfterRestore
  <2>9. CASE RemoveConf
    BY <1>2, <2>9 DEF RemoveConf
  <2> QED
    BY <1>5, <2>1, <2>2, <2>3, <2>4, <2>5, <2>6, <2>7, <2>8, <2>9 DEF FileStep
<1>6. CASE DaemonStep
  <2> USE DEF files, args
  <2>1. CASE EnsureKeystore
    BY <1>2, <2>1 DEF EnsureKeystore
  <2>2. CASE AwaitKeystore
    BY <1>2, <2>2 DEF AwaitKeystore
  <2>3. CASE RestartFw
    <3>1. /\ pc = "restart" /\ UNCHANGED <<files, args, owner>>
          /\ (Goto("health") \/ Failed)
      BY <2>3, Zenon DEF RestartFw
    <3> QED
      BY <1>2, <3>1
  <2>4. CASE WaitHealthy
    BY <1>2, <2>4 DEF WaitHealthy
  <2>5. CASE RestartRestored
    BY <1>2, <2>5 DEF RestartRestored
  <2> QED
    BY <1>6, <2>1, <2>2, <2>3, <2>4, <2>5 DEF DaemonStep
<1>7. CASE Crash
  BY <1>2, <1>7 DEF Crash, Interruptible, files, args
<1>8. CASE Reboot
  BY <1>2, <1>8 DEF Reboot, Interruptible, files, args
<1>9. CASE DeriveKeystore \/ ServiceRestart
  BY <1>2, <1>9 DEF DeriveKeystore, ServiceRestart, files, args, ghosts
<1>10. ASSUME NEW o \in Owners, Edit(o) PROVE FileInv'
  BY <1>2, <1>10 DEF Edit, args
<1>11. CASE UNCHANGED vars
  BY <1>2, <1>11 DEF vars
<1> QED
  BY <1>3, <1>4, <1>5, <1>6, <1>7, <1>8, <1>9, <1>10, <1>11, StepCases

\* As long as no copy is cut short and no removal fails, the operator's
\* configuration survives every sequence of failed, killed, rebooted and repeated
\* commands and of later edits (backup_fw_config, restore_fw_config in env.rs).
THEOREM OriginalAlwaysKept == ASSUME CopiesComplete PROVE Spec => []OriginalKept
<1>1. CInv => OriginalKept
  BY DEF CInv, FileInv, KeepInv, OriginalKept, ShapeOK, ValuesOK
<1> QED
  BY <1>1, KeepInit, KeepNext, PTL DEF Spec

Owned == owner \in Owners

\* A device that had a configuration has one to give back ever after.
LEMMA OwnerStays ==
  ASSUME FirstOwner \in Owners
  PROVE  (Init => Owned) /\ (Owned /\ [Next]_vars => Owned')
<1> USE DEF Owned
<1>1. Init => owner \in Owners
  BY DEF Init
<1>2. ASSUME owner \in Owners, [Next]_vars PROVE owner' \in Owners
  <2>1. (\E o \in Owners : Edit(o)) => owner' \in Owners
    BY DEF Edit
  <2>2. ASSUME ~ \E o \in Owners : Edit(o) PROVE owner' = owner
    BY <1>2, <2>2, Zenon
       DEF Next, StartSetup, StartClean, Start, Command, Teardown, AddNetns,
           CreateVeth, CreateVethFallback, MovePeer, Wire, AddRule, BackupConfig,
           FinishBackup, WriteConfig, FinishConfig, WriteConf, EnsureKeystore,
           AwaitKeystore, RestartFw, WaitHealthy, RestoreConfig, FinishRestore,
           RemoveBackup, RestartRestored, RemoveConf, Crash, Reboot,
           DeriveKeystore, ServiceRestart, ghosts, vars
  <2> QED
    BY <1>2, <2>1, <2>2
<1> QED
  BY <1>1, <1>2

\* On a device that had an idps-fw.yaml, a finished clean-env or a rolled-back
\* setup-env has put the operator's latest configuration back.
THEOREM ConfigAlwaysGivenBack ==
  ASSUME CopiesComplete, FirstOwner \in Owners
  PROVE  Spec => []ConfigGivenBack
<1>1. CInv /\ Owned => ConfigGivenBack
  BY DEF Owned, CInv, FileInv, GivenBackInv, ConfigGivenBack
<1> QED
  BY <1>1, KeepInit, KeepNext, OwnerStays, PTL DEF Spec

-----------------------------------------------------------------------------
(***************************************************************************)
(* Under every fault.                                                       *)
(***************************************************************************)
PartialInv ==
  /\ pc \in {"writing", "restoring"} => fwConfig = Torn
  /\ pc = "copying" => fwConfig # Absent /\ fwBackup # Absent
  /\ pc = "write" => fwBackup # Absent \/ fwConfig = Absent

\* No step of setup-env leaves the backup phase without a backup file.
LEMMA PartialNext == ShapeOK /\ PartialInv /\ [Next]_vars => PartialInv'
<1> SUFFICES ASSUME ShapeOK, PartialInv, [Next]_vars PROVE PartialInv'
  OBVIOUS
<1> USE DEF PartialInv, Goto, Done, Failed
<1>1. ASSUME NEW c \in {"setup", "clean"}, NEW s \in Subnets, Start(c, s) PROVE PartialInv'
  BY <1>1 DEF Start
<1>2. CASE TopologyStep
  <2>1. pc' \notin {"writing", "restoring", "copying", "write"}
    BY <1>2 DEF TopologyStep, Teardown, AddNetns, CreateVeth, CreateVethFallback,
                MovePeer, Wire, AddRule
  <2> QED
    BY <2>1
<1>3. CASE FileStep
  <2>1. CASE BackupConfig \/ FinishBackup \/ WriteConfig
    BY <2>1 DEF BackupConfig, FinishBackup, WriteConfig
  <2>2. CASE FinishConfig \/ WriteConf \/ RemoveBackup \/ RemoveConf
    BY <2>2 DEF FinishConfig, WriteConf, RemoveBackup, RemoveConf, AfterRestore
  <2>3. CASE RestoreConfig \/ FinishRestore
    BY <2>3 DEF RestoreConfig, FinishRestore, AfterRestore
  <2> QED
    BY <1>3, <2>1, <2>2, <2>3 DEF FileStep
<1>4. CASE DaemonStep
  <2>1. pc' \notin {"writing", "restoring", "copying", "write"}
    BY <1>4 DEF DaemonStep, EnsureKeystore, AwaitKeystore, RestartFw, WaitHealthy,
                RestartRestored
  <2> QED
    BY <2>1
<1>5. CASE Crash \/ Reboot
  BY <1>5 DEF Crash, Reboot
<1>6. CASE DeriveKeystore \/ ServiceRestart
  BY <1>6 DEF DeriveKeystore, ServiceRestart, files
<1>7. ASSUME NEW o \in Owners, Edit(o) PROVE PartialInv'
  BY <1>7 DEF Edit
<1>8. CASE UNCHANGED vars
  BY <1>8 DEF vars
<1> QED
  BY <1>1, <1>2, <1>3, <1>4, <1>5, <1>6, <1>7, <1>8, StepCases

\* Under every fault, no step of fw-verify replaces the operator's configuration
\* while no backup file exists.
THEOREM OverwriteAlwaysBacked == Spec => OverwriteNeedsBackup
<1> DEFINE Guarded ==
      fwConfig = owner /\ owner # Absent /\ fwConfig' # fwConfig /\ owner' = owner
        => fwBackup # Absent
<1>1. Init => PartialInv
  BY DEF Init, PartialInv
<1>2. ASSUME ShapeOK, PartialInv, [Next]_vars PROVE [Guarded]_vars
  <2> SUFFICES ASSUME fwConfig = owner, owner # Absent, fwConfig' # fwConfig,
                      owner' = owner
               PROVE  fwBackup # Absent
    OBVIOUS
  <2>1. owner # Torn
    BY <1>2 DEF ShapeOK, ValuesOK
  <2>2. WriteConfig \/ FinishConfig \/ RestoreConfig \/ FinishRestore
    <3>1. CASE TopologyStep
      BY <3>1, Zenon DEF TopologyStep, Teardown, AddNetns, CreateVeth,
                  CreateVethFallback, MovePeer, Wire, AddRule, files
    <3>2. CASE DaemonStep
      BY <3>2, Zenon DEF DaemonStep, EnsureKeystore, AwaitKeystore, RestartFw,
                  WaitHealthy, RestartRestored, files
    <3>3. CASE FileStep
      BY <3>3, Zenon DEF FileStep, BackupConfig, FinishBackup, WriteConf,
                  RemoveBackup, RemoveConf
    <3>4. CASE Crash \/ Reboot \/ DeriveKeystore \/ ServiceRestart
      BY <3>4, Zenon DEF Crash, Reboot, DeriveKeystore, ServiceRestart, files
    <3>5. \A o \in Owners : ~ Edit(o)
      BY DEF Edit
    <3>6. \A c \in {"setup", "clean"}, s \in Subnets : ~ Start(c, s)
      BY DEF Start, files
    <3>7. ~ UNCHANGED vars
      BY Zenon DEF vars
    <3> QED
      BY <1>2, <3>1, <3>2, <3>3, <3>4, <3>5, <3>6, <3>7, StepCases
  <2> QED
    BY <1>2, <2>1, <2>2
       DEF PartialInv, WriteConfig, FinishConfig, RestoreConfig, FinishRestore
<1> QED
  BY <1>1, <1>2, TypeInit, TypeNext, PartialNext, PTL
     DEF Spec, OverwriteNeedsBackup

-----------------------------------------------------------------------------
(***************************************************************************)
(* The topology, when every `ip` invocation that can succeed does.          *)
(***************************************************************************)
OneSubnetNoIpFault == ~ May("ip") /\ Subnets = {DefaultSubnet}

TornDown == ~ netns /\ veth = "none" /\ rules[DefaultSubnet] = 0

\* At most one ip rule is ever left to the next teardown, which is why its bounded
\* deletion loop is enough; a clean-env past its teardown has nothing left.
TornInv ==
  /\ rules[DefaultSubnet] <= 1
  /\ pc \in {"netns", "veth", "fallback", "move", "wire", "rule"} => rules[DefaultSubnet] = 0
  /\ pc \notin {"idle", "teardown"} /\ cmd = "clean" => TornDown
  /\ pc = "unconf" => cmd = "clean"
  /\ last = "cleaned" => pc = "idle" /\ TornDown

\* Every step of setup-env and clean-env keeps TornInv.
LEMMA TornNext ==
  ASSUME OneSubnetNoIpFault
  PROVE  ShapeOK /\ StagedInv /\ TornInv /\ [Next]_vars => TornInv'
<1> SUFFICES ASSUME ShapeOK, StagedInv, TornInv, [Next]_vars PROVE TornInv'
  OBVIOUS
<1>1. /\ rules \in [Subnets -> Nat] /\ rules[DefaultSubnet] \in Nat /\ subnet = DefaultSubnet
      /\ cmd \in {"setup", "clean"}
  BY DEF ShapeOK, ValuesOK, OneSubnetNoIpFault
<1> USE DEF TornInv, TornDown, Goto, Done, Failed
<1>2. ASSUME NEW c \in {"setup", "clean"}, NEW s \in Subnets, Start(c, s) PROVE TornInv'
  BY <1>2 DEF Start, topology
<1>3. CASE Teardown
  <2>1. rules'[DefaultSubnet] = 0
    <3>1. PICK n \in RulesLeft(rules[subnet]) : rules' = [rules EXCEPT ![subnet] = n]
      BY <1>3 DEF Teardown
    <3>2. n = 0
      BY <1>1 DEF RulesLeft, OneSubnetNoIpFault
    <3> QED BY <1>1, <3>1, <3>2
  <2>2. ~ netns' /\ veth' = "none"
    BY <1>3 DEF Teardown, OneSubnetNoIpFault
  <2>3. /\ pc' \in {"netns", "restore"} /\ last' = last /\ cmd' = cmd /\ pc = "teardown"
    BY <1>3 DEF Teardown, args
  <2> QED BY <2>1, <2>2, <2>3
<1>4. CASE AddNetns \/ CreateVeth \/ CreateVethFallback \/ MovePeer \/ Wire
  <2>1. /\ pc \in {"netns", "veth", "fallback", "move", "wire"}
        /\ UNCHANGED <<rules, cmd>> /\ last' \in {last, "failed"}
        /\ pc' \in {"idle", "veth", "fallback", "move", "wire", "rule", "backup"}
    BY <1>4 DEF AddNetns, CreateVeth, CreateVethFallback, MovePeer, Wire, args
  <2>2. cmd = "setup"
    BY <2>1 DEF StagedInv, SetupOnly
  <2> QED BY <2>1, <2>2
<1>5. CASE AddRule
  <2>1. pc = "rule" /\ cmd' = cmd /\ pc' \in {"idle", "backup"} /\ last' \in {last, "failed"}
    BY <1>5 DEF AddRule, args
  <2>2. rules'[DefaultSubnet] \in {0, 1}
    BY <1>1, <1>5 DEF AddRule
  <2>3. cmd = "setup"
    BY <2>1 DEF StagedInv, SetupOnly
  <2> QED BY <2>1, <2>2, <2>3
<1>6. CASE FileStep
  <2>1. /\ UNCHANGED <<netns, veth, rules, cmd>>
        /\ pc \notin {"idle", "teardown"}
        /\ pc' \notin {"teardown", "netns", "veth", "fallback", "move", "wire", "rule"}
        /\ pc' = "unconf" => cmd = "clean"
        /\ last' \in {last, "failed", "written"} \/ (pc = "unconf" /\ pc' = "idle")
    BY <1>1, <1>6
       DEF FileStep, BackupConfig, FinishBackup, WriteConfig, FinishConfig, WriteConf,
           RestoreConfig, FinishRestore, RemoveBackup, RemoveConf, AfterRestore,
           topology, args
  <2> QED BY <2>1
<1>7. CASE DaemonStep
  <2>1. /\ UNCHANGED <<netns, veth, rules, cmd>>
        /\ pc \notin {"idle", "teardown"}
        /\ pc' \notin {"teardown", "netns", "veth", "fallback", "move", "wire", "rule"}
        /\ pc' = "unconf" => cmd = "clean"
        /\ last' \in {last, "failed", "ready", "rolledBack"}
    BY <1>1, <1>7
       DEF DaemonStep, EnsureKeystore, AwaitKeystore, RestartFw, WaitHealthy,
           RestartRestored, topology, args
  <2> QED BY <2>1
<1>8. CASE Crash \/ Reboot
  <2>1. pc' = "idle" /\ last' = "cut"
    BY <1>8 DEF Crash, Reboot
  <2>2. rules'[DefaultSubnet] \in {0, rules[DefaultSubnet]}
    BY <1>1, <1>8 DEF Crash, Reboot, topology
  <2> QED BY <2>1, <2>2
<1>9. CASE DeriveKeystore \/ ServiceRestart \/ UNCHANGED vars
  BY <1>9 DEF DeriveKeystore, ServiceRestart, topology, args, vars
<1>10. ASSUME NEW o \in Owners, Edit(o) PROVE TornInv'
  BY <1>10 DEF Edit, topology, args
<1> QED
  BY <1>2, <1>3, <1>4, <1>5, <1>6, <1>7, <1>8, <1>9, <1>10, StepCases DEF TopologyStep

\* A setup-env under way stays one, under every fault.
LEMMA StagedNext == ShapeOK /\ StagedInv /\ [Next]_vars => StagedInv'
<1> SUFFICES ASSUME ShapeOK, StagedInv, [Next]_vars PROVE StagedInv'
  OBVIOUS
<1>1. pc \in Located /\ cmd \in {"setup", "clean"} /\ staged \in BOOLEAN
  BY Zenon DEF ShapeOK, ValuesOK, FlagsOK
<1> USE DEF StagedInv, SetupOnly, Goto, Done, Failed, Located
<1>2. ASSUME NEW c \in {"setup", "clean"}, NEW s \in Subnets, Start(c, s) PROVE StagedInv'
  BY <1>2 DEF Start
<1>3. CASE TopologyStep
  <2>1. /\ cmd' = cmd /\ pc # "idle"
        /\ \/ /\ last' = last /\ staged' = staged
              /\ pc' \in SetupOnly => cmd = "setup"
           \/ pc' = "idle" /\ last' = "failed"
    BY <1>1, <1>3 DEF TopologyStep, Teardown, AddNetns, CreateVeth, CreateVethFallback,
                MovePeer, Wire, AddRule, args
  <2> QED BY <2>1
<1>4. CASE FileStep
  <2>1. /\ cmd' = cmd /\ pc # "idle"
        /\ \/ /\ last' = last /\ staged' = staged
              /\ pc' \in SetupOnly => pc \in SetupOnly
           \/ pc' = "idle"
    BY <1>1, <1>4 DEF FileStep, BackupConfig, FinishBackup, WriteConfig, FinishConfig,
           WriteConf, RestoreConfig, FinishRestore, RemoveBackup, RemoveConf, AfterRestore,
           args
  <2> QED BY <2>1
<1>5. CASE DaemonStep
  <2>1. /\ cmd' = cmd /\ pc # "idle"
        /\ \/ /\ last' = last /\ staged' = staged
              /\ pc' \in SetupOnly => pc \in SetupOnly
           \/ pc' = "idle"
    BY <1>1, <1>5 DEF DaemonStep, EnsureKeystore, AwaitKeystore, RestartFw, WaitHealthy,
           RestartRestored, args
  <2> QED BY <2>1
<1>6. CASE Crash \/ Reboot
  BY <1>6 DEF Crash, Reboot
<1>7. CASE DeriveKeystore \/ ServiceRestart \/ UNCHANGED vars
  BY <1>7 DEF DeriveKeystore, ServiceRestart, args, ghosts, vars
<1>8. ASSUME NEW o \in Owners, Edit(o) PROVE StagedInv'
  BY <1>8 DEF Edit, args
<1> QED
  BY <1>2, <1>3, <1>4, <1>5, <1>6, <1>7, <1>8, StepCases

\* A finished clean-env leaves neither namespace nor veth pair nor ip rule behind, after
\* any number of interrupted, rebooted and repeated setups: for every limit of the
\* deletion loop of teardown_topology, as each setup-env starts with a teardown.  (An
\* `ip` failure is ignored there, and clean-env only knows the default prefix.)
THEOREM CleanAlwaysTearsDown ==
  ASSUME OneSubnetNoIpFault
  PROVE  Spec => []CleanTearsDown
<1>1. Init => StagedInv /\ TornInv
  BY DEF Init, StagedInv, TornInv, SetupOnly
<1>2. TornInv => CleanTearsDown
  BY DEF TornInv, TornDown, CleanTearsDown, OneSubnetNoIpFault
<1> QED
  BY <1>1, <1>2, TypeInit, TypeNext, StagedNext, TornNext, PTL DEF Spec

-----------------------------------------------------------------------------
(***************************************************************************)
(* What a setup-env has in place at each of its steps: every step relies on  *)
(* those before it, and only a reboot, which ends the command, undoes them.   *)
(***************************************************************************)
AfterNetns == SetupOnly \ {"netns"}
AfterVeth == AfterNetns \ {"veth", "fallback", "move"}
AfterWire == AfterVeth \ {"wire"}
AfterRule == AfterWire \ {"rule"}
AfterConfig == {"conf", "keystore", "derive", "restart", "health"}

LinkInv ==
  /\ pc \in AfterNetns => netns
  /\ pc \in AfterVeth => veth = "split"
  /\ pc \in AfterWire => wired
  /\ pc \in AfterRule /\ Mode = "android" => rules[subnet] > 0

ConfInv ==
  /\ pc \in AfterConfig => fwConfig = TestCfg
  /\ pc \in AfterConfig \ {"conf"} => fwvConf /\ Mode = "android"
  /\ pc \in {"restart", "health"} => keystore
  /\ pc = "health" => running \in {TestCfg, Down}

StepwiseInv ==
  /\ LinkInv /\ ConfInv
  /\ last = "ready" => pc = "idle" /\ ReadyApplied

\* The topology is built up in order, and stays while the command runs.
LEMMA LinkNext == ShapeOK /\ LinkInv /\ [Next]_vars => LinkInv'
<1> SUFFICES ASSUME ShapeOK, LinkInv, [Next]_vars PROVE LinkInv'
  OBVIOUS
<1>1. /\ rules \in [Subnets -> Nat] /\ subnet \in Subnets /\ pc \in Located
      /\ cmd \in {"setup", "clean"}
  BY DEF ShapeOK, ValuesOK
<1> USE DEF LinkInv, SetupOnly, AfterNetns, AfterVeth, AfterWire, AfterRule, Goto, Done,
            Failed
<1>2. ASSUME NEW c \in {"setup", "clean"}, NEW s \in Subnets, Start(c, s) PROVE LinkInv'
  BY <1>2 DEF Start
<1>3. CASE Teardown
  <2>1. pc' \in {"netns", "restore"}
    BY <1>3 DEF Teardown
  <2> QED BY <2>1
<1>4. CASE AddNetns \/ CreateVeth
  BY <1>4 DEF AddNetns, CreateVeth
<1>5. CASE CreateVethFallback \/ MovePeer
  BY <1>5 DEF CreateVethFallback, MovePeer
<1>6. CASE Wire
  BY <1>6 DEF Wire
<1>7. CASE AddRule
  <2>1. /\ UNCHANGED <<netns, veth, wired, subnet>> /\ pc = "rule" /\ pc' \in {"backup", "idle"}
        /\ pc' = "backup" => rules' = [rules EXCEPT ![subnet] = @ + 1]
    BY <1>7 DEF AddRule, args
  <2>2. pc' = "backup" => rules'[subnet'] > 0
    BY <1>1, <2>1
  <2> QED BY <2>1, <2>2
<1>8. CASE FileStep \/ DaemonStep
  <2>1. UNCHANGED <<netns, veth, wired, rules, subnet>>
    BY <1>8 DEF FileStep, BackupConfig, FinishBackup, WriteConfig, FinishConfig, WriteConf,
           RestoreConfig, FinishRestore, RemoveBackup, RemoveConf,
           DaemonStep, EnsureKeystore, AwaitKeystore, RestartFw, WaitHealthy,
           RestartRestored, topology, args
  <2>2. CASE FileStep
    <3>1. pc' \in SetupOnly => pc \in AfterRule /\ pc' \in AfterRule
      BY <2>2 DEF FileStep, BackupConfig, FinishBackup, WriteConfig, FinishConfig, WriteConf,
             RestoreConfig, FinishRestore, RemoveBackup, RemoveConf, AfterRestore
    <3> QED BY <2>1, <3>1
  <2>3. CASE DaemonStep
    <3>1. pc' \in SetupOnly => pc \in AfterRule /\ pc' \in AfterRule
      BY <2>3 DEF DaemonStep, EnsureKeystore, AwaitKeystore, RestartFw, WaitHealthy,
             RestartRestored
    <3> QED BY <2>1, <3>1
  <2> QED BY <1>8, <2>2, <2>3
<1>9. CASE Crash \/ Reboot
  BY <1>9 DEF Crash, Reboot
<1>10. CASE DeriveKeystore \/ ServiceRestart \/ UNCHANGED vars
  BY <1>10 DEF DeriveKeystore, ServiceRestart, topology, args, vars
<1>11. ASSUME NEW o \in Owners, Edit(o) PROVE LinkInv'
  BY <1>11 DEF Edit
<1> QED
  BY <1>2, <1>3, <1>4, <1>5, <1>6, <1>7, <1>8, <1>9, <1>10, <1>11, StepCases
     DEF TopologyStep

\* Every step keeps the pair in one piece: what Wire and MovePeer rely on is LinkInv.
LEMMA PairNext == ShapeOK /\ LinkInv /\ PairOK /\ [Next]_vars => PairOK'
<1> SUFFICES ASSUME ShapeOK, LinkInv, PairOK, [Next]_vars PROVE PairOK'
  OBVIOUS
<1> USE DEF PairOK
<1>1. CASE Teardown
  BY <1>1 DEF Teardown
<1>2. CASE AddNetns \/ CreateVeth \/ CreateVethFallback \/ MovePeer
  <2>1. pc \in {"veth", "fallback", "move"} => netns
    BY DEF LinkInv, AfterNetns, SetupOnly
  <2> QED BY <1>2, <2>1 DEF AddNetns, CreateVeth, CreateVethFallback, MovePeer
<1>3. CASE Wire \/ AddRule
  <2>1. pc = "wire" => veth = "split"
    BY DEF LinkInv, AfterNetns, AfterVeth, SetupOnly
  <2> QED BY <1>3, <2>1 DEF Wire, AddRule
<1>4. CASE Reboot
  BY <1>4 DEF Reboot
<1>5. ASSUME UNCHANGED <<netns, veth, wired>> PROVE PairOK'
  BY <1>5
<1>6. CASE FileStep
  BY <1>5, <1>6 DEF FileStep, BackupConfig, FinishBackup, WriteConfig, FinishConfig,
         WriteConf, RestoreConfig, FinishRestore, RemoveBackup, RemoveConf, topology
<1>7. CASE DaemonStep
  BY <1>5, <1>7 DEF DaemonStep, EnsureKeystore, AwaitKeystore, RestartFw, WaitHealthy,
         RestartRestored, topology
<1>8. CASE Crash \/ DeriveKeystore \/ ServiceRestart \/ UNCHANGED vars
  BY <1>5, <1>8 DEF Crash, DeriveKeystore, ServiceRestart, topology, vars
<1>9. ASSUME NEW o \in Owners, Edit(o) PROVE PairOK'
  BY <1>5, <1>9 DEF Edit, topology
<1>10. ASSUME NEW c \in {"setup", "clean"}, NEW s \in Subnets, Start(c, s) PROVE PairOK'
  BY <1>5, <1>10 DEF Start, topology
<1> QED
  BY <1>1, <1>2, <1>3, <1>4, <1>6, <1>7, <1>8, <1>9, <1>10, StepCases DEF TopologyStep

\* Under every fault, setup-env and clean-env keep their state well formed, and never
\* put addresses on a veth pair whose ends are both in the root namespace.
THEOREM EnvTypeCorrect == Spec => []TypeOK
<1>1. Init => LinkInv /\ PairOK
  BY DEF Init, PairOK, LinkInv, SetupOnly, AfterNetns, AfterVeth, AfterWire, AfterRule
<1>2. ShapeOK /\ PairOK => TypeOK
  BY DEF TypeOK
<1> QED
  BY <1>1, <1>2, TypeInit, TypeNext, LinkNext, PairNext, PTL DEF Spec

\* The configuration is in place before idps-fw is restarted to read it.
LEMMA ConfNext ==
  ASSUME ~ May("stop")
  PROVE  ShapeOK /\ ConfInv /\ [Next]_vars => ConfInv'
<1> SUFFICES ASSUME ShapeOK, ConfInv, [Next]_vars PROVE ConfInv'
  OBVIOUS
<1>1. pc \in Located /\ cmd \in {"setup", "clean"}
  BY DEF ShapeOK, ValuesOK
<1> USE DEF ConfInv, AfterConfig, Goto, Done, Failed
<1>2. ASSUME NEW c \in {"setup", "clean"}, NEW s \in Subnets, Start(c, s) PROVE ConfInv'
  BY <1>2 DEF Start
<1>3. CASE TopologyStep
  <2>1. pc' \notin AfterConfig
    BY <1>3 DEF TopologyStep, Teardown, AddNetns, CreateVeth, CreateVethFallback,
                MovePeer, Wire, AddRule
  <2> QED BY <2>1
<1>4. CASE FileStep
  <2>1. CASE FinishConfig
    BY <2>1 DEF FinishConfig
  <2>2. CASE WriteConf
    <3>1. pc = "conf" /\ fwConfig' = fwConfig /\ pc' \in {"keystore", "idle"}
      BY <2>2 DEF WriteConf
    <3>2. pc' = "keystore" => fwvConf' /\ Mode = "android"
      BY <2>2 DEF WriteConf
    <3> QED BY <3>1, <3>2
  <2>3. CASE ~ FinishConfig /\ ~ WriteConf
    <3>1. pc' \notin AfterConfig
      BY <1>4, <2>3 DEF FileStep, BackupConfig, FinishBackup, WriteConfig, RestoreConfig,
             FinishRestore, RemoveBackup, RemoveConf, AfterRestore
    <3> QED BY <3>1
  <2> QED BY <2>1, <2>2, <2>3
<1>5. CASE EnsureKeystore \/ AwaitKeystore
  <2>1. /\ UNCHANGED <<fwConfig, fwvConf, keystore>> /\ pc \in {"keystore", "derive"}
        /\ pc' \in {"restart", "derive", "idle"} /\ (pc' = "restart" => keystore)
    BY <1>5 DEF EnsureKeystore, AwaitKeystore, files, daemons
  <2> QED BY <2>1
<1>6. CASE RestartFw
  <2>1. /\ UNCHANGED <<fwConfig, fwvConf, keystore>> /\ pc = "restart"
        /\ pc' \in {"health", "idle"} /\ (pc' = "health" => running' \in AfterRestart)
    BY <1>6 DEF RestartFw, files
  <2>2. AfterRestart \subseteq {fwConfig, Down}
    BY DEF AfterRestart
  <2> QED BY <2>1, <2>2
<1>7. CASE WaitHealthy \/ RestartRestored
  BY <1>7 DEF WaitHealthy, RestartRestored
<1>8. CASE Crash \/ Reboot
  BY <1>8 DEF Crash, Reboot
<1>9. CASE DeriveKeystore
  BY <1>9 DEF DeriveKeystore, files
<1>10. CASE ServiceRestart \/ UNCHANGED vars
  BY <1>10 DEF ServiceRestart, files, vars
<1>11. ASSUME NEW o \in Owners, Edit(o) PROVE ConfInv'
  BY <1>11 DEF Edit
<1> QED
  BY <1>2, <1>3, <1>4, <1>5, <1>6, <1>7, <1>8, <1>9, <1>10, <1>11, StepCases
     DEF DaemonStep

\* What was in place when setup-env reported success stays until the next command.
LEMMA ReadyNext ==
  ASSUME ~ May("stop")
  PROVE  ShapeOK /\ StepwiseInv /\ [Next]_vars => StepwiseInv'
<1> SUFFICES ASSUME ShapeOK, StepwiseInv, [Next]_vars PROVE StepwiseInv'
  OBVIOUS
<1>1. LinkInv' /\ ConfInv'
  BY LinkNext, ConfNext DEF StepwiseInv
<1> SUFFICES ASSUME last' = "ready" PROVE (pc = "idle" /\ ReadyApplied)'
  BY <1>1 DEF StepwiseInv
<1> USE DEF Goto, Done, Failed
<1>2. CASE last = "ready"
  <2>1. pc = "idle" /\ ReadyApplied
    BY <1>2 DEF StepwiseInv
  <2>2. ~ TopologyStep /\ ~ FileStep /\ ~ DaemonStep /\ ~ Crash
    BY <2>1 DEF TopologyStep, Teardown, AddNetns, CreateVeth, CreateVethFallback, MovePeer,
           Wire, AddRule, FileStep, BackupConfig, FinishBackup, WriteConfig, FinishConfig,
           WriteConf, RestoreConfig, FinishRestore, RemoveBackup, RemoveConf, DaemonStep,
           EnsureKeystore, AwaitKeystore, RestartFw, WaitHealthy, RestartRestored, Crash
  <2>3. /\ ~ Reboot
        /\ \A c \in {"setup", "clean"}, s \in Subnets : ~ Start(c, s)
        /\ \A o \in Owners : ~ Edit(o)
    BY DEF Reboot, Start, Edit
  <2>4. CASE ServiceRestart
    BY <2>1, <2>4 DEF ServiceRestart, ReadyApplied, files, topology, args
  <2>5. CASE DeriveKeystore
    BY <2>1, <2>5 DEF DeriveKeystore, ReadyApplied, files, topology, args
  <2>6. CASE UNCHANGED vars
    BY <2>1, <2>6 DEF vars, ReadyApplied
  <2> QED BY <2>2, <2>3, <2>4, <2>5, <2>6, StepCases
<1>3. CASE last # "ready"
  <2>1. WaitHealthy
    <3>1. ~ TopologyStep
      BY <1>3 DEF TopologyStep, Teardown, AddNetns, CreateVeth, CreateVethFallback, MovePeer,
             Wire, AddRule
    <3>2. ~ FileStep
      BY <1>3 DEF FileStep, BackupConfig, FinishBackup, WriteConfig, FinishConfig, WriteConf,
             RestoreConfig, FinishRestore, RemoveBackup, RemoveConf
    <3>3. ~ EnsureKeystore /\ ~ AwaitKeystore /\ ~ RestartFw /\ ~ RestartRestored
      BY <1>3 DEF EnsureKeystore, AwaitKeystore, RestartFw, RestartRestored
    <3>4. ~ Crash /\ ~ Reboot /\ ~ DeriveKeystore /\ ~ ServiceRestart /\ ~ UNCHANGED vars
      BY <1>3 DEF Crash, Reboot, DeriveKeystore, ServiceRestart, vars
    <3>5. /\ \A c \in {"setup", "clean"}, s \in Subnets : ~ Start(c, s)
          /\ \A o \in Owners : ~ Edit(o)
      BY DEF Start, Edit
    <3> QED BY <3>1, <3>2, <3>3, <3>4, <3>5, StepCases DEF DaemonStep
  <2>2. /\ pc = "health" /\ running # Down /\ pc' = "idle"
        /\ UNCHANGED <<files, topology, daemons, args>>
    BY <1>3, <2>1 DEF WaitHealthy
  <2>3. ReadyApplied'
    BY <2>2 DEF StepwiseInv, LinkInv, ConfInv, ReadyApplied, AfterNetns, AfterVeth,
                AfterWire, AfterRule, AfterConfig, SetupOnly, files, topology, daemons, args
  <2> QED BY <2>2, <2>3
<1> QED BY <1>2, <1>3

\* When setup-env reports success idps-fw runs with the test configuration, the keystore
\* is derived and the whole topology is in place: for every number of commands, under
\* every fault but a `stop` that fails (ensure_keystore and restart_fw in env.rs wait for
\* what they ask for; `start` leaves a service alone that `stop` did not stop).
THEOREM ReadyIsApplied ==
  ASSUME ~ May("stop")
  PROVE  Spec => []ReadyApplied
<1>1. Init => StepwiseInv
  BY DEF Init, StepwiseInv, LinkInv, ConfInv, SetupOnly, AfterNetns, AfterVeth, AfterWire,
         AfterRule, AfterConfig
<1>2. StepwiseInv => ReadyApplied
  BY DEF StepwiseInv, ReadyApplied
<1> QED
  BY <1>1, <1>2, TypeInit, TypeNext, ReadyNext, PTL DEF Spec

-----------------------------------------------------------------------------
\* While nothing was killed, rebooted or edited, a daemon that does not run with the
\* operator's configuration can be told from the backup file that is still there, or
\* from the restart that is about to come.
DaemonInv ==
  upsets = 0 /\ Mode = "android" =>
    /\ fwBackup = Absent /\ pc # "undone" => running = owner
    /\ last = "cleaned" => running = owner

ServicesObey == ~ May("stop") /\ ~ May("start")

\* Every step keeps DaemonInv where copies, removals and restarts succeed.
LEMMA DaemonNext ==
  ASSUME CopiesComplete, ServicesObey
  PROVE  CInv /\ Owned /\ DaemonInv /\ [Next]_vars => DaemonInv'
<1> SUFFICES ASSUME CInv, Owned, DaemonInv, [Next]_vars, upsets' = 0, Mode = "android"
             PROVE DaemonInv'
  BY DEF DaemonInv
<1>1. /\ upsets \in Nat /\ owner # Absent /\ owner \in Owners /\ pc \in Located
      /\ cmd \in {"setup", "clean"} /\ fwConfig \in Content
  BY DEF CInv, ShapeOK, ValuesOK, Owned
<1> USE DEF DaemonInv, Goto, Done, Failed
<1>2. AfterRestart = {fwConfig}
  BY DEF AfterRestart, ServicesObey
<1>3. ASSUME NEW c \in {"setup", "clean"}, NEW s \in Subnets, Start(c, s) PROVE DaemonInv'
  BY <1>3 DEF Start, files, daemons, CInv, FileInv, StagedInv
<1>4. CASE TopologyStep
  <2>1. /\ UNCHANGED <<fwBackup, running, owner, upsets>> /\ pc # "undone"
        /\ last' \in {last, "failed"}
    BY <1>4 DEF TopologyStep, Teardown, AddNetns, CreateVeth, CreateVethFallback, MovePeer,
           Wire, AddRule, files, daemons, counts
  <2> QED BY <2>1
<1>5. CASE FileStep
  <2> USE DEF topology, daemons, args, counts
  <2>1. CASE BackupConfig \/ FinishBackup \/ WriteConfig
    BY <1>1, <2>1 DEF BackupConfig, FinishBackup, WriteConfig, CInv, FileInv, KeepInv
  <2>2. CASE FinishConfig \/ RestoreConfig
    BY <1>1, <2>2 DEF FinishConfig, RestoreConfig, AfterRestore
  <2>3. CASE WriteConf
    <3>1. /\ UNCHANGED <<fwBackup, running, owner, upsets>> /\ pc # "undone"
          /\ last' \in {last, "failed", "written"}
      BY <2>3 DEF WriteConf
    <3> QED BY <3>1
  <2>4. CASE FinishRestore
    BY <1>1, <2>4 DEF FinishRestore, CopiesComplete
  <2>5. CASE RemoveBackup
    <3>1. /\ pc' \in {"unconf", "undone"} /\ UNCHANGED <<running, owner, upsets, last>>
          /\ pc' = "undone"
      BY <2>5 DEF RemoveBackup, AfterRestore
    <3> QED BY <3>1
  <2>6. CASE RemoveConf
    <3>1. /\ UNCHANGED <<fwBackup, running, owner, upsets>> /\ pc = "unconf"
      BY <2>6 DEF RemoveConf
    <3>2. fwBackup = Absent
      BY <3>1 DEF CInv, FileInv, ClearInv
    <3> QED BY <3>1, <3>2
  <2> QED
    BY <1>5, <2>1, <2>2, <2>3, <2>4, <2>5, <2>6 DEF FileStep
<1>6. CASE EnsureKeystore \/ AwaitKeystore \/ WaitHealthy
  <2>1. /\ UNCHANGED <<fwBackup, running, owner, upsets>> /\ pc # "undone"
        /\ last' \in {last, "failed", "ready"}
    BY <1>6 DEF EnsureKeystore, AwaitKeystore, WaitHealthy, files, daemons, counts
  <2> QED BY <2>1
<1>7. CASE RestartFw
  <2>1. /\ UNCHANGED <<fwBackup, owner, upsets>> /\ pc = "restart" /\ last' = last
        /\ running' = fwConfig
    BY <1>2, <1>7 DEF RestartFw, files, counts, ServicesObey
  <2>2. fwBackup = owner /\ last # "cleaned"
    BY <1>1, <2>1 DEF CInv, FileInv, KeepInv, StagedInv
  <2> QED BY <1>1, <2>1, <2>2
<1>8. CASE RestartRestored
  <2>1. /\ UNCHANGED <<fwBackup, owner, upsets>> /\ pc = "undone" /\ last' \in {last, "rolledBack"}
        /\ running' = fwConfig
    BY <1>2, <1>8 DEF RestartRestored, files, counts
  <2>2. fwConfig = owner
    BY <1>1, <2>1 DEF CInv, FileInv, ClearInv, KeepInv
  <2> QED BY <2>1, <2>2
<1>9. CASE Crash \/ Reboot
  BY <1>1, <1>9 DEF Crash, Reboot
<1>10. CASE DeriveKeystore \/ UNCHANGED vars
  BY <1>10 DEF DeriveKeystore, files, counts, ghosts, vars
<1>11. CASE ServiceRestart
  <2>1. /\ UNCHANGED <<fwBackup, owner, upsets, last, pc>> /\ running' = fwConfig /\ pc = "idle"
    BY <1>11 DEF ServiceRestart, files, counts, ghosts
  <2>2. fwBackup = Absent \/ last = "cleaned" => fwConfig = owner
    BY <1>1 DEF CInv, FileInv, KeepInv, GivenBackInv
  <2> QED BY <2>1, <2>2
<1>12. ASSUME NEW o \in Owners, Edit(o) PROVE DaemonInv'
  BY <1>1, <1>12 DEF Edit
<1> QED
  BY <1>3, <1>4, <1>5, <1>6, <1>7, <1>8, <1>9, <1>10, <1>11, <1>12, StepCases DEF DaemonStep

\* After any sequence of complete and failed setup-env and clean-env commands, a
\* finished clean-env has idps-fw run with the operator's configuration again
\* (clean_env restarts the service exactly when it restored the file).
THEOREM DaemonAlwaysGivenBack ==
  ASSUME CopiesComplete, ServicesObey, FirstOwner \in Owners
  PROVE  Spec => []DaemonGivenBack
<1>1. Init => DaemonInv
  BY DEF Init, DaemonInv
<1>2. DaemonInv => DaemonGivenBack
  BY DEF DaemonInv, DaemonGivenBack
<1> QED
  BY <1>1, <1>2, KeepInit, KeepNext, OwnerStays, DaemonNext, PTL DEF Spec

=============================================================================
