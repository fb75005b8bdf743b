---------------------------- MODULE Config_proofs ----------------------------
(***************************************************************************)
(* The documented precedence of flags, environment, file and defaults, and   *)
(* what follows from it for workers and for the commands after a setup-env,  *)
(* for all files, environments and flags.                                    *)
(*                                                                         *)
(* Precedence speaks of the whole file, which apply_config_env reads line by  *)
(* line into the environment that clap consults.  ReadInv says what the       *)
(* environment is in between: the first of the lines read so far, unless the  *)
(* shell had set the variable.                                               *)
(***************************************************************************)
EXTENDS Config, TLAPS

USE ConfigAssumption, ValueAssumption

Range(s) == {s[i] : i \in DOMAIN s}

\* A file: every line has a value.
WellFormed(s) == s \in Seq(Range(s)) /\ \A i \in DOMAIN s : s[i].value # Unset

Acting == {"setup", "fwconfig", "fwvconf", "run", "clean", "spawn"}

ShapeInv ==
  /\ pc \in {"idle", "file"} \cup Acting /\ cmd \in {"setup", "run", "clean"}
  /\ DOMAIN env = Key
  /\ WellFormed(given) /\ lines \in Seq(Range(given))

\* Lines read so far.
Read == Len(given) - Len(lines)

\* Line m is the first of key k.
FirstOf(m, k) ==
  /\ m \in DOMAIN given /\ given[m].key = k
  /\ \A j \in DOMAIN given : j < m => given[j].key # k

ReadInv ==
  pc = "file" =>
    /\ Len(lines) <= Len(given)
    /\ \A i \in 1 .. Len(lines) : lines[i] = given[Read + i]
    /\ \A k \in Key :
         \/ env[k] = shell[k] /\ \A i \in 1 .. Read : given[i].key # k
         \/ \E m \in 1 .. Read : FirstOf(m, k) /\ env[k] = Or(shell[k], given[m].value)

\* What the command acts on is what clap chose, and was not refused.
ChosenInv == pc \in Acting => global = Chosen(flags, env) /\ ~ Refused(global)

\* The same, seen from the file.
PrecedenceInv ==
  pc \in Acting =>
    \A k \in Key : global[k] = Or(flags[k], Or(shell[k], Or(InFile(k), Default[k])))

\* fw-verify.conf is that of one setup-env, and a command given it reads it.
ConfInv ==
  /\ conf # <<>> => /\ conf = WriteFwvConf(wrote)
                    /\ wrote.mode # Unset /\ wrote.ip # Unset /\ wrote.url # Unset
  /\ pc # "idle" /\ saved => conf # <<>> /\ given = conf

\* That setup-env staged its topology first, and nothing has touched it since.
StageInv ==
  /\ pc \in {"fwconfig", "fwvconf"} => staged = Topology(global)
  /\ intact => wrote = staged

\* RunConfig::resolve in terms of what clap chose.
ResolveInv ==
  pc = "spawn" =>
    /\ cfg.mode = global["mode"] /\ cfg.ip = Or(global["target_ip"], staged.ip)
    /\ cfg.mode = "host" => cfg.url = Or(global["vsoc_url"], DefaultUrl)

CInv ==
  ShapeInv /\ ReadInv /\ ChosenInv /\ PrecedenceInv /\ ConfInv /\ StageInv /\ ResolveInv

-----------------------------------------------------------------------------
\* The default of an option is a good value of its type, or none.
LEMMA Defaults ==
  /\ Default["mode"] = "host" /\ Default["target_ip"] = Unset
  /\ \A k \in Typed : Default[k] # Bad
BY DEF Default, Key, Typed

\* Reading a line takes the first of those left.
LEMMA Reading ==
  ASSUME NEW S, NEW s \in Seq(S), s # <<>>
  PROVE  /\ Len(s) \in Nat \ {0} /\ Head(s) = s[1]
         /\ Tail(s) \in Seq(S) /\ Len(Tail(s)) = Len(s) - 1
         /\ \A i \in 1 .. Len(s) - 1 : Tail(s)[i] = s[i + 1]
OBVIOUS

\* Lines appended to lines.
LEMMA Appending ==
  ASSUME NEW S, NEW s \in Seq(S), NEW t \in Seq(S)
  PROVE  /\ s \o t \in Seq(S) /\ Len(s) \in Nat /\ Len(t) \in Nat
         /\ Len(s \o t) = Len(s) + Len(t)
         /\ \A i \in 1 .. Len(s) : (s \o t)[i] = s[i]
         /\ \A i \in 1 .. Len(t) : (s \o t)[Len(s) + i] = t[i]
OBVIOUS

\* A fw-verify.conf names mode and address, and the endpoint in host mode, and
\* each of its lines has a value.
LEMMA ConfLines ==
  ASSUME NEW t, t.mode # Unset, t.ip # Unset, t.url # Unset
  PROVE  /\ WellFormed(WriteFwvConf(t)) /\ Len(WriteFwvConf(t)) \in 2 .. 5
         /\ WriteFwvConf(t)[1] = Line("mode", t.mode)
         /\ WriteFwvConf(t)[2] = Line("target_ip", t.ip)
         /\ t.mode = "host" => /\ Len(WriteFwvConf(t)) >= 3
                               /\ WriteFwvConf(t)[3] = Line("vsoc_url", t.url)
<1> DEFINE l1 == Line("mode", t.mode)  l2 == Line("target_ip", t.ip)
           l3 == Line("vsoc_url", t.url)  l4 == Line("vsoc_cert", t.cert)
           l5 == Line("vsoc_key", t.key)
           pair == IF Unset \in {t.cert, t.key} THEN <<>> ELSE <<l4, l5>>
           rest == IF t.mode # "host" THEN <<>> ELSE <<l3>> \o pair
           good == {l \in {l1, l2, l3, l4, l5} : l.value # Unset}
<1>1. /\ l1 \in good /\ l2 \in good /\ l3 \in good
      /\ Unset \notin {t.cert, t.key} => l4 \in good /\ l5 \in good
  BY DEF Line
<1>2. WriteFwvConf(t) = <<l1, l2>> \o rest
  BY DEF WriteFwvConf
<1>3. \A l \in good : l.value # Unset
  OBVIOUS
<1> HIDE DEF l1, l2, l3, l4, l5, good
<1>4. pair \in Seq(good) /\ Len(pair) \in {0, 2}
  BY <1>1
<1>5. <<l3>> \in Seq(good) /\ Len(<<l3>>) = 1 /\ <<l3>>[1] = l3
  BY <1>1
<1> HIDE DEF pair
<1>6. rest \in Seq(good) /\ Len(rest) \in 0 .. 3 /\ (t.mode = "host" => Len(rest) >= 1 /\ rest[1] = l3)
  BY <1>4, <1>5, Appending
<1>7. <<l1, l2>> \in Seq(good) /\ Len(<<l1, l2>>) = 2 /\ <<l1, l2>>[1] = l1 /\ <<l1, l2>>[2] = l2
  BY <1>1
<1> HIDE DEF rest
<1> DEFINE c == <<l1, l2>> \o rest
<1>8. /\ c \in Seq(good) /\ Len(c) \in 2 .. 5 /\ c[1] = l1 /\ c[2] = l2
      /\ t.mode = "host" => Len(c) >= 3 /\ c[3] = l3
  <2>1. /\ Len(c) = 2 + Len(rest) /\ c \in Seq(good)
        /\ \A i \in 1 .. 2 : c[i] = <<l1, l2>>[i]
        /\ \A i \in 1 .. Len(rest) : c[2 + i] = rest[i]
    <3>1. Len(<<l1, l2>>) = 2
      BY <1>7
    <3> QED BY <1>6, <1>7, <3>1, Appending
  <2> QED BY <1>6, <1>7, <2>1
<1> HIDE DEF c
<1>9. WellFormed(c)
  <2>1. \A i \in DOMAIN c : c[i].value # Unset
    BY <1>3, <1>8
  <2>2. c \in Seq(Range(c))
    BY <1>8 DEF Range
  <2> QED BY <2>1, <2>2 DEF WellFormed
<1> QED BY <1>2, <1>8, <1>9 DEF l1, l2, l3, c

\* The empty file.
LEMMA NoLines == WellFormed(<<>>) /\ <<>> \in Seq(Range(<<>>))
BY DEF WellFormed, Range

\* What the file says of a key is its first line.
LEMMA FirstLine ==
  /\ \A m, k : FirstOf(m, k) /\ WellFormed(given) => InFile(k) = given[m].value
  /\ \A k : (\A i \in DOMAIN given : given[i].key # k) => InFile(k) = Unset
<1>1. ASSUME NEW m, NEW k, FirstOf(m, k), WellFormed(given) PROVE InFile(k) = given[m].value
  <2> DEFINE at == {i \in DOMAIN given : given[i].key = k}
             first == CHOOSE i \in at : \A j \in at : i <= j
  <2>1. m \in at /\ at \subseteq Nat
    BY <1>1 DEF FirstOf, WellFormed
  <2>2. \A j \in at : m <= j
    BY <1>1, <2>1 DEF FirstOf
  <2>3. first \in at /\ \A j \in at : first <= j
    BY <2>1, <2>2
  <2>4. first = m
    BY <2>1, <2>2, <2>3
  <2>5. InFile(k) = given[first].value
    BY <2>1 DEF InFile
  <2> QED BY <2>4, <2>5
<1>2. ASSUME NEW k, \A i \in DOMAIN given : given[i].key # k PROVE InFile(k) = Unset
  BY <1>2 DEF InFile
<1> QED BY <1>1, <1>2

\* The file does not change under a command that reads it.
LEMMA SameFile == given' = given => \A k : InFile(k)' = InFile(k)
<1> SUFFICES ASSUME given' = given, NEW k PROVE InFile(k)' = InFile(k)
  OBVIOUS
<1> QED BY SMT DEF InFile

\* Once the file is read, the environment holds what precedes the defaults.
LEMMA FileRead ==
  ASSUME ShapeInv, ReadInv, pc = "file", lines = <<>>
  PROVE  \A k \in Key : env[k] = Or(shell[k], InFile(k))
<1> SUFFICES ASSUME NEW k \in Key PROVE env[k] = Or(shell[k], InFile(k))
  OBVIOUS
<1>1. Read = Len(given) /\ DOMAIN given = 1 .. Len(given)
  BY DEF Read, ShapeInv, WellFormed
<1>2. CASE env[k] = shell[k] /\ \A i \in 1 .. Read : given[i].key # k
  BY <1>1, <1>2, FirstLine DEF Or
<1>3. CASE \E m \in 1 .. Read : FirstOf(m, k) /\ env[k] = Or(shell[k], given[m].value)
  BY <1>3, FirstLine DEF ShapeInv
<1> QED BY <1>2, <1>3 DEF ReadInv

\* A line sets a variable that neither the shell nor an earlier line has set.
LEMMA LineRead ==
  ASSUME ShapeInv, ReadInv, ReadLine
  PROVE  ReadInv' /\ DOMAIN env' = Key /\ lines' \in Seq(Range(given))
<1> DEFINE n == Read
           l == Head(lines)
<1>1. /\ pc = "file" /\ lines # <<>> /\ lines' = Tail(lines) /\ UNCHANGED <<pc, given, shell>>
      /\ env' = IF l.key \in Key /\ env[l.key] = Unset THEN [env EXCEPT ![l.key] = l.value] ELSE env
  BY DEF ReadLine
<1>2. /\ Len(lines) \in Nat \ {0} /\ l = lines[1]
      /\ Tail(lines) \in Seq(Range(given)) /\ Len(Tail(lines)) = Len(lines) - 1
      /\ \A i \in 1 .. Len(lines) - 1 : Tail(lines)[i] = lines[i + 1]
  BY <1>1, Reading DEF ShapeInv
<1>3. Len(given) \in Nat /\ DOMAIN given = 1 .. Len(given)
  BY DEF ShapeInv, WellFormed
<1>4. /\ n \in Nat /\ n < Len(given) /\ n = Len(given) - Len(lines)
      /\ Read' = n + 1 /\ l = given[n + 1] /\ n + 1 \in DOMAIN given
  BY <1>1, <1>2, <1>3 DEF Read, ReadInv
<1>5. DOMAIN env = Key /\ DOMAIN env' = Key
  BY <1>1 DEF ShapeInv
<1>6. /\ Len(lines') <= Len(given') /\ \A i \in 1 .. Len(lines') : lines'[i] = given'[Read' + i]
  <2>1. \A i \in 1 .. Len(lines) - 1 : lines[i + 1] = given[n + (i + 1)]
    BY <1>1, <1>2 DEF ReadInv
  <2> QED BY <1>1, <1>2, <1>3, <1>4, <2>1
<1> HIDE DEF n
<1>7. ASSUME NEW k \in Key
      PROVE \/ env'[k] = shell[k] /\ \A i \in 1 .. n + 1 : given[i].key # k
            \/ \E m \in 1 .. n + 1 : FirstOf(m, k) /\ env'[k] = Or(shell[k], given[m].value)
  <2>1. \/ env[k] = shell[k] /\ \A i \in 1 .. n : given[i].key # k
        \/ \E m \in 1 .. n : FirstOf(m, k) /\ env[k] = Or(shell[k], given[m].value)
    BY <1>1 DEF ReadInv, n
  <2>2. env'[k] = IF l.key = k /\ env[k] = Unset THEN l.value ELSE env[k]
    BY <1>1, <1>5
  <2>3. CASE \E m \in 1 .. n : FirstOf(m, k) /\ env[k] = Or(shell[k], given[m].value)
    <3>1. PICK m \in 1 .. n : FirstOf(m, k) /\ env[k] = Or(shell[k], given[m].value)
      BY <2>3
    <3>2. given[m].value # Unset
      BY <3>1 DEF FirstOf, ShapeInv, WellFormed
    <3>3. env[k] # Unset /\ env'[k] = env[k]
      BY <2>2, <3>1, <3>2 DEF Or
    <3>4. m \in 1 .. n + 1
      BY <1>4
    <3>5. FirstOf(m, k) /\ env'[k] = Or(shell[k], given[m].value)
      BY <3>1, <3>3, Zenon
    <3> QED BY <3>4, <3>5, Zenon
  <2>4. CASE env[k] = shell[k] /\ (\A i \in 1 .. n : given[i].key # k) /\ l.key # k
    BY <1>4, <2>2, <2>4
  <2>5. CASE env[k] = shell[k] /\ (\A i \in 1 .. n : given[i].key # k) /\ l.key = k
    <3>1. FirstOf(n + 1, k)
      BY <1>3, <1>4, <2>5 DEF FirstOf
    <3>2. env'[k] = Or(shell[k], given[n + 1].value)
      BY <1>4, <2>2, <2>5 DEF Or
    <3> QED BY <1>4, <3>1, <3>2
  <2> QED BY <2>1, <2>3, <2>4, <2>5
<1>8. ReadInv'
  BY <1>1, <1>4, <1>6, <1>7 DEF ReadInv, FirstOf
<1> QED BY <1>1, <1>2, <1>5, <1>8

\* Every step of a command keeps the invariants.
LEMMA ConfigNext == CInv /\ [Next]_vars => CInv'
<1> SUFFICES ASSUME CInv, [Next]_vars PROVE CInv'
  OBVIOUS
<1> USE DEF CInv
<1>1. ASSUME NEW c \in {"setup", "run", "clean"}, NEW sh \in Shells, NEW fl \in FlagSets,
             NEW file, NEW generated \in BOOLEAN, Start(c, sh, fl, file, generated),
             WellFormed(file), generated => file = conf /\ conf # <<>>
      PROVE CInv'
  <2>1. /\ pc' = "file" /\ cmd' = c /\ shell' = sh /\ env' = sh /\ given' = file /\ lines' = file
        /\ saved' = generated /\ UNCHANGED <<conf, staged, wrote, intact>>
    BY <1>1 DEF Start, device
  <2>2. ShapeInv'
    BY <1>1, <2>1 DEF ShapeInv, WellFormed
  <2>3. ReadInv'
    <3>1. Read' = 0 /\ Len(file) \in Nat
      BY <1>1, <2>1 DEF Read, WellFormed
    <3> QED BY <2>1, <3>1 DEF ReadInv
  <2>4. ConfInv' /\ StageInv'
    BY <1>1, <2>1 DEF ConfInv, StageInv
  <2> QED BY <2>1, <2>2, <2>3, <2>4 DEF ChosenInv, PrecedenceInv, ResolveInv, Acting
<1>2. CASE ReadLine
  <2>1. ReadInv' /\ DOMAIN env' = Key /\ lines' \in Seq(Range(given))
    BY <1>2, LineRead
  <2>2. /\ pc = "file" /\ UNCHANGED <<pc, cmd, given, saved, conf, staged, wrote, intact>>
    BY <1>2 DEF ReadLine, device
  <2> QED
    BY <2>1, <2>2 DEF ShapeInv, ChosenInv, PrecedenceInv, ConfInv, StageInv, ResolveInv, Acting,
                      WellFormed, Range
<1>3. CASE Parse
  <2>1. /\ pc = "file" /\ lines = <<>> /\ global' = Chosen(flags, env)
        /\ pc' = IF Refused(global') THEN "idle" ELSE cmd
        /\ UNCHANGED <<shell, flags, given, saved, env, lines, cmd, conf, staged, wrote, intact>>
    BY <1>3 DEF Parse, device
  <2>2. pc' \in {"idle", "setup", "run", "clean"}
    BY <2>1 DEF ShapeInv
  <2>3. ChosenInv'
    BY <2>1, <2>2 DEF ChosenInv, Chosen, Refused, Acting
  <2>4. \A k \in Key : global'[k] = Or(flags[k], Or(shell[k], Or(InFile(k), Default[k])))
    <3> SUFFICES ASSUME NEW k \in Key
                 PROVE Or(flags[k], Or(env[k], Default[k]))
                         = Or(flags[k], Or(shell[k], Or(InFile(k), Default[k])))
      BY <2>1 DEF Chosen
    <3>1. env[k] = Or(shell[k], InFile(k))
      BY <2>1, FileRead
    <3> QED BY <3>1 DEF Or
  <2>5. PrecedenceInv'
    BY <2>1, <2>4, SameFile DEF PrecedenceInv
  <2> QED
    BY <2>1, <2>2, <2>3, <2>5 DEF ShapeInv, ReadInv, ConfInv, StageInv, ResolveInv, Acting, WellFormed, Range
<1>4. CASE StageTopology \/ StageFwConfig
  <2>1. /\ pc \in {"setup", "fwconfig"} /\ pc' \in {"fwconfig", "fwvconf", "idle"}
        /\ UNCHANGED <<shell, flags, given, saved, env, lines, global, cmd, conf, wrote>>
    BY <1>4 DEF StageTopology, StageFwConfig, device
  <2>2. ChosenInv'
    BY <2>1 DEF ChosenInv, Chosen, Refused, Acting
  <2>3. PrecedenceInv'
    BY <2>1, SameFile DEF PrecedenceInv, Acting
  <2>4. Topology(global)' = Topology(global)
    BY <2>1 DEF Topology
  <2>5. StageInv'
    <3>1. CASE StageTopology
      BY <2>1, <2>4, <3>1 DEF StageTopology, StageInv
    <3>2. CASE StageFwConfig
      BY <2>1, <2>4, <3>2 DEF StageFwConfig, StageInv, device
    <3> QED BY <1>4, <3>1, <3>2
  <2>6. ConfInv'
    BY <2>1 DEF ConfInv
  <2> QED
    BY <2>1, <2>2, <2>3, <2>5, <2>6 DEF ShapeInv, ReadInv, ResolveInv, Acting, WellFormed, Range
<1>5. CASE WriteConf \/ Clean
  <2>1. pc' = "idle" /\ UNCHANGED <<given, lines, env, cmd, saved>>
    BY <1>5 DEF WriteConf, Clean
  <2>2. ConfInv'
    <3>1. CASE conf' = conf /\ UNCHANGED wrote
      BY <2>1, <3>1 DEF ConfInv
    <3>2. CASE conf' = <<>>
      BY <2>1, <3>2 DEF ConfInv
    <3>3. CASE WriteConf /\ conf' = WriteFwvConf(Topology(global)) /\ wrote' = Topology(global)
      <4>1. global["mode"] # Unset
        BY <3>3, Defaults DEF WriteConf, ChosenInv, Chosen, Or, Acting, Key
      <4>2. wrote'.mode # Unset /\ wrote'.ip # Unset /\ wrote'.url # Unset
        BY <3>3, <4>1 DEF Topology, Or
      <4> QED BY <2>1, <3>3, <4>2 DEF ConfInv
    <3> QED BY <1>5, <3>1, <3>2, <3>3 DEF WriteConf, Clean
  <2>3. StageInv'
    BY <1>5, <2>1 DEF StageInv, WriteConf, Clean
  <2> QED
    BY <2>1, <2>2, <2>3 DEF ShapeInv, ReadInv, ChosenInv, PrecedenceInv, ResolveInv,
                            Acting, WellFormed, Range
<1>6. CASE Resolve
  <2>1. /\ pc = "run" /\ pc' \in {"idle", "spawn"}
        /\ UNCHANGED <<shell, flags, given, saved, env, lines, global, cmd>>
        /\ UNCHANGED <<conf, staged, wrote, intact>>
    BY <1>6 DEF Resolve, device
  <2>2. ResolveInv'
    <3> SUFFICES ASSUME pc' = "spawn" PROVE ResolveInv'
      BY DEF ResolveInv
    <3>1. cfg' = [mode |-> global["mode"], ip |-> Or(global["target_ip"], staged.ip),
                  url |-> IF global["mode"] = "host" THEN Or(global["vsoc_url"], DefaultUrl) ELSE Unset,
                  cert |-> IF global["mode"] = "host" THEN global["vsoc_cert"] ELSE Unset,
                  key |-> IF global["mode"] = "host" THEN global["vsoc_key"] ELSE Unset]
      BY <1>6 DEF Resolve
    <3> QED BY <2>1, <3>1 DEF ResolveInv
  <2>3. ConfInv' /\ StageInv'
    BY <2>1 DEF ConfInv, StageInv
  <2> QED
    BY <2>1, <2>2, <2>3, SameFile DEF ShapeInv, ReadInv, ChosenInv, PrecedenceInv, Chosen,
                      Refused, Acting, WellFormed, Range
<1>7. CASE SpawnWorker
  <2>1. pc' = "idle" /\ UNCHANGED <<given, lines, env, cmd, conf, staged, wrote, intact>>
    BY <1>7 DEF SpawnWorker, device
  <2> QED
    BY <2>1 DEF ShapeInv, ReadInv, ChosenInv, PrecedenceInv, ConfInv, StageInv, ResolveInv,
                Acting, WellFormed, Range
<1>8. CASE UNCHANGED vars
  <2>1. /\ UNCHANGED <<shell, flags, given, saved, env, lines, global, cmd, pc, cfg>>
        /\ UNCHANGED <<conf, staged, wrote, intact>>
    BY <1>8 DEF vars, process, device
  <2>2. ReadInv'
    BY <2>1 DEF ReadInv, FirstOf, Read
  <2>3. PrecedenceInv'
    BY <2>1, SameFile DEF PrecedenceInv
  <2>4. StageInv'
    BY <2>1 DEF StageInv, Topology
  <2> QED
    BY <2>1, <2>2, <2>3, <2>4 DEF ShapeInv, ChosenInv, ConfInv, ResolveInv, Chosen, Refused,
                                  WellFormed, Range
<1>9. \A file \in Files \cup {<<>>} : WellFormed(file)
  BY NoLines DEF WellFormed, Range
<1>10. conf # <<>> => WellFormed(conf)
  BY ConfLines DEF ConfInv
<1> QED
  BY <1>1, <1>2, <1>3, <1>4, <1>5, <1>6, <1>7, <1>8, <1>9, <1>10 DEF Next

\* No command has been given yet.
LEMMA ConfigInit == Init => CInv
<1> SUFFICES ASSUME Init PROVE CInv
  OBVIOUS
<1>1. /\ pc = "idle" /\ cmd = "clean" /\ env = Empty /\ given = <<>> /\ lines = <<>> /\ conf = <<>>
  BY DEF Init
<1>2. StageInv
  BY DEF Init, StageInv
<1> QED
  BY <1>1, <1>2, NoLines DEF CInv, ShapeInv, ReadInv, ChosenInv, PrecedenceInv, ConfInv,
                             ResolveInv, Acting, Empty

\* The documented precedence - flag, environment, file, default - for every command
\* that acts, although apply_config_env puts the file into the environment: for every
\* file, also one that repeats keys or has unknown ones.
THEOREM PrecedenceHolds == Spec => []Precedence
<1>1. CInv => Precedence
  BY DEF CInv, PrecedenceInv, Precedence, Acting
<1> QED
  BY <1>1, ConfigInit, ConfigNext, PTL DEF Spec

\* A run that is given a generated fw-verify.conf, and nothing else, uses the topology,
\* the mode and the VSOC endpoint of the one setup-env that wrote it, wherever that had
\* them from (write_fwv_conf names all that RunConfig::resolve reads), whichever steps of
\* other setup-envs and clean-envs have failed; and if none came after it, these are
\* the ones in place.
THEOREM ConfCarriesTopology == Spec => []SameTopology
<1>1. ASSUME CInv PROVE SameTopology
  <2> SUFFICES ASSUME pc = "spawn", saved, \A k \in Key : flags[k] = Unset /\ shell[k] = Unset
               PROVE /\ cfg.mode = wrote.mode /\ cfg.ip = wrote.ip
                     /\ cfg.mode = "host" => cfg.url = wrote.url
                     /\ intact => wrote = staged
    BY DEF SameTopology
  <2>1. /\ given = WriteFwvConf(wrote)
        /\ wrote.mode # Unset /\ wrote.ip # Unset /\ wrote.url # Unset
    BY <1>1 DEF CInv, ConfInv
  <2>2. /\ WellFormed(given) /\ Len(given) \in 2 .. 5
        /\ given[1] = Line("mode", wrote.mode) /\ given[2] = Line("target_ip", wrote.ip)
        /\ wrote.mode = "host" => Len(given) >= 3 /\ given[3] = Line("vsoc_url", wrote.url)
    BY <2>1, ConfLines
  <2>3. DOMAIN given = 1 .. Len(given)
    BY <2>2 DEF WellFormed
  <2>4. InFile("mode") = wrote.mode
    <3>1. FirstOf(1, "mode")
      BY <2>2, <2>3 DEF FirstOf, Line
    <3> QED BY <2>2, <3>1, FirstLine DEF Line
  <2>5. InFile("target_ip") = wrote.ip
    <3>1. FirstOf(2, "target_ip")
      BY <2>2, <2>3 DEF FirstOf, Line
    <3> QED BY <2>2, <3>1, FirstLine DEF Line
  <2>6. wrote.mode = "host" => InFile("vsoc_url") = wrote.url
    <3> SUFFICES ASSUME wrote.mode = "host" PROVE InFile("vsoc_url") = wrote.url
      OBVIOUS
    <3>1. FirstOf(3, "vsoc_url")
      BY <2>2, <2>3 DEF FirstOf, Line
    <3> QED BY <2>2, <3>1, FirstLine DEF Line
  <2>7. \A k \in Key : global[k] = Or(InFile(k), Default[k])
    BY <1>1 DEF CInv, PrecedenceInv, Acting, Or
  <2>8. /\ global["mode"] = wrote.mode /\ global["target_ip"] = wrote.ip
        /\ wrote.mode = "host" => global["vsoc_url"] = wrote.url
    BY <2>1, <2>4, <2>5, <2>6, <2>7 DEF Or, Key
  <2> QED BY <1>1, <2>1, <2>8 DEF CInv, ResolveInv, StageInv, Or
<1> QED
  BY <1>1, ConfigInit, ConfigNext, PTL DEF Spec

\* A command starts without a worker.
WorkerInv == WorkersStart /\ (pc = "file" => worker = "none")

\* A worker that inherits the environment without the flags is refused only for a value
\* that one of the parent's own flags had hidden (agent_argv passes no flags).
THEOREM WorkersAlwaysStart == Spec => []WorkersStart
<1>1. Init => WorkerInv
  BY DEF Init, WorkerInv, WorkersStart
<1>2. ASSUME CInv, WorkerInv, [Next]_vars PROVE WorkerInv'
  <2>1. ASSUME NEW c, NEW sh, NEW fl, NEW file, NEW generated, Start(c, sh, fl, file, generated)
        PROVE WorkerInv'
    BY <2>1 DEF Start, WorkerInv, WorkersStart
  <2>2. CASE SpawnWorker
    <3>1. pc = "spawn" /\ pc' = "idle"
      BY <2>2 DEF SpawnWorker
    <3> SUFFICES ASSUME worker' = "refused" PROVE WorkersStart'
      BY <3>1 DEF WorkerInv, WorkersStart
    <3>2. /\ Refused(Chosen(Empty, env)) /\ UNCHANGED <<flags, env>>
      BY <2>2 DEF SpawnWorker
    <3>3. PICK k \in Typed : Chosen(Empty, env)[k] = Bad
      BY <3>2 DEF Refused
    <3>4. k \in Key
      BY DEF Typed, Key
    <3>5. env[k] = Bad
      BY <3>3, <3>4, Defaults DEF Chosen, Empty, Or
    <3>6. Chosen(flags, env)[k] # Bad
      BY <1>2, <3>1 DEF CInv, ChosenInv, Refused, Acting
    <3>7. flags[k] # Unset
      BY <3>4, <3>5, <3>6 DEF Chosen, Or
    <3> QED BY <3>2, <3>5, <3>7 DEF WorkersStart
  <2>3. CASE \/ Parse \/ StageTopology \/ StageFwConfig \/ WriteConf \/ Clean \/ Resolve
           \/ UNCHANGED vars
    <3>1. UNCHANGED <<worker, flags, env>> /\ (pc' = "file" => pc = "file")
      BY <1>2, <2>3 DEF Parse, StageTopology, StageFwConfig, WriteConf, Clean, Resolve, vars,
                        process, CInv, ShapeInv
    <3> QED BY <1>2, <3>1 DEF WorkerInv, WorkersStart
  <2>4. CASE ReadLine
    BY <1>2, <2>4 DEF ReadLine, WorkerInv, WorkersStart
  <2> QED BY <1>2, <2>1, <2>2, <2>3, <2>4 DEF Next
<1>3. WorkerInv => WorkersStart
  BY DEF WorkerInv
<1> QED
  BY <1>1, <1>2, <1>3, ConfigInit, ConfigNext, PTL DEF Spec

=============================================================================
