---------------------------- MODULE Monitor_proofs ----------------------------
(***************************************************************************)
(* What the monitor and traffic-statistics cases guarantee, for all scripts,  *)
(* phases of idps-fw's schedules and delays.                                 *)
(***************************************************************************)
EXTENDS Monitor, TLAPS

\* The delays are natural numbers.
LEMMA Delays == Connect \in Nat /\ Lag \in Nat /\ MaxDelay \in Nat /\ OtherCycle \in Nat
BY MonitorAssumption

USE Delays

Waits == {"stimulate", "flood", "judge"}

\* Times are integers, and the runner is at a case of its script until it is done.
ShapeInv ==
  /\ script \in Scripts /\ cur \in Nat \ {0} /\ pc \in {"start", "done"} \cup Waits
  /\ pc # "done" => cur <= Len(script)
  /\ DOMAIN results = 1 .. Len(script)
  /\ now \in Nat /\ now >= 2 /\ wake \in Int /\ sampleAt \in Int /\ closeAt \in Int
  /\ cycle \in Nat /\ bound \in Int /\ flooded \in Int
  /\ \A r \in rows : r.stamp \in Int /\ r.due \in Int

\* Who has children.
ProcInv ==
  /\ pc \in {"start", "stimulate", "done"} => procs = {}
  /\ pc = "flood" => procs = {"listener"} /\ Case = "conn-perip"
  /\ pc = "judge" /\ procs # {} => Case = "conn-perip"

-----------------------------------------------------------------------------
\* What MonitorAssumption says of a script: it is about reports or about statistics.
LEMMA ScriptFacts ==
  ASSUME script \in Scripts
  PROVE  /\ Len(script) \in Nat \ {0} /\ DOMAIN script = 1 .. Len(script)
         /\ \A c \in 1 .. Len(script) : script[c] \in Kind /\ (script[c] \in Stats <=> Counting)
<1>1. script # <<>> /\ (script \in Seq(Stats) \/ script \in Seq(Kind \ Stats))
  BY MonitorAssumption
<1>2. Len(script) \in Nat \ {0} /\ DOMAIN script = 1 .. Len(script)
  BY <1>1
<1>3. \/ \A c \in 1 .. Len(script) : script[c] \in Stats
      \/ \A c \in 1 .. Len(script) : script[c] \in Kind \ Stats
  BY <1>1
<1>4. Stats \subseteq Kind /\ 1 \in 1 .. Len(script)
  BY <1>2 DEF Stats, Kind
<1> QED BY <1>2, <1>3, <1>4 DEF Counting

\* Time moves forward, and not past the next thing idps-fw does.
LEMMA TickForward ==
  ASSUME ShapeInv, Tick
  PROVE  now' \in Nat /\ now < now' /\ now' <= NextDue /\ now' <= wake + MaxDelay
<1> DEFINE late == wake + MaxDelay
           due == NextDue
           T == {t \in {wake, late, due} : t > now}
<1>1. /\ wake \in Int /\ late \in Int /\ due \in Int /\ now \in Nat
      /\ now < due /\ now < late
  BY DEF ShapeInv, Tick, NextDue
<1>2. now' = CHOOSE x \in T : \A y \in T : x <= y
  BY DEF Tick, Min
<1> HIDE DEF late, due
<1>3. late \in T /\ due \in T /\ \A t \in T : t \in Int /\ t > now /\ t \in {wake, late, due}
  BY <1>1
<1>4. wake \in T \/ \A t \in T : t \in {late, due}
  BY <1>1
<1> HIDE DEF T
<1>5. \E x \in T : \A y \in T : x <= y
  <2>1. CASE late <= due /\ \A t \in T : t \in {late, due}
    <3>1. late \in T /\ \A y \in T : late <= y
      BY <1>1, <1>3, <2>1
    <3> QED BY <3>1, Zenon
  <2>2. CASE due <= late /\ \A t \in T : t \in {late, due}
    <3>1. due \in T /\ \A y \in T : due <= y
      BY <1>1, <1>3, <2>2
    <3> QED BY <3>1, Zenon
  <2>3. CASE wake \in T /\ wake <= late /\ wake <= due
    <3>1. wake \in T /\ \A y \in T : wake <= y
      BY <1>1, <1>3, <2>3
    <3> QED BY <3>1, Zenon
  <2>4. CASE late <= wake /\ late <= due
    <3>1. late \in T /\ \A y \in T : late <= y
      BY <1>1, <1>3, <2>4
    <3> QED BY <3>1, Zenon
  <2>5. CASE due <= wake /\ due <= late
    <3>1. due \in T /\ \A y \in T : due <= y
      BY <1>1, <1>3, <2>5
    <3> QED BY <3>1, Zenon
  <2> QED BY <1>1, <1>4, <2>1, <2>2, <2>3, <2>4, <2>5
<1>6. now' \in T /\ \A y \in T : now' <= y
  BY <1>2, <1>5
<1> QED BY <1>1, <1>3, <1>6 DEF late, due

\* Concluding a case: the next one starts, or the script is done.
LEMMA Concluding ==
  ASSUME ShapeInv, pc # "done", NEW status, Conclude(status)
  PROVE  /\ cur' = cur + 1 /\ cur' \in Nat \ {0} /\ pc' \in {"start", "done"} /\ wake' = now
         /\ pc' # "done" => cur' <= Len(script)
         /\ DOMAIN results' = 1 .. Len(script) /\ results'[cur] = status
         /\ \A c \in 1 .. Len(script) : c # cur => results'[c] = results[c]
BY ScriptFacts DEF ShapeInv, Conclude

\* What idps-fw stores of something noticed at a time.
LEMMA StoredFacts ==
  ASSUME NEW k, NEW o, NEW at \in Int, NEW r \in Stored(k, o, at)
  PROVE  /\ r.kind = k /\ r.of = o /\ r.stamp \in Int /\ r.due \in Int
         /\ at <= r.stamp /\ r.due <= at + Lag
         /\ DOMAIN r = {"kind", "of", "stamp", "due"}
<1>1. PICK p \in {<<at, at>>, <<at, at + Lag>>, <<at + Lag, at + Lag>>} :
        r = [kind |-> k, of |-> o, stamp |-> p[1], due |-> p[2]]
  BY DEF Stored
<1>2. p[1] \in {at, at + Lag} /\ p[2] \in {at, at + Lag}
  OBVIOUS
<1> QED BY <1>1, <1>2

\* A step of the runner that goes on with the case.
GoesOn(from, to) ==
  /\ pc = from /\ pc' = to /\ now >= wake /\ UNCHANGED <<now, script, cur, results>>

\* A step that ends the case.
Ends(status) ==
  /\ pc # "done" /\ now >= wake /\ Conclude(status)
  /\ UNCHANGED <<now, script, since, before, bound, flooded>>

\* What a watermark step does.
LEMMA MarkStep ==
  ASSUME Mark
  PROVE  /\ Case \notin Stats /\ pc = "start" /\ UNCHANGED <<procs, daemon>>
         /\ \/ /\ GoesOn("start", "stimulate") /\ since' = now /\ wake' = now + StartUp
               /\ UNCHANGED <<bound, flooded, upset>>
            \/ Ends("FAIL") /\ upset'
BY DEF Mark, Step, Sleep, GiveUp, GoesOn, Ends, Conclude

\* What reading the statistics before the traffic does.
LEMMA BaselineStep ==
  ASSUME Baseline
  PROVE  /\ Case \in Stats /\ pc = "start" /\ UNCHANGED <<procs, daemon>>
         /\ \/ /\ GoesOn("start", "stimulate") /\ before' = counters /\ wake' = now
               /\ UNCHANGED <<since, bound, flooded, upset>>
            \/ Ends("FAIL") /\ upset'
BY DEF Baseline, Step, GiveUp, GoesOn, Ends, Conclude

\* What a timestamp request does.
LEMMA ProbeStep ==
  ASSUME ProbeTimestamp
  PROVE  /\ Case = "icmp-timestamp" /\ pc = "stimulate"
         /\ UNCHANGED <<procs, pending, counters, fresh, sampleAt, closeAt, cycle>>
         /\ \/ /\ GoesOn("stimulate", "judge") /\ wake' = now + EventSettle
               /\ UNCHANGED <<since, before, bound, flooded>>
               /\ \E row \in Stored(Case, cur, now) :
                    rows' = rows \cup {row} \/ (rows' = rows /\ upset')
               /\ ~ upset' => ~ upset
            \/ Ends("FAIL") /\ upset' /\ UNCHANGED rows
BY DEF ProbeTimestamp, Step, Sleep, GiveUp, GoesOn, Ends, Conclude

\* What waiting for the next sample does.
LEMMA AwaitStep ==
  ASSUME AwaitTotal
  PROVE  /\ Case = "conn-total" /\ GoesOn("stimulate", "judge") /\ wake' = now + MonitorSettle
         /\ UNCHANGED <<since, before, procs, bound, flooded, daemon, upset>>
BY DEF AwaitTotal, Step, Sleep, GoesOn

\* What sending the ARP replies does.
LEMMA SpoofStep ==
  ASSUME SpoofArp
  PROVE  /\ Case = "arp-spoof" /\ pc = "stimulate"
         /\ UNCHANGED <<procs, rows, counters, fresh, sampleAt, closeAt, cycle>>
         /\ \/ /\ GoesOn("stimulate", "judge") /\ wake' = now + MonitorSettle
               /\ pending' = pending \cup {cur}
               /\ UNCHANGED <<since, before, bound, flooded, upset>>
            \/ Ends("FAIL") /\ upset' /\ UNCHANGED pending
BY DEF SpoofArp, Step, Sleep, GiveUp, GoesOn, Ends, Conclude

\* What starting the listener does.
LEMMA ListenerStep ==
  ASSUME SpawnListener
  PROVE  /\ Case = "conn-perip" /\ pc = "stimulate" /\ UNCHANGED daemon
         /\ \/ /\ GoesOn("stimulate", "flood") /\ wake' = now + ListenReady
               /\ procs' = procs \cup {"listener"}
               /\ bound' = now + ListenReady \/ (bound' = now + (ListenReady + 2) /\ upset')
               /\ ~ upset' => ~ upset
               /\ UNCHANGED <<since, before, flooded>>
            \/ Ends("FAIL") /\ upset' /\ UNCHANGED procs
BY DEF SpawnListener, Step, Sleep, GiveUp, GoesOn, Ends, Conclude

\* What starting the flood does.
LEMMA FloodStep ==
  ASSUME SpawnFlood
  PROVE  /\ pc = "flood" /\ UNCHANGED daemon
         /\ \/ /\ GoesOn("flood", "judge") /\ wake' = now + MonitorSettle
               /\ procs' = procs \cup {"flood"}
               /\ flooded' \in IF now < bound THEN {Never} ELSE {now, now + Connect}
               /\ UNCHANGED <<since, before, bound, upset>>
            \/ Ends("FAIL") /\ upset' /\ procs' = procs \ {"listener"}
BY DEF SpawnFlood, Teardown, Step, Sleep, GiveUp, GoesOn, Ends, Conclude

\* What sending the volume does.
LEMMA VolumeStep ==
  ASSUME SendVolume
  PROVE  /\ Case \in Stats /\ pc = "stimulate"
         /\ UNCHANGED <<procs, pending, rows, sampleAt, closeAt, cycle>>
         /\ \/ /\ GoesOn("stimulate", "judge") /\ wake' = now + StatsWait
               /\ UNCHANGED <<since, before, bound, flooded>>
               /\ \/ /\ counters' = [counters EXCEPT ![Case].bytes = @ + 1]
                     /\ fresh' = fresh \cup {Case} /\ (~ upset' => ~ upset)
                  \/ upset' /\ UNCHANGED <<counters, fresh>>
            \/ Ends("FAIL") /\ upset' /\ UNCHANGED <<counters, fresh>>
BY DEF SendVolume, Step, Sleep, GiveUp, GoesOn, Ends, Conclude

\* What reading the reports does.
LEMMA ReportsStep ==
  ASSUME JudgeReports
  PROVE  /\ Case \notin Stats /\ pc = "judge" /\ procs' = {} /\ UNCHANGED daemon
         /\ \/ Ends(Verdict(\E r \in Visible : r.kind = Case)) /\ UNCHANGED upset
            \/ Ends("FAIL") /\ upset'
BY DEF JudgeReports, GiveUp, Ends, Conclude

\* What reading the statistics after the traffic does.
LEMMA StatisticsStep ==
  ASSUME JudgeStatistics
  PROVE  /\ Case \in Stats /\ pc = "judge" /\ UNCHANGED <<procs, daemon>>
         /\ \/ /\ Ends(Verdict(/\ counters[Case].bytes > before[Case].bytes
                               /\ counters[Case].windows > before[Case].windows))
               /\ UNCHANGED upset
            \/ Ends("FAIL") /\ upset'
BY DEF JudgeStatistics, GiveUp, Ends, Conclude

\* What a sample of idps-fw does.
LEMMA SampleStep ==
  ASSUME Sample
  PROVE  /\ ~ Counting /\ now = sampleAt /\ sampleAt' = now + Cadence /\ pending' = {}
         /\ UNCHANGED <<now, runner, counters, fresh, closeAt, cycle>>
         /\ ~ upset' => ~ upset
         /\ \E one \in Stored("any", 0, now) :
              \/ rows' = rows /\ upset'
              \/ rows' = rows \cup
                    {[one EXCEPT !.kind = s[1], !.of = s[2]] :
                       s \in {<<"conn-total", 0>>} \cup {<<"arp-spoof", c>> : c \in pending}
                              \cup (IF Held THEN {<<"conn-perip", cur>>} ELSE {})}
<1> DEFINE seen == {<<"conn-total", 0>>} \cup {<<"arp-spoof", c>> : c \in pending}
                     \cup (IF Held THEN {<<"conn-perip", cur>>} ELSE {})
<1>1. PICK heard \in {TRUE, FALSE} :
        /\ \E one \in Stored("any", 0, now) :
             rows' = rows \cup {[one EXCEPT !.kind = s[1], !.of = s[2]] :
                                  s \in IF heard THEN seen ELSE {}}
        /\ upset' = (upset \/ ~ heard)
  BY Zenon DEF Sample, Noticed
<1>2. PICK one \in Stored("any", 0, now) :
        rows' = rows \cup {[one EXCEPT !.kind = s[1], !.of = s[2]] :
                             s \in IF heard THEN seen ELSE {}}
  BY <1>1, Zenon
<1> HIDE DEF seen
<1>3. CASE heard
  <2>1. rows' = rows \cup {[one EXCEPT !.kind = s[1], !.of = s[2]] : s \in seen}
    BY <1>2, <1>3
  <2> QED BY <1>1, <2>1, <1>3, Zenon DEF Sample, seen
<1>4. CASE ~ heard
  <2>1. rows' = rows
    BY <1>2, <1>4
  <2> QED BY <1>1, <1>2, <2>1, <1>4, Zenon DEF Sample
<1> QED BY <1>3, <1>4

\* The rows one sample adds.
LEMMA SampledRows ==
  ASSUME ShapeInv, Sample, NEW r \in rows'
  PROVE  \/ r \in rows
         \/ /\ r.stamp \in Int /\ r.due \in Int /\ now <= r.stamp /\ r.due <= now + Lag
            /\ \/ r.kind = "conn-total"
               \/ r.kind = "arp-spoof" /\ r.of \in pending
               \/ r.kind = "conn-perip" /\ r.of = cur /\ Held
<1> DEFINE seen == {<<"conn-total", 0>>} \cup {<<"arp-spoof", c>> : c \in pending}
                     \cup (IF Held THEN {<<"conn-perip", cur>>} ELSE {})
<1> SUFFICES ASSUME r \notin rows
             PROVE /\ r.stamp \in Int /\ r.due \in Int /\ now <= r.stamp /\ r.due <= now + Lag
                   /\ \/ r.kind = "conn-total"
                      \/ r.kind = "arp-spoof" /\ r.of \in pending
                      \/ r.kind = "conn-perip" /\ r.of = cur /\ Held
  OBVIOUS
<1>1. \E one \in Stored("any", 0, now) :
        rows' = rows \cup {[one EXCEPT !.kind = s[1], !.of = s[2]] : s \in seen}
  BY SampleStep, Zenon
<1>2. PICK one \in Stored("any", 0, now) :
        rows' = rows \cup {[one EXCEPT !.kind = s[1], !.of = s[2]] : s \in seen}
  BY <1>1
<1>3. PICK s \in seen : r = [one EXCEPT !.kind = s[1], !.of = s[2]]
  <2> HIDE DEF seen
  <2> QED BY <1>2
<1>4. \/ s[1] = "conn-total"
      \/ s[1] = "arp-spoof" /\ s[2] \in pending
      \/ s[1] = "conn-perip" /\ s[2] = cur /\ Held
  OBVIOUS
<1> HIDE DEF seen
<1>5. /\ one.stamp \in Int /\ one.due \in Int /\ now <= one.stamp /\ one.due <= now + Lag
      /\ DOMAIN one = {"kind", "of", "stamp", "due"}
  BY StoredFacts DEF ShapeInv
<1>6. r.kind = s[1] /\ r.of = s[2] /\ r.stamp = one.stamp /\ r.due = one.due
  BY <1>3, <1>5
<1> QED BY <1>4, <1>5, <1>6

\* Every step is one of these.
LEMMA Steps ==
  ASSUME [Next]_vars
  PROVE  \/ Mark \/ Baseline \/ ProbeTimestamp \/ AwaitTotal \/ SpoofArp \/ SpawnListener
         \/ SpawnFlood \/ SendVolume \/ JudgeReports \/ JudgeStatistics
         \/ Sample \/ CloseWindow \/ CycleChanges \/ RestartFw \/ Tick \/ UNCHANGED vars
BY DEF Next, Runner

\* The runner's place and all times stay what they are.
LEMMA ShapeNext == ShapeInv /\ [Next]_vars => ShapeInv'
<1> SUFFICES ASSUME ShapeInv, [Next]_vars PROVE ShapeInv'
  OBVIOUS
<1>1. ASSUME NEW from \in {"start"} \cup Waits, NEW to \in Waits, GoesOn(from, to),
             UNCHANGED <<sampleAt, closeAt, cycle>>,
             wake' \in Int, bound' \in Int, flooded' \in Int,
             \A r \in rows' : r.stamp \in Int /\ r.due \in Int
      PROVE ShapeInv'
  BY <1>1 DEF ShapeInv, GoesOn, Waits
<1>2. ASSUME NEW status, Ends(status), UNCHANGED <<sampleAt, closeAt, cycle, rows>>
      PROVE ShapeInv'
  <2>1. /\ cur' = cur + 1 /\ cur' \in Nat \ {0} /\ pc' \in {"start", "done"} /\ wake' = now
        /\ pc' # "done" => cur' <= Len(script)
        /\ DOMAIN results' = 1 .. Len(script)
    BY <1>2, Concluding DEF Ends
  <2> QED BY <1>2, <2>1 DEF ShapeInv, Ends
<1>3. now \in Int /\ (\A r \in rows : r.stamp \in Int /\ r.due \in Int) /\ bound \in Int /\ flooded \in Int
  BY DEF ShapeInv
<1> USE DEF Waits, daemon
<1>4. CASE Mark
  <2>1. StartUp \in Int
    BY DEF StartUp
  <2> QED BY <1>1, <1>2, <1>3, <1>4, <2>1, MarkStep
<1>5. CASE Baseline
  BY <1>1, <1>2, <1>3, <1>5, BaselineStep
<1>6. CASE ProbeTimestamp
  <2>1. CASE ~ GoesOn("stimulate", "judge")
    BY <1>2, <1>6, <2>1, ProbeStep
  <2>2. CASE GoesOn("stimulate", "judge")
    <3>1. \A r \in rows' : r \in rows \/ r \in Stored(Case, cur, now)
      BY <1>6, <2>2, ProbeStep
    <3>2. \A r \in rows' : r.stamp \in Int /\ r.due \in Int
      BY <1>3, <3>1, StoredFacts
    <3>3. ~ Ends("FAIL")
      BY <2>2 DEF GoesOn, Ends, Conclude
    <3> QED BY <1>1, <1>3, <1>6, <2>2, <3>2, <3>3, ProbeStep DEF EventSettle
  <2> QED BY <2>1, <2>2
<1>7. CASE AwaitTotal
  BY <1>1, <1>3, <1>7, AwaitStep DEF MonitorSettle
<1>8. CASE SpoofArp
  BY <1>1, <1>2, <1>3, <1>8, SpoofStep DEF MonitorSettle
<1>9. CASE SpawnListener
  BY <1>1, <1>2, <1>3, <1>9, ListenerStep DEF ListenReady
<1>10. CASE SpawnFlood
  BY <1>1, <1>2, <1>3, <1>10, FloodStep DEF MonitorSettle, Never
<1>11. CASE SendVolume
  BY <1>1, <1>2, <1>3, <1>11, VolumeStep DEF StatsWait
<1>12. CASE JudgeReports
  BY <1>2, <1>12, ReportsStep
<1>13. CASE JudgeStatistics
  BY <1>2, <1>13, StatisticsStep
<1>14. CASE Sample
  <2>1. \A r \in rows' : r.stamp \in Int /\ r.due \in Int
    BY <1>3, <1>14, SampledRows
  <2>2. UNCHANGED <<now, runner, closeAt, cycle>> /\ sampleAt' = now + Cadence
    BY <1>14, SampleStep
  <2> QED BY <1>3, <2>1, <2>2 DEF ShapeInv, runner, Cadence
<1>15. CASE CloseWindow
  BY <1>15 DEF CloseWindow, ShapeInv, runner
<1>16. CASE CycleChanges
  BY <1>16 DEF CycleChanges, ShapeInv, runner
<1>17. CASE RestartFw
  <2>1. UNCHANGED <<now, runner, cycle>> /\ sampleAt' = now + Cadence /\ closeAt' = now + cycle
    BY <1>17 DEF RestartFw
  <2>2. \A r \in rows' : r \in rows
    BY <1>17 DEF RestartFw
  <2>3. sampleAt' \in Int /\ closeAt' \in Int
    BY <2>1 DEF ShapeInv, Cadence
  <2> QED BY <1>3, <2>1, <2>2, <2>3 DEF ShapeInv, runner
<1>18. CASE Tick
  <2>1. now' \in Nat /\ now < now'
    BY <1>18, TickForward
  <2> QED BY <1>18, <2>1 DEF Tick, ShapeInv, runner
<1>19. CASE UNCHANGED vars
  BY <1>19 DEF vars, ShapeInv, runner
<1> QED
  BY <1>4, <1>5, <1>6, <1>7, <1>8, <1>9, <1>10, <1>11, <1>12, <1>13, <1>14, <1>15, <1>16,
     <1>17, <1>18, <1>19, Steps

\* Initially.
LEMMA ShapeInit == Init => ShapeInv
<1> SUFFICES ASSUME Init PROVE ShapeInv
  OBVIOUS
<1>1. Len(script) \in Nat \ {0}
  BY ScriptFacts DEF Init
<1>2. \A r \in OldRows : r.stamp = 1 /\ r.due = 1
  BY DEF OldRows
<1>3. sampleAt \in Int /\ closeAt \in Int
  BY DEF Init, Cadence, Cycle
<1> QED BY <1>1, <1>2, <1>3 DEF Init, ShapeInv, Never, Cycle

\* Children live from their start until the case is concluded.
LEMMA ProcNext == ShapeInv /\ ProcInv /\ [Next]_vars => ProcInv'
<1> SUFFICES ASSUME ShapeInv, ProcInv, [Next]_vars PROVE ProcInv'
  OBVIOUS
<1> USE DEF ProcInv
<1>1. ASSUME NEW from, NEW to, GoesOn(from, to) PROVE pc = from /\ pc' = to /\ Case' = Case
  BY <1>1 DEF GoesOn, Case
<1>2. ASSUME NEW status, Ends(status) PROVE pc' \in {"start", "done"}
  BY <1>2 DEF Ends, Conclude
<1>3. CASE Mark \/ Baseline
  BY <1>1, <1>2, <1>3, MarkStep, BaselineStep
<1>4. CASE ProbeTimestamp \/ AwaitTotal \/ SpoofArp \/ SendVolume
  BY <1>1, <1>2, <1>4, ProbeStep, AwaitStep, SpoofStep, VolumeStep
<1>5. CASE SpawnListener
  BY <1>1, <1>2, <1>5, ListenerStep
<1>6. CASE SpawnFlood
  BY <1>1, <1>2, <1>6, FloodStep
<1>7. CASE JudgeReports
  BY <1>2, <1>7, ReportsStep
<1>8. CASE JudgeStatistics
  <2>1. procs = {}
    BY <1>8, StatisticsStep DEF Stats
  <2> QED BY <1>2, <1>8, <2>1, StatisticsStep
<1>9. CASE Sample \/ CloseWindow \/ CycleChanges \/ RestartFw \/ Tick \/ UNCHANGED vars
  <2>1. UNCHANGED runner
    BY <1>9 DEF Sample, CloseWindow, CycleChanges, RestartFw, Tick, vars
  <2> QED BY <2>1 DEF runner, Case
<1> QED
  BY <1>3, <1>4, <1>5, <1>6, <1>7, <1>8, <1>9, Steps

\* Both invariants together.
LEMMA CaseInv == Spec => [](ShapeInv /\ ProcInv)
<1>1. Init => ProcInv
  BY DEF Init, ProcInv
<1> QED BY <1>1, ShapeInit, ShapeNext, ProcNext, PTL DEF Spec

\* No case leaves a listener or a flood behind, on any of its paths and for every
\* script (run_conn_perip kills the listener when the flood cannot be started, and
\* both children whatever the query returned).
THEOREM ChildrenNeverLeft == Spec => []NothingLeftBehind
<1>1. ProcInv => NothingLeftBehind
  BY DEF ProcInv, NothingLeftBehind
<1> QED BY <1>1, CaseInv, PTL

-----------------------------------------------------------------------------
Own == {"icmp-timestamp", "conn-perip", "arp-spoof"}

\* A command runs no case twice: monitor_cases() has one of each kind.
OnePerKind == \A s \in Scripts : \A i, j \in 1 .. Len(s) : s[i] = s[j] => i = j

\* Whose rows there are, and that old ones are older than any watermark.
RowInv ==
  /\ \A r \in rows : r.kind \in Own =>
       (r.of = 0 /\ r.stamp = 1) \/ (r.of \in 1 .. Len(script) /\ script[r.of] = r.kind)
  /\ \A c \in pending : c \in 1 .. Len(script) /\ script[c] = "arp-spoof"
  /\ pc \in Waits /\ Case \notin Stats => since \in Int /\ since >= 2

\* A PASS stands on a row that is stored for good.
EarnedInv ==
  \A c \in 1 .. Len(script) :
    results[c] = "PASS" /\ script[c] \in Own =>
      \E r \in rows : r.kind = script[c] /\ r.of = c /\ r.due <= now

\* idps-fw reports each stimulus as that of its own case.
LEMMA RowNext == ShapeInv /\ ProcInv /\ RowInv /\ [Next]_vars => RowInv'
<1> SUFFICES ASSUME ShapeInv, ProcInv, RowInv, [Next]_vars PROVE RowInv'
  OBVIOUS
<1>1. pc # "done" => cur \in 1 .. Len(script)
  BY ScriptFacts DEF ShapeInv
<1>2. ASSUME NEW from \in Waits, NEW to, GoesOn(from, to), UNCHANGED since,
             rows' = rows \/ \E row \in Stored(Case, cur, now) : rows' = rows \cup {row},
             pending' = pending \/ (Case = "arp-spoof" /\ pending' = pending \cup {cur})
      PROVE RowInv'
  <2>1. UNCHANGED <<now, script, cur>> /\ Case' = Case /\ pc = from /\ cur \in 1 .. Len(script)
    BY <1>1, <1>2 DEF GoesOn, Case, Waits
  <2>2. ASSUME NEW r \in rows', r.kind \in Own
        PROVE (r.of = 0 /\ r.stamp = 1) \/ (r.of \in 1 .. Len(script) /\ script[r.of] = r.kind)
    <3>1. CASE r \in rows
      BY <2>2, <3>1 DEF RowInv
    <3>2. CASE r \in Stored(Case, cur, now)
      <4>1. r.kind = script[cur] /\ r.of = cur
        BY <3>2, StoredFacts DEF ShapeInv, Case
      <4> QED BY <2>1, <4>1
    <3> QED BY <1>2, <3>1, <3>2
  <2>3. \A c \in pending' : c \in 1 .. Len(script) /\ script[c] = "arp-spoof"
    BY <1>2, <2>1 DEF RowInv, Case
  <2>4. pc \in Waits /\ (Case \notin Stats => since \in Int /\ since >= 2)
    BY <1>2, <2>1 DEF RowInv
  <2> QED BY <1>2, <2>1, <2>2, <2>3, <2>4 DEF RowInv
<1>3. ASSUME NEW status, Ends(status), UNCHANGED <<rows, pending>> PROVE RowInv'
  <2>1. pc' \in {"start", "done"} /\ script' = script
    BY <1>3 DEF Ends, Conclude
  <2> QED BY <1>3, <2>1 DEF RowInv, Waits
<1> USE DEF daemon
<1>4. CASE Mark
  <2>1. CASE GoesOn("start", "stimulate") /\ since' = now
    BY <1>4, <2>1, MarkStep DEF RowInv, GoesOn, ShapeInv
  <2> QED BY <1>3, <1>4, <2>1, MarkStep
<1>5. CASE Baseline
  <2>1. CASE GoesOn("start", "stimulate")
    BY <1>5, <2>1, BaselineStep DEF RowInv, GoesOn, Case
  <2> QED BY <1>3, <1>5, <2>1, BaselineStep
<1>6. CASE ProbeTimestamp
  <2>1. CASE Ends("FAIL") /\ UNCHANGED rows
    BY <1>3, <1>6, <2>1, ProbeStep
  <2>2. CASE ~ (Ends("FAIL") /\ UNCHANGED rows)
    <3>1. /\ GoesOn("stimulate", "judge") /\ UNCHANGED <<since, pending>>
          /\ rows' = rows \/ \E row \in Stored(Case, cur, now) : rows' = rows \cup {row}
      BY <1>6, <2>2, ProbeStep, Zenon
    <3> QED BY <1>2, <3>1 DEF Waits
  <2> QED BY <2>1, <2>2
<1>7. CASE AwaitTotal
  BY <1>2, <1>7, AwaitStep DEF Waits
<1>8. CASE SpoofArp
  BY <1>2, <1>3, <1>8, SpoofStep DEF Waits
<1>9. CASE SpawnListener
  BY <1>2, <1>3, <1>9, ListenerStep DEF Waits
<1>10. CASE SpawnFlood
  BY <1>2, <1>3, <1>10, FloodStep DEF Waits
<1>11. CASE SendVolume
  BY <1>2, <1>3, <1>11, VolumeStep DEF Waits
<1>12. CASE JudgeReports
  BY <1>3, <1>12, ReportsStep
<1>13. CASE JudgeStatistics
  BY <1>3, <1>13, StatisticsStep
<1>14. ASSUME UNCHANGED runner, pending' \subseteq pending,
              \A r \in rows' : r.kind \in Own =>
                \/ r \in rows
                \/ r.of \in 1 .. Len(script) /\ script[r.of] = r.kind
       PROVE RowInv'
  BY <1>14 DEF RowInv, runner, Case
<1>15. CASE Sample
  <2>1. ASSUME NEW r \in rows', r.kind \in Own
        PROVE r \in rows \/ (r.of \in 1 .. Len(script) /\ script[r.of] = r.kind)
    <3>1. CASE r.kind = "conn-perip" /\ r.of = cur /\ Held
      <4>1. pc = "judge" /\ Case = "conn-perip"
        BY <3>1 DEF Held, ProcInv, ShapeInv, Waits
      <4> QED BY <1>1, <3>1, <4>1 DEF Case
    <3>2. CASE r.kind = "arp-spoof" /\ r.of \in pending
      BY <3>2 DEF RowInv
    <3> QED BY <1>15, <2>1, <3>1, <3>2, SampledRows DEF Own
  <2> QED BY <1>14, <1>15, <2>1, SampleStep
<1>16. CASE CloseWindow \/ CycleChanges \/ Tick \/ UNCHANGED vars
  BY <1>14, <1>16 DEF CloseWindow, CycleChanges, Tick, vars
<1>17. CASE RestartFw
  BY <1>14, <1>17 DEF RestartFw
<1> QED
  BY <1>4, <1>5, <1>6, <1>7, <1>8, <1>9, <1>10, <1>11, <1>12, <1>13, <1>15, <1>16, <1>17,
     Steps

\* A row newer than the watermark is the case's own.
LEMMA VisibleIsOwn ==
  ASSUME OnePerKind, ShapeInv, RowInv, pc = "judge", Case \in Own,
         NEW r \in Visible, r.kind = Case
  PROVE  r \in rows /\ r.of = cur /\ r.due <= now
<1>1. r \in rows /\ r.due <= now /\ r.stamp > since /\ r.stamp \in Int
  BY DEF Visible, ShapeInv
<1>2. since \in Int /\ since >= 2
  BY DEF RowInv, Own, Stats, Waits
<1>3. r.of \in 1 .. Len(script) /\ script[r.of] = script[cur]
  BY <1>1, <1>2 DEF RowInv, Case
<1>4. cur \in 1 .. Len(script)
  BY ScriptFacts DEF ShapeInv
<1> QED BY <1>1, <1>3, <1>4 DEF OnePerKind, ShapeInv

\* A verdict PASS is only given for such a row, and no step takes a stored row away.
LEMMA EarnedNext ==
  ASSUME OnePerKind
  PROVE  ShapeInv /\ ProcInv /\ RowInv /\ EarnedInv /\ [Next]_vars => EarnedInv'
<1> SUFFICES ASSUME ShapeInv, ProcInv, RowInv, EarnedInv, [Next]_vars PROVE EarnedInv'
  OBVIOUS
<1>1. now \in Int /\ \A r \in rows : r.due \in Int
  BY DEF ShapeInv
<1>2. ASSUME UNCHANGED <<script, results>>, \A r \in rows : r.due <= now => r \in rows',
             now' \in Int, now <= now'
      PROVE EarnedInv'
  <2> SUFFICES ASSUME NEW c \in 1 .. Len(script), results[c] = "PASS", script[c] \in Own
               PROVE \E r \in rows' : r.kind = script[c] /\ r.of = c /\ r.due <= now'
    BY <1>2 DEF EarnedInv
  <2>1. PICK r \in rows : r.kind = script[c] /\ r.of = c /\ r.due <= now
    BY DEF EarnedInv
  <2>2. r \in rows' /\ r.due <= now'
    BY <1>1, <1>2, <2>1
  <2> QED BY <2>1, <2>2
<1>3. ASSUME NEW status, Ends(status), rows' = rows,
             status = "PASS" /\ Case \in Own => \E r \in rows : r.kind = Case /\ r.of = cur /\ r.due <= now
      PROVE EarnedInv'
  <2>1. /\ results'[cur] = status /\ UNCHANGED <<script, now>>
        /\ \A c \in 1 .. Len(script) : c # cur => results'[c] = results[c]
    BY <1>3, Concluding DEF Ends
  <2> QED BY <1>3, <2>1 DEF EarnedInv, Case
<1>4. ASSUME NEW from, NEW to, GoesOn(from, to), \A r \in rows : r \in rows' PROVE EarnedInv'
  BY <1>1, <1>2, <1>4 DEF GoesOn
<1> USE DEF daemon
<1>5. CASE Mark \/ Baseline
  BY <1>3, <1>4, <1>5, MarkStep, BaselineStep
<1>6. CASE ProbeTimestamp
  <2>1. CASE Ends("FAIL") /\ rows' = rows
    BY <1>3, <2>1
  <2>2. CASE GoesOn("stimulate", "judge") /\ \A r \in rows : r \in rows'
    BY <1>4, <2>2
  <2> QED BY <1>6, <2>1, <2>2, ProbeStep
<1>7. CASE AwaitTotal \/ SpoofArp \/ SpawnListener
  BY <1>3, <1>4, <1>7, AwaitStep, SpoofStep, ListenerStep
<1>8. CASE SpawnFlood \/ SendVolume
  BY <1>3, <1>4, <1>8, FloodStep, VolumeStep
<1>9. CASE JudgeReports
  <2>1. Verdict(\E r \in Visible : r.kind = Case) = "PASS" => \E r \in Visible : r.kind = Case
    BY DEF Verdict
  <2>2. pc = "judge"
    BY <1>9, ReportsStep
  <2>3. Case \in Own /\ (\E r \in Visible : r.kind = Case)
          => \E r \in rows : r.kind = Case /\ r.of = cur /\ r.due <= now
    BY <2>2, VisibleIsOwn
  <2> QED BY <1>3, <1>9, <2>1, <2>3, ReportsStep
<1>10. CASE JudgeStatistics
  <2>1. Case \notin Own
    BY <1>10, StatisticsStep DEF Own, Stats
  <2> QED BY <1>3, <1>10, <2>1, StatisticsStep
<1>11. CASE Sample
  <2>1. UNCHANGED <<now, script, results>>
    BY <1>11, SampleStep DEF runner
  <2>2. \A r \in rows : r \in rows'
    <3>1. PICK S : rows' = rows \/ rows' = rows \cup S
      BY <1>11, SampleStep, Zenon
    <3> QED BY <3>1
  <2> QED BY <1>1, <1>2, <2>1, <2>2
<1>12. CASE CloseWindow \/ CycleChanges \/ UNCHANGED vars
  BY <1>1, <1>2, <1>12 DEF CloseWindow, CycleChanges, vars, runner
<1>13. CASE RestartFw
  <2>1. UNCHANGED <<now, script, results>> /\ rows' = {r \in rows : r.due <= now}
    BY <1>13 DEF RestartFw, runner
  <2> QED BY <1>1, <1>2, <2>1
<1>14. CASE Tick
  <2>1. now' \in Int /\ now <= now'
    BY <1>1, <1>14, TickForward
  <2> QED BY <1>2, <1>14, <2>1 DEF Tick, runner
<1> QED
  BY <1>5, <1>6, <1>7, <1>8, <1>9, <1>10, <1>11, <1>12, <1>13, <1>14, Steps

\* A monitor case passes only for what idps-fw reported of its own stimulus: the
\* watermark now_ms hides what earlier commands left in the database, and earlier cases
\* of the same command are of other kinds.  For every script and all delays.
THEOREM PassesAreEarned ==
  ASSUME OnePerKind
  PROVE  Spec => []PassIsOwn
<1>1. Init => RowInv /\ EarnedInv
  <2> SUFFICES ASSUME Init PROVE RowInv /\ EarnedInv
    OBVIOUS
  <2>1. \A r \in rows : r.of = 0 /\ r.stamp = 1
    BY DEF Init, OldRows
  <2>2. pc = "start" /\ pending = {} /\ \A c \in 1 .. Len(script) : results[c] = "none"
    BY DEF Init
  <2> QED BY <2>1, <2>2 DEF RowInv, EarnedInv, Waits
<1>2. ShapeInv /\ EarnedInv => PassIsOwn
  <2>1. Own = {"icmp-timestamp", "conn-perip", "arp-spoof"}
    BY DEF Own
  <2> QED BY <2>1, ScriptFacts DEF ShapeInv, EarnedInv, PassIsOwn
<1> QED BY <1>1, <1>2, CaseInv, RowNext, EarnedNext, PTL DEF Spec

-----------------------------------------------------------------------------
(***************************************************************************)
(* The fixed waits.  EnoughTime is what they have to cover: the delay of a    *)
(* row, and for the sampled cases a whole cadence after the last connection   *)
(* of the flood, all while the flood and its listener live.                  *)
(***************************************************************************)
EnoughTime ==
  /\ Lag <= EventSettle
  /\ Connect + Cadence < MonitorSettle /\ Connect + Cadence + Lag <= MonitorSettle
  /\ MaxDelay + Connect + Cadence < ListenSecs

\* The runner is never later than MaxDelay; a healthy idps-fw keeps its schedule.
ScheduleInv ==
  /\ now <= wake + MaxDelay
  /\ ~ upset => /\ cycle = Cycle
                /\ ~ Counting => now <= sampleAt /\ sampleAt <= now + Cadence
                /\ Counting => now <= closeAt /\ closeAt <= now + Cycle

\* Arithmetic.
LEMMA Later == \A a, b \in Int : \A m \in Nat : a <= b => a <= b + m
OBVIOUS

\* Arithmetic.
LEMMA Stretch ==
  \A a \in Int : \A b, c \in Nat : b < c =>
    (a <= b + 20 => a <= c + 20) /\ (a <= b + 10 => a <= c + 10)
OBVIOUS

\* idps-fw's schedules are met.
LEMMA ScheduleNext == ShapeInv /\ ScheduleInv /\ [Next]_vars => ScheduleInv'
<1> SUFFICES ASSUME ShapeInv, ScheduleInv, [Next]_vars PROVE ScheduleInv'
  OBVIOUS
<1>1. now \in Nat /\ wake \in Int /\ sampleAt \in Int /\ closeAt \in Int
  BY DEF ShapeInv
<1>2. ASSUME UNCHANGED <<now, script, sampleAt, closeAt, cycle>>, ~ upset' => ~ upset,
             wake' \in Int, now <= wake' \/ wake' = wake
      PROVE ScheduleInv'
  <2>1. Counting' <=> Counting
    BY <1>2 DEF Counting
  <2>2. now' <= wake' + MaxDelay
    <3>1. now <= wake + MaxDelay
      BY DEF ScheduleInv
    <3>2. now' = now
      BY <1>2
    <3>3. wake' \in Int /\ (now <= wake' \/ wake' = wake)
      BY <1>2
    <3>4. CASE wake' = wake
      BY <3>1, <3>2, <3>4, Zenon
    <3>5. CASE now <= wake'
      <4>1. now \in Int /\ MaxDelay \in Nat
        BY <1>1
      <4>2. now <= wake' + MaxDelay
        BY <4>1, <3>3, <3>5, Later, Zenon
      <4> QED BY <3>2, <4>2, Zenon
    <3> QED BY <3>3, <3>4, <3>5, Zenon
  <2> QED BY <1>2, <2>1, <2>2 DEF ScheduleInv
<1>3. ASSUME NEW status, Ends(status) PROVE UNCHANGED <<now, script>> /\ wake' = now
  BY <1>3 DEF Ends, Conclude
<1>4. ASSUME NEW from, NEW to, GoesOn(from, to) PROVE UNCHANGED <<now, script>>
  BY <1>4 DEF GoesOn
<1> USE DEF daemon
<1>5. CASE Mark \/ Baseline
  BY <1>1, <1>2, <1>3, <1>4, <1>5, MarkStep, BaselineStep DEF StartUp
<1>6. CASE ProbeTimestamp \/ AwaitTotal \/ SpoofArp
  BY <1>1, <1>2, <1>3, <1>4, <1>6, ProbeStep, AwaitStep, SpoofStep DEF EventSettle, MonitorSettle
<1>7. CASE SpawnListener \/ SpawnFlood \/ SendVolume
  BY <1>1, <1>2, <1>3, <1>4, <1>7, ListenerStep, FloodStep, VolumeStep
     DEF ListenReady, MonitorSettle, StatsWait
<1>8. CASE JudgeReports \/ JudgeStatistics
  <2>1. /\ UNCHANGED <<now, script, sampleAt, closeAt, cycle>> /\ wake' = now
        /\ ~ upset' => ~ upset
    <3>1. UNCHANGED <<now, script, sampleAt, closeAt, cycle>> /\ wake' = now
      BY <1>8 DEF JudgeReports, JudgeStatistics, Conclude, GiveUp
    <3>2. ~ upset' => ~ upset
      <4>1. CASE JudgeReports
        BY <4>1, ReportsStep
      <4>2. CASE JudgeStatistics
        BY <4>2, StatisticsStep
      <4> QED BY <1>8, <4>1, <4>2
    <3> QED BY <3>1, <3>2
  <2>2. wake' \in Int /\ now <= wake'
    BY <1>1, <2>1
  <2> QED BY <1>2, <2>1, <2>2
<1>9. CASE Sample
  <2>1. /\ ~ Counting /\ now = sampleAt /\ sampleAt' = now + Cadence /\ (~ upset' => ~ upset)
        /\ UNCHANGED <<now, script, wake, closeAt, cycle>>
    BY <1>9, SampleStep DEF runner
  <2>2. Counting' <=> Counting
    BY <2>1 DEF Counting
  <2> QED BY <1>1, <2>1, <2>2 DEF ScheduleInv, Cadence
<1>10. CASE CloseWindow
  <2>1. /\ Counting /\ now = closeAt /\ closeAt' = now + cycle
        /\ UNCHANGED <<now, script, wake, sampleAt, cycle, upset>>
    BY <1>10 DEF CloseWindow, runner
  <2>2. Counting' <=> Counting
    BY <2>1 DEF Counting
  <2>3. now <= now + cycle /\ (cycle = Cycle => now + cycle <= now + Cycle)
    BY <1>1 DEF ShapeInv
  <2> QED BY <2>1, <2>2, <2>3 DEF ScheduleInv
<1>11. CASE CycleChanges \/ RestartFw
  BY <1>11 DEF CycleChanges, RestartFw, ScheduleInv, runner
<1>12. CASE Tick
  <2>1. /\ now' \in Nat /\ now < now' /\ now' <= NextDue /\ now' <= wake + MaxDelay
    BY <1>12, TickForward
  <2>2. UNCHANGED <<script, wake, sampleAt, closeAt, cycle, upset>>
    BY <1>12 DEF Tick, runner
  <2>3. Counting' <=> Counting
    BY <2>2 DEF Counting
  <2>4. now' <= wake' + MaxDelay
    BY <2>1, <2>2, Zenon
  <2>5. ~ Counting => now' <= sampleAt' /\ (sampleAt <= now + Cadence => sampleAt' <= now' + Cadence)
    <3>1. ~ Counting => now' <= sampleAt'
      BY <2>1, <2>2, Zenon DEF NextDue
    <3>2. sampleAt <= now + Cadence => sampleAt <= now' + Cadence
      BY <1>1, <2>1, Stretch, Zenon DEF Cadence
    <3> QED BY <2>2, <3>1, <3>2, Zenon
  <2>6. Counting => now' <= closeAt' /\ (closeAt <= now + Cycle => closeAt' <= now' + Cycle)
    <3>1. Counting => now' <= closeAt'
      BY <2>1, <2>2, Zenon DEF NextDue
    <3>2. closeAt <= now + Cycle => closeAt <= now' + Cycle
      BY <1>1, <2>1, Stretch, Zenon DEF Cycle
    <3> QED BY <2>2, <3>1, <3>2, Zenon
  <2> QED BY <2>2, <2>3, <2>4, <2>5, <2>6 DEF ScheduleInv
<1>13. CASE UNCHANGED vars
  BY <1>1, <1>2, <1>13 DEF vars, runner
<1> QED
  BY <1>5, <1>6, <1>7, <1>8, <1>9, <1>10, <1>11, <1>12, <1>13, Steps

\* idps-fw has, or will have when the case looks, a row newer than its watermark.
RowInTime == \E r \in rows : r.kind = Case /\ r.stamp > since /\ r.due <= wake

\* The same for a case whose wait counts from its watermark at the latest.
RowSettled == \E r \in rows : r.kind = Case /\ r.stamp > since /\ r.due <= since + MonitorSettle

\* The flood was started when the listener accepted, not too late, and is held.
Flooding ==
  LET at == wake - MonitorSettle IN
    /\ procs = {"listener", "flood"}
    /\ bound <= at /\ at <= bound + MaxDelay /\ since < at /\ flooded \in {at, at + Connect}

\* A monitor case is under way and nothing has failed.
Waiting == ~ upset /\ pc \in Waits /\ Case \notin Stats

\* When the next step of a waiting case is due.
StepInv ==
  Waiting => /\ pc = "stimulate" => since + StartUp <= wake
             /\ pc = "flood" => bound = wake /\ since < wake

\* The row that a waiting case looks for is there or will be in time.
TotalInv ==
  Waiting /\ Case = "conn-total" =>
    /\ RowSettled \/ sampleAt <= since + Cadence
    /\ pc = "judge" => since + MonitorSettle <= wake
ProbeInv == Waiting /\ Case = "icmp-timestamp" /\ pc = "judge" => RowInTime
SpoofInv ==
  Waiting /\ Case = "arp-spoof" /\ pc = "judge" =>
    \/ RowInTime
    \/ cur \in pending /\ since < sampleAt /\ sampleAt < wake /\ sampleAt + Lag <= wake
FloodInv ==
  Waiting /\ Case = "conn-perip" /\ pc = "judge" =>
    Flooding /\ (RowInTime \/ sampleAt <= flooded + Cadence)

TimingInv == StepInv /\ TotalInv /\ ProbeInv /\ SpoofInv /\ FloodInv

\* Nothing is promised of a case that is over, of another kind, or upset.
LEMMA NotWaiting == ASSUME ~ Waiting' PROVE TimingInv'
BY DEF TimingInv, StepInv, TotalInv, ProbeInv, SpoofInv, FloodInv

\* A row is waited for until it is stored.
LEMMA RowStays ==
  ASSUME UNCHANGED <<script, cur, since>>, \A r \in rows : r \in rows'
  PROVE  /\ RowSettled => RowSettled'
         /\ RowInTime /\ UNCHANGED wake => RowInTime'
BY DEF RowSettled, RowInTime, Case

\* A healthy sample reports all there is to be seen.
LEMMA SampleReports ==
  ASSUME ShapeInv, Sample, ~ upset'
  PROVE  /\ \A r \in rows : r \in rows'
         /\ \E r \in rows' : r.kind = "conn-total" /\ now <= r.stamp /\ r.due <= now + Lag
         /\ \A c \in pending :
              \E r \in rows' : r.kind = "arp-spoof" /\ now <= r.stamp /\ r.due <= now + Lag
         /\ Held =>
              \E r \in rows' : r.kind = "conn-perip" /\ now <= r.stamp /\ r.due <= now + Lag
<1> DEFINE seen == {<<"conn-total", 0>>} \cup {<<"arp-spoof", c>> : c \in pending}
                     \cup (IF Held THEN {<<"conn-perip", cur>>} ELSE {})
<1>1. \E one \in Stored("any", 0, now) :
        rows' = rows \cup {[one EXCEPT !.kind = s[1], !.of = s[2]] : s \in seen}
  BY SampleStep, Zenon
<1>2. PICK one \in Stored("any", 0, now) :
        rows' = rows \cup {[one EXCEPT !.kind = s[1], !.of = s[2]] : s \in seen}
  BY <1>1
<1>3. /\ now <= one.stamp /\ one.due <= now + Lag
      /\ DOMAIN one = {"kind", "of", "stamp", "due"}
  BY StoredFacts DEF ShapeInv
<1>4. /\ <<"conn-total", 0>> \in seen
      /\ \A c \in pending : <<"arp-spoof", c>> \in seen
      /\ Held => <<"conn-perip", cur>> \in seen
  OBVIOUS
<1> HIDE DEF seen
<1>5. ASSUME NEW k, NEW o, <<k, o>> \in seen
      PROVE \E r \in rows' : r.kind = k /\ now <= r.stamp /\ r.due <= now + Lag
  <2> DEFINE s == <<k, o>>
             r == [one EXCEPT !.kind = s[1], !.of = s[2]]
  <2>1. r \in rows'
    <3>1. r \in {[one EXCEPT !.kind = x[1], !.of = x[2]] : x \in seen}
      BY <1>5, Zenon
    <3> QED BY <1>2, <3>1, Zenon
  <2>2. s[1] = k
    OBVIOUS
  <2>3. r.kind = s[1] /\ r.stamp = one.stamp /\ r.due = one.due
    BY <1>3
  <2> HIDE DEF s, r
  <2> QED BY <1>3, <2>1, <2>2, <2>3
<1>6. \A r \in rows : r \in rows'
  BY <1>2
<1> QED BY <1>4, <1>5, <1>6

\* The runner's own steps keep each waiting case in time.
LEMMA TimingRunner ==
  ASSUME EnoughTime, ShapeInv, ProcInv, RowInv, ScheduleInv, TimingInv, Runner
  PROVE  TimingInv'
<1> USE DEF daemon
<1>1. /\ now \in Nat /\ wake \in Int /\ sampleAt \in Int /\ bound \in Int /\ flooded \in Int
      /\ pc # "done" => cur \in 1 .. Len(script)
  BY ScriptFacts DEF ShapeInv
<1>2. ASSUME pc' \in {"start", "done"} \/ upset' PROVE TimingInv'
  BY <1>2, NotWaiting DEF Waiting, Waits
<1>3. ASSUME NEW status, Ends(status) PROVE TimingInv'
  <2>1. pc' \in {"start", "done"}
    BY <1>3 DEF Ends, Conclude
  <2> QED BY <1>2, <2>1
<1>4. ASSUME pc # "done", Case \notin Stats, ~ upset
      PROVE  now <= sampleAt /\ sampleAt <= now + Cadence
  <2>1. ~ Counting
    BY <1>1, <1>4, ScriptFacts DEF ShapeInv, Case
  <2> QED BY <1>4, <2>1 DEF ScheduleInv
<1>5. CASE Mark
  <2>1. SUFFICES ASSUME GoesOn("start", "stimulate"), since' = now, wake' = now + StartUp,
                        UNCHANGED upset, Waiting'
                 PROVE  TimingInv'
    BY <1>3, <1>5, MarkStep, NotWaiting
  <2>2. Case' = Case /\ pc' = "stimulate" /\ pc = "start" /\ ~ upset /\ Case \notin Stats
    BY <1>5, <2>1, MarkStep DEF GoesOn, Case, Waiting
  <2>3. sampleAt' = sampleAt /\ sampleAt <= now + Cadence
    BY <1>4, <1>5, <2>2, MarkStep
  <2>4. since' + StartUp <= wake'
    BY <1>1, <2>1 DEF StartUp
  <2>5. StartUp' = StartUp
    BY <2>2 DEF StartUp
  <2> QED BY <2>1, <2>2, <2>3, <2>4, <2>5
          DEF TimingInv, StepInv, TotalInv, ProbeInv, SpoofInv, FloodInv
<1>6. ASSUME pc = "stimulate", Case \notin Stats, ~ upset
      PROVE  since \in Int /\ since + StartUp <= wake
  BY <1>6 DEF TimingInv, StepInv, Waiting, Waits, RowInv
<1>7. CASE ProbeTimestamp
  <2>1. SUFFICES ASSUME GoesOn("stimulate", "judge"), wake' = now + EventSettle,
                        UNCHANGED since, ~ upset,
                        NEW row \in Stored(Case, cur, now), rows' = rows \cup {row}, Waiting'
                 PROVE  TimingInv'
    BY <1>3, <1>7, ProbeStep, NotWaiting DEF Waiting
  <2>2. Case' = Case /\ pc' = "judge" /\ pc = "stimulate" /\ Case = "icmp-timestamp" /\ now >= wake
    BY <1>7, <2>1, ProbeStep DEF GoesOn, Case
  <2>3. since \in Int /\ since + 1 <= wake
    BY <1>6, <2>1, <2>2 DEF StartUp, Stats
  <2>4. /\ row.kind = Case /\ row.stamp \in Int /\ row.due \in Int
        /\ now <= row.stamp /\ row.due <= now + Lag
    BY <1>1, <2>1, StoredFacts
  <2>5. row.stamp > since
    BY <1>1, <2>2, <2>3, <2>4
  <2>6. row.due <= wake'
    BY <1>1, <2>1, <2>4 DEF EnoughTime, EventSettle
  <2>7. RowInTime'
    BY <2>1, <2>2, <2>4, <2>5, <2>6 DEF RowInTime
  <2> QED BY <2>2, <2>7 DEF TimingInv, StepInv, TotalInv, ProbeInv, SpoofInv, FloodInv
<1>8. CASE AwaitTotal
  <2>1. SUFFICES ASSUME Waiting' PROVE TimingInv'
    BY NotWaiting
  <2>2. /\ Case' = Case /\ pc' = "judge" /\ pc = "stimulate" /\ Case = "conn-total" /\ now >= wake
        /\ wake' = now + MonitorSettle /\ UNCHANGED <<script, cur, since, rows, sampleAt, upset>>
    BY <1>8, AwaitStep DEF GoesOn, Case
  <2>3. ~ upset /\ Waiting
    BY <2>1, <2>2 DEF Waiting, Waits
  <2>4. since \in Int /\ since <= wake
    BY <1>6, <2>2, <2>3 DEF StartUp, Stats
  <2>5. since' + MonitorSettle <= wake'
    BY <1>1, <2>2, <2>4 DEF MonitorSettle
  <2>6. RowSettled' \/ sampleAt' <= since' + Cadence
    BY <2>2, <2>3, RowStays DEF TimingInv, TotalInv
  <2> QED BY <2>2, <2>5, <2>6 DEF TimingInv, StepInv, TotalInv, ProbeInv, SpoofInv, FloodInv
<1>9. CASE SpoofArp
  <2>1. SUFFICES ASSUME GoesOn("stimulate", "judge"), wake' = now + MonitorSettle,
                        pending' = pending \cup {cur}, UNCHANGED <<since, upset>>, Waiting'
                 PROVE  TimingInv'
    BY <1>3, <1>9, SpoofStep, NotWaiting
  <2>2. /\ Case' = Case /\ pc' = "judge" /\ pc = "stimulate" /\ Case = "arp-spoof" /\ now >= wake
        /\ cur' = cur /\ sampleAt' = sampleAt /\ ~ upset
    BY <1>9, <2>1, SpoofStep DEF GoesOn, Case, Waiting
  <2>3. since \in Int /\ since + 1 <= wake
    BY <1>6, <2>2 DEF StartUp, Stats
  <2>4. now <= sampleAt /\ sampleAt <= now + Cadence
    BY <1>4, <2>2 DEF Stats
  <2>5. since < sampleAt
    BY <1>1, <2>2, <2>3, <2>4
  <2>6. sampleAt < now + MonitorSettle /\ sampleAt + Lag <= now + MonitorSettle
    BY <1>1, <2>4 DEF EnoughTime, Cadence, MonitorSettle
  <2> QED BY <2>1, <2>2, <2>5, <2>6 DEF TimingInv, StepInv, TotalInv, ProbeInv, SpoofInv, FloodInv
<1>10. CASE SpawnListener
  <2>1. SUFFICES ASSUME GoesOn("stimulate", "flood"), wake' = now + ListenReady,
                        bound' = now + ListenReady, ~ upset, UNCHANGED since, Waiting'
                 PROVE  TimingInv'
    BY <1>3, <1>10, ListenerStep, NotWaiting DEF Waiting
  <2>2. Case' = Case /\ pc' = "flood" /\ pc = "stimulate" /\ Case = "conn-perip" /\ now >= wake
    BY <1>10, <2>1, ListenerStep DEF GoesOn, Case
  <2>3. since \in Int /\ since <= wake
    BY <1>6, <2>1, <2>2 DEF StartUp, Stats
  <2>4. bound' = wake' /\ since' < wake'
    BY <1>1, <2>1, <2>2, <2>3 DEF ListenReady
  <2> QED BY <2>2, <2>4 DEF TimingInv, StepInv, TotalInv, ProbeInv, SpoofInv, FloodInv
<1>11. CASE SpawnFlood
  <2>1. SUFFICES ASSUME GoesOn("flood", "judge"), wake' = now + MonitorSettle,
                        procs' = procs \cup {"flood"}, UNCHANGED <<since, bound, upset>>,
                        flooded' \in IF now < bound THEN {Never} ELSE {now, now + Connect},
                        Waiting'
                 PROVE  TimingInv'
    BY <1>3, <1>11, FloodStep, NotWaiting
  <2>2. /\ Case' = Case /\ pc' = "judge" /\ pc = "flood" /\ Case = "conn-perip" /\ now >= wake
        /\ sampleAt' = sampleAt /\ ~ upset
    BY <1>11, <2>1, FloodStep DEF GoesOn, Case, Waiting, ProcInv
  <2>3. since \in Int /\ since < wake /\ bound = wake /\ procs' = {"listener", "flood"}
    BY <2>1, <2>2 DEF TimingInv, StepInv, Waiting, Waits, RowInv, Stats, ProcInv
  <2>4. now <= wake + MaxDelay /\ sampleAt <= now + Cadence
    BY <1>4, <2>2 DEF Stats, ScheduleInv
  <2>5. flooded' \in {now, now + Connect} /\ wake' - MonitorSettle = now
    BY <1>1, <2>1, <2>2, <2>3 DEF MonitorSettle
  <2>6. sampleAt <= flooded' + Cadence
    <3>1. sampleAt <= now + Connect + Cadence
      BY <1>1, <2>4 DEF Cadence
    <3> QED BY <2>4, <2>5, <3>1
  <2>7. since < now
    BY <1>1, <2>2, <2>3
  <2>8. Flooding'
    BY <2>1, <2>2, <2>3, <2>4, <2>5, <2>7 DEF Flooding
  <2> QED BY <2>2, <2>6, <2>8 DEF TimingInv, StepInv, TotalInv, ProbeInv, SpoofInv, FloodInv
<1>12. CASE Baseline \/ SendVolume
  <2>1. Case \in Stats /\ (Case' = Case \/ pc' \in {"start", "done"})
    BY <1>12, BaselineStep, VolumeStep DEF GoesOn, Ends, Conclude, Case
  <2> QED BY <1>2, <2>1, NotWaiting DEF Waiting
<1>13. CASE JudgeReports \/ JudgeStatistics
  <2>1. pc' \in {"start", "done"}
    BY <1>13 DEF JudgeReports, JudgeStatistics, GiveUp, Conclude
  <2> QED BY <1>2, <2>1
<1> QED BY <1>5, <1>7, <1>8, <1>9, <1>10, <1>11, <1>12, <1>13 DEF Runner

\* A sample reports what a waiting case looks for, and in time: the first sample
\* after the stimulus comes within the cadence.
LEMMA TimingSample ==
  ASSUME EnoughTime, ShapeInv, RowInv, TimingInv, Sample
  PROVE  TimingInv'
<1>1. SUFFICES ASSUME Waiting' PROVE TimingInv'
  BY NotWaiting
<1>2. /\ now = sampleAt /\ sampleAt' = now + Cadence
      /\ UNCHANGED <<now, script, cur, pc, wake, since, procs, bound, flooded>> /\ ~ upset
  BY <1>1, SampleStep DEF runner, Waiting
<1>3. Case' = Case /\ Waiting /\ StartUp' = StartUp
  BY <1>1, <1>2 DEF Case, Waiting, StartUp
<1>4. /\ now \in Nat /\ wake \in Int /\ sampleAt \in Int /\ bound \in Int /\ flooded \in Int
      /\ since \in Int /\ since >= 2
  BY <1>3 DEF ShapeInv, RowInv, Waiting
<1>5. \A r \in rows' : r.stamp \in Int /\ r.due \in Int
  BY SampledRows DEF ShapeInv
<1>6. (RowSettled => RowSettled') /\ (RowInTime => RowInTime')
  <2>1. \A r \in rows : r \in rows'
    BY <1>1, SampleReports DEF Waiting
  <2> QED BY <1>2, <2>1, RowStays
<1>7. StepInv'
  BY <1>2, <1>3 DEF TimingInv, StepInv
<1>8. TotalInv'
  <2>1. SUFFICES ASSUME Case = "conn-total" PROVE TotalInv'
    BY <1>3 DEF TotalInv
  <2>2. RowSettled \/ sampleAt <= since + Cadence
    BY <1>3, <2>1 DEF TimingInv, TotalInv
  <2>3. RowSettled' \/ sampleAt' <= since' + Cadence
    <3>1. CASE RowSettled
      BY <3>1, <1>6
    <3>2. CASE now <= since
      BY <3>2, <1>2, <1>4 DEF Cadence
    <3>3. CASE now > since /\ sampleAt <= since + Cadence
      <4>1. PICK r \in rows' : r.kind = "conn-total" /\ now <= r.stamp /\ r.due <= now + Lag
        BY <1>1, SampleReports DEF Waiting
      <4>2. r.stamp > since /\ r.due <= since + MonitorSettle
        BY <1>2, <1>4, <1>5, <3>3, <4>1 DEF EnoughTime, MonitorSettle, Cadence
      <4> QED BY <1>2, <1>3, <2>1, <4>1, <4>2 DEF RowSettled
    <3> QED BY <1>4, <2>2, <3>1, <3>2, <3>3
  <2> QED BY <1>2, <1>3, <2>3 DEF TimingInv, TotalInv
<1>9. ProbeInv'
  BY <1>2, <1>3, <1>6 DEF TimingInv, ProbeInv
<1>10. SpoofInv'
  <2>1. SUFFICES ASSUME Case = "arp-spoof", pc = "judge", ~ RowInTime PROVE RowInTime'
    BY <1>2, <1>3, <1>6 DEF SpoofInv
  <2>2. cur \in pending /\ since < sampleAt /\ sampleAt + Lag <= wake
    BY <1>3, <2>1 DEF TimingInv, SpoofInv
  <2>3. PICK r \in rows' : r.kind = "arp-spoof" /\ now <= r.stamp /\ r.due <= now + Lag
    BY <1>1, <2>2, SampleReports DEF Waiting
  <2>4. r.stamp > since /\ r.due <= wake
    BY <1>2, <1>4, <1>5, <2>2, <2>3
  <2> QED BY <1>2, <1>3, <2>1, <2>3, <2>4 DEF RowInTime
<1>11. FloodInv'
  <2>1. SUFFICES ASSUME Case = "conn-perip", pc = "judge" PROVE FloodInv'
    BY <1>2, <1>3 DEF FloodInv
  <2>2. Flooding /\ (RowInTime \/ sampleAt <= flooded + Cadence)
    BY <1>3, <2>1 DEF TimingInv, FloodInv
  <2>3. Flooding'
    BY <1>2, <2>2 DEF Flooding
  <2>4. RowInTime' \/ sampleAt' <= flooded' + Cadence
    <3>1. CASE RowInTime
      BY <1>6, <3>1
    <3>2. CASE now <= flooded
      BY <1>2, <1>4, <3>2 DEF Cadence
    <3>3. CASE flooded <= now /\ now <= flooded + Cadence
      <4> DEFINE at == wake - MonitorSettle
      <4>1. /\ procs = {"listener", "flood"} /\ at \in Int /\ wake = at + MonitorSettle
            /\ bound <= at /\ at <= bound + MaxDelay /\ since < at /\ flooded \in {at, at + Connect}
        BY <1>4, <2>2 DEF Flooding, MonitorSettle
      <4> HIDE DEF at
      <4>2. at <= flooded /\ flooded <= at + Connect
        BY <1>4, <4>1
      <4>3. flooded # Never /\ now < flooded + Hold /\ now < bound + ListenSecs
        BY <1>4, <3>3, <4>1, <4>2 DEF EnoughTime, Never, Hold, ListenSecs, Cadence
      <4>4. Held
        BY <1>4, <3>3, <4>1, <4>3 DEF Held, Hold
      <4>5. PICK r \in rows' : r.kind = "conn-perip" /\ now <= r.stamp /\ r.due <= now + Lag
        BY <1>1, <4>4, SampleReports DEF Waiting
      <4>6. r.stamp > since /\ r.due <= wake
        BY <1>4, <1>5, <3>3, <4>1, <4>2, <4>5 DEF EnoughTime, MonitorSettle, Cadence
      <4> QED BY <1>2, <1>3, <2>1, <4>5, <4>6 DEF RowInTime
    <3> QED BY <1>2, <1>4, <2>2, <3>1, <3>2, <3>3
  <2> QED BY <2>3, <2>4 DEF FloodInv
<1> QED BY <1>7, <1>8, <1>9, <1>10, <1>11 DEF TimingInv

\* Every step keeps each waiting case in time.
LEMMA TimingNext ==
  ASSUME EnoughTime
  PROVE  ShapeInv /\ ProcInv /\ RowInv /\ ScheduleInv /\ TimingInv /\ [Next]_vars => TimingInv'
<1> SUFFICES ASSUME ShapeInv, ProcInv, RowInv, ScheduleInv, TimingInv, [Next]_vars
             PROVE TimingInv'
  OBVIOUS
<1>1. CASE Runner
  BY <1>1, TimingRunner
<1>2. CASE Sample
  BY <1>2, TimingSample
<1>3. CASE CycleChanges \/ RestartFw
  <2>1. upset'
    BY <1>3 DEF CycleChanges, RestartFw
  <2> QED BY <2>1, NotWaiting DEF Waiting
<1>4. CASE CloseWindow
  <2>1. Counting /\ UNCHANGED <<script, cur, pc>>
    BY <1>4 DEF CloseWindow, runner
  <2>2. pc \in Waits => Case \in Stats
    BY <2>1, ScriptFacts DEF ShapeInv, Case, Waits
  <2>3. ~ Waiting'
    BY <2>1, <2>2 DEF Waiting, Case
  <2> QED BY <2>3, NotWaiting
<1>5. CASE Tick \/ UNCHANGED vars
  <2>1. UNCHANGED <<runner, daemon, upset>>
    BY <1>5 DEF Tick, vars
  <2>2. UNCHANGED <<Waiting, StartUp, RowSettled, RowInTime, Flooding>>
    BY <2>1 DEF runner, daemon, Waiting, StartUp, RowSettled, RowInTime, Flooding, Case
  <2> QED BY <2>1, <2>2
          DEF runner, daemon, Case, TimingInv, StepInv, TotalInv, ProbeInv, SpoofInv, FloodInv
<1> QED BY <1>1, <1>2, <1>3, <1>4, <1>5 DEF Next

\* A waiting case that looks finds its row.
LEMMA RowIsVisible ==
  ASSUME EnoughTime, ShapeInv, RowInv, ScheduleInv, TimingInv,
         Waiting, pc = "judge", now >= wake
  PROVE  \E r \in Visible : r.kind = Case
<1>1. /\ now \in Nat /\ wake \in Int /\ sampleAt \in Int /\ bound \in Int /\ flooded \in Int
      /\ since \in Int /\ \A r \in rows : r.stamp \in Int /\ r.due \in Int
  BY DEF ShapeInv, RowInv, Waiting
<1>2. now <= sampleAt
  <2>1. ~ Counting
    BY ScriptFacts DEF ShapeInv, Waiting, Case
  <2> QED BY <2>1 DEF ScheduleInv, Waiting
<1>3. Case \in {"conn-total", "icmp-timestamp", "arp-spoof", "conn-perip"}
  <2>1. Case \in Kind
    BY ScriptFacts DEF ShapeInv, Case
  <2> QED BY <2>1 DEF Kind, Stats, Waiting
<1>4. CASE RowInTime
  <2>1. PICK r \in rows : r.kind = Case /\ r.stamp > since /\ r.due <= wake
    BY <1>4 DEF RowInTime
  <2>2. r.due <= now
    BY <1>1, <2>1
  <2> QED BY <2>1, <2>2 DEF Visible
<1>5. CASE Case = "conn-total"
  <2>1. (RowSettled \/ sampleAt <= since + Cadence) /\ since + MonitorSettle <= wake
    BY <1>5 DEF TimingInv, TotalInv
  <2>2. ~ (sampleAt <= since + Cadence)
    BY <1>1, <1>2, <2>1 DEF Cadence, MonitorSettle
  <2>3. PICK r \in rows : r.kind = Case /\ r.stamp > since /\ r.due <= since + MonitorSettle
    BY <2>1, <2>2 DEF RowSettled
  <2>4. r.due <= now
    BY <1>1, <2>1, <2>3 DEF MonitorSettle
  <2> QED BY <2>3, <2>4 DEF Visible
<1>6. CASE Case = "icmp-timestamp"
  BY <1>4, <1>6 DEF TimingInv, ProbeInv
<1>7. CASE Case = "arp-spoof"
  <2>1. ~ (sampleAt < wake)
    BY <1>1, <1>2
  <2> QED BY <1>4, <1>7, <2>1 DEF TimingInv, SpoofInv
<1>8. CASE Case = "conn-perip"
  <2>1. Flooding /\ (RowInTime \/ sampleAt <= flooded + Cadence)
    BY <1>8 DEF TimingInv, FloodInv
  <2>2. flooded + Cadence < wake
    BY <1>1, <2>1 DEF Flooding, EnoughTime, Cadence, MonitorSettle
  <2>3. ~ (sampleAt <= flooded + Cadence)
    BY <1>1, <1>2, <2>2 DEF Cadence
  <2> QED BY <1>4, <2>1, <2>3
<1> QED BY <1>3, <1>5, <1>6, <1>7, <1>8

\* Statistics count.
CounterInv ==
  /\ counters \in [Stats -> [bytes : Nat, windows : Nat]]
  /\ before \in [Stats -> [bytes : Nat, windows : Nat]]

\* A traffic case is under way and nothing has failed.
Measuring == ~ upset /\ pc \in Waits /\ Case \in Stats

\* The statistics of a traffic case only grow after its baseline, and the window
\* that holds its volume is closed or will be in time.
WindowInv ==
  Measuring =>
    /\ before[Case].bytes <= counters[Case].bytes /\ before[Case].windows <= counters[Case].windows
    /\ pc = "judge" =>
         /\ before[Case].bytes < counters[Case].bytes
         /\ before[Case].windows < counters[Case].windows \/ (Case \in fresh /\ closeAt < wake)

\* What closing a window does to the statistics.
LEMMA CloseStep ==
  ASSUME CloseWindow, CounterInv, NEW k \in Stats
  PROVE  /\ counters' \in [Stats -> [bytes : Nat, windows : Nat]]
         /\ counters'[k].bytes = counters[k].bytes
         /\ counters'[k].windows \in {counters[k].windows, counters[k].windows + 1}
         /\ k \in fresh => counters'[k].windows = counters[k].windows + 1
<1>1. PICK counted \in {fresh, Stats} :
        counters' = [j \in Stats |->
                       [counters[j] EXCEPT !.windows = @ + IF j \in counted THEN 1 ELSE 0]]
  BY DEF CloseWindow
<1>2. ASSUME NEW j \in Stats
      PROVE  /\ counters'[j] \in [bytes : Nat, windows : Nat]
             /\ counters'[j].bytes = counters[j].bytes
             /\ counters'[j].windows = counters[j].windows + IF j \in counted THEN 1 ELSE 0
  <2>1. counters[j] \in [bytes : Nat, windows : Nat]
    BY DEF CounterInv
  <2>2. counters'[j] = [counters[j] EXCEPT !.windows = @ + IF j \in counted THEN 1 ELSE 0]
    BY <1>1
  <2> QED BY <2>1, <2>2
<1>3. counters' \in [Stats -> [bytes : Nat, windows : Nat]]
  <2>1. counters' = [j \in Stats |-> counters'[j]]
    BY <1>1
  <2> QED BY <1>2, <2>1
<1>4. counters[k].windows \in Nat
  BY DEF CounterInv
<1> QED BY <1>1, <1>2, <1>3, <1>4

\* What counting a volume does to the statistics.
LEMMA CountStep ==
  ASSUME CounterInv, Case \in Stats, counters' = [counters EXCEPT ![Case].bytes = @ + 1]
  PROVE  /\ counters' \in [Stats -> [bytes : Nat, windows : Nat]]
         /\ counters'[Case].bytes = counters[Case].bytes + 1
         /\ counters'[Case].windows = counters[Case].windows
<1>1. counters[Case] \in [bytes : Nat, windows : Nat] /\ counters \in [Stats -> [bytes : Nat, windows : Nat]]
  BY DEF CounterInv
<1>2. counters' = [counters EXCEPT ![Case] = [counters[Case] EXCEPT !.bytes = counters[Case].bytes + 1]]
  OBVIOUS
<1>3. [counters[Case] EXCEPT !.bytes = counters[Case].bytes + 1] \in [bytes : Nat, windows : Nat]
  BY <1>1
<1> QED BY <1>1, <1>2, <1>3

\* Statistics keep counting.
LEMMA CounterNext == CounterInv /\ [Next]_vars => CounterInv'
<1> SUFFICES ASSUME CounterInv, [Next]_vars PROVE CounterInv'
  OBVIOUS
<1>1. CASE UNCHANGED <<counters, before>>
  BY <1>1 DEF CounterInv
<1>2. CASE Baseline
  <2>1. counters' = counters /\ before' \in {before, counters}
    BY <1>2 DEF Baseline, GiveUp, daemon
  <2> QED BY <2>1 DEF CounterInv
<1>3. CASE SendVolume
  <2>1. before' = before /\ Case \in Stats
    BY <1>3 DEF SendVolume, GiveUp
  <2>2. counters' = counters \/ counters' = [counters EXCEPT ![Case].bytes = @ + 1]
    BY <1>3, VolumeStep
  <2> QED BY <1>1, <2>1, <2>2, CountStep DEF CounterInv
<1>4. CASE CloseWindow
  <2>1. before' = before /\ "traffic-global" \in Stats
    BY <1>4 DEF CloseWindow, runner, Stats
  <2>2. counters' \in [Stats -> [bytes : Nat, windows : Nat]]
    BY <1>4, <2>1, CloseStep
  <2> QED BY <2>1, <2>2 DEF CounterInv
<1>5. CASE RestartFw
  <2>1. before' = before /\ counters' = Zero
    BY <1>5 DEF RestartFw, runner
  <2> QED BY <2>1 DEF CounterInv, Zero
<1>6. CASE Mark \/ ProbeTimestamp \/ AwaitTotal \/ SpoofArp \/ SpawnListener \/ SpawnFlood
  BY <1>1, <1>6 DEF Mark, ProbeTimestamp, AwaitTotal, SpoofArp, SpawnListener, SpawnFlood,
                    GiveUp, daemon
<1>7. CASE JudgeReports \/ JudgeStatistics
  BY <1>1, <1>7 DEF JudgeReports, JudgeStatistics, GiveUp, daemon
<1>8. CASE Sample \/ CycleChanges \/ Tick \/ UNCHANGED vars
  BY <1>1, <1>8, SampleStep DEF CycleChanges, Tick, vars, runner, daemon
<1> QED BY <1>2, <1>3, <1>4, <1>5, <1>6, <1>7, <1>8, Steps

\* Every step keeps each traffic case in time: its window closes within the cycle.
LEMMA WindowNext ==
  ShapeInv /\ ProcInv /\ ScheduleInv /\ CounterInv /\ WindowInv /\ [Next]_vars => WindowInv'
<1> SUFFICES ASSUME ShapeInv, ProcInv, ScheduleInv, CounterInv, WindowInv, [Next]_vars, Measuring'
             PROVE WindowInv'
  BY DEF WindowInv
<1>1. /\ now \in Nat /\ wake \in Int /\ closeAt \in Int /\ ~ upset' /\ pc' \in Waits
      /\ pc # "done" => cur \in 1 .. Len(script)
  BY ScriptFacts DEF ShapeInv, Measuring
<1>2. ASSUME UNCHANGED <<script, cur, pc, wake, before, counters, fresh, closeAt>>, ~ upset
      PROVE  WindowInv'
  BY <1>2 DEF WindowInv, Measuring, Case
<1>3. CASE Baseline
  <2>1. GoesOn("start", "stimulate") /\ before' = counters /\ UNCHANGED counters /\ Case \in Stats
    BY <1>1, <1>3, BaselineStep DEF daemon
  <2>2. pc' = "stimulate" /\ Case' = Case
    BY <2>1 DEF GoesOn, Case
  <2>3. counters[Case].bytes \in Nat /\ counters[Case].windows \in Nat
    BY <2>1 DEF CounterInv
  <2> QED BY <2>1, <2>2, <2>3 DEF WindowInv
<1>4. CASE SendVolume
  <2>1. /\ GoesOn("stimulate", "judge") /\ wake' = now + StatsWait /\ UNCHANGED <<before, closeAt>>
        /\ counters' = [counters EXCEPT ![Case].bytes = @ + 1]
        /\ fresh' = fresh \cup {Case} /\ ~ upset /\ Case \in Stats
    <3>1. pc' \notin {"start", "done"}
      BY <1>1 DEF Waits
    <3>2. ~ Ends("FAIL")
      BY <3>1 DEF Ends, Conclude
    <3> QED BY <1>1, <1>4, <3>2, VolumeStep
  <2>2. pc' = "judge" /\ pc = "stimulate" /\ Case' = Case /\ Measuring
    BY <2>1 DEF GoesOn, Case, Measuring, Waits
  <2>3. /\ counters'[Case].bytes = counters[Case].bytes + 1
        /\ counters'[Case].windows = counters[Case].windows
    BY <2>1, CountStep
  <2>4. /\ counters[Case].bytes \in Nat /\ counters[Case].windows \in Nat
        /\ before[Case].bytes \in Nat /\ before[Case].windows \in Nat
    BY <2>1 DEF CounterInv
  <2>5. closeAt <= now + Cycle
    <3>1. Counting
      BY <1>1, <2>1, <2>2, ScriptFacts DEF ShapeInv, Case
    <3> QED BY <2>1, <3>1 DEF ScheduleInv
  <2>6. closeAt' < wake'
    BY <1>1, <2>1, <2>5 DEF Cycle, StatsWait
  <2>7. /\ before[Case].bytes <= counters[Case].bytes
        /\ before[Case].windows <= counters[Case].windows
    BY <2>2 DEF WindowInv
  <2>8. before[Case].bytes < counters[Case].bytes + 1 /\ before[Case].bytes <= counters[Case].bytes + 1
    BY <2>4, <2>7
  <2> QED BY <2>1, <2>2, <2>3, <2>6, <2>7, <2>8 DEF WindowInv
<1>5. CASE CloseWindow
  <2>1. UNCHANGED <<script, cur, pc, wake, before, upset>>
    BY <1>5 DEF CloseWindow, runner
  <2>2. Case' = Case /\ Measuring /\ Case \in Stats
    BY <2>1 DEF Case, Measuring
  <2>3. /\ counters'[Case].bytes = counters[Case].bytes
        /\ counters'[Case].windows \in {counters[Case].windows, counters[Case].windows + 1}
        /\ Case \in fresh => counters'[Case].windows = counters[Case].windows + 1
    BY <1>5, <2>2, CloseStep
  <2>4. /\ counters[Case].bytes \in Nat /\ counters[Case].windows \in Nat
        /\ before[Case].bytes \in Nat /\ before[Case].windows \in Nat
    BY <2>2 DEF CounterInv
  <2>5. /\ before[Case].bytes <= counters[Case].bytes
        /\ before[Case].windows <= counters[Case].windows
        /\ pc = "judge" => /\ before[Case].bytes < counters[Case].bytes
                           /\ before[Case].windows < counters[Case].windows \/ Case \in fresh
    BY <2>2 DEF WindowInv
  <2>6. /\ before[Case].windows <= counters'[Case].windows
        /\ before[Case].windows < counters[Case].windows \/ Case \in fresh
             => before[Case].windows < counters'[Case].windows
    BY <2>3, <2>4, <2>5
  <2> QED BY <2>1, <2>2, <2>3, <2>5, <2>6 DEF WindowInv
<1>6. CASE CycleChanges \/ RestartFw
  BY <1>1, <1>6 DEF CycleChanges, RestartFw
<1>7. CASE Mark \/ ProbeTimestamp \/ AwaitTotal \/ SpoofArp \/ SpawnListener \/ SpawnFlood
  <2>1. Case \notin Stats
    BY <1>7, MarkStep, ProbeStep, AwaitStep, SpoofStep, ListenerStep, FloodStep DEF Stats, ProcInv
  <2>2. UNCHANGED <<script, cur>> \/ pc' \in {"start", "done"}
    BY <1>7, MarkStep, ProbeStep, AwaitStep, SpoofStep, ListenerStep, FloodStep
       DEF GoesOn, Ends, Conclude
  <2> QED BY <1>1, <2>1, <2>2 DEF Measuring, Case, Waits
<1>8. CASE JudgeReports \/ JudgeStatistics
  <2>1. pc' \in {"start", "done"}
    BY <1>8 DEF JudgeReports, JudgeStatistics, GiveUp, Conclude
  <2> QED BY <1>1, <2>1 DEF Waits
<1>9. CASE Sample
  BY <1>1, <1>2, <1>9, SampleStep DEF runner
<1>10. CASE Tick \/ UNCHANGED vars
  BY <1>1, <1>2, <1>10 DEF Tick, vars, runner, daemon
<1> QED BY <1>3, <1>4, <1>5, <1>6, <1>7, <1>8, <1>9, <1>10, Steps

\* A measured traffic case that looks finds more bytes and more windows.
LEMMA StatisticsGrew ==
  ASSUME ShapeInv, ScheduleInv, WindowInv, Measuring, pc = "judge", now >= wake
  PROVE  counters[Case].bytes > before[Case].bytes /\ counters[Case].windows > before[Case].windows
<1>1. now \in Nat /\ wake \in Int /\ closeAt \in Int
  BY DEF ShapeInv
<1>2. Counting
  BY ScriptFacts DEF ShapeInv, Measuring, Case
<1>3. now <= closeAt
  BY <1>2 DEF ScheduleInv, Measuring
<1>4. ~ (closeAt < wake)
  BY <1>1, <1>3
<1> QED BY <1>4 DEF WindowInv

\* No step of a healthy run lets a case fail.
LEMMA HealthyNext ==
  ASSUME EnoughTime
  PROVE  /\ ShapeInv /\ RowInv /\ ScheduleInv /\ TimingInv /\ WindowInv
         /\ HealthyPasses /\ [Next]_vars
         => HealthyPasses'
<1> SUFFICES ASSUME ShapeInv, RowInv, ScheduleInv, TimingInv, WindowInv,
                    HealthyPasses, [Next]_vars, ~ upset'
             PROVE  HealthyPasses'
  BY DEF HealthyPasses
<1>1. DOMAIN script = 1 .. Len(script)
  BY ScriptFacts DEF ShapeInv
<1>2. ASSUME ~ upset, UNCHANGED <<script, results>> PROVE HealthyPasses'
  BY <1>2 DEF HealthyPasses
<1>3. ASSUME ~ upset, pc # "done", UNCHANGED script, Conclude("PASS") PROVE HealthyPasses'
  <2>1. /\ results'[cur] = "PASS"
        /\ \A c \in 1 .. Len(script) : c # cur => results'[c] = results[c]
    BY <1>3, Concluding
  <2> QED BY <1>1, <1>3, <2>1 DEF HealthyPasses
<1>4. CASE JudgeReports
  <2>1. /\ Conclude(Verdict(\E r \in Visible : r.kind = Case)) /\ UNCHANGED <<script, upset>>
        /\ pc = "judge" /\ now >= wake /\ Case \notin Stats
    BY <1>4 DEF JudgeReports, GiveUp
  <2>2. \E r \in Visible : r.kind = Case
    BY <2>1, RowIsVisible DEF Waiting, Waits
  <2>3. Conclude("PASS")
    BY <2>1, <2>2 DEF Conclude, Verdict
  <2> QED BY <1>3, <2>1, <2>3
<1>5. CASE JudgeStatistics
  <2>1. /\ Conclude(Verdict(/\ counters[Case].bytes > before[Case].bytes
                            /\ counters[Case].windows > before[Case].windows))
        /\ UNCHANGED <<script, upset>> /\ pc = "judge" /\ now >= wake /\ Case \in Stats
    BY <1>5 DEF JudgeStatistics, GiveUp
  <2>2. counters[Case].bytes > before[Case].bytes /\ counters[Case].windows > before[Case].windows
    BY <2>1, StatisticsGrew DEF Measuring, Waits
  <2>3. Conclude("PASS")
    BY <2>1, <2>2 DEF Conclude, Verdict
  <2> QED BY <1>3, <2>1, <2>3
<1>6. CASE Mark \/ Baseline
  BY <1>2, <1>6, MarkStep, BaselineStep DEF GoesOn
<1>7. CASE ProbeTimestamp \/ AwaitTotal \/ SpoofArp
  BY <1>2, <1>7, ProbeStep, AwaitStep, SpoofStep DEF GoesOn
<1>8. CASE SpawnListener \/ SpawnFlood \/ SendVolume
  BY <1>2, <1>8, ListenerStep, FloodStep, VolumeStep DEF GoesOn
<1>9. CASE Sample \/ CloseWindow
  BY <1>2, <1>9, SampleStep DEF CloseWindow, runner
<1>10. CASE CycleChanges \/ RestartFw
  BY <1>10 DEF CycleChanges, RestartFw
<1>11. CASE Tick \/ UNCHANGED vars
  BY <1>2, <1>11 DEF Tick, vars, runner
<1> QED BY <1>4, <1>5, <1>6, <1>7, <1>8, <1>9, <1>10, <1>11, Steps

\* The fixed waits of monitor.rs and of run_traffic_case are long enough: where
\* they cover the cadence, the time of the flood and the delay of a row, no case of
\* a healthy run fails, for every script, every phase of idps-fw's schedules and
\* every delay within those bounds.
THEOREM WaitsAreLongEnough ==
  ASSUME EnoughTime
  PROVE  Spec => []HealthyPasses
<1>1. Init => RowInv /\ ScheduleInv /\ TimingInv /\ CounterInv /\ WindowInv /\ HealthyPasses
  <2> SUFFICES ASSUME Init
               PROVE  RowInv /\ ScheduleInv /\ TimingInv /\ CounterInv /\ WindowInv /\ HealthyPasses
    OBVIOUS
  <2>1. /\ script \in Scripts /\ now = 2 /\ wake = 2 /\ pc = "start" /\ pending = {} /\ cycle = Cycle
        /\ counters = Zero /\ before = Zero /\ \A r \in rows : r.of = 0 /\ r.stamp = 1
    BY DEF Init, OldRows
  <2>2. /\ DOMAIN script = 1 .. Len(script)
        /\ \A c \in 1 .. Len(script) : results[c] = "none"
    BY <2>1, ScriptFacts DEF Init
  <2>3. RowInv
    BY <2>1 DEF RowInv, Waits
  <2>4. now <= wake + MaxDelay
    BY <2>1
  <2>5. ~ Counting => now <= sampleAt /\ sampleAt <= now + Cadence
    BY <2>1 DEF Init, Cadence
  <2>6. Counting => now <= closeAt /\ closeAt <= now + Cycle
    BY <2>1 DEF Init, Cycle
  <2>7. TimingInv /\ WindowInv
    BY <2>1 DEF TimingInv, StepInv, TotalInv, ProbeInv, SpoofInv, FloodInv, WindowInv,
                Waiting, Measuring, Waits
  <2>8. CounterInv
    BY <2>1 DEF CounterInv, Zero
  <2>9. HealthyPasses
    BY <2>2 DEF HealthyPasses
  <2> QED BY <2>1, <2>3, <2>4, <2>5, <2>6, <2>7, <2>8, <2>9 DEF ScheduleInv
<1> QED BY <1>1, CaseInv, RowNext, ScheduleNext, TimingNext, CounterNext, WindowNext, HealthyNext,
           PTL DEF Spec

=============================================================================
