------------------------------- MODULE Monitor -------------------------------
(***************************************************************************)
(* Cases that wait for something idps-fw does on its own schedule: the        *)
(* monitor cases (monitor.rs, agent/connflood.rs, agent/arp.rs) and the       *)
(* traffic-statistics cases (run_traffic_case in verify.rs).                  *)
(*                                                                         *)
(* idps-fw samples connections and ARP replies every 10 s and closes traffic  *)
(* windows every 5 s, at a phase unknown to the case, and stores what it       *)
(* found a little later.  The cases wait fixed times instead of polling, so    *)
(* whether they can pass at all is a question of arithmetic over phases and    *)
(* delays.  Time is counted in half seconds.                                   *)
(***************************************************************************)
EXTENDS Integers, Sequences, FiniteSetsExt

CONSTANTS
  Scripts,   \* sequences of cases to run
  Connect,   \* a flood is established at most this long after its start
  Lag,       \* idps-fw stores a row at most this long after its cause
  MaxDelay,  \* bound: how late the runner may be for its next step
  OtherCycle, \* a traffic cycle other than the one the bundle asks for
  Faults     \* which failures may happen

Kind == {"icmp-timestamp", "conn-total", "conn-perip", "arp-spoof",
         "traffic-global", "traffic-per-app"}
Stats == {"traffic-global", "traffic-per-app"}

ASSUME MonitorAssumption ==
  /\ \A s \in Scripts : /\ s # <<>>
                          /\ s \in Seq(Stats) \cup Seq(Kind \ Stats)
  /\ Connect \in Nat /\ Lag \in Nat /\ MaxDelay \in Nat /\ OtherCycle \in Nat
  /\ Faults \subseteq {"spawn", "query", "deaf", "slow", "cycle", "restart"}

\* Mutant: as long as the cadence itself.
MonitorSettleBare == 20
\* MONITOR_SETTLE, 13 s
MonitorSettle == 26

\* HOLD_SECS, 22 s; the listener lives 6 s longer
Hold == 44
ListenSecs == Hold + 12

\* the 500 ms given to the listener
ListenReady == 1

\* event_settle, 1.5 s
EventSettle == 3

\* the 7 s of run_traffic_case
StatsWait == 14

\* traffic_cycle(Bundle::Traffic), 5 s
Cycle == 10

\* idps-fw's connection-monitor cadence, 10 s
Cadence == 20

VARIABLES
  now,
  script, cur, pc,
  wake,     \* the runner's next step is due
  since,    \* the watermark
  before,   \* baseline statistics
  procs,    \* live background children of the case
  bound,    \* when the listener starts to accept
  flooded,  \* when the flood's connections are established; Never
  pending,  \* cases whose ARP replies were not sampled yet
  rows,     \* firewall_event and report_outbox, also what is not stored yet
  counters, \* idps-fw's statistics: bytes and windows
  fresh,    \* counters with traffic in the open window
  sampleAt, closeAt, cycle,
  upset,    \* a failure has happened: a behaviour has at most one
  results

runner == <<script, cur, pc, wake, since, before, procs, bound, flooded, results>>
daemon == <<pending, rows, counters, fresh, sampleAt, closeAt, cycle>>
vars == <<now, runner, daemon, upset>>

Never == -1
May(fault) == fault \in Faults /\ ~ upset
Case == script[cur]

\* A worker has to be started before it does something.
StartUp == IF Case \in {"icmp-timestamp", "arp-spoof"} THEN 1 ELSE 0

Zero == [k \in Stats |-> [bytes |-> 0, windows |-> 0]]

\* A script looks at idps-fw's samples or at its windows, not at both.
Counting == script[1] \in Stats

\* Every kind of report was made before, by an earlier command.
OldRows == [kind : Kind \ Stats, of : {0}, stamp : {1}, due : {1}]

Init ==
  /\ script \in Scripts
  /\ now = 2 /\ cur = 1 /\ pc = "start" /\ wake = now /\ since = 0 /\ before = Zero
  /\ procs = {} /\ bound = Never /\ flooded = Never
  /\ pending = {} /\ rows = OldRows /\ counters = Zero /\ fresh = {}
  /\ sampleAt \in IF Counting THEN {now} ELSE now .. now + Cadence - 1
  /\ closeAt \in IF Counting THEN now .. now + Cycle - 1 ELSE {now}
  /\ cycle = Cycle
  /\ upset = FALSE /\ results = [c \in 1 .. Len(script) |-> "none"]

Sleep(units) == wake' = now + units

Conclude(status) ==
  /\ results' = [results EXCEPT ![cur] = status]
  /\ cur' = cur + 1 /\ wake' = now
  /\ pc' = IF cur < Len(script) THEN "start" ELSE "done"

Step(from, to) ==
  /\ pc = from /\ now >= wake
  /\ pc' = to /\ UNCHANGED <<cur, results>>

\* A child or a query fails, and with it the case.
GiveUp(fault) ==
  /\ May(fault) /\ Conclude("FAIL") /\ upset' = TRUE
  /\ UNCHANGED <<since, before, bound, flooded>>

(***************************************************************************)
(* The runner.                                                               *)
(***************************************************************************)

\* Mutant: no watermark.
MarkZero ==
  /\ pc = "start" /\ now >= wake /\ Case \notin Stats
  /\ since' = 0 /\ wake' = now + StartUp
  /\ pc' = "stimulate" /\ UNCHANGED <<cur, results>>
  /\ UNCHANGED <<now, script, before, procs, bound, flooded, daemon, upset>>

\* now_ms
Mark ==
  /\ pc = "start" /\ now >= wake /\ Case \notin Stats
  /\ \/ /\ Step("start", "stimulate")
        /\ since' = now /\ Sleep(StartUp)
        /\ UNCHANGED <<before, bound, flooded, upset>>
     \/ GiveUp("query")
  /\ UNCHANGED <<now, script, procs, daemon>>

\* target::statistics before the traffic
Baseline ==
  /\ pc = "start" /\ now >= wake /\ Case \in Stats
  /\ \/ /\ Step("start", "stimulate")
        /\ before' = counters /\ wake' = now /\ UNCHANGED <<since, bound, flooded, upset>>
     \/ GiveUp("query")
  /\ UNCHANGED <<now, script, procs, daemon>>

\* What idps-fw makes of a stimulus; a deaf one does not notice.
Noticed == IF May("deaf") THEN {TRUE, FALSE} ELSE {TRUE}

\* What is caused now is stored at once or later, and stamped when it is caused or
\* when it is stored.
Stored(kind, of, at) ==
  {[kind |-> kind, of |-> of, stamp |-> p[1], due |-> p[2]] :
     p \in {<<at, at>>, <<at, at + Lag>>, <<at + Lag, at + Lag>>}}

\* run_icmp_timestamp: peer::traffic with one timestamp request
ProbeTimestamp ==
  /\ pc = "stimulate" /\ now >= wake /\ Case = "icmp-timestamp"
  /\ \/ /\ Step("stimulate", "judge") /\ Sleep(EventSettle)
        /\ \E heard \in Noticed : \E row \in Stored(Case, cur, now) :
             /\ rows' = IF heard THEN rows \cup {row} ELSE rows
             /\ upset' = (upset \/ ~ heard)
        /\ UNCHANGED <<since, before, bound, flooded>>
     \/ GiveUp("spawn") /\ UNCHANGED rows
  /\ UNCHANGED <<now, script, procs, pending, counters, fresh, sampleAt, closeAt, cycle>>

\* run_conn_total only waits.
AwaitTotal ==
  /\ Step("stimulate", "judge") /\ Case = "conn-total" /\ Sleep(MonitorSettle)
  /\ UNCHANGED <<now, script, since, before, procs, bound, flooded, daemon, upset>>

\* run_arp_spoof: six gratuitous replies
SpoofArp ==
  /\ pc = "stimulate" /\ now >= wake /\ Case = "arp-spoof"
  /\ \/ /\ Step("stimulate", "judge") /\ Sleep(MonitorSettle)
        /\ pending' = pending \cup {cur}
        /\ UNCHANGED <<since, before, bound, flooded, upset>>
     \/ GiveUp("spawn") /\ UNCHANGED pending
  /\ UNCHANGED <<now, script, procs, rows, counters, fresh, sampleAt, closeAt, cycle>>

\* run_conn_perip: the held listener; a slow one binds after the 500 ms
SpawnListener ==
  /\ pc = "stimulate" /\ now >= wake /\ Case = "conn-perip"
  /\ \/ /\ Step("stimulate", "flood") /\ Sleep(ListenReady)
        /\ procs' = procs \cup {"listener"}
        /\ \E late \in BOOLEAN :
             /\ late => May("slow")
             /\ bound' = now + IF late THEN ListenReady + 2 ELSE ListenReady
             /\ upset' = (upset \/ late)
        /\ UNCHANGED <<since, before, flooded>>
     \/ GiveUp("spawn") /\ UNCHANGED procs
  /\ UNCHANGED <<now, script, daemon>>

\* Mutant: the listener stays when the flood cannot be started.
TeardownNothing == UNCHANGED procs

\* listener.kill()
Teardown == procs' = procs \ {"listener"}

\* conn-flood: refused at once while nobody listens
SpawnFlood ==
  /\ pc = "flood" /\ now >= wake
  /\ \/ /\ Step("flood", "judge") /\ Sleep(MonitorSettle)
        /\ procs' = procs \cup {"flood"}
        /\ flooded' \in IF now < bound THEN {Never} ELSE {now, now + Connect}
        /\ UNCHANGED <<since, before, bound, upset>>
     \/ GiveUp("spawn") /\ Teardown
  /\ UNCHANGED <<now, script, daemon>>

\* peer::traffic of the volume; refused, lost or uncounted bytes are not noticed
SendVolume ==
  /\ pc = "stimulate" /\ now >= wake /\ Case \in Stats
  /\ \/ /\ Step("stimulate", "judge") /\ Sleep(StatsWait)
        /\ \E heard \in Noticed :
             /\ counters' = IF heard THEN [counters EXCEPT ![Case].bytes = @ + 1] ELSE counters
             /\ fresh' = IF heard THEN fresh \cup {Case} ELSE fresh
             /\ upset' = (upset \/ ~ heard)
        /\ UNCHANGED <<since, before, bound, flooded>>
     \/ GiveUp("spawn") /\ UNCHANGED <<counters, fresh>>
  /\ UNCHANGED <<now, script, procs, pending, rows, sampleAt, closeAt, cycle>>

\* query_events, query_reports: newer than the watermark
Visible == {r \in rows : r.due <= now /\ r.stamp > since}

Verdict(ok) == IF ok THEN "PASS" ELSE "FAIL"

\* The four monitor cases read the rows once; a failed query has none.  The
\* connection case kills its children whatever the query returned.
JudgeReports ==
  /\ pc = "judge" /\ now >= wake /\ Case \notin Stats
  /\ \/ /\ Conclude(Verdict(\E r \in Visible : r.kind = Case))
        /\ UNCHANGED <<since, before, bound, flooded, upset>>
     \/ GiveUp("query")
  /\ procs' = {}
  /\ UNCHANGED <<now, script, daemon>>

\* target::statistics after the traffic: both bytes and windows must have grown.
JudgeStatistics ==
  /\ pc = "judge" /\ now >= wake /\ Case \in Stats
  /\ \/ /\ Conclude(Verdict(/\ counters[Case].bytes > before[Case].bytes
                            /\ counters[Case].windows > before[Case].windows))
        /\ UNCHANGED <<since, before, bound, flooded, upset>>
     \/ GiveUp("query")
  /\ UNCHANGED <<now, script, procs, daemon>>

(***************************************************************************)
(* idps-fw (external) and time.                                              *)
(***************************************************************************)

\* The flood counts from the moment it is established until it is killed, its
\* hold time is over or the listener's life ends.
Held ==
  /\ procs = {"listener", "flood"} /\ flooded # Never
  /\ now \in flooded .. flooded + Hold - 1 /\ now < bound + ListenSecs

Sample ==
  /\ ~ Counting /\ now = sampleAt /\ sampleAt' = now + Cadence
  /\ \E heard \in Noticed :
       LET seen == {<<"conn-total", 0>>} \cup {<<"arp-spoof", c>> : c \in pending}
                     \cup (IF Held THEN {<<"conn-perip", cur>>} ELSE {})
       IN /\ \E one \in Stored("any", 0, now) :
               rows' = rows \cup {[one EXCEPT !.kind = s[1], !.of = s[2]] :
                                    s \in IF heard THEN seen ELSE {}}
          /\ upset' = (upset \/ ~ heard)
  /\ pending' = {}
  /\ UNCHANGED <<now, runner, counters, fresh, closeAt, cycle>>

\* Whether a window without traffic is counted is left open.
CloseWindow ==
  /\ Counting /\ now = closeAt /\ closeAt' = now + cycle
  /\ \E counted \in {fresh, Stats} :
       counters' = [k \in Stats |->
                      [counters[k] EXCEPT !.windows = @ + IF k \in counted THEN 1 ELSE 0]]
  /\ fresh' = {}
  /\ UNCHANGED <<now, runner, pending, rows, sampleAt, cycle, upset>>

\* Another traffic rule overtakes the one the bundle asked for.
CycleChanges ==
  /\ May("cycle") /\ Counting
  /\ cycle' = OtherCycle /\ closeAt' = now + OtherCycle /\ upset' = TRUE
  /\ UNCHANGED <<now, runner, pending, rows, counters, fresh, sampleAt>>

\* idps-fw restarts: counters and schedules begin anew, stored rows stay.
RestartFw ==
  /\ May("restart") /\ upset' = TRUE
  /\ counters' = Zero /\ fresh' = {} /\ pending' = {}
  /\ rows' = {r \in rows : r.due <= now}
  /\ sampleAt' = now + Cadence /\ closeAt' = now + cycle
  /\ UNCHANGED <<now, runner, cycle>>

\* idps-fw's next sample or end of a window; neither is ever late
NextDue == IF Counting THEN closeAt ELSE sampleAt

\* Time moves to the next moment at which somebody may act.
Tick ==
  /\ pc # "done" /\ now < wake + MaxDelay /\ now < NextDue
  /\ now' = Min({t \in {wake, wake + MaxDelay, NextDue} : t > now})
  /\ UNCHANGED <<runner, daemon, upset>>

Runner ==
  \/ Mark \/ Baseline \/ ProbeTimestamp \/ AwaitTotal \/ SpoofArp \/ SpawnListener
  \/ SpawnFlood \/ SendVolume \/ JudgeReports \/ JudgeStatistics

Next == Runner \/ Sample \/ CloseWindow \/ CycleChanges \/ RestartFw \/ Tick

Spec == Init /\ [][Next]_vars

-----------------------------------------------------------------------------
\* A PASS of a monitor case was earned by its own stimulus: idps-fw reported the
\* probe, the replies or the connections of this very case, not of an earlier
\* command whose rows are still in the database.
PassIsOwn ==
  \A c \in DOMAIN script :
    results[c] = "PASS" /\ script[c] \in {"icmp-timestamp", "conn-perip", "arp-spoof"} =>
      \E r \in rows : r.kind = script[c] /\ r.of = c

\* The fixed waits are long enough: while nothing fails and idps-fw keeps its
\* cadence, no case fails - whatever the phases of sampler and windows, the time
\* the flood needs and the delay of a row.
HealthyPasses == upset \/ \A c \in DOMAIN script : results[c] # "FAIL"

\* No case leaves a child behind, on none of its paths: not the listener when the
\* flood cannot be started, and not the flood, whose connections would be counted
\* by the next sample.
NothingLeftBehind == pc \in {"start", "done"} => procs = {}

=============================================================================
