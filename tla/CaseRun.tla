------------------------------- MODULE CaseRun -------------------------------
(***************************************************************************)
(* Running firewall cases one after the other: run_case and its helpers in   *)
(* fw-verify/src/verify.rs, query_events in agent/events.rs.                 *)
(*                                                                         *)
(* idps-fw judges the traffic, raises events, stores them a little later and *)
(* reports them later still, all beside the runner.  The firewall under test *)
(* is arbitrary: it may enforce anything and raise any event.  What is       *)
(* checked is the runner's own claim, that a PASS was earned by the traffic  *)
(* of that very case.  Time is counted in ticks of the wall clock.           *)
(*                                                                         *)
(* Two branches of run_case cannot be taken and are left out: no case of the *)
(* catalog is marked `skip`, and now_ms never fails.                         *)
(***************************************************************************)
EXTENDS Naturals, Sequences

CONSTANTS
  Script,      \* the cases in the order they are run
  Verdicts,    \* what a traffic worker may observe
  Kinds,       \* event kind, action, proto and detail, as one value
  NoPort,      \* case_dport or match_dport is None
  Stamps,      \* when event_time_ms is taken: "raised" and/or "stored"
  Ready,       \* LISTEN_READY
  Settle,      \* event_settle
  Deadline,    \* the 8 s of confirm_local_sent
  Latency,     \* idps-fw stores an event at most this long after raising it
  MaxDelay,    \* bound: how late the runner may be for its next step
  MaxEvents,   \* bound: events the traffic of one case raises
  Faults       \* which local failures may happen

\* What the runner decides by, of an FwCase: origin, port (case_dport), enforce,
\* listen, and the expected event as kind ("none" for None) and eport (match_dport);
\* its rule_id only adds to the detail text.  hit is the port the traffic reaches.
Cases == 1 .. Len(Script)
Side == {"peer", "target"}

ASSUME ScriptAssumption ==
  /\ Len(Script) \in Nat \ {0}
  /\ \A c \in Cases :
       /\ Script[c].origin \in Side /\ Script[c].enforce \in Verdicts
       /\ Script[c].kind \in Kinds \cup {"none"} /\ Script[c].listen \in BOOLEAN
  /\ "none" \notin Kinds
ASSUME TickAssumption ==
  /\ Ready \in Nat /\ Settle \in Nat /\ Deadline \in Nat /\ Latency \in Nat
  /\ MaxDelay \in Nat /\ MaxEvents \in Nat
  /\ Stamps \subseteq {"raised", "stored"} /\ Stamps # {}
  /\ Faults \subseteq {"listen", "traffic", "query"}

VARIABLES
  now,       \* wall clock
  pc,
  cur,       \* the case being run
  wake,      \* the runner's next step is due: end of a sleep or of the deadline
  since,     \* the event watermark
  verdict,   \* the traffic worker's verdict
  matched,   \* index of the matched event
  listeners, \* cases with a live `agent listen`
  results,
  events     \* everything idps-fw raised: raised -> stored -> sent

vars == <<now, pc, cur, wake, since, verdict, matched, listeners, results, events>>

May(fault) == fault \in Faults
Case == Script[cur]

Init ==
  /\ now = 1 /\ pc = "start" /\ cur = 1 /\ wake = now /\ since = 0
  /\ verdict = "none" /\ matched = 0
  /\ listeners = {} /\ results = [c \in Cases |-> "none"] /\ events = <<>>

\* The result is recorded and the next case begins.
Conclude(status) ==
  /\ results' = [results EXCEPT ![cur] = status]
  /\ cur' = cur + 1 /\ wake' = now
  /\ pc' = IF cur < Len(Script) THEN "start" ELSE "done"

\* Mutant: the children are not killed.
FinishLeaving(status) == Conclude(status) /\ UNCHANGED listeners

\* Every `agent listen` on the side of the case's listener ends.
StopListeners == listeners' = IF Case.listen THEN {} ELSE listeners

\* finish: kill the children, stop the listeners.
Finish(status) == Conclude(status) /\ StopListeners

StartListener == listeners' = listeners \cup {cur}

\* A listener that cannot be spawned is a SKIP, without finish.
StartCase ==
  /\ pc = "start"
  /\ \/ /\ Case.listen
        /\ StartListener /\ wake' = now + Ready
        /\ pc' = "mark" /\ UNCHANGED <<cur, results>>
     \/ /\ ~ Case.listen
        /\ pc' = "mark" /\ wake' = now /\ UNCHANGED <<cur, results, listeners>>
     \/ /\ Case.listen /\ May("listen")
        /\ Conclude("SKIP") /\ UNCHANGED listeners
  /\ UNCHANGED <<now, since, verdict, matched, events>>

\* Mutant: no watermark, every stored event counts.
MarkZero ==
  /\ pc = "mark" /\ now >= wake
  /\ since' = 0 /\ pc' = "traffic" /\ wake' = now + 1
  /\ UNCHANGED <<now, cur, verdict, matched, listeners, results, events>>

\* Mutant: the watermark is rounded up.
MarkAhead ==
  /\ pc = "mark" /\ now >= wake
  /\ since' = now + 1 /\ pc' = "traffic" /\ wake' = now + 1
  /\ UNCHANGED <<now, cur, verdict, matched, listeners, results, events>>

\* now_ms; spawning the traffic worker then takes at least a tick.
Mark ==
  /\ pc = "mark" /\ now >= wake
  /\ since' = now /\ pc' = "traffic" /\ wake' = now + 1
  /\ UNCHANGED <<now, cur, verdict, matched, listeners, results, events>>

\* Events of the running case's own traffic.  PolicyDeny may lose its tuple.
OwnEvents ==
  {[of |-> cur, kind |-> k, src |-> s, port |-> Case.hit,
    at |-> now, stamp |-> now, state |-> "raised"] :
      k \in Kinds, s \in {Case.origin, "lost"}}

\* idps-fw raises any of them, or none.
Raise ==
  \E n \in 0 .. MaxEvents :
    \E own \in [1 .. n -> {e \in OwnEvents : e.src = "lost" => e.kind = "PolicyDeny"}] :
      events' = events \o own

\* A worker that fails may have sent some of its traffic already.
Traffic ==
  /\ pc = "traffic" /\ now >= wake /\ Raise
  /\ \/ /\ verdict' \in Verdicts
        /\ wake' = now + Settle /\ pc' = "settle"
        /\ UNCHANGED <<cur, listeners, results>>
     \/ May("traffic") /\ Finish("FAIL") /\ UNCHANGED verdict
  /\ UNCHANGED <<now, since, matched>>

\* query_events: the stored rows with event_time_ms > since
Visible ==
  {i \in DOMAIN events : events[i].state # "raised" /\ events[i].stamp > since}

\* A failed query counts as one without rows.
Read == {Visible} \cup (IF May("query") THEN {{}} ELSE {})

\* event_matches
EventMatches(c, e) ==
  /\ e.kind = Script[c].kind
  /\ e.kind = "PolicyDeny" \/ e.src = Script[c].origin
  /\ Script[c].eport = NoPort \/ e.port = Script[c].eport

\* An event that contradicts "no event": same source, and the case's one port.
Violating(c, e) ==
  /\ e.src = Script[c].origin
  /\ Script[c].port # NoPort /\ e.port = Script[c].port

\* ORDER BY event_time_ms, then `find`: the first match
FirstMatch(seen) ==
  LET hits == {i \in seen : EventMatches(cur, events[i])} IN
    {i \in hits : \A j \in hits : events[i].stamp <= events[j].stamp}

Judge(eventOk) == IF verdict = Case.enforce /\ eventOk THEN "PASS" ELSE "FAIL"

\* The events decide; only a matched one goes on to its report.
Decide(seen) ==
  \/ /\ Case.kind # "none" /\ FirstMatch(seen) # {}
     /\ matched' \in FirstMatch(seen)
     /\ wake' = now + Deadline /\ pc' = "confirm"
     /\ UNCHANGED <<cur, listeners, results>>
  \/ /\ Case.kind # "none" /\ FirstMatch(seen) = {}
     /\ Finish("FAIL") /\ UNCHANGED matched
  \/ /\ Case.kind = "none"
     /\ Finish(Judge(\A i \in seen : ~ Violating(cur, events[i])))
     /\ UNCHANGED matched

\* Mutant: events are read right after the traffic.
ReadEventsAtOnce ==
  /\ pc = "settle" /\ \E seen \in Read : Decide(seen)
  /\ UNCHANGED <<now, since, verdict, events>>

ReadEvents ==
  /\ pc = "settle" /\ now >= wake /\ \E seen \in Read : Decide(seen)
  /\ UNCHANGED <<now, since, verdict, events>>

\* report_state = 'sent' of the matched event, in some query after the watermark
Sent(seen) == matched \in seen /\ events[matched].state = "sent"

\* Mutant: a report that never arrives does not gate the result.
ConfirmAnyway ==
  /\ pc = "confirm" /\ Finish(Judge(TRUE))
  /\ UNCHANGED <<now, since, verdict, matched, events>>

\* Mutant: no deadline.
ConfirmForever ==
  /\ pc = "confirm"
  /\ \E seen \in Read : Sent(seen) /\ Finish(Judge(TRUE))
  /\ UNCHANGED <<now, since, verdict, matched, events>>

\* confirm_local_sent looks first and at its deadline second, so a late report is
\* still taken by the last look.
Confirm ==
  /\ pc = "confirm"
  /\ \E seen \in Read :
       \/ Sent(seen) /\ Finish(Judge(TRUE))
       \/ ~ Sent(seen) /\ now >= wake /\ Finish("FAIL")
  /\ UNCHANGED <<now, since, verdict, matched, events>>

(***************************************************************************)
(* idps-fw (external) and time.                                              *)
(***************************************************************************)
Store(i) ==
  /\ events[i].state = "raised"
  /\ \E s \in Stamps :
       events' = [events EXCEPT ![i].state = "stored",
                                ![i].stamp = IF s = "raised" THEN @ ELSE now]
  /\ UNCHANGED <<now, pc, cur, wake, since, verdict, matched, listeners, results>>

Report(i) ==
  /\ events[i].state = "stored"
  /\ events' = [events EXCEPT ![i].state = "sent"]
  /\ UNCHANGED <<now, pc, cur, wake, since, verdict, matched, listeners, results>>

\* Time passes, but not beyond the moment a raised event must be stored.
Tick ==
  /\ pc # "done" /\ now < wake + MaxDelay
  /\ \A i \in DOMAIN events : events[i].state = "raised" => now < events[i].at + Latency
  /\ now' = now + 1
  /\ UNCHANGED <<pc, cur, wake, since, verdict, matched, listeners, results, events>>

Runner == StartCase \/ Mark \/ Traffic \/ ReadEvents \/ Confirm
StoreAny == \E i \in DOMAIN events : Store(i)
ReportAny == \E i \in DOMAIN events : Report(i)

Next == Runner \/ StoreAny \/ ReportAny \/ Tick

Spec == Init /\ [][Next]_vars

\* The runner's process keeps running, time passes and idps-fw keeps its latency;
\* no report need ever be sent.
FairSpec == Spec /\ WF_vars(Runner) /\ WF_vars(Tick) /\ WF_vars(StoreAny)

-----------------------------------------------------------------------------
\* The runner's cursor, clock and results stay in range; the watermark is never
\* ahead of the clock.
TypeOK ==
  /\ now \in Nat /\ wake \in Nat /\ since \in 0 .. now
  /\ pc \in {"start", "mark", "traffic", "settle", "confirm", "done"}
  /\ cur \in 1 .. Len(Script) + 1 /\ (pc = "done" <=> cur \notin Cases)
  /\ verdict \in Verdicts \cup {"none"}
  /\ matched \in {0} \cup DOMAIN events /\ (pc = "confirm" => matched # 0)
  /\ listeners \subseteq Cases
  /\ results \in [Cases -> {"none", "PASS", "FAIL", "SKIP"}]

Own(c) == {i \in DOMAIN events : events[i].of = c}

\* A PASS of a case that expects an event was earned by that case: its own traffic
\* raised a matching event, and idps-fw has reported it - never an event an
\* earlier case left in the database or that arrived late.
PassedEventIsOwn ==
  \A c \in Cases : results[c] = "PASS" /\ Script[c].kind # "none" =>
    \E i \in Own(c) : EventMatches(c, events[i]) /\ events[i].state = "sent"

\* A PASS of a case that "asserts no event" means its traffic raised none.
SilentPassIsReal ==
  \A c \in Cases : results[c] = "PASS" /\ Script[c].kind = "none" => Own(c) = {}

\* A case that expects no event is not failed for what an earlier case did: its
\* worker failed, its own traffic was judged otherwise, or it raised an event.
FailIsOwn ==
  [][\A c \in Cases :
       results[c] # results'[c] /\ results'[c] = "FAIL" /\ Script[c].kind = "none"
         => pc = "traffic" \/ verdict # Script[c].enforce \/ Own(c) # {}]_vars

\* Traffic is sent while exactly the case's own listener is up: one left over from
\* an earlier case would answer traffic that must find a closed port.
OnlyOwnListener ==
  [][pc = "traffic" /\ pc' # pc => listeners = IF Case.listen THEN {cur} ELSE {}]_vars

\* Every case gets its result, even if idps-fw never reports an event.
AllJudged == <>(pc = "done" /\ \A c \in Cases : results[c] # "none")

=============================================================================
