---------------------------- MODULE CaseRun_proofs ----------------------------
(***************************************************************************)
(* A case's result is earned by its own traffic, for every script of cases,   *)
(* every firewall and every timing.  The argument is about time: where an     *)
(* event's time stamp lies between the watermarks of the cases.               *)
(***************************************************************************)
EXTENDS CaseRun, TLAPS

Event ==
  [of : Cases, kind : Kinds, src : Side \cup {"lost"},
   port : {Script[c].hit : c \in Cases}, at : Nat, stamp : Nat,
   state : {"raised", "stored", "sent"}]

\* Every event is of the running case or an earlier one and lies in the past; one
\* that idps-fw has not stored yet carries the time of its cause and is not late.
EventInv ==
  /\ events \in Seq(Event)
  /\ \A i \in DOMAIN events :
       /\ events[i].of <= cur /\ (events[i].of = cur => pc \in {"settle", "confirm"})
       /\ events[i].at <= events[i].stamp /\ events[i].stamp <= now
       /\ events[i].state = "raised" => now <= events[i].at + Latency

TInv == TypeOK /\ EventInv

\* The listeners that are up are the running case's own.
ListenInv ==
  listeners = IF pc \notin {"start", "done"} /\ Case.listen THEN {cur} ELSE {}

\* Own traffic comes after the watermark and is read only after the settle time; a
\* case that waits for a report has matched an event.
OwnInv ==
  /\ pc = "traffic" => since < wake
  /\ \A i \in Own(cur) : events[i].at > since
  /\ pc = "settle" => \A i \in Own(cur) : wake = events[i].at + Settle
  /\ pc = "confirm" => Case.kind # "none" /\ EventMatches(cur, events[matched])
  /\ \A c \in Cases : c >= cur => results[c] = "none"

\* When a case's traffic can be told from what earlier cases left: the stamps are
\* those of the causes, or every earlier case has waited for its events to be stored.
Attributable ==
  Stamps = {"raised"} \/ (Latency < Settle /\ ~ May("traffic"))

\* Everything an earlier case caused is stamped no later than the watermark, also
\* once it is stored.
WaterInv ==
  /\ pc \in {"traffic", "settle", "confirm"} =>
       \A i \in DOMAIN events : events[i].of < cur => events[i].stamp <= since
  /\ Stamps # {"raised"} =>
       \A i \in DOMAIN events : events[i].state = "raised" => events[i].of = cur /\ pc = "settle"

\* When a silent PASS can be trusted: every event is stored before it is looked
\* for, the look does not fail, and a case's one port is where its traffic goes.
Observable ==
  /\ Latency < Settle /\ ~ May("query") /\ "PolicyDeny" \notin Kinds
  /\ \A c \in Cases : Script[c].kind = "none" =>
       Script[c].port = Script[c].hit /\ Script[c].port # NoPort

\* An event has the source and the port of its case's traffic.
TupleInv ==
  \A i \in DOMAIN events :
    /\ events[i].port = Script[events[i].of].hit
    /\ events[i].kind # "PolicyDeny" => events[i].src = Script[events[i].of].origin

-----------------------------------------------------------------------------
USE ScriptAssumption, TickAssumption

\* Appending one sequence of events to another.
LEMMA ConcatFacts ==
  \A s, t \in Seq(Event) :
    /\ s \o t \in Seq(Event) /\ Len(s \o t) = Len(s) + Len(t)
    /\ \A i \in 1 .. Len(s) + Len(t) :
         (s \o t)[i] = IF i <= Len(s) THEN s[i] ELSE t[i - Len(s)]
OBVIOUS

\* Replacing one event of a sequence.
LEMMA ExceptFacts ==
  \A s \in Seq(Event) : \A i \in 1 .. Len(s), e \in Event :
    [s EXCEPT ![i] = e] \in Seq(Event)
OBVIOUS

\* The fields of an event.
LEMMA EventFields ==
  \A s \in Seq(Event) : \A i \in DOMAIN s :
    /\ s[i] \in Event /\ s[i].of \in Nat /\ s[i].of \in Cases
    /\ s[i].at \in Nat /\ s[i].stamp \in Nat
<1>1. \A e \in Event : e.of \in Nat /\ e.of \in Cases /\ e.at \in Nat /\ e.stamp \in Nat
  BY DEF Event, Cases
<1>2. \A s \in Seq(Event) : \A i \in DOMAIN s : s[i] \in Event
  OBVIOUS
<1> QED BY <1>1, <1>2

\* Own events are events of the running case, raised now.
LEMMA OwnEventFacts ==
  ASSUME cur \in Cases, now \in Nat
  PROVE \A e \in OwnEvents :
    /\ e \in Event /\ e.of = cur /\ e.at = now /\ e.stamp = now /\ e.state = "raised"
    /\ e.port = Script[cur].hit /\ e.src \in {Script[cur].origin, "lost"}
<1>1. Script[cur].origin \in Side
  BY DEF Cases
<1> QED
  BY <1>1 DEF OwnEvents, Event, Case

\* What any step does to the events: traffic appends events of the running case,
\* storing and reporting change state and time stamp of one, nothing else.
EventsStep ==
  /\ events' \in Seq(Event)
  /\ DOMAIN events \subseteq DOMAIN events'
  /\ \A i \in DOMAIN events :
       /\ events'[i].of = events[i].of /\ events'[i].at = events[i].at
       /\ events'[i].kind = events[i].kind /\ events'[i].src = events[i].src
       /\ events'[i].port = events[i].port
       /\ events[i].state = "sent" => events'[i].state = "sent"
       /\ events'[i].state = "raised" => events[i].state = "raised"
       /\ \/ events'[i].stamp = events[i].stamp
          \/ /\ events'[i].stamp = now /\ events[i].state = "raised"
             /\ "stored" \in Stamps /\ UNCHANGED <<now, pc, cur, wake, since>>
  /\ \A i \in DOMAIN events' \ DOMAIN events :
       /\ pc = "traffic" /\ now >= wake /\ events'[i] \in OwnEvents
       /\ events'[i].src = "lost" => events'[i].kind = "PolicyDeny"

\* Appending events of the running case is a step of the events.
LEMMA RaiseFacts ==
  ASSUME TInv, pc = "traffic", now >= wake, Raise PROVE EventsStep
<1>1. cur \in Cases /\ now \in Nat
  BY DEF TInv, TypeOK, Cases
<1>2. PICK n \in 0 .. MaxEvents :
        \E own \in [1 .. n -> {e \in OwnEvents : e.src = "lost" => e.kind = "PolicyDeny"}] :
          events' = events \o own
  BY DEF Raise
<1>3. PICK own \in [1 .. n -> {e \in OwnEvents : e.src = "lost" => e.kind = "PolicyDeny"}] :
        events' = events \o own
  BY <1>2
<1>4. \A k \in 1 .. n : /\ own[k] \in OwnEvents /\ own[k] \in Event
                        /\ own[k].src = "lost" => own[k].kind = "PolicyDeny"
  BY <1>1, <1>3, OwnEventFacts
<1>5. own \in Seq(Event) /\ Len(own) = n /\ n \in Nat
  BY <1>4
<1>6. events \in Seq(Event) /\ DOMAIN events = 1 .. Len(events) /\ Len(events) \in Nat
  BY DEF TInv, EventInv
<1>7. /\ events' \in Seq(Event) /\ DOMAIN events' = 1 .. Len(events) + n
      /\ \A i \in 1 .. Len(events) : events'[i] = events[i]
      /\ \A i \in Len(events) + 1 .. Len(events) + n : events'[i] = own[i - Len(events)]
  <2>1. /\ events' \in Seq(Event) /\ Len(events') = Len(events) + n
        /\ \A i \in 1 .. Len(events) + n :
             events'[i] = IF i <= Len(events) THEN events[i] ELSE own[i - Len(events)]
    <3>1. /\ events \o own \in Seq(Event) /\ Len(events \o own) = Len(events) + Len(own)
          /\ \A i \in 1 .. Len(events) + Len(own) :
               (events \o own)[i] = IF i <= Len(events) THEN events[i] ELSE own[i - Len(events)]
      BY <1>5, <1>6, ConcatFacts, Zenon
    <3>2. Len(own) = n
      BY <1>5
    <3> QED BY <3>1, <3>2, <1>3, Zenon
  <2> QED BY <2>1, <1>5, <1>6
<1>8. \A i \in DOMAIN events' \ DOMAIN events :
        i \in Len(events) + 1 .. Len(events) + n /\ i - Len(events) \in 1 .. n
  BY <1>5, <1>6, <1>7
<1>9. DOMAIN events \subseteq DOMAIN events'
  BY <1>5, <1>6, <1>7
<1> QED
  BY <1>4, <1>6, <1>7, <1>8, <1>9 DEF EventsStep

\* Storing or reporting one event is a step of the events.
LEMMA StoreFacts ==
  ASSUME TInv, NEW k \in DOMAIN events, Store(k) \/ Report(k) PROVE EventsStep
<1>1. events \in Seq(Event) /\ DOMAIN events = 1 .. Len(events) /\ now \in Nat
  BY DEF TInv, EventInv, TypeOK
<1>2. events[k] \in Event
  BY <1>1
<1>3. ASSUME NEW st \in Nat, NEW t \in {"stored", "sent"},
             events' = [events EXCEPT ![k].state = t, ![k].stamp = st],
             events[k].state # "sent",
             \/ st = events[k].stamp
             \/ /\ st = now /\ events[k].state = "raised" /\ "stored" \in Stamps
                /\ UNCHANGED <<now, pc, cur, wake, since>>
      PROVE EventsStep
  <2>1. /\ DOMAIN events' = DOMAIN events
        /\ \A i \in DOMAIN events : i # k => events'[i] = events[i]
        /\ events'[k] = [events[k] EXCEPT !.state = t, !.stamp = st]
    BY <1>1, <1>3
  <2>2. /\ events'[k] \in Event /\ events'[k].state = t /\ events'[k].stamp = st
        /\ events'[k].of = events[k].of /\ events'[k].at = events[k].at
        /\ events'[k].kind = events[k].kind /\ events'[k].src = events[k].src
        /\ events'[k].port = events[k].port
    BY <1>2, <2>1 DEF Event
  <2>3. events' \in Seq(Event)
    <3>1. events' = [events EXCEPT ![k] = events'[k]]
      BY <1>1, <1>3, <2>1
    <3>2. k \in 1 .. Len(events) /\ events'[k] \in Event /\ events \in Seq(Event)
      BY <1>1, <2>2
    <3>3. [events EXCEPT ![k] = events'[k]] \in Seq(Event)
      BY <3>2, ExceptFacts, Zenon
    <3> QED BY <3>1, <3>3, Zenon
  <2> QED
    BY <1>3, <2>1, <2>2, <2>3 DEF EventsStep
<1>4. CASE Store(k)
  <2>1. PICK s \in Stamps :
          events' = [events EXCEPT ![k].state = "stored",
                                   ![k].stamp = IF s = "raised" THEN @ ELSE now]
    BY <1>4 DEF Store
  <2>2. CASE s = "raised"
    <3>1. events' = [events EXCEPT ![k].state = "stored", ![k].stamp = events[k].stamp]
      BY <2>1, <2>2, <1>1, <1>2 DEF Event
    <3> QED BY <3>1, <1>2, <1>3, <1>4 DEF Event, Store
  <2>3. CASE s # "raised"
    <3>1. s = "stored" /\ events' = [events EXCEPT ![k].state = "stored", ![k].stamp = now]
      BY <2>1, <2>3
    <3> QED BY <3>1, <1>1, <1>3, <1>4 DEF Store
  <2> QED BY <2>2, <2>3
<1>5. CASE Report(k)
  <2>1. events' = [events EXCEPT ![k].state = "sent", ![k].stamp = events[k].stamp]
    BY <1>1, <1>2, <1>5 DEF Report, Event
  <2> QED BY <2>1, <1>2, <1>3, <1>5 DEF Event, Report
<1> QED BY <1>4, <1>5

\* Every step of the specification is a step of the events.
LEMMA EventsNext == TInv /\ [Next]_vars => EventsStep
<1> SUFFICES ASSUME TInv, [Next]_vars PROVE EventsStep
  OBVIOUS
<1>1. UNCHANGED events => EventsStep
  BY DEF EventsStep, TInv, EventInv
<1>2. CASE Traffic
  BY <1>2, RaiseFacts DEF Traffic
<1>3. CASE StoreAny \/ ReportAny
  BY <1>3, StoreFacts DEF StoreAny, ReportAny
<1>4. CASE StartCase \/ Mark \/ ReadEvents \/ Confirm \/ Tick \/ UNCHANGED vars
  BY <1>1, <1>4 DEF StartCase, Mark, ReadEvents, Confirm, Tick, vars
<1> QED BY <1>2, <1>3, <1>4 DEF Next, Runner

\* The initial state has its type.
LEMMA TInit == Init => TInv
BY DEF Init, TInv, TypeOK, EventInv, Cases

\* Recording a result and going on to the next case keeps the runner in range.
LEMMA ConcludeFacts ==
  ASSUME TypeOK, pc # "done", NEW st \in {"PASS", "FAIL", "SKIP"}, Conclude(st)
  PROVE /\ cur \in Cases /\ cur' = cur + 1 /\ cur' \in 1 .. Len(Script) + 1
        /\ pc' \in {"start", "done"} /\ (pc' = "done" <=> cur' \notin Cases)
        /\ wake' \in Nat /\ results' \in [Cases -> {"none", "PASS", "FAIL", "SKIP"}]
        /\ results'[cur] = st /\ \A c \in Cases : c # cur => results'[c] = results[c]
BY DEF TypeOK, Conclude, Cases

\* What judging the events does: it goes on to the report or ends the case.
LEMMA DecideFacts ==
  ASSUME TInv, pc = "settle", NEW seen \in Read, Decide(seen)
  PROVE \/ /\ matched' \in DOMAIN events /\ matched' # 0 /\ matched' \in seen
           /\ EventMatches(cur, events[matched']) /\ Case.kind # "none"
           /\ wake' = now + Deadline /\ pc' = "confirm"
           /\ UNCHANGED <<cur, listeners, results>>
        \/ /\ Case.kind # "none" /\ Finish("FAIL") /\ UNCHANGED matched
        \/ /\ Case.kind = "none" /\ UNCHANGED matched
           /\ Finish(Judge(\A i \in seen : ~ Violating(cur, events[i])))
<1>1. seen \subseteq DOMAIN events
  BY DEF Read, Visible
<1>2. 0 \notin DOMAIN events
  BY DEF TInv, EventInv
<1> QED
  BY <1>1, <1>2 DEF Decide, FirstMatch

\* A verdict is PASS or FAIL.
LEMMA JudgeFacts == \A b : Judge(b) \in {"PASS", "FAIL"}
BY DEF Judge

\* The runner's type invariant is kept.
LEMMA TypeNext == TInv /\ [Next]_vars => TypeOK'
<1> SUFFICES ASSUME TInv, [Next]_vars PROVE TypeOK'
  OBVIOUS
<1>1. DOMAIN events \subseteq DOMAIN events'
  BY EventsNext DEF EventsStep
<1>2. ASSUME NEW st \in {"PASS", "FAIL", "SKIP"}, Conclude(st), pc # "done",
             listeners' \subseteq Cases, UNCHANGED <<now, since, verdict, matched>>
      PROVE TypeOK'
  <2>1. TypeOK
    BY DEF TInv
  <2> QED BY <1>1, <1>2, <2>1, ConcludeFacts DEF TypeOK
<1>3. Finish("FAIL") \/ Finish("PASS") => listeners' \subseteq Cases
  BY DEF Finish, StopListeners, TInv, TypeOK
<1>4. CASE StartCase
  <2>1. CASE Conclude("SKIP") /\ UNCHANGED listeners
    BY <1>2, <1>4, <2>1 DEF StartCase, TInv, TypeOK
  <2>2. CASE pc' = "mark" /\ UNCHANGED <<cur, results>>
    <3>3. cur \in Cases /\ now \in Nat /\ listeners \subseteq Cases
      BY <1>4 DEF StartCase, TInv, TypeOK
    <3>1. listeners' \subseteq Cases /\ wake' \in Nat
      BY <1>4, <2>2, <3>3 DEF StartCase, StartListener, Conclude
    <3> QED BY <1>1, <1>4, <2>2, <3>1 DEF StartCase, TInv, TypeOK
  <2> QED BY <1>4, <2>1, <2>2 DEF StartCase
<1>5. CASE Mark
  BY <1>1, <1>5 DEF Mark, TInv, TypeOK
<1>6. CASE Traffic
  <2>1. CASE May("traffic") /\ Finish("FAIL") /\ UNCHANGED verdict
    BY <1>2, <1>3, <1>6, <2>1 DEF Traffic, Finish
  <2>2. CASE verdict' \in Verdicts /\ wake' = now + Settle /\ pc' = "settle"
             /\ UNCHANGED <<cur, listeners, results>>
    BY <1>1, <1>6, <2>2 DEF Traffic, TInv, TypeOK
  <2> QED BY <1>6, <2>1, <2>2 DEF Traffic
<1>7. CASE ReadEvents
  <2>1. PICK seen \in Read : Decide(seen)
    BY <1>7 DEF ReadEvents
  <2>2. CASE Finish("FAIL") /\ UNCHANGED matched
    BY <1>2, <1>3, <1>7, <2>2 DEF ReadEvents, Finish
  <2>3. CASE Finish("PASS") /\ UNCHANGED matched
    BY <1>2, <1>3, <1>7, <2>3 DEF ReadEvents, Finish
  <2>4. CASE /\ matched' \in DOMAIN events /\ matched' # 0
             /\ wake' = now + Deadline /\ pc' = "confirm"
             /\ UNCHANGED <<cur, listeners, results>>
    BY <1>1, <1>7, <2>4 DEF ReadEvents, TInv, TypeOK
  <2> QED BY <1>7, <2>1, <2>2, <2>3, <2>4, DecideFacts, JudgeFacts DEF ReadEvents
<1>8. CASE Confirm
  <2>1. Finish("FAIL") \/ Finish("PASS")
    BY <1>8, JudgeFacts DEF Confirm
  <2> QED BY <1>2, <1>3, <1>8, <2>1 DEF Confirm, Finish
<1>9. CASE StoreAny \/ ReportAny
  BY <1>1, <1>9 DEF StoreAny, ReportAny, Store, Report, TInv, TypeOK
<1>10. CASE Tick
  BY <1>1, <1>10 DEF Tick, TInv, TypeOK
<1>11. CASE UNCHANGED vars
  BY <1>11 DEF vars, TInv, TypeOK
<1> QED
  BY <1>4, <1>5, <1>6, <1>7, <1>8, <1>9, <1>10, <1>11 DEF Next, Runner

\* The course of a case: what any step does to the runner's place and its times.
RunnerStep ==
  \/ /\ pc \notin {"mark", "done"} /\ now' = now
     /\ cur' = cur + 1 /\ pc' \in {"start", "done"}
     /\ \A c \in Cases : c # cur => results'[c] = results[c]
     /\ pc = "traffic" \/ UNCHANGED events
  \/ /\ UNCHANGED <<now, cur, results>>
     /\ \/ pc = "start" /\ pc' = "mark" /\ UNCHANGED events
        \/ pc = "mark" /\ pc' = "traffic" /\ UNCHANGED events /\ since' = now /\ wake' = now + 1
        \/ pc = "traffic" /\ now >= wake /\ pc' = "settle" /\ wake' = now + Settle /\ UNCHANGED since
        \/ /\ pc = "settle" /\ now >= wake /\ pc' = "confirm" /\ UNCHANGED <<since, events>>
           /\ Case.kind # "none" /\ EventMatches(cur, events[matched'])
  \/ /\ UNCHANGED <<now, pc, cur, wake, since, matched, results>>
     /\ DOMAIN events' = DOMAIN events
  \/ Tick

\* Every step of the specification is one of these.
LEMMA RunnerNext == TInv /\ [Next]_vars => RunnerStep
<1> SUFFICES ASSUME TInv, [Next]_vars PROVE RunnerStep
  OBVIOUS
<1>1. ASSUME NEW st \in {"PASS", "FAIL", "SKIP"}, Conclude(st), pc \notin {"mark", "done"},
             now' = now, pc = "traffic" \/ UNCHANGED events
      PROVE RunnerStep
  <2>1. TypeOK
    BY DEF TInv
  <2> QED BY <1>1, <2>1, ConcludeFacts DEF RunnerStep
<1>2. CASE StartCase
  <2>1. Conclude("SKIP") => RunnerStep
    BY <1>1, <1>2 DEF StartCase
  <2> QED BY <1>2, <2>1 DEF StartCase, RunnerStep
<1>3. CASE Mark
  BY <1>3 DEF Mark, RunnerStep
<1>4. CASE Traffic
  <2>1. Finish("FAIL") => RunnerStep
    BY <1>1, <1>4 DEF Traffic, Finish
  <2> QED BY <1>4, <2>1 DEF Traffic, RunnerStep
<1>5. CASE ReadEvents
  <2>1. PICK seen \in Read : Decide(seen)
    BY <1>5 DEF ReadEvents
  <2>2. Finish("FAIL") \/ Finish("PASS") => RunnerStep
    BY <1>1, <1>5 DEF ReadEvents, Finish
  <2> QED BY <1>5, <2>1, <2>2, DecideFacts, JudgeFacts DEF ReadEvents, RunnerStep
<1>6. CASE Confirm
  <2>1. Finish("FAIL") \/ Finish("PASS")
    BY <1>6, JudgeFacts DEF Confirm
  <2> QED BY <1>1, <1>6, <2>1 DEF Confirm, Finish
<1>7. CASE StoreAny \/ ReportAny
  <2>1. /\ UNCHANGED <<now, pc, cur, wake, since, matched, results>>
        /\ DOMAIN events' = DOMAIN events
    BY <1>7 DEF StoreAny, ReportAny, Store, Report
  <2> QED BY <2>1 DEF RunnerStep
<1>8. CASE Tick
  BY <1>8 DEF RunnerStep
<1>9. CASE UNCHANGED vars
  BY <1>9 DEF vars, RunnerStep
<1> QED
  BY <1>2, <1>3, <1>4, <1>5, <1>6, <1>7, <1>8, <1>9 DEF Next, Runner

\* Events stay in the past of the running case.
LEMMA EventInvNext == TInv /\ [Next]_vars => EventInv'
<1> SUFFICES ASSUME TInv, [Next]_vars PROVE EventInv'
  OBVIOUS
<1>1. EventsStep /\ RunnerStep /\ TypeOK'
  BY EventsNext, RunnerNext, TypeNext
<1>2. /\ events \in Seq(Event) /\ cur \in Nat /\ now \in Nat /\ cur' \in Nat /\ now' \in Nat
      /\ events' \in Seq(Event)
      /\ \A i \in DOMAIN events : events[i].of \in Nat /\ events[i].at \in Nat /\ events[i].stamp \in Nat
  <2>1. events \in Seq(Event) /\ events' \in Seq(Event)
    BY <1>1 DEF TInv, EventInv, EventsStep
  <2>2. cur \in Nat /\ now \in Nat /\ cur' \in Nat /\ now' \in Nat
    BY <1>1 DEF TInv, TypeOK
  <2> QED BY <2>1, <2>2, EventFields
<1>3. ASSUME NEW i \in DOMAIN events'
      PROVE /\ events'[i].of <= cur' /\ (events'[i].of = cur' => pc' \in {"settle", "confirm"})
            /\ events'[i].at <= events'[i].stamp /\ events'[i].stamp <= now'
            /\ events'[i].state = "raised" => now' <= events'[i].at + Latency
  <2>1. CASE i \in DOMAIN events
    <3>1. /\ events[i].of <= cur /\ (events[i].of = cur => pc \in {"settle", "confirm"})
          /\ events[i].at <= events[i].stamp /\ events[i].stamp <= now
          /\ events[i].state = "raised" => now <= events[i].at + Latency
      BY <2>1 DEF TInv, EventInv
    <3>2. /\ events'[i].of = events[i].of /\ events'[i].at = events[i].at
          /\ events'[i].state = "raised" => events[i].state = "raised"
          /\ events'[i].stamp = events[i].stamp \/ events'[i].stamp = now
      BY <1>1, <2>1 DEF EventsStep
    <3>3. cur' = cur + 1 \/ (cur' = cur /\ (pc \in {"settle", "confirm"} => pc' \in {"settle", "confirm"}))
      BY <1>1 DEF RunnerStep, Tick
    <3>4. now' = now \/ (now' = now + 1 /\ (events[i].state = "raised" => now < events[i].at + Latency))
      BY <1>1, <2>1 DEF RunnerStep, Tick
    <3>5. events[i].of \in Nat /\ events[i].at \in Nat /\ events[i].stamp \in Nat
      BY <1>2, <2>1
    <3>6. events'[i].of <= cur' /\ (events'[i].of = cur' => pc' \in {"settle", "confirm"})
      BY <1>2, <3>1, <3>2, <3>3, <3>5
    <3>7. events'[i].at <= events'[i].stamp /\ events'[i].stamp <= now'
      <4>1. now <= now'
        BY <1>2, <3>4
      <4>2. events[i].at <= now
        BY <1>2, <3>1, <3>5
      <4> QED BY <1>2, <3>1, <3>2, <3>5, <4>1, <4>2
    <3>8. events'[i].state = "raised" => now' <= events'[i].at + Latency
      BY <1>2, <3>1, <3>2, <3>4, <3>5
    <3> QED BY <3>6, <3>7, <3>8
  <2>2. CASE i \notin DOMAIN events
    <3>1. /\ pc = "traffic" /\ events'[i].of = cur /\ events'[i].at = now /\ events'[i].stamp = now
          /\ UNCHANGED now
      <4>1. pc = "traffic" /\ events'[i] \in OwnEvents
        BY <1>1, <2>2 DEF EventsStep
      <4>2. now' = now
        BY <1>1, <2>2 DEF RunnerStep, Tick
      <4>3. cur \in Cases
        BY <4>1 DEF TInv, TypeOK
      <4> QED BY <1>2, <4>1, <4>2, <4>3, OwnEventFacts
    <3>2. cur' = cur + 1 \/ (cur' = cur /\ pc' = "settle")
      BY <1>1, <2>2, <3>1 DEF RunnerStep, Tick
    <3> QED BY <1>2, <3>1, <3>2
  <2> QED BY <2>1, <2>2
<1> QED
  BY <1>2, <1>3 DEF EventInv

\* The runner's types and the events' order hold throughout.
LEMMA TypeInv == Spec => []TInv
<1>1. TInv /\ [Next]_vars => TInv'
  BY TypeNext, EventInvNext DEF TInv
<1> QED
  BY TInit, <1>1, PTL DEF Spec

\* run_case keeps its cursor, clock and results in range for every script, and its
\* watermark never runs ahead of the clock.
THEOREM CaseTypeCorrect == Spec => []TypeOK
BY TypeInv, PTL DEF TInv

\* At the end of a case the listener is stopped, on every path.
LEMMA ListenNext == TInv /\ ListenInv /\ [Next]_vars => ListenInv'
<1> SUFFICES ASSUME TInv, ListenInv, [Next]_vars PROVE ListenInv'
  OBVIOUS
<1>1. \A st : Finish(st) /\ pc # "done" => listeners' = {} /\ pc' \in {"start", "done"}
  BY DEF Finish, Conclude, StopListeners, ListenInv
<1>2. CASE StartCase
  BY <1>2 DEF StartCase, StartListener, Conclude, ListenInv, Case
<1>3. CASE Traffic
  BY <1>1, <1>3 DEF Traffic, ListenInv, Case
<1>4. CASE ReadEvents
  <2>1. PICK seen \in Read : Decide(seen)
    BY <1>4 DEF ReadEvents
  <2> QED BY <1>1, <1>4, <2>1 DEF ReadEvents, Decide, ListenInv, Case
<1>5. CASE Confirm
  BY <1>1, <1>5 DEF Confirm, ListenInv
<1>6. CASE Mark \/ Tick
  BY <1>6 DEF Mark, Tick, ListenInv, Case
<1>7. CASE StoreAny \/ ReportAny
  BY <1>7 DEF StoreAny, ReportAny, Store, Report, ListenInv, Case
<1>8. CASE UNCHANGED vars
  BY <1>8 DEF vars, ListenInv, Case
<1> QED
  BY <1>2, <1>3, <1>4, <1>5, <1>6, <1>7, <1>8 DEF Next, Runner

\* When a case's traffic is sent exactly its own listener is up, whatever failed
\* before: run_case stops the listener on each of its ways out.
THEOREM OwnListenerOnly == Spec => OnlyOwnListener
<1>1. Init => ListenInv
  BY DEF Init, ListenInv
<1>2. ListenInv => [pc = "traffic" /\ pc' # pc
                      => listeners = IF Case.listen THEN {cur} ELSE {}]_vars
  BY DEF ListenInv
<1> QED
  BY <1>1, <1>2, ListenNext, TypeInv, PTL DEF Spec, OnlyOwnListener

\* Initially no case has traffic or a result.
LEMMA OwnInit == Init => OwnInv /\ TupleInv
BY DEF Init, OwnInv, TupleInv, Own

\* Events keep what event_matches looks at.
LEMMA MatchKept ==
  ASSUME EventsStep, NEW i \in DOMAIN events, NEW c
  PROVE EventMatches(c, events'[i]) <=> EventMatches(c, events[i])
BY DEF EventsStep, EventMatches

\* Own traffic stays behind the watermark and before the settle time.
LEMMA OwnNext == TInv /\ OwnInv /\ [Next]_vars => OwnInv'
<1> SUFFICES ASSUME TInv, OwnInv, [Next]_vars PROVE OwnInv'
  OBVIOUS
<1>1. EventsStep /\ RunnerStep /\ TypeOK /\ TypeOK' /\ EventInv /\ EventInv'
  BY EventsNext, RunnerNext, TypeNext, EventInvNext DEF TInv
<1>2. /\ cur \in Nat /\ now \in Nat /\ since \in Nat /\ wake \in Nat
      /\ cur' \in Nat /\ now' \in Nat /\ since' \in Nat
  BY <1>1 DEF TypeOK
<1>3. pc' = "traffic" => since' < wake'
  BY <1>1, <1>2 DEF RunnerStep, Tick, OwnInv
<1>4. ASSUME NEW i \in Own(cur)'
      PROVE /\ events'[i].at > since'
            /\ pc' = "settle" => wake' = events'[i].at + Settle
  <2>1. i \in DOMAIN events' /\ events'[i].of = cur' /\ pc' \in {"settle", "confirm"}
    BY <1>1, <1>4 DEF Own, EventInv
  <2>2. UNCHANGED <<cur, since>>
    BY <1>1, <2>1 DEF RunnerStep, Tick
  <2>3. CASE i \in DOMAIN events
    <3>1. events'[i].of = events[i].of /\ events'[i].at = events[i].at
      BY <1>1, <2>3 DEF EventsStep
    <3>2. i \in Own(cur) /\ pc \in {"settle", "confirm"}
      BY <1>1, <2>1, <2>2, <2>3, <3>1 DEF Own, EventInv
    <3>3. pc' = "settle" => pc = "settle" /\ UNCHANGED wake
      BY <1>1, <2>1, <3>2 DEF RunnerStep, Tick
    <3> QED BY <2>2, <3>1, <3>2, <3>3 DEF OwnInv
  <2>4. CASE i \notin DOMAIN events
    <3>1. pc = "traffic" /\ now >= wake /\ events'[i] \in OwnEvents
      BY <1>1, <2>1, <2>4 DEF EventsStep
    <3>2. cur \in Cases
      BY <1>1, <3>1 DEF TypeOK
    <3>3. events'[i].at = now
      BY <1>2, <3>1, <3>2, OwnEventFacts
    <3>4. since < wake
      BY <3>1 DEF OwnInv
    <3>5. pc' = "settle" /\ wake' = now + Settle
      BY <1>1, <2>1, <3>1 DEF RunnerStep, Tick
    <3> QED BY <1>2, <2>2, <3>1, <3>3, <3>4, <3>5
  <2> QED BY <2>3, <2>4
<1>5. ASSUME pc' = "confirm"
      PROVE Case'.kind # "none" /\ EventMatches(cur', events'[matched'])
  <2>1. CASE pc = "settle"
    BY <1>1, <1>5, <2>1 DEF RunnerStep, Tick, Case
  <2>2. CASE pc # "settle"
    <3>1. pc = "confirm" /\ UNCHANGED <<cur, matched>>
      BY <1>1, <1>5, <2>2 DEF RunnerStep, Tick
    <3>2. matched \in DOMAIN events
      BY <1>1, <3>1 DEF TypeOK
    <3> QED BY <1>1, <3>1, <3>2, MatchKept DEF OwnInv, Case
  <2> QED BY <2>1, <2>2
<1>6. ASSUME NEW c \in Cases, c >= cur' PROVE results'[c] = "none"
  <2>1. c \in Nat /\ c >= cur /\ results[c] = "none"
    BY <1>1, <1>2, <1>6 DEF RunnerStep, Tick, OwnInv, Cases
  <2> QED BY <1>1, <1>2, <1>6, <2>1 DEF RunnerStep, Tick
<1> QED
  BY <1>3, <1>4, <1>5, <1>6 DEF OwnInv

\* An event keeps the tuple of its case's traffic.
LEMMA TupleNext == TInv /\ TupleInv /\ [Next]_vars => TupleInv'
<1> SUFFICES ASSUME TInv, TupleInv, [Next]_vars, NEW i \in DOMAIN events'
             PROVE /\ events'[i].port = Script[events'[i].of].hit
                   /\ events'[i].kind # "PolicyDeny" =>
                        events'[i].src = Script[events'[i].of].origin
  BY DEF TupleInv
<1>1. EventsStep /\ TypeOK
  BY EventsNext DEF TInv
<1>2. CASE i \in DOMAIN events
  BY <1>1, <1>2 DEF EventsStep, TupleInv
<1>3. CASE i \notin DOMAIN events
  <2>1. /\ pc = "traffic" /\ events'[i] \in OwnEvents
        /\ events'[i].src = "lost" => events'[i].kind = "PolicyDeny"
    BY <1>1, <1>3 DEF EventsStep
  <2>2. cur \in Cases /\ now \in Nat
    BY <1>1, <2>1 DEF TypeOK
  <2> QED BY <2>1, <2>2, OwnEventFacts
<1> QED BY <1>2, <1>3

\* What earlier cases caused stays behind the watermark.
LEMMA WaterNext ==
  ASSUME Attributable PROVE TInv /\ OwnInv /\ WaterInv /\ [Next]_vars => WaterInv'
<1> SUFFICES ASSUME TInv, OwnInv, WaterInv, [Next]_vars PROVE WaterInv'
  OBVIOUS
<1>1. EventsStep /\ RunnerStep /\ TypeOK /\ EventInv /\ EventInv'
  BY EventsNext, RunnerNext, EventInvNext DEF TInv
<1>2. /\ cur \in Nat /\ now \in Nat /\ since \in Nat /\ wake \in Nat
      /\ \A i \in DOMAIN events : events[i].of \in Nat /\ events[i].at \in Nat /\ events[i].stamp \in Nat
  BY <1>1, EventFields DEF TypeOK, EventInv
<1>3. ASSUME pc' \in {"traffic", "settle", "confirm"},
             NEW i \in DOMAIN events', events'[i].of < cur'
      PROVE events'[i].stamp <= since'
  <2>1. cur' = cur
    BY <1>1, <1>3 DEF RunnerStep, Tick
  <2>2. i \in DOMAIN events
    <3>1. ASSUME i \notin DOMAIN events PROVE FALSE
      <4>1. pc = "traffic" /\ events'[i] \in OwnEvents
        BY <1>1, <3>1 DEF EventsStep
      <4>2. cur \in Cases
        BY <1>1, <4>1 DEF TypeOK
      <4> QED BY <1>2, <1>3, <2>1, <4>1, <4>2, OwnEventFacts
    <3> QED BY <3>1
  <2>3. events'[i].of = events[i].of
    BY <1>1, <2>2 DEF EventsStep
  <2>4. CASE pc = "mark"
    <3>1. UNCHANGED events /\ since' = now
      BY <1>1, <1>3, <2>1, <2>4 DEF RunnerStep, Tick
    <3> QED BY <1>1, <2>2, <3>1 DEF EventInv
  <2>5. CASE pc # "mark"
    <3>1. pc \in {"traffic", "settle", "confirm"} /\ UNCHANGED since
      BY <1>1, <1>3, <2>1, <2>5 DEF RunnerStep, Tick
    <3>2. events[i].stamp <= since
      BY <1>3, <2>1, <2>2, <2>3, <3>1 DEF WaterInv
    <3>3. events'[i].stamp = events[i].stamp
      <4>1. SUFFICES ASSUME events[i].state = "raised", "stored" \in Stamps PROVE FALSE
        BY <1>1, <2>2 DEF EventsStep
      <4>2. events[i].of = cur
        BY <2>2, <4>1 DEF WaterInv
      <4> QED BY <1>2, <1>3, <2>1, <2>2, <2>3, <4>2
    <3> QED BY <3>1, <3>2, <3>3
  <2> QED BY <2>4, <2>5
<1>4. ASSUME Stamps # {"raised"}, NEW i \in DOMAIN events', events'[i].state = "raised"
      PROVE events'[i].of = cur' /\ pc' = "settle"
  <2>1. Latency < Settle /\ ~ May("traffic")
    BY <1>4 DEF Attributable
  <2>2. CASE i \in DOMAIN events
    <3>1. /\ events[i].state = "raised" /\ events'[i].of = events[i].of
      BY <1>1, <1>4, <2>2 DEF EventsStep
    <3>2. /\ events[i].of = cur /\ pc = "settle"
      BY <1>4, <2>2, <3>1 DEF WaterInv
    <3>3. now <= events[i].at + Latency /\ wake = events[i].at + Settle
      BY <1>1, <2>2, <3>1, <3>2 DEF EventInv, OwnInv, Own
    <3>4. now < wake
      BY <1>2, <2>1, <2>2, <3>3
    <3>5. pc' = pc /\ cur' = cur
      <4>1. ~ ReadEvents /\ ~ StartCase /\ ~ Mark /\ ~ Traffic /\ ~ Confirm
        BY <1>2, <3>2, <3>4 DEF ReadEvents, StartCase, Mark, Traffic, Confirm
      <4> QED BY <4>1 DEF Next, Runner, StoreAny, ReportAny, Store, Report, Tick, vars
    <3> QED BY <3>1, <3>2, <3>5
  <2>3. CASE i \notin DOMAIN events
    <3>1. pc = "traffic" /\ events'[i] \in OwnEvents
      BY <1>1, <2>3 DEF EventsStep
    <3>2. cur \in Cases
      BY <1>1, <3>1 DEF TypeOK
    <3>3. events'[i].of = cur
      BY <1>2, <3>1, <3>2, OwnEventFacts
    <3>4. pc' = "settle" /\ cur' = cur
      <4>1. DOMAIN events' # DOMAIN events
        BY <1>4, <2>3
      <4>2. Traffic
        BY <3>1, <4>1 DEF Next, Runner, StartCase, Mark, ReadEvents, Confirm, StoreAny,
                          ReportAny, Store, Report, Tick, vars
      <4> QED BY <2>1, <4>2 DEF Traffic
    <3> QED BY <3>3, <3>4
  <2> QED BY <2>2, <2>3
<1> QED
  BY <1>3, <1>4 DEF WaterInv

\* How a case gets its result: only the running one, in one of four places.
LEMMA ResultFacts ==
  ASSUME TInv, [Next]_vars, NEW c \in Cases, results'[c] # results[c]
  PROVE /\ c = cur
        /\ \/ pc = "start" /\ results'[c] = "SKIP"
           \/ pc = "traffic" /\ results'[c] = "FAIL"
           \/ /\ pc = "settle" /\ now >= wake /\ UNCHANGED events
              /\ \/ Case.kind # "none" /\ results'[c] = "FAIL"
                 \/ /\ Case.kind = "none"
                    /\ \E seen \in Read :
                         results'[c] = Judge(\A i \in seen : ~ Violating(cur, events[i]))
           \/ /\ pc = "confirm" /\ UNCHANGED events
              /\ results'[c] = "FAIL" \/ \E seen \in Read : Sent(seen)
<1>1. ASSUME NEW st \in {"PASS", "FAIL", "SKIP"}, Conclude(st), pc # "done"
      PROVE c = cur /\ results'[c] = st
  <2>1. TypeOK
    BY DEF TInv
  <2> QED BY <1>1, <2>1, ConcludeFacts
<1>2. CASE StartCase
  BY <1>1, <1>2 DEF StartCase
<1>3. CASE Traffic
  BY <1>1, <1>3 DEF Traffic, Finish
<1>4. CASE ReadEvents
  <2>1. PICK seen \in Read : Decide(seen)
    BY <1>4 DEF ReadEvents
  <2>2. \A st \in {"PASS", "FAIL", "SKIP"} : Finish(st) => c = cur /\ results'[c] = st
    BY <1>1, <1>4 DEF ReadEvents, Finish
  <2>3. pc = "settle" /\ now >= wake /\ UNCHANGED events
    BY <1>4 DEF ReadEvents
  <2>4. CASE Case.kind # "none" /\ Finish("FAIL")
    BY <2>2, <2>3, <2>4
  <2>5. CASE Case.kind = "none" /\ Finish(Judge(\A i \in seen : ~ Violating(cur, events[i])))
    BY <2>2, <2>3, <2>5, JudgeFacts
  <2> QED BY <2>1, <2>3, <2>4, <2>5, DecideFacts
<1>5. CASE Confirm
  <2>1. PICK seen \in Read : \/ Sent(seen) /\ Finish(Judge(TRUE))
                             \/ ~ Sent(seen) /\ now >= wake /\ Finish("FAIL")
    BY <1>5 DEF Confirm
  <2>2. Judge(TRUE) \in {"PASS", "FAIL"}
    BY JudgeFacts
  <2> QED BY <1>1, <1>5, <2>1, <2>2 DEF Confirm, Finish
<1>6. UNCHANGED results => FALSE
  OBVIOUS
<1> QED
  BY <1>2, <1>3, <1>4, <1>5, <1>6
  DEF Next, Runner, Mark, StoreAny, ReportAny, Store, Report, Tick, vars

\* An event that a query after the watermark returns is the running case's own.
LEMMA VisibleIsOwn ==
  ASSUME TInv, WaterInv, pc \in {"settle", "confirm"}, NEW i \in Visible
  PROVE i \in Own(cur)
<1>1. i \in DOMAIN events /\ events[i].stamp > since /\ events[i].of <= cur
  BY DEF Visible, TInv, EventInv
<1>2. cur \in Nat /\ since \in Nat /\ events[i].of \in Nat /\ events[i].stamp \in Nat
  BY <1>1, EventFields DEF TInv, EventInv, TypeOK
<1>3. events[i].of < cur => events[i].stamp <= since
  BY <1>1 DEF WaterInv
<1> QED BY <1>1, <1>2, <1>3 DEF Own

\* The invariants behind the attribution of events hold throughout.
LEMMA AttributionInv ==
  ASSUME Attributable PROVE Spec => [](TInv /\ OwnInv /\ WaterInv)
<1>1. Init => TInv /\ OwnInv /\ WaterInv
  BY TInit, OwnInit DEF Init, WaterInv
<1>2. TInv /\ OwnInv /\ WaterInv /\ [Next]_vars => (TInv /\ OwnInv /\ WaterInv)'
  BY TypeNext, EventInvNext, OwnNext, WaterNext DEF TInv
<1> QED
  BY <1>1, <1>2, PTL DEF Spec

\* A PASS stays justified by the event that earned it.
LEMMA PassedNext ==
  TInv /\ OwnInv /\ WaterInv /\ PassedEventIsOwn /\ [Next]_vars => PassedEventIsOwn'
<1> SUFFICES ASSUME TInv, OwnInv, WaterInv, PassedEventIsOwn, [Next]_vars,
                    NEW c \in Cases, results'[c] = "PASS", Script[c].kind # "none"
             PROVE \E i \in Own(c)' : EventMatches(c, events'[i]) /\ events'[i].state = "sent"
  BY DEF PassedEventIsOwn
<1>1. EventsStep
  BY EventsNext
<1>2. ASSUME NEW i \in Own(c), EventMatches(c, events[i]), events[i].state = "sent"
      PROVE /\ i \in Own(c)' /\ EventMatches(c, events'[i]) /\ events'[i].state = "sent"
  <2>1. i \in DOMAIN events
    BY DEF Own
  <2> QED BY <1>1, <1>2, <2>1, MatchKept DEF EventsStep, Own
<1>3. CASE results[c] = "PASS"
  BY <1>2, <1>3 DEF PassedEventIsOwn
<1>4. CASE results[c] # "PASS"
  <2>1. c = cur /\ pc = "confirm" /\ \E seen \in Read : Sent(seen)
    BY <1>4, ResultFacts DEF Case
  <2>2. matched \in Visible /\ events[matched].state = "sent"
    BY <2>1 DEF Sent, Read
  <2>3. matched \in Own(cur) /\ EventMatches(cur, events[matched])
    BY <2>1, <2>2, VisibleIsOwn DEF OwnInv
  <2> QED BY <1>2, <2>1, <2>2, <2>3
<1> QED BY <1>3, <1>4

\* A PASS of a case that expects an event was earned by an event of its own traffic
\* that idps-fw has reported: for every script, firewall and schedule, and with any
\* failure of listeners and queries, if stamps are taken when an event is caused, or
\* if idps-fw stores within the settle time and no worker fails half way.
THEOREM PassesAreOwn ==
  ASSUME Attributable PROVE Spec => []PassedEventIsOwn
<1>1. Init => PassedEventIsOwn
  BY DEF Init, PassedEventIsOwn
<1> QED
  BY <1>1, PassedNext, AttributionInv, PTL DEF Spec

\* Under the same conditions a case that expects no event is never failed for what
\* an earlier case did.
THEOREM FailuresAreOwn ==
  ASSUME Attributable PROVE Spec => FailIsOwn
<1>1. ASSUME TInv, OwnInv, WaterInv, [Next]_vars, NEW c \in Cases, results[c] # results'[c],
             results'[c] = "FAIL", Script[c].kind = "none"
      PROVE pc = "traffic" \/ verdict # Script[c].enforce \/ Own(c) # {}
  <2>1. SUFFICES ASSUME pc # "traffic", verdict = Script[c].enforce PROVE Own(c) # {}
    OBVIOUS
  <2>2. c = cur /\ pc # "confirm"
    BY <1>1, ResultFacts DEF OwnInv, Case
  <2>3. /\ pc = "settle"
        /\ \E seen \in Read : results'[c] = Judge(\A i \in seen : ~ Violating(cur, events[i]))
    BY <1>1, <2>1, <2>2, ResultFacts DEF Case
  <2>4. PICK seen \in Read : results'[c] = Judge(\A i \in seen : ~ Violating(cur, events[i]))
    BY <2>3
  <2>5. PICK i \in seen : Violating(cur, events[i])
    BY <1>1, <2>1, <2>2, <2>4 DEF Judge, Case
  <2>6. i \in Visible
    BY <2>4, <2>5 DEF Read
  <2>7. i \in Own(cur)
    BY <1>1, <2>3, <2>6, VisibleIsOwn
  <2> QED BY <2>2, <2>7
<1>2. TInv /\ OwnInv /\ WaterInv /\ [Next]_vars =>
        [\A c \in Cases :
           results[c] # results'[c] /\ results'[c] = "FAIL" /\ Script[c].kind = "none"
             => pc = "traffic" \/ verdict # Script[c].enforce \/ Own(c) # {}]_vars
  BY <1>1
<1> QED
  BY <1>2, AttributionInv, PTL DEF Spec, FailIsOwn

\* A case that passed as silent stays without events.
LEMMA SilentNext ==
  ASSUME Observable
  PROVE TInv /\ OwnInv /\ TupleInv /\ SilentPassIsReal /\ [Next]_vars => SilentPassIsReal'
<1> SUFFICES ASSUME TInv, OwnInv, TupleInv, SilentPassIsReal, [Next]_vars,
                    NEW c \in Cases, results'[c] = "PASS", Script[c].kind = "none",
                    NEW i \in Own(c)'
             PROVE FALSE
  BY DEF SilentPassIsReal
<1>1. EventsStep /\ TypeOK /\ EventInv
  BY EventsNext DEF TInv
<1>2. i \in DOMAIN events' /\ events'[i].of = c
  BY DEF Own
<1>3. CASE results[c] = "PASS"
  <2>1. c # cur /\ Own(c) = {}
    <3>1. cur \in Nat /\ c \in Nat
      BY <1>1 DEF TypeOK, Cases
    <3> QED BY <1>3, <3>1 DEF OwnInv, SilentPassIsReal
  <2>2. i \notin DOMAIN events
    BY <1>1, <1>2, <2>1 DEF EventsStep, Own
  <2>3. pc = "traffic" /\ events'[i] \in OwnEvents
    BY <1>1, <1>2, <2>2 DEF EventsStep
  <2>4. cur \in Cases /\ now \in Nat
    BY <1>1, <2>3 DEF TypeOK
  <2> QED BY <1>2, <2>1, <2>3, <2>4, OwnEventFacts
<1>4. CASE results[c] # "PASS"
  <2>1. /\ c = cur /\ pc = "settle" /\ now >= wake /\ UNCHANGED events
        /\ \E seen \in Read : results'[c] = Judge(\A j \in seen : ~ Violating(cur, events[j]))
    BY <1>4, ResultFacts DEF OwnInv, Case
  <2>2. \A j \in Visible : ~ Violating(cur, events[j])
    BY <2>1 DEF Observable, Read, Judge
  <2>3. i \in DOMAIN events /\ i \in Own(cur) /\ events[i].of = cur
    BY <1>2, <2>1 DEF Own
  <2>4. /\ events[i].of \in Nat /\ events[i].at \in Nat /\ events[i].stamp \in Nat
        /\ events[i].kind \in Kinds /\ now \in Nat /\ since \in Nat /\ wake \in Nat
    <3>1. events[i] \in Event /\ events[i].of \in Nat /\ events[i].at \in Nat /\ events[i].stamp \in Nat
      BY <1>1, <2>3, EventFields DEF EventInv
    <3> QED BY <1>1, <3>1 DEF Event, TypeOK
  <2>5. events[i].state # "raised"
    <3>1. wake = events[i].at + Settle
      BY <2>1, <2>3 DEF OwnInv
    <3>2. events[i].state = "raised" => now <= events[i].at + Latency
      BY <1>1, <2>3 DEF EventInv
    <3> QED BY <2>1, <2>4, <3>1, <3>2 DEF Observable
  <2>6. events[i].stamp > since
    <3>1. events[i].at > since /\ events[i].at <= events[i].stamp
      BY <1>1, <2>3 DEF OwnInv, EventInv
    <3> QED BY <2>4, <3>1
  <2>7. i \in Visible
    BY <2>3, <2>5, <2>6 DEF Visible
  <2>8. Violating(cur, events[i])
    <3>1. events[i].kind # "PolicyDeny"
      BY <2>4 DEF Observable
    <3>2. events[i].port = Script[cur].hit /\ events[i].src = Script[cur].origin
      BY <2>3, <3>1 DEF TupleInv
    <3> QED BY <2>1, <3>2 DEF Violating, Observable
  <2> QED BY <2>2, <2>7, <2>8
<1> QED BY <1>3, <1>4

\* A PASS of a case that asserts no event means its traffic raised none - on exactly
\* the conditions the code relies on: idps-fw stores within the settle time, the one
\* query succeeds, the case names the port its traffic reaches, and no event loses
\* its tuple.  Failing listeners and workers and any choice of stamps do no harm.
THEOREM SilentPassesAreReal ==
  ASSUME Observable PROVE Spec => []SilentPassIsReal
<1>1. Init => TInv /\ OwnInv /\ TupleInv /\ SilentPassIsReal
  BY TInit, OwnInit DEF Init, SilentPassIsReal
<1>2. TInv /\ OwnInv /\ TupleInv /\ SilentPassIsReal /\ [Next]_vars
        => (TInv /\ OwnInv /\ TupleInv /\ SilentPassIsReal)'
  BY TypeNext, EventInvNext, OwnNext, TupleNext, SilentNext DEF TInv
<1> QED
  BY <1>1, <1>2, PTL DEF Spec

=============================================================================
