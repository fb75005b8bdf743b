---------------------------- MODULE Session_proofs ----------------------------
(***************************************************************************)
(* A session only makes the calls of module Provision, so what is proved      *)
(* there holds here; together with the runner's own order of steps it gives   *)
(* that cases run under the rules of their bundle, for every plan.            *)
(***************************************************************************)
EXTENDS Session, Delivery_proofs, FiniteSetTheorems

\* Where the runner is in its plan.
PlaceInv ==
  /\ step \in Nat \ {0} /\ busy \in BOOLEAN
  /\ stage \in {"reset", "manual", "policy", "firewall", "cycle", "cases", "end"}
  /\ stage = "reset" => step \in Steps /\ Step.kind = "reset"
  /\ stage = "manual" => step \in Steps /\ Step.kind = "manual"
  /\ stage = "policy" => step \in Steps /\ Step.kind = "policy"
  /\ stage \in {"firewall", "cycle", "cases"} => step \in Steps /\ Step.kind = "bundle"
  /\ stage = "cycle" => Step.cycle # Nil

\* The call under way is the one the stage made, and it carries the step's text.
CallInv ==
  /\ pc # "idle" => busy
  /\ busy => stage \in Op /\ op = stage
  /\ busy /\ stage = "firewall" => want = Step.text
  /\ pc \in {"wait", "late"} => goal[F].text = want

\* A granted bundle stays the last firewall rule written until its cases are done.
BundleInv ==
  /\ stage = "firewall" /\ busy /\ granted["fw"] => goal["fw"].text = Step.text
  /\ stage \in {"cycle", "cases"} => granted["fw"] /\ goal["fw"].text = Step.text

SInv == PlaceInv /\ CallInv /\ BundleInv

-----------------------------------------------------------------------------
USE PlanAssumption

\* What PlanAssumption says of one step.
LEMMA StepFacts ==
  \A s \in Steps :
    /\ s \in Nat \ {0}
    /\ Plan[s].kind \in {"reset", "manual", "policy", "bundle"}
    /\ Plan[s].kind = "manual" => Plan[s].text \in Texts
    /\ Plan[s].kind = "policy" => Plan[s].cycle \in Cycles
    /\ Plan[s].kind = "bundle" => Plan[s].text \in Texts /\ Plan[s].cycle \in Cycles \cup {Nil}
BY DEF Steps

\* The entry stage of the next step is a stage of that step.
LEMMA EntryFacts ==
  \A s \in Nat \ {0} :
    /\ Entry(s) \in {"reset", "manual", "policy", "firewall", "end"}
    /\ Entry(s) = "reset" => s \in Steps /\ Plan[s].kind = "reset"
    /\ Entry(s) = "manual" => s \in Steps /\ Plan[s].kind = "manual"
    /\ Entry(s) = "policy" => s \in Steps /\ Plan[s].kind = "policy"
    /\ Entry(s) = "firewall" => s \in Steps /\ Plan[s].kind = "bundle"
BY StepFacts DEF Entry, Steps

\* A fault-free call is a call.
LEMMA CallingIsOrchestrator == Calling => Orchestrator /\ UNCHANGED session
BY DEF Calling, FaultFree, Orchestrator

\* Every step of a session is a step of module Provision, or none.
LEMMA SessionStep == PlaceInv /\ [SNext]_svars => [Next]_vars
<1> SUFFICES ASSUME PlaceInv, [SNext]_svars PROVE [Next]_vars
  OBVIOUS
<1>1. CASE WritePolicy
  <2>1. Step.cycle \in PayloadOf("policy") /\ "policy" \in Op
    BY <1>1, StepFacts DEF WritePolicy, PlaceInv, Step, PayloadOf, Op
  <2> QED BY <1>1, <2>1 DEF WritePolicy, Issue, Next
<1>2. CASE IssueFirewall
  <2>1. Step.text \in PayloadOf("firewall") /\ "firewall" \in Op
    BY <1>2, StepFacts DEF IssueFirewall, PlaceInv, Step, PayloadOf, Op
  <2> QED BY <1>2, <2>1 DEF IssueFirewall, Issue, Next
<1>3. CASE IssueCycle
  <2>1. Step.cycle \in PayloadOf("cycle") /\ "cycle" \in Op
    BY <1>3, StepFacts DEF IssueCycle, PlaceInv, Step, PayloadOf, Op
  <2> QED BY <1>3, <2>1 DEF IssueCycle, Issue, Next
<1>4. CASE PolicyReturns \/ BundleReturns \/ BundleFails
  BY <1>4 DEF PolicyReturns, BundleReturns, BundleFails, Returned
<1>5. CASE RunCase \/ BundleDone
  BY <1>5 DEF RunCase, BundleDone
<1>6. CASE Calling
  BY <1>6, CallingIsOrchestrator DEF Next
<1>7. CASE Daemons
  BY <1>7 DEF Daemons, Next
<1>8. CASE UNCHANGED svars
  BY <1>8 DEF svars
<1>9. CASE Reset
  BY <1>9 DEF Reset, Next
<1>10. CASE Manual
  <2>1. Step.text \in PayloadOf("firewall") /\ FunOf("firewall") = "fw"
    BY <1>10, StepFacts DEF Manual, PlaceInv, Step, PayloadOf, FunOf
  <2> QED BY <1>10, <2>1 DEF Manual, Next
<1> QED
  BY <1>1, <1>2, <1>3, <1>4, <1>5, <1>6, <1>7, <1>8, <1>9, <1>10 DEF SNext, Runner

\* The first step is entered with nothing under way.
LEMMA SInvInit == SInit => SInv
<1> SUFFICES ASSUME SInit PROVE SInv
  OBVIOUS
<1>1. pc = "idle" /\ step = 1 /\ stage = Entry(1) /\ busy = FALSE
  BY DEF SInit, Init
<1>2. /\ stage \in {"reset", "manual", "policy", "firewall", "end"} /\ step \in Nat \ {0}
      /\ stage = "reset" => step \in Steps /\ Plan[step].kind = "reset"
      /\ stage = "manual" => step \in Steps /\ Plan[step].kind = "manual"
      /\ stage = "policy" => step \in Steps /\ Plan[step].kind = "policy"
      /\ stage = "firewall" => step \in Steps /\ Plan[step].kind = "bundle"
  BY <1>1, EntryFacts
<1> QED
  BY <1>1, <1>2 DEF SInv, PlaceInv, CallInv, BundleInv, Step

\* Going on to the next step: the new stage's conditions hold of the new step.
LEMMA NextStepPlace ==
  ASSUME PlaceInv, NextStep, busy' \in BOOLEAN
  PROVE PlaceInv' /\ stage' \in {"reset", "manual", "policy", "firewall", "end"}
<1>1. step + 1 \in Nat \ {0}
  BY DEF PlaceInv
<1> QED
  BY <1>1, EntryFacts DEF PlaceInv, NextStep, Step

\* The runner's invariant is kept by every step of a session.
LEMMA SInvNext == TypeOK /\ SInv /\ [SNext]_svars => SInv'
<1> SUFFICES ASSUME TypeOK, SInv, [SNext]_svars PROVE SInv'
  OBVIOUS
<1> USE DEF SInv
<1>1. ASSUME NEW o \in Op, NEW x, Issue(o, x), stage = o,
             o = "firewall" => x = Step.text
      PROVE SInv'
  <2>1. /\ pc' \in {"read", "put"} /\ op' = o /\ want' = x
        /\ granted' = [granted EXCEPT ![FunOf(o)] = FALSE]
        /\ UNCHANGED goal
        /\ busy' = TRUE /\ UNCHANGED <<step, stage>>
    BY <1>1 DEF Issue, Call
  <2>2. PlaceInv'
    BY <2>1 DEF PlaceInv, Step
  <2>3. CallInv'
    BY <2>1, <1>1 DEF CallInv, Step
  <2>4. BundleInv'
    BY <2>1, <1>1 DEF BundleInv, Step, FunOf, Op, TypeOK, Fun
  <2> QED BY <2>2, <2>3, <2>4
<1>2. CASE WritePolicy
  BY <1>2, <1>1 DEF WritePolicy, Op
<1>3. CASE IssueFirewall
  BY <1>3, <1>1 DEF IssueFirewall, Op
<1>4. CASE IssueCycle
  BY <1>4, <1>1 DEF IssueCycle, Op
<1>5. CASE PolicyReturns \/ BundleFails
  <2>1. /\ pc = "idle" /\ busy' = FALSE /\ NextStep /\ UNCHANGED vars
    BY <1>5 DEF PolicyReturns, BundleFails, Returned
  <2>2. PlaceInv' /\ stage' \in {"reset", "manual", "policy", "firewall", "end"}
    BY <2>1, NextStepPlace
  <2>3. CallInv' /\ BundleInv'
    BY <2>1, <2>2 DEF CallInv, BundleInv, vars
  <2> QED BY <2>2, <2>3
<1>6. CASE BundleReturns
  <2>1. /\ pc = "idle" /\ busy /\ busy' = FALSE /\ UNCHANGED vars /\ UNCHANGED step
        /\ stage \in {"firewall", "cycle"} /\ granted[F]
        /\ stage' = IF stage = "firewall" /\ Step.cycle # Nil THEN "cycle" ELSE "cases"
    BY <1>6 DEF BundleReturns, Returned, Answer
  <2>2. PlaceInv'
    BY <2>1 DEF PlaceInv, Step
  <2>3. CallInv'
    BY <2>1 DEF CallInv, vars
  <2>4. granted["fw"] /\ goal["fw"].text = Step.text
    BY <2>1 DEF BundleInv, CallInv, F, FunOf
  <2>5. BundleInv'
    BY <2>1, <2>4 DEF BundleInv, Step, vars
  <2> QED BY <2>2, <2>3, <2>5
<1>7. CASE RunCase
  BY <1>7 DEF RunCase, PlaceInv, CallInv, BundleInv, vars, Step, F
<1>8. CASE BundleDone
  <2>1. /\ ~ busy /\ UNCHANGED busy /\ NextStep /\ UNCHANGED vars
    BY <1>8 DEF BundleDone, CallInv, Op
  <2>2. PlaceInv' /\ stage' \in {"reset", "manual", "policy", "firewall", "end"}
    BY <2>1, NextStepPlace DEF PlaceInv
  <2>3. CallInv' /\ BundleInv'
    BY <2>1, <2>2 DEF CallInv, BundleInv, vars
  <2> QED BY <2>2, <2>3
<1>9. CASE Calling
  <2>1. Orchestrator /\ UNCHANGED session
    BY <1>9, CallingIsOrchestrator
  <2>2. /\ pc # "idle" /\ UNCHANGED <<op, want>> /\ UNCHANGED <<step, stage, busy>>
    BY <2>1 DEF Orchestrator, session, ReadBefore, WriteDepot, PutRule, WriteFails,
                PollOk, PollMiss, Expire, SleepPoll
  <2>3. busy /\ stage \in Op /\ op = stage
    BY <2>2 DEF CallInv
  <2>4. PlaceInv'
    BY <2>2 DEF PlaceInv, Step
  <2>5. CASE WriteDepot \/ PutRule
    <3>1. /\ goal'[F].text = want /\ F \in Fun
          /\ \A f \in Fun : f # F => goal'[f] = goal[f]
          /\ UNCHANGED granted
      <4>1. PICK rule : /\ rule.text = want /\ goal' = [goal EXCEPT ![F] = rule]
                        /\ UNCHANGED granted
        BY <2>5 DEF WriteDepot, PutRule, Publish
      <4>2. F \in Fun /\ goal \in [Fun -> Rule]
        BY <2>3 DEF F, FunOf, Fun, TypeOK
      <4> QED BY <4>1, <4>2
    <3>2. CallInv'
      BY <3>1, <2>2, <2>3 DEF CallInv, F, Step
    <3>3. BundleInv'
      BY <3>1, <2>2, <2>3 DEF CallInv, BundleInv, F, FunOf, Fun, Step, Op
    <3> QED BY <2>4, <3>2, <3>3
  <2>6. CASE PollOk
    <3>1. /\ pc = "wait" /\ pc' = "idle" /\ UNCHANGED goal
          /\ granted' = [granted EXCEPT ![F] = TRUE]
      BY <2>6 DEF PollOk
    <3>2. goal[F].text = want
      BY <3>1 DEF CallInv
    <3>3. CallInv'
      BY <3>1, <2>2, <2>3 DEF CallInv, Step
    <3>4. BundleInv'
      BY <3>1, <3>2, <2>2, <2>3 DEF CallInv, BundleInv, F, FunOf, Fun, Step, Op, TypeOK
    <3> QED BY <2>4, <3>3, <3>4
  <2>7. CASE ReadBefore \/ WriteFails \/ PollMiss \/ Expire \/ SleepPoll
    <3>1. /\ UNCHANGED <<goal, granted>>
          /\ pc' \in {"wait", "late"} => pc \in {"wait", "late"}
      BY <2>7 DEF ReadBefore, WriteFails, PollMiss, Expire, SleepPoll, ghosts
    <3> QED
      BY <3>1, <2>2, <2>3, <2>4 DEF CallInv, BundleInv, F, Step
  <2> QED BY <2>1, <2>5, <2>6, <2>7 DEF Orchestrator
<1>10. CASE Daemons
  <2>1. UNCHANGED <<pc, op, want, goal, granted>> /\ UNCHANGED <<step, stage, busy>>
    BY <1>10 DEF Daemons, CloudSync, Fetch, Apply, Restart, caller, ghosts, session
  <2> QED BY <2>1 DEF PlaceInv, CallInv, BundleInv, F, Step
<1>11. CASE UNCHANGED svars
  BY <1>11 DEF svars, vars, session, PlaceInv, CallInv, BundleInv, F, Step
<1>12. CASE Reset \/ Manual
  <2>1. /\ pc = "idle" /\ pc' = "idle" /\ ~ busy /\ UNCHANGED busy /\ NextStep
    BY <1>12 DEF Reset, Manual, ResetRules, ResetFails, ProvisionRule, CallInv, Op
  <2>2. PlaceInv' /\ stage' \in {"reset", "manual", "policy", "firewall", "end"}
    BY <2>1, NextStepPlace DEF PlaceInv
  <2>3. CallInv' /\ BundleInv'
    BY <2>1, <2>2 DEF CallInv, BundleInv
  <2> QED BY <2>2, <2>3
<1> QED
  BY <1>2, <1>3, <1>4, <1>5, <1>6, <1>7, <1>8, <1>9, <1>10, <1>11, <1>12
  DEF SNext, Runner

\* The invariant holds throughout a session.
LEMMA SessionInv == SSpec => [](TypeOK /\ SInv)
<1>1. SInit => TypeOK /\ SInv
  BY SInvInit, TypeInit DEF SInit
<1>2. TypeOK /\ SInv /\ [SNext]_svars => (TypeOK /\ SInv)'
  BY SInvNext, SessionStep, TypeNext DEF SInv
<1> QED
  BY <1>1, <1>2, PTL DEF SSpec

\* A command of fw-verify behaves as module Provision says: run_filtered,
\* run_monitor_filtered and the provision command reach the pipeline only through
\* the calls of provision.rs.
THEOREM SessionRefinesProvision == SSpec => Spec
<1>1. SInit => Init
  BY DEF SInit
<1>2. TypeOK /\ SInv /\ [SNext]_svars => [Next]_vars
  BY SessionStep DEF SInv
<1> QED
  BY <1>1, <1>2, SessionInv, PTL DEF SSpec, Spec

\* In host mode every case runs under the rules of its own bundle, for every plan,
\* every pipeline history and every failure of earlier calls.
THEOREM HostCasesRunUnderOwnRules ==
  ASSUME Mode = "host" PROVE SSpec => RanUnderOwnRules
<1>1. SInv /\ FirewallInForce /\ [SNext]_svars
        => [results' # results /\ stage = "cases"
              => loaded["fw"] = NoRule \/ loaded["fw"].text = Step.text]_svars
  BY DEF SInv, BundleInv, FirewallInForce
<1>2. SSpec => []FirewallInForce
  BY SessionRefinesProvision, HostFirewallInForce, PTL
<1> QED
  BY <1>1, <1>2, SessionInv, PTL DEF SSpec, RanUnderOwnRules

-----------------------------------------------------------------------------
\* The runner walks through the whole plan and stops behind its last step; steps
\* that failed lie behind it.
WalkInv ==
  /\ step \in 1 .. Len(Plan) + 1 /\ (stage = "end" <=> step \notin Steps)
  /\ faulty \in BOOLEAN /\ errors \subseteq 1 .. step - 1

\* The entry stage of a step tells whether the plan has ended.
LEMMA EntryEnds ==
  /\ Len(Plan) \in Nat
  /\ \A s \in Nat \ {0} : Entry(s) = "end" <=> s \notin Steps
BY DEF Entry, Steps

\* The runner stays within its plan.
LEMMA WalkNext == SInv /\ WalkInv /\ [SNext]_svars => WalkInv'
<1> SUFFICES ASSUME SInv, WalkInv, [SNext]_svars PROVE WalkInv'
  OBVIOUS
<1>1. step \in Nat \ {0} /\ Len(Plan) \in Nat
  BY EntryEnds DEF WalkInv
<1>2. ASSUME NextStep, stage # "end", UNCHANGED faulty, errors' \subseteq errors \cup {step}
      PROVE WalkInv'
  <2>1. step \in Steps /\ step + 1 \in Nat \ {0}
    BY <1>1, <1>2 DEF WalkInv
  <2> QED BY <1>1, <1>2, <2>1, EntryEnds DEF WalkInv, NextStep, Steps
<1>3. CASE UNCHANGED <<step, faulty, errors>> /\ stage # "end" /\ stage' # "end"
  BY <1>3 DEF WalkInv
<1>4. CASE UNCHANGED session
  BY <1>4 DEF session, WalkInv
<1>5. CASE WritePolicy \/ IssueFirewall \/ IssueCycle
  BY <1>3, <1>5 DEF WritePolicy, IssueFirewall, IssueCycle, Issue
<1>6. CASE PolicyReturns \/ BundleFails \/ BundleDone \/ Reset \/ Manual
  BY <1>2, <1>6 DEF PolicyReturns, BundleFails, BundleDone, Reset, Manual
<1>7. CASE BundleReturns \/ RunCase
  BY <1>3, <1>7 DEF BundleReturns, RunCase
<1>8. CASE Calling \/ Daemons \/ UNCHANGED svars
  BY <1>4, <1>8 DEF Calling, Daemons, svars
<1> QED
  BY <1>5, <1>6, <1>7, <1>8 DEF SNext, Runner

\* The invariants of the runner together.
LEMMA WalkAlways == SSpec => [](TypeOK /\ SInv /\ WalkInv)
<1>1. SInit => WalkInv
  BY EntryEnds DEF SInit, WalkInv
<1> QED
  BY <1>1, WalkNext, SessionInv, PTL DEF SSpec

\* The runner's position and the call it waits for belong to the same step of the
\* plan, for every plan and every failure.
THEOREM SessionTypeCorrect == SSpec => []SessionOK
<1>1. SInv /\ WalkInv => SessionOK
  <2> SUFFICES ASSUME SInv, WalkInv PROVE SessionOK
    OBVIOUS
  <2>1. errors \subseteq Steps
    BY EntryEnds DEF WalkInv, Steps
  <2> QED BY <2>1 DEF SessionOK, SInv, PlaceInv, CallInv, WalkInv
<1> QED
  BY <1>1, WalkAlways, PTL

-----------------------------------------------------------------------------
Line == Steps \X {"ran", "FAIL"}

\* The report so far: only steps up to the present one, in order, each line as its
\* step turned out, all cases of the steps behind and the cases run of this one.
ReportInv ==
  /\ ran \in Nat /\ results \in Seq(Line)
  /\ \A i \in DOMAIN results :
       /\ results[i][1] <= step /\ (results[i][1] = step => stage = "cases")
       /\ results[i][2] = Outcome(results[i][1])
  /\ \A i, j \in DOMAIN results : i < j => results[i][1] <= results[j][1]
  /\ \A s \in Steps : s < step => Cardinality(Reported(s)) = Plan[s].cases
  /\ stage = "cases" => Cardinality(Reported(step)) = ran /\ step \notin errors
  /\ stage # "cases" => ran = 0

\* The lines of a report.
LEMMA LineFacts ==
  \A r \in Seq(Line) :
    /\ Len(r) \in Nat /\ DOMAIN r = 1 .. Len(r)
    /\ \A i \in DOMAIN r : r[i][1] \in Steps /\ r[i][1] \in Nat
<1>1. \A l \in Line : l[1] \in Steps /\ l[1] \in Nat
  BY EntryEnds DEF Line, Steps
<1> QED BY <1>1

\* Appending one part of a report to another.
LEMMA ConcatLines ==
  \A s, t \in Seq(Line) :
    /\ s \o t \in Seq(Line) /\ Len(s \o t) = Len(s) + Len(t)
    /\ \A i \in 1 .. Len(s) + Len(t) :
         (s \o t)[i] = IF i <= Len(s) THEN s[i] ELSE t[i - Len(s)]
OBVIOUS

\* One line, and the same line several times.
LEMMA SameLines ==
  /\ \A s \in Seq(Line), l \in Line : Append(s, l) = s \o <<l>>
  /\ \A l \in Line : <<l>> \in Seq(Line) /\ Len(<<l>>) = 1 /\ \A i \in 1 .. 1 : <<l>>[i] = l
  /\ \A n \in Nat, l \in Line :
       /\ [i \in 1 .. n |-> l] \in Seq(Line) /\ Len([i \in 1 .. n |-> l]) = n
       /\ \A j \in 1 .. n : [i \in 1 .. n |-> l][j] = l
<1>1. \A s \in Seq(Line), l \in Line : Append(s, l) = s \o <<l>>
  OBVIOUS
<1>2. \A l \in Line : <<l>> \in Seq(Line) /\ Len(<<l>>) = 1 /\ \A i \in 1 .. 1 : <<l>>[i] = l
  OBVIOUS
<1>3. \A n \in Nat, l \in Line :
        /\ [i \in 1 .. n |-> l] \in Seq(Line) /\ Len([i \in 1 .. n |-> l]) = n
        /\ \A j \in 1 .. n : [i \in 1 .. n |-> l][j] = l
  OBVIOUS
<1> QED BY <1>1, <1>2, <1>3

\* How many cases a step of the plan has.
LEMMA CaseCount ==
  \A s \in Steps : Plan[s].cases \in Nat /\ (Plan[s].kind # "bundle" => Plan[s].cases = 0)
BY DEF Steps

\* The lines of a step are finitely many.
LEMMA ReportedFinite ==
  ASSUME results \in Seq(Line), NEW s PROVE IsFiniteSet(Reported(s))
<1>1. Reported(s) \subseteq 1 .. Len(results) /\ Len(results) \in Nat
  BY LineFacts DEF Reported
<1>2. IsFiniteSet(1 .. Len(results))
  BY <1>1, FS_Interval
<1> QED BY <1>1, <1>2, FS_Subset

\* What adding lines of the present step does to the report.
LEMMA AddLines ==
  ASSUME ReportInv, WalkInv, step \in Steps, NEW k \in Nat, NEW x \in {"ran", "FAIL"},
         NEW add \in Seq(Line), Len(add) = k, \A i \in 1 .. k : add[i] = <<step, x>>,
         results' = results \o add,
         k = 1 \/ Reported(step) = {}
  PROVE /\ results' \in Seq(Line)
        /\ \A i \in DOMAIN results' :
             \/ i \in DOMAIN results /\ results'[i] = results[i]
             \/ i > Len(results) /\ results'[i] = <<step, x>>
        /\ \A i, j \in DOMAIN results' : i < j => results'[i][1] <= results'[j][1]
        /\ \A s \in Steps : s # step => Reported(s)' = Reported(s)
        /\ Cardinality({i \in DOMAIN results' : results'[i][1] = step})
             = Cardinality(Reported(step)) + k
<1>1. /\ results \in Seq(Line) /\ Len(results) \in Nat /\ DOMAIN results = 1 .. Len(results)
      /\ step \in Nat
  BY LineFacts DEF ReportInv, WalkInv
<1>2. /\ results \o add \in Seq(Line) /\ Len(results \o add) = Len(results) + k
      /\ DOMAIN (results \o add) = 1 .. Len(results) + k
      /\ \A i \in 1 .. Len(results) + k :
           (results \o add)[i] = IF i <= Len(results) THEN results[i] ELSE add[i - Len(results)]
  <2>1. /\ results \o add \in Seq(Line) /\ Len(results \o add) = Len(results) + Len(add)
        /\ \A i \in 1 .. Len(results) + Len(add) :
             (results \o add)[i] = IF i <= Len(results) THEN results[i] ELSE add[i - Len(results)]
    BY <1>1, ConcatLines, Zenon
  <2>2. DOMAIN (results \o add) = 1 .. Len(results \o add)
    BY <2>1, LineFacts, Zenon
  <2> QED BY <2>1, <2>2
<1>3. /\ results' \in Seq(Line) /\ DOMAIN results' = 1 .. Len(results) + k
      /\ \A i \in 1 .. Len(results) + k :
           results'[i] = IF i <= Len(results) THEN results[i] ELSE add[i - Len(results)]
  BY <1>2, Zenon
<1>4. /\ \A i \in DOMAIN results : i \in DOMAIN results' /\ results'[i] = results[i]
      /\ \A i \in DOMAIN results' :
           i \in DOMAIN results \/ (i \in Len(results) + 1 .. Len(results) + k /\ results'[i] = <<step, x>>)
      /\ Len(results) + 1 .. Len(results) + k \subseteq DOMAIN results' \ DOMAIN results
  BY <1>1, <1>3
<1>5. \A i \in DOMAIN results : results[i][1] <= step /\ results[i][1] \in Nat
  BY <1>1, LineFacts DEF ReportInv
<1>6. \A i, j \in DOMAIN results' : i < j => results'[i][1] <= results'[j][1]
  <2> SUFFICES ASSUME NEW i \in DOMAIN results', NEW j \in DOMAIN results', i < j
               PROVE results'[i][1] <= results'[j][1]
    OBVIOUS
  <2>1. CASE j \in DOMAIN results
    <3>1. i \in DOMAIN results
      BY <1>1, <1>3, <2>1
    <3> QED BY <1>4, <2>1, <3>1 DEF ReportInv
  <2>2. CASE j \notin DOMAIN results
    <3>1. results'[j][1] = step
      BY <1>4, <2>2
    <3>2. results'[i][1] <= step
      <4>1. CASE i \in DOMAIN results
        BY <1>4, <1>5, <4>1
      <4>2. CASE i \notin DOMAIN results
        BY <1>1, <1>4, <4>2
      <4> QED BY <4>1, <4>2
    <3> QED BY <3>1, <3>2
  <2> QED BY <2>1, <2>2
<1>7. ASSUME NEW s \in Steps, s # step PROVE Reported(s)' = Reported(s)
  BY <1>4, <1>7 DEF Reported
<1>8. {i \in DOMAIN results' : results'[i][1] = step}
        = Reported(step) \cup (Len(results) + 1 .. Len(results) + k)
  BY <1>4 DEF Reported
<1>9. Cardinality(Reported(step) \cup (Len(results) + 1 .. Len(results) + k))
        = Cardinality(Reported(step)) + k
  <2>1. CASE k = 1
    <3>1. Len(results) + 1 .. Len(results) + k = {Len(results) + 1}
      BY <1>1, <2>1
    <3>2. Len(results) + 1 \notin Reported(step)
      BY <1>1 DEF Reported
    <3>3. IsFiniteSet(Reported(step))
      BY <1>1, ReportedFinite
    <3> QED BY <2>1, <3>1, <3>2, <3>3, FS_AddElement
  <2>2. CASE Reported(step) = {}
    <3>1. Cardinality(Len(results) + 1 .. Len(results) + k) = k
      <4>1. Len(results) + 1 \in Int /\ Len(results) + k \in Int
        BY <1>1
      <4>2. Cardinality(Len(results) + 1 .. Len(results) + k)
              = IF Len(results) + 1 > Len(results) + k THEN 0
                ELSE (Len(results) + k) - (Len(results) + 1) + 1
        BY <4>1, FS_Interval
      <4> QED BY <1>1, <4>2
    <3> QED BY <2>2, <3>1, FS_EmptySet
  <2> QED BY <2>1, <2>2
<1>10. \A i \in DOMAIN results' :
         \/ i \in DOMAIN results /\ results'[i] = results[i]
         \/ i > Len(results) /\ results'[i] = <<step, x>>
  BY <1>1, <1>4
<1> QED
  BY <1>3, <1>6, <1>7, <1>8, <1>9, <1>10

\* Before its cases run a step has no lines.
LEMMA NoLinesYet ==
  ASSUME ReportInv, stage # "cases" PROVE Reported(step) = {} /\ Cardinality(Reported(step)) = 0
BY FS_EmptySet DEF ReportInv, Reported

\* The next step is entered before its first case.
LEMMA NextStepFacts ==
  ASSUME step \in Nat \ {0}, NextStep
  PROVE step' = step + 1 /\ stage' # "cases" /\ ran' = 0
<1>1. step + 1 \in Nat \ {0}
  OBVIOUS
<1> QED BY <1>1, EntryFacts DEF NextStep

\* Going on to the next step with the report of this one complete.
LEMMA StepReported ==
  ASSUME SInv, WalkInv, ReportInv, NextStep, step \in Steps, UNCHANGED <<results, errors>>,
         Cardinality(Reported(step)) = Plan[step].cases
  PROVE ReportInv'
<1>1. /\ step \in Nat \ {0} /\ step' = step + 1 /\ stage' # "cases" /\ ran' = 0
  BY NextStepFacts DEF WalkInv
<1>2. \A i \in DOMAIN results' :
        /\ results'[i][1] <= step' /\ (results'[i][1] = step' => stage' = "cases")
        /\ results'[i][2] = Outcome(results[i][1])'
  <2>1. \A i \in DOMAIN results : results[i][1] \in Nat /\ results[i][1] <= step
    BY LineFacts DEF ReportInv
  <2> QED BY <1>1, <2>1 DEF ReportInv, Outcome
<1>3. \A s \in Steps : s < step' => Cardinality(Reported(s)') = Plan[s].cases
  <2>1. \A s \in Steps : s < step' => s < step \/ s = step
    BY <1>1, LineFacts, EntryEnds DEF Steps
  <2>2. \A s : Reported(s)' = Reported(s)
    BY DEF Reported
  <2> QED BY <2>1, <2>2 DEF ReportInv
<1> QED
  BY <1>1, <1>2, <1>3 DEF ReportInv

\* The report is kept by every step of a session.
LEMMA ReportNext == SInv /\ WalkInv /\ ReportInv /\ [SNext]_svars => ReportInv'
<1> SUFFICES ASSUME SInv, WalkInv, ReportInv, [SNext]_svars PROVE ReportInv'
  OBVIOUS
<1>1. /\ step \in Nat \ {0} /\ results \in Seq(Line) /\ ran \in Nat
      /\ \A i \in DOMAIN results : results[i][1] \in Nat /\ results[i][1] <= step
  BY LineFacts DEF WalkInv, ReportInv
<1>2. CASE PolicyReturns \/ Reset \/ Manual
  <2>1. /\ stage \in {"policy", "reset", "manual"} /\ NextStep /\ UNCHANGED <<results, errors>>
    BY <1>2 DEF PolicyReturns, Reset, Manual
  <2>2. step \in Steps /\ Plan[step].cases = 0
    BY <2>1, CaseCount DEF SInv, PlaceInv, Step
  <2> QED BY <2>1, <2>2, NoLinesYet, StepReported
<1>3. CASE BundleDone
  <2>1. stage = "cases" /\ ran = Step.cases /\ NextStep /\ UNCHANGED <<results, errors>>
    BY <1>3 DEF BundleDone
  <2>2. step \in Steps /\ Cardinality(Reported(step)) = Plan[step].cases
    BY <2>1 DEF SInv, PlaceInv, Step, ReportInv
  <2> QED BY <2>1, <2>2, StepReported
<1>4. CASE BundleFails
  <2>1. /\ stage \in {"firewall", "cycle"} /\ NextStep /\ errors' = errors \cup {step}
        /\ results' = results \o [i \in 1 .. Step.cases |-> <<step, "FAIL">>]
    BY <1>4 DEF BundleFails
  <2>2. step \in Steps /\ Step.cases \in Nat
    BY <2>1, CaseCount DEF SInv, PlaceInv, Step
  <2>3. Reported(step) = {} /\ Cardinality(Reported(step)) = 0
    BY <2>1, NoLinesYet
  <2> DEFINE add == [i \in 1 .. Step.cases |-> <<step, "FAIL">>]
  <2>4. /\ add \in Seq(Line) /\ Len(add) = Step.cases
        /\ \A i \in 1 .. Step.cases : add[i] = <<step, "FAIL">>
    <3>1. <<step, "FAIL">> \in Line
      BY <2>2 DEF Line
    <3> QED BY <2>2, <3>1, SameLines
  <2>5. results' = results \o add
    BY <2>1
  <2> HIDE DEF add
  <2>6. /\ results' \in Seq(Line)
        /\ \A i \in DOMAIN results' :
             \/ i \in DOMAIN results /\ results'[i] = results[i]
             \/ i > Len(results) /\ results'[i] = <<step, "FAIL">>
        /\ \A i, j \in DOMAIN results' : i < j => results'[i][1] <= results'[j][1]
        /\ \A s \in Steps : s # step => Reported(s)' = Reported(s)
        /\ Cardinality({i \in DOMAIN results' : results'[i][1] = step})
             = Cardinality(Reported(step)) + Step.cases
    BY <2>2, <2>3, <2>4, <2>5, AddLines
  <2>7. step' = step + 1 /\ stage' # "cases" /\ ran' = 0
    BY <1>1, <2>1, NextStepFacts
  <2>8. \A i \in DOMAIN results' :
          /\ results'[i][1] <= step' /\ results'[i][1] # step'
          /\ results'[i][2] = Outcome(results[i][1])'
    <3> SUFFICES ASSUME NEW i \in DOMAIN results'
                 PROVE /\ results'[i][1] <= step' /\ results'[i][1] # step'
                       /\ results'[i][2] = Outcome(results[i][1])'
      OBVIOUS
    <3>1. CASE i \in DOMAIN results /\ results'[i] = results[i]
      <4>1. results[i][1] # step /\ results[i][2] = Outcome(results[i][1])
        BY <2>1, <3>1 DEF ReportInv
      <4> QED BY <1>1, <2>1, <2>7, <3>1, <4>1 DEF Outcome
    <3>2. CASE results'[i] = <<step, "FAIL">>
      <4>1. results'[i][1] = step /\ results'[i][2] = "FAIL" /\ step \in errors'
        <5>1. step \in errors'
          BY <2>1
        <5>2. <<step, "FAIL">>[1] = step /\ <<step, "FAIL">>[2] = "FAIL"
          OBVIOUS
        <5> QED BY <3>2, <5>1, <5>2, Zenon
      <4>2. step <= step' /\ step # step'
        BY <1>1, <2>7
      <4>3. Outcome(results[i][1])' = "FAIL"
        BY <4>1 DEF Outcome
      <4> QED BY <4>1, <4>2, <4>3
    <3> QED BY <2>6, <3>1, <3>2
  <2>9. \A s \in Steps : s < step' => Cardinality(Reported(s)') = Plan[s].cases
    <3>1. \A s \in Steps : s < step' => s < step \/ s = step
      BY <1>1, <2>7, EntryEnds DEF Steps
    <3>2. Cardinality(Reported(step)) + Step.cases = Plan[step].cases
      BY <2>2, <2>3 DEF Step
    <3>3. \A s \in Steps : s = step => Cardinality(Reported(s)') = Plan[s].cases
      BY <2>6, <3>2 DEF Reported
    <3> QED BY <2>6, <3>1, <3>3 DEF ReportInv
  <2> QED BY <2>6, <2>7, <2>8, <2>9 DEF ReportInv
<1>5. CASE RunCase
  <2>1. /\ stage = "cases" /\ ran' = ran + 1 /\ UNCHANGED <<step, stage, errors>>
        /\ results' = Append(results, <<step, "ran">>)
    BY <1>5 DEF RunCase
  <2>2. step \in Steps /\ step \notin errors /\ Cardinality(Reported(step)) = ran
    BY <2>1 DEF SInv, PlaceInv, ReportInv
  <2>3. /\ <<<<step, "ran">>>> \in Seq(Line) /\ Len(<<<<step, "ran">>>>) = 1
        /\ \A i \in 1 .. 1 : <<<<step, "ran">>>>[i] = <<step, "ran">>
    <3>1. <<step, "ran">> \in Line
      BY <2>2 DEF Line
    <3> QED BY <3>1, SameLines, Zenon
  <2>4. results' = results \o <<<<step, "ran">>>>
    <3>1. <<step, "ran">> \in Line
      BY <2>2 DEF Line
    <3>2. Append(results, <<step, "ran">>) = results \o <<<<step, "ran">>>>
      BY <1>1, <3>1, SameLines, Zenon
    <3> QED BY <2>1, <3>2, Zenon
  <2>5. /\ results' \in Seq(Line)
        /\ \A i \in DOMAIN results' :
             \/ i \in DOMAIN results /\ results'[i] = results[i]
             \/ i > Len(results) /\ results'[i] = <<step, "ran">>
        /\ \A i, j \in DOMAIN results' : i < j => results'[i][1] <= results'[j][1]
        /\ \A s \in Steps : s # step => Reported(s)' = Reported(s)
        /\ Cardinality({i \in DOMAIN results' : results'[i][1] = step})
             = Cardinality(Reported(step)) + 1
    BY <2>2, <2>3, <2>4, AddLines
  <2>6. \A i \in DOMAIN results' :
          results'[i][1] <= step' /\ results'[i][2] = Outcome(results[i][1])'
    <3> SUFFICES ASSUME NEW i \in DOMAIN results'
                 PROVE results'[i][1] <= step' /\ results'[i][2] = Outcome(results[i][1])'
      OBVIOUS
    <3>1. CASE i \in DOMAIN results /\ results'[i] = results[i]
      BY <1>1, <2>1, <3>1 DEF ReportInv, Outcome
    <3>2. CASE results'[i] = <<step, "ran">>
      BY <1>1, <2>1, <2>2, <3>2 DEF Outcome
    <3> QED BY <2>5, <3>1, <3>2
  <2>7. \A s \in Steps : s < step' => Cardinality(Reported(s)') = Plan[s].cases
    BY <1>1, <2>1, <2>5 DEF ReportInv
  <2>8. Cardinality(Reported(step)') = ran'
    BY <2>1, <2>2, <2>5 DEF Reported
  <2> QED BY <1>1, <2>1, <2>2, <2>5, <2>6, <2>7, <2>8 DEF ReportInv
<1>6. CASE BundleReturns
  <2>1. /\ stage \in {"firewall", "cycle"} /\ stage' \in {"cycle", "cases"}
        /\ UNCHANGED <<step, ran, results, errors>>
    BY <1>6 DEF BundleReturns
  <2>2. Reported(step) = {} /\ Cardinality(Reported(step)) = 0 /\ ran = 0
    BY <2>1, NoLinesYet DEF ReportInv
  <2>3. step \notin errors
    BY <1>1 DEF WalkInv
  <2>4. \A s : Reported(s)' = Reported(s)
    BY <2>1 DEF Reported
  <2>5. \A i \in DOMAIN results : results[i][1] # step
    BY <2>2 DEF Reported
  <2> QED BY <2>1, <2>2, <2>3, <2>4, <2>5 DEF ReportInv, Outcome
<1>7. CASE UNCHANGED <<step, stage, ran, results, errors>>
  <2>1. \A s : Reported(s)' = Reported(s)
    BY <1>7 DEF Reported
  <2> QED BY <1>7, <2>1 DEF ReportInv, Outcome
<1>8. CASE WritePolicy \/ IssueFirewall \/ IssueCycle
  BY <1>7, <1>8 DEF WritePolicy, IssueFirewall, IssueCycle, Issue
<1>9. CASE Calling \/ Daemons \/ UNCHANGED svars
  BY <1>7, <1>9 DEF Calling, Daemons, svars, session
<1> QED
  BY <1>2, <1>3, <1>4, <1>5, <1>6, <1>8, <1>9 DEF SNext, Runner

\* At the end of a command every selected case has exactly one line of the report, in
\* the order of the bundles, and every line says what became of its bundle: for
\* every plan, whatever calls fail (provision_error writes the lines of a bundle that
\* could not be provisioned).
THEOREM EveryCaseReported == SSpec => []AllReported
<1>1. SInit => ReportInv
  <2> SUFFICES ASSUME SInit PROVE ReportInv
    OBVIOUS
  <2>1. results = <<>> /\ ran = 0 /\ step = 1 /\ stage # "cases"
    BY EntryFacts DEF SInit
  <2>2. \A s \in Steps : ~ (s < 1)
    BY EntryEnds DEF Steps
  <2> QED BY <2>1, <2>2 DEF ReportInv
<1>2. WalkInv /\ ReportInv => AllReported
  <2> SUFFICES ASSUME WalkInv, ReportInv, stage = "end" PROVE AllReported
    BY DEF AllReported
  <2>1. \A s \in Steps : s < step
    BY EntryEnds DEF WalkInv, Steps
  <2>2. \A s \in Steps : \A i \in Reported(s) : results[i][2] = Outcome(s)
    BY DEF Reported, ReportInv
  <2> QED BY <2>1, <2>2 DEF AllReported, ReportInv
<1> QED
  BY <1>1, <1>2, ReportNext, WalkAlways, PTL DEF SSpec

-----------------------------------------------------------------------------
\* A fun=4 rule was written before step s, and no reset-rules has removed it since.
Covered(s) ==
  \E p \in 1 .. s - 1 :
    Plan[p].kind = "policy" /\ \A r \in p + 1 .. s - 1 : Plan[r].kind # "reset"

\* What run_filtered, run_monitor_filtered and run_one make sure of: they write the
\* traffic policy before the first bundle.  The `provision` command does not.
PolicyFirst == \A s \in Steps : Plan[s].kind = "bundle" => Covered(s)

\* The plans of run_filtered, run_monitor_filtered, run_one and run-all satisfy it: they
\* begin with the traffic policy, and no reset-rules follows.
LEMMA CommandsWritePolicyFirst ==
  ASSUME NEW c, NEW S, NEW rest \in Seq(S), Plan = <<PolicyStep(c)>> \o rest,
         \A i \in DOMAIN rest : rest[i].kind # "reset"
  PROVE  PolicyFirst
<1>1. /\ Len(Plan) = 1 + Len(rest) /\ Len(rest) \in Nat /\ Plan[1] = PolicyStep(c)
      /\ \A r \in 2 .. 1 + Len(rest) : r - 1 \in DOMAIN rest /\ Plan[r] = rest[r - 1]
  OBVIOUS
<1>2. Plan[1].kind = "policy"
  BY <1>1 DEF PolicyStep
<1>3. ASSUME NEW s \in Steps, Plan[s].kind = "bundle" PROVE Covered(s)
  <2>1. s \in 2 .. 1 + Len(rest) /\ 1 \in 1 .. s - 1
    BY <1>1, <1>2, <1>3 DEF Steps
  <2>2. \A r \in 1 + 1 .. s - 1 : Plan[r].kind # "reset"
    BY <1>1, <2>1
  <2>3. \E p \in 1 .. s - 1 :
          Plan[p].kind = "policy" /\ \A r \in p + 1 .. s - 1 : Plan[r].kind # "reset"
    BY <1>2, <2>1, <2>2, Zenon
  <2> QED BY <2>3, Zenon DEF Covered
<1> QED BY <1>3 DEF PolicyFirst

\* A call carries a payload, and what was granted is a rule.
PayloadInv ==
  /\ pc # "idle" => want # Nil
  /\ \A f \in Fun : granted[f] => goal[f].text # Nil
  /\ pc \in {"wait", "late"} => op # "policy"

\* Without faults a call that has returned has done its work, a wait is for the very
\* version written, and no wait has missed.
FreeInv ==
  ~ faulty =>
    /\ errors = {} /\ pc # "late"
    /\ Covered(step) => Inlet("traffic") # NoRule
    /\ busy /\ pc = "idle" /\ stage = "policy" => Inlet("traffic") # NoRule
    /\ busy /\ pc = "idle" /\ stage \in {"firewall", "cycle"} => granted[F]
    /\ pc = "wait" => goal[F].ver = target

\* A payload is never Nil.
LEMMA PayloadNotNil == \A o \in Op : \A x \in PayloadOf(o) : x # Nil
BY PayloadAssumption DEF PayloadOf

\* Payloads stay payloads.
LEMMA PayloadNext ==
  IInv /\ InletInv /\ PayloadInv /\ [Next]_vars => PayloadInv'
<1> SUFFICES ASSUME IInv, InletInv, PayloadInv, [Next]_vars PROVE PayloadInv'
  OBVIOUS
<1>1. TypeOK /\ F \in Fun
  BY PayloadFacts DEF IInv, F, TypeOK
<1>2. ASSUME NEW o \in Op, NEW x \in PayloadOf(o), Call(o, x) PROVE PayloadInv'
  <2>1. /\ x # Nil /\ want' = x /\ goal' = goal /\ pc' \in {"read", "put"}
        /\ \A f \in Fun : granted'[f] => granted[f]
    BY <1>1, <1>2, PayloadNotNil, PayloadFacts DEF Call, TypeOK
  <2> QED BY <2>1 DEF PayloadInv
<1>3. CASE WriteDepot \/ PutRule
  <2>1. /\ pc \in {"write", "put"} /\ want' = want /\ granted' = granted /\ ~ granted[F]
        /\ \A f \in Fun : f # F => goal'[f] = goal[f]
    BY <1>1, <1>3 DEF WriteDepot, PutRule, Publish, IInv, WaitInv, TypeOK
  <2>2. op' = op /\ pc' # "late" /\ (pc' = "wait" => op # "policy")
    BY <1>3 DEF WriteDepot, PutRule, AfterWrite
  <2> QED BY <2>1, <2>2 DEF PayloadInv
<1>4. CASE PollOk
  <2>1. /\ pc = "wait" /\ pc' = "idle" /\ goal' = goal
        /\ \A f \in Fun : granted'[f] => granted[f] \/ f = F
    BY <1>1, <1>4 DEF PollOk, TypeOK
  <2>2. goal[F].text # Nil
    BY <2>1 DEF InletInv, PayloadInv
  <2> QED BY <2>1, <2>2 DEF PayloadInv
<1>5. CASE ReadBefore \/ WriteFails \/ PollMiss \/ Expire \/ SleepPoll \/ ResetFails
  BY <1>5 DEF ReadBefore, WriteFails, PollMiss, Expire, SleepPoll, ResetFails, ghosts,
              PayloadInv
<1>6. CASE ResetRules
  <2>1. pc' = "idle" /\ goal' = goal /\ \A f \in Fun : granted'[f] => granted[f]
    BY <1>1, <1>6 DEF ResetRules, TypeOK, Fun
  <2> QED BY <2>1 DEF PayloadInv
<1>7. ASSUME NEW f, NEW x, ProvisionRule(f, x) PROVE PayloadInv'
  <2>1. pc' = "idle" /\ goal' = goal /\ \A g \in Fun : granted'[g] => granted[g]
    BY <1>1, <1>7 DEF ProvisionRule, TypeOK
  <2> QED BY <2>1 DEF PayloadInv
<1>8. CASE (\E f \in Fun : CloudSync(f) \/ Fetch(f) \/ Apply(f)) \/ Restart
  BY <1>8 DEF CloudSync, Fetch, Apply, Restart, caller, ghosts, PayloadInv
<1>9. CASE UNCHANGED vars
  BY <1>9 DEF vars, PayloadInv
<1> QED
  BY <1>2, <1>3, <1>4, <1>5, <1>6, <1>7, <1>8, <1>9 DEF Next, Orchestrator

\* Where reset-rules does not strike, a fun=4 rule stays where fw-verify wrote it.
LEMMA InletKept ==
  ASSUME IInv, PayloadInv, [Next]_vars, ~ ResetRules, Inlet("traffic") # NoRule,
         \A f, x : ProvisionRule(f, x) => ~ f = "traffic"
  PROVE Inlet("traffic")' # NoRule
<1> USE DEF Inlet, Fun
<1>1. TypeOK /\ F \in Fun
  BY PayloadFacts DEF IInv, F, TypeOK
<1>2. CASE WriteDepot
  <2>1. pc = "write" /\ cloud' = cloud /\ want # Nil
        /\ depot' = [depot EXCEPT ![F] = [ver |-> AsI32(target), text |-> want]]
    BY <1>2 DEF WriteDepot, PayloadInv
  <2>2. [ver |-> AsI32(target), text |-> want] # NoRule
    BY <2>1 DEF NoRule
  <2> QED BY <1>1, <2>1, <2>2 DEF TypeOK
<1>3. CASE PutRule
  <2>1. pc = "put" /\ depot' = depot /\ want # Nil
        /\ cloud' = [cloud EXCEPT ![F] = [ver |-> VsocVer(cloud[F].ver), text |-> want]]
    BY <1>3 DEF PutRule, PayloadInv
  <2>2. [ver |-> VsocVer(cloud[F].ver), text |-> want] # NoRule
    BY <2>1 DEF NoRule
  <2> QED BY <1>1, <2>1, <2>2 DEF TypeOK
<1>4. ASSUME NEW o \in {"firewall", "cycle"}, NEW x, ProvisionRule(FunOf(o), x)
      PROVE Inlet("traffic")' # NoRule
  <2>1. PICK v : depot' = [depot EXCEPT ![FunOf(o)] = [ver |-> v, text |-> x]]
    BY <1>4 DEF ProvisionRule
  <2>2. cloud' = cloud /\ FunOf(o) # "traffic"
    BY <1>4 DEF ProvisionRule
  <2> QED BY <1>1, <2>1, <2>2 DEF TypeOK
<1>5. ASSUME NEW f \in Fun, CloudSync(f) \/ Fetch(f) \/ Apply(f)
      PROVE Inlet("traffic")' # NoRule
  BY <1>5 DEF CloudSync, Fetch, Apply
<1>6. ASSUME cloud' = cloud, depot' = depot PROVE Inlet("traffic")' # NoRule
  BY <1>6
<1>7. CASE (\E o \in Op : \E x \in PayloadOf(o) : Call(o, x)) \/ ReadBefore \/ WriteFails
           \/ PollOk \/ PollMiss \/ Expire \/ SleepPoll \/ Restart \/ ResetFails
           \/ UNCHANGED vars
  BY <1>6, <1>7 DEF Call, ReadBefore, WriteFails, PollOk, PollMiss, Expire, SleepPoll,
                    Restart, ResetFails, vars, pipeline
<1> QED
  BY <1>2, <1>3, <1>4, <1>5, <1>7 DEF Next, Orchestrator

\* What was covered stays covered until the next reset-rules.
LEMMA CoveredNext ==
  ASSUME step \in Steps, Covered(step + 1)
  PROVE Plan[step].kind = "policy" \/ (Covered(step) /\ Plan[step].kind # "reset")
<1>1. step \in Nat \ {0}
  BY EntryEnds DEF Steps
<1>2. PICK p \in 1 .. step :
        Plan[p].kind = "policy" /\ \A r \in p + 1 .. step : Plan[r].kind # "reset"
  BY <1>1 DEF Covered
<1>3. CASE p = step
  BY <1>2, <1>3
<1>4. CASE p # step
  <2>1. p \in 1 .. step - 1 /\ step \in p + 1 .. step /\ \A r \in p + 1 .. step - 1 : r \in p + 1 .. step
    BY <1>1, <1>4
  <2> QED BY <1>2, <2>1 DEF Covered
<1> QED BY <1>3, <1>4

\* Without faults nothing is left to move only if the awaited rule is in force.
LEMMA QuietSatisfied ==
  ASSUME TypeOK, SInv, InletInv, PayloadInv, FreeInv, ~ faulty, PolicyFirst,
         pc = "wait", Quiet
  PROVE Satisfied
<1> USE DEF Fun
<1>1. op \in {"firewall", "cycle"}
  BY DEF PayloadInv, TypeOK, Op
<1>2. busy /\ stage = op /\ step \in Steps /\ Plan[step].kind = "bundle"
  BY <1>1 DEF SInv, CallInv, PlaceInv, Step
<1>3. Inlet(F) = goal[F] /\ goal[F].text = want /\ want # Nil /\ goal[F].ver = target
  BY DEF InletInv, PayloadInv, FreeInv
<1>4. NoRule.text = Nil
  BY DEF NoRule
<1>5. F \in Fun /\ (op = "firewall" => F = "fw") /\ (op = "cycle" => F = "traffic")
  BY DEF F, FunOf
<1>6. \A f \in Fun : Inlet(f) # NoRule
  <2>1. Inlet(F) # NoRule
    BY <1>3, <1>4
  <2>2. CASE op = "firewall"
    <3>1. Inlet("traffic") # NoRule
      BY <1>2 DEF PolicyFirst, FreeInv
    <3> QED BY <1>5, <2>1, <2>2, <3>1
  <2>3. CASE op = "cycle"
    <3>1. granted["fw"]
      BY <1>2, <2>3 DEF SInv, BundleInv
    <3>2. Inlet("fw") # NoRule
      BY <1>4, <3>1 DEF InletInv, PayloadInv
    <3> QED BY <1>5, <2>1, <2>3, <3>2
  <2> QED BY <1>1, <2>2, <2>3
<1>7. \A f \in Fun : depot[f] = Inlet(f)
  BY DEF Inlet, Quiet
<1>8. \A f \in Fun : fetched[f] = Inlet(f)
  BY <1>6, <1>7 DEF Quiet
<1>9. loaded[F] = goal[F] /\ loaded[F] # NoRule
  BY <1>3, <1>5, <1>6, <1>8 DEF Quiet
<1>10. target \in Nat
  BY DEF TypeOK
<1> QED
  BY <1>3, <1>5, <1>9, <1>10, <1>1 DEF Satisfied, CycleInForce

\* The steps of a session whose calls do not fail keep FreeInv.
LEMMA FreeNext ==
  ASSUME PolicyFirst
  PROVE IInv /\ SInv /\ WalkInv /\ InletInv /\ PayloadInv /\ FreeInv /\ [SNext]_svars => FreeInv'
<1> SUFFICES ASSUME IInv, SInv, WalkInv, InletInv, PayloadInv, FreeInv, [SNext]_svars, ~ faulty'
             PROVE FreeInv'
  BY DEF FreeInv
<1>1. ~ faulty /\ UNCHANGED faulty
  BY DEF SNext, Runner, WritePolicy, IssueFirewall, IssueCycle, Issue, PolicyReturns,
         BundleReturns, BundleFails, RunCase, BundleDone, Reset, Manual, Calling, Daemons,
         svars, session
<1>2. TypeOK /\ F \in Fun /\ [Next]_vars /\ step \in Nat \ {0}
  BY SessionStep, PayloadFacts DEF IInv, F, TypeOK, SInv, PlaceInv
<1>3. errors = {} /\ pc # "late" /\ (Covered(step) => Inlet("traffic") # NoRule)
  BY <1>1 DEF FreeInv
<1>4. ~ Reset => (Inlet("traffic") # NoRule => Inlet("traffic")' # NoRule)
  <2> SUFFICES ASSUME ~ Reset, Inlet("traffic") # NoRule PROVE Inlet("traffic")' # NoRule
    OBVIOUS
  <2>1. CASE Manual
    BY <1>2, <2>1 DEF Manual, ProvisionRule, Inlet, TypeOK, Fun
  <2>2. CASE ~ Manual
    <3>1. CASE ResetRules \/ \E f, x : ProvisionRule(f, x)
      <4>1. calls' = calls + 1 /\ pc' = "idle" /\ pc = "idle" /\ calls \in Nat
        BY <1>2, <3>1 DEF ResetRules, ProvisionRule, TypeOK
      <4>2. UNCHANGED calls \/ pc' # "idle"
        BY <2>2 DEF SNext, Runner, WritePolicy, IssueFirewall, IssueCycle, Issue, Call,
             PolicyReturns, BundleReturns, BundleFails, Returned, RunCase, BundleDone,
             Calling, FaultFree, Orchestrator, ReadBefore, WriteDepot, PutRule, WriteFails,
             PollOk, PollMiss, Expire, SleepPoll, Daemons, CloudSync, Fetch, Apply, Restart,
             caller, vars, svars
      <4> QED BY <4>1, <4>2
    <3>2. CASE ~ ResetRules /\ \A f, x : ~ ProvisionRule(f, x)
      BY <1>2, <3>2, InletKept
    <3> QED BY <3>1, <3>2
  <2> QED BY <2>1, <2>2
<1>5. ASSUME NextStep, ~ busy', pc' = "idle", UNCHANGED errors, step \in Steps,
             ~ Reset \/ Plan[step].kind = "reset",
             Plan[step].kind = "policy" => Inlet("traffic") # NoRule
      PROVE FreeInv'
  <2>1. step' = step + 1
    BY <1>5 DEF NextStep
  <2>2. Covered(step)' => Inlet("traffic")' # NoRule
    <3> SUFFICES ASSUME Covered(step + 1) PROVE Inlet("traffic")' # NoRule
      BY <2>1 DEF Covered
    <3> QED BY <1>3, <1>4, <1>5, CoveredNext
  <2> QED BY <1>3, <1>5, <2>2 DEF FreeInv
<1>6. CASE PolicyReturns
  <2>1. /\ NextStep /\ busy /\ ~ busy' /\ pc = "idle" /\ pc' = "idle" /\ UNCHANGED errors /\ stage = "policy"
    BY <1>6 DEF PolicyReturns, Returned, vars
  <2>2. step \in Steps /\ Plan[step].kind = "policy" /\ Inlet("traffic") # NoRule
    BY <1>1, <2>1 DEF SInv, PlaceInv, Step, FreeInv
  <2>3. ~ Reset
    BY <2>1 DEF Reset
  <2> QED BY <1>5, <2>1, <2>2, <2>3
<1>7. CASE BundleDone
  <2>1. /\ NextStep /\ UNCHANGED <<errors, busy, pc>> /\ stage = "cases"
    BY <1>7 DEF BundleDone, vars
  <2>2. ~ busy /\ pc = "idle"
    BY <2>1 DEF SInv, CallInv, Op
  <2>3. step \in Steps /\ Plan[step].kind = "bundle"
    BY <2>1 DEF SInv, PlaceInv, Step
  <2>4. ~ Reset
    BY <2>1 DEF Reset
  <2> QED BY <1>5, <2>1, <2>2, <2>3, <2>4
<1>8. CASE Reset \/ Manual
  <2>1. /\ NextStep /\ UNCHANGED <<errors, busy, pc>> /\ pc = "idle" /\ stage \in {"reset", "manual"}
        /\ Reset => stage = "reset"
    BY <1>8 DEF Reset, Manual, ResetRules, ResetFails, ProvisionRule
  <2>2. ~ busy
    BY <2>1 DEF SInv, CallInv, Op
  <2>3. step \in Steps /\ Plan[step].kind = stage
    BY <2>1 DEF SInv, PlaceInv, Step
  <2> QED BY <1>5, <2>1, <2>2, <2>3
<1>9. CASE BundleFails
  BY <1>1, <1>9 DEF BundleFails, Returned, Answer, FreeInv
<1>10. ASSUME UNCHANGED <<step, errors>>, ~ Reset,
              Inlet("traffic")' # NoRule \/ ~ (busy /\ pc = "idle" /\ stage = "policy")',
              granted'[F'] \/ ~ (busy /\ pc = "idle" /\ stage \in {"firewall", "cycle"})',
              pc' # "late", pc' = "wait" => goal'[F'].ver = target'
       PROVE FreeInv'
  BY <1>3, <1>4, <1>10 DEF FreeInv, Covered
<1>11. CASE BundleReturns \/ RunCase
  <2>1. /\ UNCHANGED <<step, errors>> /\ UNCHANGED vars /\ stage \in {"firewall", "cycle", "cases"}
        /\ ~ busy'
    BY <1>11 DEF BundleReturns, RunCase, Returned, SInv, CallInv, Op
  <2>2. pc = "idle" /\ pc' = "idle"
    BY <1>11, <2>1 DEF BundleReturns, RunCase, Returned, SInv, CallInv, Op, vars
  <2>3. ~ Reset
    BY <2>1 DEF Reset
  <2> QED BY <1>10, <2>1, <2>2, <2>3
<1>12. CASE WritePolicy \/ IssueFirewall \/ IssueCycle
  <2>1. /\ UNCHANGED <<step, errors>> /\ pc' \in {"read", "put"} /\ stage \in {"policy", "firewall", "cycle"}
    BY <1>12 DEF WritePolicy, IssueFirewall, IssueCycle, Issue, Call
  <2>2. ~ Reset
    BY <2>1 DEF Reset
  <2> QED BY <1>10, <2>1, <2>2
<1>13. CASE Daemons \/ UNCHANGED svars
  <2>1. /\ UNCHANGED <<step, stage, busy, errors>> /\ UNCHANGED <<pc, op, target, goal, granted, calls>>
    BY <1>13 DEF Daemons, CloudSync, Fetch, Apply, Restart, caller, ghosts, session, svars, vars
  <2>2. F' = F
    BY <2>1 DEF F
  <2>3. ~ Reset
    BY <1>2, <2>1 DEF Reset, ResetRules, ResetFails, TypeOK
  <2> QED BY <1>1, <1>3, <1>4, <1>10, <2>1, <2>2, <2>3 DEF FreeInv
<1>14. CASE Calling
  <2>1. FaultFree /\ UNCHANGED <<step, stage, busy, errors>>
    BY <1>1, <1>14 DEF Calling, session
  <2>2. UNCHANGED <<op, calls>> /\ F' = F /\ pc # "idle"
    BY <2>1 DEF FaultFree, ReadBefore, WriteDepot, PutRule, PollOk, PollMiss, Expire, F
  <2>3. busy /\ stage = op
    BY <2>2 DEF SInv, CallInv
  <2>4. ~ Reset
    BY <2>2 DEF Reset, ResetRules, ResetFails
  <2>5. CASE ReadBefore
    <3>1. pc' = "write"
      BY <2>5 DEF ReadBefore
    <3> QED BY <1>10, <2>1, <2>4, <3>1
  <2>6. CASE WriteDepot /\ pc' = AfterWrite /\ target <= I32Max
    <3>1. Mode = "android" /\ target \in Nat
      BY <1>2, <2>6, ModeAssumption DEF WriteDepot, IInv, ModeInv, TypeOK
    <3>2. AsI32(target) = target
      BY <2>6, <3>1, NumberAssumption DEF AsI32
    <3>3. /\ depot' = [depot EXCEPT ![F] = [ver |-> target, text |-> want]]
          /\ goal' = [goal EXCEPT ![F] = [ver |-> target, text |-> want]]
          /\ UNCHANGED target /\ pc = "write"
      BY <2>6, <3>2 DEF WriteDepot, Publish
    <3>4. goal'[F'].ver = target'
      BY <1>2, <2>2, <3>3 DEF TypeOK
    <3>5. F = "traffic" => Inlet("traffic")' # NoRule
      <4>1. want # Nil
        BY <3>3 DEF PayloadInv
      <4>2. [ver |-> target, text |-> want] # NoRule
        BY <4>1 DEF NoRule
      <4> QED BY <1>2, <3>1, <3>3, <4>2, ModeAssumption DEF TypeOK, Inlet, Fun
    <3>6. /\ pc' \in {"wait", "idle"} /\ (pc' = "idle" => stage = "policy")
          /\ stage = "policy" => F = "traffic"
      BY <2>3, <2>6 DEF AfterWrite, F, FunOf
    <3> QED BY <1>10, <2>1, <2>2, <2>4, <3>4, <3>5, <3>6
  <2>7. CASE PutRule /\ pc' = AfterWrite
    <3>1. Mode = "host" /\ pc = "put" /\ cloud[F].ver \in Int
      BY <1>2, <2>7, ModeAssumption DEF PutRule, IInv, ModeInv, TypeOK, Rule
    <3> DEFINE v == VsocVer(cloud[F].ver)
    <3>2. /\ cloud' = [cloud EXCEPT ![F] = [ver |-> v, text |-> want]]
          /\ goal' = [goal EXCEPT ![F] = [ver |-> v, text |-> want]]
          /\ pc' = "wait" => target' = v
      BY <2>7, <3>1 DEF PutRule, Publish
    <3> HIDE DEF v
    <3>3. pc' = "wait" => goal'[F'].ver = target'
      BY <1>2, <2>2, <3>2 DEF TypeOK
    <3>4. F = "traffic" => Inlet("traffic")' # NoRule
      <4>1. want # Nil
        BY <3>1 DEF PayloadInv
      <4>2. [ver |-> v, text |-> want] # NoRule
        BY <4>1 DEF NoRule
      <4> QED BY <1>2, <3>1, <3>2, <4>2 DEF TypeOK, Inlet, Fun
    <3>5. /\ pc' \in {"wait", "idle"} /\ (pc' = "idle" => stage = "policy")
          /\ stage = "policy" => F = "traffic"
      BY <2>3, <2>7 DEF AfterWrite, F, FunOf
    <3> QED BY <1>10, <2>1, <2>2, <2>4, <3>3, <3>4, <3>5
  <2>8. CASE PollOk
    <3>1. pc = "wait" /\ pc' = "idle" /\ granted'[F]
      BY <1>2, <2>8 DEF PollOk, TypeOK
    <3>2. stage # "policy"
      BY <2>3, <3>1 DEF PayloadInv
    <3> QED BY <1>10, <2>1, <2>2, <2>4, <3>1, <3>2
  <2>9. CASE PollMiss /\ ~ Satisfied /\ Quiet
    BY <1>1, <1>2, <2>9, QuietSatisfied DEF PollMiss
  <2>10. CASE Expire
    BY <1>3, <2>10 DEF Expire
  <2> QED BY <2>1, <2>5, <2>6, <2>7, <2>8, <2>9, <2>10 DEF FaultFree
<1> QED
  BY <1>6, <1>7, <1>8, <1>9, <1>11, <1>12, <1>13, <1>14 DEF SNext, Runner

\* Without faults no bundle of a command that writes its traffic policy first fails:
\* for every such plan, whatever rules, half-delivered or not, the device starts with,
\* and however the daemons restart in between (the wait of provision_firewall and
\* write_traffic_rule can only miss if the pipeline comes to rest without the rule).
THEOREM FaultFreeSessionSucceeds ==
  ASSUME PolicyFirst
  PROVE  SSpec => []NothingFails
<1>1. SInit => PayloadInv /\ FreeInv
  <2> SUFFICES ASSUME SInit PROVE PayloadInv /\ FreeInv
    OBVIOUS
  <2>1. /\ pc = "idle" /\ step = 1 /\ busy = FALSE /\ errors = {}
        /\ \A f \in Fun : ~ granted[f]
    BY DEF SInit, Init
  <2>2. ~ Covered(step)
    BY <2>1 DEF Covered
  <2> QED BY <2>1, <2>2 DEF PayloadInv, FreeInv
<1>2. FreeInv => NothingFails
  BY DEF FreeInv, NothingFails
<1>3. SInv /\ [SNext]_svars => [Next]_vars
  BY SessionStep DEF SInv
<1> QED
  BY <1>1, <1>2, <1>3, PayloadNext, FreeNext, WalkAlways, SessionRefinesProvision,
     DeliveryInv, PTL DEF SSpec

=============================================================================
