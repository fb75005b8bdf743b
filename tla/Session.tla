------------------------------- MODULE Session -------------------------------
(***************************************************************************)
(* A command of fw-verify that provisions rules and runs cases under them:    *)
(* run-all, run-group and run (verify.rs, monitor.rs), provision and           *)
(* reset-rules (main.rs), and the agent's provision-rule.                      *)
(* A command is a plan, and its calls are the calls of module Provision: the  *)
(* pipeline of that module keeps moving between and during all of its steps.  *)
(* How a case is judged is the subject of module CaseRun.                     *)
(***************************************************************************)
EXTENDS Provision, Sequences, FiniteSets

CONSTANT Plan  \* the steps of the command, or of several in a row

\* write_traffic_rule(cfg, 5): its result is ignored
PolicyStep(cycle) == [kind |-> "policy", text |-> Nil, cycle |-> cycle, cases |-> 0]

\* A bundle: firewall_text, traffic_cycle (Nil for None), number of selected cases
BundleStep(text, cycle, cases) ==
  [kind |-> "bundle", text |-> text, cycle |-> cycle, cases |-> cases]

\* Command::ResetRules; the operator's `agent provision-rule` of a fun=1 rule
ResetStep == [kind |-> "reset", text |-> Nil, cycle |-> Nil, cases |-> 0]
ManualStep(text) == [kind |-> "manual", text |-> text, cycle |-> Nil, cases |-> 0]

\* Mutant: the fun=4 rule is left to the bundles.
RunFilteredBare(order, cycle) == SelectSeq(order, LAMBDA b : b.cases > 0)

\* run_filtered: bundles in bundle_order, those without a selected case left out
RunFiltered(order, cycle) ==
  <<PolicyStep(cycle)>> \o SelectSeq(order, LAMBDA b : b.cases > 0)

\* run_monitor_filtered: the allow-all baseline for every monitor case
RunMonitor(cases, cycle) ==
  IF cases = 0 THEN <<>>
  ELSE <<PolicyStep(cycle), BundleStep(Baseline, Nil, cases)>>

RunAll(order, monitors, cycle) == RunFiltered(order, cycle) \o RunMonitor(monitors, cycle)

\* Mutant: a single case needs no fun=4 rule of its own.
RunOneBare(bundle, cycle) == <<bundle>>

\* run_one: the same for a single case
RunOne(bundle, cycle) == <<PolicyStep(cycle), bundle>>

\* Command::Provision: the firewall rule first, then the cycle
ProvisionCommand(text, cycle) == <<BundleStep(text, cycle, 0)>>

Steps == 1 .. Len(Plan)

ASSUME PlanAssumption ==
  Plan \in Seq([kind : {"policy"}, text : {Nil}, cycle : Cycles, cases : {0}]
                \cup [kind : {"bundle"}, text : Texts, cycle : Cycles \cup {Nil}, cases : Nat]
                \cup [kind : {"reset"}, text : {Nil}, cycle : {Nil}, cases : {0}]
                \cup [kind : {"manual"}, text : Texts, cycle : {Nil}, cases : {0}])

VARIABLES
  step,    \* the step of the plan
  stage,   \* of a bundle: "firewall", "cycle" or "cases"; otherwise the step's kind
  busy,    \* a provisioning call of this step is under way
  ran,     \* cases of this bundle run so far
  results, \* one entry per case: its step, and whether it ran or was failed
  errors,  \* steps whose provisioning call returned an error that was not ignored
  faulty   \* whether calls may fail for reasons of their own

session == <<step, stage, busy, ran, results, errors, faulty>>
svars == <<vars, session>>

Step == Plan[step]

Entry(s) ==
  IF s > Len(Plan) THEN "end"
  ELSE IF Plan[s].kind = "bundle" THEN "firewall" ELSE Plan[s].kind

SInit ==
  /\ Init
  /\ step = 1 /\ stage = Entry(1) /\ busy = FALSE /\ ran = 0
  /\ results = <<>> /\ errors = {} /\ faulty \in BOOLEAN

Issue(o, x) ==
  /\ ~ busy /\ Call(o, x)
  /\ busy' = TRUE /\ UNCHANGED <<step, stage, ran, results, errors, faulty>>

WritePolicy == stage = "policy" /\ Issue("policy", Step.cycle)
IssueFirewall == stage = "firewall" /\ Issue("firewall", Step.text)
IssueCycle == stage = "cycle" /\ Issue("cycle", Step.cycle)

NextStep == step' = step + 1 /\ stage' = Entry(step + 1) /\ ran' = 0

\* Mutant: the runner goes on without waiting for the call.
ReturnedEarly == busy /\ busy' = FALSE /\ UNCHANGED vars

Returned == busy /\ pc = "idle" /\ busy' = FALSE /\ UNCHANGED vars

PolicyReturns ==
  /\ Returned /\ stage = "policy" /\ NextStep /\ UNCHANGED <<results, errors, faulty>>

\* The call's answer: `?` on the first error.
Answer == granted[F]

BundleReturns ==
  /\ Returned /\ stage \in {"firewall", "cycle"} /\ Answer
  /\ stage' = IF stage = "firewall" /\ Step.cycle # Nil THEN "cycle" ELSE "cases"
  /\ UNCHANGED <<step, ran, results, errors, faulty>>

\* Mutant: cases of the bundle are run whatever became of its rules.
BundleFailsOpen ==
  /\ Returned /\ stage \in {"firewall", "cycle"} /\ ~ Answer
  /\ stage' = "cases" /\ UNCHANGED <<step, ran, results, errors, faulty>>

\* Mutant: a failed bundle is skipped.
BundleFailsSilently ==
  /\ Returned /\ stage \in {"firewall", "cycle"} /\ ~ Answer
  /\ NextStep /\ UNCHANGED <<results, errors, faulty>>

\* provision_error for every member
BundleFails ==
  /\ Returned /\ stage \in {"firewall", "cycle"} /\ ~ Answer
  /\ NextStep
  /\ errors' = errors \cup {step}
  /\ results' = results \o [i \in 1 .. Step.cases |-> <<step, "FAIL">>]
  /\ UNCHANGED faulty

RunCase ==
  /\ stage = "cases" /\ ran < Step.cases
  /\ ran' = ran + 1 /\ results' = Append(results, <<step, "ran">>)
  /\ UNCHANGED <<vars, step, stage, busy, errors, faulty>>

BundleDone ==
  /\ stage = "cases" /\ ran = Step.cases
  /\ NextStep /\ UNCHANGED <<vars, busy, results, errors, faulty>>

\* These two commands wait for nothing.  A reset that fails, before or after its
\* effect, shows in the exit status only: the next command starts all the same.
Reset ==
  /\ stage = "reset" /\ (ResetRules \/ (faulty /\ ResetFails))
  /\ NextStep /\ UNCHANGED <<busy, results, errors, faulty>>

Manual ==
  /\ stage = "manual" /\ ProvisionRule("fw", Step.text)
  /\ NextStep /\ UNCHANGED <<busy, results, errors, faulty>>

(***************************************************************************)
(* Without faults health is always readable, every write and PUT succeeds,    *)
(* versions stay below the end of i32, and reload_timeout is longer than the  *)
(* pipeline needs: a wait expires only when nothing is left that could move.  *)
(* Looks before that change nothing.                                         *)
(***************************************************************************)
Quiet ==
  /\ Mode = "host" => cloud = depot
  /\ \A f \in Fun : depot[f] \in {NoRule, fetched[f]}
  /\ loaded = fetched \/ \E f \in Fun : fetched[f] = NoRule

FaultFree ==
  \/ ReadBefore /\ target' = NextVer(loaded[F].ver)
  \/ WriteDepot /\ pc' = AfterWrite /\ target <= I32Max
  \/ PutRule /\ pc' = AfterWrite
  \/ PollOk
  \/ PollMiss /\ ~ Satisfied /\ Quiet
  \/ Expire

Calling == (IF faulty THEN Orchestrator ELSE FaultFree) /\ UNCHANGED session

Daemons ==
  /\ (\E f \in Fun : CloudSync(f) \/ Fetch(f) \/ Apply(f)) \/ Restart
  /\ UNCHANGED session

Runner ==
  \/ WritePolicy \/ IssueFirewall \/ IssueCycle
  \/ PolicyReturns \/ BundleReturns \/ BundleFails \/ RunCase \/ BundleDone
  \/ Reset \/ Manual \/ Calling

SNext == Runner \/ Daemons

SSpec == SInit /\ [][SNext]_svars

\* fw-verify's process keeps running; nothing is assumed of the daemons.
SFairSpec == SSpec /\ WF_svars(Runner)

-----------------------------------------------------------------------------
Outcome(s) == IF s \in errors THEN "FAIL" ELSE "ran"
Reported(s) == {i \in DOMAIN results : results[i][1] = s}

\* The runner's position and the call it waits for belong to the same step.
SessionOK ==
  /\ step \in 1 .. Len(Plan) + 1 /\ (stage = "end" <=> step \notin Steps)
  /\ busy \in BOOLEAN /\ faulty \in BOOLEAN /\ errors \subseteq Steps
  /\ stage \in {"reset", "manual", "policy", "firewall", "cycle", "cases", "end"}
  /\ (pc # "idle" => busy) /\ (busy => op = stage)

\* Cases are run under the rules of their own bundle: when a case runs, idps-fw
\* enforces the text provision_bundle asked for, or nothing because it has just
\* restarted - whatever earlier bundles, expired waits or earlier sessions left
\* in the pipeline.
RanUnderOwnRules ==
  [][results' # results /\ stage = "cases"
       => loaded["fw"] = NoRule \/ loaded["fw"].text = Step.text]_svars

\* At the end every selected case has exactly one result, in the order of the
\* bundles, also the cases of bundles that could not be provisioned.
AllReported ==
  stage = "end" =>
    /\ \A s \in Steps : /\ Cardinality(Reported(s)) = Plan[s].cases
                        /\ \A i \in Reported(s) : results[i][2] = Outcome(s)
    /\ \A i, j \in DOMAIN results : i < j => results[i][1] <= results[j][1]

\* Without faults no step fails, from whatever rules the device starts with: the
\* fun=4 rule is in the pipeline before a fun=1 rule is waited for.
NothingFails == faulty \/ errors = {}

\* The command comes to its end, whatever the daemons do: every wait has its own
\* deadline.  (Without faults the deadlines are taken to be long enough instead.)
SessionEnds == faulty => <>(stage = "end")

=============================================================================
