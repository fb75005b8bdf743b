------------------------------ MODULE Provision ------------------------------
(***************************************************************************)
(* Rule delivery: fw-verify/src/provision.rs, agent/provision.rs, vsoc.rs.  *)
(*                                                                         *)
(* fw-verify hands a rule to a pipeline it does not control and polls       *)
(* idps-fw's health until the rule seems to be in force:                    *)
(*                                                                         *)
(*    host     VSOC --CloudSync--> depot --Fetch--> idps-fw --Apply--> kernel *)
(*    android  fw-verify writes the depot itself, the rest is the same       *)
(*                                                                         *)
(* The orchestrator is sequential, but idps-server and idps-fw run beside   *)
(* it, so every read of health, write and poll is an action of its own.     *)
(* Health may be unreachable at any read, a PUT may be applied and its      *)
(* answer lost, and a wait may expire while its rule is still on the way.   *)
(***************************************************************************)
EXTENDS Integers

CONSTANTS
  Mode,        \* "host" or "android": how a rule is delivered
  Texts,       \* firewall rule texts (fun_fw payloads)
  Cycles,      \* traffic-policy cycles (fun_traffic payloads)
  ConfigCycle, \* traffic_cycle_secs of idps-fw.yaml, in force before any rule
  Baseline,    \* the allow-all text reset_rules uploads in host mode
  Nil,         \* the payload of no rule
  OldVers,     \* versions a previous session may have left behind
  I32Max,      \* largest i32: depot versions are i64 cast to i32
  MaxCalls,    \* bound: provisioning calls of a behaviour
  MaxPolls,    \* bound: sleeps that fit into reload_timeout
  MaxRestarts  \* bound: restarts of idps-fw

Payload == Texts \cup Cycles \cup {Nil}

ASSUME ModeAssumption == Mode \in {"host", "android"}
ASSUME PayloadAssumption ==
  /\ Nil \notin Texts \cup Cycles
  /\ ConfigCycle \in Cycles
  /\ Baseline \in Texts
ASSUME NumberAssumption ==
  /\ I32Max \in Nat \ {0}
  /\ OldVers \subseteq 0 .. I32Max
  /\ MaxCalls \in Nat
  /\ MaxPolls \in Nat
  /\ MaxRestarts \in Nat

VARIABLES
  cloud,    \* VSOC: the stored rule of each function
  depot,    \* idps-server's depot
  fetched,  \* what idps-fw last got from idps-server
  loaded,   \* what idps-fw enforces and reports in its health snapshot
  pc,       \* where the orchestrator is
  op,       \* the call in progress
  want,     \* its payload
  target,   \* target_ver: the version it waits for
  polls,    \* sleeps of its wait loop so far
  calls,    \* calls made so far
  restarts, \* idps-fw restarts so far
  goal,     \* ghost: the rule the last write of a function put into the pipeline
  granted,  \* ghost: the last call of a function waited and returned Ok
  ahead,    \* ghost: that write's version was above every version in the pipeline
  fresh     \* ghost: no other traffic rule, nor the configuration, had its cycle

pipeline == <<cloud, depot, fetched, loaded>>
caller == <<pc, op, want, target, polls, calls>>
ghosts == <<goal, granted, ahead, fresh>>
vars == <<cloud, depot, fetched, loaded, pc, op, want, target, polls, calls,
          restarts, goal, granted, ahead, fresh>>

Fun == {"fw", "traffic"}
Rule == [ver : Int, text : Payload]

\* health has no version to report: unwrap_or(-1)
NoRule == [ver |-> -1, text |-> Nil]

Max2(a, b) == IF a >= b THEN a ELSE b

\* `ver as i32` in write_depot_rule, exact for versions up to I32Max + 1
AsI32(v) == IF v > I32Max THEN v - 2 * (I32Max + 1) ELSE v

\* firewall = provision_firewall, policy = write_traffic_rule,
\* cycle = provision_traffic_cycle
Op == {"firewall", "policy", "cycle"}
FunOf(o) == IF o = "firewall" THEN "fw" ELSE "traffic"
PayloadOf(o) == IF o = "firewall" THEN Texts ELSE Cycles
F == FunOf(op)

\* Mutant: the unknown version -1 is not lifted to 0 first.
NextVerUnclamped(before) == before + 1

\* target_ver = before.max(0) + 1
NextVer(before) == Max2(before, 0) + 1

\* VSOC numbers an upserted rule one above the stored one.
VsocVer(stored) == Max2(stored, 0) + 1

\* provision_rule without a version: previous.ver.saturating_add(1), where the
\* metadata of a missing rule has version 0 (unwrap_or_default)
SaturatingNext(previous) ==
  LET ver == IF previous = NoRule THEN 0 ELSE previous.ver
  IN  IF ver >= I32Max THEN I32Max ELSE ver + 1

(***************************************************************************)
(* A previous session may have left rules behind; idps-fw may have them in  *)
(* force or, just restarted, may not have asked for them yet.  In host mode *)
(* everything on the device came from VSOC.                                 *)
(***************************************************************************)
OldRules(f) ==
  [ver : OldVers, text : PayloadOf(IF f = "fw" THEN "firewall" ELSE "cycle")]

Init ==
  /\ \E old \in [Fun -> [ver : OldVers, text : Payload] \cup {NoRule}] :
       /\ \A f \in Fun : old[f] \in OldRules(f) \cup {NoRule}
       /\ cloud = IF Mode = "host" THEN old ELSE [f \in Fun |-> NoRule]
       /\ depot = old
       /\ \/ fetched = [f \in Fun |-> NoRule]
          \/ fetched = old /\ \A f \in Fun : old[f] # NoRule
  /\ loaded = fetched
  /\ pc = "idle" /\ op = "policy" /\ want = Nil /\ target = 1 /\ polls = 0
  /\ calls = 0 /\ restarts = 0
  /\ goal = [f \in Fun |-> NoRule]
  /\ granted = [f \in Fun |-> FALSE]
  /\ ahead = [f \in Fun |-> FALSE]
  /\ fresh = FALSE

(***************************************************************************)
(* The orchestrator.                                                        *)
(***************************************************************************)

\* Mutant: every mode takes the depot path.
CallDepotPath(o, x) ==
  /\ pc = "idle" /\ calls < MaxCalls
  /\ pc' = "read"
  /\ op' = o /\ want' = x /\ polls' = 0 /\ calls' = calls + 1
  /\ granted' = [granted EXCEPT ![FunOf(o)] = FALSE]
  /\ ahead' = [ahead EXCEPT ![FunOf(o)] = FALSE]
  /\ fresh' = (fresh /\ FunOf(o) # "traffic")
  /\ UNCHANGED <<pipeline, target, restarts, goal>>

Call(o, x) ==
  /\ pc = "idle" /\ calls < MaxCalls
  /\ pc' = IF Mode = "android" THEN "read" ELSE "put"
  /\ op' = o /\ want' = x /\ polls' = 0 /\ calls' = calls + 1
  /\ granted' = [granted EXCEPT ![FunOf(o)] = FALSE]
  /\ ahead' = [ahead EXCEPT ![FunOf(o)] = FALSE]
  /\ fresh' = (fresh /\ FunOf(o) # "traffic")
  /\ UNCHANGED <<pipeline, target, restarts, goal>>

\* Android reads the version in force to choose the next one; a failed health
\* read counts as "no version".
ReadBefore ==
  /\ pc = "read"
  /\ \E before \in {loaded[F].ver, -1} : target' = NextVer(before)
  /\ pc' = "write"
  /\ UNCHANGED <<pipeline, op, want, polls, calls, restarts, ghosts>>

\* write_traffic_rule does not wait, the other two calls poll health
AfterWrite == IF op = "policy" THEN "idle" ELSE "wait"

Publish(rule) ==
  /\ goal' = [goal EXCEPT ![F] = rule]
  /\ ahead' = [ahead EXCEPT ![F] = \A s \in {cloud, depot, fetched, loaded} :
                                      s[F].ver < rule.ver]
  /\ fresh' = IF F = "traffic"
              THEN /\ ConfigCycle # rule.text
                   /\ \A s \in {cloud, depot, fetched, loaded} : s[F].text # rule.text
              ELSE fresh

\* The rule is saved before the missing runtime key is noticed, so a keyless
\* write fails with the depot already changed.
WriteDepot ==
  /\ pc = "write"
  /\ LET rule == [ver |-> AsI32(target), text |-> want] IN
       depot' = [depot EXCEPT ![F] = rule] /\ Publish(rule)
  /\ pc' \in {AfterWrite, "idle"}
  /\ UNCHANGED <<cloud, fetched, loaded, op, want, target, polls, calls,
                 restarts, granted>>

\* VSOC numbers the rules; curl may give up after VSOC stored the rule.
PutRule ==
  /\ pc = "put"
  /\ LET rule == [ver |-> VsocVer(cloud[F].ver), text |-> want] IN
       /\ cloud' = [cloud EXCEPT ![F] = rule] /\ Publish(rule)
       /\ \/ target' = rule.ver /\ pc' = AfterWrite
          \/ UNCHANGED target /\ pc' = "idle"
  /\ UNCHANGED <<depot, fetched, loaded, op, want, polls, calls, restarts,
                 granted>>

\* The write or the PUT fails and changes nothing.
WriteFails ==
  /\ pc \in {"write", "put"}
  /\ pc' = "idle"
  /\ UNCHANGED <<pipeline, op, want, target, polls, calls, restarts, ghosts>>

\* traffic_cycle_secs of the health snapshot
CycleInForce ==
  IF loaded["traffic"] = NoRule THEN ConfigCycle ELSE loaded["traffic"].text

\* Mutant: one version too few.
SatisfiedOffByOne ==
  IF op = "firewall" THEN loaded["fw"].ver >= target - 1 ELSE CycleInForce = want

\* Mutant: a snapshot without a version is taken for success.
SatisfiedUnread ==
  IF op = "firewall" THEN loaded["fw"] = NoRule \/ loaded["fw"].ver >= target
  ELSE CycleInForce = want

\* Mutant: the cycle is awaited by its version, as the firewall rule is.
SatisfiedByVersion == loaded[F].ver >= target

\* wait_for compares versions, wait_for_cycle compares values
Satisfied ==
  IF op = "firewall" THEN loaded["fw"].ver >= target ELSE CycleInForce = want

PollOk ==
  /\ pc = "wait" /\ Satisfied
  /\ pc' = "idle"
  /\ granted' = [granted EXCEPT ![F] = TRUE]
  /\ UNCHANGED <<pipeline, op, want, target, polls, calls, restarts, goal, ahead,
                 fresh>>

\* The condition does not hold yet, or health could not be read.
PollMiss ==
  /\ pc = "wait"
  /\ pc' = "late"
  /\ UNCHANGED <<pipeline, op, want, target, polls, calls, restarts, ghosts>>

\* The deadline is looked at only after a miss.
Expire ==
  /\ pc = "late"
  /\ pc' = "idle"
  /\ UNCHANGED <<pipeline, op, want, target, polls, calls, restarts, ghosts>>

\* Mutant: the loop has no deadline.
SleepPollForever ==
  /\ pc = "late"
  /\ pc' = "wait"
  /\ UNCHANGED <<pipeline, op, want, target, polls, calls, restarts, ghosts>>

SleepPoll ==
  /\ pc = "late" /\ polls < MaxPolls
  /\ pc' = "wait" /\ polls' = polls + 1
  /\ UNCHANGED <<pipeline, op, want, target, calls, restarts, ghosts>>

\* reset_rules waits for nothing: host uploads the baseline, Android removes the
\* depot files of both functions.  The same is left behind when the PUT's answer or
\* the shell's result is lost and `?` makes an error of it.
ResetRules ==
  /\ pc = "idle" /\ calls < MaxCalls
  /\ calls' = calls + 1
  /\ IF Mode = "host"
     THEN /\ cloud' = [cloud EXCEPT !["fw"] =
                          [ver |-> VsocVer(cloud["fw"].ver), text |-> Baseline]]
          /\ granted' = [granted EXCEPT !["fw"] = FALSE]
          /\ ahead' = [ahead EXCEPT !["fw"] = FALSE]
          /\ UNCHANGED <<depot, fresh>>
     ELSE /\ depot' = [f \in Fun |-> NoRule]
          /\ granted' = [f \in Fun |-> FALSE]
          /\ ahead' = [f \in Fun |-> FALSE]
          /\ fresh' = FALSE
          /\ UNCHANGED cloud
  /\ UNCHANGED <<fetched, loaded, pc, op, want, target, polls, restarts, goal>>

\* The PUT is refused, no shell could be started, or `rm` removed nothing.
ResetFails ==
  /\ pc = "idle" /\ calls < MaxCalls
  /\ calls' = calls + 1
  /\ UNCHANGED <<pipeline, pc, op, want, target, polls, restarts, ghosts>>

\* The manual `agent provision-rule`: a depot write with the operator's version
\* or the successor of the stored one, and no wait.
ProvisionRule(f, x) ==
  /\ Mode = "android" /\ pc = "idle" /\ calls < MaxCalls
  /\ calls' = calls + 1
  /\ \E v \in OldVers \cup {SaturatingNext(depot[f])} :
       depot' = [depot EXCEPT ![f] = [ver |-> v, text |-> x]]
  /\ granted' = [granted EXCEPT ![f] = FALSE]
  /\ ahead' = [ahead EXCEPT ![f] = FALSE]
  /\ fresh' = (fresh /\ f # "traffic")
  /\ UNCHANGED <<cloud, fetched, loaded, pc, op, want, target, polls, restarts, goal>>

(***************************************************************************)
(* idps-server and idps-fw, as the code uses them (external).               *)
(***************************************************************************)
CloudSync(f) ==
  /\ Mode = "host" /\ cloud[f] # depot[f]
  /\ depot' = [depot EXCEPT ![f] = cloud[f]]
  /\ UNCHANGED <<cloud, fetched, loaded, caller, restarts, ghosts>>

\* Whether idps-fw takes an older or an equal version is left open.
Fetch(f) ==
  /\ depot[f] \notin {NoRule, fetched[f]}
  /\ fetched' = [fetched EXCEPT ![f] = depot[f]]
  /\ UNCHANGED <<cloud, depot, loaded, caller, restarts, ghosts>>

\* idps-fw stays in RuleSyncing until it has a rule of both functions.
Apply(f) ==
  /\ \A g \in Fun : fetched[g] # NoRule
  /\ fetched[f] # loaded[f]
  /\ loaded' = [loaded EXCEPT ![f] = fetched[f]]
  /\ UNCHANGED <<cloud, depot, fetched, caller, restarts, ghosts>>

Restart ==
  /\ restarts < MaxRestarts
  /\ restarts' = restarts + 1
  /\ fetched' = [f \in Fun |-> NoRule]
  /\ loaded' = [f \in Fun |-> NoRule]
  /\ UNCHANGED <<cloud, depot, caller, ghosts>>

Orchestrator ==
  \/ ReadBefore \/ WriteDepot \/ PutRule \/ WriteFails
  \/ PollOk \/ PollMiss \/ Expire \/ SleepPoll

Next ==
  \/ \E o \in Op : \E x \in PayloadOf(o) : Call(o, x)
  \/ Orchestrator
  \/ ResetRules \/ ResetFails
  \/ \E o \in {"firewall", "cycle"} : \E x \in PayloadOf(o) : ProvisionRule(FunOf(o), x)
  \/ \E f \in Fun : CloudSync(f) \/ Fetch(f) \/ Apply(f)
  \/ Restart

Spec == Init /\ [][Next]_vars

-----------------------------------------------------------------------------
(***************************************************************************)
(* Properties.                                                              *)
(***************************************************************************)
Located == {"idle", "read", "write", "put", "wait", "late"}

\* Every stage of the pipeline holds rules, and the version a call waits for is
\* at least 1: `before.max(0) + 1` never lets the "unknown" version -1 of an
\* unreachable health snapshot turn into a target every snapshot satisfies.
TypeOK ==
  /\ cloud \in [Fun -> Rule] /\ depot \in [Fun -> Rule]
  /\ fetched \in [Fun -> Rule] /\ loaded \in [Fun -> Rule]
  /\ goal \in [Fun -> Rule]
  /\ pc \in Located /\ op \in Op /\ want \in Payload
  /\ target \in Nat \ {0}
  /\ polls \in 0 .. MaxPolls /\ calls \in 0 .. MaxCalls
  /\ restarts \in 0 .. MaxRestarts
  /\ granted \in [Fun -> BOOLEAN] /\ ahead \in [Fun -> BOOLEAN]
  /\ fresh \in BOOLEAN

\* provision_firewall blocks "until idps-fw loads it": once it has returned Ok,
\* and until the next call for the same function, idps-fw enforces exactly that
\* rule, or none because it restarted - never another rule, although versions
\* of earlier sessions and expired calls may still be moving down the pipeline.
FirewallInForce ==
  granted["fw"] => loaded["fw"] = NoRule \/ loaded["fw"].text = goal["fw"].text

\* The same promise for the calls whose version was above every version in the
\* pipeline when they wrote it: then `firewall_rule_ver >= target_ver` cannot be
\* true of any other rule.
AheadGrantInForce ==
  granted["fw"] /\ ahead["fw"] => loaded["fw"] \in {NoRule, goal["fw"]}

\* wait_for_cycle has no version to compare, only a value.  When neither a rule in
\* the pipeline nor the configuration had that value, the value identifies the
\* rule: once provision_traffic_cycle has returned Ok, and until the next traffic
\* write, idps-fw applies exactly the rule it wrote, or none because it restarted -
\* no cycle of an expired call or an earlier session follows it down.  Without
\* `fresh` this fails: a value that was there before shows nothing of the new rule.
CycleGrantInForce ==
  granted["traffic"] /\ fresh => loaded["traffic"] \in {NoRule, goal["traffic"]}

NoNewer(s, t) == \A f \in Fun : s[f].ver <= t[f].ver

SameIfSameVer(s, t) == \A f \in Fun : s[f].ver = t[f].ver => s[f] = t[f]

\* Host delivery is monotone: whatever calls expired, were lost or were repeated,
\* and however often idps-fw restarts, no stage is newer than the stage before
\* it, and a version stands for one rule wherever it is seen.  This is what
\* entitles wait_for to compare versions with `>=`.
VersionsFlowForward ==
  Mode = "host" =>
    /\ NoNewer(depot, cloud) /\ NoNewer(fetched, depot) /\ NoNewer(loaded, fetched)
    /\ SameIfSameVer(depot, cloud) /\ SameIfSameVer(fetched, cloud)
    /\ SameIfSameVer(loaded, cloud)

D == INSTANCE Delivery WITH
       asked <- goal["fw"].text, ok <- granted["fw"], inforce <- loaded["fw"].text

\* Host delivery implements its abstract specification: versions, `>=`, the poll
\* loop and idps-server's and idps-fw's own steps add up to a provision_firewall
\* that says Ok only when its text is enforced, and no rule of an earlier call
\* follows it down.
DeliversAsPromised == D!DSpec

=============================================================================
