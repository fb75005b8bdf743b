--------------------------- MODULE Provision_proofs ---------------------------
(***************************************************************************)
(* What rule delivery guarantees for every set of texts and cycles, every   *)
(* version history and every number of calls, polls and restarts.           *)
(*                                                                         *)
(* The argument.  A write is "ahead" when its version is above every version *)
(* in the pipeline.  From then on every stage holds either an older version  *)
(* or that very rule (Behind), and a stage holds the rule only if the stage   *)
(* before it does (Chain).  So a health snapshot with a version not below the *)
(* awaited one shows the awaited rule, and no older rule can follow it down.  *)
(* In host mode the versions decrease down the pipeline, hence every write is *)
(* ahead.                                                                    *)
(***************************************************************************)
EXTENDS Provision, TLAPS

\* Which program locations a mode uses, and what stays empty on Android.
ModeInv ==
  /\ Mode = "host" => pc \notin {"read", "write"}
  /\ Mode = "android" => pc # "put" /\ \A f \in Fun : cloud[f] = NoRule

\* On Android every version is an i32, so the cast in write_depot_rule is exact
\* for every target but I32Max + 1.
RangeInv ==
  Mode = "android" =>
    /\ \A f \in Fun : /\ depot[f].ver <= I32Max
                      /\ fetched[f].ver <= I32Max
                      /\ loaded[f].ver <= I32Max
    /\ target <= I32Max + 1

Behind(s, f) == s[f].ver < goal[f].ver \/ s[f] = goal[f]

Chain(f) ==
  /\ loaded[f] = goal[f] => fetched[f] = goal[f]
  /\ fetched[f] = goal[f] => depot[f] = goal[f]

\* What follows a write that was ahead of the whole pipeline.
AheadInv ==
  \A f \in Fun : ahead[f] =>
    /\ goal[f].ver >= 0
    /\ Behind(depot, f) /\ Behind(fetched, f) /\ Behind(loaded, f)
    /\ Chain(f)
    /\ Mode = "host" => cloud[f] = goal[f]
    /\ Mode = "android" => depot[f] = goal[f]

\* A wait for such a write waits for that write's version, and a call under way
\* has not been granted.
WaitInv ==
  /\ pc \in {"wait", "late"} /\ ahead[F] => goal[F].ver = target
  /\ pc # "idle" => ~granted[F]

\* Nothing but the granted rule is left anywhere below the write.
GrantInv ==
  granted["fw"] /\ ahead["fw"] =>
    /\ depot["fw"] = goal["fw"]
    /\ fetched["fw"] \in {NoRule, goal["fw"]}
    /\ loaded["fw"] \in {NoRule, goal["fw"]}

IInv == TypeOK /\ ModeInv /\ RangeInv /\ AheadInv /\ WaitInv /\ GrantInv

\* In host mode every write is ahead, and only NoRule has version -1.
HostInv ==
  Mode = "host" =>
    /\ \A f \in Fun : /\ cloud[f].ver >= -1 /\ depot[f].ver >= -1
                      /\ cloud[f].ver = -1 => cloud[f] = NoRule
    /\ granted["fw"] => ahead["fw"]
    /\ pc \in {"wait", "late"} => ahead[F]

HInv == IInv /\ VersionsFlowForward /\ HostInv

-----------------------------------------------------------------------------
USE ModeAssumption, PayloadAssumption, NumberAssumption

\* The payload of a call is a payload, and NoRule is a rule.
LEMMA PayloadFacts ==
  /\ NoRule \in Rule /\ NoRule.ver = -1
  /\ \A o \in Op : FunOf(o) \in Fun /\ PayloadOf(o) \subseteq Payload
  /\ \A v \in Int, x \in Payload : [ver |-> v, text |-> x] \in Rule
BY DEF NoRule, Rule, Payload, Op, FunOf, PayloadOf, Fun

\* The version operators of the three writers stay within their ranges.
LEMMA VersionFacts ==
  ASSUME NEW v \in Int
  PROVE  /\ NextVer(v) \in Nat \ {0} /\ NextVer(v) > v
         /\ VsocVer(v) \in Nat \ {0} /\ VsocVer(v) > v
         /\ AsI32(v) \in Int
         /\ v <= I32Max => AsI32(v) = v /\ NextVer(v) <= I32Max + 1
         /\ v = I32Max + 1 => AsI32(v) = - I32Max - 1
BY DEF NextVer, VsocVer, Max2, AsI32

\* provision_rule's own version saturates at the end of i32.
LEMMA SaturatingFacts ==
  ASSUME NEW r \in Rule
  PROVE  SaturatingNext(r) \in Int /\ SaturatingNext(r) <= I32Max
BY DEF SaturatingNext, Rule

\* Initially every stage holds a well-formed rule and no call is under way.
LEMMA TypeInit == Init => TypeOK
<1> SUFFICES ASSUME Init PROVE TypeOK
  OBVIOUS
<1>1. PICK old \in [Fun -> [ver : OldVers, text : Payload] \cup {NoRule}] :
        /\ \A f \in Fun : old[f] \in OldRules(f) \cup {NoRule}
        /\ cloud = IF Mode = "host" THEN old ELSE [f \in Fun |-> NoRule]
        /\ depot = old
        /\ \/ fetched = [f \in Fun |-> NoRule]
           \/ fetched = old /\ \A f \in Fun : old[f] # NoRule
  BY DEF Init
<1>2. \A r \in [ver : OldVers, text : Payload] : r \in Rule
  <2>1. \A v \in OldVers : v \in Int
    OBVIOUS
  <2> QED
    BY <2>1 DEF Rule
<1>3. old \in [Fun -> Rule] /\ [f \in Fun |-> NoRule] \in [Fun -> Rule]
  BY <1>1, <1>2, PayloadFacts
<1>4. fresh \in BOOLEAN
  BY DEF Init
<1> QED
  BY <1>1, <1>3, <1>4 DEF Init, TypeOK, Located, Op, Payload

\* Every step keeps the state well typed.
LEMMA TypeNext == TypeOK /\ [Next]_vars => TypeOK'
<1> SUFFICES ASSUME TypeOK, [Next]_vars PROVE TypeOK'
  OBVIOUS
<1> USE DEF TypeOK, Located, Fun
<1> F \in Fun
  BY PayloadFacts DEF F
<1>1. ASSUME NEW o \in Op, NEW x \in PayloadOf(o), Call(o, x) PROVE TypeOK'
  BY <1>1, PayloadFacts DEF Call, pipeline
<1>2. CASE ReadBefore
  <2>1. PICK before \in {loaded[F].ver, -1} : target' = NextVer(before)
    BY <1>2 DEF ReadBefore
  <2>2. before \in Int
    BY <2>1 DEF Rule
  <2> QED
    BY <1>2, <2>1, <2>2, VersionFacts DEF ReadBefore, pipeline, ghosts
<1>3. CASE WriteDepot
  <2>1. [ver |-> AsI32(target), text |-> want] \in Rule
    BY PayloadFacts, VersionFacts
  <2> QED
    BY <1>3, <2>1 DEF WriteDepot, Publish, AfterWrite
<1>4. CASE PutRule
  <2>1. cloud[F].ver \in Int
    BY DEF Rule
  <2>2. /\ VsocVer(cloud[F].ver) \in Nat \ {0}
        /\ [ver |-> VsocVer(cloud[F].ver), text |-> want] \in Rule
    BY <2>1, PayloadFacts, VersionFacts
  <2> QED
    BY <1>4, <2>2 DEF PutRule, Publish, AfterWrite
<1>5. CASE WriteFails
  BY <1>5 DEF WriteFails, pipeline, ghosts
<1>6. CASE PollOk
  BY <1>6 DEF PollOk, pipeline
<1>7. CASE PollMiss
  BY <1>7 DEF PollMiss, pipeline, ghosts
<1>8. CASE Expire
  BY <1>8 DEF Expire, pipeline, ghosts
<1>9. CASE SleepPoll
  BY <1>9 DEF SleepPoll, pipeline, ghosts
<1>10. CASE ResetRules
  <2>1. cloud["fw"].ver \in Int
    BY DEF Rule
  <2>2. [ver |-> VsocVer(cloud["fw"].ver), text |-> Baseline] \in Rule
    BY <2>1, PayloadFacts, VersionFacts DEF Payload
  <2>3. CASE Mode = "host"
    <3>1. /\ cloud' = [cloud EXCEPT !["fw"] =
                           [ver |-> VsocVer(cloud["fw"].ver), text |-> Baseline]]
          /\ depot' = depot
          /\ granted' = [granted EXCEPT !["fw"] = FALSE]
          /\ ahead' = [ahead EXCEPT !["fw"] = FALSE]
          /\ fresh' = fresh
      BY <1>10, <2>3 DEF ResetRules
    <3> QED
      BY <1>10, <2>2, <3>1 DEF ResetRules
  <2>4. CASE Mode = "android"
    <3>1. /\ cloud' = cloud /\ depot' = [f \in Fun |-> NoRule]
          /\ granted' = [f \in Fun |-> FALSE] /\ ahead' = [f \in Fun |-> FALSE]
          /\ fresh' \in BOOLEAN
      BY <1>10, <2>4 DEF ResetRules
    <3> QED
      BY <1>10, <3>1, PayloadFacts DEF ResetRules
  <2> QED
    BY <2>3, <2>4
<1>11. ASSUME NEW f \in Fun, NEW x \in Payload, ProvisionRule(f, x) PROVE TypeOK'
  <2>1. PICK v \in OldVers \cup {SaturatingNext(depot[f])} :
          depot' = [depot EXCEPT ![f] = [ver |-> v, text |-> x]]
    BY <1>11 DEF ProvisionRule
  <2>2. depot[f].ver \in Int
    BY DEF Rule
  <2>3. [ver |-> v, text |-> x] \in Rule
    BY <2>1, <2>2, PayloadFacts, VersionFacts
  <2> QED
    BY <1>11, <2>1, <2>3 DEF ProvisionRule
<1>12. ASSUME NEW f \in Fun, CloudSync(f) \/ Fetch(f) \/ Apply(f) PROVE TypeOK'
  BY <1>12 DEF CloudSync, Fetch, Apply, caller, ghosts
<1>13. CASE Restart
  BY <1>13, PayloadFacts DEF Restart, caller, ghosts
<1>14. CASE UNCHANGED vars
  BY <1>14 DEF vars
<1>15. \A o \in {"firewall", "cycle"} : FunOf(o) \in Fun /\ PayloadOf(o) \subseteq Payload
  BY PayloadFacts DEF Op
<1>16. CASE ResetFails
  BY <1>16 DEF ResetFails, pipeline, ghosts
<1> QED
  BY <1>1, <1>2, <1>3, <1>4, <1>5, <1>6, <1>7, <1>8, <1>9, <1>10, <1>11, <1>12,
     <1>13, <1>14, <1>15, <1>16 DEF Next, Orchestrator

\* Type correctness of rule delivery, in either mode: in particular a call
\* always waits for a version of at least 1, so an unreachable or ruleless
\* idps-fw (version -1 in provision.rs) never satisfies it.
THEOREM TypeCorrect == Spec => []TypeOK
BY TypeInit, TypeNext, PTL DEF Spec

-----------------------------------------------------------------------------
\* The initial states satisfy the strengthened invariant.
LEMMA InvInit == Init => HInv
<1> SUFFICES ASSUME Init PROVE HInv
  OBVIOUS
<1>1. PICK old \in [Fun -> [ver : OldVers, text : Payload] \cup {NoRule}] :
        /\ cloud = IF Mode = "host" THEN old ELSE [f \in Fun |-> NoRule]
        /\ depot = old
        /\ \/ fetched = [f \in Fun |-> NoRule]
           \/ fetched = old
  BY DEF Init
<1>2. /\ \A f \in Fun : old[f].ver \in -1 .. I32Max
      /\ \A f \in Fun : old[f].ver = -1 => old[f] = NoRule
  <2>1. \A v \in OldVers : v \in 0 .. I32Max
    OBVIOUS
  <2>2. NoRule.ver = -1
    BY PayloadFacts
  <2>3. ASSUME NEW f \in Fun
        PROVE  old[f].ver \in -1 .. I32Max /\ (old[f].ver = -1 => old[f] = NoRule)
    <3>1. CASE old[f] = NoRule
      BY <2>2, <3>1
    <3>2. CASE old[f] \in [ver : OldVers, text : Payload]
      <4>1. old[f].ver \in OldVers
        BY <3>2
      <4>2. old[f].ver \in 0 .. I32Max
        BY <2>1, <4>1
      <4> QED
        BY <4>2
    <3> QED
      BY <1>1, <3>1, <3>2
  <2> QED
    BY <2>3
<1>3. /\ loaded = fetched /\ pc = "idle" /\ target = 1
      /\ granted = [f \in Fun |-> FALSE] /\ ahead = [f \in Fun |-> FALSE]
  BY DEF Init
<1>4. TypeOK
  BY TypeInit
<1>5. ModeInv /\ RangeInv /\ VersionsFlowForward
  BY <1>1, <1>2, <1>3, PayloadFacts
     DEF ModeInv, RangeInv, VersionsFlowForward, NoNewer, SameIfSameVer, Fun
<1>6. AheadInv /\ WaitInv /\ GrantInv /\ HostInv
  BY <1>1, <1>2, <1>3 DEF AheadInv, WaitInv, GrantInv, HostInv, Fun
<1> QED
  BY <1>4, <1>5, <1>6 DEF HInv, IInv

\* A write above every version of the pipeline makes its rule the only one that
\* can still reach the awaited version.
LEMMA AheadStep ==
  ASSUME IInv, WriteDepot \/ PutRule
  PROVE  IInv'
<1> USE DEF Fun, Behind, Chain
<1>1. TypeOK /\ TypeOK'
  BY TypeNext DEF IInv, Next, Orchestrator
<1>2. F \in Fun /\ F' = F
  BY <1>1, PayloadFacts DEF F, TypeOK, WriteDepot, PutRule
<1>3. /\ \A f \in Fun : /\ cloud[f].ver \in Int /\ depot[f].ver \in Int
                        /\ fetched[f].ver \in Int /\ loaded[f].ver \in Int
                        /\ goal[f].ver \in Int
      /\ target \in Nat \ {0}
  BY <1>1 DEF TypeOK, Rule
<1>4. CASE WriteDepot
  <2> DEFINE rule == [ver |-> AsI32(target), text |-> want]
  <2>1. /\ pc = "write" /\ pc' \in {"idle", "wait"}
        /\ depot' = [depot EXCEPT ![F] = rule]
        /\ goal' = [goal EXCEPT ![F] = rule]
        /\ ahead' = [ahead EXCEPT ![F] = \A s \in {cloud, depot, fetched, loaded} :
                                            s[F].ver < rule.ver]
        /\ cloud' = cloud /\ fetched' = fetched /\ loaded' = loaded
        /\ target' = target /\ granted' = granted
    BY <1>4 DEF WriteDepot, Publish, AfterWrite
  <2>2. Mode = "android"
    BY <2>1 DEF IInv, ModeInv
  <2>3. rule.ver \in Int /\ rule.ver <= I32Max
    BY <1>3, <2>2, VersionFacts DEF IInv, RangeInv
  <2>4. ahead'[F] => /\ rule.ver >= 0 /\ rule.ver = target
                     /\ depot[F].ver < rule.ver /\ fetched[F].ver < rule.ver
                     /\ loaded[F].ver < rule.ver
    <3>1. cloud[F].ver = -1
      BY <1>2, <2>2, PayloadFacts DEF IInv, ModeInv
    <3>2. ahead'[F] => \A s \in {cloud, depot, fetched, loaded} : s[F].ver < rule.ver
      BY <1>1, <1>2, <2>1 DEF TypeOK
    <3>3. target <= I32Max + 1
      BY <2>2 DEF IInv, RangeInv
    <3>4. rule.ver >= 0 => rule.ver = target
      BY <1>3, <3>3, VersionFacts
    <3> QED
      BY <1>2, <1>3, <2>3, <3>1, <3>2, <3>4
  <2> HIDE DEF rule
  <2>5. ModeInv' /\ RangeInv'
    <3>1. \A f \in Fun : depot'[f].ver <= I32Max
      BY <1>1, <1>2, <2>1, <2>2, <2>3 DEF IInv, RangeInv, TypeOK
    <3> QED
      BY <1>1, <2>1, <2>2, <3>1 DEF IInv, ModeInv, RangeInv
  <2>6. ASSUME NEW f \in Fun, ahead'[f], f # F
        PROVE  /\ ahead[f] /\ goal'[f] = goal[f] /\ depot'[f] = depot[f]
    BY <1>1, <1>2, <2>1, <2>6 DEF TypeOK
  <2>7. goal'[F] = rule /\ depot'[F] = rule
    BY <1>1, <1>2, <2>1 DEF TypeOK
  <2>8. AheadInv'
    BY <1>1, <1>2, <1>3, <2>1, <2>2, <2>3, <2>4, <2>6, <2>7 DEF IInv, AheadInv
  <2>9. WaitInv'
    BY <1>2, <2>1, <2>4, <2>7 DEF IInv, WaitInv
  <2>10. GrantInv'
    <3>1. CASE F = "fw"
      BY <2>1, <3>1 DEF IInv, WaitInv, GrantInv
    <3>2. CASE F # "fw"
      BY <1>1, <1>2, <2>1, <2>6, <3>2 DEF IInv, GrantInv, TypeOK
    <3> QED
      BY <3>1, <3>2
  <2> QED
    BY <1>1, <2>5, <2>8, <2>9, <2>10 DEF IInv
<1>5. CASE PutRule
  <2> DEFINE rule == [ver |-> VsocVer(cloud[F].ver), text |-> want]
  <2>1. /\ pc = "put" /\ pc' \in {"idle", "wait"}
        /\ cloud' = [cloud EXCEPT ![F] = rule]
        /\ goal' = [goal EXCEPT ![F] = rule]
        /\ ahead' = [ahead EXCEPT ![F] = \A s \in {cloud, depot, fetched, loaded} :
                                            s[F].ver < rule.ver]
        /\ depot' = depot /\ fetched' = fetched /\ loaded' = loaded
        /\ granted' = granted
        /\ pc' = "wait" => target' = rule.ver
    BY <1>5 DEF PutRule, Publish, AfterWrite
  <2>2. Mode = "host"
    BY <2>1 DEF IInv, ModeInv
  <2>3. rule.ver \in Nat
    BY <1>2, <1>3, VersionFacts
  <2>4. ahead'[F] => /\ depot[F].ver < rule.ver /\ fetched[F].ver < rule.ver
                     /\ loaded[F].ver < rule.ver
    BY <1>1, <1>2, <2>1 DEF TypeOK
  <2> HIDE DEF rule
  <2>5. ModeInv' /\ RangeInv'
    BY <2>1, <2>2 DEF IInv, ModeInv, RangeInv
  <2>6. ASSUME NEW f \in Fun, ahead'[f], f # F
        PROVE  /\ ahead[f] /\ goal'[f] = goal[f] /\ cloud'[f] = cloud[f]
    BY <1>1, <1>2, <2>1, <2>6 DEF TypeOK
  <2>7. goal'[F] = rule /\ cloud'[F] = rule
    BY <1>1, <1>2, <2>1 DEF TypeOK
  <2>8. AheadInv'
    BY <1>1, <1>2, <1>3, <2>1, <2>2, <2>3, <2>4, <2>6, <2>7 DEF IInv, AheadInv
  <2>9. WaitInv'
    BY <1>2, <2>1, <2>4, <2>7 DEF IInv, WaitInv
  <2>10. GrantInv'
    <3>1. CASE F = "fw"
      BY <2>1, <3>1 DEF IInv, WaitInv, GrantInv
    <3>2. CASE F # "fw"
      BY <1>1, <1>2, <2>1, <2>6, <3>2 DEF IInv, GrantInv, TypeOK
    <3> QED
      BY <3>1, <3>2
  <2> QED
    BY <1>1, <2>5, <2>8, <2>9, <2>10 DEF IInv
<1> QED
  BY <1>4, <1>5

\* Every step of the orchestrator, the operator, idps-server and idps-fw keeps
\* the strengthened invariant.
LEMMA InvNext == IInv /\ [Next]_vars => IInv'
<1> SUFFICES ASSUME IInv, [Next]_vars PROVE IInv'
  OBVIOUS
<1> USE DEF Fun, Behind, Chain
<1>1. TypeOK /\ TypeOK'
  BY TypeNext DEF IInv
<1>2. F \in Fun
  BY <1>1, PayloadFacts DEF F, TypeOK
<1>3. /\ \A f \in Fun : /\ cloud[f].ver \in Int /\ depot[f].ver \in Int
                        /\ fetched[f].ver \in Int /\ loaded[f].ver \in Int
                        /\ goal[f].ver \in Int
      /\ target \in Nat \ {0}
  BY <1>1 DEF TypeOK, Rule
<1>4. ASSUME NEW o \in Op, NEW x \in PayloadOf(o), Call(o, x) PROVE IInv'
  <2>1. /\ pc' \in {"read", "put"} /\ (pc' = "read" <=> Mode = "android")
        /\ op' = o /\ target' = target /\ goal' = goal
        /\ granted' = [granted EXCEPT ![FunOf(o)] = FALSE]
        /\ ahead' = [ahead EXCEPT ![FunOf(o)] = FALSE]
        /\ cloud' = cloud /\ depot' = depot /\ fetched' = fetched /\ loaded' = loaded
    BY <1>4 DEF Call, pipeline
  <2>2. /\ F' = FunOf(o) /\ FunOf(o) \in Fun
    BY <2>1, PayloadFacts DEF F
  <2>3. \A f \in Fun : (ahead'[f] => ahead[f]) /\ (granted'[f] => granted[f])
    BY <1>1, <2>1, <2>2 DEF TypeOK
  <2>4. ModeInv' /\ RangeInv' /\ AheadInv' /\ GrantInv'
    BY <2>1, <2>3 DEF IInv, ModeInv, RangeInv, AheadInv, GrantInv
  <2>5. WaitInv'
    BY <1>1, <2>1, <2>2 DEF WaitInv, TypeOK
  <2> QED
    BY <1>1, <2>4, <2>5 DEF IInv
<1>5. CASE ReadBefore
  <2>1. PICK before \in {loaded[F].ver, -1} : target' = NextVer(before)
    BY <1>5 DEF ReadBefore
  <2>2. /\ pc = "read" /\ pc' = "write" /\ F' = F /\ goal' = goal
        /\ granted' = granted /\ ahead' = ahead
        /\ cloud' = cloud /\ depot' = depot /\ fetched' = fetched /\ loaded' = loaded
    BY <1>5 DEF ReadBefore, F, pipeline, ghosts
  <2>3. Mode = "android"
    BY <2>2 DEF IInv, ModeInv
  <2>4. target' <= I32Max + 1
    BY <1>2, <1>3, <2>1, <2>3, VersionFacts DEF IInv, RangeInv
  <2> QED
    BY <1>1, <2>2, <2>3, <2>4
       DEF IInv, ModeInv, RangeInv, AheadInv, WaitInv, GrantInv
<1>6. CASE WriteDepot \/ PutRule
  BY <1>6, AheadStep
<1>7. CASE WriteFails \/ PollMiss \/ Expire \/ SleepPoll
  <2>1. /\ pc # "idle" /\ pc' \in {"idle", "wait", "late"}
        /\ pc' \in {"wait", "late"} => pc \in {"wait", "late"}
        /\ F' = F /\ goal' = goal /\ target' = target
        /\ granted' = granted /\ ahead' = ahead
        /\ cloud' = cloud /\ depot' = depot /\ fetched' = fetched /\ loaded' = loaded
    BY <1>7 DEF WriteFails, PollMiss, Expire, SleepPoll, F, pipeline, ghosts
  <2> QED
    BY <1>1, <2>1 DEF IInv, ModeInv, RangeInv, AheadInv, WaitInv, GrantInv
<1>8. CASE PollOk
  <2>1. /\ pc = "wait" /\ pc' = "idle" /\ Satisfied
        /\ granted' = [granted EXCEPT ![F] = TRUE]
        /\ op' = op /\ goal' = goal /\ target' = target /\ ahead' = ahead
        /\ cloud' = cloud /\ depot' = depot /\ fetched' = fetched /\ loaded' = loaded
    BY <1>8 DEF PollOk, pipeline
  <2>2. GrantInv'
    <3>1. CASE F = "fw" /\ ahead["fw"]
      <4>1. loaded["fw"].ver >= target
        BY <1>1, <2>1, <3>1 DEF Satisfied, F, FunOf, TypeOK, Op
      <4>2. goal["fw"].ver = target
        BY <2>1, <3>1 DEF IInv, WaitInv
      <4>3. loaded["fw"] = goal["fw"]
        BY <1>3, <3>1, <4>1, <4>2 DEF IInv, AheadInv
      <4> QED
        BY <2>1, <3>1, <4>3 DEF GrantInv, IInv, AheadInv
    <3>2. CASE ~ ahead["fw"]
      BY <2>1, <3>2 DEF GrantInv
    <3>3. CASE F # "fw"
      BY <1>1, <1>2, <2>1, <3>3 DEF GrantInv, IInv, TypeOK
    <3> QED
      BY <3>1, <3>2, <3>3
  <2> QED
    BY <1>1, <2>1, <2>2 DEF IInv, ModeInv, RangeInv, AheadInv, WaitInv
<1>9. CASE ResetRules
  <2>1. /\ pc = "idle" /\ pc' = pc /\ F' = F /\ goal' = goal /\ target' = target
        /\ fetched' = fetched /\ loaded' = loaded
    BY <1>9 DEF ResetRules, F
  <2>2. CASE Mode = "host"
    <3>1. /\ \A f \in Fun \ {"fw"} : cloud'[f] = cloud[f]
          /\ \A f \in Fun : ahead'[f] => ahead[f] /\ f # "fw"
          /\ ~ granted'["fw"] /\ depot' = depot
      BY <1>1, <1>9, <2>2 DEF ResetRules, TypeOK
    <3> QED
      BY <1>1, <2>1, <2>2, <3>1
         DEF IInv, ModeInv, RangeInv, AheadInv, WaitInv, GrantInv
  <2>3. CASE Mode = "android"
    <3>1. /\ cloud' = cloud /\ \A f \in Fun : depot'[f] = NoRule
          /\ \A f \in Fun : ~ ahead'[f]
      BY <1>9, <2>3 DEF ResetRules
    <3> QED
      BY <1>1, <2>1, <2>3, <3>1, PayloadFacts
         DEF IInv, ModeInv, RangeInv, AheadInv, WaitInv, GrantInv
  <2> QED
    BY <2>2, <2>3
<1>10. ASSUME NEW f \in Fun, NEW x \in Payload, ProvisionRule(f, x) PROVE IInv'
  <2>1. PICK v \in OldVers \cup {SaturatingNext(depot[f])} :
          depot' = [depot EXCEPT ![f] = [ver |-> v, text |-> x]]
    BY <1>10 DEF ProvisionRule
  <2>2. v <= I32Max
    <3>1. SaturatingNext(depot[f]) <= I32Max
      BY <1>1, SaturatingFacts DEF TypeOK
    <3>2. \A w \in OldVers : w <= I32Max
      OBVIOUS
    <3> QED
      BY <2>1, <3>1, <3>2
  <2>3. /\ Mode = "android" /\ pc = "idle" /\ pc' = pc /\ F' = F
        /\ goal' = goal /\ target' = target
        /\ granted' = [granted EXCEPT ![f] = FALSE]
        /\ ahead' = [ahead EXCEPT ![f] = FALSE]
        /\ cloud' = cloud /\ fetched' = fetched /\ loaded' = loaded
    BY <1>10 DEF ProvisionRule, F
  <2>4. /\ \A g \in Fun : ahead'[g] => ahead[g] /\ g # f
        /\ \A g \in Fun : granted'[g] => granted[g] /\ g # f
        /\ \A g \in Fun \ {f} : depot'[g] = depot[g]
        /\ depot'[f].ver = v
    BY <1>1, <2>1, <2>3 DEF TypeOK
  <2> QED
    BY <1>1, <2>2, <2>3, <2>4
       DEF IInv, ModeInv, RangeInv, AheadInv, WaitInv, GrantInv
<1>11. ASSUME NEW f \in Fun, CloudSync(f) \/ Fetch(f) \/ Apply(f) PROVE IInv'
  <2>1. /\ pc' = pc /\ F' = F /\ goal' = goal /\ target' = target
        /\ granted' = granted /\ ahead' = ahead /\ cloud' = cloud
    BY <1>11 DEF CloudSync, Fetch, Apply, caller, ghosts, F
  <2>2. CASE CloudSync(f)
    <3>1. /\ Mode = "host" /\ depot'[f] = cloud[f]
          /\ \A g \in Fun \ {f} : depot'[g] = depot[g]
          /\ fetched' = fetched /\ loaded' = loaded
      BY <1>1, <2>2 DEF CloudSync, TypeOK
    <3> QED
      BY <1>1, <1>3, <2>1, <3>1
         DEF IInv, ModeInv, RangeInv, AheadInv, WaitInv, GrantInv
  <2>3. CASE Fetch(f)
    <3>1. /\ fetched'[f] = depot[f]
          /\ \A g \in Fun \ {f} : fetched'[g] = fetched[g]
          /\ depot' = depot /\ loaded' = loaded
      BY <1>1, <2>3 DEF Fetch, TypeOK
    <3> QED
      BY <1>1, <1>3, <2>1, <3>1
         DEF IInv, ModeInv, RangeInv, AheadInv, WaitInv, GrantInv
  <2>4. CASE Apply(f)
    <3>1. /\ loaded'[f] = fetched[f]
          /\ \A g \in Fun \ {f} : loaded'[g] = loaded[g]
          /\ depot' = depot /\ fetched' = fetched
      BY <1>1, <2>4 DEF Apply, TypeOK
    <3> QED
      BY <1>1, <1>3, <2>1, <3>1
         DEF IInv, ModeInv, RangeInv, AheadInv, WaitInv, GrantInv
  <2> QED
    BY <1>11, <2>2, <2>3, <2>4
<1>12. CASE Restart
  <2>1. /\ pc' = pc /\ F' = F /\ goal' = goal /\ target' = target
        /\ granted' = granted /\ ahead' = ahead /\ cloud' = cloud /\ depot' = depot
        /\ \A f \in Fun : fetched'[f] = NoRule /\ loaded'[f] = NoRule
    BY <1>12 DEF Restart, caller, ghosts, F
  <2> QED
    BY <1>1, <1>3, <2>1, PayloadFacts
       DEF IInv, ModeInv, RangeInv, AheadInv, WaitInv, GrantInv
<1>13. CASE UNCHANGED vars
  BY <1>1, <1>13 DEF vars, IInv, ModeInv, RangeInv, AheadInv, WaitInv, GrantInv, F
<1>14. \A o \in {"firewall", "cycle"} : FunOf(o) \in Fun /\ PayloadOf(o) \subseteq Payload
  BY PayloadFacts DEF Op
<1>15. CASE ResetFails
  <2>1. /\ pc' = pc /\ F' = F /\ goal' = goal /\ target' = target
        /\ granted' = granted /\ ahead' = ahead
        /\ cloud' = cloud /\ depot' = depot /\ fetched' = fetched /\ loaded' = loaded
    BY <1>15 DEF ResetFails, F, pipeline, ghosts
  <2> QED
    BY <1>1, <2>1 DEF IInv, ModeInv, RangeInv, AheadInv, WaitInv, GrantInv
<1> QED
  BY <1>4, <1>5, <1>6, <1>7, <1>8, <1>9, <1>10, <1>11, <1>12, <1>13, <1>14, <1>15
     DEF Next, Orchestrator

\* The calls whose version is above everything in the pipeline keep the promise
\* of provision_firewall ("block until idps-fw loads it", provision.rs) in both
\* modes, whatever older versions are still on their way.
THEOREM AheadGrantsHold == Spec => []AheadGrantInForce
<1>1. Init => IInv
  BY InvInit DEF HInv
<1>2. IInv => AheadGrantInForce
  BY DEF IInv, GrantInv, AheadGrantInForce
<1> QED
  BY <1>1, <1>2, InvNext, PTL DEF Spec

-----------------------------------------------------------------------------
\* Host delivery keeps versions in order, which makes every PUT ahead.
LEMMA HostNext == HInv /\ [Next]_vars => HInv'
<1> SUFFICES ASSUME HInv, [Next]_vars PROVE HInv'
  OBVIOUS
<1>1. IInv /\ IInv' /\ TypeOK /\ TypeOK'
  BY InvNext DEF HInv, IInv
<1> SUFFICES ASSUME Mode = "host" PROVE VersionsFlowForward' /\ HostInv'
  BY <1>1 DEF HInv, VersionsFlowForward, HostInv
<1> USE DEF Fun, NoNewer, SameIfSameVer
<1>2. F \in Fun
  BY <1>1, PayloadFacts DEF F, TypeOK
<1>3. \A f \in Fun : /\ cloud[f].ver \in Int /\ depot[f].ver \in Int
                     /\ fetched[f].ver \in Int /\ loaded[f].ver \in Int
  BY <1>1 DEF TypeOK, Rule
<1>4. ASSUME NEW o \in Op, NEW x \in PayloadOf(o), Call(o, x)
      PROVE  VersionsFlowForward' /\ HostInv'
  <2>1. /\ pc' = "put"
        /\ granted' = [granted EXCEPT ![FunOf(o)] = FALSE]
        /\ ahead' = [ahead EXCEPT ![FunOf(o)] = FALSE]
        /\ cloud' = cloud /\ depot' = depot /\ fetched' = fetched /\ loaded' = loaded
    BY <1>4 DEF Call, pipeline
  <2>2. granted'["fw"] => granted["fw"] /\ FunOf(o) # "fw" /\ ahead'["fw"] = ahead["fw"]
    BY <1>1, <2>1, PayloadFacts DEF TypeOK
  <2> QED
    BY <2>1, <2>2 DEF HInv, VersionsFlowForward, HostInv
<1>5. CASE ReadBefore \/ WriteDepot
  BY <1>1, <1>5 DEF ReadBefore, WriteDepot, IInv, ModeInv
<1>6. CASE PutRule
  <2> DEFINE rule == [ver |-> VsocVer(cloud[F].ver), text |-> want]
  <2>1. /\ cloud' = [cloud EXCEPT ![F] = rule]
        /\ ahead' = [ahead EXCEPT ![F] = \A s \in {cloud, depot, fetched, loaded} :
                                            s[F].ver < rule.ver]
        /\ depot' = depot /\ fetched' = fetched /\ loaded' = loaded
        /\ granted' = granted /\ F' = F /\ pc = "put"
    BY <1>6 DEF PutRule, Publish, F
  <2>2. rule.ver \in Int /\ cloud[F].ver < rule.ver
    BY <1>2, <1>3, VersionFacts
  <2>3. cloud'[F] = rule /\ \A f \in Fun \ {F} : cloud'[f] = cloud[f]
    BY <1>1, <1>2, <2>1 DEF TypeOK
  <2> HIDE DEF rule
  <2>4. /\ depot[F].ver < rule.ver /\ fetched[F].ver < rule.ver
        /\ loaded[F].ver < rule.ver
    BY <1>2, <1>3, <2>2 DEF HInv, VersionsFlowForward
  <2>5. ahead'[F]
    BY <1>1, <1>2, <2>1, <2>2, <2>4 DEF TypeOK
  <2>6. VersionsFlowForward'
    BY <1>2, <1>3, <2>1, <2>2, <2>3, <2>4 DEF HInv, VersionsFlowForward
  <2>7. granted'["fw"] => ahead'["fw"]
    <3>1. granted["fw"] => F # "fw"
      BY <1>1, <2>1 DEF IInv, WaitInv
    <3> QED
      BY <1>1, <1>2, <2>1, <3>1 DEF HInv, HostInv, TypeOK
  <2> QED
    BY <1>3, <2>1, <2>2, <2>3, <2>5, <2>6, <2>7 DEF HInv, HostInv
<1>7. CASE WriteFails \/ PollMiss \/ Expire \/ SleepPoll
  <2>1. /\ pc' \in {"wait", "late"} => pc \in {"wait", "late"}
        /\ F' = F /\ granted' = granted /\ ahead' = ahead
        /\ cloud' = cloud /\ depot' = depot /\ fetched' = fetched /\ loaded' = loaded
    BY <1>7 DEF WriteFails, PollMiss, Expire, SleepPoll, F, pipeline, ghosts
  <2> QED
    BY <2>1 DEF HInv, VersionsFlowForward, HostInv
<1>8. CASE PollOk
  <2>1. /\ pc = "wait" /\ pc' = "idle" /\ ahead' = ahead
        /\ granted' = [granted EXCEPT ![F] = TRUE]
        /\ cloud' = cloud /\ depot' = depot /\ fetched' = fetched /\ loaded' = loaded
    BY <1>8 DEF PollOk, pipeline
  <2>2. granted'["fw"] => granted["fw"] \/ F = "fw"
    BY <1>1, <1>2, <2>1 DEF TypeOK
  <2> QED
    BY <2>1, <2>2 DEF HInv, VersionsFlowForward, HostInv
<1>9. CASE ResetRules
  <2> DEFINE rule == [ver |-> VsocVer(cloud["fw"].ver), text |-> Baseline]
  <2>1. /\ cloud' = [cloud EXCEPT !["fw"] = rule]
        /\ depot' = depot /\ fetched' = fetched /\ loaded' = loaded
        /\ granted' = [granted EXCEPT !["fw"] = FALSE]
        /\ pc = "idle" /\ pc' = pc
    BY <1>9 DEF ResetRules
  <2>2. rule.ver \in Int /\ cloud["fw"].ver < rule.ver
    BY <1>3, VersionFacts
  <2>3. /\ cloud'["fw"] = rule /\ \A f \in Fun \ {"fw"} : cloud'[f] = cloud[f]
        /\ ~ granted'["fw"]
    BY <1>1, <2>1 DEF TypeOK
  <2> HIDE DEF rule
  <2> QED
    BY <1>3, <2>1, <2>2, <2>3 DEF HInv, VersionsFlowForward, HostInv
<1>10. ASSUME NEW f \in Fun, CloudSync(f) \/ Fetch(f) \/ Apply(f)
       PROVE  VersionsFlowForward' /\ HostInv'
  <2>1. pc' = pc /\ F' = F /\ granted' = granted /\ ahead' = ahead /\ cloud' = cloud
    BY <1>10 DEF CloudSync, Fetch, Apply, caller, ghosts, F
  <2>2. HostInv'
    BY <1>1, <1>10, <2>1 DEF HInv, HostInv, CloudSync, Fetch, Apply, TypeOK
  <2>3. CASE CloudSync(f)
    <3>1. /\ depot'[f] = cloud[f] /\ \A g \in Fun \ {f} : depot'[g] = depot[g]
          /\ fetched' = fetched /\ loaded' = loaded
      BY <1>1, <2>3 DEF CloudSync, TypeOK
    <3> QED
      BY <1>3, <2>1, <2>2, <3>1 DEF HInv, VersionsFlowForward
  <2>4. CASE Fetch(f)
    <3>1. /\ fetched'[f] = depot[f] /\ \A g \in Fun \ {f} : fetched'[g] = fetched[g]
          /\ depot' = depot /\ loaded' = loaded
      BY <1>1, <2>4 DEF Fetch, TypeOK
    <3> QED
      BY <1>3, <2>1, <2>2, <3>1 DEF HInv, VersionsFlowForward
  <2>5. CASE Apply(f)
    <3>1. /\ loaded'[f] = fetched[f] /\ \A g \in Fun \ {f} : loaded'[g] = loaded[g]
          /\ depot' = depot /\ fetched' = fetched
      BY <1>1, <2>5 DEF Apply, TypeOK
    <3> QED
      BY <1>3, <2>1, <2>2, <3>1 DEF HInv, VersionsFlowForward
  <2> QED
    BY <1>10, <2>3, <2>4, <2>5
<1>11. CASE Restart
  <2>1. /\ pc' = pc /\ F' = F /\ granted' = granted /\ ahead' = ahead
        /\ cloud' = cloud /\ depot' = depot
        /\ \A f \in Fun : fetched'[f] = NoRule /\ loaded'[f] = NoRule
    BY <1>11 DEF Restart, caller, ghosts, F
  <2> QED
    BY <1>3, <2>1, PayloadFacts DEF HInv, VersionsFlowForward, HostInv
<1>12. CASE UNCHANGED vars
  BY <1>12 DEF vars, HInv, VersionsFlowForward, HostInv, F
<1>13. CASE ResetFails
  <2>1. /\ pc' = pc /\ F' = F /\ granted' = granted /\ ahead' = ahead
        /\ cloud' = cloud /\ depot' = depot /\ fetched' = fetched /\ loaded' = loaded
    BY <1>13 DEF ResetFails, F, pipeline, ghosts
  <2> QED
    BY <2>1 DEF HInv, VersionsFlowForward, HostInv
<1> QED
  BY <1>4, <1>5, <1>6, <1>7, <1>8, <1>9, <1>10, <1>11, <1>12, <1>13
     DEF Next, Orchestrator, ProvisionRule

\* Host delivery is monotone for every history of lost answers, expired waits
\* and restarts: the reason wait_for may compare versions with `>=`.
THEOREM HostVersionsFlowForward == Spec => []VersionsFlowForward
<1>1. HInv => VersionsFlowForward
  BY DEF HInv
<1> QED
  BY <1>1, InvInit, HostNext, PTL DEF Spec

\* In host mode provision_firewall keeps its promise without any condition: when
\* it returns Ok, idps-fw enforces the uploaded rule or has restarted.
THEOREM HostFirewallInForce == ASSUME Mode = "host" PROVE Spec => []FirewallInForce
<1>1. HInv => FirewallInForce
  BY DEF HInv, IInv, GrantInv, HostInv, FirewallInForce
<1> QED
  BY <1>1, InvInit, HostNext, PTL DEF Spec

=============================================================================
