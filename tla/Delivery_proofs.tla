---------------------------- MODULE Delivery_proofs ----------------------------
(***************************************************************************)
(* Rule delivery implements its abstract specification, and the value wait of *)
(* provision_traffic_cycle identifies its rule when the value is a new one.    *)
(*                                                                         *)
(* The argument for the refinement: the steps of a call map to Withdraw,       *)
(* Submit and Grant, those of idps-fw to Enforce.  Grant needs that the        *)
(* satisfied wait shows the rule just written, and Enforce under a grant that   *)
(* nothing else can come down; both are what HInv says of host mode.  For the   *)
(* cycle: a write whose cycle nobody had leaves every stage with either its own  *)
(* rule or another cycle, and a stage has the rule only if the stage before it   *)
(* has (FreshInv).  So the awaited value shows the awaited rule, and when it is   *)
(* seen at the end of the pipeline nothing older is left behind it.              *)
(***************************************************************************)
EXTENDS Provision_proofs

\* Firewall texts travel with function 1 only.
TextInv ==
  /\ cloud["fw"].text \in Texts \cup {Nil} /\ depot["fw"].text \in Texts \cup {Nil}
  /\ fetched["fw"].text \in Texts \cup {Nil} /\ loaded["fw"].text \in Texts \cup {Nil}
  /\ pc # "idle" => want # Nil /\ (op = "firewall" => want \in Texts)

\* The stage a mode writes to
Inlet(f) == IF Mode = "host" THEN cloud[f] ELSE depot[f]

\* It still holds the rule of a call that waits or was granted.
InletInv ==
  /\ \A f \in Fun : granted[f] => Inlet(f) = goal[f]
  /\ pc \in {"wait", "late"} => Inlet(F) = goal[F] /\ goal[F].text = want

\* A stage holds the traffic rule last written, or one with another cycle.
Apart(s) == s["traffic"].text = goal["traffic"].text => s["traffic"] = goal["traffic"]

\* What follows a write whose cycle was nowhere in the pipeline.
FreshInv ==
  fresh =>
    /\ goal["traffic"].text \notin {ConfigCycle, Nil}
    /\ Inlet("traffic") = goal["traffic"]
    /\ Apart(depot) /\ Apart(fetched) /\ Apart(loaded)
    /\ Chain("traffic")
    /\ granted["traffic"] =>
         /\ depot["traffic"] = goal["traffic"]
         /\ fetched["traffic"] \in {NoRule, goal["traffic"]}
         /\ loaded["traffic"] \in {NoRule, goal["traffic"]}

-----------------------------------------------------------------------------
USE ModeAssumption, PayloadAssumption

\* Initially the texts are in place and nothing is granted.
LEMMA DeliveryInit == Init => TextInv /\ InletInv
<1> SUFFICES ASSUME Init PROVE TextInv /\ InletInv
  OBVIOUS
<1>1. PICK old \in [Fun -> [ver : OldVers, text : Payload] \cup {NoRule}] :
        /\ \A f \in Fun : old[f] \in OldRules(f) \cup {NoRule}
        /\ cloud = IF Mode = "host" THEN old ELSE [f \in Fun |-> NoRule]
        /\ depot = old
        /\ \/ fetched = [f \in Fun |-> NoRule]
           \/ fetched = old /\ \A f \in Fun : old[f] # NoRule
  BY DEF Init
<1>2. loaded = fetched /\ pc = "idle" /\ granted = [f \in Fun |-> FALSE]
  BY DEF Init
<1>3. old["fw"].text \in Texts \cup {Nil} /\ NoRule.text = Nil
  <2>1. old["fw"] \in [ver : OldVers, text : Texts] \cup {NoRule}
    BY <1>1 DEF OldRules, PayloadOf, Fun
  <2> QED BY <2>1 DEF NoRule
<1> QED
  BY <1>1, <1>2, <1>3 DEF TextInv, InletInv, Fun

\* Every step keeps both.
LEMMA DeliveryNext ==
  IInv /\ TextInv /\ InletInv /\ [Next]_vars => TextInv' /\ InletInv'
<1> SUFFICES ASSUME IInv, TextInv, InletInv, [Next]_vars PROVE TextInv' /\ InletInv'
  OBVIOUS
<1> USE DEF Fun
<1>1. TypeOK /\ TypeOK' /\ F \in Fun /\ NoRule.text = Nil
  BY TypeNext, PayloadFacts DEF IInv, F, TypeOK, NoRule
<1>2. ASSUME NEW o \in Op, NEW x \in PayloadOf(o), Call(o, x) PROVE TextInv' /\ InletInv'
  <2>1. /\ pc' \in {"read", "put"} /\ op' = o /\ want' = x /\ goal' = goal
        /\ granted' = [granted EXCEPT ![FunOf(o)] = FALSE]
        /\ cloud' = cloud /\ depot' = depot /\ fetched' = fetched /\ loaded' = loaded
    BY <1>2 DEF Call, pipeline
  <2>2. \A f \in Fun : granted'[f] => granted[f]
    BY <1>1, <2>1, PayloadFacts DEF TypeOK
  <2>3. x # Nil /\ (o = "firewall" => x \in Texts)
    BY DEF PayloadOf
  <2> QED BY <2>1, <2>2, <2>3 DEF TextInv, InletInv, Inlet
<1>3. CASE WriteDepot \/ PutRule
  <2>1. PICK rule : /\ rule.text = want
                    /\ goal' = [goal EXCEPT ![F] = rule]
                    /\ \/ /\ WriteDepot /\ Mode = "android" /\ cloud' = cloud
                          /\ depot' = [depot EXCEPT ![F] = rule]
                       \/ /\ PutRule /\ Mode = "host" /\ depot' = depot
                          /\ cloud' = [cloud EXCEPT ![F] = rule]
    <3>1. CASE WriteDepot
      <4>1. Mode = "android"
        BY <3>1 DEF WriteDepot, IInv, ModeInv
      <4>2. /\ depot' = [depot EXCEPT ![F] = [ver |-> AsI32(target), text |-> want]]
            /\ goal' = [goal EXCEPT ![F] = [ver |-> AsI32(target), text |-> want]]
            /\ cloud' = cloud
        BY <3>1 DEF WriteDepot, Publish
      <4> WITNESS [ver |-> AsI32(target), text |-> want]
      <4> QED BY <3>1, <4>1, <4>2
    <3>2. CASE PutRule
      <4>1. Mode = "host"
        BY <3>2 DEF PutRule, IInv, ModeInv
      <4>2. /\ cloud' = [cloud EXCEPT ![F] = [ver |-> VsocVer(cloud[F].ver), text |-> want]]
            /\ goal' = [goal EXCEPT ![F] = [ver |-> VsocVer(cloud[F].ver), text |-> want]]
            /\ depot' = depot
        BY <3>2 DEF PutRule, Publish
      <4> WITNESS [ver |-> VsocVer(cloud[F].ver), text |-> want]
      <4> QED BY <3>2, <4>1, <4>2
    <3> QED BY <1>3, <3>1, <3>2
  <2>2. /\ pc \in {"write", "put"} /\ op' = op /\ want' = want /\ granted' = granted
        /\ fetched' = fetched /\ loaded' = loaded /\ F' = F
    BY <1>3 DEF WriteDepot, PutRule, F
  <2>3. ~ granted[F]
    BY <2>2 DEF IInv, WaitInv
  <2>4. F = "fw" => want \in Texts
    BY <1>1, <2>2 DEF TextInv, F, FunOf, TypeOK, Op
  <2>5. TextInv'
    BY <1>1, <2>1, <2>2, <2>4 DEF TextInv, TypeOK
  <2>6. goal'[F] = rule /\ \A f \in Fun \ {F} : goal'[f] = goal[f]
    BY <1>1, <2>1 DEF TypeOK
  <2>7. Inlet(F)' = rule /\ \A f \in Fun \ {F} : Inlet(f)' = Inlet(f)
    BY <1>1, <2>1, <2>2 DEF TypeOK, Inlet
  <2>8. InletInv'
    <3>1. \A f \in Fun : granted'[f] => Inlet(f)' = goal'[f]
      BY <2>2, <2>3, <2>6, <2>7 DEF InletInv
    <3>2. Inlet(F)' = goal'[F'] /\ goal'[F'].text = want'
      BY <2>1, <2>2, <2>6, <2>7
    <3> QED BY <2>2, <3>1, <3>2 DEF InletInv, Inlet
  <2> QED BY <2>5, <2>8
<1>4. CASE ReadBefore \/ WriteFails \/ PollMiss \/ Expire \/ SleepPoll
  <2>1. /\ pc # "idle" /\ op' = op /\ want' = want /\ F' = F /\ goal' = goal
        /\ granted' = granted
        /\ pc' \in {"wait", "late"} => pc \in {"wait", "late"}
        /\ cloud' = cloud /\ depot' = depot /\ fetched' = fetched /\ loaded' = loaded
    BY <1>4 DEF ReadBefore, WriteFails, PollMiss, Expire, SleepPoll, F, pipeline, ghosts
  <2> QED BY <2>1 DEF TextInv, InletInv, Inlet
<1>5. CASE PollOk
  <2>1. /\ pc = "wait" /\ pc' = "idle" /\ goal' = goal
        /\ granted' = [granted EXCEPT ![F] = TRUE]
        /\ cloud' = cloud /\ depot' = depot /\ fetched' = fetched /\ loaded' = loaded
    BY <1>5 DEF PollOk, pipeline
  <2>2. \A f \in Fun : granted'[f] => granted[f] \/ f = F
    BY <1>1, <2>1 DEF TypeOK
  <2> QED BY <2>1, <2>2 DEF TextInv, InletInv, Inlet
<1>6. CASE ResetRules
  <2>1. /\ pc = "idle" /\ pc' = pc /\ goal' = goal
        /\ fetched' = fetched /\ loaded' = loaded
    BY <1>6 DEF ResetRules
  <2>2. CASE Mode = "host"
    <3>1. /\ cloud'["fw"].text = Baseline /\ cloud'["traffic"] = cloud["traffic"]
          /\ ~ granted'["fw"] /\ granted'["traffic"] = granted["traffic"] /\ depot' = depot
      BY <1>1, <1>6, <2>2 DEF ResetRules, TypeOK
    <3>2. Inlet("traffic")' = Inlet("traffic")
      BY <2>2, <3>1 DEF Inlet
    <3>3. TextInv'
      BY <2>1, <3>1 DEF TextInv
    <3>4. InletInv'
      BY <2>1, <3>1, <3>2 DEF InletInv, Inlet
    <3> QED BY <3>3, <3>4
  <2>3. CASE Mode = "android"
    <3>1. /\ cloud' = cloud /\ depot' = [f \in Fun |-> NoRule]
          /\ granted' = [f \in Fun |-> FALSE]
      BY <1>6, <2>3 DEF ResetRules
    <3>2. TextInv'
      BY <1>1, <2>1, <3>1 DEF TextInv
    <3>3. InletInv'
      BY <2>1, <3>1 DEF InletInv
    <3> QED BY <3>2, <3>3
  <2> QED BY <2>2, <2>3
<1>7. ASSUME NEW o \in {"firewall", "cycle"}, NEW x \in PayloadOf(o),
             ProvisionRule(FunOf(o), x)
      PROVE TextInv' /\ InletInv'
  <2>1. PICK v : depot' = [depot EXCEPT ![FunOf(o)] = [ver |-> v, text |-> x]]
    BY <1>7 DEF ProvisionRule
  <2>2. /\ pc = "idle" /\ pc' = pc /\ goal' = goal /\ Mode = "android"
        /\ granted' = [granted EXCEPT ![FunOf(o)] = FALSE]
        /\ cloud' = cloud /\ fetched' = fetched /\ loaded' = loaded
    BY <1>7 DEF ProvisionRule
  <2>3. FunOf(o) \in Fun /\ (FunOf(o) = "fw" => x \in Texts)
    BY <1>7 DEF FunOf, PayloadOf
  <2>4. /\ \A f \in Fun : granted'[f] => granted[f] /\ depot'[f] = depot[f]
        /\ depot'["fw"].text \in Texts \cup {Nil}
    BY <1>1, <2>1, <2>2, <2>3 DEF TypeOK, TextInv
  <2> QED BY <2>2, <2>4 DEF TextInv, InletInv, Inlet
<1>8. ASSUME NEW f \in Fun, CloudSync(f) \/ Fetch(f) \/ Apply(f)
      PROVE TextInv' /\ InletInv'
  <2>1. /\ pc' = pc /\ op' = op /\ want' = want /\ F' = F /\ goal' = goal
        /\ granted' = granted /\ cloud' = cloud
        /\ Mode = "android" => depot' = depot
    BY <1>8 DEF CloudSync, Fetch, Apply, caller, ghosts, F
  <2>2. TextInv'
    BY <1>1, <1>8, <2>1 DEF TextInv, CloudSync, Fetch, Apply, TypeOK
  <2>3. \A g \in Fun : Inlet(g)' = Inlet(g)
    BY <2>1 DEF Inlet
  <2>4. InletInv'
    BY <1>1, <2>1, <2>3 DEF InletInv, Inlet
  <2> QED BY <2>2, <2>4
<1>9. CASE Restart
  <2>1. /\ pc' = pc /\ op' = op /\ want' = want /\ F' = F /\ goal' = goal
        /\ granted' = granted /\ cloud' = cloud /\ depot' = depot
        /\ \A f \in Fun : fetched'[f] = NoRule /\ loaded'[f] = NoRule
    BY <1>9 DEF Restart, caller, ghosts, F
  <2> QED BY <1>1, <2>1 DEF TextInv, InletInv, Inlet
<1>10. CASE UNCHANGED vars
  BY <1>10 DEF vars, TextInv, InletInv, Inlet, F
<1>11. CASE ResetFails
  BY <1>11 DEF ResetFails, pipeline, ghosts, TextInv, InletInv, Inlet, F
<1> QED
  BY <1>2, <1>3, <1>4, <1>5, <1>6, <1>7, <1>8, <1>9, <1>10, <1>11
     DEF Next, Orchestrator

\* Both hold throughout.
LEMMA DeliveryInv == Spec => [](IInv /\ TextInv /\ InletInv)
<1>1. Init => IInv /\ TextInv /\ InletInv
  BY InvInit, DeliveryInit DEF HInv
<1> QED
  BY <1>1, InvNext, DeliveryNext, PTL DEF Spec

\* Every step keeps FreshInv: the steps of idps-server and idps-fw copy a stage from
\* the one before it, and every write of the function ends what fresh stands for.
LEMMA FreshNext ==
  IInv /\ TextInv /\ InletInv /\ FreshInv /\ [Next]_vars => FreshInv'
<1> SUFFICES ASSUME IInv, TextInv, InletInv, FreshInv, [Next]_vars, fresh' PROVE FreshInv'
  BY DEF FreshInv
<1> USE DEF Fun
<1>1. TypeOK /\ TypeOK' /\ F \in Fun /\ NoRule.text = Nil
  BY TypeNext, PayloadFacts DEF IInv, F, TypeOK, NoRule
<1> DEFINE Same ==
      /\ fresh /\ goal' = goal
      /\ granted'["traffic"] => granted["traffic"]
      /\ \A s \in {<<cloud, cloud'>>, <<depot, depot'>>, <<fetched, fetched'>>,
                   <<loaded, loaded'>>} : s[1]["traffic"] = s[2]["traffic"]
<1>2. ASSUME Same PROVE FreshInv'
  BY <1>2 DEF FreshInv, Apart, Chain, Inlet
<1>3. ASSUME NEW o \in Op, NEW x \in PayloadOf(o), Call(o, x) PROVE FreshInv'
  <2>1. /\ fresh /\ FunOf(o) # "traffic" /\ goal' = goal
        /\ granted' = [granted EXCEPT ![FunOf(o)] = FALSE]
        /\ cloud' = cloud /\ depot' = depot /\ fetched' = fetched /\ loaded' = loaded
    BY <1>3 DEF Call, pipeline
  <2>2. granted'["traffic"] => granted["traffic"]
    BY <1>1, <2>1 DEF TypeOK
  <2> QED BY <1>2, <2>1, <2>2
<1>4. CASE WriteDepot \/ PutRule
  <2>1. PICK rule : /\ rule.text = want /\ Publish(rule)
                    /\ \/ /\ Mode = "android" /\ cloud' = cloud
                          /\ depot' = [depot EXCEPT ![F] = rule]
                       \/ /\ Mode = "host" /\ depot' = depot
                          /\ cloud' = [cloud EXCEPT ![F] = rule]
    <3>1. CASE WriteDepot
      <4>1. Mode = "android"
        BY <3>1 DEF WriteDepot, IInv, ModeInv
      <4> WITNESS [ver |-> AsI32(target), text |-> want]
      <4> QED BY <3>1, <4>1 DEF WriteDepot
    <3>2. CASE PutRule
      <4>1. Mode = "host"
        BY <3>2 DEF PutRule, IInv, ModeInv
      <4> WITNESS [ver |-> VsocVer(cloud[F].ver), text |-> want]
      <4> QED BY <3>2, <4>1 DEF PutRule
    <3> QED BY <1>4, <3>1, <3>2
  <2>2. /\ pc \in {"write", "put"} /\ granted' = granted
        /\ fetched' = fetched /\ loaded' = loaded
    BY <1>4 DEF WriteDepot, PutRule
  <2>3. goal' = [goal EXCEPT ![F] = rule]
    BY <2>1 DEF Publish
  <2>4. CASE F = "traffic"
    <3>1. /\ ConfigCycle # rule.text
          /\ depot["traffic"].text # rule.text /\ fetched["traffic"].text # rule.text
          /\ loaded["traffic"].text # rule.text
      BY <2>1, <2>4 DEF Publish
    <3>2. ~ granted["traffic"] /\ rule.text # Nil
      BY <2>1, <2>2, <2>4 DEF IInv, WaitInv, TextInv
    <3>3. goal'["traffic"] = rule
      BY <1>1, <2>3, <2>4 DEF TypeOK
    <3>4. /\ depot'["traffic"] = rule \/ depot' = depot
          /\ Mode = "android" => depot'["traffic"] = rule
          /\ Mode = "host" => cloud'["traffic"] = rule
      BY <1>1, <2>1, <2>4 DEF TypeOK
    <3> HIDE DEF Same
    <3> QED BY <2>2, <3>1, <3>2, <3>3, <3>4 DEF FreshInv, Apart, Chain, Inlet
  <2>5. CASE F = "fw"
    <3>1. fresh /\ goal'["traffic"] = goal["traffic"]
      BY <1>1, <2>1, <2>3, <2>5 DEF Publish, TypeOK
    <3>2. cloud'["traffic"] = cloud["traffic"] /\ depot'["traffic"] = depot["traffic"]
      BY <1>1, <2>1, <2>5 DEF TypeOK
    <3> HIDE DEF Same
    <3> QED BY <2>2, <3>1, <3>2 DEF FreshInv, Apart, Chain, Inlet
  <2> QED BY <1>1, <2>4, <2>5
<1>5. CASE ReadBefore \/ WriteFails \/ PollMiss \/ Expire \/ SleepPoll \/ ResetFails
  <2>1. /\ fresh' = fresh /\ goal' = goal /\ granted' = granted
        /\ cloud' = cloud /\ depot' = depot /\ fetched' = fetched /\ loaded' = loaded
    BY <1>5 DEF ReadBefore, WriteFails, PollMiss, Expire, SleepPoll, ResetFails,
       pipeline, ghosts
  <2> QED BY <1>2, <2>1
<1>6. CASE PollOk
  <2>1. /\ pc = "wait" /\ Satisfied /\ goal' = goal /\ fresh
        /\ granted' = [granted EXCEPT ![F] = TRUE]
        /\ cloud' = cloud /\ depot' = depot /\ fetched' = fetched /\ loaded' = loaded
    BY <1>6 DEF PollOk, pipeline
  <2>2. CASE F = "traffic"
    <3>1. CycleInForce = want
      BY <2>1, <2>2 DEF Satisfied, F, FunOf
    <3>2. goal["traffic"].text = want
      BY <2>1, <2>2 DEF InletInv
    <3>3. loaded["traffic"].text = goal["traffic"].text
      BY <2>1, <3>1, <3>2 DEF FreshInv, CycleInForce
    <3>4. /\ loaded["traffic"] = goal["traffic"] /\ fetched["traffic"] = goal["traffic"]
          /\ depot["traffic"] = goal["traffic"]
      BY <2>1, <3>3 DEF FreshInv, Apart, Chain
    <3> HIDE DEF Same
    <3> QED BY <2>1, <3>4 DEF FreshInv, Apart, Chain, Inlet
  <2>3. CASE F = "fw"
    <3>1. granted'["traffic"] => granted["traffic"]
      BY <1>1, <2>1, <2>3 DEF TypeOK
    <3> QED BY <1>2, <2>1, <3>1
  <2> QED BY <1>1, <2>2, <2>3
<1>7. CASE ResetRules
  <2>1. Mode = "host" /\ fresh
    BY <1>7 DEF ResetRules
  <2>2. /\ goal' = goal /\ fetched' = fetched /\ loaded' = loaded /\ depot' = depot
        /\ cloud'["traffic"] = cloud["traffic"]
        /\ granted'["traffic"] = granted["traffic"]
    BY <1>1, <1>7, <2>1 DEF ResetRules, TypeOK
  <2> QED BY <1>2, <2>1, <2>2
<1>8. ASSUME NEW o \in {"firewall", "cycle"}, NEW x \in PayloadOf(o),
             ProvisionRule(FunOf(o), x)
      PROVE FreshInv'
  <2>1. PICK v : depot' = [depot EXCEPT ![FunOf(o)] = [ver |-> v, text |-> x]]
    BY <1>8 DEF ProvisionRule
  <2>2. /\ fresh /\ FunOf(o) # "traffic" /\ goal' = goal
        /\ granted' = [granted EXCEPT ![FunOf(o)] = FALSE]
        /\ cloud' = cloud /\ fetched' = fetched /\ loaded' = loaded
    BY <1>8 DEF ProvisionRule
  <2>3. /\ depot'["traffic"] = depot["traffic"]
        /\ granted'["traffic"] => granted["traffic"]
    BY <1>1, <2>1, <2>2 DEF TypeOK
  <2> QED BY <1>2, <2>2, <2>3
<1>9. ASSUME NEW f \in Fun, CloudSync(f) \/ Fetch(f) \/ Apply(f) PROVE FreshInv'
  <2>1. fresh /\ goal' = goal /\ granted' = granted /\ cloud' = cloud
    BY <1>9 DEF CloudSync, Fetch, Apply, ghosts
  <2>2. CASE CloudSync(f)
    <3>1. /\ Mode = "host" /\ fetched' = fetched /\ loaded' = loaded
          /\ depot'["traffic"] \in {depot["traffic"], cloud["traffic"]}
      BY <1>1, <2>2 DEF CloudSync, TypeOK
    <3> HIDE DEF Same
    <3> QED BY <2>1, <3>1 DEF FreshInv, Apart, Chain, Inlet
  <2>3. CASE Fetch(f)
    <3>1. /\ depot' = depot /\ loaded' = loaded
          /\ fetched'["traffic"] \in {fetched["traffic"], depot["traffic"]}
      BY <1>1, <2>3 DEF Fetch, TypeOK
    <3>2. Mode = "android" => depot["traffic"] = goal["traffic"]
      BY <2>1 DEF FreshInv, Inlet
    <3> HIDE DEF Same
    <3> QED BY <2>1, <3>1, <3>2 DEF FreshInv, Apart, Chain, Inlet
  <2>4. CASE Apply(f)
    <3>1. /\ depot' = depot /\ fetched' = fetched
          /\ loaded'["traffic"] \in {loaded["traffic"], fetched["traffic"]}
      BY <1>1, <2>4 DEF Apply, TypeOK
    <3> HIDE DEF Same
    <3> QED BY <2>1, <3>1 DEF FreshInv, Apart, Chain, Inlet
  <2> QED BY <1>9, <2>2, <2>3, <2>4
<1>10. CASE Restart
  <2>1. /\ fresh /\ goal' = goal /\ granted' = granted /\ cloud' = cloud /\ depot' = depot
        /\ fetched'["traffic"] = NoRule /\ loaded'["traffic"] = NoRule
    BY <1>10 DEF Restart, ghosts
  <2> HIDE DEF Same
  <2> QED BY <1>1, <2>1 DEF FreshInv, Apart, Chain, Inlet
<1>11. CASE UNCHANGED vars
  BY <1>2, <1>11 DEF vars
<1> QED
  BY <1>3, <1>4, <1>5, <1>6, <1>7, <1>8, <1>9, <1>10, <1>11 DEF Next, Orchestrator

\* When neither a rule in the pipeline nor the configuration had the cycle that
\* provision_traffic_cycle writes, its Ok means that idps-fw applies the rule it
\* wrote, and it stays so until the next traffic write or a restart - in both modes,
\* although wait_for_cycle compares a value and no version.
THEOREM FreshCycleInForce == Spec => []CycleGrantInForce
<1>1. Init => FreshInv
  BY DEF Init, FreshInv
<1>2. FreshInv => CycleGrantInForce
  BY DEF FreshInv, CycleGrantInForce
<1> QED
  BY <1>1, <1>2, DeliveryInv, FreshNext, PTL DEF Spec

-----------------------------------------------------------------------------
\* Every step of host delivery is a step of the abstract specification, or none.
LEMMA DeliveryStep ==
  ASSUME Mode = "host", HInv, HInv', TextInv, TextInv', InletInv, [Next]_vars
  PROVE  [D!DNext]_(D!dvars)
<1> USE DEF Fun, D!DNext, D!dvars
<1>1. TypeOK /\ TypeOK' /\ F \in Fun
  BY PayloadFacts DEF HInv, IInv, F, TypeOK
<1>2. granted'["fw"] => loaded'["fw"] = NoRule \/ loaded'["fw"].text = goal'["fw"].text
  BY DEF HInv, IInv, GrantInv, HostInv
<1>3. granted["fw"] \in BOOLEAN /\ granted'["fw"] \in BOOLEAN /\ NoRule.text = Nil
  BY <1>1 DEF TypeOK, NoRule
<1>4. ASSUME NEW o \in Op, NEW x \in PayloadOf(o), Call(o, x)
      PROVE  [D!DNext]_(D!dvars)
  <2>1. /\ goal' = goal /\ loaded' = loaded
        /\ granted' = [granted EXCEPT ![FunOf(o)] = FALSE]
    BY <1>4 DEF Call, pipeline
  <2>2. granted'["fw"] = FALSE \/ granted'["fw"] = granted["fw"]
    BY <1>1, <2>1, PayloadFacts DEF TypeOK
  <2> QED BY <2>1, <2>2 DEF D!Withdraw
<1>5. CASE ReadBefore \/ WriteDepot
  BY <1>5 DEF ReadBefore, WriteDepot, HInv, IInv, ModeInv
<1>6. CASE PutRule
  <2>1. /\ goal' = [goal EXCEPT ![F] = [ver |-> VsocVer(cloud[F].ver), text |-> want]]
        /\ loaded' = loaded /\ granted' = granted /\ pc = "put"
    BY <1>6 DEF PutRule, Publish
  <2>2. CASE F = "fw"
    <3>1. ~ granted["fw"] /\ want \in Texts
      BY <1>1, <2>1, <2>2 DEF HInv, IInv, WaitInv, TextInv, F, FunOf, TypeOK, Op
    <3>2. goal'["fw"].text = want
      BY <1>1, <2>1, <2>2 DEF TypeOK
    <3> QED BY <2>1, <3>1, <3>2 DEF D!Submit
  <2>3. CASE F # "fw"
    BY <1>1, <2>1, <2>3 DEF TypeOK
  <2> QED BY <2>2, <2>3
<1>7. CASE PollOk
  <2>1. /\ goal' = goal /\ loaded' = loaded /\ pc = "wait" /\ Satisfied
        /\ granted' = [granted EXCEPT ![F] = TRUE]
    BY <1>7 DEF PollOk, pipeline
  <2>2. CASE F = "fw"
    <3>1. ahead["fw"] /\ goal["fw"].ver = target /\ loaded["fw"].ver >= target
      BY <1>1, <2>1, <2>2 DEF HInv, HostInv, IInv, WaitInv, Satisfied, F, FunOf, TypeOK, Op
    <3>2. loaded["fw"].ver \in Int /\ goal["fw"].ver \in Int
      BY <1>1 DEF TypeOK, Rule
    <3>3. loaded["fw"] = goal["fw"]
      BY <3>1, <3>2 DEF HInv, IInv, AheadInv, Behind
    <3>4. granted'["fw"] = TRUE
      BY <1>1, <2>1, <2>2 DEF TypeOK
    <3> QED BY <2>1, <3>3, <3>4 DEF D!Grant
  <2>3. CASE F # "fw"
    BY <1>1, <2>1, <2>3 DEF TypeOK
  <2> QED BY <2>2, <2>3
<1>8. CASE WriteFails \/ PollMiss \/ Expire \/ SleepPoll
  BY <1>8 DEF WriteFails, PollMiss, Expire, SleepPoll, pipeline, ghosts
<1>9. CASE ResetRules
  <2>1. goal' = goal /\ loaded' = loaded /\ granted'["fw"] = FALSE
    BY <1>1, <1>9 DEF ResetRules, TypeOK
  <2> QED BY <2>1 DEF D!Withdraw
<1>10. CASE (\E f \in Fun : CloudSync(f) \/ Fetch(f) \/ Apply(f)) \/ Restart
  <2>1. goal' = goal /\ granted' = granted
    BY <1>10 DEF CloudSync, Fetch, Apply, Restart, ghosts
  <2>2. loaded'["fw"].text \in IF granted["fw"] THEN {goal["fw"].text, Nil}
                               ELSE Texts \cup {Nil}
    BY <1>2, <1>3, <2>1 DEF TextInv
  <2> QED BY <2>1, <2>2 DEF D!Enforce
<1>11. CASE ResetFails \/ UNCHANGED vars
  BY <1>11 DEF vars, ResetFails, pipeline, ghosts
<1> QED
  BY <1>4, <1>5, <1>6, <1>7, <1>8, <1>9, <1>10, <1>11 DEF Next, Orchestrator, ProvisionRule

\* In host mode the whole of rule delivery - VSOC's numbering, idps-server's and
\* idps-fw's own steps, lost answers, expired waits, restarts - implements the
\* abstract specification a caller of provision_firewall relies on.
THEOREM HostDeliversAsPromised == ASSUME Mode = "host" PROVE Spec => DeliversAsPromised
<1>1. Init => D!DInit
  <2> SUFFICES ASSUME Init PROVE D!DInit
    OBVIOUS
  <2>1. goal["fw"].text = Nil /\ granted["fw"] = FALSE
    BY DEF Init, Fun, NoRule
  <2>2. loaded["fw"].text \in Texts \cup {Nil}
    BY DeliveryInit DEF TextInv
  <2> QED BY <2>1, <2>2 DEF D!DInit
<1>2. Spec => [](HInv /\ TextInv /\ InletInv)
  <2>1. Init => HInv
    BY InvInit
  <2>2. HInv /\ [Next]_vars => HInv'
    BY HostNext
  <2> QED BY <2>1, <2>2, DeliveryInv, PTL DEF Spec
<1>3. /\ HInv /\ HInv' /\ TextInv /\ TextInv' /\ InletInv /\ [Next]_vars
      => [D!DNext]_(D!dvars)
  BY DeliveryStep
<1> QED
  BY <1>1, <1>2, <1>3, PTL DEF Spec, DeliversAsPromised, D!DSpec

=============================================================================
