SPECIFICATION SFairSpec
CONSTANTS
  t2 = t2
  t3 = t3
  Plan <- HostPlan
  Mode = "host"
  Texts = {t1, t2, t3}
  Cycles = {5}
  ConfigCycle = 5
  Baseline = t1
  Nil = Nil
  OldVers = {2}
  I32Max = 9
  MaxCalls = 7
  MaxPolls = 1
  MaxRestarts = 1
INVARIANT SessionOK
INVARIANT FirewallInForce
INVARIANT VersionsFlowForward
INVARIANT AllReported
INVARIANT NothingFails
PROPERTY DeliversAsPromised
PROPERTY RanUnderOwnRules
PROPERTY SessionEnds
CHECK_DEADLOCK FALSE
