SPECIFICATION Spec
CONSTANTS
  Mode = "android"
  Texts = {t1, t2}
  Cycles = {5, 9}
  ConfigCycle = 5
  Baseline = t1
  Nil = Nil
  OldVers = {0, 2}
  I32Max = 3
  MaxCalls = 1
  MaxPolls = 1
  MaxRestarts = 1
INVARIANT FirewallInForce
CHECK_DEADLOCK FALSE
