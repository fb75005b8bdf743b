SPECIFICATION SSpec
CONSTANTS
  t2 = t2
  t3 = t3
  Plan <- ProvisionPlan
  Mode = "android"
  Texts = {t1, t2, t3}
  Cycles = {5, 9}
  ConfigCycle = 5
  Baseline = t1
  Nil = Nil
  OldVers = {0, 2}
  I32Max = 9
  MaxCalls = 6
  MaxPolls = 1
  MaxRestarts = 1
INVARIANT NothingFails
CHECK_DEADLOCK FALSE
