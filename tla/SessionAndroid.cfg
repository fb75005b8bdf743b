SPECIFICATION SSpec
CONSTANTS
  t2 = t2
  t3 = t3
  Plan <- AndroidPlan
  Mode = "android"
  Texts = {t1, t2, t3}
  Cycles = {5, 9}
  ConfigCycle = 5
  Baseline = t1
  Nil = Nil
  OldVers = {0, 2}
  I32Max = 3
  MaxCalls = 10
  MaxPolls = 1
  MaxRestarts = 1
INVARIANT TypeOK
INVARIANT AheadGrantInForce
INVARIANT CycleGrantInForce
INVARIANT NothingFails
CHECK_DEADLOCK FALSE
