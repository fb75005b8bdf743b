SPECIFICATION Spec
CONSTANTS
  Scripts <- MCScripts
  Connect = 3
  Lag = 3
  MaxDelay = 1
  OtherCycle = 20
  Faults = {"spawn", "query", "deaf", "slow", "cycle", "restart"}
INVARIANT PassIsOwn
INVARIANT HealthyPasses
INVARIANT NothingLeftBehind
CHECK_DEADLOCK FALSE
