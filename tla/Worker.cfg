SPECIFICATION Spec
CONSTANTS
  ThreadDelays = {0, 7, 19}
  Overhead = 2
  Pids = {1000, 1001, 1003, 20999}
INVARIANT TypeOK
INVARIANT VerdictAsExpected
INVARIANT VerdictEarned
INVARIANT ScanDetected
INVARIANT FinFlowsNew
PROPERTY WorkerEnds
CHECK_DEADLOCK FALSE
