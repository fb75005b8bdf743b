SPECIFICATION Spec
CONSTANTS
  Script <- ThresholdScript
  Verdicts = {"allowed", "blocked"}
  Kinds = {"PortScan"}
  NoPort = NoPort
  Stamps = {"raised", "stored"}
  Ready = 1
  Settle = 2
  Deadline = 2
  Latency = 1
  MaxDelay = 1
  MaxEvents = 1
  Faults = {}
INVARIANT SilentPassIsReal
CHECK_DEADLOCK FALSE
