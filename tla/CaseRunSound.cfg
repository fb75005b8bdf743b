SPECIFICATION Spec
CONSTANTS
  Script <- SamePortScript
  Verdicts = {"allowed", "blocked"}
  Kinds = {"NetworkBlock", "PortScan"}
  NoPort = NoPort
  Stamps = {"raised", "stored"}
  Ready = 1
  Settle = 2
  Deadline = 2
  Latency = 1
  MaxDelay = 1
  MaxEvents = 1
  Faults = {}
INVARIANT TypeOK
INVARIANT PassedEventIsOwn
INVARIANT SilentPassIsReal
PROPERTY FailIsOwn
CHECK_DEADLOCK FALSE
