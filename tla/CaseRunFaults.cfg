SPECIFICATION FairSpec
CONSTANTS
  Script <- AppScript
  Verdicts = {"allowed", "blocked"}
  Kinds = {"PolicyDeny"}
  NoPort = NoPort
  Stamps = {"raised"}
  Ready = 1
  Settle = 1
  Deadline = 2
  Latency = 3
  MaxDelay = 1
  MaxEvents = 1
  Faults = {"listen", "traffic", "query"}
INVARIANT PassedEventIsOwn
PROPERTY FailIsOwn
PROPERTY OnlyOwnListener
PROPERTY AllJudged
CHECK_DEADLOCK FALSE
