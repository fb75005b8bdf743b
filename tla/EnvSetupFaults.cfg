SPECIFICATION FairSpec
CONSTANTS
  Mode = "android"
  Owners = {o1, o2}
  TestCfg = TestCfg
  Torn = Torn
  Absent = Absent
  Down = Down
  FirstOwner = o1
  Subnets = {24}
  DefaultSubnet = 24
  Faults = {"ip", "write", "copy", "remove", "stop", "start", "crash", "reboot"}
  RuleDelLimit = 2
  MaxPolls = 1
  MaxCommands = 2
  MaxUpsets = 1
INVARIANT TypeOK
PROPERTY OverwriteNeedsBackup
PROPERTY CommandEnds
CHECK_DEADLOCK FALSE
