SPECIFICATION Spec
CONSTANTS
  Mode = "android"
  Owners = {o1, o2}
  TestCfg = TestCfg
  Torn = Torn
  Absent = Absent
  Down = Down
  FirstOwner = o1
  Subnets = {24}
  DefaultSubnet = 24
  Faults = {"write", "crash", "reboot"}
  RuleDelLimit = 2
  MaxPolls = 1
  MaxCommands = 4
  MaxUpsets = 2
INVARIANT OriginalKept
INVARIANT ConfigGivenBack
INVARIANT CleanTearsDown
INVARIANT ReadyApplied
INVARIANT DaemonGivenBack
CHECK_DEADLOCK FALSE
