SPECIFICATION Spec
CONSTANTS
  Shells <- MCShells
  FlagSets <- MCFlagSets
  Files <- MCFiles
  Unset = Unset
  Bad = Bad
  MaxCommands = 3
INVARIANT Precedence
INVARIANT SameTopology
INVARIANT WorkersStart
CHECK_DEADLOCK FALSE
