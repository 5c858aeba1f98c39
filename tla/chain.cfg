SPECIFICATION Spec
CONSTANTS
  Scenario <- MCScenario
  Redirects = 1
  MaxInt64 = 6
  Addr = {a1, a2, a3}
  a1 = a1
  a2 = a2
  a3 = a3
  None = None
  Null = Null
  Bad = Bad
  NoRule = NoRule
INVARIANTS RoutedAsDecided SplitKept VotesFair AclHolds InheritanceSound
CHECK_DEADLOCK FALSE
