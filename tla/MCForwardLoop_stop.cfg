SPECIFICATION Spec
CONSTANTS
  m1 = m1
  NoItem = NoItem
  Members <- OneMember
  MaxRounds = 2
  MaxAccountRetries = 1
  Features = {"stop"}
INVARIANTS
  StopReachesRound
CHECK_DEADLOCK FALSE
