SPECIFICATION Spec
CONSTANTS
  m1 = m1
  NoItem = NoItem
  Members <- OneMember
  MaxRounds = 2
  MaxAccountRetries = 1
  Features = {"client", "stop", "interrupt", "stopall", "panic"}
INVARIANTS
  OneAnswer
  NothingLeft
  StoppedIsClosed
  OneLateRound
PROPERTIES
  FinalStays
  InterruptHitsItsRound
  Terminates
CHECK_DEADLOCK FALSE
