SPECIFICATION Spec
CONSTANTS
  a = a
  b = b
  r1 = r1
  r2 = r2
  NoItem = NoItem
  Items <- OneItem
  InitMembers = {a}
  Requests <- TwoRequests
  Prio <- OnePrio
  NativeSets <- NoNative
  InitEmergency = a
  EmergencyMaxConcurrent = 2
  MemberMaxAttempts = 2
  MemberAffinity = TRUE
  MaxLevel = 1
  MaxAsyncProbes = 1
  Features = {"delete", "panic", "postcommit", "background", "disable"}
INVARIANTS HoldsOwned
CHECK_DEADLOCK FALSE
SYMMETRY RequestSymmetry
