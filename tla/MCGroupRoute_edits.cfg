SPECIFICATION Spec
CONSTANTS
  a = a
  b = b
  r1 = r1
  r2 = r2
  NoItem = NoItem
  Items <- OneItem
  InitMembers = {}
  Requests <- TwoRequests
  Prio <- OnePrio
  NativeSets <- NoNative
  InitEmergency = a
  EmergencyMaxConcurrent = 2
  MemberMaxAttempts = 1
  MemberAffinity = TRUE
  MaxLevel = 1
  MaxAsyncProbes = 1
  Features = {"members", "autoclear", "mode", "emergency"}
INVARIANTS HoldsOwned EmergencyNoLeak
SYMMETRY RequestSymmetry
