SPECIFICATION FairSpec
CONSTANTS
  a = a
  b = b
  r1 = r1
  r2 = r2
  NoItem = NoItem
  Items <- MCItems
  InitMembers = {a, b}
  Requests <- TwoRequests
  Prio <- MCPrio
  NativeSets <- NoNative
  InitEmergency = NoItem
  EmergencyMaxConcurrent = 2
  MemberMaxAttempts = 1
  MemberAffinity = TRUE
  MaxLevel = 1
  MaxAsyncProbes = 1
  Features = {}
PROPERTIES CandidateSettles HalfOpenSettles
