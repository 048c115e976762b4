SPECIFICATION Spec
CONSTANTS
  r1 = r1
  r2 = r2
  r3 = r3
  a1 = a1
  a2 = a2
  a3 = a3
  c1 = c1
  m1 = m1
  m2 = m2
  Readers <- MCReaders
  Limit = 6
  MaxCompressed = 1
  MaxDecompressed = 3
  MaxChunk = 2
  Rounds <- MCRounds
  Limits = {0, 1, 2}
  MaxGenerations = 3
  CanClear = TRUE
  PoolModes = {"shared", "keyed"}
  Accounts = {"a1", "a2"}
  KeyAccount = "k"
  Sessions = {"s", "t"}
  NoSession = ""
  PoolRequests = {1, 2}
  SessionOf <- PoolSessions
  PerAccountLimit = 2
  MaxAccounts = 1
  FailureLimit = 2
  RateQuorum = 2
  SuccessTTL = 1
  MaxPicks = 2
  MaxDay = 2
  MaxVerdicts = 1
  MaxPoolRestarts = 1
  Slots = {0}
  WarpRounds = {1, 2}
  WarpSession <- WarpSessions
  MaxGen = 2
  MaxMarks = 3
  Jobs = {"j1", "j2", "auto"}
  AutoJob = "auto"
  JobAccounts <- MCAccounts
  JobConcurrency = 1
  JobKeepCount = 1
  MaxProbeDay = 1
  Answers <- MCAnswers
  Thoughts <- MCThoughts
  PendingMax = 4
  MaxEvent = 3
  Turns = {1, 2, 3, 4, 5}
  KeyOf <- TurnKeys
  NoKey = ""
  ValuesOf <- TurnValues
  MaxMaskSessions = 1
  Ids = {1, 2}
  Consoles <- MCConsoles
  Addresses <- MCAddresses
  FailureKinds = {"status5xx"}
  MaxFinished = 1
  MaxFailureRecords = 2
  StreamBuffer = 1
  MaxClientIPs = 2
  MaxRegistryRounds = 1
  MaxInFlight = 2
  RateKinds = {"channel", "key"}
  Callers <- MCCallers
  Rpms = {0, 1, 2}
  RateWindow = 3
  MaxDelay = 1
  KeyLimits = {0, 1}
  MaxCleanups = 1
  k1 = k1
  k2 = k2
  Keys = {k1, k2}
  KeyLists <- MCKeyLists
  Pickers <- MCCallers
  CoolSeconds = {1, 2}
  MaxTries = 1
INVARIANTS BudgetExact BudgetNoLostWakeup LoneAdmitted ActiveExact GateNoLostWakeup PoolSound WarpSound ReportAddsUp SentOnce SessionsSound RegistrySound RateSound KeysSound
PROPERTY LimitsKept
CHECK_DEADLOCK FALSE
