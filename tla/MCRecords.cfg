SPECIFICATION Spec
CONSTANTS
  x = x
  y = y
  z = z
  p1 = p1
  p2 = p2
  LogEntries = {1, 2, 3}
  ClassOf <- ErrorClasses
  LogQueueCap = 2
  LogThreshold = 2
  KeptRows = 2
  KeptPerClass = 1
  MaxLogFaults = 1
  Records = {1, 2, 3}
  Unencodable = {2}
  PendingMax = 2
  DirMax = 1
  RetentionDays = 2
  LastDay = 3
  MaxConvFaults = 2
  UsageModels = {x, y}
  UsageRanges = {"24h", "7d", "30d", "1y", "3y"}
  Reports <- TokenReports
  Jumps = {73, 167}
  MaxHour <- TenYears
  UsageRetention = 7
  MaxBuckets = 2
  MaxRequests = 2
  TopModels = 1
  ClientIPs = {x, y, z}
  MaxClientRows = 2
  MaxVisits = 5
  TouchKeys = {x, y}
  Touchers = {1, 2, 3}
  TouchQueueSize = 2
  TouchBatchSize = 2
  Tasks = {"stat_flush"}
  StatTask = "stat_flush"
  Handlers = {"h"}
  Leaving = {"stat", "log"}
  MaxLate = 1
  MaxWaiting = 1
  UpdateBuffer = 1
  MaxIntervals = 1
  ChannelModels = {1}
  ChannelOf <- ModelChannel
  GroupIds = {1, 2, 3}
  GroupNames = {"a", "b", "auto"}
  AutoName = "auto"
  NoMember = 0
  MaxRefDepth = 8
  Racing = {"channel", "create", "members", "active"}
  MaxEdits = 4
  KeyValues = {"u", "v", "w"}
  KeyAdmins = {1, 2}
  NoAdmin = 0
  ReusePlaintext = FALSE
  MaxKeyId = 3
  MaxKeyWrites = 5
  ChannelNames = {"x"}
  ModelNames = {"m"}
  BackupGroups = {"a", "b"}
  Foreign <- ForeignDumps
  AllowStale = FALSE
  MaxId = 2
  MaxLiveOps = 7
  ModelsOf = {"a", "b", "c"}
  Matching = {"a", "b"}
  Fit = {"a", "c"}
  Metas = {1}
  Providers = {"paged", "plain"}
  MaxPages = 2
  MaxSaves = 1
  TaskIds = {1, 2}
  Targets = {x, y}
  Processes = {p1, p2}
  LoneProcess = p1
  Movers = {"m"}
  Deployments = {"sqlite", "shared"}
  EvalConcurrency = 1
  SaveFailures <- Failing
  MaxEvalCrashes = 2
  RankProcesses = {p1, p2}
  RankTargets = {x, y, z}
  Batches <- RankedBatches
  EvalIds = {1, 2}
  Times = {0, 1}
  KeptEvals = 1
  MaxRows = 3
  MaxChanges = 4
INVARIANTS LogSound RetentionSound DashboardSound OneRowPerAddress NoStrandedTouch ShutdownSound GroupsSound RevokedStaysRevoked RestoreSound EvalOnce
PROPERTIES SyncKeeps ImplementsBoard RankSound
CHECK_DEADLOCK FALSE
