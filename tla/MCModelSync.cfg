SPECIFICATION SyncSpec
CONSTANTS
  ModelsOf <- TwoModels
  Matching <- TwoModels
  Fit <- TwoModels
  Metas = {1}
  Providers = {"plain"}
  MaxPages = 1
  MaxSaves = 1
PROPERTY ManualKept
CHECK_DEADLOCK FALSE
