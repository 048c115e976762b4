SPECIFICATION BudgetSpec
CONSTANTS
  r1 = r1
  r2 = r2
  r3 = r3
  Readers <- TwoRequests
  Limit = 8
  MaxCompressed = 2
  MaxDecompressed = 4
  MaxChunk = 2
INVARIANT WaitersHaveReleaser
SYMMETRY RequestSymmetry
