SPECIFICATION GateSpec
CONSTANTS
  r1 = r1
  r2 = r2
  r3 = r3
  r4 = r4
  Rounds <- ThreeRequests
  Limits = {1, 2}
  MaxGenerations = 2
  CanClear = TRUE
PROPERTY AdmitBelowLimit
SYMMETRY RequestSymmetry
