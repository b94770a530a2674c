SPECIFICATION Spec
CONSTANTS
  Jobs = {j1, j2, j3}
  Workers = {w1, w2}
  Documents = {d1}
  NoJob = NoJob
  MaxAttempts = 2
  LeaseTicks = 1
  MaxClaims = 2
SYMMETRY Symmetry
PROPERTIES
  ImplementsCatalog
