SPECIFICATION Spec
CONSTANTS
  Jobs = {r1}
  Workers = {w1}
  Items = {i1}
  NoJob = NoJob
  MaxAttempts = 1
  LeaseTicks = 1
  MaxClaims = 1
INVARIANTS
  SupersededExcluded
