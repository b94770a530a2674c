SPECIFICATION FairSpec
CONSTANTS
  Jobs = {j1}
  Workers = {w1, w2}
  Documents = {d1}
  NoJob = NoJob
  MaxAttempts = 2
  LeaseTicks = 2
  MaxClaims = 4
PROPERTIES
  EverySourceSettles
