SPECIFICATION QueueFairSpec
CONSTANTS
  Jobs = {j1, j2}
  Workers = {w1, w2}
  NoJob = NoJob
  MaxAttempts = 2
  LeaseTicks = 2
  MaxClaims = 3
INVARIANTS
  QueueInvariant
  ExclusiveClaim
  CancelledNeverSucceeds
PROPERTIES
  LiveLeaseRespected
  ImplementsLeasedWork
  EveryJobSettles
