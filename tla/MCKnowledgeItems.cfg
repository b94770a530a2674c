SPECIFICATION Spec
CONSTANTS
  Jobs = {r1, r2}
  Workers = {w1, w2}
  Items = {i1}
  NoJob = NoJob
  MaxAttempts = 2
  LeaseTicks = 1
  MaxClaims = 3
SYMMETRY Symmetry
INVARIANTS
  KnowledgeInvariant
  EnrichedIsSearchable
