INIT ServicesInit
NEXT ServicesNext
SYMMETRY ServicesSymmetry
CONSTANTS
  Users = {a, b}
  Admins = {a}
  s1 = s1
  s2 = s2
  Spaces = {s1, s2}
  Keys = {k1, k2}
  Callers = {q1, q2}
  ScopeChoices = {{"api_keys:write", "spaces:members", "knowledge:read"}}
  ProfileChoices = {"trusted_maintainer"}
  GroupRoles = {"owner"}
  Anywhere = Anywhere
  NoOne = NoOne
  Units = {1, 2, 3}
  About <- ThreeUnits
  Weights <- VectorFirst
  MaxHits = 2
  Diversity = {1, 2}
  RankK = 1
  Boost = 50
  Scale = 12
  MaxSources = 2
  MaxChars = 10
  MaxTokens = 3
  MaxRevisions = 3
  Editors = {e1, e2}
  NoEditor = NoEditor
  Serving = {r1, r2, r3}
  Capacity = 3
  Concurrent = 2
  Budget = 2
  Submissions = {x1, x2}
  Payloads = {p1, p2}
  NoPayload = NoPayload
  Principals <- OneMember
  Targets = {t}
  Proposals = {a1, a2}
  Confirmations = {c1, c2}
  MaxRevision = 3
  Paths = {"p", "q"}
  Contents = {1, 2}
  Nothing = Nothing
  MaxCommits = 2
  MaxDocuments = 2
  Syncs = {y1}
  MaxLegacy = 2
  BatchSize = 2
  Runners = {w1, w2}
  UnitIds = {1, 2, 3}
  SourceOf <- TwoSources
  PageSize = 1
  MaxGenerations = 3
  Operators = {o1, o2}
  Drains = {d1, d2}
INVARIANTS
  DelegationNarrows
  ShownWasReadable
  AnswerIsBest
  SlotsAreRequests
  AppliedOnce
  
  FinishedWalkIsComplete
  OneGeneration
  
PROPERTIES
  OwnerKept
  NoLostUpdate
  
CHECK_DEADLOCK FALSE
