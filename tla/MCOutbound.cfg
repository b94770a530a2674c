SPECIFICATION OutboundSpec
CONSTANTS
  Events = {e1}
  Dispatchers = {p1, p2}
  NoEvent = NoEvent
  MaxPublishTries = 2
  OutboxLease = 1
  Deliveries = {d1}
  Couriers = {c1, c2}
  NoDelivery = NoDelivery
  MaxPosts = 2
  CourierLease = 1
  Calls = {l1, l2}
  Models = 2
  MaxAttempts = 2
  MaxConcurrency = 1
  Threshold = 2
  Internal = {s1, s2}
  MaxIterations = 3
  MaxToolCalls = 4
  MaxRepeated = 2
  MaxTurn = 3
  NoIndex = NoIndex
  ToolDeltas <- ToolDeltaKinds
  MaxCalls = 2
  MaxUsage = 1
  MaxChunks = 2
INVARIANTS
  SentAsReported
  SlotsKept
  BudgetsHeld
  OnlyFinalTurnShown
  StreamWellFormed
PROPERTIES
  OutboxImplementsLeasedWork
  EverySendSettles
  NeverRestarted
  EveryCallEnds
