SPECIFICATION OutboundSpec
CONSTANTS
  Events = {e1}
  Dispatchers = {p1}
  NoEvent = NoEvent
  MaxPublishTries = 1
  OutboxLease = 1
  Deliveries = {d1}
  Couriers = {c1}
  NoDelivery = NoDelivery
  MaxPosts = 1
  CourierLease = 1
  Calls = {l1, l2}
  Models = 1
  MaxAttempts = 1
  MaxConcurrency = 1
  Threshold = 1
  Internal = {s1}
  MaxIterations = 1
  MaxToolCalls = 1
  MaxRepeated = 1
  NoIndex = NoIndex
  ToolDeltas <- ToolDeltaKinds
  MaxCalls = 1
  MaxChunks = 1
  MaxTurn = 1
  MaxUsage = 1
PROPERTIES
  ProbeComesBack
