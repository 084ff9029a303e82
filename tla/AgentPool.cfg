\* A slot of one task and one of two that come and go, three requests, dispose.
SPECIFICATION Spec
CONSTANTS
  a1 = a1
  a2 = a2
  r1 = r1
  r2 = r2
  r3 = r3
  Agents = {a1, a2}
  InitialAgents = {a2}
  Removable = {a1, a2}
  Requests = {r1, r2, r3}
  Priority <- MCPriority
  MaxConcurrency <- MCMaxConcurrency
  MaxRetries = 1
  HasRetryDelay = TRUE
  LeastBusy = TRUE
  MaxQueueDepth = 2
  NoSlot = NoSlot
INVARIANT CapacityAccounted
PROPERTIES QueuedRequestsServedInOrder AcceptedRequestsSettle
