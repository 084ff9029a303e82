\* Breaker, retry, timeout, fallback and cache, three concurrent calls, safety and liveness.
SPECIFICATION Spec
CONSTANTS
  Calls = {c1, c2, c3}
  Threshold = 2
  ResetAfter = 1
  MaxAttempts = 2
  HasRetry = TRUE
  HasTimeout = TRUE
  HasFallback = TRUE
  HasCache = TRUE
  CacheTtl = 1
  HasFilters = TRUE
  MaxTime = 2
INVARIANT BreakerSound
PROPERTIES NoAdmissionWhileCooling LateAnswerIgnored AdmittedCallsSettle
