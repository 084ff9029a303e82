\* Two threads over two agents of the same capability, one of which comes and goes.
SPECIFICATION Spec
CONSTANTS
  a1 = a1
  r1 = r1
  r2 = r2
  a2 = a2
  s1 = s1
  Agents = {a1, a2}
  InitialAgents = {a1}
  Removable = {a2}
  Runs = {r1, r2}
  Abortable = {r1}
  Skills = {s1}
  Caps <- MCCaps
  Required = {s1}
  HandsOffTo <- MCHandsOffTo
  MaxConcurrency <- MCMaxConcurrency
  Strategies = {"llm", "round-robin"}
  MaxRounds = 2
  MaxRetries = 1
  HasRetryDelay <- MCHasRetryDelay
  AutoRecover = TRUE
  HasDeadline = TRUE
  OnErrorThrows = FALSE
  RecursionLimit <- MCRecursionLimit
  MaxCalls <- MCMaxCalls
  Supervisor = supervisor
  END = END
  None = None
INVARIANTS TypeOK RegistryTrue
PROPERTIES NothingNewAfterDeadline CallsSettle
CHECK_DEADLOCK FALSE
