CONSTANTS
  TaskCount = 3
  Templates = {"fanOut", "ensemble", "race", "speculative", "dag", "pool", "mapReduce"}
  FanOutLimit = 2
  TimedOutAgents = TRUE
  GlobalTimeout = TRUE
  DepGraphs <- Graphs
  PoolSize = 2
  PoolStrategies = {"round-robin", "random"}
  RemovableSlots = {0, 1}
  LoopTemplates = {"critique", "stepwise", "debate", "mesh", "redTeam", "socratic",
                   "research", "thought", "adversarial", "gan"}
  RoundLimit = 2
  RetryLimit = 1
  Negotiations = 1
  OnFailure = "halt"
  Dims = {"d1", "d2"}
  CoverageKeys = {"d1", "d2", "other"}
  GlobalTotal = 2
  Scores = {0, 1, 2}
  Threshold = 1
  PivotBelow = 1
  HardBelow = 1
  Teams = 2
  Coordinators = {"llm", "round-robin"}
  MaxQuestions = 3
  MaxConcurrent = 2
  BranchFactor = 2
  TopK = 2
  Vulnerabilities = {"v1", "v2", "v3"}
  Significant = {"v1", "v2"}
  Workers = {"a", "b"}
  MinAgents = 1
  MaxAgents = 5
  StartAgents = 2
  ErrorPercent = 50
  LatencyLimit = 2
  IdleLimit = 1
  Cooldown = 2
  Window = 3
  Stale = 3
  MaxEvents = 3
  MaxTime = 5
  MaxExecutions = 2
SPECIFICATION TemplatesSpec
INVARIANT ResultsAreEarned
PROPERTIES TemplatesEnd ScalingIsSteady
CHECK_DEADLOCK FALSE
