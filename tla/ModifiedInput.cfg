CONSTANTS
  Teams <- ThreeAgents
  Features = {1, 2}
  Proposals = {1}
  Nobody = Nobody
  NoFile = NoFile
  MaxTries = 1
  MaxChanges = 3
  MaxReviews = 2
  MaxStep = 3
  MaxContents = 3
  MaxPuts = 2
  Agents = {a1, a2}
  FeatureIds = {1}
  OnBroken = {"throw", "warn", "fix"}
  NoArtifact = NoArtifact
  MaxMoments = 5
  MaxBreaks = 1
  soul = soul
  guide = guide
  s1 = s1
  s2 = s2
  s3 = s3
  Agendas = {s1, s2, s3}
  Facts = {f1}
  Notes <- SoulAndGuide
  NoteFile <- TheirFiles
  Budgets <- SmallBudgets
  AllOfType = 4
  RecentDays = 1
  ByPath = ByPath
  Unread = Unread
  Unreadable = Unreadable
  MaxDay = 1
  MaxQueries = 1
  MaxAtOnce = 2
  workspace = workspace
  readme = readme
  secret = secret
  link = link
  outside = outside
  build = build
  wipe = wipe
  shell = shell
  writer = writer
  ghost = ghost
  Unset = Unset
  Unmodified = Unmodified
  Tools <- TheTools
  Batches <- TheBatches
  HookLists <- TheHookLists
  LateHooks <- TheLateHooks
  HookReplies <- TheReplies
  Protected = {{shell}}
  Scopes <- TheScopes
  Grants <- TheGrants
  Workspace = workspace
  Real <- TheReal
  Within <- TheWithin
  PathArguments = {"path"}
  CommandArguments = {"command"}
  Dangerous = {wipe}
  StartsWith <- TheTexts
  MaxArrayItems = 2
  MaxNesting = 2
  MaxHookChanges = 1
  researcher = researcher
  editor = editor
  helper = helper
  search = search
  publish = publish
  delete = delete
  t1 = t1
  t2 = t2
  opus = opus
  AgentNodes = {researcher, editor, helper}
  Declared = {researcher, editor}
  Threads = {t1, t2}
  ThreadOf <- TheThreads
  ToolsOf <- TheirTools
  SafeTools = {search, delete}
  Permissions <- ThePermissions
  CallLists <- TheCallLists
  Usages <- TheUsages
  Prices <- ThePrices
  ModelOf <- TheModels
  SpendingLimits <- TheBudgets
  MaxSteps = 2
  MaxTokens = 4
  MaxThreadIds = 1
  Unlimited = Unlimited
  NaN = NaN
  AllTools = AllTools
  Scheduled <- TheTeams
  MaxRuns = 1
  MaxSent = 1
  Metrics = {0, 1, 2}
  Improvement = 1
  Revisions = {"better", "unfit"}
  BadRevisions = {"unfit"}
  MaxExperiments = 2
  MaxCheckpoints = 4
SPECIFICATION HarnessSpec
INVARIANT ModifiedInputApplies
SYMMETRY AnySession
CHECK_DEADLOCK FALSE
