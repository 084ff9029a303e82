\* Single, parallel and serial batches, compaction with a summary model that answers.
SPECIFICATION Spec
CONSTANTS
  read = read
  edit = edit
  skill = skill
  Tools = {read, edit, skill}
  Unsafe = {edit}
  SkillTools = {skill}
  Unserializable = {read}
  Batches <- MCBatches
  MaxTurns = 4
  MaxRetries = 1
  Budget = 9
  KeepRecent = 3
  SummaryMayFail = FALSE
  HasTodos = TRUE
  MaxSends = 1
CHECK_DEADLOCK FALSE
INVARIANTS ConversationSound UnsafeRunsAlone CancelHonoured
PROPERTY LoopEnds
