CONSTANTS
  Callers = {c1, c2}
  Keys = {k1, k2}
  Values = {v1, v2}
  None = None
  Backends = {"memory", "sqlite", "postgres", "file"}
  MaxCalls = 3
  Namespaces = {"", "sub"}
  ThreadIds = {"t"}
  Steps = {0, 1}
  CheckpointBackends = {"table", "redis"}
  Readers = {r1}
  Missing = Missing
  Damaged = Damaged
  MaxPuts = 2
  MaxDeletes = 1
  StoreKeys = {i1, i2}
  StoreBackends = {"memory", "redis", "postgres"}
  MaxItems = 1
  Embeds = {TRUE, FALSE}
  Nothing = Nothing
  MaxWrites = 3
  Providers = {"anthropic", "openai", "openrouter", "google", "ollama"}
  call1 = call1
  call2 = call2
  CallIds = {call1, call2}
  CallLists <- OneOrTwo
  NoId = NoId
  MaxMessages = 4
  WaitCap = 5
  StreamProviders = {"anthropic", "openai", "openrouter", "google", "ollama"}
  NoBlock = NoBlock
  MaxPayloads = 4
  MaxBacklog = 3
  Requests = {q1, q2}
  Patterns <- ThePatterns
  Topics <- TheTopics
  Subscribers = {s1, s2}
  MaxBuffer = 1
  MaxPublished = 2
  Types = {e1}
  Listeners = {l1}
  Onces = {o1}
  Waiters = {w1}
  Observers = {all}
  MaxEmitted = 2
  MaxDepth = 2
  LetterThreads = {t1, t2}
  MaxPerThread = 2
  MaxLetters = 4
  MaxChanges = 4
  Extensions = {f1, f2}
  ToolNames = {n1, n2}
  Nobody = Nobody
  ToolCalls = {l1}
  MaxEdits = 3
  TokenReaders = {d1, d2}
  Capacity = 2
  MaxTokens = 3
  Empty = Empty
SPECIFICATION ServicesSpec
INVARIANTS StoresSound RepliesSound EachOnce
PROPERTIES SessionsAreAtomic AnswersSettle
CHECK_DEADLOCK FALSE
