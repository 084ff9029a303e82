CONSTANTS
  Runs = {"codex", "claude"}
  Providers = {"codex", "claude"}
  ProviderOf <- ExternalProviders
  RequestOf <- ExternalRequests
  OptionsOf <- ExternalOptions
  Lines <- ExternalLines
  MaxEvents = 3
  MaxOutput = 1
  MaxLines = 2
  Connects = {c1, c2}
  Calls = {t1}
  McpCommand <- PlainCommand
  MaxChanges = 1
  MaxAsks = 1
  Tasks = {1, 2, 3, 4, 5}
  CallOf <- LspCalls
  Files = {"a", "b"}
  MaxTracked = 1
  Touches = {1, 2}
  ServersOf <- TouchServers
  MaxSpawns = 3
  MaxChunks = 3
SPECIFICATION ClientSpec
INVARIANTS ClientsSound DocumentsInStep
PROPERTY ClientsSettle
CHECK_DEADLOCK FALSE
