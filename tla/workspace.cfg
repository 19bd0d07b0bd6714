CONSTANTS
  a1 = a1  a2 = a2  b1 = b1  b2 = b2  s1 = s1  r1 = r1  table = table  mcp = mcp
\* StoreTransactions: two connections, two invocations of one session or none, three events
  Invocations = {a1, a2}
  Sessions = {s1}
  NoSession = NoSession
  Requests = {r1}
  Connections = {b1, b2}
  NoOne = NoOne
  MaxAttempts = 2
  MaxSequence = 3
\* Rollout: one table or volume, one MCP service
  Tools = {table}
  Services = {mcp}
  Manifests <- MCManifests
  Others = {job}
  Required = {gateway}
  OtherScopes = {files}
  MaxDeploys = 2
  MaxApps = 2
  MaxOutside = 1
\* ModelSearch: two services of two replicas each, the smoke test and one more candidate
  Endpoints = {a1, a2}
  Models = {"a", "b"}
  Replicas = {b1, b2}
  RouteMatches = 2
  MaxEvals = 2
\* McpTools: one request after the other, the manifest edited and the credentials renewed between any two steps
  Callers = {r1}
  Documents <- MCDocuments
  MaxEdits = 1
  MaxRotations = 1
INIT WorkspaceInit
NEXT WorkspaceNext
VIEW Running
SYMMETRY WorkspaceSymmetry
INVARIANTS RowsStayUnique SearchIsSound McpToolsAreSafe
PROPERTIES CursorsSkipNothing ImplementsAtomicStore RolloutsAreSafe
CHECK_DEADLOCK FALSE
