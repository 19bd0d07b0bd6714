CONSTANTS
  p1 = p1  p2 = p2  f1 = f1  f2 = f2  s1 = s1  c1 = c1
\* ResponseStream
  Handlers = {"stream"}
  MaxAttempts = 2
  MaxEmits = 1
  MaxFaults = 1
\* Checkpointer, Transcript
  PageSize = 2
  Processes = {p1, p2}
  Channels = {c1}
  MaxCheckpoints = 3
  MaxTasks = 1
  MaxItems = 4
  Speakers = {p1, p2}
  MaxSaid = 3
\* LongTermMemory
  Agents = {p1, p2}
  Facts = {f1, f2}
  Scopings = {s1}
  MaxMemories = 3
  MaxUpdates = 2
\* LakebaseEngines
  Users = {p1, p2}
  Wants <- MCWants
  TokenLife = 3
  CacheFor = 1
  MaxDelay = 1
  MaxEngines = 2
  Public = Public
\* GenieAsk, GeniePoll, ResultTruncation
  MaxAsks = 2
  MaxCalls = 3
  MaxIterations = 4
  MaxQueries = 3
  MaxAttachments = 3
  Rows = 5
  MaxTokens = 2
\* McpRegistration
  Registrars = {p1, p2}
  Names = {f1, f2}
  AuthServers = {c1}
  MaxRegisters = 2
INIT SessionsInit
NEXT SessionsNext
VIEW Running
SYMMETRY SessionsSymmetry
INVARIANTS StreamIsSound ConversationsReadBack MemoryIsSound LakebaseIsSound  ShowsWhatFits RegistrationIsSound
CHECK_DEADLOCK FALSE
