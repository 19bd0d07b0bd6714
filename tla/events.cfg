\* Two pods, one invocation, two emits, one fault and one lost connection.
CONSTANTS
  Pods = {p1, p2}
  Invocations = {i1}
  Sessions = {}
  NoSession = NoSession
  Requests = {r1}
  RecoveryEnabled = TRUE
  Clients = {c1}
  MaxEmits = 1
  MaxFaults = 1
  MaxDrops = 1
SPECIFICATION SFairSpec
PROPERTIES StreamsEnd
INVARIANTS ReadersMissNothing
