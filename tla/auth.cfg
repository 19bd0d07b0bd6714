CONSTANTS
  p1 = p1  i1 = i1  i2 = i2  q1 = q1  q2 = q2  s1 = s1  r1 = r1  n1 = n1
\* RequestAuth: one process, two invocations of a session, an id posted twice
  Pods = {p1}
  Invocations = {i1, i2}
  Sessions = {s1}
  NoSession = NoSession
  Requests = {r1}
  RecoveryEnabled = TRUE
  Posts = {q1, q2}
  NoPost = NoPost
  Retries = TRUE
  MaxEmits = 1
  MaxFaults = 2
  MaxCancels = 1
\* Bindings: one store name, two model services, two roles, one prompt, one tool
  Names = {n1}
  ModelNames = {q1, q2}
  Roles = {i1, i2}
  Prompts = {s1}
  Configs = {r1}
  None = None
  MaxMoves = 3
  MaxStores = 2
INIT ServingInit
NEXT ServingNext
VIEW Running
SYMMETRY ServingSymmetry
INVARIANTS HooksHaveTheirAuth CredentialsReleased
PROPERTIES BindingsAreSound
CHECK_DEADLOCK FALSE
