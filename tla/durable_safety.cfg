CONSTANTS
  p1 = p1  p2 = p2  i1 = i1  i2 = i2  s1 = s1  r1 = r1  r2 = r2
  Pods = {p1, p2}
  Invocations = {i1, i2}
  Sessions = {s1}
  NoSession = NoSession
  Requests = {r1, r2}
  RecoveryEnabled = TRUE
  MaxEmits = 1
  MaxFaults = 1
SPECIFICATION Spec
SYMMETRY Symmetry
INVARIANTS TypeOK OneActivePerSession ServedInOrder AttemptHeldOnce LogMatchesRow
PROPERTIES RowsAreKept
