\* A stalled heartbeat lets two hooks of one session overlap.
CONSTANTS
  p1 = p1  p2 = p2  i1 = i1  i2 = i2  s1 = s1  r1 = r1  r2 = r2
  Pods = {p1, p2}
  Invocations = {i1, i2}
  Sessions = {s1}
  NoSession = NoSession
  Requests = {r1}
  RecoveryEnabled = TRUE
  MaxEmits = 2
  MaxFaults = 1
SPECIFICATION Spec
INVARIANTS SessionHooksSerial
