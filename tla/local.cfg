CONSTANTS
  Invocations = {i1, i2}
  Sessions = {s1}
  NoSession = NoSession
  Requests = {r1}
  MaxEmits = 1
  MaxFaults = 1
SPECIFICATION FairSpec
INVARIANTS SessionsRunSerially NoLostHandOver
PROPERTIES ImplementsSessionQueue EveryInvocationEnds
CHECK_DEADLOCK FALSE
