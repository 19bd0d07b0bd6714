SPECIFICATION Spec
CONSTANTS
  Handlers = {"invoke"}
  MaxAttempts = 2
  MaxEmits = 1
  MaxFaults = 1
INVARIANT RegisteredHandlerIsReinvoked
CHECK_DEADLOCK FALSE
