CONSTANTS
  s1 = s1
  Callback = callback
  External <- OneThread
  EarlyStop = TRUE
  MaxWire = 2
  MaxRuns = 2
SPECIFICATION Spec
INVARIANTS
  CallbackStopNotLost
  CallbackStopSafe
  NothingHeldAtReturn
PROPERTIES
  ImplementsContract
  StartSettles
CHECK_DEADLOCK FALSE
