CONSTANTS
  s1 = s1
  Callback = callback
  External <- OneThread
  EarlyStop = FALSE
  MaxWire = 1
  MaxRuns = 1
SPECIFICATION Safety
INVARIANT
  StopUsesLiveHook
CHECK_DEADLOCK FALSE
