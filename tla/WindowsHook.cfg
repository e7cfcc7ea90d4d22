CONSTANTS
  t1 = t1
  t2 = t2
  Threads <- TwoThreads
  SetHookFails = TRUE
  StopOnce = TRUE
  MaxRuns = 4
  MaxQuits = 2
SPECIFICATION Spec
INVARIANTS HooksHaveHandles  NoQuitLeft
PROPERTY ImplementsContract
CHECK_DEADLOCK FALSE
