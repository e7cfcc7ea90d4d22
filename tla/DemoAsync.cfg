CONSTANTS
  Success = success
  Errors = {failure, e1, e2}
  ThreadCreate = thread_create
  SpuriousWakeups = TRUE
SPECIFICATION Spec
INVARIANTS SuccessMeansEnabled NothingUsedAfterFree
PROPERTIES WokenReturns EscapeExits
CHECK_DEADLOCK FALSE
