CONSTANTS
  Success = success
  Errors = {failure}
  ThreadCreate = thread_create
  SpuriousWakeups = FALSE
SPECIFICATION Spec
INVARIANT EnabledMeansSuccess
CHECK_DEADLOCK FALSE
