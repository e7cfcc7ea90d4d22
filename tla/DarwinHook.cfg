CONSTANTS
  s1 = s1
  Callback = callback
  External <- OneThread
  MaxRuns = 2
SPECIFICATION Spec
INVARIANTS CallbackStopNotLost LayoutReleasedOnce TranslatedOnce NothingHeldAtReturn
PROPERTY ImplementsContract
CHECK_DEADLOCK FALSE
