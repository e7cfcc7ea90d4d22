SPECIFICATION MCSpec
CONSTANTS
  UCHAR_MAX = 255
  Monitors = {1, 2, 255, 257}
  Unreadable = {0, 254}
  MaxChanges = 2
  Sliders = {2, 6, 12, 30, 60, 90, 120}
  Scalings <- SomeScalings
  Times = {0, 200, 1005, 5000, 9998, 120000}
  Short = {1005}
INVARIANTS
  CountWithinArray
  ValueIsSetting
PROPERTY
  QueriesReturn
CHECK_DEADLOCK FALSE
