CONSTANTS
  Keys = {"SHIFT_L", "CAPS_LOCK", "A"}
  Buttons = {"LEFT", "X1"}
  Points = {0, 1}
  MultiClick = 1
  ClickMax = 2
  TimeWrap = 8
  StartTime = 6
  MaxTime = 8
  MaxPresses = 3
  Deltas <- SomeDeltas
  MaxMessages = 4
SPECIFICATION MCSpec
INVARIANTS
  ModifiersTracked
  DragsTracked
  ClicksCountPresses
  RotationConserved
PROPERTY StillReleaseClicks
CHECK_DEADLOCK FALSE
