CONSTANTS
  Keys = {"SHIFT_L", "SHIFT_R", "CAPS_LOCK", "PLAIN"}
  Buttons = {"LEFT", "OTHER4"}
  MultiClick = 0
  TicksPerMs = 2
  ClickMax = 2
  MaxTime = 2
  MaxPresses = 3
SPECIFICATION MCSpec
INVARIANTS
  MaskTracked
  ClicksCountPresses
PROPERTY ClickedWithoutDrag
CHECK_DEADLOCK FALSE
