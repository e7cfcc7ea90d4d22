CONSTANTS
  Keys = {"SHIFT_L", "SHIFT_R", "NUM_LOCK", "EMOJI"}
  Buttons = {1, 4, 8}
  PointerMap <- LeftHanded
  HeldAtStart = TRUE
  MultiClick = 1
  ClickMax = 2
  TimeWrap = 100
  MaxTime = 3
  MaxPresses = 3
SPECIFICATION MCSpec
INVARIANTS
  MaskTracked
  ClicksCountPresses
  DragsTracked
PROPERTIES
  ClickedWithoutDrag
CHECK_DEADLOCK FALSE
