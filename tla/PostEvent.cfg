SPECIFICATION BackEndSpec
CONSTANTS
  Keys = {"UP", "SHIFT_L", "SHIFT_R", "UNDEFINED"}
  Buttons = {0, 1, 4}
  Points = {0, 7}
  Threads = {"hook", "app"}
  HookThread = "hook"
  MaxPosts = 3
  ScreenWidth = 1920
  X11Keycode <- SomeX11Keycode
  WindowsKeycode <- SomeWindowsKeycode
  DarwinKeycode <- SomeDarwinKeycode
  Modifier <- SomeModifier
  PointerMap <- SomePointerMap
  X11Events <- SomeX11Events
  WindowsEvents <- SomeWindowsEvents
  DarwinEvents <- SomeDarwinEvents
INVARIANTS
  PressedAtPosition
  HeldIsPosted
  MapIsLive
  StateFollowsPosts
PROPERTIES
  PostsReturn
CHECK_DEADLOCK FALSE
