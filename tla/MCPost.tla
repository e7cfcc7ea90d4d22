------------------------------- MODULE MCPost -------------------------------
(* Post for TLC: each back end is given the events that it tells apart.    *)
EXTENDS Post

(* Real codes: evdev's and XFree86's, Windows', Darwin's.                  *)
SomeX11Keycode ==
  [evdev \in BOOLEAN |-> [k \in Keys |->
     CASE k = "UP" -> IF evdev THEN 111 ELSE 98
       [] k = "SHIFT_L" -> 50 [] k = "SHIFT_R" -> 62 [] OTHER -> 0]]
SomeWindowsKeycode ==
  [k \in Keys |-> CASE k = "UP" -> 38 [] k = "SHIFT_L" -> 160 [] k = "SHIFT_R" -> 161
                    [] OTHER -> 0]
SomeDarwinKeycode ==
  [k \in Keys |-> CASE k = "UP" -> 126 [] k = "SHIFT_L" -> 56 [] k = "SHIFT_R" -> 60
                    [] OTHER -> 255]
SomeModifier ==
  [k \in Keys |-> IF k \in {"SHIFT_L", "SHIFT_R"} THEN "Shift" ELSE "none"]

(* Natural scrolling.                                                      *)
SomePointerMap == [n \in 1..5 |-> CASE n = 4 -> 5 [] n = 5 -> 4 [] OTHER -> n]

(* Events that a back end treats alike are given once.                     *)
Given(keys) ==
  {e \in Events :
     /\ e.type \in KeyTypes => e.key \in keys
     /\ e.type = "KEY_RELEASED" => e.key # "UNDEFINED"
     /\ e.type \in ButtonTypes /\ e.button = 0 => e.type = "MOUSE_PRESSED"
     /\ e.type = "MOUSE_RELEASED" \/ (e.type = "MOUSE_PRESSED" /\ e.button # 1) => e.at = 7
     /\ e.type = "MOUSE_MOVED" => e.at = 0
     /\ e.type = "MOUSE_WHEEL" => e.up}

SomeX11Events == Given({"UP", "UNDEFINED"})
SomeWindowsEvents == Given({"UP", "UNDEFINED"})
SomeDarwinEvents == Given({"SHIFT_L", "SHIFT_R", "UNDEFINED"})

=============================================================================
