--------------------------- MODULE MCWindowsInput ---------------------------
(***************************************************************************)
(* WindowsInput and WindowsWheel for TLC.  The user has one device in      *)
(* hand: the keyboard, the pointer or a wheel of high resolution.          *)
(***************************************************************************)
EXTENDS WindowsInput, WindowsWheel

VARIABLE device

(* Whole notches, parts of a notch and a fast wheel.                       *)
SomeDeltas == {-300, -120, -40, 1, 100, 119, 120}

MCInit ==
  /\ Init /\ WheelInit
  /\ device \in {"keyboard", "pointer", "wheel"}
  /\ device = "keyboard" => held = {}
  /\ device \in {"pointer", "wheel"} => keys = {}
  /\ device = "wheel" => held = {} /\ pos = 0 /\ ~reserved

MCNext ==
  /\ UNCHANGED device
  /\ \/ /\ device = "keyboard"
        /\ Next
        /\ UNCHANGED <<held, pos, now, clickVars, wheelVars>>
     \/ /\ device = "pointer"
        /\ Next
        /\ running' => "keyboard" \in hooked'
        /\ UNCHANGED <<keys, wheelVars>>
     \/ /\ device = "wheel"
        /\ WheelNext
        /\ UNCHANGED vars

MCSpec == MCInit /\ [][MCNext]_<<vars, wheelVars, device>>

=============================================================================
