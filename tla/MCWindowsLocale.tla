--------------------------- MODULE MCWindowsLocale --------------------------
(* WindowsLocale with a few layouts.  The list is ordered, so they are not *)
(* symmetric to TLC.                                                       *)
EXTENDS WindowsLocale

CONSTANTS de, fr, us

ThreeLayouts == {de, fr, us}

=============================================================================
