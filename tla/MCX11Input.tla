----------------------------- MODULE MCX11Input -----------------------------
(***************************************************************************)
(* X11Input for TLC.  The user has one device in hand: the keyboard or the *)
(* pointer.  The two share no state but the mask, and each has its own     *)
(* bits of it.                                                             *)
(***************************************************************************)
EXTENDS X11Input

VARIABLE device

(* xmodmap's left-handed pointer: buttons 1 and 3 exchanged.               *)
LeftHanded == [d \in Buttons |-> CASE d = 1 -> 3 [] d = 3 -> 1 [] OTHER -> d]

MCInit ==
  /\ Init
  /\ device \in {"keyboard", "pointer"}
  /\ device = "keyboard" => held = {}
  /\ device = "pointer" => keys = {} /\ server.locked = {}

MCNext ==
  /\ Next
  /\ UNCHANGED device
  /\ device = "keyboard" => UNCHANGED <<held, now>>
  /\ device = "pointer" => UNCHANGED <<keys, server>>

MCSpec == MCInit /\ [][MCNext]_<<vars, device>>

=============================================================================
