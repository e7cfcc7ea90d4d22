---------------------------- MODULE MCDarwinInput ---------------------------
(***************************************************************************)
(* DarwinInput for TLC.  The user has one device in hand: the keyboard or  *)
(* the pointer.                                                            *)
(***************************************************************************)
EXTENDS DarwinInput

VARIABLE device

MCInit ==
  /\ Init
  /\ device \in {"keyboard", "pointer"}
  /\ device = "pointer" => keys = {} /\ ~light

MCNext ==
  /\ Next
  /\ UNCHANGED device
  /\ device = "keyboard" => UNCHANGED <<held, now, clickVars>>
  /\ device = "pointer" => UNCHANGED <<keys, light>>

MCSpec == MCInit /\ [][MCNext]_<<vars, device>>

=============================================================================
