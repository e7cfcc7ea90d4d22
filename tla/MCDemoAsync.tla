---------------------------- MODULE MCDemoAsync -----------------------------
(* DemoAsync for TLC.                                                      *)
EXTENDS DemoAsync

=============================================================================
