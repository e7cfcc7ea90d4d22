---------------------------- MODULE MCDarwinHook ----------------------------
(* DarwinHook with one thread besides the callback that may stop it.       *)
EXTENDS DarwinHook

CONSTANTS s1

OneThread == {s1}

=============================================================================
