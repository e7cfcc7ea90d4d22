--------------------------- MODULE MCWindowsHook ---------------------------
(* WindowsHook with two threads that may take turns in hook_run().         *)
EXTENDS WindowsHook

CONSTANTS t1, t2

TwoThreads == {t1, t2}

=============================================================================
