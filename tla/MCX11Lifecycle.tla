--------------------------- MODULE MCX11Lifecycle ---------------------------
(* The application threads of the TLC runs of X11Lifecycle.                *)
EXTENDS X11Lifecycle

CONSTANTS s1

OneThread == {s1}

=============================================================================
