------------------------------- MODULE UioHook -------------------------------
(***************************************************************************)
(* The contract of hook_run() and hook_stop() as an application sees it,   *)
(* whatever the platform: one call of hook_run() fires HOOK_ENABLED, then  *)
(* input events, then HOOK_DISABLED, and returns success; or it fires      *)
(* nothing and returns an error.  hook_stop() only signals: the hook is    *)
(* disabled after a signal and never on its own.  The platform modules     *)
(* implement this specification.                                           *)
(***************************************************************************)

CONSTANTS
  Success,      \* UIOHOOK_SUCCESS
  Errors        \* every other status hook_run() may return

VARIABLES
  alive,        \* the process has not died
  running,      \* a call of hook_run() is in progress
  fired,        \* the last event this call of hook_run() fired
  signalled,    \* hook_stop() has signalled this call of hook_run()
  ret           \* what the last call of hook_run() returned

vars == <<alive, running, fired, signalled, ret>>

Pending == "pending"    \* hook_run() has not returned yet

(* The events that matter to the contract; "none" before the first one.    *)
Fired == {"none", "enabled", "input", "disabled"}

TypeOK ==
  /\ alive \in BOOLEAN
  /\ running \in BOOLEAN
  /\ fired \in Fired
  /\ signalled \in BOOLEAN
  /\ ret \in Errors \union {Success, Pending}

Init ==
  /\ alive = TRUE
  /\ running = FALSE
  /\ fired = "none"
  /\ signalled = FALSE
  /\ ret = Pending
-----------------------------------------------------------------------------
(* hook_run() is called.                                                   *)
Start ==
  /\ alive /\ ~running
  /\ running' = TRUE
  /\ fired' = "none"
  /\ ret' = Pending
  /\ UNCHANGED <<alive, signalled>>

(* hook_run() is called and fails before it can be seen to run.            *)
FailFast ==
  /\ alive /\ ~running
  /\ fired' = "none"
  /\ ret' \in Errors
  /\ UNCHANGED <<alive, running, signalled>>

Enable ==
  /\ alive /\ running /\ fired = "none"
  /\ fired' = "enabled"
  /\ UNCHANGED <<alive, running, signalled, ret>>

Input ==
  /\ alive /\ running /\ fired \in {"enabled", "input"}
  /\ fired' = "input"
  /\ UNCHANGED <<alive, running, signalled, ret>>

Disable ==
  /\ alive /\ running /\ fired \in {"enabled", "input"}
  /\ signalled
  /\ fired' = "disabled"
  /\ UNCHANGED <<alive, running, signalled, ret>>

(* hook_stop() signals the running hook.                                   *)
Signal ==
  /\ alive /\ running /\ ~signalled
  /\ signalled' = TRUE
  /\ UNCHANGED <<alive, running, fired, ret>>

(* hook_run() returns: successfully after HOOK_DISABLED, with an error if  *)
(* it never fired HOOK_ENABLED, and never in between.                      *)
Return ==
  /\ alive /\ running
  /\ \/ fired = "disabled" /\ ret' = Success
     \/ fired = "none" /\ ~signalled /\ ret' \in Errors
  /\ running' = FALSE
  /\ signalled' = FALSE
  /\ UNCHANGED <<alive, fired>>

(* The process dies: undefined behaviour or a fatal X error.               *)
Die ==
  /\ alive
  /\ alive' = FALSE
  /\ UNCHANGED <<running, fired, signalled, ret>>

Next == Start \/ FailFast \/ Enable \/ Input \/ Disable \/ Signal \/ Return \/ Die

(* A signalled hook winds down: it fires what it still owes and returns.   *)
WindDown == (Enable \/ Disable \/ Return) /\ signalled

Safety == Init /\ [][Next]_vars

Spec == Safety /\ WF_vars(WindDown)
-----------------------------------------------------------------------------
(* A hook that was signalled returns, or the process dies.                 *)
SignalledReturns == signalled ~> (~running \/ ~alive)

=============================================================================
