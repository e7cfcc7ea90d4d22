---------------------------- MODULE WindowsHook -----------------------------
(***************************************************************************)
(* hook_run() and hook_stop() of the Windows back end: the thread that     *)
(* installs the low-level hooks and pumps its message queue, and the       *)
(* WM_QUIT that hook_stop() posts to the thread whose id hook_run() left   *)
(* in hook_thread_id.                                                      *)
(*                                                                         *)
(* Windows removes a low-level hook that answers too slowly without        *)
(* telling anyone, so a handle may be "stale": not NULL, but without a     *)
(* hook behind it.  This is why a window event reinstalls the hooks.       *)
(* hook_stop() is one system call and so one step, from whichever thread.  *)
(***************************************************************************)
EXTENDS Naturals, FiniteSets

CONSTANTS
  Threads,        \* threads that may call hook_run()
  SetHookFails,   \* may SetWindowsHookEx() fail?
  StopOnce,       \* is hook_stop() called once for each HOOK_ENABLED only?
  MaxRuns,        \* bound on the calls of hook_run()
  MaxQuits        \* bound on the WM_QUITs in a queue

ASSUME PolicyAssumption == SetHookFails \in BOOLEAN /\ StopOnce \in BOOLEAN
ASSUME BoundAssumption == MaxRuns \in Nat \ {0} /\ MaxQuits \in Nat \ {0}

NoThread == "no thread"     \* a thread id of 0

ASSUME ThreadsAssumption == NoThread \notin Threads

VARIABLES
  pc,             \* control point of hook_run()
  runner,         \* the thread that is or was last in hook_run()
  hook_thread_id,
  hInst,          \* hInst is set
  handle,         \* keyboard_event_hhook, mouse_event_hhook, win_event_hhook
  installed,      \* how many hooks of each kind Windows calls
  loaded,         \* load_input_helper() without its unload_input_helper()
  status,         \* the status hook_run() is going to return, or returned
  fired,          \* the last event passed to dispatch_event() in this run
  quits,          \* the WM_QUITs in each thread's message queue
  queue,          \* threads that have a message queue
  exited,         \* threads that have ended
  reply,          \* what hook_stop() last returned
  signalled,      \* history: a hook_stop() has succeeded during this run
  runs            \* calls of hook_run() so far

hookVars   == <<handle, installed>>
threadVars == <<quits, queue, exited>>
stopVars   == <<reply, signalled>>
vars == <<pc, runner, hook_thread_id, hInst, hookVars, loaded, status, fired,
          threadVars, stopVars, runs>>
-----------------------------------------------------------------------------
InputHooks == {"keyboard", "mouse"}
Hooks == InputHooks \union {"win"}

RunErrors == {"SET_WINDOWS_HOOK_EX", "GET_MODULE_HANDLE"}

Idle == {"idle", "detached"}

TypeOK ==
  /\ pc \in {"install", "start", "loop", "unregister", "stop", "unload"} \union Idle
  /\ runner \in Threads \union {NoThread}
  /\ hook_thread_id \in Threads \union {NoThread}
  /\ hInst \in BOOLEAN
  /\ handle \in [Hooks -> {"null", "live", "stale"}]
  /\ installed \in [Hooks -> Nat]
  /\ loaded \in BOOLEAN
  /\ status \in RunErrors \union {"SUCCESS", "FAILURE"}
  /\ fired \in {"none", "enabled", "input", "disabled"}
  /\ quits \in [Threads -> 0..MaxQuits]
  /\ queue \subseteq Threads /\ exited \subseteq Threads
  /\ reply \in {"none", "SUCCESS", "FAILURE"}
  /\ signalled \in BOOLEAN
  /\ runs \in 0..MaxRuns

(* hInst was set by DllMain() unless the library is linked statically.     *)
Init ==
  /\ pc = "idle"
  /\ runner = NoThread /\ hook_thread_id = NoThread
  /\ hInst \in BOOLEAN
  /\ handle = [k \in Hooks |-> "null"]
  /\ installed = [k \in Hooks |-> 0]
  /\ loaded = FALSE
  /\ status = "FAILURE"
  /\ fired = "none"
  /\ quits = [t \in Threads |-> 0]
  /\ queue = {} /\ exited = {}
  /\ reply = "none" /\ signalled = FALSE
  /\ runs = 0

Running == pc \notin Idle

Goto(from, to) == pc = from /\ pc' = to
-----------------------------------------------------------------------------
(* What Windows does with the hooks.                                       *)

(* SetWindowsHookEx() and SetWinEventHook() return a handle or NULL.       *)
Outcomes(k) == IF k = "win" \/ SetHookFails THEN {"live", "null"} ELSE {"live"}

(* Hooks of kind k after removing the ones with a live handle in h.        *)
Unhooked(h, k) == IF h[k] = "live" THEN installed[k] - 1 ELSE installed[k]

Count(h, k) == IF h[k] = "live" THEN 1 ELSE 0

(* A hook that exceeds the system's time limit is removed.                 *)
HookTimeout(k) ==
  /\ pc = "loop" /\ handle[k] = "live"
  /\ handle' = [handle EXCEPT ![k] = "stale"]
  /\ installed' = [installed EXCEPT ![k] = @ - 1]
  /\ UNCHANGED <<pc, runner, hook_thread_id, hInst, loaded, status, fired,
                 threadVars, stopVars, runs>>
-----------------------------------------------------------------------------
(* hook_run().  An error of GetModuleHandle() is noted in the status, and  *)
(* the hooks are tried all the same.                                       *)
RunCall(t) ==
  /\ t \notin exited
  /\ runs < MaxRuns /\ runs' = runs + 1
  /\ Goto("idle", "install")
  /\ runner' = t /\ hook_thread_id' = t
  /\ fired' = "none"
  /\ \/ hInst /\ status' = "FAILURE" /\ UNCHANGED <<hInst, loaded>>
     \/ ~hInst /\ hInst' = TRUE /\ loaded' = TRUE /\ status' = "FAILURE"
     \/ ~hInst /\ status' = "GET_MODULE_HANDLE" /\ UNCHANGED <<hInst, loaded>>
  /\ UNCHANGED <<hookVars, threadVars, stopVars>>

(* Both input hooks are needed, the window hook is not.  The system calls  *)
(* give the thread its message queue.                                      *)
SetHooks ==
  /\ pc = "install"
  /\ handle' \in {h \in [Hooks -> {"live", "null"}] : \A k \in Hooks : h[k] \in Outcomes(k)}
  /\ installed' = [k \in Hooks |-> installed[k] + Count(handle', k)]
  /\ queue' = queue \union {runner}
  /\ IF \A k \in InputHooks : handle'[k] # "null"
     THEN status' = "SUCCESS" /\ pc' = "start"
     ELSE status' = "SET_WINDOWS_HOOK_EX" /\ pc' = "unregister"
  /\ UNCHANGED <<runner, hook_thread_id, hInst, loaded, fired, quits, exited,
                 stopVars, runs>>

(* hook_start_proc().                                                      *)
HookStartProc ==
  /\ Goto("start", "loop")
  /\ loaded' = TRUE
  /\ fired' = "enabled"
  /\ UNCHANGED <<runner, hook_thread_id, hInst, hookVars, status, threadVars,
                 stopVars, runs>>

(* GetMessage() calls a hook procedure.                                    *)
LoopInput(k) ==
  /\ pc = "loop" /\ installed[k] > 0
  /\ fired' = "input"
  /\ UNCHANGED <<pc, runner, hook_thread_id, hInst, hookVars, loaded, status,
                 threadVars, stopVars, runs>>

(* Mutant: the old hooks are not removed.                                  *)
RestartHooked ==
  /\ pc = "loop" /\ installed["win"] > 0
  /\ handle' \in {h \in [Hooks -> {"live", "null"}] : \A k \in Hooks : h[k] \in Outcomes(k)}
  /\ handle'["win"] = handle["win"]
  /\ installed' = [k \in Hooks |-> IF k = "win" THEN installed[k]
                                   ELSE installed[k] + Count(handle', k)]
  /\ UNCHANGED <<pc, runner, hook_thread_id, hInst, loaded, status, fired,
                 threadVars, stopVars, runs>>

(* win_hook_event_proc(): the input hooks are removed and installed again; *)
(* if that fails hook_run() goes on without them.                          *)
WinHookEventProc ==
  /\ pc = "loop" /\ installed["win"] > 0
  /\ \E h \in [InputHooks -> {"live", "null"}] :
       /\ \A k \in InputHooks : h[k] \in Outcomes(k)
       /\ handle' = [k \in Hooks |-> IF k = "win" THEN handle[k] ELSE h[k]]
       /\ installed' = [k \in Hooks |-> IF k = "win" THEN installed[k]
                                        ELSE Unhooked(handle, k) + Count(h, k)]
  /\ UNCHANGED <<pc, runner, hook_thread_id, hInst, loaded, status, fired,
                 threadVars, stopVars, runs>>

(* Mutant: the loop is left with the WM_QUIT still in the queue.           *)
LoopPeek ==
  /\ Goto("loop", "unregister")
  /\ quits[runner] > 0
  /\ UNCHANGED <<runner, hook_thread_id, hInst, hookVars, loaded, status, fired,
                 threadVars, stopVars, runs>>

(* GetMessage() takes a WM_QUIT from the queue and returns 0.              *)
LoopQuit ==
  /\ Goto("loop", "unregister")
  /\ quits[runner] > 0
  /\ quits' = [quits EXCEPT ![runner] = @ - 1]
  /\ UNCHANGED <<runner, hook_thread_id, hInst, hookVars, loaded, status, fired,
                 queue, exited, stopVars, runs>>

(* unregister_running_hooks().                                             *)
UnregisterRunningHooks ==
  /\ installed' = [k \in Hooks |-> Unhooked(handle, k)]
  /\ handle' = [k \in Hooks |-> "null"]

Unregister ==
  /\ Goto("unregister", "stop")
  /\ UnregisterRunningHooks
  /\ UNCHANGED <<runner, hook_thread_id, hInst, loaded, status, fired, threadVars,
                 stopVars, runs>>

(* hook_stop_proc(), whether or not hook_start_proc() has run: it fires    *)
(* HOOK_DISABLED, and when the callback is back it unloads the helper.     *)
HookStopProc ==
  /\ Goto("stop", "unload")
  /\ fired' = "disabled"
  /\ UNCHANGED <<runner, hook_thread_id, hInst, hookVars, loaded, status, threadVars,
                 stopVars, runs>>

Unload ==
  /\ Goto("unload", "idle")
  /\ loaded' = FALSE
  /\ signalled' = FALSE
  /\ UNCHANGED <<runner, hook_thread_id, hInst, hookVars, status, fired, threadVars,
                 reply, runs>>
-----------------------------------------------------------------------------
(* hook_stop() as an application calls it: at any time, or like the demos  *)
(* once, when HOOK_ENABLED has told it that there is something to stop.    *)
MayStop ==
  /\ pc # "detached"
  /\ StopOnce => Running /\ fired \in {"enabled", "input"} /\ ~signalled

(* Mutant: nothing is posted.                                              *)
PostNothing ==
  /\ reply' = "SUCCESS" /\ signalled' = (signalled \/ Running)
  /\ UNCHANGED quits

(* PostThreadMessage() succeeds if the thread exists and has a queue,      *)
(* whatever it is doing.                                                   *)
PostQuit ==
  IF hook_thread_id \in queue
  THEN /\ quits[hook_thread_id] < MaxQuits
       /\ quits' = [quits EXCEPT ![hook_thread_id] = @ + 1]
       /\ reply' = "SUCCESS"
       /\ signalled' = (signalled \/ Running)
  ELSE reply' = "FAILURE" /\ UNCHANGED <<quits, signalled>>

HookStop ==
  /\ MayStop
  /\ PostQuit
  /\ UNCHANGED <<pc, runner, hook_thread_id, hInst, hookVars, loaded, status, fired,
                 queue, exited, runs>>

(* A thread that is not in hook_run() ends, and its queue with it.         *)
ThreadExit(t) ==
  /\ t \notin exited /\ (Running => t # runner)
  /\ exited' = exited \union {t}
  /\ queue' = queue \ {t}
  /\ quits' = [quits EXCEPT ![t] = 0]
  /\ UNCHANGED <<pc, runner, hook_thread_id, hInst, hookVars, loaded, status, fired,
                 stopVars, runs>>

(* DllMain(DLL_PROCESS_DETACH).                                            *)
Detach ==
  /\ Goto("idle", "detached")
  /\ UnregisterRunningHooks
  /\ UNCHANGED <<runner, hook_thread_id, hInst, loaded, status, fired, threadVars,
                 stopVars, runs>>
-----------------------------------------------------------------------------
HookRun ==
  \/ SetHooks \/ HookStartProc \/ WinHookEventProc \/ LoopQuit
  \/ Unregister \/ HookStopProc \/ Unload
  \/ \E k \in InputHooks : LoopInput(k)

Next ==
  \/ \E t \in Threads : RunCall(t) \/ ThreadExit(t)
  \/ HookRun
  \/ \E k \in InputHooks : HookTimeout(k)
  \/ HookStop
  \/ Detach

(* The hook thread keeps running: its steps outside the loop are taken,    *)
(* and GetMessage() gets to a posted message in the end.                   *)
HookThreadStep ==
  SetHooks \/ HookStartProc \/ LoopQuit \/ Unregister \/ HookStopProc \/ Unload

Safety == Init /\ [][Next]_vars

Spec == Safety /\ WF_vars(HookThreadStep)
-----------------------------------------------------------------------------
(* The HOOK_DISABLED that a failed start fires without HOOK_ENABLED is not *)
(* in the contract and is left out of the mapping.                         *)
Contract ==
  INSTANCE UioHook WITH
    Success   <- "SUCCESS",
    Errors    <- RunErrors,
    alive     <- TRUE,
    running   <- Running,
    fired     <- IF status = "SET_WINDOWS_HOOK_EX" THEN "none" ELSE fired,
    signalled <- signalled,
    ret       <- IF Running \/ status = "FAILURE" THEN "pending" ELSE status

(* An application that stops each enabled hook once gets the contract of    *)
(* UioHook, whichever hooks time out or cannot be installed again: the run *)
(* ends by that stop and by no other, in this run and in every later one   *)
(* on any thread, and it does end.                                         *)
ImplementsContract == Contract!Spec

(* Windows never calls a hook procedure twice for an event, and never one  *)
(* that hook_run() has lost the handle of, however often hooks time out    *)
(* and are reinstalled and whichever installation fails.  Between two      *)
(* calls of hook_run() no handle, and so no hook, is left for the next     *)
(* call or DllMain().                                                      *)
HooksHaveHandles ==
  /\ \A k \in Hooks : installed[k] = IF handle[k] = "live" THEN 1 ELSE 0
  /\ pc \in Idle => \A k \in Hooks : handle[k] = "null"

(* Keys are translated with the helper loaded, and it is unloaded when     *)
(* hook_run() returns, on the paths that loaded it twice or never as well. *)
HelperSpansHook == (pc = "loop" => loaded) /\ (pc \in Idle => ~loaded)

(* With one stop for each running hook nothing is left in a queue for the  *)
(* next run on that thread.                                                *)
NoQuitLeft ==
  /\ pc \in Idle \union {"unregister", "stop", "unload"} => \A t \in Threads : quits[t] = 0
  /\ \A t \in Threads : quits[t] <= 1 /\ (quits[t] = 1 => t = runner /\ signalled)

=============================================================================
