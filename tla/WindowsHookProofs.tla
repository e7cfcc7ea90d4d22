-------------------------- MODULE WindowsHookProofs --------------------------
(***************************************************************************)
(* Proofs about WindowsHook for any number of threads, runs and messages,  *)
(* whichever hooks fail or time out.  The first part holds whatever the    *)
(* application does with hook_stop(), the second part for one that calls   *)
(* it once for each HOOK_ENABLED.                                          *)
(***************************************************************************)
EXTENDS WindowsHook, TLAPS

(* A run has a thread, and its id is the one hook_stop() posts to.         *)
RunnerInv == Running => runner \in Threads /\ hook_thread_id = runner

(* Outside the part of hook_run() that uses them there are no handles.     *)
HandleInv ==
  pc \in Idle \union {"install", "stop", "unload"} => \A k \in Hooks : handle[k] = "null"

IInv == TypeOK /\ RunnerInv /\ HandleInv /\ HooksHaveHandles /\ HelperSpansHook

LEMMA InvInit == Init => IInv
<1> SUFFICES ASSUME Init PROVE IInv  OBVIOUS
<1> USE DEF Init
<1>1. TypeOK
  <2>1. 0 \in 0..MaxQuits /\ 0 \in 0..MaxRuns  BY BoundAssumption
  <2> QED  BY <2>1 DEF TypeOK, Idle
<1>2. RunnerInv /\ HelperSpansHook  BY DEF RunnerInv, HelperSpansHook, Running, Idle
<1>3. HandleInv /\ HooksHaveHandles  BY DEF HandleInv, HooksHaveHandles
<1> QED  BY <1>1, <1>2, <1>3 DEF IInv

(* Installing hooks of which there are none, and removing what is there,   *)
(* keep handles and hooks in step.                                         *)
LEMMA RemovedHooks ==
  ASSUME TypeOK, HooksHaveHandles, UnregisterRunningHooks
  PROVE  /\ handle' \in [Hooks -> {"null", "live", "stale"}]
         /\ installed' \in [Hooks -> Nat]
         /\ \A k \in Hooks : handle'[k] = "null" /\ installed'[k] = 0
BY DEF TypeOK, HooksHaveHandles, UnregisterRunningHooks, Unhooked

LEMMA TypeStep == IInv /\ [Next]_vars => TypeOK'
<1> SUFFICES ASSUME IInv, [Next]_vars PROVE TypeOK'  OBVIOUS
<1> USE DEF IInv
<1>1. ASSUME NEW t \in Threads, RunCall(t) PROVE TypeOK'
  <2>1. runs' \in 0..MaxRuns
    BY <1>1, BoundAssumption DEF RunCall, TypeOK
  <2>2. hInst' \in BOOLEAN /\ loaded' \in BOOLEAN
    BY <1>1 DEF RunCall, TypeOK
  <2>3. status' \in RunErrors \union {"SUCCESS", "FAILURE"}
    BY <1>1 DEF RunCall, RunErrors
  <2> QED
    BY <1>1, <2>1, <2>2, <2>3 DEF RunCall, Goto, TypeOK, hookVars, threadVars, stopVars
<1>2. ASSUME NEW t \in Threads, ThreadExit(t) PROVE TypeOK'
  BY <1>2, BoundAssumption DEF ThreadExit, TypeOK, hookVars, stopVars
<1>3. CASE SetHooks
  <2>1. handle' \in [Hooks -> {"null", "live", "stale"}] /\ installed' \in [Hooks -> Nat]
    BY <1>3 DEF SetHooks, TypeOK, Count
  <2>2. runner \in Threads
    BY <1>3 DEF SetHooks, RunnerInv, Running, Idle
  <2> QED  BY <1>3, <2>1, <2>2 DEF SetHooks, TypeOK, stopVars, RunErrors
<1>4. CASE HookStartProc
  BY <1>4 DEF HookStartProc, Goto, TypeOK, hookVars, threadVars, stopVars
<1>5. CASE WinHookEventProc
  <2>1. PICK h \in [InputHooks -> {"live", "null"}] :
          /\ handle' = [k \in Hooks |-> IF k = "win" THEN handle[k] ELSE h[k]]
          /\ installed' = [k \in Hooks |-> IF k = "win" THEN installed[k]
                                           ELSE Unhooked(handle, k) + Count(h, k)]
    BY <1>5 DEF WinHookEventProc
  <2>2. handle' \in [Hooks -> {"null", "live", "stale"}]
    BY <2>1 DEF TypeOK, Hooks, InputHooks
  <2>3. \A k \in Hooks : Unhooked(handle, k) \in Nat /\ Count(h, k) \in Nat
    BY DEF TypeOK, HooksHaveHandles, Unhooked, Count
  <2>4. installed' \in [Hooks -> Nat]
    BY <2>1, <2>3 DEF TypeOK
  <2> QED  BY <1>5, <2>2, <2>4 DEF WinHookEventProc, TypeOK, threadVars, stopVars
<1>6. CASE LoopQuit
  <2>1. runner \in Threads
    BY <1>6 DEF LoopQuit, Goto, RunnerInv, Running, Idle
  <2>2. quits' \in [Threads -> 0..MaxQuits]
    BY <1>6, <2>1, BoundAssumption DEF LoopQuit, TypeOK
  <2> QED  BY <1>6, <2>2 DEF LoopQuit, Goto, TypeOK, hookVars, stopVars
<1>7. CASE Unregister
  BY <1>7, RemovedHooks DEF Unregister, Goto, TypeOK, threadVars, stopVars
<1>8. CASE HookStopProc
  BY <1>8 DEF HookStopProc, Goto, TypeOK, hookVars, threadVars, stopVars
<1>9. CASE Unload
  BY <1>9 DEF Unload, Goto, TypeOK, hookVars, threadVars, Idle
<1>10. ASSUME NEW k \in InputHooks, LoopInput(k) PROVE TypeOK'
  BY <1>10 DEF LoopInput, TypeOK, hookVars, threadVars, stopVars
<1>11. ASSUME NEW k \in InputHooks, HookTimeout(k) PROVE TypeOK'
  <2>1. k \in Hooks /\ installed[k] = 1
    BY <1>11 DEF HookTimeout, HooksHaveHandles, Hooks
  <2>2. handle' \in [Hooks -> {"null", "live", "stale"}] /\ installed' \in [Hooks -> Nat]
    BY <1>11, <2>1 DEF HookTimeout, TypeOK
  <2> QED  BY <1>11, <2>2 DEF HookTimeout, TypeOK, threadVars, stopVars
<1>12. CASE HookStop
  <2>1. quits' \in [Threads -> 0..MaxQuits]
    BY <1>12, BoundAssumption DEF HookStop, PostQuit, TypeOK
  <2>2. reply' \in {"none", "SUCCESS", "FAILURE"} /\ signalled' \in BOOLEAN
    BY <1>12 DEF HookStop, PostQuit, TypeOK
  <2> QED  BY <1>12, <2>1, <2>2 DEF HookStop, TypeOK, hookVars
<1>13. CASE Detach
  BY <1>13, RemovedHooks DEF Detach, Goto, TypeOK, threadVars, stopVars, Idle
<1>14. CASE UNCHANGED vars
  BY <1>14 DEF vars, TypeOK, hookVars, threadVars, stopVars
<1> QED
  BY <1>1, <1>2, <1>3, <1>4, <1>5, <1>6, <1>7, <1>8, <1>9, <1>10, <1>11, <1>12, <1>13, <1>14
  DEF Next, HookRun

LEMMA HookStep ==
  IInv /\ [Next]_vars => RunnerInv' /\ HandleInv' /\ HooksHaveHandles' /\ HelperSpansHook'
<1> SUFFICES ASSUME IInv, [Next]_vars
             PROVE  RunnerInv' /\ HandleInv' /\ HooksHaveHandles' /\ HelperSpansHook'
  OBVIOUS
<1> DEFINE Goal == RunnerInv' /\ HandleInv' /\ HooksHaveHandles' /\ HelperSpansHook'
<1> USE DEF IInv, RunnerInv, HelperSpansHook, Running, Idle
<1>1. ASSUME NEW t \in Threads, RunCall(t) PROVE Goal
  BY <1>1 DEF RunCall, Goto, hookVars, HandleInv, HooksHaveHandles
<1>2. ASSUME NEW t \in Threads, ThreadExit(t) PROVE Goal
  BY <1>2 DEF ThreadExit, hookVars, HandleInv, HooksHaveHandles
<1>3. CASE SetHooks
  <2>1. HooksHaveHandles'
    <3>1. \A k \in Hooks : installed[k] = 0
      BY <1>3 DEF SetHooks, HandleInv, HooksHaveHandles
    <3>2. \A k \in Hooks : installed'[k] = Count(handle', k)
      BY <1>3, <3>1 DEF SetHooks, Count
    <3> QED  BY <1>3, <3>2 DEF SetHooks, HooksHaveHandles, Count
  <2> QED  BY <1>3, <2>1 DEF SetHooks, HandleInv
<1>4. CASE HookStartProc
  BY <1>4 DEF HookStartProc, Goto, hookVars, HandleInv, HooksHaveHandles
<1>5. CASE WinHookEventProc
  <2>1. PICK h \in [InputHooks -> {"live", "null"}] :
          /\ handle' = [k \in Hooks |-> IF k = "win" THEN handle[k] ELSE h[k]]
          /\ installed' = [k \in Hooks |-> IF k = "win" THEN installed[k]
                                           ELSE Unhooked(handle, k) + Count(h, k)]
    BY <1>5 DEF WinHookEventProc
  <2>2. \A k \in Hooks : Unhooked(handle, k) = 0
    BY DEF TypeOK, HooksHaveHandles, Unhooked
  <2>3. \A k \in Hooks : installed'[k] = IF handle'[k] = "live" THEN 1 ELSE 0
    BY <2>1, <2>2 DEF HooksHaveHandles, Count
  <2> QED  BY <1>5, <2>3 DEF WinHookEventProc, HandleInv, HooksHaveHandles
<1>6. CASE LoopQuit
  BY <1>6 DEF LoopQuit, Goto, hookVars, HandleInv, HooksHaveHandles
<1>7. CASE Unregister
  <2>1. \A k \in Hooks : handle'[k] = "null" /\ installed'[k] = 0
    BY <1>7, RemovedHooks DEF Unregister
  <2> QED  BY <1>7, <2>1 DEF Unregister, Goto, HandleInv, HooksHaveHandles
<1>8. CASE HookStopProc
  BY <1>8 DEF HookStopProc, Goto, hookVars, HandleInv, HooksHaveHandles
<1>9. CASE Unload
  BY <1>9 DEF Unload, Goto, hookVars, HandleInv, HooksHaveHandles
<1>10. ASSUME NEW k \in InputHooks, LoopInput(k) PROVE Goal
  BY <1>10 DEF LoopInput, hookVars, HandleInv, HooksHaveHandles
<1>11. ASSUME NEW k \in InputHooks, HookTimeout(k) PROVE Goal
  <2>1. k \in Hooks /\ installed[k] = 1
    BY <1>11 DEF HookTimeout, HooksHaveHandles, Hooks
  <2>2. \A j \in Hooks : installed'[j] = IF handle'[j] = "live" THEN 1 ELSE 0
    BY <1>11, <2>1 DEF HookTimeout, TypeOK, HooksHaveHandles
  <2> QED  BY <1>11, <2>2 DEF HookTimeout, HandleInv, HooksHaveHandles
<1>12. CASE HookStop
  BY <1>12 DEF HookStop, hookVars, HandleInv, HooksHaveHandles
<1>13. CASE Detach
  <2>1. \A k \in Hooks : handle'[k] = "null" /\ installed'[k] = 0
    BY <1>13, RemovedHooks DEF Detach
  <2> QED  BY <1>13, <2>1 DEF Detach, Goto, HandleInv, HooksHaveHandles
<1>14. CASE UNCHANGED vars
  BY <1>14 DEF vars, hookVars, HandleInv, HooksHaveHandles
<1> QED
  BY <1>1, <1>2, <1>3, <1>4, <1>5, <1>6, <1>7, <1>8, <1>9, <1>10, <1>11, <1>12, <1>13, <1>14
  DEF Next, HookRun

LEMMA InvStep == IInv /\ [Next]_vars => IInv'
BY TypeStep, HookStep DEF IInv

LEMMA Invariance == Spec => []IInv
BY InvInit, InvStep, PTL DEF Spec, Safety

(* Type correctness; no more hooks are removed than were installed.        *)
THEOREM TypeCorrect == Spec => []TypeOK
BY Invariance, PTL DEF IInv

(* Each hook Windows calls is the one hook of its kind that hook_run() has *)
(* the handle of, and none is left between two runs: for any number of     *)
(* timeouts, reinstallations and failures, and any use of hook_stop().     *)
THEOREM HooksAllHaveHandles == Spec => []HooksHaveHandles
BY Invariance, PTL DEF IInv

(* The input helper is loaded while hooks are served and unloaded between  *)
(* two runs.                                                               *)
THEOREM HelperIsLoadedForHook == Spec => []HelperSpansHook
BY Invariance, PTL DEF IInv
-----------------------------------------------------------------------------
(* An application that calls hook_stop() once for each HOOK_ENABLED.       *)

(* What hook_run() has fired and has been told by each control point.      *)
ProgressInv ==
  /\ pc \in Idle \union {"install", "start"} => ~signalled
  /\ pc \in {"install", "start"} => fired = "none"
  /\ pc \in {"start", "loop"} => status = "SUCCESS"
  /\ pc = "loop" => fired \in {"enabled", "input"}
  /\ pc \in {"unregister", "stop"} =>
       \/ status = "SUCCESS" /\ fired \in {"enabled", "input"} /\ signalled
       \/ status = "SET_WINDOWS_HOOK_EX" /\ fired = "none" /\ ~signalled
  /\ pc = "unload" =>
       /\ fired = "disabled"
       /\ \/ status = "SUCCESS"
          \/ status = "SET_WINDOWS_HOOK_EX" /\ ~signalled

OnceInv == ProgressInv /\ NoQuitLeft

LEMMA OnceInit == Init => OnceInv
BY DEF Init, OnceInv, ProgressInv, NoQuitLeft, Idle

LEMMA OnceStep == StopOnce /\ IInv /\ OnceInv /\ [Next]_vars => OnceInv'
<1> SUFFICES ASSUME StopOnce, IInv, OnceInv, [Next]_vars PROVE OnceInv'  OBVIOUS
<1> USE DEF OnceInv, ProgressInv, NoQuitLeft, Idle
<1>0. quits \in [Threads -> 0..MaxQuits] /\ (Running => runner \in Threads /\ hook_thread_id = runner)
  BY DEF IInv, TypeOK, RunnerInv
<1>1. ASSUME NEW t \in Threads, RunCall(t) PROVE OnceInv'
  BY <1>1 DEF RunCall, Goto, threadVars, stopVars
<1>2. ASSUME NEW t \in Threads, ThreadExit(t) PROVE OnceInv'
  <2>1. \A u \in Threads : quits'[u] = IF u = t THEN 0 ELSE quits[u]
    BY <1>0, <1>2 DEF ThreadExit
  <2> QED  BY <1>2, <2>1 DEF ThreadExit, stopVars
<1>3. CASE SetHooks
  <2>1. /\ pc = "install" /\ fired = "none" /\ ~signalled
        /\ \A t \in Threads : quits[t] = 0
    BY <1>0, <1>3, BoundAssumption DEF SetHooks
  <2>2. /\ UNCHANGED <<fired, signalled, quits, runner>>
        /\ \/ status' = "SUCCESS" /\ pc' = "start"
           \/ status' = "SET_WINDOWS_HOOK_EX" /\ pc' = "unregister"
    BY <1>3 DEF SetHooks, stopVars
  <2> QED  BY <2>1, <2>2
<1>4. CASE HookStartProc
  BY <1>4 DEF HookStartProc, Goto, threadVars, stopVars
<1>5. CASE WinHookEventProc
  BY <1>5 DEF WinHookEventProc, threadVars, stopVars
<1>6. CASE LoopQuit
  <2>1. runner \in Threads /\ quits[runner] = 1 /\ signalled
    BY <1>0, <1>6, BoundAssumption DEF LoopQuit, Goto, Running
  <2>2. \A u \in Threads : quits'[u] = 0
    BY <1>0, <1>6, <2>1, BoundAssumption DEF LoopQuit
  <2> QED  BY <1>6, <2>1, <2>2 DEF LoopQuit, Goto, stopVars
<1>7. CASE Unregister
  BY <1>7 DEF Unregister, Goto, threadVars, stopVars
<1>8. CASE HookStopProc
  BY <1>8 DEF HookStopProc, Goto, threadVars, stopVars
<1>9. CASE Unload
  BY <1>9 DEF Unload, Goto, threadVars
<1>10. ASSUME NEW k \in InputHooks, LoopInput(k) PROVE OnceInv'
  BY <1>10 DEF LoopInput, threadVars, stopVars
<1>11. ASSUME NEW k \in InputHooks, HookTimeout(k) PROVE OnceInv'
  BY <1>11 DEF HookTimeout, threadVars, stopVars
<1>12. CASE HookStop
  <2>1. Running /\ fired \in {"enabled", "input"} /\ ~signalled /\ pc = "loop"
    BY <1>12 DEF HookStop, MayStop, Running, IInv, TypeOK
  <2>2. runner \in Threads /\ hook_thread_id = runner /\ \A u \in Threads : quits[u] = 0
    BY <1>0, <2>1, BoundAssumption
  <2>3. CASE hook_thread_id \in queue
    <3>1. \A u \in Threads : quits'[u] = IF u = runner THEN 1 ELSE 0
      BY <1>0, <1>12, <2>2, <2>3 DEF HookStop, PostQuit
    <3>2. signalled'
      BY <1>12, <2>1, <2>3 DEF HookStop, PostQuit
    <3> QED  BY <1>12, <2>1, <3>1, <3>2 DEF HookStop
  <2>4. CASE hook_thread_id \notin queue
    BY <1>12, <2>4 DEF HookStop, PostQuit
  <2> QED  BY <2>3, <2>4
<1>13. CASE Detach
  BY <1>13 DEF Detach, Goto, threadVars, stopVars
<1>14. CASE UNCHANGED vars
  BY <1>14 DEF vars, threadVars, stopVars
<1> QED
  BY <1>1, <1>2, <1>3, <1>4, <1>5, <1>6, <1>7, <1>8, <1>9, <1>10, <1>11, <1>12, <1>13, <1>14
  DEF Next, HookRun

LEMMA OnceInvariance == StopOnce => (Spec => [](IInv /\ OnceInv))
<1> SUFFICES ASSUME StopOnce PROVE Spec => [](IInv /\ OnceInv)  OBVIOUS
<1>1. Init => IInv /\ OnceInv  BY InvInit, OnceInit
<1>2. (IInv /\ OnceInv) /\ [Next]_vars => (IInv /\ OnceInv)'
  BY InvStep, OnceStep
<1> QED  BY <1>1, <1>2, PTL DEF Spec, Safety

(* If the application stops each enabled hook once, no WM_QUIT is left for *)
(* a later run on any thread.                                              *)
THEOREM NoQuitIsLeft == StopOnce => (Spec => []NoQuitLeft)
<1> SUFFICES ASSUME StopOnce PROVE Spec => []NoQuitLeft  OBVIOUS
<1> QED  BY OnceInvariance, PTL DEF OnceInv
-----------------------------------------------------------------------------
LEMMA ContractInit == Init => Contract!Init
BY DEF Init, Contract!Init, Contract!Pending, Running, Idle

LEMMA ContractStep ==
  StopOnce /\ IInv /\ OnceInv /\ [Next]_vars => [Contract!Next]_(Contract!vars)
<1> SUFFICES ASSUME StopOnce, IInv, OnceInv, [Next]_vars
             PROVE  Contract!Next \/ UNCHANGED Contract!vars
  OBVIOUS
<1> DEFINE Goal == Contract!Next \/ UNCHANGED Contract!vars
<1> USE DEF OnceInv, ProgressInv, Running, Idle
<1>0. TypeOK  BY DEF IInv
<1>1. ASSUME NEW t \in Threads, RunCall(t) PROVE Goal
  <2>1. Contract!Start
    BY <1>1 DEF RunCall, Goto, stopVars, Contract!Start, Contract!Pending
  <2> QED  BY <2>1 DEF Contract!Next
<1>2. ASSUME NEW t \in Threads, ThreadExit(t) PROVE Goal
  BY <1>2 DEF ThreadExit, stopVars, Contract!vars
<1>3. CASE SetHooks
  BY <1>3 DEF SetHooks, stopVars, Contract!vars
<1>4. CASE HookStartProc
  <2>1. Contract!Enable
    BY <1>4 DEF HookStartProc, Goto, stopVars, Contract!Enable
  <2> QED  BY <2>1 DEF Contract!Next
<1>5. CASE WinHookEventProc
  BY <1>5 DEF WinHookEventProc, stopVars, Contract!vars
<1>6. CASE LoopQuit
  BY <1>6 DEF LoopQuit, Goto, stopVars, Contract!vars
<1>7. CASE Unregister
  BY <1>7 DEF Unregister, Goto, stopVars, Contract!vars
<1>8. CASE HookStopProc
  <2>1. CASE status = "SET_WINDOWS_HOOK_EX"
    BY <1>8, <2>1 DEF HookStopProc, Goto, stopVars, Contract!vars
  <2>2. CASE status # "SET_WINDOWS_HOOK_EX"
    <3>1. Contract!Disable
      BY <1>8, <2>2 DEF HookStopProc, Goto, stopVars, Contract!Disable
    <3> QED  BY <3>1 DEF Contract!Next
  <2> QED  BY <2>1, <2>2
<1>9. CASE Unload
  <2>1. Contract!Return
    BY <1>9 DEF Unload, Goto, Contract!Return, RunErrors
  <2> QED  BY <2>1 DEF Contract!Next
<1>10. ASSUME NEW k \in InputHooks, LoopInput(k) PROVE Goal
  <2>1. Contract!Input
    BY <1>10 DEF LoopInput, stopVars, Contract!Input
  <2> QED  BY <2>1 DEF Contract!Next
<1>11. ASSUME NEW k \in InputHooks, HookTimeout(k) PROVE Goal
  BY <1>11 DEF HookTimeout, stopVars, Contract!vars
<1>12. CASE HookStop
  <2>1. Running /\ ~signalled
    BY <1>12 DEF HookStop, MayStop
  <2>2. CASE hook_thread_id \in queue
    <3>1. Contract!Signal
      BY <1>12, <2>1, <2>2 DEF HookStop, PostQuit, Contract!Signal
    <3> QED  BY <3>1 DEF Contract!Next
  <2>3. CASE hook_thread_id \notin queue
    BY <1>12, <2>3 DEF HookStop, PostQuit, Contract!vars
  <2> QED  BY <2>2, <2>3
<1>13. CASE Detach
  BY <1>13 DEF Detach, Goto, stopVars, Contract!vars
<1>14. CASE UNCHANGED vars
  BY <1>14 DEF vars, stopVars, Contract!vars
<1> QED
  BY <1>1, <1>2, <1>3, <1>4, <1>5, <1>6, <1>7, <1>8, <1>9, <1>10, <1>11, <1>12, <1>13, <1>14
  DEF Next, HookRun

(* If the application stops each enabled hook once, every behaviour of the *)
(* Windows hook is one the safety part of the contract allows.             *)
THEOREM ImplementsContractSafely == StopOnce => (Spec => Contract!Safety)
<1> SUFFICES ASSUME StopOnce PROVE Spec => Contract!Safety  OBVIOUS
<1>1. Spec => [](IInv /\ OnceInv)  BY OnceInvariance
<1>2. IInv /\ OnceInv /\ [Next]_vars => [Contract!Next]_(Contract!vars)  BY ContractStep
<1> QED  BY <1>1, <1>2, ContractInit, PTL DEF Spec, Safety, Contract!Safety

=============================================================================
