-------------------------- MODULE DarwinHookProofs --------------------------
(***************************************************************************)
(* Proofs about DarwinHook for any set of threads that call hook_stop()    *)
(* and any number of runs, on each of the three ways to translate a key.   *)
(***************************************************************************)
EXTENDS DarwinHook, TLAPS

Starting == {"create", "message", "main_info", "enter"}
Ending   == {"unload", "release", "clear", "cleanup", "free"}

(* While hook_run() is in progress its run loop is there, its status is    *)
(* not known yet and the last event fired follows from where it is.  It    *)
(* is stopped only once the loop has begun.                                *)
RunInv ==
  /\ pc # "idle" => event_loop = "live" /\ status = "pending"
  /\ pc \in Starting => fired = "none"
  /\ pc \in InLoop \ {"disabled"} => fired \in {"enabled", "input"}
  /\ pc \in Ending \union {"disabled"} => fired = "disabled"
  /\ stopped => pc \in InLoop \union Ending

(* The callback calls hook_stop() only while it is called itself, and once *)
(* hook_stop() has passed CFRunLoopStop() the loop is stopped.             *)
CallbackInv ==
  /\ stop[Callback] # "idle" \/ reply # "none" => pc \in Dispatching
  /\ stop[Callback] \in {"unload", "release", "clear"} => stopped
  /\ CallbackStopNotLost

(* What the hook has in the main run loop, and the event tap.              *)
HeldInv ==
  /\ mutex = "hook" <=> pc = "check"
  /\ mainInfo \/ signalled => /\ path = "fallback"
                             /\ pc \notin {"idle", "create", "message", "main_info", "free"}
  /\ NothingHeldAtReturn

(* Each way to translate a key has its control points, and on the main     *)
(* thread a translation that is signalled runs under the mutex.            *)
PathInv ==
  /\ path = "direct" => main = "out"
  /\ path # "direct" => pc # "lookup" /\ (look # "no" => main \in {"look", "late"})
  /\ path # "dispatch" => pc # "queued"
  /\ path # "fallback" =>
       /\ pc \notin {"main_info", "check", "waiting", "relock"}
       /\ ~signalled /\ main \notin {"perform", "late"} /\ mutex = "none" /\ ~early
  /\ path = "fallback" => (look # "no" <=> mutex = "main")
  /\ main = "look" => look # "no"

(* Until a wait ends early, at most one translation is under way, and only *)
(* while the hook thread waits for it.                                     *)
KeyInv ==
  ~early =>
    /\ pc \in {"pressed", "handoff", "check"} => lookups = 0
    /\ pc \in HandOver => lookups <= 1 /\ (lookups = 0 => length = 0)
    /\ pc = "lookup" => look # "no"
    /\ pc = "queued" /\ look = "no" => lookups = 0
    /\ look # "no" => pc \in {"lookup", "queued", "waiting", "relock"}
    /\ look = "start" => lookups = 0
    /\ look \in {"release", "set"} => lookups = 1
    /\ signalled \/ main = "perform" => /\ pc \in {"waiting", "relock"}
                                        /\ lookups = 0 /\ look = "no"
    /\ ~(signalled /\ main = "perform")
    /\ main # "late"
    /\ pc = "typing" /\ path # "fallback" => lookups = 1

(* ... and nobody but the one that translates, the end of hook_run() and   *)
(* the callback, which cannot meet, uses the previous layout.              *)
LayoutInv ==
  ~early /\ ~outside =>
    /\ \A t \in External : stop[t] \notin {"release", "clear"}
    /\ prev = "released" => look = "set" \/ pc = "clear" \/ stop[Callback] = "clear"
    /\ look = "release" \/ pc = "release" \/ stop[Callback] = "release" => prev = "live"

(* Undefined behaviour, by its first cause.                                *)
FaultInv == LayoutReleasedOnce /\ (fault = "lookup" => early)

IInv == TypeOK /\ RunInv /\ CallbackInv /\ HeldInv /\ PathInv /\ KeyInv /\ LayoutInv /\ FaultInv
-----------------------------------------------------------------------------
LEMMA InvInit == Init => IInv
<1> SUFFICES ASSUME Init PROVE IInv  OBVIOUS
<1> USE DEF Init
<1>1. TypeOK
  <2>1. 0 \in 0..MaxRuns /\ 0 \in 0..1 /\ 0 \in 0..2  BY BoundAssumption
  <2>2. stop \in [Stoppers -> {"idle", "signal", "unload", "release", "clear"}]  OBVIOUS
  <2> QED  BY <2>1, <2>2 DEF TypeOK, InLoop
<1>2. RunInv /\ CallbackInv
  BY DEF RunInv, CallbackInv, CallbackStopNotLost, Stoppers, Starting, Ending, InLoop, Dispatching,
         HandOver
<1>3. HeldInv /\ PathInv /\ KeyInv
  BY DEF HeldInv, NothingHeldAtReturn, PathInv, KeyInv, Paths, HandOver
<1>4. LayoutInv /\ FaultInv
  BY DEF LayoutInv, FaultInv, LayoutReleasedOnce, Stoppers
<1> QED  BY <1>1, <1>2, <1>3, <1>4 DEF IInv

LEMMA TypeStep == TypeOK /\ [Next]_vars => TypeOK'
<1> SUFFICES ASSUME TypeOK, [Next]_vars PROVE TypeOK'  OBVIOUS
<1> USE DEF TypeOK, runVars, msgVars, mainVars, keyVars, stopVars, Goto, Dispatched, InLoop,
            Dispatching, HandOver
<1>1. CASE RunCall
  <2>1. runs' \in 0..MaxRuns  BY <1>1, BoundAssumption DEF RunCall
  <2> QED  BY <1>1, <2>1 DEF RunCall, RunErrors
<1>2. CASE Start
  <2> USE DEF Fail, RunErrors, DestroyEventRunloopInfo
  <2>1. CASE CreateEventRunloopInfo
    <3>1. status' \in RunErrors \union {"SUCCESS", "pending"}  BY <2>1 DEF CreateEventRunloopInfo
    <3>2. hook' \in BOOLEAN  BY <2>1 DEF CreateEventRunloopInfo
    <3> QED  BY <2>1, <3>1, <3>2 DEF CreateEventRunloopInfo
  <2>2. CASE AllocMessages  BY <2>2 DEF AllocMessages
  <2>3. CASE CreateMainRunloopInfo
    <3>1. status' \in RunErrors \union {"SUCCESS", "pending"}  BY <2>3 DEF CreateMainRunloopInfo
    <3>2. mainInfo' \in BOOLEAN  BY <2>3 DEF CreateMainRunloopInfo
    <3> QED  BY <2>3, <3>1, <3>2 DEF CreateMainRunloopInfo
  <2>4. CASE EnterLoop \/ LoopStarts  BY <2>4 DEF EnterLoop, LoopStarts
  <2> QED  BY <1>2, <2>1, <2>2, <2>3, <2>4 DEF Start
<1>3. CASE Input
  BY <1>3 DEF Input, KeyPressed, SystemKey
<1>4. CASE TypeKey
  <2>1. CASE RelockMain
    <3>1. early' \in BOOLEAN  BY <2>1 DEF RelockMain
    <3> QED  BY <2>1, <3>1 DEF RelockMain
  <2>2. CASE PressConsumed \/ PressNotConsumed \/ SystemKeyRead \/ LookupDirect \/ DispatchSync
    BY <2>2 DEF PressConsumed, PressNotConsumed, SystemKeyRead, LookupDirect, DispatchSync
  <2>3. CASE LockMain \/ MainNotRunning \/ SignalMain \/ KeyTyped \/ TypedDone
    BY <2>3 DEF LockMain, MainNotRunning, SignalMain, KeyTyped, TypedDone
  <2> QED  BY <1>4, <2>1, <2>2, <2>3 DEF TypeKey
<1>5. CASE SpuriousWakeup
  BY <1>5 DEF SpuriousWakeup
<1>6. CASE End
  BY <1>6 DEF End, LoopStopped, DisabledDone, UnloadTest, UnloadRelease, UnloadClear, Cleanup, Free,
              ReleaseLayout, DestroyEventRunloopInfo, DestroyMainRunloopInfo
<1>7. CASE ThreadExit
  BY <1>7 DEF ThreadExit
<1>8. CASE Lookup
  BY <1>8 DEF Lookup, LookupStart, LookupRelease, LookupLate, LookupDone, ReleaseLayout, Translated
<1>9. CASE MainThread
  BY <1>9 DEF MainThread, MainServes, MainEnter, MainExit, MainStatusProc, MainLeft,
              MainDispatched, MainPerform, MainLock
<1>10. ASSUME NEW t \in Stoppers, HookStop(t) PROVE TypeOK'
  BY <1>10 DEF HookStop, StopQuery, StopSignal, StopUnload, StopRelease, StopClear, StopReply,
               ReleaseLayout
<1>11. CASE UNCHANGED vars
  BY <1>11 DEF vars
<1> QED  BY <1>1, <1>2, <1>3, <1>4, <1>5, <1>6, <1>7, <1>8, <1>9, <1>10, <1>11 DEF Next

LEMMA RunStep == IInv /\ [Next]_vars => RunInv' /\ CallbackInv'
<1> SUFFICES ASSUME IInv, [Next]_vars PROVE RunInv' /\ CallbackInv'  OBVIOUS
<1> USE DEF IInv, TypeOK, RunInv, CallbackInv, CallbackStopNotLost, Starting, Ending, InLoop,
            Dispatching, HandOver, Stoppers, runVars, stopVars, Goto, Dispatched
<1>1. CASE RunCall
  BY <1>1 DEF RunCall
<1>2. CASE Start
  BY <1>2 DEF Start, CreateEventRunloopInfo, AllocMessages, CreateMainRunloopInfo, EnterLoop,
              LoopStarts, Fail
<1>3. CASE Input
  BY <1>3 DEF Input, KeyPressed, SystemKey
<1>4. CASE TypeKey
  BY <1>4 DEF TypeKey, PressConsumed, PressNotConsumed, SystemKeyRead, LookupDirect, DispatchSync,
              LockMain, MainNotRunning, SignalMain, RelockMain, KeyTyped, TypedDone
<1>5. CASE SpuriousWakeup
  BY <1>5 DEF SpuriousWakeup
<1>6. CASE End
  BY <1>6 DEF End, LoopStopped, DisabledDone, UnloadTest, UnloadRelease, UnloadClear, Cleanup, Free
<1>7. CASE ThreadExit
  BY <1>7 DEF ThreadExit
<1>8. CASE Lookup
  BY <1>8 DEF Lookup, LookupStart, LookupRelease, LookupLate, LookupDone
<1>9. CASE MainThread
  BY <1>9 DEF MainThread, MainServes, MainEnter, MainExit, MainStatusProc, MainLeft,
              MainDispatched, MainPerform, MainLock
<1>10. ASSUME NEW t \in Stoppers, HookStop(t) PROVE RunInv' /\ CallbackInv'
  <2> USE DEF MayStop, StopReply
  <2>1. CASE StopQuery(t)  BY <2>1 DEF StopQuery
  <2>2. CASE StopSignal(t)  BY <2>2 DEF StopSignal
  <2>3. CASE StopUnload(t)  BY <2>3 DEF StopUnload
  <2>4. CASE StopRelease(t)  BY <2>4 DEF StopRelease
  <2>5. CASE StopClear(t)  BY <2>5 DEF StopClear
  <2> QED  BY <1>10, <2>1, <2>2, <2>3, <2>4, <2>5 DEF HookStop
<1>11. CASE UNCHANGED vars
  BY <1>11 DEF vars
<1> QED  BY <1>1, <1>2, <1>3, <1>4, <1>5, <1>6, <1>7, <1>8, <1>9, <1>10, <1>11 DEF Next

LEMMA HeldStep == IInv /\ [Next]_vars => HeldInv'
<1> SUFFICES ASSUME IInv, [Next]_vars PROVE HeldInv'  OBVIOUS
<1> USE DEF IInv, TypeOK, HeldInv, NothingHeldAtReturn, PathInv, runVars, mainVars, Goto, InLoop,
            Dispatching, HandOver
<1>1. CASE RunCall
  BY <1>1 DEF RunCall
<1>2. CASE Start
  <2> USE DEF Fail, DestroyEventRunloopInfo
  <2>1. CASE CreateEventRunloopInfo  BY <2>1 DEF CreateEventRunloopInfo
  <2>2. CASE AllocMessages  BY <2>2 DEF AllocMessages
  <2>3. CASE CreateMainRunloopInfo
    <3>1. path = "fallback" /\ ~mainInfo /\ ~signalled /\ mutex # "hook" /\ pc' # "check"
      BY <2>3 DEF CreateMainRunloopInfo
    <3>2. CASE pc' = "idle"
      BY <2>3, <3>1, <3>2 DEF CreateMainRunloopInfo
    <3>3. CASE pc' # "idle"
      BY <2>3, <3>1, <3>3 DEF CreateMainRunloopInfo
    <3> QED  BY <3>2, <3>3
  <2>4. CASE EnterLoop \/ LoopStarts  BY <2>4 DEF EnterLoop, LoopStarts
  <2> QED  BY <1>2, <2>1, <2>2, <2>3, <2>4 DEF Start
<1>3. CASE Input
  BY <1>3 DEF Input, KeyPressed, SystemKey
<1>4. CASE TypeKey
  BY <1>4 DEF TypeKey, PressConsumed, PressNotConsumed, SystemKeyRead, LookupDirect, DispatchSync,
              LockMain, MainNotRunning, SignalMain, RelockMain, KeyTyped, TypedDone
<1>5. CASE SpuriousWakeup
  BY <1>5 DEF SpuriousWakeup
<1>6. CASE End
  BY <1>6 DEF End, LoopStopped, DisabledDone, UnloadTest, UnloadRelease, UnloadClear, Cleanup, Free,
              DestroyEventRunloopInfo, DestroyMainRunloopInfo
<1>7. CASE ThreadExit
  BY <1>7 DEF ThreadExit
<1>8. CASE Lookup
  BY <1>8 DEF Lookup, LookupStart, LookupRelease, LookupLate, LookupDone
<1>9. CASE MainThread
  BY <1>9 DEF MainThread, MainServes, MainEnter, MainExit, MainStatusProc, MainLeft,
              MainDispatched, MainPerform, MainLock
<1>10. ASSUME NEW t \in Stoppers, HookStop(t) PROVE HeldInv'
  BY <1>10 DEF HookStop, StopQuery, StopSignal, StopUnload, StopRelease, StopClear
<1>11. CASE UNCHANGED vars
  BY <1>11 DEF vars
<1> QED  BY <1>1, <1>2, <1>3, <1>4, <1>5, <1>6, <1>7, <1>8, <1>9, <1>10, <1>11 DEF Next

LEMMA PathStep == IInv /\ [Next]_vars => PathInv'
<1> SUFFICES ASSUME IInv, [Next]_vars PROVE PathInv'  OBVIOUS
<1> USE DEF IInv, TypeOK, PathInv, HeldInv, Paths, msgVars, mainVars, keyVars, Goto, InLoop,
            Dispatching, HandOver
<1>1. CASE RunCall
  BY <1>1 DEF RunCall
<1>2. CASE Start
  BY <1>2 DEF Start, CreateEventRunloopInfo, AllocMessages, CreateMainRunloopInfo, EnterLoop,
              LoopStarts, Fail
<1>3. CASE Input
  BY <1>3 DEF Input, KeyPressed, SystemKey
<1>4. CASE TypeKey
  BY <1>4 DEF TypeKey, PressConsumed, PressNotConsumed, SystemKeyRead, LookupDirect, DispatchSync,
              LockMain, MainNotRunning, SignalMain, RelockMain, KeyTyped, TypedDone
<1>5. CASE SpuriousWakeup
  BY <1>5 DEF SpuriousWakeup
<1>6. CASE End
  <2>1. CASE LoopStopped \/ DisabledDone \/ UnloadTest
    BY <2>1 DEF LoopStopped, DisabledDone, UnloadTest
  <2>2. CASE UnloadRelease \/ UnloadClear
    BY <2>2 DEF UnloadRelease, UnloadClear
  <2>3. CASE Cleanup  BY <2>3 DEF Cleanup, DestroyMainRunloopInfo
  <2>4. CASE Free
    <3>1. pc' = "idle" /\ UNCHANGED <<path, look, mutex, signalled, early>>
      BY <2>4 DEF Free
    <3>2. CASE main \in {"perform", "look"}
      <4>1. path = "fallback"
        BY <2>4, <3>2 DEF Free, KeyInv
      <4> QED  BY <2>4, <3>1, <3>2, <4>1 DEF Free
    <3>3. CASE main \notin {"perform", "look"}
      BY <2>4, <3>1, <3>3 DEF Free
    <3> QED  BY <3>2, <3>3
  <2> QED  BY <1>6, <2>1, <2>2, <2>3, <2>4 DEF End
<1>7. CASE ThreadExit
  BY <1>7 DEF ThreadExit
<1>8. CASE Lookup
  BY <1>8 DEF Lookup, LookupStart, LookupRelease, LookupLate, LookupDone
<1>9. CASE MainThread
  BY <1>9 DEF MainThread, MainServes, MainEnter, MainExit, MainStatusProc, MainLeft, MainDispatched,
              MainPerform, MainLock
<1>10. ASSUME NEW t \in Stoppers, HookStop(t) PROVE PathInv'
  BY <1>10 DEF HookStop, StopQuery, StopSignal, StopUnload, StopRelease, StopClear
<1>11. CASE UNCHANGED vars
  BY <1>11 DEF vars
<1> QED  BY <1>1, <1>2, <1>3, <1>4, <1>5, <1>6, <1>7, <1>8, <1>9, <1>10, <1>11 DEF Next

LEMMA KeyStep == IInv /\ [Next]_vars => KeyInv'
<1> SUFFICES ASSUME IInv, [Next]_vars PROVE KeyInv'  OBVIOUS
<1> USE DEF IInv, TypeOK, KeyInv, PathInv, HeldInv, Paths, msgVars, mainVars, keyVars, Goto, InLoop,
            Dispatching, HandOver
<1>1. CASE RunCall
  BY <1>1 DEF RunCall
<1>2. CASE Start
  BY <1>2 DEF Start, CreateEventRunloopInfo, AllocMessages, CreateMainRunloopInfo, EnterLoop,
              LoopStarts, Fail
<1>3. CASE Input
  BY <1>3 DEF Input, KeyPressed, SystemKey
<1>4. CASE TypeKey
  <2>1. CASE PressConsumed  BY <2>1 DEF PressConsumed
  <2>2. CASE PressNotConsumed  BY <2>2 DEF PressNotConsumed
  <2>3. CASE SystemKeyRead  BY <2>3 DEF SystemKeyRead
  <2>4. CASE LookupDirect  BY <2>4 DEF LookupDirect
  <2>5. CASE DispatchSync  BY <2>5 DEF DispatchSync
  <2>6. CASE LockMain  BY <2>6 DEF LockMain
  <2>7. CASE MainNotRunning  BY <2>7 DEF MainNotRunning
  <2>8. CASE SignalMain  BY <2>8 DEF SignalMain
  <2>9. CASE RelockMain  BY <2>9 DEF RelockMain
  <2>10. CASE KeyTyped  BY <2>10 DEF KeyTyped
  <2>11. CASE TypedDone  BY <2>11 DEF TypedDone
  <2> QED  BY <1>4, <2>1, <2>2, <2>3, <2>4, <2>5, <2>6, <2>7, <2>8, <2>9, <2>10, <2>11 DEF TypeKey
<1>5. CASE SpuriousWakeup
  BY <1>5 DEF SpuriousWakeup
<1>6. CASE End
  BY <1>6 DEF End, LoopStopped, DisabledDone, UnloadTest, UnloadRelease, UnloadClear, Cleanup, Free,
              DestroyMainRunloopInfo
<1>7. CASE ThreadExit
  BY <1>7 DEF ThreadExit
<1>8. CASE Lookup
  <2> USE DEF EventValid, Translated
  <2>1. CASE LookupStart  BY <2>1 DEF LookupStart
  <2>2. CASE LookupRelease  BY <2>2 DEF LookupRelease
  <2>3. CASE LookupLate  BY <2>3 DEF LookupLate
  <2>4. CASE LookupDone  BY <2>4 DEF LookupDone
  <2> QED  BY <1>8, <2>1, <2>2, <2>3, <2>4 DEF Lookup
<1>9. CASE MainThread
  <2>1. CASE MainEnter  BY <2>1 DEF MainEnter
  <2>2. CASE MainExit  BY <2>2 DEF MainExit
  <2>3. CASE MainStatusProc  BY <2>3 DEF MainStatusProc
  <2>4. CASE MainLeft  BY <2>4 DEF MainLeft
  <2>5. CASE MainDispatched  BY <2>5 DEF MainDispatched
  <2>6. CASE MainPerform  BY <2>6 DEF MainPerform
  <2>7. CASE MainLock  BY <2>7 DEF MainLock
  <2> QED  BY <1>9, <2>1, <2>2, <2>3, <2>4, <2>5, <2>6, <2>7 DEF MainThread, MainServes
<1>10. ASSUME NEW t \in Stoppers, HookStop(t) PROVE KeyInv'
  BY <1>10 DEF HookStop, StopQuery, StopSignal, StopUnload, StopRelease, StopClear
<1>11. CASE UNCHANGED vars
  BY <1>11 DEF vars
<1> QED  BY <1>1, <1>2, <1>3, <1>4, <1>5, <1>6, <1>7, <1>8, <1>9, <1>10, <1>11 DEF Next

LEMMA LayoutStep == IInv /\ [Next]_vars => LayoutInv' /\ FaultInv'
<1> SUFFICES ASSUME IInv, [Next]_vars PROVE LayoutInv' /\ FaultInv'  OBVIOUS
<1> USE DEF IInv, TypeOK, LayoutInv, FaultInv, LayoutReleasedOnce, KeyInv, PathInv, CallbackInv,
            Stoppers, keyVars, stopVars, Goto, InLoop, Dispatching, HandOver, ReleaseLayout
<1>1. CASE RunCall
  BY <1>1 DEF RunCall
<1>2. CASE Start
  BY <1>2 DEF Start, CreateEventRunloopInfo, AllocMessages, CreateMainRunloopInfo, EnterLoop,
              LoopStarts, Fail
<1>3. CASE Input
  BY <1>3 DEF Input, KeyPressed, SystemKey
<1>4. CASE TypeKey
  BY <1>4 DEF TypeKey, PressConsumed, PressNotConsumed, SystemKeyRead, LookupDirect, DispatchSync,
              LockMain, MainNotRunning, SignalMain, RelockMain, KeyTyped, TypedDone
<1>5. CASE SpuriousWakeup
  BY <1>5 DEF SpuriousWakeup
<1>6. CASE End
  BY <1>6 DEF End, LoopStopped, DisabledDone, UnloadTest, UnloadRelease, UnloadClear, Cleanup, Free
<1>7. CASE ThreadExit
  BY <1>7 DEF ThreadExit
<1>8. CASE Lookup
  <2> USE DEF EventValid
  <2>1. CASE LookupStart  BY <2>1 DEF LookupStart
  <2>2. CASE LookupRelease  BY <2>2 DEF LookupRelease
  <2>3. CASE LookupLate  BY <2>3 DEF LookupLate
  <2>4. CASE LookupDone  BY <2>4 DEF LookupDone
  <2> QED  BY <1>8, <2>1, <2>2, <2>3, <2>4 DEF Lookup
<1>9. CASE MainThread
  BY <1>9 DEF MainThread, MainServes, MainEnter, MainExit, MainStatusProc, MainLeft, MainDispatched,
              MainPerform, MainLock
<1>10. ASSUME NEW t \in Stoppers, HookStop(t) PROVE LayoutInv' /\ FaultInv'
  <2> USE DEF MayStop
  <2>1. CASE StopQuery(t)  BY <2>1 DEF StopQuery
  <2>2. CASE StopSignal(t)  BY <2>2 DEF StopSignal
  <2>3. CASE StopUnload(t)
    <3>1. CASE t = Callback
      <4>1. ~early /\ ~outside => prev # "released"
        BY <2>3, <3>1 DEF StopUnload
      <4> QED  BY <2>3, <3>1, <4>1, StoppersAssumption DEF StopUnload
    <3>2. CASE t # Callback
      BY <2>3, <3>2 DEF StopUnload
    <3> QED  BY <3>1, <3>2
  <2>4. CASE StopRelease(t)  BY <2>4 DEF StopRelease
  <2>5. CASE StopClear(t)  BY <2>5 DEF StopClear
  <2> QED  BY <1>10, <2>1, <2>2, <2>3, <2>4, <2>5 DEF HookStop
<1>11. CASE UNCHANGED vars
  BY <1>11 DEF vars
<1> QED  BY <1>1, <1>2, <1>3, <1>4, <1>5, <1>6, <1>7, <1>8, <1>9, <1>10, <1>11 DEF Next

(* The parts of the invariant are inductive together: no step of           *)
(* hook_run(), hook_stop() or the main run loop leads out of them.         *)
LEMMA InvStep == IInv /\ [Next]_vars => IInv'
<1> SUFFICES ASSUME IInv, [Next]_vars PROVE IInv'  OBVIOUS
<1>1. TypeOK'  BY TypeStep DEF IInv
<1> QED  BY <1>1, RunStep, HeldStep, PathStep, KeyStep, LayoutStep DEF IInv

(* The inductive invariant holds throughout, before and after any fault.   *)
THEOREM Invariance == Safety => []IInv
<1>1. Init => IInv  BY InvInit
<1>2. IInv /\ [Next]_vars => IInv'  BY InvStep
<1> QED  BY <1>1, <1>2, PTL DEF Safety
-----------------------------------------------------------------------------
(* Every variable keeps the values the code can give it.                   *)
THEOREM TypeCorrect == Safety => []TypeOK
<1>1. IInv => TypeOK  BY DEF IInv
<1> QED  BY <1>1, Invariance, PTL

(* hook_stop() called by the callback, at any event from HOOK_ENABLED to   *)
(* HOOK_DISABLED, succeeds and stops the loop, however many other threads  *)
(* call it at the same time.                                               *)
THEOREM CallbackStopIsNotLost == Safety => []CallbackStopNotLost
<1>1. IInv => CallbackStopNotLost  BY DEF IInv, CallbackInv
<1> QED  BY <1>1, Invariance, PTL

(* The layout that hook_stop(), the end of hook_run() and the translation  *)
(* share without a lock is used after its release, or released twice, only *)
(* if hook_stop() was called outside the callback or a wait for the main   *)
(* thread ended before the translation.                                    *)
THEOREM LayoutIsReleasedOnce == Safety => []LayoutReleasedOnce
<1>1. IInv => LayoutReleasedOnce  BY DEF IInv, FaultInv
<1> QED  BY <1>1, Invariance, PTL

(* Unless a wait ended early, a key is translated once, while its event is *)
(* there, and what is typed is that translation.                           *)
THEOREM KeyIsTranslatedOnce == Safety => []TranslatedOnce
<1>1. IInv => TranslatedOnce
  BY DEF IInv, FaultInv, KeyInv, PathInv, TranslatedOnce, TypeOK, Paths, HandOver
<1> QED  BY <1>1, Invariance, PTL

(* hook_run() returns with nothing of its own in the main run loop, and    *)
(* leaves an event tap only after the errors that skip its removal.        *)
THEOREM NothingIsHeldAtReturn == Safety => []NothingHeldAtReturn
<1>1. IInv => NothingHeldAtReturn  BY DEF IInv, HeldInv
<1> QED  BY <1>1, Invariance, PTL

(* On the main thread or through the main queue no wait can end early, so  *)
(* an application that stops the hook from its callback only never meets a *)
(* fault of the shared layout or of the translated event.                  *)
THEOREM SafeWithoutFallback ==
  Safety => [](path # "fallback" /\ ~outside => fault \notin {"layout", "lookup"})
<1>1. IInv => (path # "fallback" /\ ~outside => fault \notin {"layout", "lookup"})
  BY DEF IInv, FaultInv, LayoutReleasedOnce, PathInv
<1> QED  BY <1>1, Invariance, PTL
-----------------------------------------------------------------------------
LEMMA ContractInit == Init => Contract!Init
BY DEF Init, Contract!Init, Contract!Pending

LEMMA ContractStep == IInv /\ [Next]_vars => [Contract!Next]_(Contract!vars)
<1> SUFFICES ASSUME IInv, [Next]_vars
             PROVE  Contract!Next \/ UNCHANGED Contract!vars
  OBVIOUS
<1> DEFINE Goal == Contract!Next \/ UNCHANGED Contract!vars
           Same == UNCHANGED <<pc # "idle", fired, stopped, status>>
<1> USE DEF RunInv, Starting, Ending, InLoop, Dispatching, HandOver, runVars, stopVars, Goto
<1>0. TypeOK /\ RunInv  BY DEF IInv
<1>a. fault = "none" /\ fault' # "none" /\ Same => Goal
  <2>1. fault = "none" /\ fault' # "none" /\ Same => Contract!Die
    BY DEF Contract!Die
  <2> QED  BY <2>1 DEF Contract!Next
<1>b. UNCHANGED fault /\ Same => Goal
  BY DEF Contract!vars
<1>1. CASE RunCall
  <2>1. CASE pc' = "idle"
    <3>1. status' \in RunErrors
      BY <1>1, <2>1 DEF RunCall, RunErrors
    <3>2. Contract!FailFast
      BY <1>1, <2>1, <3>1 DEF RunCall, Contract!FailFast
    <3> QED  BY <3>2 DEF Contract!Next
  <2>2. CASE pc' # "idle"
    <3>1. Contract!Start
      BY <1>1, <2>2 DEF RunCall, Contract!Start, Contract!Pending
    <3> QED  BY <3>1 DEF Contract!Next
  <2> QED  BY <2>1, <2>2
<1>2. CASE CreateEventRunloopInfo \/ AllocMessages
  <2>1. CASE pc' = "idle"
    <3>1. status' \in RunErrors
      BY <1>2, <2>1 DEF CreateEventRunloopInfo, AllocMessages, Fail, RunErrors
    <3>2. Contract!Return
      BY <1>0, <1>2, <2>1, <3>1 DEF CreateEventRunloopInfo, AllocMessages, Contract!Return, TypeOK
    <3> QED  BY <3>2 DEF Contract!Next
  <2>2. CASE pc' # "idle"
    BY <1>2, <2>2, <1>b DEF CreateEventRunloopInfo, AllocMessages, Fail
  <2> QED  BY <2>1, <2>2
<1>3. CASE CreateMainRunloopInfo
  <2>1. CASE pc' = "idle"
    <3>1. status' \in RunErrors /\ UNCHANGED fault
      BY <1>3, <2>1 DEF CreateMainRunloopInfo, Fail, RunErrors
    <3>2. Contract!Return
      BY <1>0, <1>3, <2>1, <3>1 DEF CreateMainRunloopInfo, Contract!Return, TypeOK
    <3> QED  BY <3>2 DEF Contract!Next
  <2>2. CASE pc' # "idle" /\ fault' = "none"
    BY <1>3, <2>2, <1>b DEF CreateMainRunloopInfo, Fail
  <2>3. CASE fault' # "none"
    BY <1>3, <2>3, <1>a DEF CreateMainRunloopInfo
  <2> QED  BY <2>1, <2>2, <2>3
<1>4. CASE EnterLoop
  <2>1. Contract!Enable  BY <1>0, <1>4 DEF EnterLoop, Contract!Enable
  <2> QED  BY <2>1 DEF Contract!Next
<1>5. CASE KeyPressed
  <2>1. Contract!Input  BY <1>0, <1>5 DEF KeyPressed, Contract!Input
  <2> QED  BY <2>1 DEF Contract!Next
<1>6. CASE SystemKeyRead
  <2>1. CASE pc' = "pressed"
    <3>1. Contract!Input  BY <1>0, <1>6, <2>1 DEF SystemKeyRead, Contract!Input
    <3> QED  BY <3>1 DEF Contract!Next
  <2>2. CASE pc' # "pressed"
    BY <1>6, <2>2, <1>b DEF SystemKeyRead
  <2> QED  BY <2>1, <2>2
<1>7. CASE LoopStarts \/ SystemKey \/ PressConsumed \/ PressNotConsumed \/ LookupDirect \/ DispatchSync
  BY <1>7, <1>b
  DEF LoopStarts, SystemKey, PressConsumed, PressNotConsumed, LookupDirect, DispatchSync
<1>8. CASE LockMain \/ MainNotRunning \/ SignalMain \/ RelockMain \/ KeyTyped \/ TypedDone
  BY <1>8, <1>b DEF LockMain, MainNotRunning, SignalMain, RelockMain, KeyTyped, TypedDone
<1>9. CASE LoopStopped
  <2>1. Contract!Disable  BY <1>0, <1>9 DEF LoopStopped, Contract!Disable
  <2> QED  BY <2>1 DEF Contract!Next
<1>10. CASE Free
  <2>1. Contract!Return  BY <1>0, <1>10 DEF Free, Contract!Return
  <2> QED  BY <2>1 DEF Contract!Next
<1>11. CASE UnloadRelease
  BY <1>11, <1>a, <1>b DEF UnloadRelease, ReleaseLayout
<1>12. CASE SpuriousWakeup \/ DisabledDone \/ UnloadTest \/ UnloadClear \/ Cleanup \/ ThreadExit
  BY <1>12, <1>b DEF SpuriousWakeup, DisabledDone, UnloadTest, UnloadClear, Cleanup, ThreadExit
<1>13. CASE Lookup
  BY <1>13, <1>a, <1>b
  DEF Lookup, LookupStart, LookupRelease, LookupLate, LookupDone, ReleaseLayout
<1>14. CASE MainThread
  BY <1>14, <1>b DEF MainThread, MainServes, MainEnter, MainExit, MainStatusProc, MainLeft,
                     MainDispatched, MainPerform, MainLock
<1>15. ASSUME NEW t \in Stoppers, HookStop(t) PROVE Goal
  <2>1. CASE StopSignal(t)
    <3>1. CASE fault' # "none"
      BY <2>1, <3>1, <1>a DEF StopSignal
    <3>2. CASE fault' = "none" /\ (stopped \/ pc \notin InLoop)
      BY <1>0, <2>1, <3>2, <1>b DEF StopSignal, TypeOK
    <3>3. CASE fault' = "none" /\ ~stopped /\ pc \in InLoop
      <4>1. Contract!Signal
        BY <2>1, <3>3 DEF StopSignal, Contract!Signal
      <4> QED  BY <4>1 DEF Contract!Next
    <3> QED  BY <1>0, <3>1, <3>2, <3>3 DEF TypeOK
  <2>2. CASE StopQuery(t) \/ StopUnload(t) \/ StopRelease(t) \/ StopClear(t)
    BY <2>2, <1>a, <1>b DEF StopQuery, MayStop, StopUnload, StopRelease, StopClear, ReleaseLayout
  <2> QED  BY <1>15, <2>1, <2>2 DEF HookStop
<1>16. CASE UNCHANGED vars
  BY <1>16, <1>b DEF vars
<1> QED
  BY <1>1, <1>2, <1>3, <1>4, <1>5, <1>6, <1>7, <1>8, <1>9, <1>10, <1>11, <1>12, <1>13, <1>14,
     <1>15, <1>16
  DEF Next, Start, Input, TypeKey, End

(* Whoever calls hook_stop(), and on whichever thread hook_run() is: the   *)
(* events, the results and their order are those the contract allows.      *)
THEOREM ImplementsContractSafely == Safety => Contract!Safety
<1>1. IInv /\ [Next]_vars => [Contract!Next]_(Contract!vars)  BY ContractStep
<1> QED  BY <1>1, Invariance, ContractInit, PTL DEF Safety, Contract!Safety
=============================================================================
