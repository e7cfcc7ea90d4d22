----------------------------- MODULE DarwinHook -----------------------------
(***************************************************************************)
(* hook_run() and hook_stop() of the Darwin back end: a run loop with an   *)
(* event tap, on a thread that is mostly not the main one, and the hand-   *)
(* over of every key to the main run loop, which alone may translate it.   *)
(*                                                                         *)
(* There are three ways to translate a key.  "direct": hook_run() was      *)
(* called on the main thread.  "dispatch": dispatch_sync_f() to the main   *)
(* queue.  "fallback": a source of the main run loop is signalled and the  *)
(* hook thread waits on a condition variable, without a predicate.         *)
(*                                                                         *)
(* prev_keyboard_layout is shared without a lock by the translation, by    *)
(* the end of hook_run() and by hook_stop() on any thread.  The build is   *)
(* the default one, with the application services and Objective-C.         *)
(***************************************************************************)
EXTENDS Naturals

CONSTANTS
  Callback,     \* the dispatch procedure as a caller of hook_stop()
  External,     \* other threads that may call hook_stop()
  MaxRuns       \* bound on the calls of hook_run()

ASSUME StoppersAssumption == Callback \notin External
ASSUME BoundAssumption == MaxRuns \in Nat

Stoppers == External \union {Callback}

VARIABLES
  path,         \* how keys are translated
  pc,           \* control point of hook_run()
  event_loop,   \* the global: NULL, a thread's run loop, or one that is gone
  hook,         \* the global: an event_runloop_info is there
  message,      \* tis_keycode_message
  length,       \* tis_keycode_message->length
  mainInfo,     \* main_runloop_keycode is there
  signalled,    \* its source is signalled
  mutex,        \* who holds main_runloop_mutex
  main,         \* what the main thread is doing
  look,         \* how far keycode_to_unicode() is
  prev,         \* prev_keyboard_layout: NULL, a reference, or a released one
  stop,         \* how far each call of hook_stop() is
  stopped,      \* CFRunLoopStop() was called for the running loop
  reply,        \* what hook_stop() last returned to the callback in this dispatch
  fired, status, runs,
  fault,        \* the first undefined behaviour, after which nothing is modelled
  lookups,      \* history: translations since the key was pressed
  outside,      \* history: a hook_stop() outside the callback got to its unload
  early         \* history: a wait ended without the translation it was for

runVars  == <<event_loop, hook, status, runs>>
msgVars  == <<message, length>>
mainVars == <<mainInfo, signalled, mutex, main>>
keyVars  == <<look, prev, lookups, early>>
stopVars == <<stop, stopped, reply, outside>>
vars == <<path, pc, runVars, msgVars, mainVars, keyVars, stopVars, fired, fault>>
-----------------------------------------------------------------------------
Paths == {"direct", "dispatch", "fallback"}

(* The loop runs: CFRunLoopCopyCurrentMode() is not NULL.                  *)
Dispatching == {"enabled", "pressed", "typed", "disabled"}
HandOver == {"handoff", "lookup", "queued", "check", "waiting", "relock", "typing"}
InLoop == Dispatching \union HandOver \union {"wait", "system"}

(* hook_event_proc() has not returned, so its CGEventRef is valid.         *)
EventValid == HandOver \union {"typed"}

RunErrors == {"AXAPI_DISABLED", "GET_RUNLOOP", "OUT_OF_MEMORY", "CREATE_EVENT_PORT",
              "CREATE_RUN_LOOP_SOURCE", "CREATE_OBSERVER", "FAILURE"}

TypeOK ==
  /\ path \in Paths
  /\ pc \in {"idle", "create", "message", "main_info", "enter", "unload", "release", "clear",
             "cleanup", "free"} \union InLoop
  /\ event_loop \in {"null", "live", "freed"}
  /\ hook \in BOOLEAN
  /\ message \in {"null", "live", "freed"}
  /\ length \in 0..1
  /\ mainInfo \in BOOLEAN /\ signalled \in BOOLEAN
  /\ mutex \in {"none", "hook", "main"}
  /\ main \in {"out", "in", "perform", "look", "exit", "left", "late"}
  /\ look \in {"no", "start", "release", "set"}
  /\ prev \in {"null", "live", "released"}
  /\ stop \in [Stoppers -> {"idle", "signal", "unload", "release", "clear"}]
  /\ stopped \in BOOLEAN
  /\ reply \in {"none", "SUCCESS", "FAILURE"}
  /\ fired \in {"none", "enabled", "input", "disabled"}
  /\ status \in RunErrors \union {"SUCCESS", "pending"}
  /\ runs \in 0..MaxRuns
  /\ fault \in {"none", "loop", "layout", "lookup", "source"}
  /\ lookups \in 0..2
  /\ outside \in BOOLEAN /\ early \in BOOLEAN

Init ==
  /\ path \in Paths
  /\ pc = "idle"
  /\ event_loop = "null" /\ hook = FALSE
  /\ message = "null" /\ length = 0
  /\ mainInfo = FALSE /\ signalled = FALSE /\ mutex = "none" /\ main = "out"
  /\ look = "no" /\ prev = "null"
  /\ stop = [t \in Stoppers |-> "idle"] /\ stopped = FALSE /\ reply = "none"
  /\ fired = "none" /\ status = "pending" /\ runs = 0
  /\ fault = "none"
  /\ lookups = 0 /\ outside = FALSE /\ early = FALSE

Goto(from, to) == fault = "none" /\ pc = from /\ pc' = to

(* The dispatcher has returned, and so has every hook_stop() it called.    *)
Dispatched == stop[Callback] = "idle" /\ reply' = "none"
-----------------------------------------------------------------------------
(* hook_run(), up to CFRunLoopRun().                                       *)
RunCall ==
  /\ fault = "none" /\ pc = "idle"
  /\ runs < MaxRuns /\ runs' = runs + 1
  /\ fired' = "none"
  /\ \/ status' = "AXAPI_DISABLED" /\ UNCHANGED <<pc, event_loop>>
     \/ status' = "GET_RUNLOOP" /\ event_loop' = "null" /\ UNCHANGED pc
     \/ pc' = "create" /\ event_loop' = "live" /\ status' = "pending"
  /\ UNCHANGED <<path, hook, msgVars, mainVars, keyVars, stopVars, fault>>

Fail(error) == pc' = "idle" /\ status' = error

(* Mutant: the event tap is left in place.                                 *)
KeepEventRunloopInfo == UNCHANGED hook

DestroyEventRunloopInfo == hook' = FALSE

DestroyMainRunloopInfo == mainInfo' = FALSE /\ signalled' = FALSE

(* create_event_runloop_info(), and destroy_event_runloop_info() of what   *)
(* there is if it fails: also of a hook that an earlier call left behind.  *)
CreateEventRunloopInfo ==
  /\ fault = "none" /\ pc = "create"
  /\ \/ hook /\ DestroyEventRunloopInfo /\ Fail("FAILURE")
     \/ ~hook /\ hook' = TRUE /\ pc' = "message" /\ UNCHANGED status
     \/ /\ ~hook /\ UNCHANGED hook
        /\ \E error \in {"OUT_OF_MEMORY", "CREATE_EVENT_PORT", "CREATE_RUN_LOOP_SOURCE",
                         "CREATE_OBSERVER"} : Fail(error)
  /\ UNCHANGED <<path, event_loop, runs, msgVars, mainVars, keyVars, stopVars, fired, fault>>

(* The two messages.  If there is no memory the hook is left behind.       *)
AllocMessages ==
  /\ fault = "none" /\ pc = "message"
  /\ \/ message' = "null" /\ Fail("OUT_OF_MEMORY")
     \/ message' = "live" /\ Fail("OUT_OF_MEMORY")
     \/ /\ message' = "live"
        /\ pc' = (IF path = "fallback" THEN "main_info" ELSE "enter") /\ UNCHANGED status
  /\ length' = 0
  /\ UNCHANGED <<path, event_loop, hook, runs, mainVars, keyVars, stopVars, fired, fault>>

(* create_main_runloop_info().  If it fails the hook and the messages are  *)
(* left behind, and if it was the observer that failed, `source' is tested *)
(* before it was ever set.                                                 *)
CreateMainRunloopInfo ==
  /\ fault = "none" /\ pc = "main_info"
  /\ \/ /\ mutex = "none"
        /\ mainInfo' = TRUE /\ pc' = "enter" /\ UNCHANGED <<status, fault>>
     \/ /\ \E error \in {"OUT_OF_MEMORY", "CREATE_OBSERVER", "CREATE_RUN_LOOP_SOURCE"} : Fail(error)
        /\ UNCHANGED <<mainInfo, fault>>
     \/ fault' = "source" /\ UNCHANGED <<pc, status, mainInfo>>
  /\ UNCHANGED <<path, event_loop, hook, runs, msgVars, signalled, mutex, main, keyVars,
                 stopVars, fired>>
-----------------------------------------------------------------------------
(* CFRunLoopRun(): hook_status_proc() on entry.                            *)
EnterLoop ==
  /\ Goto("enter", "enabled")
  /\ fired' = "enabled"
  /\ UNCHANGED <<path, runVars, msgVars, mainVars, keyVars, stopVars, fault>>

LoopStarts ==
  /\ Goto("enabled", "wait") /\ Dispatched
  /\ UNCHANGED <<path, runVars, msgVars, mainVars, keyVars, stop, stopped, outside, fired, fault>>

(* A key is pressed: process_key_pressed() fires KEY_PRESSED.  The other   *)
(* events are dispatched and done, like a key that is consumed.            *)
KeyPressed ==
  /\ Goto("wait", "pressed")
  /\ fired' = "input" /\ lookups' = 0
  /\ UNCHANGED <<path, runVars, msgVars, mainVars, look, prev, early, stopVars, fault>>

PressConsumed ==
  /\ Goto("pressed", "wait") /\ Dispatched
  /\ UNCHANGED <<path, runVars, msgVars, mainVars, keyVars, stop, stopped, outside, fired, fault>>

PressNotConsumed ==
  /\ Goto("pressed", "handoff") /\ Dispatched
  /\ length' = 0
  /\ UNCHANGED <<path, runVars, message, mainVars, keyVars, stop, stopped, outside, fired, fault>>

(* process_system_key() asks the main queue what the event is, if it can.  *)
SystemKey ==
  /\ Goto("wait", "system")
  /\ UNCHANGED <<path, runVars, msgVars, mainVars, keyVars, stopVars, fired, fault>>

SystemKeyRead ==
  /\ fault = "none" /\ pc = "system"
  /\ path = "dispatch" => main = "in"
  /\ \/ pc' = "pressed" /\ fired' = "input" /\ lookups' = 0
     \/ pc' = "wait" /\ UNCHANGED <<fired, lookups>>
  /\ UNCHANGED <<path, runVars, msgVars, mainVars, look, prev, early, stopVars, fault>>
-----------------------------------------------------------------------------
(* The three ways to translate.                                            *)
LookupDirect ==
  /\ path = "direct" /\ Goto("handoff", "lookup")
  /\ look' = "start"
  /\ UNCHANGED <<path, runVars, msgVars, mainVars, prev, lookups, early, stopVars, fired, fault>>

(* Mutant: the hook thread does not wait for the main queue.               *)
DispatchAsync ==
  /\ path = "dispatch" /\ Goto("handoff", "typing")
  /\ UNCHANGED <<path, runVars, msgVars, mainVars, keyVars, stopVars, fired, fault>>

DispatchSync ==
  /\ path = "dispatch" /\ Goto("handoff", "queued")
  /\ UNCHANGED <<path, runVars, msgVars, mainVars, keyVars, stopVars, fired, fault>>

LockMain ==
  /\ path = "fallback" /\ Goto("handoff", "check")
  /\ mutex = "none" /\ mutex' = "hook"
  /\ UNCHANGED <<path, runVars, msgVars, mainInfo, signalled, main, keyVars, stopVars, fired,
                 fault>>

(* The main run loop is not running: nothing is typed.                     *)
MainNotRunning ==
  /\ Goto("check", "typing") /\ main = "out"
  /\ mutex' = "none"
  /\ UNCHANGED <<path, runVars, msgVars, mainInfo, signalled, main, keyVars, stopVars, fired,
                 fault>>

(* Mutant: the wait keeps the mutex.                                       *)
SignalHolding ==
  /\ Goto("check", "waiting") /\ main # "out"
  /\ signalled' = TRUE
  /\ UNCHANGED <<path, runVars, msgVars, mainInfo, mutex, main, keyVars, stopVars, fired, fault>>

SignalMain ==
  /\ Goto("check", "waiting") /\ main # "out"
  /\ signalled' = TRUE /\ mutex' = "none"
  /\ UNCHANGED <<path, runVars, msgVars, mainInfo, main, keyVars, stopVars, fired, fault>>

(* pthread_cond_wait() may return without a broadcast.                     *)
SpuriousWakeup ==
  /\ Goto("waiting", "relock")
  /\ UNCHANGED <<path, runVars, msgVars, mainVars, keyVars, stopVars, fired, fault>>

RelockMain ==
  /\ Goto("relock", "typing") /\ mutex = "none"
  /\ early' = (early \/ lookups = 0)
  /\ UNCHANGED <<path, runVars, msgVars, mainVars, look, prev, lookups, stopVars, fired, fault>>

(* The loop over the characters, of which one stands for all.              *)
KeyTyped ==
  /\ fault = "none" /\ pc = "typing"
  /\ pc' = (IF length > 0 THEN "typed" ELSE "wait")
  /\ UNCHANGED <<path, runVars, msgVars, mainVars, keyVars, stopVars, fired, fault>>

TypedDone ==
  /\ Goto("typed", "wait") /\ Dispatched
  /\ UNCHANGED <<path, runVars, msgVars, mainVars, keyVars, stop, stopped, outside, fired, fault>>
-----------------------------------------------------------------------------
(* CFRunLoopRun() ends when it finds that it was stopped, after the event  *)
(* it is working on: hook_status_proc() on exit.                           *)
LoopStopped ==
  /\ Goto("wait", "disabled") /\ stopped
  /\ fired' = "disabled"
  /\ UNCHANGED <<path, runVars, msgVars, mainVars, keyVars, stopVars, fault>>

DisabledDone ==
  /\ Goto("disabled", "unload") /\ Dispatched
  /\ UNCHANGED <<path, runVars, msgVars, mainVars, keyVars, stop, stopped, outside, fired, fault>>

(* CFRelease(prev_keyboard_layout).                                        *)
ReleaseLayout ==
  IF prev = "live" THEN prev' = "released" /\ UNCHANGED fault
                   ELSE fault' = "layout" /\ UNCHANGED prev

(* unload_input_helper(): test, release, forget.                           *)
UnloadTest ==
  /\ fault = "none" /\ pc = "unload"
  /\ pc' = (IF prev = "null" THEN "cleanup" ELSE "release")
  /\ UNCHANGED <<path, runVars, msgVars, mainVars, keyVars, stopVars, fired, fault>>

UnloadRelease ==
  /\ Goto("release", "clear") /\ ReleaseLayout
  /\ UNCHANGED <<path, runVars, msgVars, mainVars, look, lookups, early, stopVars, fired>>

UnloadClear ==
  /\ Goto("clear", "cleanup") /\ prev' = "null"
  /\ UNCHANGED <<path, runVars, msgVars, mainVars, look, lookups, early, stopVars, fired, fault>>

(* destroy_main_runloop_info() under the mutex: the source is removed.     *)
Cleanup ==
  /\ Goto("cleanup", "free") /\ mutex = "none"
  /\ DestroyMainRunloopInfo
  /\ UNCHANGED <<path, runVars, msgVars, mutex, main, keyVars, stopVars, fired, fault>>

(* The messages and the hook are freed, and hook_run() returns.  The main  *)
(* thread may be about to use the message: removing the source does not    *)
(* stop a perform that has begun.                                          *)
Free ==
  /\ Goto("free", "idle")
  /\ message' = "freed" /\ DestroyEventRunloopInfo
  /\ status' = "SUCCESS" /\ stopped' = FALSE
  /\ main' = (IF main \in {"perform", "look"} THEN "late" ELSE main)
  /\ UNCHANGED <<path, event_loop, runs, length, mainInfo, signalled, mutex, keyVars, stop, reply,
                 outside, fired, fault>>

(* The thread that called hook_run() ends, and its run loop with it.       *)
ThreadExit ==
  /\ fault = "none" /\ pc = "idle" /\ path # "direct"
  /\ event_loop = "live" /\ event_loop' = "freed"
  /\ UNCHANGED <<path, pc, hook, status, runs, msgVars, mainVars, keyVars, stopVars, fired, fault>>
-----------------------------------------------------------------------------
(* The main thread, if it is another one: the application runs its loop,   *)
(* leaves it and may run it again.                                         *)
MainEnter ==
  /\ fault = "none" /\ path # "direct"
  /\ main = "out" /\ main' = "in"
  /\ UNCHANGED <<path, pc, runVars, msgVars, mainInfo, signalled, mutex, keyVars, stopVars, fired,
                 fault>>

MainExit ==
  /\ fault = "none"
  /\ main = "in" /\ main' = (IF mainInfo THEN "exit" ELSE "left")
  /\ UNCHANGED <<path, pc, runVars, msgVars, mainInfo, signalled, mutex, keyVars, stopVars, fired,
                 fault>>

(* main_runloop_status_proc(): whoever waits is woken.                     *)
MainStatusProc ==
  /\ fault = "none" /\ main = "exit" /\ mutex = "none"
  /\ main' = "left"
  /\ pc' = (IF pc = "waiting" THEN "relock" ELSE pc)
  /\ UNCHANGED <<path, runVars, msgVars, mainInfo, signalled, mutex, keyVars, stopVars, fired,
                 fault>>

(* ... and only then has the loop no current mode any more.                *)
MainLeft ==
  /\ fault = "none" /\ main = "left" /\ main' = "out"
  /\ UNCHANGED <<path, pc, runVars, msgVars, mainInfo, signalled, mutex, keyVars, stopVars, fired,
                 fault>>

(* The main queue runs keycode_to_lookup() for dispatch_sync_f().          *)
MainDispatched ==
  /\ fault = "none" /\ pc = "queued" /\ look = "no"
  /\ main = "in" /\ main' = "look"
  /\ look' = "start"
  /\ UNCHANGED <<path, pc, runVars, msgVars, mainInfo, signalled, mutex, prev, lookups, early,
                 stopVars, fired, fault>>

(* The main loop takes the signalled source: main_runloop_keycode_proc().  *)
MainPerform ==
  /\ fault = "none" /\ signalled /\ signalled' = FALSE
  /\ main = "in" /\ main' = "perform"
  /\ UNCHANGED <<path, pc, runVars, msgVars, mainInfo, mutex, keyVars, stopVars, fired, fault>>

MainLock ==
  /\ fault = "none" /\ main = "perform" /\ main' = "look"
  /\ mutex = "none" /\ mutex' = "main"
  /\ look' = "start"
  /\ UNCHANGED <<path, pc, runVars, msgVars, mainInfo, signalled, prev, lookups, early, stopVars,
                 fired, fault>>

(* keycode_to_lookup() and keycode_to_unicode() on the main run loop.  The *)
(* event must still be there, and the previous layout is compared with the *)
(* current one before it is released.                                      *)
LookupStart ==
  /\ fault = "none" /\ look = "start" /\ main # "late"
  /\ \/ /\ pc \notin EventValid
        /\ fault' = "lookup" /\ UNCHANGED <<look, lookups>>
     \/ /\ pc \in EventValid /\ prev = "released"
        /\ fault' = "layout" /\ UNCHANGED <<look, lookups>>
     \/ /\ pc \in EventValid /\ prev # "released"
        /\ look' = (IF prev = "null" THEN "set" ELSE "release")
        /\ lookups' = IF lookups < 2 THEN lookups + 1 ELSE lookups
        /\ UNCHANGED fault
  /\ UNCHANGED <<path, pc, runVars, msgVars, mainVars, prev, early, stopVars, fired>>

LookupRelease ==
  /\ fault = "none" /\ look = "release" /\ main # "late" /\ look' = "set"
  /\ ReleaseLayout
  /\ UNCHANGED <<path, pc, runVars, msgVars, mainVars, lookups, early, stopVars, fired>>

(* The main thread goes on with a message that was freed.                  *)
LookupLate ==
  /\ fault = "none" /\ main = "late"
  /\ fault' = "lookup"
  /\ UNCHANGED <<path, pc, runVars, msgVars, mainVars, keyVars, stopVars, fired>>

(* How many characters UCKeyTranslate() gives: one stands for all counts.  *)
Translated == {0, 1}

(* The new layout is kept, if the system has one, and the characters are   *)
(* there; whoever waits for them goes on.                                  *)
LookupDone ==
  /\ fault = "none" /\ look = "set" /\ main # "late" /\ look' = "no"
  /\ prev' \in {"live", "null"} /\ length' \in Translated
  /\ pc' = CASE pc \in {"lookup", "queued"} -> "typing"
             [] pc = "waiting" -> "relock"
             [] OTHER -> pc
  /\ main' = (IF main = "look" THEN "in" ELSE main)
  /\ mutex' = (IF mutex = "main" THEN "none" ELSE mutex)
  /\ UNCHANGED <<path, runVars, message, mainInfo, signalled, lookups, early, stopVars, fired,
                 fault>>
-----------------------------------------------------------------------------
(* hook_stop().  event_loop is NULL before the first hook_run(), and the   *)
(* run loop of a thread that is gone is gone as well.                      *)
MayStop(t) == fault = "none" /\ (t = Callback => pc \in Dispatching)

StopQuery(t) ==
  /\ MayStop(t) /\ stop[t] = "idle"
  /\ IF event_loop # "live" THEN fault' = "loop" /\ UNCHANGED <<stop, reply>>
     ELSE /\ UNCHANGED fault
          /\ IF pc \in InLoop
             THEN stop' = [stop EXCEPT ![t] = "signal"] /\ UNCHANGED reply
             ELSE reply' = (IF t = Callback THEN "FAILURE" ELSE reply) /\ UNCHANGED stop
  /\ UNCHANGED <<path, pc, runVars, msgVars, mainVars, keyVars, stopped, outside, fired>>

(* Mutant: only a loop that waits for an event is stopped.                 *)
StopWaiting(t) ==
  /\ fault = "none" /\ stop[t] = "signal" /\ stop' = [stop EXCEPT ![t] = "unload"]
  /\ stopped' = (stopped \/ pc = "wait")
  /\ UNCHANGED <<path, pc, runVars, msgVars, mainVars, keyVars, reply, outside, fired, fault>>

(* CFRunLoopStop(): of no effect if the loop has ended meanwhile.          *)
StopSignal(t) ==
  /\ fault = "none" /\ stop[t] = "signal" /\ stop' = [stop EXCEPT ![t] = "unload"]
  /\ IF event_loop = "live" THEN stopped' = (stopped \/ pc \in InLoop) /\ UNCHANGED fault
                            ELSE fault' = "loop" /\ UNCHANGED stopped
  /\ UNCHANGED <<path, pc, runVars, msgVars, mainVars, keyVars, reply, outside, fired>>

StopReply(t) == reply' = (IF t = Callback THEN "SUCCESS" ELSE reply)

(* unload_input_helper() on the thread that called hook_stop().            *)
StopUnload(t) ==
  /\ fault = "none" /\ stop[t] = "unload"
  /\ outside' = (outside \/ t # Callback)
  /\ \/ prev = "null" /\ stop' = [stop EXCEPT ![t] = "idle"] /\ StopReply(t)
     \/ prev # "null" /\ stop' = [stop EXCEPT ![t] = "release"] /\ UNCHANGED reply
  /\ UNCHANGED <<path, pc, runVars, msgVars, mainVars, keyVars, stopped, fired, fault>>

StopRelease(t) ==
  /\ fault = "none" /\ stop[t] = "release" /\ stop' = [stop EXCEPT ![t] = "clear"]
  /\ ReleaseLayout
  /\ UNCHANGED <<path, pc, runVars, msgVars, mainVars, look, lookups, early, stopped, reply,
                 outside, fired>>

(* Mutant: the pointer to the released layout is kept.                     *)
StopKeepsLayout(t) ==
  /\ fault = "none" /\ stop[t] = "clear" /\ stop' = [stop EXCEPT ![t] = "idle"]
  /\ StopReply(t)
  /\ UNCHANGED <<path, pc, runVars, msgVars, mainVars, keyVars, stopped, outside, fired, fault>>

StopClear(t) ==
  /\ fault = "none" /\ stop[t] = "clear" /\ stop' = [stop EXCEPT ![t] = "idle"]
  /\ prev' = "null"
  /\ StopReply(t)
  /\ UNCHANGED <<path, pc, runVars, msgVars, mainVars, look, lookups, early, stopped, outside,
                 fired, fault>>
-----------------------------------------------------------------------------
Start == CreateEventRunloopInfo \/ AllocMessages \/ CreateMainRunloopInfo \/ EnterLoop \/ LoopStarts

Input == KeyPressed \/ SystemKey

TypeKey ==
  \/ PressConsumed \/ PressNotConsumed \/ SystemKeyRead \/ LookupDirect \/ DispatchSync
  \/ LockMain \/ MainNotRunning \/ SignalMain \/ RelockMain \/ KeyTyped \/ TypedDone

End == LoopStopped \/ DisabledDone \/ UnloadTest \/ UnloadRelease \/ UnloadClear \/ Cleanup \/ Free

Lookup == LookupStart \/ LookupRelease \/ LookupDone \/ LookupLate

MainServes == MainDispatched \/ MainPerform

MainThread == MainEnter \/ MainExit \/ MainStatusProc \/ MainLeft \/ MainServes \/ MainLock

HookStop(t) == StopQuery(t) \/ StopSignal(t) \/ StopUnload(t) \/ StopRelease(t) \/ StopClear(t)

Next ==
  \/ RunCall \/ Start \/ Input \/ TypeKey \/ SpuriousWakeup \/ End \/ ThreadExit
  \/ Lookup \/ MainThread
  \/ \E t \in Stoppers : HookStop(t)

Safety == Init /\ [][Next]_vars

CallbackReturns == LoopStarts \/ PressConsumed \/ PressNotConsumed \/ TypedDone \/ DisabledDone

CallbackStops ==
  StopSignal(Callback) \/ StopUnload(Callback) \/ StopRelease(Callback) \/ StopClear(Callback)

(* The hook thread runs, the callback returns, and a stopped loop ends     *)
(* rather than take events forever.  The application runs its main loop,   *)
(* again if it has left it, and the loop serves its queue and its sources. *)
Fairness ==
  /\ WF_vars(Start \/ TypeKey \/ End) /\ SF_vars(LoopStopped)
  /\ WF_vars(CallbackStops) /\ SF_vars(CallbackReturns)
  /\ WF_vars(Lookup) /\ WF_vars(MainLock)
  /\ WF_vars(MainEnter \/ MainStatusProc \/ MainLeft)
  /\ SF_vars(MainServes \/ SystemKeyRead)

Spec == Safety /\ Fairness
-----------------------------------------------------------------------------
Contract ==
  INSTANCE UioHook WITH
    Success   <- "SUCCESS",
    Errors    <- RunErrors,
    alive     <- fault = "none",
    running   <- pc # "idle",
    fired     <- fired,
    signalled <- stopped,
    ret       <- status

(* On whichever thread hook_run() is called, however it has its keys       *)
(* translated, and whoever stops it: the events and results are those of   *)
(* the contract, and a stopped hook ends if the application keeps running  *)
(* its main loop.                                                          *)
ImplementsContract == Contract!Spec

(* The callback can always stop the hook: from the first event to the last *)
(* hook_stop() succeeds and the loop will end.                             *)
CallbackStopNotLost ==
  reply # "none" => reply = "SUCCESS" /\ stopped

(* The previous layout is released once.  It is shared without a lock, but *)
(* the thread that translates and the hook thread wait for each other:     *)
(* only a hook_stop() outside the callback, or a wait that ended early,    *)
(* can make them meet.                                                     *)
LayoutReleasedOnce == fault = "layout" => outside \/ early

(* A key is translated once, so that the dead key state advances once, and *)
(* from an event that is still there.                                      *)
TranslatedOnce ==
  /\ fault = "lookup" => early
  /\ pc = "typing" /\ ~early => (length > 0 => lookups = 1) /\ lookups <= 1
  /\ pc = "typing" /\ path # "fallback" => lookups = 1

(* Between two calls the main loop has no source of the hook's, nobody     *)
(* holds the mutex for it, and the event tap is gone, unless the call ran  *)
(* into an error after the tap was there.                                  *)
NothingHeldAtReturn ==
  pc = "idle" =>
    /\ ~mainInfo /\ ~signalled /\ mutex # "hook"
    /\ hook => status \in {"OUT_OF_MEMORY", "CREATE_OBSERVER", "CREATE_RUN_LOOP_SOURCE",
                           "AXAPI_DISABLED", "GET_RUNLOOP"}

=============================================================================
