------------------------------ MODULE DemoAsync ------------------------------
(***************************************************************************)
(* demo_hook_async.c, the pattern for applications that run the hook on a  *)
(* thread of their own, in its pthread build and composed with the         *)
(* library's contract.  main() calls hook_enable(), which creates the      *)
(* thread and waits, without a predicate, until dispatch_proc() or the end *)
(* of the thread signals; the mutex the hook holds while it is enabled     *)
(* tells the two apart.                                                    *)
(*                                                                         *)
(* The hook thread unlocks the control mutex whether it holds it or not.   *)
(* POSIX leaves that undefined; the default mutex of glibc becomes free.   *)
(***************************************************************************)
EXTENDS Naturals

CONSTANTS
  Success,          \* UIOHOOK_SUCCESS
  Errors,           \* what hook_run() may fail with
  ThreadCreate,     \* UIOHOOK_ERROR_THREAD_CREATE
  SpuriousWakeups   \* may pthread_cond_wait() return without a signal?

Unset == "unset"    \* what malloc() left there

ASSUME StatusAssumption ==
  /\ Success \notin Errors
  /\ ThreadCreate \notin Errors \union {Success}
  /\ Unset \notin Errors \union {Success, ThreadCreate}
ASSUME SpuriousAssumption == SpuriousWakeups \in BOOLEAN

VARIABLES
  main, thread,     \* where main() and hook_thread_proc() are
  control, enabled, \* who holds hook_control_mutex and hook_running_mutex
  memory,           \* hook_thread_status: not there, allocated or freed
  arg,              \* what the thread wrote to it
  status,           \* what hook_enable() returns
  joins,            \* how often the thread was joined
  spurious,         \* history: a wait ended without a signal
  alive, running, fired, signalled, ret     \* the library, see UioHook

syncVars == <<control, enabled>>
statusVars == <<memory, arg, status>>
hookVars == <<alive, running, fired, signalled, ret>>
vars == <<main, thread, syncVars, statusVars, joins, spurious, hookVars>>

(* The process lives: its callback only does what the platforms survive.   *)
Hook == INSTANCE UioHook

Owners == {"free", "main", "hook"}
MainSteps == {"lock", "create", "wait", "asleep", "awake", "try", "join", "free", "unlock",
              "returned", "destroy", "exit"}
ThreadSteps == {"none", "run", "starting", "failed", "lockEnabled", "signalEnabled",
                "unlockControl", "live", "lockControl", "unlockEnabled", "returning",
                "signal", "unlock", "done"}

TypeOK ==
  /\ main \in MainSteps /\ thread \in ThreadSteps
  /\ control \in Owners /\ enabled \in Owners
  /\ memory \in {"none", "allocated", "freed"}
  /\ arg \in Errors \union {Unset}
  /\ status \in Errors \union {Success, ThreadCreate, Unset}
  /\ joins \in 0..2
  /\ spurious \in BOOLEAN
  /\ Hook!TypeOK

Init ==
  /\ main = "lock" /\ thread = "none"
  /\ control = "free" /\ enabled = "free"
  /\ memory = "none" /\ arg = Unset /\ status = Unset
  /\ joins = 0 /\ spurious = FALSE
  /\ Hook!Init
-----------------------------------------------------------------------------
MainStep(from, to) == main = from /\ main' = to

ThreadStep(from, to) == thread = from /\ thread' = to

(* hook_enable()                                                           *)
EnableLock ==
  /\ MainStep("lock", "create")
  /\ control = "free" /\ control' = "main"
  /\ UNCHANGED <<thread, enabled, statusVars, joins, spurious, hookVars>>

EnableCreate ==
  /\ MainStep("create", "wait")
  /\ ThreadStep("none", "run")
  /\ memory' = "allocated"
  /\ UNCHANGED <<syncVars, arg, status, joins, spurious, hookVars>>

(* The status that was allocated for the thread stays allocated.           *)
EnableCreateFails ==
  /\ MainStep("create", "unlock")
  /\ memory' = "allocated" /\ status' = ThreadCreate
  /\ UNCHANGED <<thread, syncVars, arg, joins, spurious, hookVars>>

(* pthread_cond_wait() unlocks the mutex, whoever holds it by now ...      *)
EnableWait ==
  /\ MainStep("wait", "asleep")
  /\ control' = "free"
  /\ UNCHANGED <<thread, enabled, statusVars, joins, spurious, hookVars>>

EnableWakeup ==
  /\ SpuriousWakeups
  /\ MainStep("asleep", "awake")
  /\ spurious' = TRUE
  /\ UNCHANGED <<thread, syncVars, statusVars, joins, hookVars>>

(* ... and locks it again before it returns.                               *)
EnableRelock ==
  /\ MainStep("awake", "try")
  /\ control = "free" /\ control' = "main"
  /\ UNCHANGED <<thread, enabled, statusVars, joins, spurious, hookVars>>

(* The running mutex is free: the start is taken to have failed.  It is    *)
(* never unlocked again.                                                   *)
EnableTryLocks ==
  /\ MainStep("try", "join")
  /\ enabled = "free" /\ enabled' = "main"
  /\ UNCHANGED <<thread, control, statusVars, joins, spurious, hookVars>>

EnableTryFails ==
  /\ MainStep("try", "free")
  /\ enabled # "free"
  /\ status' = Success
  /\ UNCHANGED <<thread, syncVars, memory, arg, joins, spurious, hookVars>>

(* A thread whose hook ran and stopped has written no status: anything may *)
(* be read.                                                                *)
EnableJoin ==
  /\ MainStep("join", "free")
  /\ thread = "done" /\ joins' = joins + 1
  /\ status' \in IF arg = Unset THEN Errors \union {Success} ELSE {arg}
  /\ UNCHANGED <<thread, syncVars, memory, arg, spurious, hookVars>>

EnableFree ==
  /\ MainStep("free", "unlock")
  /\ memory' = "freed"
  /\ UNCHANGED <<thread, syncVars, arg, status, joins, spurious, hookVars>>

EnableUnlock ==
  /\ MainStep("unlock", "returned")
  /\ control' = "free"
  /\ UNCHANGED <<thread, enabled, statusVars, joins, spurious, hookVars>>

(* Mutant: main() does not wait for the thread.                            *)
MainJoinNever ==
  /\ MainStep("returned", "destroy")
  /\ UNCHANGED <<thread, syncVars, statusVars, joins, spurious, hookVars>>

(* main(): joins the thread after a success, also one joined already, and  *)
(* destroys the mutexes.                                                   *)
MainJoin ==
  /\ MainStep("returned", "destroy")
  /\ status = Success => thread = "done"
  /\ joins' = IF status = Success THEN joins + 1 ELSE joins
  /\ UNCHANGED <<thread, syncVars, statusVars, spurious, hookVars>>

MainDestroy ==
  /\ MainStep("destroy", "exit")
  /\ UNCHANGED <<thread, syncVars, statusVars, joins, spurious, hookVars>>
-----------------------------------------------------------------------------
(* pthread_cond_signal(): it is lost on a thread that does not wait yet.   *)
CondSignal == main' = IF main = "asleep" THEN "awake" ELSE main

(* Mutant: the thread takes the running mutex before it calls hook_run().  *)
ThreadRunLocks ==
  /\ ThreadStep("run", "starting")
  /\ Hook!Start
  /\ enabled = "free" /\ enabled' = "hook"
  /\ UNCHANGED <<main, control, statusVars, joins, spurious>>

(* hook_thread_proc()                                                      *)
ThreadRun ==
  /\ ThreadStep("run", "starting")
  /\ Hook!Start
  /\ UNCHANGED <<main, syncVars, statusVars, joins, spurious>>

ThreadRunFails ==
  /\ \/ ThreadStep("run", "failed") /\ Hook!FailFast
     \/ ThreadStep("starting", "failed") /\ Hook!Return
  /\ UNCHANGED <<main, syncVars, statusVars, joins, spurious>>

ThreadStatus ==
  /\ ThreadStep("failed", "signal")
  /\ arg' = ret
  /\ UNCHANGED <<main, syncVars, memory, status, joins, spurious, hookVars>>

(* Mutant: the end of a hook that ran is not signalled.                    *)
ThreadSignalsFailure ==
  /\ ThreadStep("signal", "unlock")
  /\ IF ret # Success THEN CondSignal ELSE UNCHANGED main
  /\ UNCHANGED <<syncVars, statusVars, joins, spurious, hookVars>>

ThreadSignal ==
  /\ ThreadStep("signal", "unlock")
  /\ CondSignal
  /\ UNCHANGED <<syncVars, statusVars, joins, spurious, hookVars>>

ThreadUnlock ==
  /\ ThreadStep("unlock", "done")
  /\ control' = "free"
  /\ UNCHANGED <<main, enabled, statusVars, joins, spurious, hookVars>>

(* dispatch_proc(), called by hook_run() for EVENT_HOOK_ENABLED, ...       *)
HookEnabled ==
  /\ ThreadStep("starting", "lockEnabled")
  /\ Hook!Enable
  /\ UNCHANGED <<main, syncVars, statusVars, joins, spurious>>

EnabledLock ==
  /\ ThreadStep("lockEnabled", "signalEnabled")
  /\ enabled = "free" /\ enabled' = "hook"
  /\ UNCHANGED <<main, control, statusVars, joins, spurious, hookVars>>

(* Mutant: hook_enable() is left to the signal at the end of the thread.   *)
EnabledSilent ==
  /\ ThreadStep("signalEnabled", "unlockControl")
  /\ UNCHANGED <<main, syncVars, statusVars, joins, spurious, hookVars>>

EnabledSignal ==
  /\ ThreadStep("signalEnabled", "unlockControl")
  /\ CondSignal
  /\ UNCHANGED <<syncVars, statusVars, joins, spurious, hookVars>>

EnabledUnlock ==
  /\ ThreadStep("unlockControl", "live")
  /\ control' = "free"
  /\ UNCHANGED <<main, enabled, statusVars, joins, spurious, hookVars>>

(* ... for input, ...                                                      *)
Input ==
  /\ thread = "live" /\ UNCHANGED thread
  /\ Hook!Input
  /\ UNCHANGED <<main, syncVars, statusVars, joins, spurious>>

(* VC_ESCAPE is pressed: hook_stop() signals the hook.                     *)
Escape ==
  /\ thread = "live" /\ fired = "input" /\ UNCHANGED thread
  /\ Hook!Signal
  /\ UNCHANGED <<main, syncVars, statusVars, joins, spurious>>

(* ... and for EVENT_HOOK_DISABLED.                                        *)
HookDisabled ==
  /\ ThreadStep("live", "lockControl")
  /\ Hook!Disable
  /\ UNCHANGED <<main, syncVars, statusVars, joins, spurious>>

DisabledLock ==
  /\ ThreadStep("lockControl", "unlockEnabled")
  /\ control = "free" /\ control' = "hook"
  /\ UNCHANGED <<main, enabled, statusVars, joins, spurious, hookVars>>

DisabledUnlock ==
  /\ ThreadStep("unlockEnabled", "returning")
  /\ enabled' = "free"
  /\ UNCHANGED <<main, control, statusVars, joins, spurious, hookVars>>

HookReturns ==
  /\ ThreadStep("returning", "signal")
  /\ Hook!Return
  /\ UNCHANGED <<main, syncVars, statusVars, joins, spurious>>
-----------------------------------------------------------------------------
Main ==
  \/ EnableLock \/ EnableCreate \/ EnableCreateFails \/ EnableWait \/ EnableRelock
  \/ EnableTryLocks \/ EnableTryFails \/ EnableJoin \/ EnableFree \/ EnableUnlock
  \/ MainJoin \/ MainDestroy

Thread ==
  \/ ThreadRun \/ ThreadRunFails \/ ThreadStatus \/ ThreadSignal \/ ThreadUnlock
  \/ HookEnabled \/ EnabledLock \/ EnabledSignal \/ EnabledUnlock
  \/ HookDisabled \/ DisabledLock \/ DisabledUnlock \/ HookReturns

Next == Main \/ Thread \/ Input \/ Escape \/ EnableWakeup

(* Both threads are scheduled, and a start of the hook settles one way or  *)
(* the other; nobody has to touch the keyboard, and no wait ends by itself.*)
Spec == Init /\ [][Next]_vars /\ WF_vars(Main) /\ WF_vars(Thread)
-----------------------------------------------------------------------------
Delivered == fired # "none"     \* EVENT_HOOK_ENABLED was delivered

(* When hook_enable() reports success because the running mutex is taken,  *)
(* EVENT_HOOK_ENABLED has been delivered, however the two threads were     *)
(* scheduled and whatever ended the wait.                                  *)
SuccessMeansEnabled == status = Success /\ joins = 0 => Delivered

(* Nothing is used after it is gone: the thread writes its status before   *)
(* hook_enable() frees it, and is done with the mutexes when main()        *)
(* destroys them, in every order of the steps and also after a wait that   *)
(* ended by itself.                                                        *)
NothingUsedAfterFree ==
  /\ thread = "failed" => memory = "allocated"
  /\ main \in {"join", "free"} => memory = "allocated"
  /\ main = "exit" => thread \in {"none", "done"}

(* A wait that began before the thread's first signal ends: hook_enable()  *)
(* returns whether the hook starts, fails or is stopped at once.           *)
WokenReturns ==
  main = "asleep" /\ thread \in {"run", "starting"} ~> main = "returned" \/ spurious

(* Escape ends the program once hook_enable() has begun to wait, even if   *)
(* it missed the signal of EVENT_HOOK_ENABLED or its wait ended by itself. *)
EscapeExits == signalled /\ main # "wait" ~> main = "exit"

(* The comment on the call of hook_enable(): if EVENT_HOOK_ENABLED was     *)
(* delivered, the status will always succeed.                              *)
EnabledMeansSuccess == main = "returned" /\ Delivered => status = Success

=============================================================================
