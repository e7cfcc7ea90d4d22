---------------------------- MODULE X11Lifecycle ----------------------------
(***************************************************************************)
(* hook_run() and hook_stop() of the X11 back end: the thread that runs    *)
(* the hook, the application threads and the dispatch callback that stop   *)
(* it, and the X server's record context between them.                     *)
(*                                                                         *)
(* hook_run() publishes the malloc'ed hook_info through the global `hook'  *)
(* before it fills it in, and hook_stop() reads it without a lock, so each *)
(* field carries what a concurrent reader can find in it: "junk" before    *)
(* the first assignment, a dangling "closed" or "freed" between a release  *)
(* and the assignment of NULL.  Using such a value is undefined: the model *)
(* lets the process die (`fault' names the culprit) or go on with any      *)
(* value the read could return.                                            *)
(***************************************************************************)
EXTENDS Naturals, Sequences

CONSTANTS
  External,     \* application threads that call hook_stop()
  Callback,     \* the dispatch callback, which calls it on the hook thread
  EarlyStop,    \* may External call hook_stop() before HOOK_ENABLED?
  MaxWire,      \* bound on the records in flight from the X server
  MaxRuns       \* bound on the calls of hook_run()

ASSUME StopperAssumption == Callback \notin External
ASSUME PolicyAssumption == EarlyStop \in BOOLEAN
ASSUME BoundAssumption == MaxWire \in Nat \ {0} /\ MaxRuns \in Nat \ {0}

Stopper == External \union {Callback}

VARIABLES
  pc,           \* control point of the hook thread
  hook,         \* the global pointer
  ctrlDisplay,  \* hook->ctrl.display
  ctrlContext,  \* hook->ctrl.context
  dataDisplay,  \* hook->data.display
  range,        \* hook->data.range is allocated
  contextRefs,  \* references held on xkb contexts
  stateRefs,    \* references held on xkb states
  helper,       \* what load_input_helper() set up
  status,       \* the status hook_run() is going to return, or returned
  fired,        \* the last event passed to dispatch_event() in this run
  dispatcher,   \* hook_set_dispatch_proc() has been given a callback
  rec,          \* the record context on the X server
  wire,         \* records on their way to the data display
  stop,         \* control point of each caller in hook_stop()
  reply,        \* what hook_stop() last returned to each caller
  fault,        \* undefined behaviour that killed the process
  runs          \* calls of hook_run() so far

runVars    == <<ctrlDisplay, ctrlContext, dataDisplay, range, contextRefs, stateRefs>>
serverVars == <<rec, wire>>
stopVars   == <<stop, reply>>
vars == <<pc, hook, runVars, helper, status, fired, dispatcher, serverVars,
          stopVars, fault, runs>>
-----------------------------------------------------------------------------
RunErrors == {"OUT_OF_MEMORY", "OPEN_DISPLAY", "RECORD_NOT_FOUND",
              "RECORD_ALLOC_RANGE", "RECORD_CREATE_CONTEXT",
              "RECORD_ENABLE_CONTEXT"}

StopReplies == {"SUCCESS", "FAILURE", "OUT_OF_MEMORY", "RECORD_GET_CONTEXT"}

(* Control points of hook_run(); "idle" is outside, "unloaded" is after    *)
(* the library's destructor has run.                                       *)
Idle == {"idle", "unloaded"}

RunPoints == {"open_ctrl", "open_data", "xkb", "query", "alloc_range",
              "create_context", "enable", "receive", "dispatch",
              "free_context", "free_range", "free_xkb", "close_data",
              "close_ctrl", "null_ctrl", "free_hook", "null_hook"}

StopPoints == {"idle", "display", "context", "query", "disable", "sync"}

HelperStates == [display : BOOLEAN, evdev : BOOLEAN,
                 keyboard_map : {"null", "live", "freed"},
                 mouse_button_map : {"null", "live"}]

TypeOK ==
  /\ pc \in RunPoints \union Idle
  /\ hook \in {"null", "live", "freed"}
  /\ ctrlDisplay \in {"junk", "null", "open", "closed"}
  /\ ctrlContext \in {"junk", "zero", "id"}
  /\ dataDisplay \in {"junk", "null", "open"}
  /\ range \in BOOLEAN
  /\ contextRefs \in Nat
  /\ stateRefs \in Nat
  /\ helper \in HelperStates
  /\ status \in RunErrors \union {"SUCCESS", "FAILURE"}
  /\ fired \in {"none", "enabled", "input", "disabled"}
  /\ dispatcher \in BOOLEAN
  /\ rec \in {"none", "created", "enabled", "disabled"}
  /\ wire \in Seq({"start", "input", "end"})
  /\ stop \in [Stopper -> StopPoints]
  /\ reply \in [Stopper -> StopReplies \union {"none"}]
  /\ fault \in {"none", "xkb", "helper", "unload", "stop", "callback_stop"}
  /\ runs \in 0..MaxRuns

(* on_library_load(): the helper display may fail to open.  `hook' is a    *)
(* zeroed static, so its fields do not exist yet.                          *)
Init ==
  /\ pc = "idle"
  /\ hook = "null"
  /\ ctrlDisplay = "null" /\ ctrlContext = "zero" /\ dataDisplay = "null"
  /\ range = FALSE
  /\ contextRefs = 0 /\ stateRefs = 0
  /\ \E opened \in BOOLEAN :
       helper = [display |-> opened, evdev |-> FALSE,
                 keyboard_map |-> "null", mouse_button_map |-> "null"]
  /\ status = "FAILURE"
  /\ fired = "none"
  /\ dispatcher = FALSE
  /\ rec = "none"
  /\ wire = <<>>
  /\ stop = [t \in Stopper |-> "idle"]
  /\ reply = [t \in Stopper |-> "none"]
  /\ fault = "none"
  /\ runs = 0

Alive == fault = "none"

(* The hook thread is at a control point, or goes from one to another.     *)
At(point) == Alive /\ pc = point

Goto(from, to) == At(from) /\ pc' = to

(* Undefined behaviour: the process dies and nothing else changes.         *)
Die(culprit) ==
  /\ fault' = culprit
  /\ UNCHANGED <<pc, hook, runVars, helper, status, fired, dispatcher,
                 serverVars, stopVars, runs>>
-----------------------------------------------------------------------------
(* hook_run().                                                             *)

(* malloc() leaves the displays and the context uninitialised.             *)
RunAlloc ==
  /\ runs < MaxRuns /\ runs' = runs + 1
  /\ Goto("idle", "open_ctrl")
  /\ hook' = "live"
  /\ ctrlDisplay' = "junk" /\ ctrlContext' = "junk" /\ dataDisplay' = "junk"
  /\ status' = "FAILURE"
  /\ fired' = "none"
  /\ UNCHANGED <<range, contextRefs, stateRefs, helper, dispatcher,
                 serverVars, stopVars, fault>>

RunOutOfMemory ==
  /\ At("idle") /\ runs < MaxRuns /\ runs' = runs + 1
  /\ hook' = "null"
  /\ status' = "OUT_OF_MEMORY"
  /\ fired' = "none"
  /\ UNCHANGED <<pc, runVars, helper, dispatcher, serverVars, stopVars, fault>>

OpenCtrl ==
  /\ Goto("open_ctrl", "open_data")
  /\ ctrlDisplay' \in {"open", "null"}
  /\ UNCHANGED <<hook, ctrlContext, dataDisplay, range, contextRefs, stateRefs,
                 helper, status, fired, dispatcher, serverVars, stopVars, fault, runs>>

(* Mutant: one display is taken to be enough.                              *)
OpenedEither(data) == ctrlDisplay = "open" \/ data = "open"

(* Both displays are needed.                                               *)
Opened(data) == ctrlDisplay = "open" /\ data = "open"

(* Mutant: trying again without end.                                       *)
OpenFailedRetries == pc' = "open_ctrl" /\ UNCHANGED status

(* Only the displays and the hook_info have to be undone.                  *)
OpenFailed == pc' = "close_data" /\ status' = "OPEN_DISPLAY"

OpenData ==
  /\ At("open_data")
  /\ dataDisplay' \in {"open", "null"}
  /\ IF Opened(dataDisplay')
     THEN pc' = "xkb" /\ UNCHANGED status
     ELSE OpenFailed
  /\ UNCHANGED <<hook, ctrlDisplay, ctrlContext, range, contextRefs, stateRefs,
                 helper, fired, dispatcher, serverVars, stopVars, fault, runs>>

(* The xkb context is created with one reference and given a second, and   *)
(* so is the state.  Without a context hook->input.context stays           *)
(* uninitialised; without a keyboard device xkb_state_ref(NULL) is called. *)
InitXkb ==
  /\ At("xkb")
  /\ \/ /\ Goto("xkb", "query")
        /\ contextRefs' = contextRefs + 2
        /\ stateRefs' = stateRefs + 2
        /\ UNCHANGED <<hook, ctrlDisplay, ctrlContext, dataDisplay, range, helper,
                       status, fired, dispatcher, serverVars, stopVars, fault, runs>>
     \/ Die("xkb")

(* Mutant: the error is not reported.                                      *)
MayFailUnnoticed(from, to, error, unwind) ==
  \/ Goto(from, to) /\ UNCHANGED status
  \/ Goto(from, unwind) /\ UNCHANGED status

(* One of the calls that may fail with nothing to undo: go on, or set the  *)
(* status and unwind.                                                      *)
MayFail(from, to, error, unwind) ==
  \/ Goto(from, to) /\ UNCHANGED status
  \/ Goto(from, unwind) /\ status' = error

QueryVersion ==
  /\ MayFail("query", "alloc_range", "RECORD_NOT_FOUND", "free_xkb")
  /\ UNCHANGED <<hook, runVars, helper, fired, dispatcher, serverVars, stopVars,
                 fault, runs>>

AllocRange ==
  /\ MayFail("alloc_range", "create_context", "RECORD_ALLOC_RANGE", "free_xkb")
  /\ range' = (pc' = "create_context")
  /\ UNCHANGED <<hook, ctrlDisplay, ctrlContext, dataDisplay, contextRefs, stateRefs,
                 helper, fired, dispatcher, serverVars, stopVars, fault, runs>>

CreateContext ==
  /\ MayFail("create_context", "enable", "RECORD_CREATE_CONTEXT", "free_range")
  /\ IF pc' = "enable"
     THEN ctrlContext' = "id" /\ rec' = "created"
     ELSE ctrlContext' = "zero" /\ UNCHANGED rec
  /\ UNCHANGED <<hook, ctrlDisplay, dataDisplay, range, contextRefs, stateRefs,
                 helper, fired, dispatcher, wire, stopVars, fault, runs>>

(* XRecordEnableContext() blocks until the context is disabled and calls   *)
(* hook_event_proc() for each record; the first one is StartOfData.        *)
EnableContext ==
  /\ MayFail("enable", "receive", "RECORD_ENABLE_CONTEXT", "free_context")
  /\ IF pc' = "receive"
     THEN rec' = "enabled" /\ wire' = <<"start">>
     ELSE UNCHANGED serverVars
  /\ UNCHANGED <<hook, runVars, helper, fired, dispatcher, stopVars, fault, runs>>

(* load_input_helper(): both allocations may fail, is_evdev is only ever   *)
(* set here.                                                               *)
LoadInputHelper ==
  \E map \in {"live", "null"}, buttons \in {"live", "null"}, evdev \in BOOLEAN :
     helper' = [helper EXCEPT !.keyboard_map = map, !.mouse_button_map = buttons,
                              !.evdev = @ \/ evdev]

(* unload_input_helper(): keyboard_map keeps pointing at what it freed.    *)
UnloadInputHelper ==
  helper' = IF helper.keyboard_map = "null"
            THEN [helper EXCEPT !.mouse_button_map = "null"]
            ELSE [helper EXCEPT !.mouse_button_map = "null",
                                !.keyboard_map = "freed", !.evdev = FALSE]

(* hook_event_proc() up to its call of dispatch_event().  The callback is  *)
(* entered only if a dispatcher is set.                                    *)
Fire(event) ==
  /\ fired' = event
  /\ wire' = Tail(wire)
  /\ pc' = "dispatch"
  /\ reply' = [reply EXCEPT ![Callback] = "none"]
  /\ UNCHANGED <<hook, runVars, status, dispatcher, rec, stop, fault, runs>>

StartOfData ==
  /\ At("receive") /\ wire # <<>> /\ Head(wire) = "start"
  /\ \/ helper.display /\ LoadInputHelper /\ Fire("enabled")
     \/ ~helper.display /\ Die("helper")

InputRecord ==
  /\ At("receive") /\ wire # <<>> /\ Head(wire) = "input"
  /\ Fire("input")
  /\ UNCHANGED helper

EndOfData ==
  /\ At("receive") /\ wire # <<>> /\ Head(wire) = "end"
  /\ Fire("disabled")
  /\ UNCHANGED helper

(* dispatch_event() returns to hook_event_proc(): after EndOfData the      *)
(* helper is unloaded and XRecordEnableContext() returns.                  *)
DispatchReturn ==
  /\ At("dispatch") /\ stop[Callback] = "idle"
  /\ IF fired = "disabled"
     THEN UnloadInputHelper /\ pc' = "free_context" /\ status' = "SUCCESS"
     ELSE pc' = "receive" /\ UNCHANGED <<helper, status>>
  /\ UNCHANGED <<hook, runVars, fired, dispatcher, serverVars, stopVars, fault, runs>>

(* Mutant: the server's context is not freed.                              *)
KeepContext ==
  /\ Goto("free_context", "free_range")
  /\ wire' = <<>>
  /\ UNCHANGED <<hook, runVars, helper, status, fired, dispatcher, rec, stopVars,
                 fault, runs>>

(* hook->ctrl.context keeps the id of the freed context.                   *)
FreeContext ==
  /\ Goto("free_context", "free_range")
  /\ rec' = "none"
  /\ wire' = <<>>
  /\ UNCHANGED <<hook, runVars, helper, status, fired, dispatcher, stopVars, fault, runs>>

FreeRange ==
  /\ Goto("free_range", "free_xkb")
  /\ range' = FALSE
  /\ UNCHANGED <<hook, ctrlDisplay, ctrlContext, dataDisplay, contextRefs, stateRefs,
                 helper, status, fired, dispatcher, serverVars, stopVars, fault, runs>>

FreeXkb ==
  /\ Goto("free_xkb", "close_data")
  /\ contextRefs' = contextRefs - 1
  /\ stateRefs' = stateRefs - 1
  /\ UNCHANGED <<hook, ctrlDisplay, ctrlContext, dataDisplay, range, helper, status,
                 fired, dispatcher, serverVars, stopVars, fault, runs>>

CloseData ==
  /\ Goto("close_data", "close_ctrl")
  /\ dataDisplay' = "null"
  /\ UNCHANGED <<hook, ctrlDisplay, ctrlContext, range, contextRefs, stateRefs,
                 helper, status, fired, dispatcher, serverVars, stopVars, fault, runs>>

CloseCtrl ==
  /\ At("close_ctrl")
  /\ IF ctrlDisplay = "null"
     THEN pc' = "free_hook" /\ UNCHANGED ctrlDisplay
     ELSE pc' = "null_ctrl" /\ ctrlDisplay' = "closed"
  /\ UNCHANGED <<hook, ctrlContext, dataDisplay, range, contextRefs, stateRefs,
                 helper, status, fired, dispatcher, serverVars, stopVars, fault, runs>>

NullCtrl ==
  /\ Goto("null_ctrl", "free_hook")
  /\ ctrlDisplay' = "null"
  /\ UNCHANGED <<hook, ctrlContext, dataDisplay, range, contextRefs, stateRefs,
                 helper, status, fired, dispatcher, serverVars, stopVars, fault, runs>>

FreeHook ==
  /\ Goto("free_hook", "null_hook")
  /\ hook' = "freed"
  /\ UNCHANGED <<runVars, helper, status, fired, dispatcher, serverVars, stopVars,
                 fault, runs>>

NullHook ==
  /\ Goto("null_hook", "idle")
  /\ hook' = "null"
  /\ UNCHANGED <<runVars, helper, status, fired, dispatcher, serverVars, stopVars,
                 fault, runs>>
-----------------------------------------------------------------------------
(* hook_stop(), called by thread t.                                        *)

Culprit(t) == IF t = Callback THEN "callback_stop" ELSE "stop"

(* hook->ctrl.display is an open connection.                               *)
CtrlUsable == hook = "live" /\ ctrlDisplay = "open"

(* ... and hook->ctrl.context names a context the server knows.            *)
ContextUsable == CtrlUsable /\ ctrlContext = "id" /\ rec # "none"

StopAt(t, point) == Alive /\ stop[t] = point

StopGoto(t, to) ==
  /\ stop' = [stop EXCEPT ![t] = to]
  /\ UNCHANGED <<pc, hook, runVars, helper, status, fired, dispatcher, reply, fault, runs>>

StopReturn(t, result) ==
  /\ stop' = [stop EXCEPT ![t] = "idle"]
  /\ reply' = [reply EXCEPT ![t] = result]
  /\ UNCHANGED <<pc, hook, runVars, helper, status, fired, dispatcher, serverVars,
                 fault, runs>>

(* The callback calls hook_stop() at most once for each event; the other   *)
(* threads call it at any time, or once they have seen HOOK_ENABLED.       *)
MayCall(t) ==
  IF t = Callback
  THEN pc = "dispatch" /\ dispatcher /\ reply[Callback] = "none"
  ELSE pc # "unloaded" /\ (EarlyStop \/ fired # "none")

StopCall(t) ==
  /\ StopAt(t, "idle") /\ MayCall(t)
  /\ IF hook = "null"
     THEN StopReturn(t, "FAILURE")
     ELSE StopGoto(t, "display") /\ UNCHANGED serverVars

(* The test of one field of hook_info, through a pointer that may be stale *)
(* by now: a NULL pointer kills the process, freed memory holds anything.  *)
StopTest(t, from, field, zero, to) ==
  /\ StopAt(t, from)
  /\ \/ /\ hook = "freed" \/ (hook = "live" /\ field # zero)
        /\ StopGoto(t, to) /\ UNCHANGED serverVars
     \/ /\ hook = "freed" \/ (hook = "live" /\ field \in {zero, "junk"})
        /\ StopReturn(t, "FAILURE")
     \/ hook # "live" /\ Die(Culprit(t))

StopDisplay(t) == StopTest(t, "display", ctrlDisplay, "null", "context")

StopContext(t) == StopTest(t, "context", ctrlContext, "zero", "query")

(* XRecordGetContext(): a context the server does not know is an X error,  *)
(* which the default error handler answers with exit().                    *)
StopQuery(t) ==
  /\ StopAt(t, "query")
  /\ \/ StopReturn(t, "OUT_OF_MEMORY")
     \/ /\ ContextUsable /\ rec = "enabled"
        /\ StopGoto(t, "disable") /\ UNCHANGED serverVars
     \/ ContextUsable /\ rec # "enabled" /\ StopReturn(t, "FAILURE")
     \/ ~ContextUsable /\ StopReturn(t, "RECORD_GET_CONTEXT")
     \/ ~ContextUsable /\ Die(Culprit(t))

(* Mutant: without XSync() the request stays in the output buffer.         *)
DisableUnsent == UNCHANGED serverVars

(* XRecordDisableContext() and the request half of XSync(), which sends    *)
(* it.  The server answers with EndOfData behind the records it has sent.  *)
DisableContext ==
  IF ContextUsable /\ rec = "enabled"
  THEN rec' = "disabled" /\ wire' = Append(wire, "end")
  ELSE UNCHANGED serverVars

StopDisable(t) ==
  /\ StopAt(t, "disable")
  /\ \/ StopGoto(t, "sync") /\ DisableContext
     \/ ~ContextUsable /\ Die(Culprit(t))

(* The reply half of XSync(hook->ctrl.display).                            *)
StopSync(t) ==
  /\ StopAt(t, "sync")
  /\ \/ StopReturn(t, "SUCCESS")
     \/ ~CtrlUsable /\ Die(Culprit(t))
-----------------------------------------------------------------------------
(* The X server records an input event.                                    *)
ServerInput ==
  /\ Alive /\ rec = "enabled" /\ Len(wire) < MaxWire
  /\ wire' = Append(wire, "input")
  /\ UNCHANGED <<pc, hook, runVars, helper, status, fired, dispatcher, rec, stopVars,
                 fault, runs>>

(* hook_set_dispatch_proc() sets or clears the callback at any time.       *)
SetDispatchProc ==
  /\ Alive /\ pc # "unloaded"
  /\ dispatcher' = ~dispatcher
  /\ UNCHANGED <<pc, hook, runVars, helper, status, fired, serverVars, stopVars,
                 fault, runs>>

(* on_library_unload() unloads the helper once more.                       *)
LibraryUnload ==
  /\ At("idle") /\ \A t \in Stopper : stop[t] = "idle"
  /\ \/ /\ helper.keyboard_map # "freed"
        /\ UnloadInputHelper
        /\ pc' = "unloaded"
        /\ UNCHANGED <<hook, runVars, status, fired, dispatcher, serverVars, stopVars,
                       fault, runs>>
     \/ helper.keyboard_map = "freed" /\ Die("unload")

HookRun ==
  \/ RunAlloc \/ RunOutOfMemory \/ OpenCtrl \/ OpenData \/ InitXkb \/ QueryVersion
  \/ AllocRange \/ CreateContext \/ EnableContext \/ StartOfData \/ InputRecord
  \/ EndOfData \/ DispatchReturn \/ FreeContext \/ FreeRange \/ FreeXkb \/ CloseData
  \/ CloseCtrl \/ NullCtrl \/ FreeHook \/ NullHook

HookStop(t) ==
  \/ StopCall(t) \/ StopDisplay(t) \/ StopContext(t) \/ StopQuery(t)
  \/ StopDisable(t) \/ StopSync(t)

Next ==
  \/ HookRun
  \/ \E t \in Stopper : HookStop(t)
  \/ ServerInput
  \/ SetDispatchProc
  \/ LibraryUnload

(* The hook thread keeps running once started, and the callback returns.   *)
(* Nobody is obliged to call hook_run() or hook_stop(), to type, or to     *)
(* unload the library.                                                     *)
HookThreadStep ==
  \/ HookRun /\ pc # "idle"
  \/ HookStop(Callback) /\ stop[Callback] # "idle"

Safety == Init /\ [][Next]_vars

Spec == Safety /\ WF_vars(HookThreadStep)
-----------------------------------------------------------------------------
Running == pc \notin Idle

Contract ==
  INSTANCE UioHook WITH
    Success   <- "SUCCESS",
    Errors    <- RunErrors,
    alive     <- Alive,
    running   <- Running,
    fired     <- fired,
    signalled <- Running /\ (rec = "disabled" \/ fired = "disabled"),
    ret       <- IF Running \/ status = "FAILURE" THEN "pending" ELSE status

(* Every run of hook_run() and hook_stop() on X11 is one the contract      *)
(* allows: HOOK_ENABLED, input and HOOK_DISABLED in this order, success    *)
(* exactly when they were fired, disabled only by a hook_stop(), and a     *)
(* signalled hook winds down.                                              *)
ImplementsContract == Contract!Spec

(* hook_stop() called from the dispatch callback is never lost: when it    *)
(* has answered the context is disabled (by it or by another thread), or   *)
(* it has said that it ran out of memory.                                  *)
CallbackStopNotLost ==
  pc = "dispatch" /\ reply[Callback] # "none" =>
     \/ reply[Callback] = "OUT_OF_MEMORY"
     \/ reply[Callback] \in {"SUCCESS", "FAILURE"} /\ rec = "disabled"

(* hook_stop() on the hook thread never meets a stale pointer, whatever    *)
(* other threads do to the hook at the same time.                          *)
CallbackStopSafe ==
  /\ fault # "callback_stop"
  /\ stop[Callback] # "idle" => CtrlUsable
  /\ stop[Callback] \in {"query", "disable"} => ContextUsable

(* Between two calls hook_run() holds nothing: not the hook_info, neither  *)
(* display, no range, and no context on the server.                        *)
NothingHeldAtReturn ==
  pc \in Idle =>
     /\ hook = "null"
     /\ ctrlDisplay = "null" /\ dataDisplay = "null"
     /\ ~range
     /\ rec = "none" /\ wire = <<>>

(* The input helper lives exactly as long as the event stream: nothing is  *)
(* dispatched or translated with a freed keyboard map, in the first run or *)
(* in a later one, and the button map is not kept after HOOK_DISABLED.     *)
HelperSpansStream ==
  /\ pc \in {"receive", "dispatch"} /\ fired # "none" =>
       helper.keyboard_map # "freed"
  /\ pc \notin {"receive", "dispatch"} => helper.mouse_button_map = "null"

(* hook_run() does not hang in its start: it gets as far as HOOK_ENABLED,  *)
(* or it comes back with an error, or the process dies.                    *)
StartSettles ==
  pc = "open_ctrl" ~> (fired = "enabled" \/ pc = "idle" \/ fault # "none")
-----------------------------------------------------------------------------
(* hook_stop() uses the hook only while it is there.  The comment in       *)
(* hook_stop() says "We need to make sure the context is still valid."     *)
StopUsesLiveHook == fault # "stop"

=============================================================================
