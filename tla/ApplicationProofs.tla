------------------------- MODULE ApplicationProofs --------------------------
(***************************************************************************)
(* Proofs about what the threads of an application do with the library:    *)
(* run the hook on a thread of its own (DemoAsync), for every set of       *)
(* errors, with and without waits that end by themselves; and post events  *)
(* (Post), for any threads, keys, buttons and events.                      *)
(***************************************************************************)
EXTENDS DemoAsync, Post, TLAPS
-----------------------------------------------------------------------------
(* The demo's hook_enable().                                               *)

Waiting == {"wait", "asleep", "awake", "try"}
Settled == {"free", "unlock", "returned"}
Over == {"destroy", "exit"}
Young == {"none", "run", "starting", "failed"}
InHook == {"lockEnabled", "signalEnabled", "unlockControl", "live", "lockControl",
           "unlockEnabled", "returning"}
Absent == {"none", "done"}

(* Up to a failed start nothing was fired, and in between hook_run() has   *)
(* fired HOOK_ENABLED.                                                     *)
FiredInv ==
  /\ thread \in Young => fired = "none"
  /\ thread \in InHook => fired # "none"

(* The hook takes the running mutex in HOOK_ENABLED, and hook_enable() as  *)
(* it finds that it is free.                                               *)
EnabledInv ==
  /\ enabled = "hook" => fired # "none"
  /\ enabled = "main" => main \in {"join"} \union Settled \union Over

(* What is there while hook_enable() has a thread.                         *)
MemoryInv ==
  /\ main \in {"lock", "create"} => thread = "none"
  /\ main \in Waiting \union {"join", "free"} => memory = "allocated"

(* Once hook_enable() has decided, either it was for success, because      *)
(* HOOK_ENABLED was delivered, or there is no thread any more.             *)
DecidedInv ==
  /\ main \in Settled => thread \in Absent \/ (status = Success /\ fired # "none")
  /\ main \in Over => thread \in Absent

(* A status that is success before anybody was joined was concluded.       *)
StatusInv ==
  /\ main \in {"lock", "create", "join"} \union Waiting => status = Unset
  /\ status = Success /\ joins = 0 => fired # "none"

JoinsInv ==
  /\ joins \in 0..2
  /\ main \in {"lock", "create", "join"} \union Waiting => joins = 0
  /\ main \in Settled => joins \in 0..1

(* A hook_run() that failed returned an error.                             *)
ReturnInv == thread = "failed" => ret \in Errors

IInv ==
  /\ TypeOK /\ FiredInv /\ EnabledInv /\ MemoryInv /\ DecidedInv /\ StatusInv /\ JoinsInv
  /\ ReturnInv

LEMMA InvInit == Init => IInv
<1> SUFFICES ASSUME Init PROVE IInv  OBVIOUS
<1> USE DEF Init
<1>1. Hook!TypeOK  BY DEF Hook!Init, Hook!TypeOK, Hook!Fired, Hook!Pending
<1>2. spurious \in BOOLEAN  OBVIOUS
<1>3. TypeOK  BY <1>1, <1>2 DEF TypeOK, MainSteps, ThreadSteps, Owners
<1>4. fired = "none"  BY DEF Hook!Init
<1>5. FiredInv /\ EnabledInv /\ MemoryInv /\ DecidedInv
  BY <1>4 DEF FiredInv, EnabledInv, MemoryInv, DecidedInv, Waiting, Settled, Over, Young, InHook
<1>6. StatusInv /\ JoinsInv /\ ReturnInv
  BY StatusAssumption DEF StatusInv, JoinsInv, ReturnInv, Settled
<1> QED  BY <1>3, <1>5, <1>6 DEF IInv

LEMMA InvStep == IInv /\ [Next]_vars => IInv'
<1> SUFFICES ASSUME IInv, [Next]_vars PROVE IInv'  OBVIOUS
<1> USE DEF IInv, TypeOK, Hook!TypeOK, Hook!Fired, Hook!Pending, MainSteps, ThreadSteps, Owners,
            FiredInv, EnabledInv, MemoryInv, DecidedInv, StatusInv, JoinsInv, ReturnInv, Waiting,
            Settled, Over, Young, InHook, Absent, MainStep, ThreadStep, syncVars, statusVars,
            hookVars
<1>1. CASE EnableLock
  BY <1>1, StatusAssumption DEF EnableLock
<1>2. CASE EnableCreate
  BY <1>2, StatusAssumption DEF EnableCreate
<1>3. CASE EnableCreateFails
  BY <1>3, StatusAssumption DEF EnableCreateFails
<1>4. CASE EnableWait
  BY <1>4, StatusAssumption DEF EnableWait
<1>5. CASE EnableWakeup
  BY <1>5, StatusAssumption DEF EnableWakeup
<1>6. CASE EnableRelock
  BY <1>6, StatusAssumption DEF EnableRelock
<1>7. CASE EnableTryLocks
  BY <1>7, StatusAssumption DEF EnableTryLocks
<1>8. CASE EnableTryFails
  BY <1>8, StatusAssumption DEF EnableTryFails
<1>9. CASE EnableJoin
  BY <1>9, StatusAssumption DEF EnableJoin
<1>10. CASE EnableFree
  BY <1>10, StatusAssumption DEF EnableFree
<1>11. CASE EnableUnlock
  BY <1>11, StatusAssumption DEF EnableUnlock
<1>12. CASE MainJoin
  BY <1>12, StatusAssumption DEF MainJoin
<1>13. CASE MainDestroy
  BY <1>13, StatusAssumption DEF MainDestroy
<1>14. CASE ThreadRun
  BY <1>14, StatusAssumption DEF ThreadRun, Hook!Start
<1>15. CASE ThreadRunFails
  <2>1. running' \in BOOLEAN /\ signalled' \in BOOLEAN
    BY <1>15 DEF ThreadRunFails, Hook!FailFast, Hook!Return
  <2>2. thread \in {"run", "starting"} /\ thread' = "failed"  BY <1>15 DEF ThreadRunFails
  <2>3. fired = "none"  BY <2>2
  <2>4. ret' \in Errors /\ fired' = "none" /\ UNCHANGED alive
    BY <1>15, <2>3 DEF ThreadRunFails, Hook!FailFast, Hook!Return
  <2> QED  BY <1>15, <2>1, <2>2, <2>3, <2>4 DEF ThreadRunFails
<1>16. CASE ThreadStatus
  BY <1>16, StatusAssumption DEF ThreadStatus
<1>17. CASE ThreadSignal
  BY <1>17, StatusAssumption DEF ThreadSignal, CondSignal
<1>18. CASE ThreadUnlock
  BY <1>18, StatusAssumption DEF ThreadUnlock
<1>19. CASE HookEnabled
  BY <1>19, StatusAssumption DEF HookEnabled, Hook!Enable
<1>20. CASE EnabledLock
  BY <1>20, StatusAssumption DEF EnabledLock
<1>21. CASE EnabledSignal
  BY <1>21, StatusAssumption DEF EnabledSignal, CondSignal
<1>22. CASE EnabledUnlock
  BY <1>22, StatusAssumption DEF EnabledUnlock
<1>23. CASE Input
  BY <1>23, StatusAssumption DEF Input, Hook!Input
<1>24. CASE Escape
  BY <1>24, StatusAssumption DEF Escape, Hook!Signal
<1>25. CASE HookDisabled
  BY <1>25, StatusAssumption DEF HookDisabled, Hook!Disable
<1>26. CASE DisabledLock
  BY <1>26, StatusAssumption DEF DisabledLock
<1>27. CASE DisabledUnlock
  BY <1>27, StatusAssumption DEF DisabledUnlock
<1>28. CASE HookReturns
  <2>1. running' \in BOOLEAN /\ signalled' \in BOOLEAN  BY <1>28 DEF HookReturns, Hook!Return
  <2>2. ret' \in Errors \union {Success}  BY <1>28 DEF HookReturns, Hook!Return
  <2>3. UNCHANGED <<alive, fired>>  BY <1>28 DEF HookReturns, Hook!Return
  <2> QED  BY <1>28, <2>1, <2>2, <2>3 DEF HookReturns
<1>29. CASE UNCHANGED vars
  BY <1>29 DEF vars
<1> QED
  BY <1>1, <1>2, <1>3, <1>4, <1>5, <1>6, <1>7, <1>8, <1>9, <1>10, <1>11, <1>12, <1>13, <1>14, <1>15, <1>16, <1>17, <1>18, <1>19, <1>20, <1>21, <1>22, <1>23, <1>24, <1>25, <1>26, <1>27, <1>28, <1>29
  DEF Next, Main, Thread

LEMMA Inductive == Spec => []IInv
BY InvInit, InvStep, PTL DEF Spec

(* Type correctness of the demo: among others, the thread is joined at     *)
(* most twice.                                                             *)
THEOREM TypeCorrect == Spec => []TypeOK
<1>1. IInv => TypeOK  BY DEF IInv
<1> QED  BY <1>1, Inductive, PTL

(* hook_enable() reports success from the running mutex only if            *)
(* EVENT_HOOK_ENABLED was delivered, in every schedule.                    *)
THEOREM SuccessIsEnabled == Spec => []SuccessMeansEnabled
<1>1. IInv => SuccessMeansEnabled  BY DEF IInv, StatusInv, SuccessMeansEnabled, Delivered
<1> QED  BY <1>1, Inductive, PTL

(* The status the thread is given and the mutexes outlive its use of them, *)
(* in every schedule and though waits may end by themselves.               *)
THEOREM NothingIsUsedAfterFree == Spec => []NothingUsedAfterFree
<1>1. IInv => NothingUsedAfterFree
  BY DEF IInv, TypeOK, MainSteps, FiredInv, MemoryInv, DecidedInv, NothingUsedAfterFree, Waiting,
         Settled, Over, Young, Absent
<1> QED  BY <1>1, Inductive, PTL
-----------------------------------------------------------------------------
(* hook_post_event(), X11.                                                 *)

(* Where a thread may be in hook_post_event().                             *)
X11Steps == {"idle", "lock", "key", "motion", "move", "button", "map", "mapping", "reading",
             "wheel", "wheeled", "sync", "fault"}

(* The threads and what they have passed, on X11.                          *)
X11TypeInv ==
  /\ pc \in [Threads -> X11Steps]
  /\ event \in [Threads -> Events \union {NoEvent}]
  /\ button = [t \in Threads |-> button[t]]
  /\ table \in [Keys -> BOOLEAN]
  /\ is_evdev \in BOOLEAN
  /\ mouse_button_map \in {"NULL", "blank", "filled", "freed"}
  /\ \A t \in Threads : pc[t] # "idle" => event[t] \in Events
  /\ \A t \in Threads : pc[t] = "key" => event[t].type \in KeyTypes
  /\ \A t \in Threads : pc[t] \in {"motion", "button"} => event[t].type \in ButtonTypes
  /\ \A t \in Threads : pc[t] = "map" => event[t].type = "MOUSE_WHEEL"

(* Only the holder of the display's lock is between XLockDisplay() and     *)
(* XUnlockDisplay().                                                       *)
LockInv == \A t \in Threads : pc[t] \notin {"idle", "lock"} => lock = t

(* The pointer is where the holder moved it.                               *)
PositionInv ==
  /\ \A t \in Threads : pc[t] = "button" => pos = event[t].at
  /\ click.found = click.asked

(* The map is freed only within unload_input_helper(), which ends with the *)
(* pointer NULL; a post that found a map otherwise still has it.           *)
MapInv ==
  /\ hook = "off" => mouse_button_map = "NULL"
  /\ hook = "freeing" <=> mouse_button_map = "freed"
  /\ X11!MapIsLive

X11Inv == X11TypeInv /\ LockInv /\ PositionInv /\ MapInv

LEMMA X11Init == BackEndInit => X11Inv
<1> SUFFICES ASSUME BackEndInit PROVE X11Inv  OBVIOUS
<1> USE DEF BackEndInit, X11!Init, X11!PostInit, X11!NoEvent, X11!NoClick
<1>0. \A t \in Threads : pc[t] = "idle" /\ event[t] = NoEvent  BY DEF NoEvent
<1>1. X11TypeInv
  <2>1. \A t \in Threads : ~(pc[t] # "idle") /\ ~(pc[t] = "key") /\ ~(pc[t] \in {"motion", "button"})
                          /\ ~(pc[t] = "map")
    BY <1>0
  <2>2. event \in [Threads -> Events \union {NoEvent}]  BY DEF NoEvent
  <2>3. pc \in [Threads -> X11Steps]  BY DEF X11Steps
  <2>4. button = [t \in Threads |-> button[t]] /\ table \in [Keys -> BOOLEAN]  OBVIOUS
  <2>5. is_evdev \in BOOLEAN /\ mouse_button_map = "NULL"  OBVIOUS
  <2> HIDE DEF BackEndInit
  <2> QED  BY <2>1, <2>2, <2>3, <2>4, <2>5 DEF X11TypeInv
<1>2. LockInv /\ PositionInv  BY DEF LockInv, PositionInv
<1>3. MapInv  BY DEF MapInv, X11!MapIsLive
<1> QED  BY <1>1, <1>2, <1>3 DEF X11Inv

LEMMA EventFields ==
  ASSUME NEW e \in Events
  PROVE  /\ e.type \in KeyTypes => e.key \in Keys
         /\ e.type \in ButtonTypes => e.button \in Buttons /\ e.at \in Points
         /\ e.type = "MOUSE_MOVED" => e.at \in Points
         /\ e.type = "MOUSE_WHEEL" => e.up \in BOOLEAN
BY DEF Events, KeyTypes, ButtonTypes


LEMMA X11TypeStep ==
  ASSUME X11TypeInv, NEW t \in Threads, X11!PostStep(t)
  PROVE  X11TypeInv'
<1> USE DEF X11TypeInv, X11Steps, X11!Goto, X11!helperVars, X11!lookupVars, X11!mapHistory,
            X11!historyVars,
            X11!systemVars, X11!x11Vars
<1>e. event[t] \in Events \/ pc[t] = "idle"  OBVIOUS
<1>1. CASE X11!LockDisplay(t)
  <2> USE <1>1 DEF X11!LockDisplay
  <2>1. event[t] \in Events  OBVIOUS
  <2>2. X11!FirstStep(event[t]) \in {"key", "motion", "move", "map", "sync"}
    BY DEF X11!FirstStep
  <2>3. /\ X11!FirstStep(event[t]) = "key" => event[t].type \in KeyTypes
        /\ X11!FirstStep(event[t]) = "motion" => event[t].type \in ButtonTypes
        /\ X11!FirstStep(event[t]) = "map" => event[t].type = "MOUSE_WHEEL"
    BY <2>1 DEF X11!FirstStep, KeyTypes, ButtonTypes, X11!KeyTypes, X11!ButtonTypes
  <2> QED  BY <2>1, <2>2, <2>3
<1>2. CASE X11!PostKeyEvent(t)
  <2> USE <1>2 DEF X11!PostKeyEvent
  <2>1. table' \in [Keys -> BOOLEAN]  OBVIOUS
  <2>2. pc' = [pc EXCEPT ![t] = "sync"]  OBVIOUS
  <2>3. UNCHANGED <<event, button, is_evdev, mouse_button_map>>  OBVIOUS
  <2> QED  BY <2>1, <2>2, <2>3
<1>3. CASE X11!PostMotion(t)  BY <1>3 DEF X11!PostMotion
<1>4. CASE X11!PostButton(t)  BY <1>4 DEF X11!PostButton
<1>5. CASE X11!LookupMap(t)  BY <1>5 DEF X11!LookupMap, X11!WheelUp, X11!WheelDown
<1>6. CASE X11!FillMap(t)  BY <1>6 DEF X11!FillMap
<1>7. CASE X11!ReadMap(t)  BY <1>7 DEF X11!ReadMap
<1>8. CASE X11!PressWheel(t)  BY <1>8 DEF X11!PressWheel
<1>9. CASE X11!ReleaseWheel(t)  BY <1>9 DEF X11!ReleaseWheel
<1>10. CASE X11!Sync(t)  BY <1>10 DEF X11!Sync, X11!Return, X11!NoEvent, NoEvent
<1> QED  BY <1>1, <1>2, <1>3, <1>4, <1>5, <1>6, <1>7, <1>8, <1>9, <1>10 DEF X11!PostStep

LEMMA X11LockStep ==
  ASSUME X11TypeInv, LockInv, PositionInv, MapInv, NEW t \in Threads, X11!PostStep(t)
  PROVE  LockInv' /\ PositionInv' /\ MapInv'
<1> USE ThreadsAssumption
    DEF X11TypeInv, X11Steps, X11!Goto, X11!helperVars, X11!lookupVars, X11!mapHistory,
        X11!historyVars,
        X11!systemVars, X11!x11Vars, LockInv, PositionInv, MapInv, X11!MapIsLive
<1>1. CASE X11!LockDisplay(t)
  <2> USE <1>1 DEF X11!LockDisplay
  <2>1. X11!FirstStep(event[t]) \in {"key", "motion", "move", "map", "sync"}
    BY DEF X11!FirstStep
  <2>2. \A u \in Threads : pc[u] \in {"idle", "lock"}  BY DEF X11!None
  <2> QED  BY <2>1, <2>2
<1>2. CASE X11!PostKeyEvent(t)
  <2> USE <1>2 DEF X11!PostKeyEvent
  <2>1. pos' = pos  BY DEF X11!Refuse, X11!Take
  <2>2. click' = click
    BY DEF X11!Refuse, X11!Take, KeyTypes, X11!ButtonTypes
  <2>3. pc' = [pc EXCEPT ![t] = "sync"]  OBVIOUS
  <2>4. UNCHANGED <<event, lock, hook, caught, mouse_button_map>>  OBVIOUS
  <2> QED  BY <2>1, <2>2, <2>3, <2>4
<1>3. CASE X11!PostMotion(t)
  <2> USE <1>3 DEF X11!PostMotion
  <2>1. \A u \in Threads : pc[u] = "button" => u = t  OBVIOUS
  <2> QED  BY <2>1
<1>4. CASE X11!PostButton(t)
  <2> USE <1>4 DEF X11!PostButton
  <2>1. pos' = pos  BY DEF X11!Refuse, X11!Take, X11!PressButton
  <2>2. click' = click \/ click' = [asked |-> event[t].at, found |-> pos]
    BY DEF X11!Refuse, X11!Take, X11!PressButton
  <2>3. click'.found = click'.asked  BY <2>2
  <2>4. pc' = [pc EXCEPT ![t] = "sync"]  OBVIOUS
  <2>5. UNCHANGED <<event, lock, hook, caught, mouse_button_map>>  OBVIOUS
  <2> QED  BY <2>1, <2>3, <2>4, <2>5
<1>5. CASE X11!LookupMap(t)  BY <1>5 DEF X11!LookupMap
<1>6. CASE X11!FillMap(t)  BY <1>6 DEF X11!FillMap
<1>7. CASE X11!ReadMap(t)  BY <1>7 DEF X11!ReadMap
<1>8. CASE X11!PressWheel(t)  BY <1>8 DEF X11!PressWheel
<1>9. CASE X11!ReleaseWheel(t)  BY <1>9 DEF X11!ReleaseWheel
<1>10. CASE X11!Sync(t)  BY <1>10 DEF X11!Sync, X11!Return
<1> QED  BY <1>1, <1>2, <1>3, <1>4, <1>5, <1>6, <1>7, <1>8, <1>9, <1>10 DEF X11!PostStep

LEMMA X11CallStep ==
  ASSUME X11Inv, NEW t \in Threads, NEW e \in X11Events, X11!HookPostEvent(t, e)
  PROVE  X11Inv'
<1> USE GivenAssumption, ThreadsAssumption
    DEF X11!HookPostEvent, X11!helperVars, X11!lookupVars, X11!mapHistory, X11!x11Vars,
        X11!systemVars,
        X11!historyVars, X11Inv
<1>1. CASE X11!Call(t, e, "lock")
  <2>1. pc[t] = "idle" /\ pc' = [pc EXCEPT ![t] = "lock"] /\ event' = [event EXCEPT ![t] = e]
    BY <1>1 DEF X11!Call, X11!Goto
  <2>2. UNCHANGED <<pos, click, lock, hook, caught, mouse_button_map, button, table, is_evdev>>
    OBVIOUS
  <2>4. e \in Events  OBVIOUS
  <2> HIDE DEF X11!HookPostEvent
  <2>5. X11TypeInv'  BY <2>1, <2>2, <2>4 DEF X11TypeInv, X11Steps
  <2>6. LockInv' /\ PositionInv' /\ MapInv'
    BY <2>1, <2>2 DEF X11TypeInv, LockInv, PositionInv, MapInv, X11!MapIsLive
  <2> QED  BY <2>5, <2>6
<1>2. CASE X11!CallReturns(t)
  <2>1. UNCHANGED <<pc, event>>  BY <1>2 DEF X11!CallReturns
  <2> QED  BY <2>1 DEF X11TypeInv, LockInv, PositionInv, MapInv, X11!MapIsLive
<1> QED  BY <1>1, <1>2

LEMMA X11HelperStep ==
  ASSUME X11Inv, X11!Helper
  PROVE  X11Inv'
<1> USE ThreadsAssumption
    DEF X11Inv, X11TypeInv, X11Steps, LockInv, PositionInv, MapInv, X11!MapIsLive, X11!postVars,
        X11!lookupVars, X11!mapHistory
<1>1. CASE X11!LoadMap  BY <1>1 DEF X11!LoadMap
<1>2. CASE X11!AskKeyboard  BY <1>2 DEF X11!AskKeyboard
<1>3. CASE X11!SetEvdev  BY <1>3 DEF X11!SetEvdev
<1>4. CASE X11!LoadKeyboard  BY <1>4 DEF X11!LoadKeyboard
<1>5. CASE X11!UnloadKeyboard  BY <1>5 DEF X11!UnloadKeyboard
<1>6. CASE X11!FreeMap  BY <1>6 DEF X11!FreeMap
<1>7. CASE X11!ClearMap  BY <1>7 DEF X11!ClearMap
<1> QED  BY <1>1, <1>2, <1>3, <1>4, <1>5, <1>6, <1>7 DEF X11!Helper
-----------------------------------------------------------------------------
(* Keys that are posted have codes of their own, whichever table is used.  *)
X11OwnCodes ==
  \A k, j \in Keys, a, b \in BOOLEAN :
    X11Keycode[a][k] # 0 /\ X11Keycode[a][k] = X11Keycode[b][j] => k = j

(* The user has not mapped the wheel to one of the first three buttons.    *)
WheelIsMapped == \A n \in {4, 5} : PointerMap[n] \notin 1..3

(* A key is down by the code of the table it was posted with.              *)
KeysHeld ==
  \A k \in Keys \ split :
    /\ \A a \in BOOLEAN :
         X11Keycode[a][k] # 0 /\ Key(X11Keycode[a][k]) \in down
           => Key(k) \in posted /\ X11Keycode[a][k] = X11Keycode[table[k]][k]
    /\ Key(k) \in posted =>
         X11Keycode[table[k]][k] # 0 /\ Key(X11Keycode[table[k]][k]) \in down

(* A wheel turns by no button that is one, unless a freed map was used.    *)
WheelInv ==
  \A t \in Threads :
    /\ pc[t] \in {"mapping", "reading"} => button[t] \in {4, 5}
    /\ pc[t] \in {"wheel", "wheeled"} /\ wild = {} => button[t] \notin 1..3

ButtonsHeld ==
  wild = {} =>
    /\ \A n \in Buttons \intersect 1..3 : Button(n) \in down <=> Button(n) \in posted
    /\ \A n \in {4, 5} : 
         Button(n) \in down =>
           (n \in Buttons /\ Button(n) \in posted)
             \/ \E t \in Threads : pc[t] = "wheeled" /\ button[t] = n

X11HeldInv == KeysHeld /\ WheelInv /\ ButtonsHeld

LEMMA X11HeldInit == BackEndInit => X11HeldInv
BY DEF BackEndInit, X11!Init, X11!PostInit, X11HeldInv, KeysHeld, WheelInv, ButtonsHeld

LEMMA KeyIsNoButton == \A k, n : Key(k) # Button(n)
BY DEF Key, Button

LEMMA KeyIsOne == \A k, j : (Key(k) = Key(j) <=> k = j) /\ (Button(k) = Button(j) <=> k = j)
BY DEF Key, Button

LEMMA X11KeyHeld ==
  ASSUME X11OwnCodes, X11TypeInv, X11HeldInv, NEW t \in Threads, X11!PostKeyEvent(t)
  PROVE  X11HeldInv'
<1> DEFINE e == event[t]
           code == X11Keycode[is_evdev][e.key]
<1>1. /\ pc[t] = "key" /\ pc' = [pc EXCEPT ![t] = "sync"]
      /\ UNCHANGED <<button, wild, is_evdev>>
  BY DEF X11!PostKeyEvent, X11!Goto, X11!helperVars, X11!mapHistory
<1>2. e \in Events /\ e.type \in KeyTypes /\ e.key \in Keys
  BY <1>1, EventFields DEF X11TypeInv
<1>3. CASE code = 0
  <2>1. UNCHANGED <<down, posted, table, split>>
    BY <1>3 DEF X11!PostKeyEvent, X11!Refuse, X11!systemVars, X11!historyVars, X11!lookupVars,
                X11!mapHistory
  <2>2. KeysHeld'  BY <2>1 DEF X11HeldInv, KeysHeld
  <2>3. WheelInv' /\ ButtonsHeld'
    BY <1>1, <2>1 DEF X11HeldInv, WheelInv, ButtonsHeld, X11TypeInv, X11Steps
  <2> QED  BY <2>2, <2>3 DEF X11HeldInv
<1>4. CASE code # 0
  <2>1. /\ down' = IF e.type = "KEY_PRESSED" THEN down \union {Key(code)} ELSE down \ {Key(code)}
        /\ posted' = IF e.type = "KEY_PRESSED" THEN posted \union {Key(e.key)} ELSE posted \ {Key(e.key)}
        /\ table' = [table EXCEPT ![e.key] = is_evdev]
        /\ split' = IF Key(e.key) \in posted /\ table[e.key] # is_evdev
                      THEN split \union {e.key} ELSE split
    BY <1>2, <1>4 DEF X11!PostKeyEvent, X11!Take, X11!PressTypes, X11!Named, X11!KeyTypes,
                      KeyTypes, X11!Key, Key
  <2>2. KeysHeld'
    <3> SUFFICES ASSUME NEW k \in Keys \ split' PROVE
          /\ \A a \in BOOLEAN :
               X11Keycode[a][k] # 0 /\ Key(X11Keycode[a][k]) \in down'
                 => Key(k) \in posted' /\ X11Keycode[a][k] = X11Keycode[table'[k]][k]
          /\ Key(k) \in posted' =>
               X11Keycode[table'[k]][k] # 0 /\ Key(X11Keycode[table'[k]][k]) \in down'
      BY DEF KeysHeld
    <3>0. is_evdev \in BOOLEAN /\ table \in [Keys -> BOOLEAN]  BY DEF X11TypeInv
    <3>1. k \in Keys \ split  BY <2>1
    <3>2. /\ \A a \in BOOLEAN :
               X11Keycode[a][k] # 0 /\ Key(X11Keycode[a][k]) \in down
                 => Key(k) \in posted /\ X11Keycode[a][k] = X11Keycode[table[k]][k]
          /\ Key(k) \in posted =>
               X11Keycode[table[k]][k] # 0 /\ Key(X11Keycode[table[k]][k]) \in down
      BY <3>1 DEF X11HeldInv, KeysHeld
    <3>3. CASE k # e.key
      <4>1. table'[k] = table[k]  BY <2>1, <3>0, <3>3
      <4>2. Key(k) \in posted' <=> Key(k) \in posted  BY <2>1, <3>3, KeyIsOne
      <4>3. \A a \in BOOLEAN : X11Keycode[a][k] # 0 => X11Keycode[a][k] # code
        BY <3>0, <3>3, <1>2 DEF X11OwnCodes
      <4>4. \A a \in BOOLEAN : X11Keycode[a][k] # 0 =>
              (Key(X11Keycode[a][k]) \in down' <=> Key(X11Keycode[a][k]) \in down)
        BY <4>3, <2>1, KeyIsOne
      <4>5. table[k] \in BOOLEAN  BY <3>0
      <4> QED  BY <3>2, <4>1, <4>2, <4>4, <4>5
    <3>4. CASE k = e.key
      <4>1. table'[k] = is_evdev  BY <2>1, <3>0, <3>4
      <4>2. Key(k) \in posted => table[k] = is_evdev  BY <2>1, <3>4
      <4>3. \A a \in BOOLEAN : X11Keycode[a][k] # 0 /\ Key(X11Keycode[a][k]) \in down
              => X11Keycode[a][k] = code
        BY <3>2, <4>2, <3>4
      <4>4. CASE e.type = "KEY_PRESSED"
        BY <4>1, <4>3, <4>4, <2>1, <1>4, <3>4, KeyIsOne
      <4>5. CASE e.type # "KEY_PRESSED"
        BY <4>1, <4>3, <4>5, <2>1, <1>4, <3>4, KeyIsOne
      <4> QED  BY <4>4, <4>5
    <3> QED  BY <3>3, <3>4
  <2>3. \A n : Button(n) \in down' <=> Button(n) \in down  BY <2>1, KeyIsNoButton
  <2>4. \A n : Button(n) \in posted' <=> Button(n) \in posted  BY <2>1, KeyIsNoButton
  <2>5. WheelInv' /\ ButtonsHeld'
    BY <1>1, <2>3, <2>4 DEF X11HeldInv, WheelInv, ButtonsHeld, X11TypeInv, X11Steps
  <2> QED  BY <2>2, <2>5 DEF X11HeldInv
<1> QED  BY <1>3, <1>4

LEMMA X11ButtonHeld ==
  ASSUME X11TypeInv, X11HeldInv, NEW t \in Threads, X11!PostButton(t)
  PROVE  X11HeldInv'
<1> DEFINE e == event[t]
<1>1. /\ pc[t] = "button" /\ pc' = [pc EXCEPT ![t] = "sync"]
      /\ UNCHANGED <<button, wild, table, split>>
  BY DEF X11!PostButton, X11!Goto, X11!x11Vars, X11!lookupVars, X11!mapHistory
<1>2. e \in Events /\ e.type \in ButtonTypes /\ e.button \in Buttons
  BY <1>1, EventFields DEF X11TypeInv
<1>3. CASE e.button \notin 1..5
  <2>1. UNCHANGED <<down, posted>>
    BY <1>3 DEF X11!PostButton, X11!Refuse, X11!systemVars, X11!historyVars
  <2>2. KeysHeld'  BY <1>1, <2>1 DEF X11HeldInv, KeysHeld
  <2>3. WheelInv' /\ ButtonsHeld'
    BY <1>1, <2>1 DEF X11HeldInv, WheelInv, ButtonsHeld, X11TypeInv, X11Steps
  <2> QED  BY <2>2, <2>3 DEF X11HeldInv
<1>4. CASE e.button \in 1..5
  <2>1. /\ down' = IF e.type = "MOUSE_PRESSED" THEN down \union {Button(e.button)}
                                               ELSE down \ {Button(e.button)}
        /\ posted' = IF e.type = "MOUSE_PRESSED" THEN posted \union {Button(e.button)}
                                                 ELSE posted \ {Button(e.button)}
    BY <1>2, <1>4 DEF X11!PostButton, X11!PressButton, X11!Take, X11!PressTypes, X11!Named,
                      X11!KeyTypes, ButtonTypes, X11!Button, Button
  <2>2. \A k : (Key(k) \in down' <=> Key(k) \in down) /\ (Key(k) \in posted' <=> Key(k) \in posted)
    BY <2>1, KeyIsNoButton
  <2>3. KeysHeld'  BY <1>1, <2>2 DEF X11HeldInv, KeysHeld
  <2>4. WheelInv'  BY <1>1 DEF X11HeldInv, WheelInv, X11TypeInv, X11Steps
  <2>5. ButtonsHeld'
    BY <1>1, <1>2, <2>1, KeyIsOne DEF X11HeldInv, ButtonsHeld, X11TypeInv, X11Steps
  <2> QED  BY <2>3, <2>4, <2>5 DEF X11HeldInv
<1> QED  BY <1>3, <1>4

LEMMA X11WheelHeld ==
  ASSUME X11TypeInv, LockInv, X11HeldInv, NEW t \in Threads, X11!PressWheel(t) \/ X11!ReleaseWheel(t)
  PROVE  X11HeldInv'
<1>1. /\ pc[t] \in {"wheel", "wheeled"}
      /\ pc' = [pc EXCEPT ![t] = IF pc[t] = "wheel" THEN "wheeled" ELSE "sync"]
      /\ down' = IF pc[t] = "wheel" THEN down \union {Button(button[t])}
                                    ELSE down \ {Button(button[t])}
      /\ UNCHANGED <<posted, button, wild, table, split>>
  BY DEF X11!PressWheel, X11!ReleaseWheel, X11!Goto, X11!x11Vars, X11!lookupVars,
         X11!mapHistory, X11!historyVars,
         X11!Button, Button
<1>2. \A k : Key(k) \in down' <=> Key(k) \in down  BY <1>1, KeyIsNoButton
<1>3. KeysHeld'  BY <1>1, <1>2 DEF X11HeldInv, KeysHeld
<1>4. WheelInv'  BY <1>1 DEF X11HeldInv, WheelInv, X11TypeInv, X11Steps
<1>5. ButtonsHeld'
  <2> SUFFICES ASSUME wild = {} PROVE ButtonsHeld'  BY <1>1 DEF ButtonsHeld
  <2>1. button[t] \notin 1..3  BY <1>1 DEF X11HeldInv, WheelInv
  <2>2. \A n \in 1..3 : Button(n) \in down' <=> Button(n) \in down  BY <1>1, <2>1, KeyIsOne
  <2>3. ASSUME NEW n \in {4, 5}, Button(n) \in down'
        PROVE  (n \in Buttons /\ Button(n) \in posted)
                 \/ \E u \in Threads : pc'[u] = "wheeled" /\ button[u] = n
    <3>1. CASE button[t] = n
      <4>1. pc[t] = "wheel"  BY <1>1, <2>3, <3>1
      <4>2. pc'[t] = "wheeled"  BY <1>1, <4>1 DEF X11TypeInv
      <4> QED  BY <3>1, <4>2
    <3>2. CASE button[t] # n
      <4>1. Button(n) \in down  BY <1>1, <2>3, <3>2, KeyIsOne
      <4>2. (n \in Buttons /\ Button(n) \in posted)
              \/ \E u \in Threads : pc[u] = "wheeled" /\ button[u] = n
        BY <4>1 DEF X11HeldInv, ButtonsHeld
      <4>3. ASSUME NEW u \in Threads, pc[u] = "wheeled", button[u] = n PROVE pc'[u] = "wheeled"
        BY <1>1, <4>3, <3>2 DEF X11TypeInv
      <4> QED  BY <4>2, <4>3
    <3> QED  BY <3>1, <3>2
  <2> QED  BY <1>1, <2>2, <2>3 DEF X11HeldInv, ButtonsHeld
<1> QED  BY <1>3, <1>4, <1>5 DEF X11HeldInv

LEMMA X11HeldStep ==
  ASSUME X11OwnCodes, WheelIsMapped, X11TypeInv, LockInv, X11HeldInv,
         NEW t \in Threads, X11!PostStep(t)
  PROVE  X11HeldInv'
<1> USE DEF X11!Goto, X11!helperVars, X11!lookupVars, X11!mapHistory, X11!historyVars,
            X11!systemVars, X11!x11Vars
<1> DEFINE Same == UNCHANGED <<down, posted, table, split>>
<1>k. Same => KeysHeld'  BY DEF X11HeldInv, KeysHeld
<1>b. ASSUME Same, wild' = {} => wild = {},
             \A u \in Threads : pc'[u] = "wheeled" <=> pc[u] = "wheeled",
             \A u \in Threads : pc[u] = "wheeled" => button'[u] = button[u]
      PROVE  ButtonsHeld'
  BY <1>b DEF X11HeldInv, ButtonsHeld
<1>1. CASE X11!LockDisplay(t)
  <2>1. X11!FirstStep(event[t]) \in {"key", "motion", "move", "map", "sync"}  BY DEF X11!FirstStep
  <2>2. WheelInv' /\ ButtonsHeld'
    BY <1>1, <2>1, <1>b DEF X11!LockDisplay, X11HeldInv, WheelInv, X11TypeInv, X11Steps
  <2> QED  BY <1>1, <1>k, <2>2 DEF X11!LockDisplay, X11HeldInv
<1>2. CASE X11!PostMotion(t)
  <2>1. WheelInv' /\ ButtonsHeld'
    BY <1>2, <1>b DEF X11!PostMotion, X11HeldInv, WheelInv, X11TypeInv, X11Steps
  <2> QED  BY <1>2, <1>k, <2>1 DEF X11!PostMotion, X11HeldInv
<1>3. CASE X11!LookupMap(t)
  <2> USE <1>3 DEF X11!LookupMap, X11!WheelUp, X11!WheelDown
  <2>1. WheelInv'  BY DEF X11HeldInv, WheelInv, X11TypeInv, X11Steps
  <2>2. ButtonsHeld'  BY <1>b DEF X11TypeInv, X11Steps
  <2> QED  BY <1>k, <2>1, <2>2 DEF X11HeldInv
<1>6. CASE X11!FillMap(t)
  <2> USE <1>6 DEF X11!FillMap
  <2>1. WheelInv'  BY DEF X11HeldInv, WheelInv, X11TypeInv, X11Steps
  <2>2. ButtonsHeld'  BY <1>b DEF X11TypeInv, X11Steps
  <2> QED  BY <1>k, <2>1, <2>2 DEF X11HeldInv
<1>4. CASE X11!ReadMap(t)
  <2> USE <1>4 DEF X11!ReadMap
  <2>0. pc' = [pc EXCEPT ![t] = "fault"] \/ pc' = [pc EXCEPT ![t] = "wheel"]  OBVIOUS
  <2>1. /\ wild' = {} => wild = {}
        /\ wild' = {} /\ pc'[t] = "wheel" =>
             button' = [button EXCEPT ![t] = X11!Normal(PointerMap[button[t]])]
    BY DEF X11TypeInv
  <2>2. \A u \in Threads : pc'[u] = "wheeled" <=> pc[u] = "wheeled"  BY DEF X11TypeInv, X11Steps
  <2>3. \A u \in Threads : pc[u] = "wheeled" => button'[u] = button[u]  
    BY DEF X11TypeInv, X11Steps
  <2>4. X11!Normal(PointerMap[button[t]]) \notin 1..3
    <3>1. button[t] \in {4, 5}  BY DEF X11HeldInv, WheelInv
    <3>2. PointerMap[button[t]] \notin 1..3  BY <3>1 DEF WheelIsMapped
    <3> QED  BY <3>2 DEF X11!Normal
  <2>6. \A u \in Threads \ {t} : button'[u] = button[u]  BY DEF X11TypeInv
  <2>7. wild' = {} /\ pc'[t] = "wheel" => button'[t] \notin 1..3  BY <2>1, <2>4 DEF X11TypeInv
  <2>8. WheelInv'  BY <2>0, <2>1, <2>6, <2>7 DEF X11HeldInv, WheelInv, X11TypeInv, X11Steps
  <2>9. ButtonsHeld'  BY <1>b, <2>1, <2>2, <2>3
  <2> QED  BY <1>k, <2>8, <2>9 DEF X11HeldInv
<1>5. CASE X11!Sync(t)
  <2> USE <1>5 DEF X11!Sync, X11!Return
  <2>1. WheelInv'  BY DEF X11HeldInv, WheelInv, X11TypeInv, X11Steps
  <2>2. ButtonsHeld'  BY <1>b DEF X11TypeInv, X11Steps
  <2> QED  BY <1>k, <2>1, <2>2 DEF X11HeldInv
<1> QED
  BY <1>1, <1>2, <1>3, <1>4, <1>5, <1>6, X11KeyHeld, X11ButtonHeld, X11WheelHeld DEF X11!PostStep

LEMMA X11HeldCall ==
  ASSUME X11TypeInv, X11HeldInv, NEW t \in Threads, NEW e \in X11Events, X11!HookPostEvent(t, e)
  PROVE  X11HeldInv'
<1>1. UNCHANGED <<down, posted, table, split, wild, button>>
  BY DEF X11!HookPostEvent, X11!lookupVars, X11!mapHistory, X11!x11Vars, X11!systemVars,
         X11!historyVars
<1>2. pc' = pc \/ (pc[t] = "idle" /\ pc' = [pc EXCEPT ![t] = "lock"])
  BY DEF X11!HookPostEvent, X11!Call, X11!CallReturns, X11!Goto
<1>3. KeysHeld'  BY <1>1 DEF X11HeldInv, KeysHeld
<1>4. WheelInv'  BY <1>1, <1>2 DEF X11HeldInv, WheelInv, X11TypeInv, X11Steps
<1>5. \A u \in Threads : pc'[u] = "wheeled" <=> pc[u] = "wheeled"  BY <1>2 DEF X11TypeInv, X11Steps
<1>6. ButtonsHeld'  BY <1>1, <1>5 DEF X11HeldInv, ButtonsHeld
<1> QED  BY <1>3, <1>4, <1>6 DEF X11HeldInv

LEMMA X11HeldHelper ==
  ASSUME X11HeldInv, X11!Helper
  PROVE  X11HeldInv'
<1>1. UNCHANGED <<down, posted, table, split, wild, button, pc>>
  BY DEF X11!Helper, X11!LoadMap, X11!AskKeyboard, X11!SetEvdev, X11!LoadKeyboard,
         X11!UnloadKeyboard, X11!FreeMap, X11!ClearMap, X11!postVars, X11!lookupVars,
         X11!mapHistory
<1> QED  BY <1>1 DEF X11HeldInv, KeysHeld, WheelInv, ButtonsHeld
-----------------------------------------------------------------------------
(* hook_post_event(), Windows.                                             *)

(* Whole parts of 65536.                                                   *)
LEMMA Quotient ==
  ASSUME NEW c \in Nat, NEW x \in Nat, x < 65536
  PROVE  (65536 * c + x) \div 65536 = c
OBVIOUS

(* The two conversions of a coordinate are inverse to each other on every  *)
(* screen whose size fits 16 bits.                                         *)
LEMMA LandsThere ==
  ASSUME NEW c \in Nat, NEW w \in Nat, w > 0, w < 65536
  PROVE  Windows!Landed(Windows!convert_to_relative_position(c, w), w) = c
<1> DEFINE a == c * 65536
           q == a \div w
<1>a. a \in Nat /\ w \in Nat /\ w > 0  OBVIOUS
<1>q. q \in Nat /\ w * q <= a /\ a < w * q + w
  <2> HIDE DEF a
  <2> QED  BY <1>a
<1> HIDE DEF q
<1>1. CASE c = 0
  <2>1. w * q \in Nat /\ (q > 0 => w * q >= w)  BY <1>a, <1>q
  <2>2. q = 0  BY <1>1, <1>a, <1>q, <2>1
  <2>3. Windows!convert_to_relative_position(c, w) = -1
    BY <1>1, <2>2 DEF q, Windows!convert_to_relative_position, Windows!Unit
  <2> QED  BY <1>1, <2>3 DEF Windows!Landed
<1>2. CASE c > 0
  <2>1. w * q \in Nat /\ (q + 1) * w = w * q + w  BY <1>q, <1>a
  <2>2. (q + 1) * w - a \in Nat /\ (q + 1) * w - a < 65536  BY <2>1, <1>q, <1>a
  <2>3. ((q + 1) * w) \div 65536 = c
    <3> DEFINE x == (q + 1) * w - a
    <3>1. x \in Nat /\ x < 65536 /\ (q + 1) * w = 65536 * c + x  BY <2>1, <2>2
    <3> HIDE DEF x
    <3> QED  BY <3>1, Quotient
  <2>4. Windows!convert_to_relative_position(c, w) = q + 1
    BY <1>2 DEF Windows!convert_to_relative_position, Windows!Unit, q
  <2>5. ~(q + 1 < 0)  BY <1>q
  <2> QED  BY <2>3, <2>4, <2>5 DEF Windows!Landed, Windows!Unit
<1> QED  BY <1>1, <1>2

(* Windows: what each thread has passed and what INPUT it has made of it.  *)
WindowsSteps == {"idle", "map", "motion", "send"}

Item(e) == IF e.type \in KeyTypes THEN Key(WindowsKeycode[e.key]) ELSE Windows!ButtonData(e.button)

WindowsTypeInv ==
  /\ pc \in [Threads -> WindowsSteps]
  /\ event = [t \in Threads |-> event[t]]
  /\ asked = [t \in Threads |-> asked[t]]
  /\ input = [t \in Threads |-> input[t]]
  /\ overlap \in BOOLEAN
  /\ \A t \in Threads : pc[t] # "idle" => asked[t] \in Events
  /\ \A t \in Threads : pc[t] = "map" => event[t] = asked[t]
  /\ \A t \in Threads : pc[t] = "motion" =>
       asked[t].type \in ButtonTypes /\ event[t].at = asked[t].at

(* The INPUT is made of the event as it was passed, though the event       *)
(* becomes a motion and then a press.                                      *)
InputInv ==
  \A t \in Threads : pc[t] \in {"motion", "send"} /\ Asks(asked[t]) =>
    /\ ~Windows!Unmappable(asked[t])
    /\ input[t].down = (asked[t].type \in PressTypes)
    /\ input[t].item = Item(asked[t])

(* Unless posts overlapped, only one thread is in hook_post_event().       *)
SoloInv ==
  ~overlap => \A t, u \in Threads : pc[t] # "idle" /\ pc[u] # "idle" => t = u

(* The pointer is where the motion before the button put it.               *)
LandedInv ==
  ~overlap /\ lost = {} =>
    /\ click.found = click.asked
    /\ \A t \in Threads : pc[t] = "send" /\ asked[t].type \in ButtonTypes => pos = asked[t].at

WindowsInv == WindowsTypeInv /\ InputInv /\ SoloInv /\ LandedInv

LEMMA WindowsInit == BackEndInit => WindowsInv
<1> SUFFICES ASSUME BackEndInit PROVE WindowsInv  OBVIOUS
<1> USE DEF BackEndInit, Windows!Init, Windows!PostInit, Windows!NoEvent, Windows!NoClick
<1>0. \A t \in Threads : pc[t] = "idle"  OBVIOUS
<1>1. WindowsTypeInv
  <2>1. pc \in [Threads -> WindowsSteps]  BY DEF WindowsSteps
  <2>2. event = [t \in Threads |-> event[t]] /\ asked = [t \in Threads |-> asked[t]]  OBVIOUS
  <2>3. input = [t \in Threads |-> input[t]] /\ overlap \in BOOLEAN  OBVIOUS
  <2> HIDE DEF BackEndInit
  <2> QED  BY <1>0, <2>1, <2>2, <2>3 DEF WindowsTypeInv
<1>2. InputInv /\ SoloInv  BY <1>0 DEF InputInv, SoloInv
<1>3. LandedInv  BY <1>0 DEF LandedInv
<1> QED  BY <1>1, <1>2, <1>3 DEF WindowsInv

(* A call that goes on.                                                    *)
LEMMA SoloCall ==
  ASSUME NEW t \in Threads, SoloInv, pc = [u \in Threads |-> pc[u]], overlap \in BOOLEAN,
         NEW step, pc' = [pc EXCEPT ![t] = step], 
         overlap' = (overlap \/ \E u \in Threads \ {t} : pc[u] # "idle")
  PROVE  SoloInv'
BY DEF SoloInv

(* A step of hook_post_event().                                            *)
LEMMA SoloStep ==
  ASSUME NEW t \in Threads, SoloInv, pc = [u \in Threads |-> pc[u]], pc[t] # "idle",
         NEW step, pc' = [pc EXCEPT ![t] = step], overlap' = overlap
  PROVE  SoloInv'
BY DEF SoloInv

LEMMA WindowsCallStep ==
  ASSUME WindowsInv, NEW t \in Threads, NEW e \in WindowsEvents, Windows!HookPostEvent(t, e)
  PROVE  WindowsInv'
<1> USE DEF WindowsInv
<1>0. input' = input /\ e \in Events  BY GivenAssumption DEF Windows!HookPostEvent
<1>1. CASE Windows!Call(t, e, "map") /\ Windows!Refuse /\ asked' = [asked EXCEPT ![t] = e]
  <2>1. /\ pc[t] = "idle" /\ pc' = [pc EXCEPT ![t] = "map"] /\ event' = [event EXCEPT ![t] = e]
        /\ overlap' = (overlap \/ \E u \in Threads \ {t} : pc[u] # "idle")
        /\ asked' = [asked EXCEPT ![t] = e]
        /\ UNCHANGED <<pos, click, lost>>
    BY <1>1 DEF Windows!Call, Windows!Goto, Windows!Refuse, Windows!systemVars, Windows!historyVars
  <2>2. overlap' \in BOOLEAN /\ (~overlap' => ~overlap)  BY <2>1 DEF WindowsTypeInv
  <2>3. WindowsTypeInv'  BY <1>0, <2>1, <2>2 DEF WindowsTypeInv, WindowsSteps
  <2>4. InputInv'  BY <1>0, <2>1 DEF WindowsTypeInv, InputInv
  <2>5. SoloInv'  BY <2>1, SoloCall DEF WindowsTypeInv
  <2>6. LandedInv'  BY <2>1, <2>2 DEF WindowsTypeInv, LandedInv
  <2> QED  BY <2>3, <2>4, <2>5, <2>6
<1>2. CASE Windows!CallReturns(t) /\ Windows!Lose(e) /\ UNCHANGED asked
  <2>1. UNCHANGED <<pc, event, overlap, asked, pos, click>> /\ (lost' = {} => lost = {})
    BY <1>2 DEF Windows!CallReturns, Windows!Lose, Windows!systemVars
  <2> QED  BY <1>0, <2>1 DEF WindowsTypeInv, InputInv, SoloInv, LandedInv
<1> QED  BY <1>1, <1>2 DEF Windows!HookPostEvent

LEMMA WindowsPostStep ==
  ASSUME WindowsInv, NEW t \in Threads, Windows!PostStep(t)
  PROVE  WindowsInv'
<1> USE DEF WindowsInv
<1> DEFINE e == event[t]
<1>f. pc = [u \in Threads |-> pc[u]]  BY DEF WindowsTypeInv
<1>s. ASSUME NEW step, pc[t] # "idle", pc' = [pc EXCEPT ![t] = step], overlap' = overlap
      PROVE  SoloInv'
  BY <1>s, <1>f, SoloStep
<1>1. CASE Windows!RefuseEvent(t)
  <2>1. /\ pc[t] = "map" /\ pc' = [pc EXCEPT ![t] = "idle"]
        /\ event' = [event EXCEPT ![t] = Windows!NoEvent]
        /\ asked' = [asked EXCEPT ![t] = Windows!NoEvent]
        /\ input' = [input EXCEPT ![t] = Windows!NoEvent]
        /\ UNCHANGED <<overlap, pos, click, lost>>
    BY <1>1 DEF Windows!RefuseEvent, Windows!Finish, Windows!Return, Windows!Goto, Windows!Refuse,
                Windows!systemVars, Windows!historyVars
  <2>2. WindowsTypeInv'  BY <2>1 DEF WindowsTypeInv, WindowsSteps
  <2>3. InputInv'  BY <2>1 DEF InputInv, WindowsTypeInv
  <2>4. LandedInv'  BY <2>1 DEF LandedInv, WindowsTypeInv
  <2> QED  BY <2>1, <2>2, <2>3, <2>4, <1>s
<1>2. CASE Windows!MapEvent(t)
  <2> DEFINE new == CASE e.type \in Windows!KeyTypes -> Windows!KeyInput(e)
                      [] e.type = "MOUSE_MOVED" -> Windows!MotionInput(e)
                      [] OTHER -> [wheel |-> e.up]
  <2>1. /\ pc[t] = "map" /\ pc' = [pc EXCEPT ![t] = "send"]
        /\ ~Windows!Unmappable(e) /\ e.type \notin Windows!ButtonTypes
        /\ input' = [input EXCEPT ![t] = new]
        /\ UNCHANGED <<event, overlap, pos, click, lost, asked>>
    BY <1>2 DEF Windows!MapEvent, Windows!Goto, Windows!systemVars, Windows!historyVars
  <2>2. e = asked[t]  BY <2>1 DEF WindowsTypeInv
  <2>3. WindowsTypeInv'
    <3> HIDE DEF new
    <3> QED  BY <2>1 DEF WindowsTypeInv, WindowsSteps
  <2>4. InputInv'
    <3>1. ASSUME Asks(e)
          PROVE  new.down = (e.type \in PressTypes) /\ new.item = Item(e)
      <4>1. e.type \in KeyTypes  BY <2>1, <3>1 DEF Asks, Windows!ButtonTypes, ButtonTypes
      <4>2. new = Windows!KeyInput(e)  BY <4>1 DEF KeyTypes, Windows!KeyTypes
      <4> HIDE DEF new
      <4> QED  BY <4>1, <4>2 DEF Windows!KeyInput, Item, PressTypes, KeyTypes, Windows!Key, Key
    <3> HIDE DEF new
    <3>2. input'[t] = new /\ \A u \in Threads \ {t} : input'[u] = input[u]
      BY <2>1 DEF WindowsTypeInv
    <3>3. \A u \in Threads \ {t} : pc'[u] = pc[u]  BY <2>1 DEF WindowsTypeInv
    <3> QED  BY <2>1, <2>2, <3>1, <3>2, <3>3 DEF InputInv
  <2>5. LandedInv'
    BY <2>1, <2>2 DEF LandedInv, WindowsTypeInv, ButtonTypes, Windows!ButtonTypes
  <2> QED  BY <2>1, <2>3, <2>4, <2>5, <1>s
<1>3. CASE Windows!MapButton(t)
  <2>1. /\ pc[t] = "map" /\ pc' = [pc EXCEPT ![t] = "motion"]
        /\ ~Windows!Unmappable(e) /\ e.type \in Windows!ButtonTypes
        /\ input' = [input EXCEPT ![t] = Windows!ButtonInput(e)]
        /\ event' = [event EXCEPT ![t].type = "MOUSE_MOVED"]
        /\ UNCHANGED <<overlap, pos, click, lost, asked>>
    BY <1>3 DEF Windows!MapButton, Windows!Goto, Windows!systemVars, Windows!historyVars
  <2>2. e = asked[t] /\ e \in Events /\ e.type \in ButtonTypes
    BY <2>1 DEF WindowsTypeInv, ButtonTypes, Windows!ButtonTypes
  <2>3. event'[t].at = e.at
    <3>1. event'[t] = [e EXCEPT !.type = "MOUSE_MOVED"]  BY <2>1 DEF WindowsTypeInv
    <3>2. "at" \in DOMAIN e  BY <2>2 DEF Events, ButtonTypes
    <3> HIDE DEF e
    <3> QED  BY <3>1, <3>2
  <2>4. WindowsTypeInv'
    <3>1. event' = [u \in Threads |-> event'[u]]  BY <2>1 DEF WindowsTypeInv
    <3>2. \A u \in Threads \ {t} : event'[u] = event[u] /\ pc'[u] = pc[u]
      BY <2>1 DEF WindowsTypeInv
    <3>3. pc'[t] = "motion" /\ pc' \in [Threads -> WindowsSteps]
      BY <2>1 DEF WindowsTypeInv, WindowsSteps
    <3>4. input' = [u \in Threads |-> input'[u]]  BY <2>1 DEF WindowsTypeInv
    <3> QED  BY <2>1, <2>2, <2>3, <3>1, <3>2, <3>3, <3>4 DEF WindowsTypeInv
  <2>5. InputInv'
    <3>1. Windows!ButtonInput(e).down = (e.type \in PressTypes)
          /\ Windows!ButtonInput(e).item = Item(e)
      BY <2>2 DEF Windows!ButtonInput, Item, PressTypes, ButtonTypes, KeyTypes
    <3> QED  BY <2>1, <2>2, <3>1 DEF InputInv, WindowsTypeInv
  <2>6. LandedInv'  BY <2>1 DEF LandedInv, WindowsTypeInv
  <2> QED  BY <2>1, <2>4, <2>5, <2>6, <1>s
<1>4. CASE Windows!PostMotion(t)
  <2>1. /\ pc[t] = "motion" /\ pc' = [pc EXCEPT ![t] = "send"]
        /\ event' = [event EXCEPT ![t].type = "MOUSE_PRESSED"]
        /\ UNCHANGED <<overlap, input, asked, click>>
        /\ \/ pos' = Windows!Landed(Windows!MotionInput(e).to, ScreenWidth) /\ lost' = lost
           \/ Windows!Lose(asked[t])
    BY <1>4 DEF Windows!PostMotion, Windows!Goto, Windows!systemVars, Windows!historyVars,
                Windows!windowsVars, Windows!Lose
  <2>2. asked[t] \in Events /\ asked[t].type \in ButtonTypes /\ e.at = asked[t].at
    BY <2>1 DEF WindowsTypeInv
  <2>3. WindowsTypeInv'
    <3>1. event' = [u \in Threads |-> event'[u]]  BY <2>1 DEF WindowsTypeInv
    <3>2. \A u \in Threads \ {t} : event'[u] = event[u] /\ pc'[u] = pc[u]
      BY <2>1 DEF WindowsTypeInv
    <3>3. pc'[t] = "send" /\ pc' \in [Threads -> WindowsSteps]
      BY <2>1 DEF WindowsTypeInv, WindowsSteps
    <3> QED  BY <2>1, <2>2, <3>1, <3>2, <3>3 DEF WindowsTypeInv
  <2>4. InputInv'  BY <2>1 DEF InputInv, WindowsTypeInv
  <2>5. LandedInv'
    <3> SUFFICES ASSUME ~overlap, lost' = {}
                 PROVE  /\ click.found = click.asked
                        /\ \A u \in Threads : pc'[u] = "send" /\ asked[u].type \in ButtonTypes
                                                => pos' = asked[u].at
      BY <2>1 DEF LandedInv
    <3>1. ~Windows!Lose(asked[t])
      BY <2>2 DEF Windows!Lose, Windows!Asks, Windows!KeyTypes, Windows!ButtonTypes, ButtonTypes
    <3>2. pos' = Windows!Landed(Windows!MotionInput(e).to, ScreenWidth) /\ lost = {}
      BY <2>1, <3>1
    <3>3. asked[t].at \in Nat  BY <2>2, EventFields, EventsAssumption
    <3>4. pos' = asked[t].at
      <4>1. Windows!MotionInput(e).to
              = Windows!convert_to_relative_position(asked[t].at, ScreenWidth)
        BY <2>2 DEF Windows!MotionInput
      <4>2. ScreenWidth \in Nat /\ ScreenWidth > 0 /\ ScreenWidth < 65536  BY ScreenAssumption
      <4> QED  BY <3>2, <3>3, <4>1, <4>2, LandsThere
    <3>5. \A u \in Threads : pc'[u] = "send" => u = t
      BY <2>1 DEF SoloInv, WindowsTypeInv
    <3> QED  BY <3>2, <3>4, <3>5 DEF LandedInv
  <2> QED  BY <2>1, <2>3, <2>4, <2>5, <1>s
<1>5. CASE Windows!SendInput(t)
  <2>1. /\ pc[t] = "send" /\ pc' = [pc EXCEPT ![t] = "idle"]
        /\ event' = [event EXCEPT ![t] = Windows!NoEvent]
        /\ asked' = [asked EXCEPT ![t] = Windows!NoEvent]
        /\ input' = [input EXCEPT ![t] = Windows!NoEvent]
        /\ UNCHANGED overlap
    BY <1>5 DEF Windows!SendInput, Windows!Finish, Windows!Return, Windows!Goto
  <2>2. WindowsTypeInv'  BY <2>1 DEF WindowsTypeInv, WindowsSteps
  <2>3. InputInv'  BY <2>1 DEF InputInv, WindowsTypeInv
  <2>4. LandedInv'
    <3> SUFFICES ASSUME ~overlap, lost' = {}
                 PROVE  /\ click'.found = click'.asked
                        /\ \A u \in Threads : pc'[u] # "send"
      BY <2>1 DEF LandedInv
    <3>1. lost = {}
      BY <1>5 DEF Windows!SendInput, Windows!Take, Windows!Lose, Windows!Refuse, Windows!historyVars
    <3>2. click' = click
            \/ (asked[t].type \in ButtonTypes /\ click' = [asked |-> asked[t].at, found |-> pos])
      BY <1>5 DEF Windows!SendInput, Windows!Take, Windows!Lose, Windows!Refuse,
                  Windows!historyVars, ButtonTypes, Windows!ButtonTypes
    <3>3. asked[t].type \in ButtonTypes => pos = asked[t].at  BY <2>1, <3>1 DEF LandedInv
    <3>4. \A u \in Threads : pc'[u] # "send"  BY <2>1 DEF SoloInv, WindowsTypeInv
    <3> QED  BY <3>1, <3>2, <3>3, <3>4 DEF LandedInv
  <2> QED  BY <2>1, <2>2, <2>3, <2>4, <1>s
<1> QED  BY <1>1, <1>2, <1>3, <1>4, <1>5 DEF Windows!PostStep

(* Keys that are posted have codes of their own.                           *)
WindowsOwnCodes ==
  \A k, j \in Keys : WindowsKeycode[k] # 0 /\ WindowsKeycode[k] = WindowsKeycode[j] => k = j

WindowsHeld ==
  /\ \A k \in Keys : WindowsKeycode[k] # 0 => (Key(WindowsKeycode[k]) \in down <=> Key(k) \in posted)
  /\ \A n \in Buttons \ {0} : Windows!ButtonData(n) \in down <=> Button(n) \in posted

LEMMA ButtonDataIsOne ==
  /\ \A n, m \in 1..9 : Windows!ButtonData(n) = Windows!ButtonData(m) => n = m
  /\ \A n, k : Windows!ButtonData(n) # Key(k)
<1>1. \A n, m \in 1..9 : Windows!ButtonData(n) = Windows!ButtonData(m) => n = m
  BY DEF Windows!ButtonData
<1>2. \A n, k : Windows!ButtonData(n) # Key(k)
  BY DEF Windows!ButtonData, Key
<1> QED  BY <1>1, <1>2

LEMMA WindowsHeldInit == BackEndInit => WindowsHeld
BY DEF BackEndInit, Windows!Init, Windows!PostInit, WindowsHeld

LEMMA WindowsHeldStep ==
  ASSUME WindowsOwnCodes, WindowsInv, WindowsHeld, NEW t \in Threads, 
         Windows!PostStep(t) \/ \E e \in WindowsEvents : Windows!HookPostEvent(t, e)
  PROVE  WindowsHeld'
<1> DEFINE Same == UNCHANGED <<down, posted>>
           a == asked[t]
           Sent == Windows!SendInput(t) /\ Windows!Asks(a)
                     /\ Windows!Take(a, input[t].down, input[t].item, pos)
<1>1. Same \/ Sent
  BY DEF Windows!PostStep, Windows!RefuseEvent, Windows!MapEvent, Windows!MapButton,
         Windows!PostMotion, Windows!SendInput, Windows!HookPostEvent, Windows!Refuse, Windows!Lose,
         Windows!historyVars, Windows!systemVars
<1>2. CASE Same  BY <1>2 DEF WindowsHeld
<1>3. CASE Sent
  <2>1. pc[t] = "send" /\ a \in Events /\ Asks(a)
    BY <1>3 DEF Windows!SendInput, WindowsInv, WindowsTypeInv, Asks, Windows!Asks, KeyTypes,
                ButtonTypes, Windows!KeyTypes, Windows!ButtonTypes
  <2>2. ~Windows!Unmappable(a) /\ input[t].down = (a.type \in PressTypes) /\ input[t].item = Item(a)
    BY <2>1 DEF WindowsInv, InputInv
  <2>3. /\ down' = IF a.type \in PressTypes THEN down \union {Item(a)} ELSE down \ {Item(a)}
        /\ posted' = IF a.type \in PressTypes THEN posted \union {Named(a)} ELSE posted \ {Named(a)}
    BY <1>3, <2>2 DEF Windows!Take, PressTypes, Windows!PressTypes, Named, Windows!Named, KeyTypes,
                      Windows!KeyTypes, Key, Windows!Key, Button, Windows!Button
  <2> HIDE DEF Sent
  <2>4. CASE a.type \in KeyTypes
    <3>1. a.key \in Keys /\ WindowsKeycode[a.key] # 0
      BY <2>1, <2>2, <2>4, EventFields DEF Windows!Unmappable, KeyTypes, Windows!KeyTypes
    <3>2. Item(a) = Key(WindowsKeycode[a.key]) /\ Named(a) = Key(a.key)  BY <2>4 DEF Item, Named
    <3>3. \A k \in Keys : WindowsKeycode[k] # 0 =>
            (Key(WindowsKeycode[k]) \in down' <=> Key(k) \in posted')
      <4> SUFFICES ASSUME NEW k \in Keys, WindowsKeycode[k] # 0
                   PROVE  Key(WindowsKeycode[k]) \in down' <=> Key(k) \in posted'
        OBVIOUS
      <4>1. Key(WindowsKeycode[k]) = Item(a) <=> Key(k) = Named(a)
        BY <3>1, <3>2, KeyIsOne DEF WindowsOwnCodes
      <4> QED  BY <2>3, <4>1 DEF WindowsHeld
    <3>4. \A n : Windows!ButtonData(n) # Item(a) /\ Button(n) # Named(a)
      BY <3>2, ButtonDataIsOne, KeyIsNoButton
    <3> QED  BY <2>3, <3>3, <3>4 DEF WindowsHeld
  <2>5. CASE a.type \in ButtonTypes
    <3>1. a.button \in Buttons \ {0}
      BY <2>1, <2>2, <2>5, EventFields DEF Windows!Unmappable, ButtonTypes, Windows!ButtonTypes,
                                           Windows!NoButton
    <3>2. Item(a) = Windows!ButtonData(a.button) /\ Named(a) = Button(a.button)
      BY <2>5 DEF Item, Named, KeyTypes, ButtonTypes
    <3>3. \A n \in Buttons \ {0} : Windows!ButtonData(n) \in down' <=> Button(n) \in posted'
      <4> SUFFICES ASSUME NEW n \in Buttons \ {0}
                   PROVE  Windows!ButtonData(n) \in down' <=> Button(n) \in posted'
        OBVIOUS
      <4>0. \A m \in Buttons \ {0} : m \in 1..9  BY EventsAssumption
      <4>1. n \in 1..9 /\ a.button \in 1..9  BY <3>1, <4>0
      <4>2. Windows!ButtonData(n) = Item(a) <=> Button(n) = Named(a)
        BY <3>2, <4>1, ButtonDataIsOne, KeyIsOne
      <4> QED  BY <2>3, <4>2 DEF WindowsHeld
    <3>4. \A k : Key(k) # Item(a) /\ Key(k) # Named(a)
      BY <3>2, ButtonDataIsOne, KeyIsNoButton
    <3> QED  BY <2>3, <3>3, <3>4 DEF WindowsHeld
  <2> QED  BY <2>1, <2>4, <2>5 DEF Asks
<1> QED  BY <1>1, <1>2, <1>3
-----------------------------------------------------------------------------
(* hook_post_event(), Darwin.                                              *)

DarwinSteps == {"idle", "mask", "setmask", "key", "button", "setmotion", "setbutton", "click",
                "motion", "wheel"}
KeySteps == {"mask", "setmask", "key"}
ButtonSteps == {"button", "setmotion", "setbutton", "click"}

DarwinTypeInv ==
  /\ pc \in [Threads -> DarwinSteps]
  /\ event = [t \in Threads |-> event[t]]
  /\ register = [t \in Threads |-> register[t]]
  /\ \A t \in Threads : "mask" \in DOMAIN register[t] /\ "motion" \in DOMAIN register[t]
  /\ overlap \in BOOLEAN
  /\ \A t \in Threads : pc[t] # "idle" => event[t] \in Events
  /\ \A t \in Threads : pc[t] \in KeySteps => event[t].type \in KeyTypes
  /\ \A t \in Threads : pc[t] \in ButtonSteps => event[t].type \in ButtonTypes
  /\ \A t \in Threads : pc[t] \in ButtonSteps \ {"button"} => event[t].button # 0

(* A button goes down where it is asked for: the event has its position.   *)
DarwinInv == DarwinTypeInv /\ SoloInv /\ click.found = click.asked

LEMMA DarwinInit == BackEndInit => DarwinInv
<1> SUFFICES ASSUME BackEndInit PROVE DarwinInv  OBVIOUS
<1> USE DEF BackEndInit, Darwin!Init, Darwin!PostInit, Darwin!NoEvent, Darwin!NoClick
<1>0. \A t \in Threads : pc[t] = "idle"  OBVIOUS
<1>1. DarwinTypeInv
  <2>1. pc \in [Threads -> DarwinSteps]  BY DEF DarwinSteps
  <2>2. event = [t \in Threads |-> event[t]] /\ register = [t \in Threads |-> register[t]]  OBVIOUS
  <2>3. \A t \in Threads : "mask" \in DOMAIN register[t] /\ "motion" \in DOMAIN register[t]
    BY DEF Darwin!NoValue
  <2>4. overlap \in BOOLEAN  OBVIOUS
  <2> HIDE DEF BackEndInit
  <2> QED  BY <1>0, <2>1, <2>2, <2>3, <2>4 DEF DarwinTypeInv, KeySteps, ButtonSteps
<1>2. SoloInv  BY <1>0 DEF SoloInv
<1>3. click.found = click.asked  OBVIOUS
<1> QED  BY <1>1, <1>2, <1>3 DEF DarwinInv

LEMMA DarwinCallStep ==
  ASSUME DarwinInv, NEW t \in Threads, NEW e \in DarwinEvents, Darwin!HookPostEvent(t, e)
  PROVE  DarwinInv'
<1> USE DEF DarwinInv
<1>0. e \in Events /\ register' = register /\ click' = click
  BY GivenAssumption DEF Darwin!HookPostEvent, Darwin!darwinVars, Darwin!Refuse, Darwin!Lose,
                         Darwin!historyVars
<1>1. CASE Darwin!FirstStep(e) # "idle" /\ Darwin!Call(t, e, Darwin!FirstStep(e))
  <2> DEFINE s == Darwin!FirstStep(e)
  <2>1. /\ pc[t] = "idle" /\ pc' = [pc EXCEPT ![t] = s] /\ event' = [event EXCEPT ![t] = e]
        /\ overlap' = (overlap \/ \E u \in Threads \ {t} : pc[u] # "idle")
    BY <1>1 DEF Darwin!Call, Darwin!Goto
  <2>2. /\ s \in {"mask", "button", "motion", "wheel"}
        /\ s = "mask" => e.type \in KeyTypes
        /\ s = "button" => e.type \in ButtonTypes
    BY <1>1 DEF Darwin!FirstStep, KeyTypes, ButtonTypes, Darwin!KeyTypes, Darwin!ButtonTypes
  <2> HIDE DEF s
  <2>3. overlap' \in BOOLEAN  BY <2>1 DEF DarwinTypeInv
  <2>4. DarwinTypeInv'
    <3>1. pc'[t] = s /\ event'[t] = e  BY <2>1 DEF DarwinTypeInv
    <3>2. \A u \in Threads \ {t} : pc'[u] = pc[u] /\ event'[u] = event[u]
      BY <2>1 DEF DarwinTypeInv
    <3>3. pc' \in [Threads -> DarwinSteps] /\ event' = [u \in Threads |-> event'[u]]
      BY <2>1, <2>2 DEF DarwinTypeInv, DarwinSteps
    <3> QED  BY <1>0, <2>2, <2>3, <3>1, <3>2, <3>3 DEF DarwinTypeInv, KeySteps, ButtonSteps
  <2>5. SoloInv'  BY <2>1, SoloCall DEF DarwinTypeInv
  <2> QED  BY <1>0, <2>4, <2>5
<1>2. CASE Darwin!CallReturns(t)
  <2>1. UNCHANGED <<pc, event, overlap>>  BY <1>2 DEF Darwin!CallReturns
  <2> QED  BY <1>0, <2>1 DEF DarwinTypeInv, SoloInv
<1> QED  BY <1>1, <1>2 DEF Darwin!HookPostEvent

LEMMA DarwinPostStep ==
  ASSUME DarwinInv, NEW t \in Threads, Darwin!PostStep(t)
  PROVE  DarwinInv'
<1> USE DEF DarwinInv
<1> DEFINE e == event[t]
<1>f. pc = [u \in Threads |-> pc[u]]  BY DEF DarwinTypeInv
<1>s. ASSUME NEW step, pc[t] # "idle", pc' = [pc EXCEPT ![t] = step], overlap' = overlap
      PROVE  SoloInv'
  BY <1>s, <1>f, SoloStep
(* It goes on ...                                                          *)
<1>g. ASSUME NEW step \in DarwinSteps, pc[t] # "idle", pc' = [pc EXCEPT ![t] = step],
             pc[t] \in KeySteps => step \in KeySteps,
             pc[t] \in ButtonSteps => step \in ButtonSteps \ {"button"},
             pc[t] \in KeySteps \union ButtonSteps,
             pc[t] = "button" => e.button # 0,
             register' = [u \in Threads |-> register'[u]],
             \A u \in Threads : "mask" \in DOMAIN register'[u] /\ "motion" \in DOMAIN register'[u],
             UNCHANGED <<event, overlap, click>>
      PROVE  DarwinInv'
  <2>1. pc'[t] = step /\ \A u \in Threads \ {t} : pc'[u] = pc[u]  BY <1>g DEF DarwinTypeInv
  <2>2. pc' \in [Threads -> DarwinSteps]  BY <1>g DEF DarwinTypeInv
  <2>3. DarwinTypeInv'  BY <1>g, <2>1, <2>2 DEF DarwinTypeInv, KeySteps, ButtonSteps
  <2> QED  BY <1>g, <2>3, <1>s
(* ... or returns.                                                         *)
<1>r. ASSUME pc[t] # "idle", Darwin!Finish(t), 
             click' = click \/ click' = [asked |-> e.at, found |-> e.at]
      PROVE  DarwinInv'
  <2>1. /\ pc' = [pc EXCEPT ![t] = "idle"] /\ event' = [event EXCEPT ![t] = Darwin!NoEvent]
        /\ UNCHANGED <<overlap, register>>
    BY <1>r DEF Darwin!Finish, Darwin!Return, Darwin!Goto
  <2>2. DarwinTypeInv'  BY <2>1 DEF DarwinTypeInv, DarwinSteps, KeySteps, ButtonSteps
  <2>3. click'.found = click'.asked  BY <1>r
  <2> QED  BY <1>r, <2>1, <2>2, <2>3, <1>s
<1> USE DEF Darwin!Goto, Darwin!systemVars, Darwin!historyVars, Darwin!accountVars, Darwin!seenVars,
            DarwinSteps, KeySteps, ButtonSteps, Darwin!None, Darwin!NoButton
<1>1. CASE Darwin!ReadMask(t)
  <2>1. UNCHANGED <<event, overlap, click>>  BY <1>1 DEF Darwin!ReadMask
  <2>2. pc[t] = "mask" /\ \E step \in {"key", "setmask"} : pc' = [pc EXCEPT ![t] = step]
    BY <1>1 DEF Darwin!ReadMask
  <2>3. register' = register \/ \E m : register' = [register EXCEPT ![t].mask = m]
    BY <1>1 DEF Darwin!ReadMask
  <2>4. /\ register' = [u \in Threads |-> register'[u]]
        /\ \A u \in Threads : "mask" \in DOMAIN register'[u] /\ "motion" \in DOMAIN register'[u]
    BY <2>3 DEF DarwinTypeInv
  <2> QED  BY <2>1, <2>2, <2>4, <1>g
<1>2. CASE Darwin!WriteMask(t)
  <2>1. UNCHANGED <<event, overlap, click>>  BY <1>2 DEF Darwin!WriteMask
  <2>2. pc[t] = "setmask" /\ pc' = [pc EXCEPT ![t] = "key"]  BY <1>2 DEF Darwin!WriteMask
  <2>3. register' = [register EXCEPT ![t] = Darwin!NoValue]  BY <1>2 DEF Darwin!WriteMask
  <2>4. /\ register' = [u \in Threads |-> register'[u]]
        /\ \A u \in Threads : "mask" \in DOMAIN register'[u] /\ "motion" \in DOMAIN register'[u]
    BY <2>3 DEF DarwinTypeInv, Darwin!NoValue
  <2> QED  BY <2>1, <2>2, <2>4, <1>g
<1>3. CASE Darwin!PostKey(t)
  <2>1. pc[t] = "key" /\ Darwin!Finish(t)  BY <1>3 DEF Darwin!PostKey
  <2>2. e.type \in KeyTypes  BY <2>1 DEF DarwinTypeInv
  <2>3. click' = click
    BY <1>3, <2>2 DEF Darwin!PostKey, Darwin!Take, Darwin!Lose, Darwin!Refuse, KeyTypes,
                      Darwin!ButtonTypes
  <2> QED  BY <2>1, <2>3, <1>r
<1>4. CASE Darwin!RefuseButton(t)
  BY <1>4, <1>r DEF Darwin!RefuseButton, Darwin!Refuse
<1>5. CASE Darwin!ReadMotion(t)
  <2>1. UNCHANGED <<event, overlap, click>> /\ e.button # 0  BY <1>5 DEF Darwin!ReadMotion
  <2>2. pc[t] = "button" /\ \E step \in {"setmotion", "setbutton"} : pc' = [pc EXCEPT ![t] = step]
    BY <1>5 DEF Darwin!ReadMotion
  <2>3. register' = register \/ \E m : register' = [register EXCEPT ![t].motion = m]
    BY <1>5 DEF Darwin!ReadMotion
  <2>4. /\ register' = [u \in Threads |-> register'[u]]
        /\ \A u \in Threads : "mask" \in DOMAIN register'[u] /\ "motion" \in DOMAIN register'[u]
    BY <2>3 DEF DarwinTypeInv
  <2> QED  BY <2>1, <2>2, <2>4, <1>g
<1>6. CASE Darwin!WriteMotion(t)
  <2>1. UNCHANGED <<event, overlap, click>>  BY <1>6 DEF Darwin!WriteMotion
  <2>2. pc[t] = "setmotion" /\ pc' = [pc EXCEPT ![t] = "setbutton"]  BY <1>6 DEF Darwin!WriteMotion
  <2>3. register' = [register EXCEPT ![t] = Darwin!NoValue]  BY <1>6 DEF Darwin!WriteMotion
  <2>4. /\ register' = [u \in Threads |-> register'[u]]
        /\ \A u \in Threads : "mask" \in DOMAIN register'[u] /\ "motion" \in DOMAIN register'[u]
    BY <2>3 DEF DarwinTypeInv, Darwin!NoValue
  <2> QED  BY <2>1, <2>2, <2>4, <1>g
<1>7. CASE Darwin!WriteButton(t)
  <2>1. UNCHANGED <<event, overlap, click, register>>  BY <1>7 DEF Darwin!WriteButton
  <2>2. pc[t] = "setbutton" /\ pc' = [pc EXCEPT ![t] = "click"]  BY <1>7 DEF Darwin!WriteButton
  <2> QED  BY <2>1, <2>2, <1>g DEF DarwinTypeInv
<1>8. CASE Darwin!PostButton(t)
  <2>1. click' = click \/ click' = [asked |-> e.at, found |-> e.at]
    BY <1>8 DEF Darwin!PostButton, Darwin!Take, Darwin!Lose
  <2> QED  BY <1>8, <2>1, <1>r DEF Darwin!PostButton
<1>9. CASE Darwin!PostMotion(t)
  <2>1. click' = click  BY <1>9 DEF Darwin!PostMotion, Darwin!Lose
  <2> QED  BY <1>9, <2>1, <1>r DEF Darwin!PostMotion
<1>10. CASE Darwin!PostWheel(t)
  BY <1>10, <1>r DEF Darwin!PostWheel, Darwin!Refuse
<1> QED  BY <1>1, <1>2, <1>3, <1>4, <1>5, <1>6, <1>7, <1>8, <1>9, <1>10 DEF Darwin!PostStep

(* The modifiers and buttons of a set of posted keys and buttons.          *)
Held(p) == {Modifier[k] : k \in {j \in Keys : Key(j) \in p}} \ {"none"}
Pressed(p) == {n \in Buttons : Button(n) \in p}

(* Keys that are posted have codes of their own.                           *)
DarwinOwnCodes ==
  \A k, j \in Keys : DarwinKeycode[k] # 255 /\ DarwinKeycode[k] = DarwinKeycode[j] => k = j

DarwinHeld ==
  /\ \A k \in Keys : DarwinKeycode[k] # 255 => (Key(DarwinKeycode[k]) \in down <=> Key(k) \in posted)
  /\ \A n \in Buttons \ {0} : Button(n) \in down <=> Button(n) \in posted

LEMMA DarwinHeldInit == BackEndInit => DarwinHeld
BY DEF BackEndInit, Darwin!Init, Darwin!PostInit, DarwinHeld

(* What a step does to the keys and buttons that are down: nothing, or it  *)
(* presses or releases the one key or button that was asked for.           *)
PutKey(e) ==
  /\ e.key \in Keys /\ DarwinKeycode[e.key] # 255 /\ e.type \in KeyTypes
  /\ IF e.type = "KEY_PRESSED"
     THEN /\ down' = down \union {Key(DarwinKeycode[e.key])}
          /\ posted' = posted \union {Key(e.key)}
     ELSE /\ down' = down \ {Key(DarwinKeycode[e.key])}
          /\ posted' = posted \ {Key(e.key)}

PutButton(e) ==
  /\ e.button \in Buttons /\ e.type \in ButtonTypes
  /\ IF e.type = "MOUSE_PRESSED"
     THEN down' = down \union {Button(e.button)} /\ posted' = posted \union {Button(e.button)}
     ELSE down' = down \ {Button(e.button)} /\ posted' = posted \ {Button(e.button)}

LEMMA DarwinKeyIsPut ==
  ASSUME DarwinInv, NEW t \in Threads, Darwin!PostKey(t)
  PROVE  /\ pc[t] = "key" /\ event[t].key \in Keys
         /\ \/ /\ PutKey(event[t]) /\ flags' = current_modifier_mask
               /\ chord' = chord \union Darwin!HeldTogether(event[t])
               /\ UNCHANGED <<lost, motion>>
            \/ /\ UNCHANGED <<down, posted, flags, motion, chord>>
               /\ lost' # {} \/ (lost' = lost /\ DarwinKeycode[event[t].key] = 255)
<1> DEFINE e == event[t]
<1>1. pc[t] = "key" /\ e \in Events /\ e.type \in KeyTypes
  BY DEF Darwin!PostKey, DarwinInv, DarwinTypeInv, KeySteps
<1>2. e.key \in Keys  BY <1>1, EventFields
<1>3. \/ /\ DarwinKeycode[e.key] # 255
         /\ Darwin!Take(e, e.type = "KEY_PRESSED", Darwin!Key(DarwinKeycode[e.key]), pos)
         /\ flags' = current_modifier_mask
         /\ chord' = chord \union Darwin!HeldTogether(e)
         /\ UNCHANGED motion
      \/ Darwin!Refuse /\ UNCHANGED <<flags, motion, chord>> /\ DarwinKeycode[e.key] = 255
      \/ Darwin!Lose(e) /\ UNCHANGED <<flags, motion, chord>>
  BY DEF Darwin!PostKey, Darwin!seenVars, Darwin!kVK_Undefined
<1>4. ASSUME DarwinKeycode[e.key] # 255,
             Darwin!Take(e, e.type = "KEY_PRESSED", Darwin!Key(DarwinKeycode[e.key]), pos)
      PROVE  PutKey(e) /\ lost' = lost
  BY <1>1, <1>2, <1>4 DEF PutKey, Darwin!Take, Darwin!PressTypes, Darwin!Named, KeyTypes,
                          Darwin!KeyTypes, Key, Darwin!Key
<1>5. Darwin!Refuse => UNCHANGED <<down, posted, lost>>
  BY DEF Darwin!Refuse, Darwin!historyVars, Darwin!systemVars
<1>6. Darwin!Lose(e) => UNCHANGED <<down, posted>> /\ lost' # {}
  BY <1>1 DEF Darwin!Lose, Darwin!systemVars, Darwin!Asks, Darwin!KeyTypes, KeyTypes
<1> QED  BY <1>1, <1>2, <1>3, <1>4, <1>5, <1>6

LEMMA DarwinButtonIsPut ==
  ASSUME DarwinInv, NEW t \in Threads, Darwin!PostButton(t)
  PROVE  /\ pc[t] = "click" /\ event[t].button \in Buttons
         /\ \/ /\ PutButton(event[t])
               /\ chord' = IF Pressed(posted) \ {event[t].button} # {}
                           THEN chord \union {"buttons"} ELSE chord
               /\ UNCHANGED <<lost, flags, motion>>
            \/ UNCHANGED <<down, posted, flags, motion, chord>> /\ lost' # {}
<1> DEFINE e == event[t]
<1>1. pc[t] = "click" /\ e \in Events /\ e.type \in ButtonTypes
  BY DEF Darwin!PostButton, DarwinInv, DarwinTypeInv, ButtonSteps
<1>2. e.button \in Buttons  BY <1>1, EventFields
<1>3. \/ /\ Darwin!Take(e, e.type = "MOUSE_PRESSED", Darwin!Button(e.button), e.at)
         /\ chord' = IF Darwin!PostedButtons \ {e.button} # {}
                     THEN chord \union {"buttons"} ELSE chord
         /\ UNCHANGED <<flags, motion>>
      \/ Darwin!Lose(e) /\ UNCHANGED <<flags, motion, chord>>
  BY DEF Darwin!PostButton, Darwin!seenVars
<1>4. Darwin!Take(e, e.type = "MOUSE_PRESSED", Darwin!Button(e.button), e.at)
        => PutButton(e) /\ lost' = lost
  BY <1>1, <1>2 DEF PutButton, Darwin!Take, Darwin!PressTypes, Darwin!Named, ButtonTypes,
                    Darwin!KeyTypes, Button, Darwin!Button
<1>5. Darwin!Lose(e) => UNCHANGED <<down, posted>> /\ lost' # {}
  BY <1>1 DEF Darwin!Lose, Darwin!systemVars, Darwin!Asks, Darwin!KeyTypes, Darwin!ButtonTypes,
              ButtonTypes
<1>6. Darwin!PostedButtons = Pressed(posted)
  BY DEF Darwin!PostedButtons, Pressed, Darwin!Button, Button
<1> QED  BY <1>1, <1>2, <1>3, <1>4, <1>5, <1>6

LEMMA DarwinHeldStep ==
  ASSUME DarwinOwnCodes, DarwinInv, DarwinHeld, NEW t \in Threads,
         Darwin!PostStep(t) \/ \E e \in DarwinEvents : Darwin!HookPostEvent(t, e)
  PROVE  DarwinHeld'
<1> DEFINE Same == UNCHANGED <<down, posted>>
<1>1. CASE Same  BY <1>1 DEF DarwinHeld
<1>2. CASE PutKey(event[t])
  <2> DEFINE e == event[t]
  <2>1. \A k \in Keys : DarwinKeycode[k] # 255 =>
          (Key(DarwinKeycode[k]) = Key(DarwinKeycode[e.key]) <=> Key(k) = Key(e.key))
    BY <1>2, KeyIsOne DEF PutKey, DarwinOwnCodes
  <2>2. \A k \in Keys : DarwinKeycode[k] # 255 =>
          (Key(DarwinKeycode[k]) \in down' <=> Key(k) \in posted')
    BY <1>2, <2>1 DEF PutKey, DarwinHeld
  <2>3. \A n \in Buttons \ {0} : Button(n) \in down' <=> Button(n) \in posted'
    BY <1>2, KeyIsNoButton DEF PutKey, DarwinHeld
  <2> QED  BY <2>2, <2>3 DEF DarwinHeld
<1>3. CASE PutButton(event[t])
  BY <1>3, KeyIsNoButton, KeyIsOne DEF PutButton, DarwinHeld
<1>4. Same \/ Darwin!PostKey(t) \/ Darwin!PostButton(t)
  BY DEF Darwin!PostStep, Darwin!HookPostEvent, Darwin!Refuse, Darwin!Lose, Darwin!historyVars,
         Darwin!systemVars, Darwin!ReadMask, Darwin!WriteMask, Darwin!RefuseButton,
         Darwin!ReadMotion, Darwin!WriteMotion, Darwin!WriteButton, Darwin!PostMotion,
         Darwin!PostWheel
<1> QED  BY <1>1, <1>2, <1>3, <1>4, DarwinKeyIsPut, DarwinButtonIsPut

Clean == ~overlap /\ lost = {}

(* The modifiers that will be held when e is posted.                       *)
Becoming(e, p) ==
  IF Modifier[e.key] = "none" THEN Held(p)
  ELSE IF e.type = "KEY_PRESSED" THEN Held(p) \union {Modifier[e.key]}
       ELSE Held(p) \ {Modifier[e.key]}

(* The mask is ahead of what was posted while a key is on its way.         *)
MaskInv ==
  Clean =>
    /\ (\A t \in Threads : pc[t] # "key") => current_modifier_mask \ chord = Held(posted) \ chord
    /\ \A t \in Threads : pc[t] = "setmask" =>
         /\ Modifier[event[t].key] # "none"
         /\ register[t].mask = IF event[t].type = "KEY_PRESSED"
                               THEN current_modifier_mask \union {Modifier[event[t].key]}
                               ELSE current_modifier_mask \ {Modifier[event[t].key]}
    /\ \A t \in Threads : pc[t] = "key" =>
         current_modifier_mask \ chord = Becoming(event[t], posted) \ chord
    /\ flags \ chord = Held(posted) \ chord

(* Motions drag with a button that is held.                                *)
DragsWith(type, held) == type # "MouseMoved" => \E n \in held : Darwin!Dragged(n) = type

(* They drag with the very button.                                         *)
DragsBy(type, n, held) == \A m \in held : type = Darwin!Dragged(m) /\ n = m - 1

(* The kind of motion is ahead of what was posted while a button is on its *)
(* way.                                                                    *)
MotionInv ==
  Clean =>
    /\ (\A t \in Threads : pc[t] \notin {"setbutton", "click"}) =>
         /\ DragsWith(current_motion_event, Pressed(posted))
         /\ "buttons" \notin chord =>
              DragsBy(current_motion_event, current_motion_button, Pressed(posted))
    /\ \A t \in Threads : pc[t] = "setmotion" =>
         register[t].motion = IF event[t].type = "MOUSE_PRESSED"
                              THEN Darwin!Dragged(event[t].button) ELSE "MouseMoved"
    /\ \A t \in Threads : pc[t] \in {"setbutton", "click"} =>
         IF event[t].type = "MOUSE_PRESSED"
         THEN current_motion_event = Darwin!Dragged(event[t].button)
         ELSE /\ current_motion_event # Darwin!Dragged(event[t].button)
              /\ DragsWith(current_motion_event, Pressed(posted))
    /\ \A t \in Threads : pc[t] = "click" => current_motion_button = event[t].button - 1
    /\ DragsWith(motion.type, motion.held)
    /\ "buttons" \notin chord => DragsBy(motion.type, motion.button, motion.held)

LEMMA AccountInit == BackEndInit => MaskInv /\ MotionInv
<1> SUFFICES ASSUME BackEndInit PROVE MaskInv /\ MotionInv  OBVIOUS
<1> USE DEF BackEndInit, Darwin!Init, Darwin!PostInit, Darwin!Moved
<1>1. \A t \in Threads : pc[t] = "idle"  OBVIOUS
<1>2. Held(posted) = {} /\ Pressed(posted) = {}  BY DEF Held, Pressed
<1>3. motion.type = "MouseMoved" /\ motion.held = {}  OBVIOUS
<1>4. current_modifier_mask = {} /\ flags = {} /\ current_motion_event = "MouseMoved"  OBVIOUS
<1> HIDE DEF BackEndInit
<1>5. MaskInv  BY <1>1, <1>2, <1>4 DEF MaskInv
<1>6. MotionInv  BY <1>1, <1>2, <1>3, <1>4 DEF MotionInv, DragsWith, DragsBy
<1> QED  BY <1>5, <1>6

LEMMA DraggedIsNoMove == \A n : Darwin!Dragged(n) # "MouseMoved"
BY DEF Darwin!Dragged

(* A key on its way arrives.                                               *)
LEMMA KeyArrives ==
  ASSUME NEW e, NEW p, NEW q, NEW c, e.key \in Keys, e.type \in KeyTypes,
         q = IF e.type = "KEY_PRESSED" THEN p \union {Key(e.key)} ELSE p \ {Key(e.key)},
         NEW d,
         \A m : (m # "none" /\ Modifier[e.key] = m
                 /\ \E k \in Keys \ {e.key} : Modifier[k] = m /\ Key(k) \in p) => m \in d
  PROVE  Becoming(e, p) \ (c \union d) = Held(q) \ (c \union d)
<1>1. \A k \in Keys \ {e.key} : Key(k) \in q <=> Key(k) \in p  BY KeyIsOne
<1>2. Key(e.key) \in q <=> e.type = "KEY_PRESSED"  OBVIOUS
<1>3. ASSUME NEW m, m \notin d PROVE m \in Becoming(e, p) <=> m \in Held(q)
  <2>1. CASE m = "none"
    BY <2>1 DEF Becoming, Held
  <2>2. CASE m # "none" /\ Modifier[e.key] # m
    BY <2>2, <1>1 DEF Becoming, Held
  <2>3. CASE m # "none" /\ Modifier[e.key] = m
    <3>1. \A k \in Keys \ {e.key} : Modifier[k] = m => Key(k) \notin p  BY <1>3, <2>3
    <3>2. m \in Held(q) <=> e.type = "KEY_PRESSED"  BY <3>1, <2>3, <1>1, <1>2 DEF Held
    <3>3. m \in Becoming(e, p) <=> e.type = "KEY_PRESSED"  BY <2>3 DEF Becoming
    <3> QED  BY <3>2, <3>3
  <2> QED  BY <2>1, <2>2, <2>3
<1> QED  BY <1>3

(* Between two steps nobody else is in hook_post_event().                  *)
LEMMA Alone ==
  ASSUME SoloInv, ~overlap, NEW t \in Threads, pc[t] # "idle"
  PROVE  \A u \in Threads \ {t} : pc[u] = "idle"
BY DEF SoloInv

LEMMA MaskStep ==
  ASSUME DarwinInv, MaskInv, NEW t \in Threads, Darwin!PostStep(t)
  PROVE  MaskInv'
<1> DEFINE e == event[t]
<1>f. DarwinTypeInv /\ SoloInv  BY DEF DarwinInv
<1> SUFFICES ASSUME Clean' PROVE MaskInv'  BY DEF MaskInv
<1>c. Clean
  BY DEF Clean, Darwin!PostStep, Darwin!Refuse, Darwin!Lose, Darwin!Take, Darwin!historyVars,
         Darwin!systemVars, Darwin!ReadMask, Darwin!WriteMask, Darwin!PostKey, Darwin!RefuseButton,
         Darwin!ReadMotion, Darwin!WriteMotion, Darwin!WriteButton, Darwin!PostButton,
         Darwin!PostMotion, Darwin!PostWheel, Darwin!Finish
<1>t. pc[t] # "idle"
  BY DEF Darwin!PostStep, Darwin!ReadMask, Darwin!WriteMask, Darwin!PostKey, Darwin!RefuseButton,
         Darwin!ReadMotion, Darwin!WriteMotion, Darwin!WriteButton, Darwin!PostButton,
         Darwin!PostMotion, Darwin!PostWheel
<1>a. \A u \in Threads \ {t} : pc[u] = "idle"  BY <1>c, <1>f, <1>t, Alone DEF Clean
<1>m. /\ pc[t] # "key" => current_modifier_mask \ chord = Held(posted) \ chord
      /\ pc[t] = "setmask" =>
           /\ Modifier[e.key] # "none"
           /\ register[t].mask = IF e.type = "KEY_PRESSED"
                                 THEN current_modifier_mask \union {Modifier[e.key]}
                                 ELSE current_modifier_mask \ {Modifier[e.key]}
      /\ pc[t] = "key" => current_modifier_mask \ chord = Becoming(e, posted) \ chord
      /\ flags \ chord = Held(posted) \ chord
  BY <1>c, <1>a DEF MaskInv
(* What is left to show when only t is in hook_post_event().               *)
<1>g. ASSUME NEW step, pc' = [pc EXCEPT ![t] = step],
             step # "key" => current_modifier_mask' \ chord' = Held(posted') \ chord',
             step = "setmask" =>
               /\ Modifier[event'[t].key] # "none"
               /\ register'[t].mask = IF event'[t].type = "KEY_PRESSED"
                                      THEN current_modifier_mask' \union {Modifier[event'[t].key]}
                                      ELSE current_modifier_mask' \ {Modifier[event'[t].key]},
             step = "key" => current_modifier_mask' \ chord' = Becoming(event'[t], posted') \ chord',
             flags' \ chord' = Held(posted') \ chord'
      PROVE  MaskInv'
  <2>1. pc'[t] = step /\ \A u \in Threads \ {t} : pc'[u] = "idle"
    BY <1>g, <1>a, <1>f DEF DarwinTypeInv
  <2> QED  BY <1>g, <2>1 DEF MaskInv
<1> USE DEF Darwin!Goto, Darwin!systemVars, Darwin!historyVars, Darwin!accountVars, Darwin!seenVars
<1>1. CASE Darwin!ReadMask(t)
  <2>1. pc[t] = "mask" /\ UNCHANGED <<event, posted, current_modifier_mask, flags, chord>>
    BY <1>1 DEF Darwin!ReadMask
  <2>2. CASE Modifier[e.key] = "none" /\ pc' = [pc EXCEPT ![t] = "key"]
    BY <2>1, <2>2, <1>m, <1>g DEF Becoming
  <2>3. CASE /\ Modifier[e.key] # "none" /\ pc' = [pc EXCEPT ![t] = "setmask"]
             /\ register' = [register EXCEPT ![t].mask = Darwin!MaskAfter(e, current_modifier_mask)]
    <3>1. register'[t].mask = Darwin!MaskAfter(e, current_modifier_mask)
      BY <2>3, <1>f DEF DarwinTypeInv
    <3> QED  BY <2>1, <2>3, <3>1, <1>m, <1>g DEF Darwin!MaskAfter
  <2> QED  BY <1>1, <2>2, <2>3 DEF Darwin!ReadMask, Darwin!None
<1>2. CASE Darwin!WriteMask(t)
  <2>1. /\ pc[t] = "setmask" /\ pc' = [pc EXCEPT ![t] = "key"]
        /\ current_modifier_mask' = register[t].mask
        /\ UNCHANGED <<event, posted, flags, chord>>
    BY <1>2 DEF Darwin!WriteMask
  <2>2. register[t].mask \ chord = Becoming(e, posted) \ chord
    BY <2>1, <1>m DEF Becoming
  <2> QED  BY <2>1, <2>2, <1>m, <1>g
<1>3. CASE Darwin!PostKey(t)
  <2>1. pc' = [pc EXCEPT ![t] = "idle"] /\ UNCHANGED current_modifier_mask
    BY <1>3 DEF Darwin!PostKey, Darwin!Finish, Darwin!Return
  <2>2. pc[t] = "key" /\ e.key \in Keys  BY <1>3, DarwinKeyIsPut
  <2>3. CASE /\ PutKey(e) /\ flags' = current_modifier_mask
             /\ chord' = chord \union Darwin!HeldTogether(e)
    <3>1. posted' = IF e.type = "KEY_PRESSED" THEN posted \union {Key(e.key)}
                                              ELSE posted \ {Key(e.key)}
      BY <2>3 DEF PutKey
    <3>2. \A m : (m # "none" /\ Modifier[e.key] = m
                  /\ \E k \in Keys \ {e.key} : Modifier[k] = m /\ Key(k) \in posted)
                   => m \in Darwin!HeldTogether(e)
      BY <2>2 DEF Darwin!HeldTogether, Darwin!None, Darwin!Key, Key
    <3>3. e.type \in KeyTypes  BY <2>3 DEF PutKey
    <3>4. Becoming(e, posted) \ chord' = Held(posted') \ chord'
      BY <2>2, <2>3, <3>1, <3>2, <3>3, KeyArrives
    <3>5. current_modifier_mask \ chord' = Becoming(e, posted) \ chord'  BY <2>2, <2>3, <1>m
    <3> QED  BY <2>1, <2>3, <3>4, <3>5, <1>g
  <2>4. CASE /\ UNCHANGED <<posted, flags, chord>>
             /\ lost' # {} \/ DarwinKeycode[e.key] = 255
    <3>1. DarwinKeycode[e.key] = 255  BY <2>4 DEF Clean
    <3>2. Modifier[e.key] = "none"  BY <2>2, <3>1, TablesAssumption
    <3>3. Becoming(e, posted) = Held(posted)  BY <3>2 DEF Becoming
    <3>4. current_modifier_mask \ chord = Held(posted) \ chord  BY <2>2, <3>3, <1>m
    <3>5. /\ current_modifier_mask' \ chord' = Held(posted') \ chord'
          /\ flags' \ chord' = Held(posted') \ chord'
      BY <2>1, <2>4, <3>4, <1>m
    <3> QED  BY <2>1, <3>5, <1>g
  <2> QED  BY <1>3, <2>3, <2>4, DarwinKeyIsPut
<1>4. CASE Darwin!PostButton(t)
  <2>1. pc' = [pc EXCEPT ![t] = "idle"] /\ UNCHANGED current_modifier_mask
    BY <1>4 DEF Darwin!PostButton, Darwin!Finish, Darwin!Return
  <2>2. pc[t] = "click" /\ flags' = flags /\ chord \subseteq chord'  BY <1>4, DarwinButtonIsPut
  <2>3. Held(posted') = Held(posted)
    <3>1. \A k : Key(k) \in posted' <=> Key(k) \in posted
      BY <1>4, DarwinButtonIsPut, KeyIsNoButton DEF PutButton
    <3> QED  BY <3>1 DEF Held
  <2> QED  BY <2>1, <2>2, <2>3, <1>m, <1>g
<1>5. CASE Darwin!ReadMotion(t)
  <2>1. /\ pc[t] = "button" /\ \E step \in {"setmotion", "setbutton"} : pc' = [pc EXCEPT ![t] = step]
        /\ UNCHANGED <<posted, current_modifier_mask, flags, chord>>
    BY <1>5 DEF Darwin!ReadMotion
  <2> QED  BY <2>1, <1>m, <1>g
<1>6. CASE Darwin!WriteMotion(t)  BY <1>6, <1>m, <1>g DEF Darwin!WriteMotion
<1>7. CASE Darwin!WriteButton(t)  BY <1>7, <1>m, <1>g DEF Darwin!WriteButton
<1>8. CASE Darwin!RefuseButton(t) \/ Darwin!PostMotion(t) \/ Darwin!PostWheel(t)
  <2>1. /\ pc[t] # "key" /\ pc' = [pc EXCEPT ![t] = "idle"]
        /\ UNCHANGED <<posted, current_modifier_mask, flags, chord>>
    BY <1>8 DEF Darwin!RefuseButton, Darwin!PostMotion, Darwin!PostWheel, Darwin!Finish,
                Darwin!Return, Darwin!Refuse, Darwin!Lose
  <2> QED  BY <2>1, <1>m, <1>g
<1> QED  BY <1>1, <1>2, <1>3, <1>4, <1>5, <1>6, <1>7, <1>8 DEF Darwin!PostStep

LEMMA MotionStep ==
  ASSUME DarwinInv, MotionInv, NEW t \in Threads, Darwin!PostStep(t)
  PROVE  MotionInv'
<1> DEFINE e == event[t]
           On == {"setbutton", "click"}
           Drags(type, n, c, p) == DragsWith(type, Pressed(p))
                                     /\ ("buttons" \notin c => DragsBy(type, n, Pressed(p)))
           Comes(type, f, p) == IF f.type = "MOUSE_PRESSED"
                                THEN type = Darwin!Dragged(f.button)
                                ELSE type # Darwin!Dragged(f.button) /\ DragsWith(type, Pressed(p))
           Stores(m, f) == m = IF f.type = "MOUSE_PRESSED" THEN Darwin!Dragged(f.button)
                                                          ELSE "MouseMoved"
           Seen(m, c) == DragsWith(m.type, m.held)
                           /\ ("buttons" \notin c => DragsBy(m.type, m.button, m.held))
<1>f. DarwinTypeInv /\ SoloInv  BY DEF DarwinInv
<1> SUFFICES ASSUME Clean' PROVE MotionInv'  BY DEF MotionInv
<1>c. Clean
  BY DEF Clean, Darwin!PostStep, Darwin!Refuse, Darwin!Lose, Darwin!Take, Darwin!historyVars,
         Darwin!systemVars, Darwin!ReadMask, Darwin!WriteMask, Darwin!PostKey, Darwin!RefuseButton,
         Darwin!ReadMotion, Darwin!WriteMotion, Darwin!WriteButton, Darwin!PostButton,
         Darwin!PostMotion, Darwin!PostWheel, Darwin!Finish
<1>t. pc[t] # "idle"
  BY DEF Darwin!PostStep, Darwin!ReadMask, Darwin!WriteMask, Darwin!PostKey, Darwin!RefuseButton,
         Darwin!ReadMotion, Darwin!WriteMotion, Darwin!WriteButton, Darwin!PostButton,
         Darwin!PostMotion, Darwin!PostWheel
<1>a. \A u \in Threads \ {t} : pc[u] = "idle"  BY <1>c, <1>f, <1>t, Alone DEF Clean
<1>m. /\ pc[t] \notin On => Drags(current_motion_event, current_motion_button, chord, posted)
      /\ pc[t] = "setmotion" => Stores(register[t].motion, e)
      /\ pc[t] \in On => Comes(current_motion_event, e, posted)
      /\ pc[t] = "click" => current_motion_button = e.button - 1
      /\ Seen(motion, chord)
  BY <1>c, <1>a DEF MotionInv
(* What is left to show when only t is in hook_post_event().               *)
<1>g. ASSUME NEW step, pc' = [pc EXCEPT ![t] = step],
             step \notin On => Drags(current_motion_event', current_motion_button', chord', posted'),
             step = "setmotion" => Stores(register'[t].motion, event'[t]),
             step \in On => Comes(current_motion_event', event'[t], posted'),
             step = "click" => current_motion_button' = event'[t].button - 1,
             Seen(motion', chord')
      PROVE  MotionInv'
  <2>1. pc'[t] = step /\ \A u \in Threads \ {t} : pc'[u] = "idle"
    BY <1>g, <1>a, <1>f DEF DarwinTypeInv
  <2> QED  BY <1>g, <2>1 DEF MotionInv
<1> HIDE DEF Drags, Comes, Stores, Seen
<1>k. ASSUME UNCHANGED <<current_motion_event, current_motion_button, motion>>,
             Pressed(posted') = Pressed(posted), chord \subseteq chord'
      PROVE  /\ Drags(current_motion_event, current_motion_button, chord, posted) =>
                  Drags(current_motion_event', current_motion_button', chord', posted')
             /\ Seen(motion', chord')
  BY <1>k, <1>m DEF Drags, Seen
<1> USE DEF Darwin!Goto, Darwin!systemVars, Darwin!historyVars, Darwin!accountVars, Darwin!seenVars
<1>1. CASE Darwin!ReadMask(t)
  <2>1. /\ pc[t] = "mask" /\ \E step \in {"key", "setmask"} : pc' = [pc EXCEPT ![t] = step]
        /\ UNCHANGED <<posted, current_motion_event, current_motion_button, motion, chord>>
    BY <1>1 DEF Darwin!ReadMask
  <2> QED  BY <2>1, <1>k, <1>m, <1>g
<1>2. CASE Darwin!WriteMask(t)
  <2>1. /\ pc[t] = "setmask" /\ pc' = [pc EXCEPT ![t] = "key"]
        /\ UNCHANGED <<posted, current_motion_event, current_motion_button, motion, chord>>
    BY <1>2 DEF Darwin!WriteMask
  <2> QED  BY <2>1, <1>k, <1>m, <1>g
<1>3. CASE Darwin!PostKey(t)
  <2>1. /\ pc[t] = "key" /\ pc' = [pc EXCEPT ![t] = "idle"]
        /\ UNCHANGED <<current_motion_event, current_motion_button>>
    BY <1>3 DEF Darwin!PostKey, Darwin!Finish, Darwin!Return
  <2>2. motion' = motion /\ chord \subseteq chord'  BY <1>3, DarwinKeyIsPut
  <2>3. \A n : Button(n) \in posted' <=> Button(n) \in posted
    BY <1>3, DarwinKeyIsPut, KeyIsNoButton DEF PutKey
  <2>4. Pressed(posted') = Pressed(posted)  BY <2>3 DEF Pressed
  <2> QED  BY <2>1, <2>2, <2>4, <1>k, <1>m, <1>g
<1>4. CASE Darwin!ReadMotion(t)
  <2>1. /\ pc[t] = "button"
        /\ UNCHANGED <<event, posted, current_motion_event, current_motion_button, motion, chord>>
    BY <1>4 DEF Darwin!ReadMotion
  <2>2. CASE /\ e.type = "MOUSE_PRESSED" /\ pc' = [pc EXCEPT ![t] = "setmotion"]
             /\ register' = [register EXCEPT ![t].motion = Darwin!Dragged(e.button)]
    <3>1. register'[t].motion = Darwin!Dragged(e.button)  BY <2>2, <1>f DEF DarwinTypeInv
    <3>2. Stores(register'[t].motion, event'[t])  BY <2>1, <2>2, <3>1 DEF Stores
    <3> QED  BY <2>1, <2>2, <3>2, <1>k, <1>m, <1>g
  <2>3. CASE /\ e.type = "MOUSE_RELEASED" /\ pc' = [pc EXCEPT ![t] = "setmotion"]
             /\ register' = [register EXCEPT ![t].motion = "MouseMoved"]
    <3>1. register'[t].motion = "MouseMoved"  BY <2>3, <1>f DEF DarwinTypeInv
    <3>2. Stores(register'[t].motion, event'[t])  BY <2>1, <2>3, <3>1 DEF Stores
    <3> QED  BY <2>1, <2>3, <3>2, <1>k, <1>m, <1>g
  <2>4. CASE /\ e.type = "MOUSE_RELEASED" /\ current_motion_event # Darwin!Dragged(e.button)
             /\ pc' = [pc EXCEPT ![t] = "setbutton"]
    <3>1. Comes(current_motion_event', event'[t], posted')
      BY <2>1, <2>4, <1>m DEF Comes, Drags
    <3> QED  BY <2>1, <2>4, <3>1, <1>k, <1>m, <1>g
  <2> QED  BY <1>4, <2>2, <2>3, <2>4 DEF Darwin!ReadMotion, Darwin!Moved
<1>5. CASE Darwin!WriteMotion(t)
  <2>1. /\ pc[t] = "setmotion" /\ pc' = [pc EXCEPT ![t] = "setbutton"]
        /\ current_motion_event' = register[t].motion
        /\ UNCHANGED <<event, posted, motion, chord>>
    BY <1>5 DEF Darwin!WriteMotion
  <2>2. Comes(current_motion_event', event'[t], posted')
    BY <2>1, <1>m, DraggedIsNoMove DEF Comes, Stores, DragsWith
  <2>3. Seen(motion', chord')  BY <2>1, <1>m
  <2> QED  BY <2>1, <2>2, <2>3, <1>g
<1>6. CASE Darwin!WriteButton(t)
  <2>1. /\ pc[t] = "setbutton" /\ pc' = [pc EXCEPT ![t] = "click"]
        /\ current_motion_button' = e.button - 1
        /\ UNCHANGED <<event, posted, current_motion_event, motion, chord>>
    BY <1>6 DEF Darwin!WriteButton
  <2>2. Comes(current_motion_event', event'[t], posted')  BY <2>1, <1>m
  <2>3. Seen(motion', chord')  BY <2>1, <1>m
  <2> QED  BY <2>1, <2>2, <2>3, <1>g
<1>7. CASE Darwin!PostButton(t)
  <2>1. /\ pc' = [pc EXCEPT ![t] = "idle"]
        /\ UNCHANGED <<current_motion_event, current_motion_button>>
    BY <1>7 DEF Darwin!PostButton, Darwin!Finish, Darwin!Return
  <2>2. /\ pc[t] = "click" /\ PutButton(e) /\ motion' = motion
        /\ chord' = IF Pressed(posted) \ {e.button} # {} THEN chord \union {"buttons"} ELSE chord
    BY <1>7, DarwinButtonIsPut DEF Clean
  <2>3. Comes(current_motion_event, e, posted) /\ current_motion_button = e.button - 1
    BY <2>2, <1>m
  <2>4. Pressed(posted') = IF e.type = "MOUSE_PRESSED" THEN Pressed(posted) \union {e.button}
                                                       ELSE Pressed(posted) \ {e.button}
    BY <2>2, KeyIsOne DEF PutButton, Pressed
  <2>5. DragsWith(current_motion_event, Pressed(posted'))
    BY <2>3, <2>4 DEF Comes, DragsWith
  <2>6. "buttons" \notin chord' =>
          DragsBy(current_motion_event, current_motion_button, Pressed(posted'))
    <3> SUFFICES ASSUME "buttons" \notin chord', NEW m \in Pressed(posted')
                 PROVE  current_motion_event = Darwin!Dragged(m) /\ current_motion_button = m - 1
      BY DEF DragsBy
    <3>1. m = e.button /\ e.type = "MOUSE_PRESSED"  BY <2>2, <2>4
    <3> QED  BY <3>1, <2>3 DEF Comes
  <2>7. Drags(current_motion_event', current_motion_button', chord', posted')
    BY <2>1, <2>5, <2>6 DEF Drags
  <2>8. Seen(motion', chord')  BY <2>2, <1>m DEF Seen
  <2> QED  BY <2>1, <2>7, <2>8, <1>g
<1>8. CASE Darwin!PostMotion(t)
  <2>1. /\ pc[t] = "motion" /\ pc' = [pc EXCEPT ![t] = "idle"]
        /\ UNCHANGED <<current_motion_event, current_motion_button, posted, chord>>
    BY <1>8 DEF Darwin!PostMotion, Darwin!Finish, Darwin!Return, Darwin!Lose
  <2>2. motion' = motion \/ motion' = [type |-> current_motion_event,
                                       button |-> current_motion_button, held |-> Pressed(posted)]
    BY <1>8 DEF Darwin!PostMotion, Darwin!PostedButtons, Pressed, Darwin!Button, Button
  <2>3. Drags(current_motion_event, current_motion_button, chord, posted)  BY <2>1, <1>m
  <2>4. Seen(motion', chord')
    <3>1. CASE motion' = motion  BY <2>1, <3>1, <1>m
    <3>2. CASE motion' = [type |-> current_motion_event,
                          button |-> current_motion_button, held |-> Pressed(posted)]
      BY <2>1, <2>3, <3>2 DEF Seen, Drags
    <3> QED  BY <2>2, <3>1, <3>2
  <2>5. Drags(current_motion_event', current_motion_button', chord', posted')  BY <2>1, <2>3
  <2> QED  BY <2>1, <2>4, <2>5, <1>g
<1>9. CASE Darwin!RefuseButton(t) \/ Darwin!PostWheel(t)
  <2>1. /\ pc[t] \notin On /\ pc' = [pc EXCEPT ![t] = "idle"]
        /\ UNCHANGED <<posted, current_motion_event, current_motion_button, motion, chord>>
    BY <1>9 DEF Darwin!RefuseButton, Darwin!PostWheel, Darwin!Finish, Darwin!Return, Darwin!Refuse
  <2> QED  BY <2>1, <1>k, <1>m, <1>g
<1> QED  BY <1>1, <1>2, <1>3, <1>4, <1>5, <1>6, <1>7, <1>8, <1>9 DEF Darwin!PostStep

LEMMA AccountCall ==
  ASSUME DarwinInv, MaskInv, MotionInv, NEW t \in Threads, NEW e \in DarwinEvents,
         Darwin!HookPostEvent(t, e)
  PROVE  MaskInv' /\ MotionInv'
<1>1. UNCHANGED <<posted, current_modifier_mask, current_motion_event, current_motion_button,
                  register, flags, motion, chord>>
  BY DEF Darwin!HookPostEvent, Darwin!darwinVars, Darwin!accountVars, Darwin!seenVars,
         Darwin!Refuse, Darwin!Lose, Darwin!historyVars
<1>2. Clean' => Clean
  BY DEF Clean, Darwin!HookPostEvent, Darwin!Call, Darwin!CallReturns, Darwin!Refuse, Darwin!Lose,
         Darwin!historyVars
<1>3. \/ UNCHANGED <<pc, event>>
      \/ /\ pc[t] = "idle" /\ event' = [event EXCEPT ![t] = e]
         /\ \E step \in {"mask", "button", "motion", "wheel"} : pc' = [pc EXCEPT ![t] = step]
  <2>1. Darwin!FirstStep(e) \in {"mask", "button", "motion", "wheel", "idle"}
    BY DEF Darwin!FirstStep
  <2> QED  BY <2>1 DEF Darwin!HookPostEvent, Darwin!Call, Darwin!CallReturns, Darwin!Goto
<1>4. \A u \in Threads : pc'[u] \in {"setmask", "key", "setmotion", "setbutton", "click"}
        \/ pc[u] \in {"setmask", "key", "setmotion", "setbutton", "click"}
        => pc'[u] = pc[u] /\ event'[u] = event[u]
  BY <1>3 DEF DarwinInv, DarwinTypeInv
<1>5. MaskInv'  BY <1>1, <1>2, <1>4 DEF MaskInv
<1>6. MotionInv'  BY <1>1, <1>2, <1>4 DEF MotionInv
<1> QED  BY <1>5, <1>6
-----------------------------------------------------------------------------
(* The three back ends together.                                           *)

(* Whatever is posted.                                                     *)
PostInv ==
  /\ platform \in {"x11", "windows", "darwin"}
  /\ platform = "x11" => X11Inv
  /\ platform = "windows" => WindowsInv
  /\ platform = "darwin" => DarwinInv /\ MaskInv /\ MotionInv

(* For keys that have codes of their own.                                  *)
OwnCodes == X11OwnCodes /\ WindowsOwnCodes /\ DarwinOwnCodes

HeldInv ==
  /\ platform = "x11" => X11HeldInv
  /\ platform = "windows" => WindowsHeld
  /\ platform = "darwin" => DarwinHeld

LEMMA PostInvStep == PostInv /\ [BackEndNext]_backEndVars => PostInv'
<1> SUFFICES ASSUME PostInv, [BackEndNext]_backEndVars PROVE PostInv'  OBVIOUS
<1> USE DEF PostInv
<1>1. CASE Helper  BY <1>1, X11HelperStep DEF Helper
<1>2. ASSUME NEW t \in Threads, PostStep(t) PROVE PostInv'
  <2>1. CASE platform = "x11" /\ X11!PostStep(t) /\ platform' = platform
    BY <2>1, X11TypeStep, X11LockStep DEF X11Inv
  <2>2. CASE platform = "windows" /\ Windows!PostStep(t) /\ platform' = platform
    BY <2>2, WindowsPostStep
  <2>3. CASE platform = "darwin" /\ Darwin!PostStep(t) /\ platform' = platform
    BY <2>3, DarwinPostStep, MaskStep, MotionStep
  <2> QED  BY <1>2, <2>1, <2>2, <2>3 DEF PostStep
<1>3. ASSUME NEW t \in Threads, HookPostEvent(t) PROVE PostInv'
  <2>1. ASSUME platform = "x11", NEW e \in X11Events, X11!HookPostEvent(t, e), platform' = platform
        PROVE  PostInv'
    BY <2>1, X11CallStep
  <2>2. ASSUME platform = "windows", NEW e \in WindowsEvents, Windows!HookPostEvent(t, e),
               platform' = platform
        PROVE  PostInv'
    BY <2>2, WindowsCallStep
  <2>3. ASSUME platform = "darwin", NEW e \in DarwinEvents, Darwin!HookPostEvent(t, e),
               platform' = platform
        PROVE  PostInv'
    BY <2>3, DarwinCallStep, AccountCall
  <2> QED  BY <1>3, <2>1, <2>2, <2>3 DEF HookPostEvent
<1>4. CASE UNCHANGED backEndVars
  <2> USE <1>4 DEF backEndVars, postVars, x11Vars, windowsVars, darwinVars
  <2>1. X11Inv => X11Inv'
    BY DEF X11Inv, X11TypeInv, LockInv, PositionInv, MapInv, X11!MapIsLive
  <2>2. SoloInv => SoloInv'  BY DEF SoloInv
  <2>3. WindowsInv => WindowsInv'
    <3>1. WindowsTypeInv => WindowsTypeInv'  BY DEF WindowsTypeInv
    <3>2. InputInv => InputInv'  BY DEF InputInv
    <3>3. LandedInv => LandedInv'  BY DEF LandedInv
    <3> QED  BY <2>2, <3>1, <3>2, <3>3 DEF WindowsInv
  <2>4. DarwinInv => DarwinInv'
    <3>1. DarwinTypeInv => DarwinTypeInv'  BY DEF DarwinTypeInv
    <3> QED  BY <2>2, <3>1 DEF DarwinInv
  <2>5. (MaskInv => MaskInv') /\ (MotionInv => MotionInv')  BY DEF MaskInv, MotionInv, Clean
  <2> QED  BY <2>1, <2>3, <2>4, <2>5
<1> QED  BY <1>1, <1>2, <1>3, <1>4 DEF BackEndNext

LEMMA HeldInvStep ==
  ASSUME OwnCodes, WheelIsMapped
  PROVE  PostInv /\ HeldInv /\ [BackEndNext]_backEndVars => HeldInv'
<1> SUFFICES ASSUME PostInv, HeldInv, [BackEndNext]_backEndVars PROVE HeldInv'  OBVIOUS
<1> USE DEF PostInv, HeldInv, OwnCodes, X11Inv
<1>1. CASE Helper  BY <1>1, X11HeldHelper DEF Helper
<1>2. ASSUME NEW t \in Threads, PostStep(t) PROVE HeldInv'
  <2>1. CASE platform = "x11" /\ X11!PostStep(t) /\ platform' = platform
    BY <2>1, X11HeldStep
  <2>2. CASE platform = "windows" /\ Windows!PostStep(t) /\ platform' = platform
    BY <2>2, WindowsHeldStep
  <2>3. CASE platform = "darwin" /\ Darwin!PostStep(t) /\ platform' = platform
    BY <2>3, DarwinHeldStep
  <2> QED  BY <1>2, <2>1, <2>2, <2>3 DEF PostStep
<1>3. ASSUME NEW t \in Threads, HookPostEvent(t) PROVE HeldInv'
  <2>1. ASSUME platform = "x11", NEW e \in X11Events, X11!HookPostEvent(t, e), platform' = platform
        PROVE  HeldInv'
    BY <2>1, X11HeldCall
  <2>2. ASSUME platform = "windows", NEW e \in WindowsEvents, Windows!HookPostEvent(t, e),
               platform' = platform
        PROVE  HeldInv'
    BY <2>2, WindowsHeldStep
  <2>3. ASSUME platform = "darwin", NEW e \in DarwinEvents, Darwin!HookPostEvent(t, e),
               platform' = platform
        PROVE  HeldInv'
    BY <2>3, DarwinHeldStep
  <2> QED  BY <1>3, <2>1, <2>2, <2>3 DEF HookPostEvent
<1>4. CASE UNCHANGED backEndVars
  <2> USE <1>4 DEF backEndVars, postVars, x11Vars
  <2>1. X11HeldInv => X11HeldInv'  BY DEF X11HeldInv, KeysHeld, WheelInv, ButtonsHeld
  <2>2. (WindowsHeld => WindowsHeld') /\ (DarwinHeld => DarwinHeld')  BY DEF WindowsHeld, DarwinHeld
  <2> QED  BY <2>1, <2>2
<1> QED  BY <1>1, <1>2, <1>3, <1>4 DEF BackEndNext

(* The inductive invariant holds throughout, whatever is posted.           *)
THEOREM PostInvariance == BackEndSpec => []PostInv
<1>1. BackEndInit => PostInv
  BY X11Init, WindowsInit, DarwinInit, AccountInit DEF PostInv, BackEndInit
<1> QED  BY <1>1, PostInvStep, PTL DEF BackEndSpec

(* A button is pressed or released where the caller asked for it: on X11   *)
(* always, elsewhere if posts do not overlap and none fails, for every     *)
(* screen width that fits 16 bits.                                         *)
THEOREM ButtonIsAtPosition == BackEndSpec => []PressedAtPosition
<1>1. PostInv => PressedAtPosition
  BY DEF PostInv, PressedAtPosition, X11Inv, PositionInv, WindowsInv, LandedInv, DarwinInv
<1> QED  BY <1>1, PostInvariance, PTL

(* A wheel event that X11 maps has a filled button map to read, unless a   *)
(* hook freed the map while the post looked it up: however often hooks are *)
(* started and stopped and malloc() fails, unload_input_helper() leaves no *)
(* pointer to freed memory to the posts that come after it.                *)
THEOREM MapIsLiveUnlessCaught == BackEndSpec => []MapIsLive
<1>1. PostInv => MapIsLive  BY DEF PostInv, MapIsLive, X11Inv, MapInv
<1> QED  BY <1>1, PostInvariance, PTL

(* Darwin's account of modifiers and dragging is what the posted events    *)
(* amount to, as long as posts do not overlap and none fails.              *)
THEOREM AccountFollowsPosts == BackEndSpec => []StateFollowsPosts
<1>1. PostInv => StateFollowsPosts
  <2> SUFFICES ASSUME PostInv, platform = "darwin", ~overlap, lost = {}
               PROVE  /\ flags \ chord = Darwin!HeldModifiers \ chord
                      /\ motion.type # Darwin!Moved =>
                           \E n \in motion.held : Darwin!Dragged(n) = motion.type
                      /\ "buttons" \notin chord =>
                           \A n \in motion.held :
                             motion.type = Darwin!Dragged(n) /\ motion.button = n - 1
    BY DEF StateFollowsPosts, Darwin!StateFollowsPosts
  <2>1. Clean /\ MaskInv /\ MotionInv  BY DEF Clean, PostInv
  <2>2. Darwin!HeldModifiers = Held(posted)
    BY DEF Darwin!HeldModifiers, Held, Darwin!None, Darwin!Key, Key
  <2>3. flags \ chord = Darwin!HeldModifiers \ chord  BY <2>1, <2>2 DEF MaskInv
  <2> QED  BY <2>1, <2>3 DEF MotionInv, DragsWith, DragsBy, Darwin!Moved
<1> QED  BY <1>1, PostInvariance, PTL

(* What the system holds down is what the callers hold down, with the      *)
(* exceptions the properties of the back ends name, if the keys that are   *)
(* posted have codes of their own and X11's wheel is no other button.      *)
THEOREM HeldIsAsPosted == OwnCodes /\ WheelIsMapped => (BackEndSpec => []HeldIsPosted)
<1> SUFFICES ASSUME OwnCodes, WheelIsMapped PROVE BackEndSpec => []HeldIsPosted  OBVIOUS
<1>1. BackEndInit => HeldInv
  BY X11HeldInit, WindowsHeldInit, DarwinHeldInit DEF HeldInv
<1>2. PostInv /\ HeldInv /\ [BackEndNext]_backEndVars => HeldInv'  BY HeldInvStep
<1>3. PostInv /\ HeldInv => HeldIsPosted
  <2> SUFFICES ASSUME PostInv, HeldInv PROVE HeldIsPosted  OBVIOUS
  <2>1. platform = "x11" => X11!HeldIsPosted
    <3> SUFFICES ASSUME platform = "x11" PROVE X11!HeldIsPosted  OBVIOUS
    <3>1. X11TypeInv /\ KeysHeld /\ ButtonsHeld  BY DEF PostInv, HeldInv, X11Inv, X11HeldInv
    <3>2. ASSUME NEW k \in Keys \ split PROVE X11!KeyDown(k) <=> X11!Key(k) \in posted
      <4>1. \A j : X11!Key(j) = Key(j)  BY DEF X11!Key, Key
      <4>2. X11!KeyDown(k) <=> \E a \in BOOLEAN : /\ X11Keycode[a][k] # 0
                                                 /\ Key(X11Keycode[a][k]) \in down
        BY <4>1, Zenon DEF X11!KeyDown
      <4>3. table[k] \in BOOLEAN  BY <3>1 DEF X11TypeInv
      <4> QED  BY <3>1, <4>1, <4>2, <4>3 DEF KeysHeld
    <3>3. \A n : n \in X11!PostedButtons <=> n \in Buttons /\ Button(n) \in posted
      BY DEF X11!PostedButtons, X11!Button, Button
    <3>4. \A n : X11!Button(n) = Button(n)  BY DEF X11!Button, Button
    <3>5. wild = {} =>
            \A n \in Buttons \intersect 1..3 : X11!Button(n) \in down <=> n \in X11!PostedButtons
      BY <3>1, <3>3, <3>4 DEF ButtonsHeld
    <3>6. wild = {} =>
            \A n \in {4, 5} : X11!Button(n) \in down =>
              n \in X11!PostedButtons \/ \E t \in Threads : pc[t] = "wheeled" /\ button[t] = n
      BY <3>1, <3>3, <3>4 DEF ButtonsHeld
    <3> QED  BY <3>2, <3>5, <3>6 DEF X11!HeldIsPosted, X11!WheelUp, X11!WheelDown
  <2>2. platform = "windows" => Windows!HeldIsPosted
    BY DEF HeldInv, WindowsHeld, Windows!HeldIsPosted, Windows!Key, Key, Windows!Button, Button,
           Windows!NoButton
  <2>3. platform = "darwin" => Darwin!HeldIsPosted
    BY DEF HeldInv, DarwinHeld, Darwin!HeldIsPosted, Darwin!Key, Key, Darwin!Button, Button,
           Darwin!NoButton, Darwin!kVK_Undefined
  <2> QED  BY <2>1, <2>2, <2>3 DEF HeldIsPosted
<1> QED  BY <1>1, <1>2, <1>3, PostInvariance, PTL DEF BackEndSpec

=============================================================================
