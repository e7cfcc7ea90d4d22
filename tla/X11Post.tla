------------------------------ MODULE X11Post -------------------------------
(***************************************************************************)
(* hook_post_event() of the X11 back end, in its XTest build, against the  *)
(* input helper that the hook loads and unloads meanwhile.  A post holds   *)
(* the lock of the helper's display from its first request to XSync(), and *)
(* any other thread's request on that display waits; unload_input_helper() *)
(* makes none.                                                             *)
(***************************************************************************)
EXTENDS PostEvent

CONSTANTS
  HookThread,   \* the thread of hook_run()
  Keycode,      \* the tables of scancode_to_keycode(): evdev's (TRUE) and XFree86's
  PointerMap    \* what XGetPointerMapping() answers

VARIABLES
  display,      \* helper_disp was opened
  lock,         \* who holds it
  hook,         \* what hook_run() does with the helper
  is_evdev,
  keyboard_map,     \* allocated?
  mouse_button_map, \* what the pointer is: "NULL", to memory that is "blank" or "filled", "freed"
  button,       \* the button a wheel event turned into
  table,        \* history: the table with which a key was last looked up
  split,        \* history: keys posted with one table while down by the other
  caught,       \* history: threads whose post looked the button map up while it was freed
  wild          \* history: threads that used memory for a button map that was none

helperVars == <<hook, is_evdev, keyboard_map, mouse_button_map>>
lookupVars == <<table, split>>
mapHistory == <<caught, wild>>
x11Vars == <<display, lock, helperVars, button, lookupVars, mapHistory>>
vars == <<postVars, x11Vars>>

None == "none"
WheelUp == 4
WheelDown == 5

Init ==
  /\ PostInit
  /\ display \in BOOLEAN
  /\ lock = None
  /\ hook = "off" /\ is_evdev = FALSE
  /\ keyboard_map = FALSE /\ mouse_button_map = "NULL"
  /\ button = [t \in Threads |-> 0]
  /\ table = [k \in Keys |-> FALSE] /\ split = {}
  /\ caught = {} /\ wild = {}
-----------------------------------------------------------------------------
(* A fault ends the process.                                               *)
Alive == \A t \in Threads : pc[t] # "fault"

(* The callback runs on the thread of the hook, while the helper is there. *)
MayPost(t) == t = HookThread => hook = "loaded"

HookPostEvent(t, e) ==
  /\ Alive /\ MayPost(t)
  /\ IF display THEN Call(t, e, "lock") ELSE CallReturns(t)
  /\ UNCHANGED <<systemVars, historyVars, x11Vars>>

FirstStep(e) ==
  CASE e.type \in KeyTypes -> "key" [] e.type \in ButtonTypes -> "motion"
    [] e.type = "MOUSE_MOVED" -> "move" [] e.type = "MOUSE_WHEEL" -> "map"
    [] OTHER -> "sync"

(* Mutant: the display is not locked.                                      *)
LockDisplayNever(t) ==
  /\ pc[t] = "lock" /\ Goto(t, FirstStep(event[t]))
  /\ UNCHANGED <<event, systemVars, historyVars, overlap, posts, x11Vars>>

LockDisplay(t) ==
  /\ pc[t] = "lock" /\ Goto(t, FirstStep(event[t]))
  /\ lock = None /\ lock' = t
  /\ UNCHANGED <<event, systemVars, historyVars, overlap, posts, display, helperVars, button,
                 lookupVars, mapHistory>>

(* post_key_event(): refuses a key that is not in the table of the moment. *)
(* (What XTestFakeKeyEvent() returns is misread, but no caller looks.)     *)
PostKeyEvent(t) ==
  LET e == event[t]
      code == Keycode[is_evdev][e.key]
  IN
  /\ pc[t] = "key" /\ Goto(t, "sync")
  /\ IF code = 0
     THEN Refuse /\ UNCHANGED lookupVars
     ELSE /\ Take(e, e.type = "KEY_PRESSED", Key(code), pos)
          /\ table' = [table EXCEPT ![e.key] = is_evdev]
          /\ split' = IF Key(e.key) \in posted /\ table[e.key] # is_evdev
                      THEN split \union {e.key} ELSE split
  /\ UNCHANGED <<event, overlap, posts, display, lock, helperVars, button, mapHistory>>

(* post_mouse_button_event() moves the pointer and only then looks at the  *)
(* button, which it passes on by its virtual number.                       *)
PostMotion(t) ==
  /\ pc[t] \in {"motion", "move"}
  /\ pos' = event[t].at
  /\ Goto(t, IF pc[t] = "motion" THEN "button" ELSE "sync")
  /\ UNCHANGED <<event, down, historyVars, overlap, posts, x11Vars>>

PressButton(e) == Take(e, e.type = "MOUSE_PRESSED", Button(e.button), pos)

(* Mutant: an invalid button returns without unlocking the display.        *)
PostButtonReturns(t) ==
  /\ pc[t] = "button"
  /\ IF event[t].button \in 1..5
     THEN Goto(t, "sync") /\ PressButton(event[t])
     ELSE Goto(t, "idle") /\ Refuse
  /\ UNCHANGED <<event, overlap, posts, x11Vars>>

PostButton(t) ==
  /\ pc[t] = "button" /\ Goto(t, "sync")
  /\ IF event[t].button \in 1..5 THEN PressButton(event[t]) ELSE Refuse
  /\ UNCHANGED <<event, overlap, posts, x11Vars>>

(* post_mouse_wheel_event(): button_map_lookup() finds a map or not, which *)
(* may be one that is just being freed, ...                                *)
LookupMap(t) ==
  /\ pc[t] = "map"
  /\ button' = [button EXCEPT ![t] = IF event[t].up THEN WheelUp ELSE WheelDown]
  /\ Goto(t, IF mouse_button_map # "NULL" THEN "mapping" ELSE "wheel")
  /\ caught' = IF hook = "freeing" THEN caught \union {t} ELSE caught
  /\ UNCHANGED <<event, systemVars, historyVars, overlap, posts, display, lock, helperVars,
                 lookupVars, wild>>

(* ... has XGetPointerMapping() fill what the pointer is by then, ...      *)
FillMap(t) ==
  /\ pc[t] = "mapping" /\ Goto(t, IF mouse_button_map = "NULL" THEN "fault" ELSE "reading")
  /\ mouse_button_map' = IF mouse_button_map = "blank" THEN "filled" ELSE mouse_button_map
  /\ wild' = IF mouse_button_map = "freed" THEN wild \union {t} ELSE wild
  /\ UNCHANGED <<event, systemVars, historyVars, overlap, posts, display, lock, hook, is_evdev,
                 keyboard_map, button, lookupVars, caught>>

(* ... reads by the pointer once more, which finds anything in memory that *)
(* is no map or is the map of another hook, and counts buttons 2 and 3 the *)
(* other way, ...                                                          *)
Normal(n) == CASE n = 2 -> 3 [] n = 3 -> 2 [] OTHER -> n

ReadMap(t) ==
  /\ pc[t] = "reading"
  /\ \/ /\ mouse_button_map = "filled" /\ Goto(t, "wheel")
        /\ button' = [button EXCEPT ![t] = Normal(PointerMap[@])]
        /\ UNCHANGED wild
     \/ /\ mouse_button_map \in {"blank", "freed"} /\ Goto(t, "wheel")
        /\ \E n \in DOMAIN PointerMap : button' = [button EXCEPT ![t] = Normal(n)]
        /\ wild' = wild \union {t}
     \/ /\ mouse_button_map = "NULL" /\ Goto(t, "fault")
        /\ UNCHANGED <<button, wild>>
  /\ UNCHANGED <<event, systemVars, historyVars, overlap, posts, display, lock, helperVars,
                 lookupVars, caught>>

(* ... and the wheel is turned by a press and a release of that button.    *)
PressWheel(t) ==
  /\ pc[t] = "wheel" /\ Goto(t, "wheeled")
  /\ down' = down \union {Button(button[t])}
  /\ UNCHANGED <<event, pos, historyVars, overlap, posts, x11Vars>>

ReleaseWheel(t) ==
  /\ pc[t] = "wheeled" /\ Goto(t, "sync")
  /\ down' = down \ {Button(button[t])}
  /\ UNCHANGED <<event, pos, historyVars, overlap, posts, x11Vars>>

(* XSync() and XUnlockDisplay()                                            *)
Sync(t) ==
  /\ pc[t] = "sync" /\ Return(t)
  /\ lock' = None
  /\ button' = [button EXCEPT ![t] = 0]
  /\ caught' = caught \ {t}
  /\ UNCHANGED <<systemVars, historyVars, overlap, posts, display, helperVars, lookupVars, wild>>
-----------------------------------------------------------------------------
(* load_input_helper(), on the thread of the hook; malloc() may fail, the  *)
(* keyboard may not be found.  Requests wait for the lock of the display.  *)
LoadMap ==
  /\ display /\ hook = "off" /\ hook' = "loading"
  /\ mouse_button_map' \in {"NULL", "blank"}
  /\ UNCHANGED <<postVars, display, lock, is_evdev, keyboard_map, button, lookupVars, mapHistory>>

AskKeyboard ==
  /\ hook = "loading" /\ hook' \in {"evdev", "other"}
  /\ lock = None
  /\ UNCHANGED <<postVars, display, lock, is_evdev, keyboard_map, mouse_button_map, button,
                 lookupVars, mapHistory>>

SetEvdev ==
  /\ hook \in {"evdev", "other"} /\ hook' = "named"
  /\ is_evdev' = (is_evdev \/ hook = "evdev")
  /\ UNCHANGED <<postVars, display, lock, keyboard_map, mouse_button_map, button, lookupVars,
                 mapHistory>>

LoadKeyboard ==
  /\ hook = "named" /\ hook' = "loaded"
  /\ lock = None
  /\ keyboard_map' \in BOOLEAN
  /\ UNCHANGED <<postVars, display, lock, is_evdev, mouse_button_map, button, lookupVars,
                 mapHistory>>

(* unload_input_helper(): after the last callback, whoever posts elsewhere.*)
UnloadKeyboard ==
  /\ hook = "loaded" /\ pc[HookThread] = "idle" /\ hook' = "unloading"
  /\ is_evdev' = (is_evdev /\ ~keyboard_map)
  /\ UNCHANGED <<postVars, display, lock, keyboard_map, mouse_button_map, button, lookupVars,
                 mapHistory>>

FreeMap ==
  /\ hook = "unloading"
  /\ \/ /\ mouse_button_map = "NULL" /\ hook' = "off"
        /\ UNCHANGED <<mouse_button_map, caught>>
     \/ /\ mouse_button_map # "NULL" /\ hook' = "freeing"
        /\ mouse_button_map' = "freed"
        /\ caught' = caught \union {t \in Threads : pc[t] \in {"mapping", "reading"}}
  /\ UNCHANGED <<postVars, display, lock, is_evdev, keyboard_map, button, lookupVars, wild>>

(* Mutant: the pointer is left as it is, as keyboard_map is.               *)
ClearMapNever ==
  /\ hook = "freeing" /\ hook' = "off"
  /\ UNCHANGED <<postVars, display, lock, is_evdev, keyboard_map, mouse_button_map, button,
                 lookupVars, mapHistory>>

ClearMap ==
  /\ hook = "freeing" /\ hook' = "off"
  /\ mouse_button_map' = "NULL"
  /\ UNCHANGED <<postVars, display, lock, is_evdev, keyboard_map, button, lookupVars, mapHistory>>
-----------------------------------------------------------------------------
PostStep(t) ==
  /\ Alive
  /\ \/ LockDisplay(t) \/ PostKeyEvent(t) \/ PostMotion(t) \/ PostButton(t)
     \/ LookupMap(t) \/ FillMap(t) \/ ReadMap(t) \/ PressWheel(t) \/ ReleaseWheel(t) \/ Sync(t)

Helper ==
  /\ Alive
  /\ \/ LoadMap \/ AskKeyboard \/ SetEvdev \/ LoadKeyboard
     \/ UnloadKeyboard \/ FreeMap \/ ClearMap

Next ==
  \/ \E t \in Threads : PostStep(t) \/ \E e \in Events : HookPostEvent(t, e)
  \/ Helper
-----------------------------------------------------------------------------
(* Is a key down in the server, under either table?                        *)
KeyDown(k) ==
  \E evdev \in BOOLEAN : Keycode[evdev][k] # 0 /\ Key(Keycode[evdev][k]) \in down

(* What is held is what was posted.  A key posted by one table while down  *)
(* by the other, because a hook was started or stopped in between, is out; *)
(* so is a button that is also the wheel, once turned, and everything once *)
(* a freed button map was used.                                            *)
HeldIsPosted ==
  /\ \A k \in Keys \ split : KeyDown(k) <=> Key(k) \in posted
  /\ wild = {} =>
       /\ \A n \in Buttons \intersect 1..3 : Button(n) \in down <=> n \in PostedButtons
       /\ \A n \in {WheelUp, WheelDown} :
            Button(n) \in down =>
              n \in PostedButtons \/ \E t \in Threads : pc[t] = "wheeled" /\ button[t] = n

(* A post that has found a button map has one to use, filled when it is   *)
(* read, unless a hook freed it after the post found it or the post found  *)
(* it between free() and the assignment of NULL: no hook leaves a pointer  *)
(* to freed memory behind.                                                 *)
MapIsLive ==
  \A t \in Threads \ caught :
    /\ pc[t] = "mapping" => mouse_button_map \in {"blank", "filled"}
    /\ pc[t] = "reading" => mouse_button_map = "filled"
    /\ pc[t] # "fault"

=============================================================================
