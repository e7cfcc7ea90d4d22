----------------------------- MODULE DarwinInput ----------------------------
(***************************************************************************)
(* How hook_event_proc() of the Darwin back end turns the events of its    *)
(* tap into uiohook events: the modifier mask, the click counter, the drag *)
(* flag, and the static event whose `reserved' field decides whether the   *)
(* input is passed on.                                                     *)
(*                                                                         *)
(* The modifiers are read before the tap is there, and the system disables *)
(* a tap that is too slow until its callback has enabled it again: what    *)
(* the user does without a tap goes unseen, and is not read before the     *)
(* next call of hook_run(), which resets nothing but the modifiers.  A     *)
(* change of a modifier key carries the flag that is common to its pair.   *)
(***************************************************************************)
EXTENDS Integers, Sequences

CONSTANTS
  Keys,         \* the keys of the keyboard
  Buttons,      \* the buttons of the mouse
  MultiClick,   \* hook_get_multi_click_time(), in milliseconds
  TicksPerMs,   \* units of the event's time in a millisecond
  ClickMax,     \* USHRT_MAX
  MaxTime,      \* bound on the time
  MaxPresses    \* bound on the button events remembered in `presses'

Pairs == {{"SHIFT_L", "SHIFT_R"}, {"CTRL_L", "CTRL_R"}, {"ALT_L", "ALT_R"}, {"META_L", "META_R"}}
ModifierKeys == UNION Pairs
PrimaryButtons == {"LEFT", "RIGHT"}
OtherButtons == {"OTHER3", "OTHER4", "OTHER5"}

SystemKeys == {"CAPS_LOCK", "MEDIA"}
Modifiers == Keys \intersect ModifierKeys

ASSUME KeysAssumption == Keys \subseteq ModifierKeys \union SystemKeys \union {"PLAIN"}
ASSUME ButtonsAssumption == Buttons \subseteq PrimaryButtons \union OtherButtons
ASSUME ClickAssumption ==
  MultiClick \in Nat /\ TicksPerMs \in Nat \ {0} /\ ClickMax \in Nat \ {0}
ASSUME BoundAssumption == MaxTime \in Nat /\ MaxPresses \in Nat

VARIABLES
  keys, held,   \* modifier keys and buttons that are down
  light,        \* the Caps Lock light
  now,          \* the time
  running,      \* hook_run() has not returned
  tap,          \* the event tap is there and enabled
  current_modifiers,
  click_count, click_time, click_button, mouse_dragged,
  reserved,     \* event.reserved of the static event: 1 keeps the input from the system
  out,          \* the events dispatched in the last step
  stale,        \* history: keys and buttons that changed without a tap and not since
  shadowed,     \* history: keys released while the other of the pair was down
  missed,       \* history: Caps Lock changed an odd number of times without a tap
  moved,        \* history: buttons seen pressed that saw a motion since
  presses       \* history: button events taken for presses since the last wheel event

userVars  == <<keys, held, light, now>>
clickVars == <<click_count, click_time, click_button, mouse_dragged>>
historyVars == <<stale, shadowed, missed, moved, presses>>
vars == <<userVars, running, tap, current_modifiers, clickVars, reserved, out, historyVars>>
-----------------------------------------------------------------------------
MouseButton == 0..5
ButtonMasks == {"BUTTON1", "BUTTON2", "BUTTON3", "BUTTON4", "BUTTON5"}
Masks == ModifierKeys \union ButtonMasks \union {"CAPS_LOCK"}

KeyEvents == [type : {"KEY_PRESSED", "KEY_RELEASED", "KEY_TYPED"},
              mask : SUBSET Masks]
MouseEvents == [type : {"MOUSE_PRESSED", "MOUSE_RELEASED", "MOUSE_CLICKED", "MOUSE_MOVED",
                        "MOUSE_DRAGGED", "MOUSE_WHEEL"},
                mask : SUBSET Masks, button : MouseButton, clicks : 0..ClickMax]

TypeOK ==
  /\ keys \subseteq Modifiers /\ held \subseteq Buttons /\ light \in BOOLEAN
  /\ now \in Nat /\ click_time \in Nat
  /\ running \in BOOLEAN /\ tap \in BOOLEAN
  /\ current_modifiers \subseteq Masks
  /\ click_count \in 0..ClickMax /\ click_button \in MouseButton
  /\ mouse_dragged \in BOOLEAN
  /\ reserved \in BOOLEAN
  /\ out \in Seq(KeyEvents \union MouseEvents)
  /\ stale \subseteq Modifiers \union Buttons /\ shadowed \subseteq Modifiers
  /\ missed \in BOOLEAN
  /\ moved \subseteq Buttons
  /\ presses \in Seq([button : Buttons, time : Nat])
-----------------------------------------------------------------------------
Number(b) ==
  CASE b = "LEFT" -> 1 [] b = "RIGHT" -> 2 [] b = "OTHER3" -> 3
    [] b = "OTHER4" -> 4 [] b = "OTHER5" -> 5

ButtonMask(b) == <<"BUTTON1", "BUTTON2", "BUTTON3", "BUTTON4", "BUTTON5">>[Number(b)]

(* The bits a button event sets or clears.  The third button has none, and *)
(* of the fourth and fifth it is the number, where a mask is meant.        *)
ButtonBits(b) ==
  CASE b \in PrimaryButtons -> {ButtonMask(b)} [] b = "OTHER3" -> {}
    [] b = "OTHER4" -> {"META_L"} [] b = "OTHER5" -> {"SHIFT_L", "META_L"}

(* Mutant: the right key of a pair is not asked for.                       *)
InitializeLeft(k, b, lit) ==
  (k \intersect {"SHIFT_L", "CTRL_L", "ALT_L", "META_L"})
    \union {ButtonMask(d) : d \in b} \union IF lit THEN {"CAPS_LOCK"} ELSE {}

(* initialize_modifiers().                                                 *)
InitializeModifiers(k, b, lit) ==
  (k \intersect ModifierKeys) \union {ButtonMask(d) : d \in b}
    \union IF lit THEN {"CAPS_LOCK"} ELSE {}

Partner(k) == (CHOOSE p \in Pairs : k \in p) \ {k}

(* Mutant: the units of the event's time are taken for milliseconds.       *)
ElapsedTicks == now - click_time

(* (long int) (timestamp - click_time) / 1000000                           *)
Elapsed == (now - click_time) \div TicksPerMs

Key(type, m) == [type |-> type, mask |-> m]

Mouse(type, m, b, n) == [type |-> type, mask |-> m, button |-> b, clicks |-> n]

(* process_key_pressed(), with the characters the main loop has found.     *)
KeyPressed(m, chars, consumed) ==
  <<Key("KEY_PRESSED", m)>> \o
  IF consumed THEN <<>> ELSE [i \in 1..chars |-> Key("KEY_TYPED", m)]

(* The events of one call of hook_event_proc().  Each that is filled in    *)
(* resets reserved before the dispatcher may set it; an input without an   *)
(* event leaves it as it was.  `consumed' is about the first event, which  *)
(* decides on the ones that follow.                                        *)
Fire(events, consumed) ==
  /\ tap /\ UNCHANGED <<running, tap>>
  /\ out' = events
  /\ CASE events = <<>> -> UNCHANGED reserved
       [] Len(events) = 1 -> reserved' = consumed
       [] OTHER -> reserved' \in BOOLEAN

(* A step without input to hook_event_proc().                              *)
Quiet == out' = <<>> /\ UNCHANGED reserved
-----------------------------------------------------------------------------
(* hook_run() has read the modifiers, for the first time in this process;  *)
(* the tap is not there yet.                                               *)
Init ==
  /\ keys \in SUBSET Modifiers /\ held \in SUBSET Buttons
  /\ light \in BOOLEAN /\ (light => "CAPS_LOCK" \in Keys)
  /\ now = 0
  /\ running = TRUE /\ tap = FALSE
  /\ current_modifiers = InitializeModifiers(keys, held, light)
  /\ click_count = 0 /\ click_time = 0 /\ click_button = 0 /\ mouse_dragged = FALSE
  /\ reserved \in BOOLEAN /\ out = <<>>
  /\ stale = {} /\ shadowed = {} /\ missed = FALSE /\ moved = {} /\ presses = <<>>

(* CGEventTapCreate(), and CGEventTapEnable() when the callback is told of *)
(* the timeout.                                                            *)
TapEnabled ==
  /\ running /\ ~tap /\ tap' = TRUE
  /\ Quiet
  /\ UNCHANGED <<userVars, running, current_modifiers, clickVars, historyVars>>

TapTimeout ==
  /\ tap /\ tap' = FALSE
  /\ Quiet
  /\ UNCHANGED <<userVars, running, current_modifiers, clickVars, historyVars>>

(* HOOK_ENABLED and HOOK_DISABLED use the static event, too.               *)
FireStatus == out' = <<>> /\ reserved' \in BOOLEAN

(* hook_run() returns, and is called again, in the same process: the click *)
(* counter, the drag flag and the static event survive.                    *)
HookReturns ==
  /\ running /\ running' = FALSE
  /\ tap' = FALSE
  /\ FireStatus
  /\ UNCHANGED <<userVars, current_modifiers, clickVars, historyVars>>

HookRun ==
  /\ ~running /\ running' = TRUE
  /\ current_modifiers' = InitializeModifiers(keys, held, light)
  /\ stale' = {} /\ shadowed' = {} /\ missed' = FALSE
  /\ FireStatus
  /\ UNCHANGED <<userVars, tap, clickVars, moved, presses>>

(* kCGEventKeyDown, also for the repeats of a key that is down, and Up.    *)
KeyDown(chars, consumed) ==
  /\ "PLAIN" \in Keys
  /\ Fire(KeyPressed(current_modifiers, chars, consumed), consumed)
  /\ UNCHANGED <<userVars, current_modifiers, clickVars, historyVars>>

KeyUp(consumed) ==
  /\ "PLAIN" \in Keys
  /\ Fire(<<Key("KEY_RELEASED", current_modifiers)>>, consumed)
  /\ UNCHANGED <<userVars, current_modifiers, clickVars, historyVars>>

(* kCGEventFlagsChanged: process_modifier_changed().  The flag says that a *)
(* key of the pair is down, so the release of one of two is processed as a *)
(* press.                                                                  *)
FlagsChanged(k, chars, consumed) ==
  LET flag == k \notin keys \/ Partner(k) \intersect keys # {}
      m    == IF flag THEN current_modifiers \union {k} ELSE current_modifiers \ {k}
  IN
  /\ keys' = IF k \in keys THEN keys \ {k} ELSE keys \union {k}
  /\ current_modifiers' = m
  /\ Fire(IF flag THEN KeyPressed(m, chars, consumed) ELSE <<Key("KEY_RELEASED", m)>>, consumed)
  /\ stale' = stale \ {k}
  /\ shadowed' = IF k \in keys /\ flag THEN shadowed \union {k} ELSE shadowed \ {k}
  /\ UNCHANGED <<held, light, now, clickVars, missed, moved, presses>>

(* ... of Caps Lock: the bit is toggled, whatever the flag says.           *)
CapsToggled(m) == IF "CAPS_LOCK" \in m THEN m \ {"CAPS_LOCK"} ELSE m \union {"CAPS_LOCK"}

CapsChanged ==
  /\ "CAPS_LOCK" \in Keys
  /\ light' = ~light
  /\ current_modifiers' = CapsToggled(current_modifiers)
  /\ Fire(<<>>, FALSE)
  /\ UNCHANGED <<keys, held, now, clickVars, historyVars>>

(* NX_SYSDEFINED: process_system_key() makes a key event of Caps Lock and  *)
(* of the media keys, and nothing of the rest or if it fails.              *)
SystemKey(type, chars, consumed) ==
  /\ SystemKeys \intersect Keys # {}
  /\ Fire(CASE type = "down" -> KeyPressed(current_modifiers, chars, consumed)
            [] type = "up" -> <<Key("KEY_RELEASED", current_modifiers)>>
            [] OTHER -> <<>>, consumed)
  /\ UNCHANGED <<userVars, current_modifiers, clickVars, historyVars>>

CountPress(n) ==
  IF n = click_button /\ Elapsed <= MultiClick
  THEN IF click_count < ClickMax THEN click_count + 1 ELSE click_count
  ELSE 1

(* process_button_pressed().                                               *)
ProcessButtonPressed(b, m, consumed) ==
  /\ Len(presses) < MaxPresses
  /\ current_modifiers' = m
  /\ click_count' = CountPress(Number(b))
  /\ click_button' = Number(b)
  /\ click_time' = now
  /\ Fire(<<Mouse("MOUSE_PRESSED", m, Number(b), click_count')>>, consumed)
  /\ stale' = stale \ {b}
  /\ moved' = moved \ {b}
  /\ presses' = Append(presses, [button |-> b, time |-> now])
  /\ UNCHANGED <<keys, light, now, mouse_dragged, shadowed, missed>>

ButtonDown(b, consumed) ==
  /\ b \notin held /\ held' = held \union {b}
  /\ ProcessButtonPressed(b, current_modifiers \union ButtonBits(b), consumed)

(* kCGEventOtherMouseUp is processed as a press.                           *)
OtherMouseUp(b, consumed) ==
  /\ b \in OtherButtons \intersect held /\ held' = held \ {b}
  /\ ProcessButtonPressed(b, current_modifiers \ ButtonBits(b), consumed)

(* Mutant: what was dragged is a click if the pointer came to rest.        *)
IsAnyClick == ~mouse_dragged \/ Elapsed > MultiClick

IsClick == ~mouse_dragged

(* process_button_released().                                              *)
ButtonUp(b, consumed) ==
  LET m == current_modifiers \ ButtonBits(b) IN
  /\ b \in PrimaryButtons \intersect held /\ held' = held \ {b}
  /\ current_modifiers' = m
  /\ Fire(<<Mouse("MOUSE_RELEASED", m, Number(b), click_count)>> \o
            IF consumed \/ ~IsClick THEN <<>>
            ELSE <<Mouse("MOUSE_CLICKED", m, Number(b), click_count)>>, consumed)
  /\ click_count' = IF Elapsed > MultiClick THEN 0 ELSE click_count
  /\ stale' = stale \ {b}
  /\ moved' = moved \ {b}
  /\ UNCHANGED <<keys, light, now, click_time, click_button, mouse_dragged, shadowed, missed,
                 presses>>

(* process_mouse_moved(): the system says whether the pointer is dragged.  *)
MouseMoved(consumed) ==
  LET n == IF click_count # 0 /\ Elapsed > MultiClick THEN 0 ELSE click_count IN
  /\ mouse_dragged' = (held # {})
  /\ click_count' = n
  /\ Fire(<<Mouse(IF mouse_dragged' THEN "MOUSE_DRAGGED" ELSE "MOUSE_MOVED",
                  current_modifiers, 0, n)>>, consumed)
  /\ moved' = held
  /\ UNCHANGED <<userVars, current_modifiers, click_time, click_button, stale, shadowed, missed,
                 presses>>

(* process_mouse_wheel(): the counter is reset even if nothing is fired    *)
(* because the wheel has not turned in either direction.                   *)
MouseWheel(turned, consumed) ==
  /\ click_count' = 1 /\ click_button' = 0
  /\ Fire(IF turned THEN <<Mouse("MOUSE_WHEEL", current_modifiers, 0, 1)>> ELSE <<>>, consumed)
  /\ presses' = <<>>
  /\ UNCHANGED <<userVars, current_modifiers, click_time, mouse_dragged, stale, shadowed, missed,
                 moved>>
-----------------------------------------------------------------------------
(* What the user does without a tap.                                       *)
UnseenKey(k) ==
  /\ ~tap
  /\ keys' = IF k \in keys THEN keys \ {k} ELSE keys \union {k}
  /\ stale' = stale \union {k}
  /\ Quiet
  /\ UNCHANGED <<held, light, now, running, tap, current_modifiers, clickVars, shadowed, missed,
                 moved, presses>>

UnseenCaps ==
  /\ ~tap /\ "CAPS_LOCK" \in Keys
  /\ light' = ~light /\ missed' = ~missed
  /\ Quiet
  /\ UNCHANGED <<keys, held, now, running, tap, current_modifiers, clickVars, stale, shadowed,
                 moved, presses>>

UnseenButton(b) ==
  /\ ~tap
  /\ held' = IF b \in held THEN held \ {b} ELSE held \union {b}
  /\ stale' = stale \union {b} /\ moved' = moved \ {b}
  /\ Quiet
  /\ UNCHANGED <<keys, light, now, running, tap, current_modifiers, clickVars, shadowed, missed,
                 presses>>

Tick ==
  /\ now < MaxTime /\ now' = now + 1
  /\ Quiet
  /\ UNCHANGED <<keys, held, light, running, tap, current_modifiers, clickVars, historyVars>>
-----------------------------------------------------------------------------
Keyboard(consumed) ==
  \/ \E chars \in 0..1 :
       \/ KeyDown(chars, consumed)
       \/ \E k \in Modifiers : FlagsChanged(k, chars, consumed)
       \/ \E type \in {"down", "up", "none"} : SystemKey(type, chars, consumed)
  \/ KeyUp(consumed)
  \/ CapsChanged

Pointer(consumed) ==
  \/ \E b \in Buttons :
       ButtonDown(b, consumed) \/ ButtonUp(b, consumed) \/ OtherMouseUp(b, consumed)
  \/ MouseMoved(consumed)
  \/ \E turned \in BOOLEAN : MouseWheel(turned, consumed)

Unseen == (\E k \in Modifiers : UnseenKey(k)) \/ UnseenCaps \/ (\E b \in Buttons : UnseenButton(b))

Next ==
  \/ \E consumed \in BOOLEAN : Keyboard(consumed) \/ Pointer(consumed)
  \/ TapEnabled \/ TapTimeout \/ Unseen \/ Tick \/ HookReturns \/ HookRun

Spec == Init /\ [][Next]_vars
-----------------------------------------------------------------------------
Dispatched == {out[i] : i \in DOMAIN out}

(* The mask follows the keys and the primary buttons: a bit is set while   *)
(* its key is down, and not longer, through auto-repeat, consumed events,  *)
(* timeouts of the tap and other calls of hook_run().  The exceptions are  *)
(* what changed without a tap, until the tap sees it change again, and a   *)
(* key that was released while the other of its pair was down: its bit     *)
(* stays.                                                                  *)
ModifiersTracked ==
  /\ \A k \in Modifiers \ stale :
        k \in current_modifiers <=> k \in keys \/ k \in shadowed
  /\ \A b \in (Buttons \intersect PrimaryButtons) \ stale :
        ButtonMask(b) \in current_modifiers <=> b \in held

(* The Caps Lock bit is the light, until a change goes unseen: then it is  *)
(* the opposite, and stays so until another one goes unseen.               *)
CapsFollowsLight == ("CAPS_LOCK" \in current_modifiers) = (light # missed)

(* The mask the events carry is the keyboard's and the mouse's.            *)
MaskTracked == ModifiersTracked /\ CapsFollowsLight

(* The events in `presses' that end in the last one and each follow their  *)
(* predecessor on the same button within the multi-click time.             *)
RunLength ==
  LET n == Len(presses)
      IsRun(j) == \A i \in j + 1 .. n :
                    /\ presses[i].button = presses[i - 1].button
                    /\ (presses[i].time - presses[i - 1].time) \div TicksPerMs <= MultiClick
  IN n + 1 - (CHOOSE j \in 1..n : IsRun(j) /\ \A i \in 1..n : IsRun(i) => j <= i)

(* The click count of MOUSE_PRESSED is the number of presses of this       *)
(* button in a row, each within the multi-click time of the one before in  *)
(* whole milliseconds; it stops at USHRT_MAX.  (For the buttons past the   *)
(* second a release counts as a press.)                                    *)
ClicksCountPresses ==
  \A e \in Dispatched :
    e.type = "MOUSE_PRESSED" =>
      e.clicks = IF RunLength < ClickMax THEN RunLength ELSE ClickMax

(* A button that was moved while it was down does not click when it is     *)
(* released, whichever buttons, wheels, pauses and calls of hook_run()     *)
(* come in between.                                                        *)
ClickedWithoutDrag ==
  [][\A b \in held \ held' :
       b \in moved /\ tap =>
         \A i \in DOMAIN out' : out'[i].type # "MOUSE_CLICKED"]_vars

=============================================================================
