---------------------------- MODULE WindowsInput ----------------------------
(***************************************************************************)
(* How the hook procedures of the Windows back end turn low-level keyboard *)
(* and mouse input into uiohook events while hook_run() pumps messages:    *)
(* the modifier mask, the click counter, and the static event whose        *)
(* `reserved' field decides whether the input is passed on to the system.  *)
(*                                                                         *)
(* Windows may drop a hook that was too slow; input is then unseen until a *)
(* window event, or another call of hook_run(), installs the hooks and     *)
(* reads the modifiers again; the other statics are kept.  What            *)
(* GetKeyState() reports is the state the input that was passed on leads   *)
(* to, so it differs from the keyboard where a key was swallowed.          *)
(***************************************************************************)
EXTENDS Integers, Sequences

CONSTANTS
  Keys,         \* the keys of the keyboard, each named for what it is
  Buttons,      \* the buttons of the mouse
  Points,       \* where the pointer can be; 0 is the origin of the screen
  MultiClick,   \* hook_get_multi_click_time()
  ClickMax,     \* USHRT_MAX
  TimeWrap,     \* the system's clock counts modulo 2^32
  StartTime,    \* the clock when the hook starts
  MaxTime,      \* bound on the real time
  MaxPresses    \* bound on the button presses remembered in `presses'

ModifierKeys == {"SHIFT_L", "SHIFT_R", "CTRL_L", "CTRL_R",
                 "ALT_L", "ALT_R", "META_L", "META_R"}
LockKeys == {"NUM_LOCK", "CAPS_LOCK", "SCROLL_LOCK"}
CharKeys == {"A"}
PlainButtons == {"LEFT", "RIGHT", "MIDDLE", "X1", "X2"}
ExtraButtons == {"EXTRA4", "EXTRA5"}    \* neither XBUTTON1 nor XBUTTON2

ASSUME KeysAssumption == Keys \subseteq ModifierKeys \union LockKeys \union CharKeys
ASSUME ButtonsAssumption == Buttons \subseteq PlainButtons \union ExtraButtons
ASSUME PointsAssumption == Points \subseteq Nat /\ 0 \in Points
ASSUME ClickAssumption == MultiClick \in Nat /\ ClickMax \in Nat \ {0}
ASSUME TimeAssumption ==
  /\ TimeWrap \in Nat \ {0, 1} /\ StartTime \in Nat
  /\ MaxTime \in Nat /\ MaxPresses \in Nat

VARIABLES
  keys, held,   \* keys and buttons that are down
  logical,      \* keys and buttons that GetKeyState() reports as down
  pos,          \* where the pointer is
  now,          \* real time
  running,      \* hook_run() is pumping messages
  hooked,       \* the hooks Windows calls
  current_modifiers,
  click_count, click_time, click_button, last_click,
  reserved,     \* event.reserved of the static event
  out,          \* the events dispatched in the last step
  stale,        \* history: keys and buttons that changed and the hook has not been told
  still,        \* history: buttons seen pressed, with the pointer where it was since
  presses       \* history: presses seen since the last wheel event

userVars  == <<keys, held, logical, pos, now>>
clickVars == <<click_count, click_time, click_button, last_click>>
historyVars == <<stale, still, presses>>
vars == <<userVars, running, hooked, current_modifiers, clickVars, reserved, out, historyVars>>
-----------------------------------------------------------------------------
MouseButton == 0..5
ButtonMasks == {"BUTTON1", "BUTTON2", "BUTTON3", "BUTTON4", "BUTTON5"}
Masks == ModifierKeys \union LockKeys \union ButtonMasks

KeyEvents == [type : {"KEY_PRESSED", "KEY_RELEASED", "KEY_TYPED"},
              mask : SUBSET Masks, consumed : BOOLEAN]
MouseEvents == [type : {"MOUSE_PRESSED", "MOUSE_RELEASED", "MOUSE_CLICKED", "MOUSE_MOVED",
                        "MOUSE_DRAGGED", "MOUSE_WHEEL"},
                mask : SUBSET Masks, button : MouseButton, clicks : 0..ClickMax,
                consumed : BOOLEAN]

TypeOK ==
  /\ keys \subseteq Keys /\ held \subseteq Buttons
  /\ logical \subseteq Keys \union Buttons /\ stale \subseteq Keys \union Buttons
  /\ still \subseteq Buttons
  /\ pos \in Points /\ last_click \in Points
  /\ now \in Nat /\ click_time \in 0..(TimeWrap - 1)
  /\ running \in BOOLEAN /\ hooked \subseteq {"keyboard", "mouse"}
  /\ current_modifiers \subseteq Masks
  /\ click_count \in 0..ClickMax
  /\ click_button \in MouseButton
  /\ reserved \in BOOLEAN
  /\ out \in Seq(KeyEvents \union MouseEvents)
  /\ presses \in Seq([button : Buttons, time : Nat])
-----------------------------------------------------------------------------
(* The bits process_key_pressed() sets for a key; A stands for the others. *)
KeyBits(k) == {k} \intersect (ModifierKeys \union LockKeys)

(* Mutant: the extended buttons have no bit.                               *)
ButtonBitsPlain(b) ==
  CASE b = "LEFT" -> {"BUTTON1"} [] b = "RIGHT" -> {"BUTTON2"} [] b = "MIDDLE" -> {"BUTTON3"}
    [] OTHER -> {}

(* The bits a button sets.  An extra button sets its number, 4 or 5, where *)
(* a mask is meant.                                                        *)
ButtonBits(b) ==
  CASE b = "LEFT" -> {"BUTTON1"} [] b = "RIGHT" -> {"BUTTON2"} [] b = "MIDDLE" -> {"BUTTON3"}
    [] b = "X1" -> {"BUTTON4"} [] b = "X2" -> {"BUTTON5"}
    [] b = "EXTRA4" -> {"META_L"} [] b = "EXTRA5" -> {"SHIFT_L", "META_L"}

(* The number a press reports, and the one a release reports.              *)
PressNumber(b) ==
  CASE b = "LEFT" -> 1 [] b = "RIGHT" -> 2 [] b = "MIDDLE" -> 3
    [] b \in {"X1", "EXTRA4"} -> 4 [] b \in {"X2", "EXTRA5"} -> 5

ReleaseNumber(b) == IF b \in ExtraButtons THEN 5 ELSE PressNumber(b)

(* Mutant: the locks are not asked for.                                    *)
InitializeUnlocked(down) ==
  UNION ({KeyBits(k) : k \in (down \intersect Keys) \ LockKeys} \union
         {ButtonBits(b) : b \in down \intersect Buttons \intersect PlainButtons})

(* initialize_modifiers(): what GetKeyState() reports, locks included, as  *)
(* down; it knows no extra buttons.                                        *)
InitializeModifiers(down) ==
  UNION ({KeyBits(k) : k \in down \intersect Keys} \union
         {ButtonBits(b) : b \in down \intersect Buttons \intersect PlainButtons})

Timestamp == now % TimeWrap

(* Mutant: the difference is taken in a wider type than the clock.         *)
ElapsedWide == Timestamp - click_time

(* (long int) (timestamp - click_time): a 32-bit difference made signed.   *)
Elapsed ==
  LET d == (Timestamp - click_time) % TimeWrap
  IN IF d < TimeWrap \div 2 THEN d ELSE d - TimeWrap

Key(type, m, c) == [type |-> type, mask |-> m, consumed |-> c]

Mouse(type, m, b, n, c) ==
  [type |-> type, mask |-> m, button |-> b, clicks |-> n, consumed |-> c]

(* Each event that is filled in resets reserved before the dispatcher may  *)
(* set it; an input without an event leaves it as it was.                  *)
ReservedAfter(events) ==
  IF events = <<>> THEN reserved ELSE events[Len(events)].consumed

(* The end of both hook procedures: reserved decides on the input, which   *)
(* is swallowed or passed on.                                              *)
Finish(events) ==
  /\ out' = events
  /\ reserved' = ReservedAfter(events)

(* A step without input to a hook procedure.                               *)
Quiet == out' = <<>> /\ UNCHANGED reserved

(* GetKeyState() and the pointer follow the input that is passed on.       *)
Press(x) == logical' = IF reserved' THEN logical ELSE logical \union {x}

Release(x) == logical' = IF reserved' THEN logical ELSE logical \ {x}

Move(p) ==
  /\ pos' = IF reserved' THEN pos ELSE p
  /\ still' = IF pos' = pos THEN still ELSE {}
-----------------------------------------------------------------------------
(* hook_run() has installed the hooks, called initialize_modifiers() and   *)
(* fired HOOK_ENABLED, for the first time in this process.                 *)
Init ==
  /\ keys \in SUBSET Keys /\ held \in SUBSET Buttons
  /\ logical = keys \union held
  /\ pos \in Points
  /\ now = StartTime
  /\ running = TRUE /\ hooked = {"keyboard", "mouse"}
  /\ current_modifiers = InitializeModifiers(logical)
  /\ click_count = 0 /\ click_time = 0 /\ click_button = 0 /\ last_click = 0
  /\ reserved \in BOOLEAN
  /\ out = <<>>
  /\ stale = held \intersect ExtraButtons /\ still = {} /\ presses = <<>>

(* keyboard_hook_event_proc(): process_key_pressed(), also for the repeats *)
(* of a key that is down.  keycode_to_unicode() gives up to two units.     *)
KeyDown(k, chars, c) ==
  LET m == current_modifiers \union KeyBits(k) IN
  /\ "keyboard" \in hooked
  /\ chars > 0 => k \in CharKeys
  /\ keys' = keys \union {k}
  /\ current_modifiers' = m
  /\ Finish(<<Key("KEY_PRESSED", m, c[1])>> \o
            IF c[1] THEN <<>> ELSE [i \in 1..chars |-> Key("KEY_TYPED", m, c[i + 1])])
  /\ Press(k)
  /\ stale' = stale \ {k}
  /\ UNCHANGED <<held, pos, now, running, hooked, clickVars, still, presses>>

(* ... and process_key_released().                                         *)
KeyUp(k, c) ==
  LET m == current_modifiers \ KeyBits(k) IN
  /\ "keyboard" \in hooked /\ k \in keys
  /\ keys' = keys \ {k}
  /\ current_modifiers' = m
  /\ Finish(<<Key("KEY_RELEASED", m, c)>>)
  /\ Release(k)
  /\ stale' = stale \ {k}
  /\ UNCHANGED <<held, pos, now, running, hooked, clickVars, still, presses>>

CountPress(n) ==
  IF n = click_button /\ Elapsed <= MultiClick
  THEN IF click_count < ClickMax THEN click_count + 1 ELSE click_count
  ELSE 1

(* mouse_hook_event_proc(): process_button_pressed().                      *)
ButtonDown(b, c) ==
  LET m == current_modifiers \union ButtonBits(b) IN
  /\ "mouse" \in hooked /\ b \notin held /\ Len(presses) < MaxPresses
  /\ held' = held \union {b}
  /\ current_modifiers' = m
  /\ click_count' = CountPress(PressNumber(b))
  /\ click_button' = PressNumber(b)
  /\ click_time' = Timestamp
  /\ last_click' = pos
  /\ Finish(<<Mouse("MOUSE_PRESSED", m, PressNumber(b), click_count', c)>>)
  /\ Press(b)
  /\ stale' = stale \ {b}
  /\ still' = still \union {b}
  /\ presses' = Append(presses, [button |-> b, time |-> now])
  /\ UNCHANGED <<keys, pos, now, running, hooked>>

(* Mutant: a counter that was reset suppresses the click.                  *)
IsCountedClick == last_click = pos /\ click_count # 0

(* A release is a click at the point of the last press, of any button.     *)
IsClick == last_click = pos

(* process_button_released(): the time is the release's own, event.time.   *)
ButtonUp(b, c) ==
  LET m == current_modifiers \ ButtonBits(b)
      n == ReleaseNumber(b)
  IN
  /\ "mouse" \in hooked /\ b \in held
  /\ held' = held \ {b}
  /\ current_modifiers' = m
  /\ Finish(<<Mouse("MOUSE_RELEASED", m, n, click_count, c[1])>> \o
            IF c[1] \/ ~IsClick THEN <<>>
            ELSE <<Mouse("MOUSE_CLICKED", m, n, click_count, c[2])>>)
  /\ click_count' = IF n = click_button /\ Elapsed > MultiClick THEN 0 ELSE click_count
  /\ Release(b)
  /\ stale' = stale \ {b}
  /\ still' = still \ {b}
  /\ UNCHANGED <<keys, pos, now, running, hooked, click_time, click_button, last_click, presses>>

(* process_mouse_moved(): a move onto the point of the last click fires    *)
(* nothing, and resets nothing.                                            *)
MouseMoved(p, c) ==
  LET type == IF current_modifiers \intersect ButtonMasks # {}
              THEN "MOUSE_DRAGGED" ELSE "MOUSE_MOVED"
      n == IF click_count # 0 /\ Elapsed > MultiClick THEN 0 ELSE click_count
  IN
  /\ "mouse" \in hooked
  /\ IF p # last_click
     THEN click_count' = n /\ Finish(<<Mouse(type, current_modifiers, 0, n, c)>>)
     ELSE Finish(<<>>) /\ UNCHANGED click_count
  /\ Move(p)
  /\ UNCHANGED <<keys, held, logical, now, running, hooked, current_modifiers, click_time,
                 click_button, last_click, stale, presses>>

(* process_mouse_wheel(): if the wheel's settings cannot be read, the      *)
(* event is dropped and the input swallowed.                               *)
MouseWheel(read, c) ==
  /\ "mouse" \in hooked
  /\ click_count' = 1 /\ click_button' = 0
  /\ IF read
     THEN Finish(<<Mouse("MOUSE_WHEEL", current_modifiers, 0, 1, c)>>)
     ELSE out' = <<>> /\ reserved' = TRUE
  /\ presses' = <<>>
  /\ UNCHANGED <<userVars, running, hooked, current_modifiers, click_time, last_click, stale,
                 still>>
-----------------------------------------------------------------------------
(* Windows drops a hook, and input goes unseen.                            *)
HookTimeout(k) ==
  /\ k \in hooked /\ hooked' = hooked \ {k}
  /\ Quiet
  /\ UNCHANGED <<userVars, running, current_modifiers, clickVars, historyVars>>

UnseenKey(k) ==
  /\ "keyboard" \notin hooked
  /\ \/ keys' = keys \union {k} /\ logical' = logical \union {k}
     \/ keys' = keys \ {k} /\ logical' = logical \ {k}
  /\ stale' = stale \union {k}
  /\ Quiet
  /\ UNCHANGED <<held, pos, now, running, hooked, current_modifiers, clickVars, still, presses>>

UnseenButton(b) ==
  /\ "mouse" \notin hooked
  /\ \/ held' = held \union {b} /\ logical' = logical \union {b}
     \/ held' = held \ {b} /\ logical' = logical \ {b}
  /\ stale' = stale \union {b}
  /\ still' = still \ {b}
  /\ Quiet
  /\ UNCHANGED <<keys, pos, now, running, hooked, current_modifiers, clickVars, presses>>

UnseenMove(p) ==
  /\ "mouse" \notin hooked /\ pos' = p
  /\ still' = IF p = pos THEN still ELSE {}
  /\ Quiet
  /\ UNCHANGED <<keys, held, logical, now, running, hooked, current_modifiers, clickVars, stale,
                 presses>>

Tick ==
  /\ now < MaxTime /\ now' = now + 1
  /\ Quiet
  /\ UNCHANGED <<keys, held, logical, pos, running, hooked, current_modifiers, clickVars,
                 historyVars>>

(* The modifiers are read again.  Afterwards the mask is wrong only about  *)
(* what GetKeyState() does not know.                                       *)
ReadModifiers ==
  /\ current_modifiers' = InitializeModifiers(logical)
  /\ stale' = (logical \ (keys \union held)) \union ((keys \union held) \ logical)
              \union (held \intersect ExtraButtons)

(* win_hook_event_proc(): the hooks are reinstalled, or not.               *)
WinHookEventProc ==
  /\ running /\ UNCHANGED running
  /\ hooked' \in SUBSET {"keyboard", "mouse"}
  /\ ReadModifiers
  /\ Quiet
  /\ UNCHANGED <<userVars, clickVars, still, presses>>

(* HOOK_ENABLED and HOOK_DISABLED use the static event, too.               *)
FireStatus == out' = <<>> /\ reserved' \in BOOLEAN

(* hook_run() returns, and is called again, in the same process: the click *)
(* counter, the point of the last click and the static event survive.  (A  *)
(* call that cannot install its hooks fires HOOK_DISABLED and no more.)    *)
HookReturns ==
  /\ running /\ running' = FALSE
  /\ hooked' = {}
  /\ FireStatus
  /\ UNCHANGED <<userVars, current_modifiers, clickVars, historyVars>>

HookRun ==
  /\ ~running /\ running' = TRUE
  /\ hooked' = {"keyboard", "mouse"}
  /\ ReadModifiers
  /\ FireStatus
  /\ UNCHANGED <<userVars, clickVars, still, presses>>
-----------------------------------------------------------------------------
Seen ==
  \/ \E k \in Keys, chars \in 0..2, c \in [1..3 -> BOOLEAN] : KeyDown(k, chars, c)
  \/ \E k \in Keys, c \in BOOLEAN : KeyUp(k, c)
  \/ \E b \in Buttons, c \in BOOLEAN : ButtonDown(b, c)
  \/ \E b \in Buttons, c \in [1..2 -> BOOLEAN] : ButtonUp(b, c)
  \/ \E p \in Points, c \in BOOLEAN : MouseMoved(p, c)
  \/ \E read, c \in BOOLEAN : MouseWheel(read, c)

Unseen ==
  \/ \E k \in {"keyboard", "mouse"} : HookTimeout(k)
  \/ \E k \in Keys : UnseenKey(k)
  \/ \E b \in Buttons : UnseenButton(b)
  \/ \E p \in Points : UnseenMove(p)

Next == Seen \/ Unseen \/ Tick \/ WinHookEventProc \/ HookReturns \/ HookRun

Spec == Init /\ [][Next]_vars
-----------------------------------------------------------------------------
Dispatched == {out[i] : i \in DOMAIN out}

(* The mask follows the keyboard: the bit of a modifier or lock key is set *)
(* exactly while the key is down, through auto-repeat, lost hooks, their   *)
(* reinstallation and another hook_run(); the exceptions are what changed  *)
(* while no hook was there, until the hook sees it or the modifiers are    *)
(* read again, and what was swallowed when they are read.                  *)
ModifiersTracked ==
  \A k \in (Keys \intersect (ModifierKeys \union LockKeys)) \ stale :
     k \in current_modifiers <=> k \in keys

(* Motion is reported as a drag exactly while a button is down, under the  *)
(* same exceptions.                                                        *)
DragsTracked ==
  \A e \in Dispatched :
    /\ e.type = "MOUSE_MOVED" => held \subseteq stale
    /\ e.type = "MOUSE_DRAGGED" => held # {} \/ stale # {}

(* The presses in `presses' that end in the last one and each follow their *)
(* predecessor on the same button within the multi-click time.             *)
RunLength ==
  LET n == Len(presses)
      IsRun(j) == \A i \in j + 1 .. n :
                    /\ presses[i].button = presses[i - 1].button
                    /\ presses[i].time - presses[i - 1].time <= MultiClick
  IN n + 1 - (CHOOSE j \in 1..n : IsRun(j) /\ \A i \in 1..n : IsRun(i) => j <= i)

(* The click count of MOUSE_PRESSED is the number of presses of this       *)
(* button in a row, each within the multi-click time of the one before,    *)
(* also while the clock wraps and over the end of a run; it stops at       *)
(* USHRT_MAX.                                                              *)
ClicksCountPresses ==
  \A e \in Dispatched :
    e.type = "MOUSE_PRESSED" =>
      e.clicks = IF RunLength < ClickMax THEN RunLength ELSE ClickMax

(* A button pressed and released while the pointer stayed where it was     *)
(* (no move, seen or unseen, or only swallowed ones) is a click unless its *)
(* release is consumed, whatever was dragged before and whichever buttons, *)
(* wheels and calls of hook_run() come in between.                         *)
StillReleaseClicks ==
  [][\A b \in still, c \in [1..2 -> BOOLEAN] :
       ButtonUp(b, c) /\ ~c[1] => \E i \in DOMAIN out' : out'[i].type = "MOUSE_CLICKED"]_vars

=============================================================================
