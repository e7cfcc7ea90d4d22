------------------------------ MODULE X11Input ------------------------------
(***************************************************************************)
(* How hook_event_proc() of the X11 back end turns recorded X events into  *)
(* uiohook events: the modifier mask, the click counter and the drag flag  *)
(* it keeps in hook_info, and the events it dispatches.                    *)
(*                                                                         *)
(* The other side is the X server: the keys and buttons that are down and  *)
(* the locks that are lit.  The hook reads them once, in the three steps   *)
(* of its start (the xkb state, XQueryKeymap, XQueryPointer), and then     *)
(* follows the recorded events.  What happens between those reads and the  *)
(* moment recording begins reaches it through neither.                     *)
(***************************************************************************)
EXTENDS Integers, Sequences

CONSTANTS
  Keys,         \* the keys of the keyboard, each named for what it is
  Buttons,      \* the X buttons of the pointer
  PointerMap,   \* XGetPointerMapping()
  HeldAtStart,  \* may keys and buttons be down when hook_run() is called?
  MultiClick,   \* hook_get_multi_click_time()
  ClickMax,     \* USHRT_MAX
  TimeWrap,     \* the X server's clock counts modulo 2^32
  MaxTime,      \* bound on the real time
  MaxPresses    \* bound on the button presses remembered in `presses'

ModifierKeys == {"SHIFT_L", "SHIFT_R", "CTRL_L", "CTRL_R",
                 "ALT_L", "ALT_R", "META_L", "META_R"}
LockKeys == {"NUM_LOCK", "CAPS_LOCK", "SCROLL_LOCK"}
KeypadKeys == {"KP_0", "KP_1", "KP_SEPARATOR"}
CharKeys == {"A", "EMOJI"}

WheelUp == 4
WheelDown == 5
WheelLeft == 6
WheelRight == 7

ASSUME KeysAssumption == Keys \subseteq ModifierKeys \union LockKeys \union KeypadKeys \union CharKeys
ASSUME ButtonsAssumption ==
  /\ Buttons \subseteq Nat \ {0}
  /\ PointerMap \in [Buttons -> Nat \ {0}]
ASSUME StartAssumption == HeldAtStart \in BOOLEAN
ASSUME ClickAssumption == MultiClick \in Nat /\ ClickMax \in Nat \ {0}
ASSUME TimeAssumption == TimeWrap \in Nat \ {0} /\ MaxTime \in Nat /\ MaxPresses \in Nat

VARIABLES
  phase,        \* how far hook_run() is: what it has read, or "live"
  keys,         \* keys that are down
  held,         \* buttons that are down
  server,       \* the server's xkb state: the locks, and the ones a release will unlock
  now,          \* real time
  keymap,       \* what XQueryKeymap() returned
  state,        \* the hook's own xkb state
  mask,         \* hook->input.mask
  is_dragged,   \* hook->input.mouse.is_dragged
  count, time, button,  \* hook->input.mouse.click
  out,          \* the events dispatched for the last record
  stale,        \* history: keys that changed unrecorded and were not recorded since
  pressed,      \* history: buttons whose press was recorded and that are still down
  moved,        \* history: those of them that saw a recorded motion since
  presses,      \* history: recorded presses since the last wheel event
  initHeld      \* history: buttons down when XQueryPointer() answered

serverVars  == <<keys, held, server, now>>
startVars   == <<phase, keymap>>
mouseVars   == <<is_dragged, count, time, button>>
historyVars == <<stale, pressed, moved, presses, initHeld>>
vars == <<startVars, serverVars, state, mask, mouseVars, out, historyVars>>
-----------------------------------------------------------------------------
(* Virtual buttons 1..5 and their masks.                                   *)
MouseButton == 0..5
ButtonMasks == {"BUTTON1", "BUTTON2", "BUTTON3", "BUTTON4", "BUTTON5"}
Masks == ModifierKeys \union LockKeys \union ButtonMasks

XkbStates == [locked : SUBSET LockKeys, unlock : SUBSET LockKeys]

(* UTF-16 code units: the zero of a key without a character, a character   *)
(* of the basic plane, the halves of a surrogate pair.                     *)
Characters == {"zero", "bmp", "high", "low"}

KeyEvents == [type : {"KEY_PRESSED", "KEY_RELEASED", "KEY_TYPED"},
              mask : SUBSET Masks, key : Keys \union {"UNDEFINED"},
              alternate : BOOLEAN, char : Characters \union {"UNDEFINED"}]
MouseEvents == [type : {"MOUSE_PRESSED", "MOUSE_RELEASED", "MOUSE_CLICKED",
                        "MOUSE_MOVED", "MOUSE_DRAGGED"},
                mask : SUBSET Masks, button : MouseButton, clicks : 0..ClickMax]
WheelEvents == [type : {"MOUSE_WHEEL"}, mask : SUBSET Masks, clicks : {1},
                rotation : {-1, 1}, direction : {"VERTICAL", "HORIZONTAL"}]

TypeOK ==
  /\ phase \in {"keymap", "pointer", "armed", "live"}
  /\ keys \subseteq Keys /\ keymap \subseteq Keys /\ stale \subseteq Keys
  /\ held \subseteq Buttons /\ pressed \subseteq Buttons /\ moved \subseteq Buttons
  /\ initHeld \subseteq Buttons
  /\ server \in XkbStates /\ state \in XkbStates
  /\ now \in Nat /\ time \in Nat
  /\ mask \subseteq Masks
  /\ is_dragged \in BOOLEAN
  /\ count \in 0..ClickMax
  /\ button \in MouseButton
  /\ out \in Seq(KeyEvents \union MouseEvents \union WheelEvents)
  /\ presses \in Seq([button : Buttons, time : Nat])

(* hook_run() has zeroed the input state and create_xkb_state() has copied *)
(* which locks are lit, but not what the release of a key that is already  *)
(* down will do to them.                                                   *)
Init ==
  /\ phase = "keymap"
  /\ keys \in IF HeldAtStart THEN SUBSET Keys ELSE {{}}
  /\ held \in IF HeldAtStart THEN SUBSET Buttons ELSE {{}}
  /\ \E locked \in SUBSET (LockKeys \intersect Keys) :
       /\ \E unlock \in SUBSET (locked \intersect keys) :
            server = [locked |-> locked, unlock |-> unlock]
       /\ state = [locked |-> locked, unlock |-> {}]
  /\ now = 0 /\ time = 0
  /\ keymap = {} /\ mask = {}
  /\ is_dragged = FALSE /\ count = 0 /\ button = 0
  /\ out = <<>>
  /\ stale = keys \intersect LockKeys /\ pressed = {} /\ moved = {} /\ presses = <<>> /\ initHeld = {}
-----------------------------------------------------------------------------
(* xkb_state_update_key(): a lock is lit by a press and put out by the     *)
(* release of the next one.                                                *)
XkbDown(st, k) ==
  IF k \in st.locked THEN [st EXCEPT !.unlock = @ \union ({k} \intersect LockKeys)]
                     ELSE [st EXCEPT !.locked = @ \union ({k} \intersect LockKeys)]

XkbUp(st, k) ==
  [locked |-> st.locked \ (st.unlock \intersect {k}), unlock |-> st.unlock \ {k}]

(* The mask of a key, if it is a modifier.                                 *)
ModifierBit(k) == {k} \intersect ModifierKeys

(* initialize_locks(): the lock bits are replaced by the lit ones.         *)
WithLocks(m, st) == (m \ LockKeys) \union st.locked

(* button_map_lookup(): the pointer map, and X's buttons 2 and 3 swapped.  *)
ButtonMapLookup(d) ==
  CASE PointerMap[d] = 2 -> 3 [] PointerMap[d] = 3 -> 2 [] OTHER -> PointerMap[d]

VirtualButton(d) ==
  CASE ButtonMapLookup(d) \in 1..3 -> ButtonMapLookup(d)
    [] ButtonMapLookup(d) \in {8, 9} -> ButtonMapLookup(d) - 4
    [] OTHER -> 0

ButtonMask(n) == <<"BUTTON1", "BUTTON2", "BUTTON3", "BUTTON4", "BUTTON5">>[n]

(* Mutant: the extra buttons set no bit.                                   *)
MaskOfPlain(d) ==
  IF VirtualButton(d) \in 1..3 THEN {ButtonMask(VirtualButton(d))} ELSE {}

(* The bit a button sets and clears: both extra buttons use BUTTON5.       *)
MaskOf(d) ==
  CASE VirtualButton(d) = 0 -> {}
    [] VirtualButton(d) \in 1..3 -> {ButtonMask(VirtualButton(d))}
    [] OTHER -> {"BUTTON5"}

IsWheel(d) == ButtonMapLookup(d) \in {WheelUp, WheelDown, WheelLeft, WheelRight}

(* The time stamp of a record, and the time since the last counted press.  *)
Timestamp == now % TimeWrap

Elapsed == Timestamp - time

(* A keypad key is reported as its alternate code when NUM_LOCK is off.    *)
Key(type, m, k, char) ==
  [type |-> type, mask |-> m, key |-> k,
   alternate |-> k \in KeypadKeys /\ "NUM_LOCK" \notin m, char |-> char]

Mouse(type, m, b, n) == [type |-> type, mask |-> m, button |-> b, clicks |-> n]
-----------------------------------------------------------------------------
(* initialize_modifiers().                                                 *)
QueryKeymap ==
  /\ phase = "keymap" /\ phase' = "pointer"
  /\ keymap' = keys
  /\ UNCHANGED <<serverVars, state, mask, mouseVars, out, historyVars>>

(* The X modifier that both keys of a pair set, and the buttons X knows a  *)
(* state bit for; the bit of X button n becomes the mask of button n.      *)
Partner(k) ==
  CASE k \in {"SHIFT_L", "SHIFT_R"} -> {"SHIFT_L", "SHIFT_R"}
    [] k \in {"CTRL_L", "CTRL_R"}   -> {"CTRL_L", "CTRL_R"}
    [] k \in {"ALT_L", "ALT_R"}     -> {"ALT_L", "ALT_R"}
    [] k \in {"META_L", "META_R"}   -> {"META_L", "META_R"}
    [] OTHER -> {}

(* Mutant: the keymap is not asked which key of a pair it is.              *)
QueriedPairs(down) == {k \in ModifierKeys : Partner(k) \intersect down # {}}

QueriedKeys(down) ==
  {k \in keymap \intersect ModifierKeys : Partner(k) \intersect down # {}}

QueryPointer ==
  /\ phase = "pointer" /\ phase' = "armed"
  /\ mask' = WithLocks(QueriedKeys(keys) \union {ButtonMask(d) : d \in held \intersect 1..5},
                       state)
  /\ initHeld' = held
  /\ UNCHANGED <<keymap, serverVars, state, mouseVars, out, stale, pressed, moved, presses>>

QueryPointerFails ==
  /\ phase = "pointer" /\ phase' = "armed"
  /\ mask' = WithLocks(keymap \intersect ModifierKeys, state)
  /\ UNCHANGED <<keymap, serverVars, state, mouseVars, out, historyVars>>

(* The record context is enabled: from here on every event is recorded.    *)
StartRecording ==
  /\ phase = "armed" /\ phase' = "live"
  /\ UNCHANGED <<keymap, serverVars, state, mask, mouseVars, out, historyVars>>
-----------------------------------------------------------------------------
(* The user acts on the server before recording has begun.                 *)
UnrecordedKey(k) ==
  /\ phase # "live"
  /\ \/ k \notin keys /\ keys' = keys \union {k} /\ server' = XkbDown(server, k)
     \/ k \in keys /\ keys' = keys \ {k} /\ server' = XkbUp(server, k)
  /\ stale' = IF phase = "keymap" /\ k \notin LockKeys THEN stale ELSE stale \union {k}
  /\ UNCHANGED <<startVars, held, now, state, mask, mouseVars, out, pressed, moved,
                 presses, initHeld>>

UnrecordedButton(d) ==
  /\ phase # "live"
  /\ \/ d \notin held /\ held' = held \union {d}
     \/ d \in held /\ held' = held \ {d}
  /\ UNCHANGED <<startVars, keys, server, now, state, mask, mouseVars, out, historyVars>>

Tick ==
  /\ now < MaxTime /\ now' = now + 1
  /\ UNCHANGED <<startVars, keys, held, server, state, mask, mouseVars, out, historyVars>>
-----------------------------------------------------------------------------
(* hook_event_proc(), one action for each kind of record.  `consumed' is   *)
(* whether the dispatcher sets event.reserved; it only decides whether the *)
(* event that follows is sent, nothing stops the X event itself.           *)

(* keycode_to_unicode(): a key without a character has code point 0, which *)
(* is taken for a character of the basic plane.                            *)
KeycodeToUnicode(k) ==
  CASE k = "EMOJI" -> <<"high", "low">> [] k = "A" -> <<"bmp">> [] OTHER -> <<"zero">>

(* KeyPress, which auto-repeat sends again for a key that is down.         *)
KeyPress(k, consumed) ==
  LET st == XkbDown(state, k)
      m == WithLocks(mask \union ModifierBit(k), st)
      chars == KeycodeToUnicode(k)
  IN
  /\ phase = "live"
  /\ k \in keys => k \notin LockKeys
  /\ keys' = keys \union {k}
  /\ server' = XkbDown(server, k)
  /\ state' = st
  /\ mask' = m
  /\ out' = <<Key("KEY_PRESSED", m, k, "UNDEFINED")>> \o
            IF consumed THEN <<>>
            ELSE [i \in DOMAIN chars |-> Key("KEY_TYPED", m, "UNDEFINED", chars[i])]
  /\ stale' = IF k \in LockKeys THEN stale ELSE stale \ {k}
  /\ UNCHANGED <<startVars, held, now, mouseVars, pressed, moved, presses, initHeld>>

KeyRelease(k) ==
  LET st == XkbUp(state, k)
      m == WithLocks(mask \ ModifierBit(k), st)
  IN
  /\ phase = "live" /\ k \in keys
  /\ keys' = keys \ {k}
  /\ server' = XkbUp(server, k)
  /\ state' = st
  /\ mask' = m
  /\ out' = <<Key("KEY_RELEASED", m, k, "UNDEFINED")>>
  /\ stale' = IF k \in LockKeys THEN stale ELSE stale \ {k}
  /\ UNCHANGED <<startVars, held, now, mouseVars, pressed, moved, presses, initHeld>>

(* ButtonPress of a wheel button: the click counter is reset to 1 and the  *)
(* previous button to MOUSE_NOBUTTON; the time of the last press stays.    *)
(* What is a wheel is decided by the pointer map, rotation and direction   *)
(* by the button as it was recorded.                                       *)
WheelPress(d) ==
  /\ phase = "live" /\ d \notin held /\ IsWheel(d)
  /\ held' = held \union {d}
  /\ count' = 1 /\ button' = 0
  /\ out' = <<[type |-> "MOUSE_WHEEL", mask |-> mask, clicks |-> 1,
                rotation |-> IF d \in {WheelUp, WheelLeft} THEN -1 ELSE 1,
                direction |-> IF d \in {WheelUp, WheelDown} THEN "VERTICAL"
                              ELSE "HORIZONTAL"]>>
  /\ presses' = <<>>
  /\ UNCHANGED <<startVars, keys, server, now, state, mask, is_dragged, time,
                 stale, pressed, moved, initHeld>>

(* ... and its release, which the hook ignores.                            *)
WheelRelease(d) ==
  /\ phase = "live" /\ d \in held /\ IsWheel(d)
  /\ held' = held \ {d}
  /\ out' = <<>>
  /\ UNCHANGED <<startVars, keys, server, now, state, mask, mouseVars, historyVars>>

(* Mutant: the button of the previous press is forgotten.                  *)
CountAnyPress(b) ==
  IF Elapsed <= MultiClick
  THEN IF count < ClickMax THEN count + 1 ELSE count
  ELSE 1

(* The click count of a press.                                             *)
CountPress(b) ==
  IF b = button /\ Elapsed <= MultiClick
  THEN IF count < ClickMax THEN count + 1 ELSE count
  ELSE 1

ButtonPress(d) ==
  LET b == VirtualButton(d)
      m == mask \union MaskOf(d)
  IN
  /\ phase = "live" /\ d \notin held /\ ~IsWheel(d) /\ Len(presses) < MaxPresses
  /\ held' = held \union {d}
  /\ mask' = m
  /\ count' = CountPress(b)
  /\ button' = b
  /\ time' = Timestamp
  /\ out' = <<Mouse("MOUSE_PRESSED", m, b, count')>>
  /\ pressed' = pressed \union {d}
  /\ moved' = moved \ {d}
  /\ presses' = Append(presses, [button |-> d, time |-> now])
  /\ UNCHANGED <<startVars, keys, server, now, state, is_dragged, stale, initHeld>>

(* Mutant: a short drag clicks.                                            *)
IsQuickClick(consumed) == ~consumed /\ (is_dragged => Elapsed <= MultiClick)

(* A release that is not consumed is a click, but for the end of a drag.   *)
IsClick(consumed) == ~consumed /\ ~is_dragged

ButtonRelease(d, consumed) ==
  LET b == VirtualButton(d)
      m == mask \ MaskOf(d)
  IN
  /\ phase = "live" /\ d \in held /\ ~IsWheel(d)
  /\ held' = held \ {d}
  /\ mask' = m
  /\ out' = <<Mouse("MOUSE_RELEASED", m, b, count)>> \o
            IF IsClick(consumed) THEN <<Mouse("MOUSE_CLICKED", m, b, count)>> ELSE <<>>
  /\ count' = IF b = button /\ Elapsed > MultiClick THEN 0 ELSE count
  /\ pressed' = pressed \ {d}
  /\ UNCHANGED <<startVars, keys, server, now, state, is_dragged, time, button,
                 stale, moved, presses, initHeld>>

(* A motion is a drag if there is a button in the mask.                    *)
Dragged(m) == m \intersect ButtonMasks # {}

MotionNotify ==
  /\ phase = "live"
  /\ count' = IF count # 0 /\ Elapsed > MultiClick THEN 0 ELSE count
  /\ is_dragged' = Dragged(mask)
  /\ out' = <<Mouse(IF is_dragged' THEN "MOUSE_DRAGGED" ELSE "MOUSE_MOVED", mask, 0, count')>>
  /\ moved' = pressed
  /\ UNCHANGED <<startVars, serverVars, state, mask, time, button, stale, pressed,
                 presses, initHeld>>
-----------------------------------------------------------------------------
Start == QueryKeymap \/ QueryPointer \/ QueryPointerFails \/ StartRecording

Unrecorded == (\E k \in Keys : UnrecordedKey(k)) \/ (\E d \in Buttons : UnrecordedButton(d))

Recorded ==
  \/ \E k \in Keys, consumed \in BOOLEAN : KeyPress(k, consumed)
  \/ \E k \in Keys : KeyRelease(k)
  \/ \E d \in Buttons : WheelPress(d) \/ WheelRelease(d) \/ ButtonPress(d)
  \/ \E d \in Buttons, consumed \in BOOLEAN : ButtonRelease(d, consumed)
  \/ MotionNotify

Next == Start \/ Unrecorded \/ Tick \/ Recorded

Spec == Init /\ [][Next]_vars
-----------------------------------------------------------------------------
Dispatched == {out[i] : i \in DOMAIN out}

(* The mask follows the keyboard: once hook_run() has read it, a modifier  *)
(* bit is set exactly while its key is down, and so in every event that is *)
(* dispatched; the exception is a key that changed after it was read and   *)
(* before recording began, until it is next recorded.                      *)
ModifiersTracked ==
  phase \in {"armed", "live"} =>
    \A k \in (ModifierKeys \intersect Keys) \ stale :
       k \in mask <=> k \in keys

(* The lock bits follow the server's lights under the same exception, even *)
(* though the hook never asks again but replays every key into its own xkb *)
(* state.  A lock key missed once stays wrong, so it stays excepted.       *)
LocksTracked ==
  phase \in {"armed", "live"} =>
    \A k \in (LockKeys \intersect Keys) \ stale :
       k \in mask <=> k \in server.locked

(* The mask the events carry is the keyboard's: its modifiers and locks.   *)
MaskTracked == ModifiersTracked /\ LocksTracked

(* An event carries the mask as it is after the event: pressing SHIFT is   *)
(* reported with SHIFT, releasing it without.                              *)
EventsCarryMask == \A e \in Dispatched : e.mask = mask

(* The presses in `presses' that end in the last one and each follow their *)
(* predecessor on the same button within the multi-click time.             *)
RunLength ==
  LET n == Len(presses)
      IsRun(j) == \A i \in j + 1 .. n :
                    /\ presses[i].button = presses[i - 1].button
                    /\ presses[i].time - presses[i - 1].time <= MultiClick
  IN n + 1 - (CHOOSE j \in 1..n : IsRun(j) /\ \A i \in 1..n : IsRun(i) => j <= i)

(* The click count of MOUSE_PRESSED is the number of presses of this       *)
(* button in a row, each within the multi-click time of the one before,    *)
(* whatever motion, releases and other buttons came in between; it stops   *)
(* at USHRT_MAX.                                                           *)
ClicksCountPresses ==
  \A e \in Dispatched :
    e.type = "MOUSE_PRESSED" =>
      e.clicks = IF RunLength < ClickMax THEN RunLength ELSE ClickMax

(* Motion with a button down, pressed while the hook was recording, is a   *)
(* drag.                                                                   *)
HeldMeansDragged ==
  \A e \in Dispatched :
    e.type = "MOUSE_MOVED" => \A d \in pressed : VirtualButton(d) = 0

(* Motion is a drag only while a button is down, unless buttons were down  *)
(* when the hook was started.                                              *)
DraggedMeansHeld ==
  \A e \in Dispatched :
    e.type = "MOUSE_DRAGGED" => pressed # {} \/ initHeld # {}

(* Motion is a drag exactly while a button is down, but for buttons the    *)
(* hook has no number for and those that were down before it.              *)
DragsTracked == HeldMeansDragged /\ DraggedMeansHeld

(* A click is a press and a release without motion in between: the button  *)
(* of a MOUSE_CLICKED has not moved since its press was recorded.          *)
ClickedWithoutDrag ==
  [][\A d \in pressed \ pressed' :
       VirtualButton(d) # 0 /\ d \in moved =>
         \A i \in DOMAIN out' : out'[i].type # "MOUSE_CLICKED"]_vars

=============================================================================
