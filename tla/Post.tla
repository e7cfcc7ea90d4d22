-------------------------------- MODULE Post --------------------------------
(***************************************************************************)
(* hook_post_event() of the back end the library was built for: one of the *)
(* three, for a whole behaviour.                                           *)
(***************************************************************************)
EXTENDS PostEvent

CONSTANTS
  HookThread, PointerMap, X11Keycode,       \* of X11Post,
  WindowsKeycode, ScreenWidth,              \* of WindowsPost
  DarwinKeycode, Modifier,                  \* and of DarwinPost
  X11Events, WindowsEvents, DarwinEvents    \* the events that are posted

ASSUME GivenAssumption ==
  /\ X11Events \subseteq Events /\ WindowsEvents \subseteq Events /\ DarwinEvents \subseteq Events
ASSUME ThreadsAssumption == HookThread \in Threads /\ "none" \notin Threads

(* scancode_to_keycode() answers for every code.  The keys of a modifier   *)
(* are in Darwin's table, and GetSystemMetrics() is cut to 16 bits.        *)
ASSUME TablesAssumption ==
  /\ X11Keycode \in [BOOLEAN -> [Keys -> Nat]]
  /\ WindowsKeycode \in [Keys -> Nat]
  /\ DarwinKeycode \in [Keys -> Nat]
  /\ \A k \in Keys : Modifier[k] # "none" => DarwinKeycode[k] # 255
ASSUME ScreenAssumption == ScreenWidth \in 1..65535

VARIABLES
  platform,
  display, lock, hook, is_evdev, keyboard_map, mouse_button_map, button, table, split,
  caught, wild,
  input, asked,
  current_modifier_mask, current_motion_event, current_motion_button, register, flags, motion,
  chord

X11 == INSTANCE X11Post WITH Keycode <- X11Keycode
Windows == INSTANCE WindowsPost WITH Keycode <- WindowsKeycode
Darwin == INSTANCE DarwinPost WITH Keycode <- DarwinKeycode

x11Vars == <<display, lock, hook, is_evdev, keyboard_map, mouse_button_map, button, table, split,
             caught, wild>>
windowsVars == <<input, asked>>
darwinVars == <<current_modifier_mask, current_motion_event, current_motion_button, register,
                flags, motion, chord>>
backEndVars == <<platform, postVars, x11Vars, windowsVars, darwinVars>>

BackEndInit ==
  /\ platform \in {"x11", "windows", "darwin"}
  /\ Windows!Init /\ Darwin!Init /\ X11!Init
  /\ platform # "x11" => display

PostStep(t) ==
  \/ /\ platform = "x11" /\ X11!PostStep(t)
     /\ UNCHANGED <<platform, windowsVars, darwinVars>>
  \/ /\ platform = "windows" /\ Windows!PostStep(t)
     /\ UNCHANGED <<platform, x11Vars, darwinVars>>
  \/ /\ platform = "darwin" /\ Darwin!PostStep(t)
     /\ UNCHANGED <<platform, x11Vars, windowsVars>>

HookPostEvent(t) ==
  \/ /\ platform = "x11" /\ \E e \in X11Events : X11!HookPostEvent(t, e)
     /\ UNCHANGED <<platform, windowsVars, darwinVars>>
  \/ /\ platform = "windows" /\ \E e \in WindowsEvents : Windows!HookPostEvent(t, e)
     /\ UNCHANGED <<platform, x11Vars, darwinVars>>
  \/ /\ platform = "darwin" /\ \E e \in DarwinEvents : Darwin!HookPostEvent(t, e)
     /\ UNCHANGED <<platform, x11Vars, windowsVars>>

Helper ==
  /\ platform = "x11" /\ X11!Helper
  /\ UNCHANGED <<platform, windowsVars, darwinVars>>

BackEndNext == Helper \/ \E t \in Threads : PostStep(t) \/ HookPostEvent(t)

(* A thread that is in hook_post_event() goes on.                          *)
BackEndSpec ==
  BackEndInit /\ [][BackEndNext]_backEndVars /\ \A t \in Threads : WF_backEndVars(PostStep(t))
-----------------------------------------------------------------------------
(* A button is pressed or released where the caller asked for it.  X11's   *)
(* lock of the display keeps every other motion out; Windows' two calls of *)
(* SendInput() have none, so there it takes posts that do not overlap.     *)
PressedAtPosition ==
  platform = "x11" \/ (~overlap /\ lost = {}) => click.found = click.asked

(* What the system holds down is what the callers hold down.               *)
HeldIsPosted ==
  /\ platform = "x11" => X11!HeldIsPosted
  /\ platform = "windows" => Windows!HeldIsPosted
  /\ platform = "darwin" => Darwin!HeldIsPosted

(* A wheel event that X11 maps has the button map it found, unless a hook  *)
(* freed it at that moment: hooks that come and go leave no pointer to     *)
(* freed memory, and none to a map that was never filled.                  *)
MapIsLive == platform = "x11" => X11!MapIsLive

(* The account Darwin's back end keeps of modifiers and dragging is what   *)
(* the posted events amount to.                                            *)
StateFollowsPosts == platform = "darwin" => Darwin!StateFollowsPosts

(* hook_post_event() returns: no path leaves the display locked.  (Or the  *)
(* process has ended, at a button map that was freed under a post.)        *)
PostsReturn == \A t \in Threads : pc[t] # "idle" ~> pc[t] = "idle" \/ ~X11!Alive

=============================================================================
