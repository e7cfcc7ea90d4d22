---------------------------- MODULE WindowsPost -----------------------------
(***************************************************************************)
(* hook_post_event() of the Windows back end.  An event is one call of     *)
(* SendInput(), and a button two: the function first posts a motion to the *)
(* button's position, by calling itself with the caller's event turned     *)
(* into that motion.  Nothing is locked.  Memory may be short, and the     *)
(* system may refuse an input; hook_post_event() goes on.                  *)
(***************************************************************************)
EXTENDS PostEvent

CONSTANTS
  Keycode,      \* the table of scancode_to_keycode(), 0 for no key
  ScreenWidth   \* what GetSystemMetrics() answers, in 16 bits

VARIABLES
  input,        \* each thread's INPUT
  asked         \* history: the event as each thread passed it

windowsVars == <<input, asked>>
vars == <<postVars, windowsVars>>

NoButton == 0
Unit == 65536

Init ==
  /\ PostInit
  /\ input = [t \in Threads |-> NoEvent]
  /\ asked = [t \in Threads |-> NoEvent]
-----------------------------------------------------------------------------
(* The screen in 65536 steps.                                              *)
convert_to_relative_position(coordinate, screen_size) ==
  (coordinate * Unit) \div screen_size + (IF coordinate > 0 THEN 1 ELSE -1)

(* The pixel at which the system puts the pointer.                         *)
Landed(n, screen_size) == IF n < 0 THEN 0 ELSE (n * screen_size) \div Unit

(* What the INPUT of a button says: which one, and up or down.             *)
ButtonData(n) ==
  CASE n = 1 -> <<"left", 0>> [] n = 2 -> <<"right", 0>> [] n = 3 -> <<"middle", 0>>
    [] OTHER -> <<"x", n - 3>>

ButtonInput(e) ==
  [down |-> e.type = "MOUSE_PRESSED", item |-> ButtonData(e.button)]
KeyInput(e) ==
  [down |-> e.type = "KEY_PRESSED", item |-> Key(Keycode[e.key])]
MotionInput(e) ==
  [to |-> convert_to_relative_position(e.at, ScreenWidth)]

-----------------------------------------------------------------------------
(* calloc() may fail.                                                      *)
HookPostEvent(t, e) ==
  /\ \/ /\ Call(t, e, "map") /\ Refuse
        /\ asked' = [asked EXCEPT ![t] = e]
     \/ /\ CallReturns(t) /\ Lose(e)
        /\ UNCHANGED asked
  /\ UNCHANGED input

Finish(t) ==
  /\ Return(t)
  /\ input' = [input EXCEPT ![t] = NoEvent]
  /\ asked' = [asked EXCEPT ![t] = NoEvent]
  /\ UNCHANGED <<overlap, posts>>

(* map_keyboard_event() and map_mouse_event(): a key that is not in the    *)
(* table, no button, and an event that is not for posting end here.        *)
Unmappable(e) ==
  \/ e.type \in KeyTypes /\ Keycode[e.key] = 0
  \/ e.type \in ButtonTypes /\ e.button = NoButton
  \/ e.type \notin KeyTypes \union ButtonTypes \union {"MOUSE_MOVED", "MOUSE_WHEEL"}

RefuseEvent(t) ==
  /\ pc[t] = "map" /\ Unmappable(event[t])
  /\ Finish(t)
  /\ Refuse

MapEvent(t) ==
  LET e == event[t]
  IN
  /\ pc[t] = "map" /\ ~Unmappable(e) /\ e.type \notin ButtonTypes
  /\ input' = [input EXCEPT ![t] = CASE e.type \in KeyTypes -> KeyInput(e)
                                     [] e.type = "MOUSE_MOVED" -> MotionInput(e)
                                     [] OTHER -> [wheel |-> e.up]]
  /\ Goto(t, "send")
  /\ UNCHANGED <<event, systemVars, historyVars, overlap, posts, asked>>

(* The caller's event becomes a motion ...                                 *)
MapButton(t) ==
  LET e == event[t]
  IN
  /\ pc[t] = "map" /\ ~Unmappable(e) /\ e.type \in ButtonTypes
  /\ input' = [input EXCEPT ![t] = ButtonInput(e)]
  /\ event' = [event EXCEPT ![t].type = "MOUSE_MOVED"]
  /\ Goto(t, "motion")
  /\ UNCHANGED <<systemVars, historyVars, overlap, posts, asked>>

(* ... that hook_post_event() posts, if it can, and then a press (whatever *)
(* it was).                                                                *)
PostMotion(t) ==
  /\ pc[t] = "motion" /\ Goto(t, "send")
  /\ \/ /\ pos' = Landed(MotionInput(event[t]).to, ScreenWidth)
        /\ UNCHANGED <<down, historyVars>>
     \/ Lose(asked[t])
  /\ event' = [event EXCEPT ![t].type = "MOUSE_PRESSED"]
  /\ UNCHANGED <<overlap, posts, windowsVars>>

(* Mutant: the button is taken from the event after the motion.            *)
SendInputLate(t) ==
  /\ pc[t] = "send" /\ Finish(t)
  /\ CASE Asks(asked[t]) -> Take(asked[t], event[t].type \in PressTypes, input[t].item, pos)
       [] OTHER -> Refuse

SendInput(t) ==
  /\ pc[t] = "send" /\ Finish(t)
  /\ \/ Asks(asked[t]) /\ Take(asked[t], input[t].down, input[t].item, pos)
     \/ /\ asked[t].type = "MOUSE_MOVED"
        /\ pos' = Landed(input[t].to, ScreenWidth)
        /\ UNCHANGED <<down, historyVars>>
     \/ asked[t].type = "MOUSE_WHEEL" /\ Refuse
     \/ Lose(asked[t])

PostStep(t) ==
  \/ RefuseEvent(t) \/ MapEvent(t) \/ MapButton(t) \/ PostMotion(t) \/ SendInput(t)

Next == \E t \in Threads : PostStep(t) \/ \E e \in Events : HookPostEvent(t, e)
-----------------------------------------------------------------------------
(* What is held is what was posted, as far as the system took it.          *)
HeldIsPosted ==
  /\ \A k \in Keys : Keycode[k] # 0 => (Key(Keycode[k]) \in down <=> Key(k) \in posted)
  /\ \A n \in Buttons \ {NoButton} : ButtonData(n) \in down <=> Button(n) \in posted

=============================================================================
