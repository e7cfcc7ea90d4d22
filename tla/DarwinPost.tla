----------------------------- MODULE DarwinPost -----------------------------
(***************************************************************************)
(* hook_post_event() of the Darwin back end, in the build for application  *)
(* services.  The system is told with every event which modifiers are held *)
(* and whether a motion drags; hook_post_event() keeps account of that     *)
(* itself, in three static variables that every posting thread reads and   *)
(* writes without a lock, before it knows whether the event can be posted. *)
(***************************************************************************)
EXTENDS PostEvent

CONSTANTS
  Keycode,      \* the table of scancode_to_keycode()
  Modifier      \* key -> the modifier flag it stands for, or "none"

VARIABLES
  current_modifier_mask, current_motion_event, current_motion_button,
  register,     \* what each thread is about to store
  flags,        \* the modifiers of the last key event the system saw
  motion,       \* the last motion the system saw (and what was held then)
  chord         \* history: modifiers with a key posted while another of its keys is held,
                \* and "buttons" if one was posted while another is held

accountVars == <<current_modifier_mask, current_motion_event, current_motion_button>>
seenVars == <<flags, motion, chord>>
darwinVars == <<accountVars, register, seenVars>>
vars == <<postVars, darwinVars>>

None == "none"
kVK_Undefined == 255
NoButton == 0
Moved == "MouseMoved"
NoValue == [mask |-> {}, motion |-> Moved]

Init ==
  /\ PostInit
  /\ current_modifier_mask = {}
  /\ current_motion_event = Moved /\ current_motion_button = 0
  /\ register = [t \in Threads |-> NoValue]
  /\ flags = {} /\ motion = [type |-> Moved, button |-> 0, held |-> {}] /\ chord = {}
-----------------------------------------------------------------------------
FirstStep(e) ==
  CASE e.type \in KeyTypes -> "mask" [] e.type \in ButtonTypes -> "button"
    [] e.type = "MOUSE_MOVED" -> "motion" [] e.type = "MOUSE_WHEEL" -> "wheel"
    [] OTHER -> "idle"

(* The event source may not be had.                                        *)
HookPostEvent(t, e) ==
  /\ \/ FirstStep(e) # "idle" /\ Call(t, e, FirstStep(e)) /\ Refuse
     \/ FirstStep(e) = "idle" /\ CallReturns(t) /\ Refuse
     \/ CallReturns(t) /\ Lose(e)
  /\ UNCHANGED darwinVars

Finish(t) ==
  /\ Return(t)
  /\ UNCHANGED <<overlap, posts, accountVars, register>>

(* post_key_event(): a modifier's flag is set or cleared, ...              *)
MaskAfter(e, mask) ==
  IF e.type = "KEY_PRESSED" THEN mask \union {Modifier[e.key]} ELSE mask \ {Modifier[e.key]}

ReadMask(t) ==
  LET e == event[t]
  IN
  /\ pc[t] = "mask"
  /\ \/ /\ Modifier[e.key] = None /\ Goto(t, "key")
        /\ UNCHANGED register
     \/ /\ Modifier[e.key] # None /\ Goto(t, "setmask")
        /\ register' = [register EXCEPT ![t].mask = MaskAfter(e, current_modifier_mask)]
  /\ UNCHANGED <<event, systemVars, historyVars, overlap, posts, accountVars, seenVars>>

WriteMask(t) ==
  /\ pc[t] = "setmask" /\ Goto(t, "key")
  /\ current_modifier_mask' = register[t].mask
  /\ register' = [register EXCEPT ![t] = NoValue]
  /\ UNCHANGED <<event, systemVars, historyVars, overlap, posts, current_motion_event,
                 current_motion_button, seenVars>>

(* ... and the event carries the flags as they are then.                   *)
HeldTogether(e) ==
  {m \in {Modifier[k] : k \in Keys} \ {None} :
     /\ Modifier[e.key] = m
     /\ \E k \in Keys \ {e.key} : Modifier[k] = m /\ Key(k) \in posted}

PostKey(t) ==
  LET e == event[t]
  IN
  /\ pc[t] = "key" /\ Finish(t)
  /\ \/ /\ Keycode[e.key] # kVK_Undefined
        /\ Take(e, e.type = "KEY_PRESSED", Key(Keycode[e.key]), pos)
        /\ flags' = current_modifier_mask
        /\ chord' = chord \union HeldTogether(e)
        /\ UNCHANGED motion
     \/ Keycode[e.key] = kVK_Undefined /\ Refuse /\ UNCHANGED seenVars
     \/ Lose(e) /\ UNCHANGED seenVars

(* post_mouse_event(): a press makes motions drag; the release of the kind *)
(* of button that does so ends it.                                         *)
Dragged(n) ==
  CASE n = 1 -> "LeftMouseDragged" [] n = 2 -> "RightMouseDragged" [] OTHER -> "OtherMouseDragged"

RefuseButton(t) ==
  /\ pc[t] = "button" /\ event[t].button = NoButton
  /\ Finish(t) /\ Refuse /\ UNCHANGED seenVars

(* Mutant: a release leaves the kind of motion as it is.                   *)
ReadMotionAlways(t) ==
  LET e == event[t]
  IN
  /\ pc[t] = "button" /\ e.button # NoButton
  /\ Goto(t, "setmotion")
  /\ register' = [register EXCEPT ![t].motion = IF e.type = "MOUSE_PRESSED" THEN Dragged(e.button)
                                                ELSE current_motion_event]
  /\ UNCHANGED <<event, systemVars, historyVars, overlap, posts, accountVars, seenVars>>

ReadMotion(t) ==
  LET e == event[t]
  IN
  /\ pc[t] = "button" /\ e.button # NoButton
  /\ \/ /\ e.type = "MOUSE_PRESSED" /\ Goto(t, "setmotion")
        /\ register' = [register EXCEPT ![t].motion = Dragged(e.button)]
     \/ /\ e.type = "MOUSE_RELEASED" /\ current_motion_event = Dragged(e.button)
        /\ Goto(t, "setmotion")
        /\ register' = [register EXCEPT ![t].motion = Moved]
     \/ /\ e.type = "MOUSE_RELEASED" /\ current_motion_event # Dragged(e.button)
        /\ Goto(t, "setbutton")
        /\ UNCHANGED register
  /\ UNCHANGED <<event, systemVars, historyVars, overlap, posts, accountVars, seenVars>>

WriteMotion(t) ==
  /\ pc[t] = "setmotion" /\ Goto(t, "setbutton")
  /\ current_motion_event' = register[t].motion
  /\ register' = [register EXCEPT ![t] = NoValue]
  /\ UNCHANGED <<event, systemVars, historyVars, overlap, posts, current_modifier_mask,
                 current_motion_button, seenVars>>

WriteButton(t) ==
  /\ pc[t] = "setbutton" /\ Goto(t, "click")
  /\ current_motion_button' = event[t].button - 1
  /\ UNCHANGED <<event, systemVars, historyVars, overlap, posts, current_modifier_mask,
                 current_motion_event, register, seenVars>>

PostButton(t) ==
  LET e == event[t]
  IN
  /\ pc[t] = "click" /\ Finish(t)
  /\ \/ /\ Take(e, e.type = "MOUSE_PRESSED", Button(e.button), e.at)
        /\ chord' = IF PostedButtons \ {e.button} # {} THEN chord \union {"buttons"} ELSE chord
        /\ UNCHANGED <<flags, motion>>
     \/ Lose(e) /\ UNCHANGED seenVars

PostMotion(t) ==
  /\ pc[t] = "motion" /\ Finish(t)
  /\ \/ /\ pos' = event[t].at
        /\ motion' = [type |-> current_motion_event, button |-> current_motion_button,
                      held |-> PostedButtons]
        /\ UNCHANGED <<down, historyVars, flags, chord>>
     \/ Lose(event[t]) /\ UNCHANGED seenVars

(* post_mouse_wheel_event() changes nothing that is kept account of.       *)
PostWheel(t) == pc[t] = "wheel" /\ Finish(t) /\ Refuse /\ UNCHANGED seenVars

PostStep(t) ==
  \/ ReadMask(t) \/ WriteMask(t) \/ PostKey(t)
  \/ RefuseButton(t) \/ ReadMotion(t) \/ WriteMotion(t) \/ WriteButton(t) \/ PostButton(t)
  \/ PostMotion(t) \/ PostWheel(t)

Next == \E t \in Threads : PostStep(t) \/ \E e \in Events : HookPostEvent(t, e)
-----------------------------------------------------------------------------
(* What is held is what was posted, as far as the system took it.          *)
HeldIsPosted ==
  /\ \A k \in Keys : Keycode[k] # kVK_Undefined =>
       (Key(Keycode[k]) \in down <=> Key(k) \in posted)
  /\ \A n \in Buttons \ {NoButton} : Button(n) \in down <=> Button(n) \in posted

HeldModifiers == {Modifier[k] : k \in {j \in Keys : Key(j) \in posted}} \ {None}

(* While posts have not overlapped and none was lost, the system is told   *)
(* what is held: a key event has the flags of the modifiers that are down  *)
(* after it, unless two keys stand for one; a motion drags only with a     *)
(* button of its kind that is down, and, unless two were, with that very   *)
(* button.                                                                 *)
StateFollowsPosts ==
  ~overlap /\ lost = {} =>
    /\ flags \ chord = HeldModifiers \ chord
    /\ motion.type # Moved => \E n \in motion.held : Dragged(n) = motion.type
    /\ "buttons" \notin chord =>
         \A n \in motion.held : motion.type = Dragged(n) /\ motion.button = n - 1

=============================================================================
