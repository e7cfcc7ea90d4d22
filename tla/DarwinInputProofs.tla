-------------------------- MODULE DarwinInputProofs -------------------------
(***************************************************************************)
(* Proofs about DarwinInput, for any keys and buttons, any multi-click     *)
(* time and unit of time, any click limit and length of run.               *)
(***************************************************************************)
EXTENDS DarwinInput, TLAPS

Events == KeyEvents \union MouseEvents

(* The bits and numbers of a button are of their types, and no two buttons *)
(* have the same number or mask.                                           *)
LEMMA ButtonTypes ==
  /\ \A b \in Buttons : Number(b) \in 1..5 /\ ButtonMask(b) \in ButtonMasks
  /\ \A b \in Buttons : ButtonBits(b) \subseteq Masks /\ "CAPS_LOCK" \notin ButtonBits(b)
  /\ \A a, b \in Buttons : Number(a) = Number(b) => a = b
  /\ \A a, b \in Buttons : ButtonMask(a) = ButtonMask(b) => a = b
<1> DEFINE All == PrimaryButtons \union OtherButtons
<1>1. /\ Number("LEFT") = 1 /\ Number("RIGHT") = 2 /\ Number("OTHER3") = 3
      /\ Number("OTHER4") = 4 /\ Number("OTHER5") = 5
  BY DEF Number
<1>2. /\ ButtonMask("LEFT") = "BUTTON1" /\ ButtonMask("RIGHT") = "BUTTON2"
      /\ ButtonMask("OTHER3") = "BUTTON3" /\ ButtonMask("OTHER4") = "BUTTON4"
      /\ ButtonMask("OTHER5") = "BUTTON5"
  BY <1>1 DEF ButtonMask
<1>3. \A b \in All : b \in {"LEFT", "RIGHT", "OTHER3", "OTHER4", "OTHER5"}
  BY DEF PrimaryButtons, OtherButtons
<1>4. \A b \in All : Number(b) \in 1..5 /\ ButtonMask(b) \in ButtonMasks
  BY <1>1, <1>2, <1>3 DEF ButtonMasks
<1>5. /\ \A a, b \in All : Number(a) = Number(b) => a = b
      /\ \A a, b \in All : ButtonMask(a) = ButtonMask(b) => a = b
  BY <1>1, <1>2, <1>3
<1>6. /\ ButtonBits("LEFT") = {"BUTTON1"} /\ ButtonBits("RIGHT") = {"BUTTON2"}
      /\ ButtonBits("OTHER3") = {} /\ ButtonBits("OTHER4") = {"META_L"}
      /\ ButtonBits("OTHER5") = {"SHIFT_L", "META_L"}
  BY <1>2 DEF ButtonBits, PrimaryButtons
<1>7. {"SHIFT_L", "META_L"} \subseteq ModifierKeys
  BY DEF ModifierKeys, Pairs
<1>8. \A b \in All : ButtonBits(b) \subseteq Masks /\ "CAPS_LOCK" \notin ButtonBits(b)
  BY <1>3, <1>6, <1>7 DEF Masks, ButtonMasks
<1>9. Buttons \subseteq All  BY ButtonsAssumption
<1> HIDE DEF All
<1> QED  BY <1>4, <1>5, <1>8, <1>9

(* The bits of keys, buttons and Caps Lock do not overlap.                 *)
LEMMA MasksApart ==
  /\ ModifierKeys \intersect ButtonMasks = {}
  /\ "CAPS_LOCK" \notin ModifierKeys /\ "CAPS_LOCK" \notin ButtonMasks
  /\ Modifiers \subseteq ModifierKeys
  /\ Modifiers \intersect Buttons = {}
<1>1. ModifierKeys = {"SHIFT_L", "SHIFT_R", "CTRL_L", "CTRL_R", "ALT_L", "ALT_R", "META_L", "META_R"}
  BY DEF ModifierKeys, Pairs
<1> QED  BY <1>1, ButtonsAssumption DEF ButtonMasks, Modifiers, PrimaryButtons, OtherButtons

(* initialize_modifiers() sets the bit of a key or button exactly if it is *)
(* down.                                                                   *)
LEMMA Initialized ==
  ASSUME NEW k \in SUBSET Modifiers, NEW b \in SUBSET Buttons, NEW lit \in BOOLEAN
  PROVE  LET I == InitializeModifiers(k, b, lit)
         IN  /\ I \subseteq Masks
             /\ \A j \in Modifiers : j \in I <=> j \in k
             /\ \A d \in Buttons : ButtonMask(d) \in I <=> d \in b
             /\ "CAPS_LOCK" \in I <=> lit
<1> DEFINE I == InitializeModifiers(k, b, lit)
<1>1. \A m : m \in I <=> m \in k \/ (\E d \in b : m = ButtonMask(d)) \/ (lit /\ m = "CAPS_LOCK")
  BY MasksApart DEF InitializeModifiers
<1> HIDE DEF I
<1>2. \A d \in Buttons : ButtonMask(d) \in ButtonMasks  BY ButtonTypes
<1>3. I \subseteq Masks  BY <1>1, <1>2, MasksApart DEF Masks
<1>4. \A j \in Modifiers : j \in I <=> j \in k  BY <1>1, <1>2, MasksApart
<1>5. \A d \in Buttons : ButtonMask(d) \in I <=> d \in b
  BY <1>1, <1>2, ButtonTypes, MasksApart
<1>6. "CAPS_LOCK" \in I <=> lit  BY <1>1, <1>2, MasksApart
<1> QED  BY <1>3, <1>4, <1>5, <1>6 DEF I

(* The events hook_event_proc() fills in have the type of events.          *)
LEMMA EventTypes ==
  /\ \A type \in {"KEY_PRESSED", "KEY_RELEASED", "KEY_TYPED"}, m \in SUBSET Masks :
       Key(type, m) \in KeyEvents
  /\ \A type \in {"MOUSE_PRESSED", "MOUSE_RELEASED", "MOUSE_CLICKED", "MOUSE_MOVED",
                  "MOUSE_DRAGGED", "MOUSE_WHEEL"},
        m \in SUBSET Masks, b \in MouseButton, n \in 0..ClickMax :
       Mouse(type, m, b, n) \in MouseEvents
BY DEF Key, Mouse, KeyEvents, MouseEvents

(* A key makes key events only, all of them of their type.                 *)
LEMMA KeyPressedType ==
  ASSUME NEW m \in SUBSET Masks, NEW chars \in 0..1, NEW consumed \in BOOLEAN
  PROVE  KeyPressed(m, chars, consumed) \in Seq(KeyEvents)
<1> DEFINE first == <<Key("KEY_PRESSED", m)>>
           typed == [i \in 1..chars |-> Key("KEY_TYPED", m)]
           rest == IF consumed THEN <<>> ELSE typed
<1>1. Key("KEY_PRESSED", m) \in KeyEvents /\ Key("KEY_TYPED", m) \in KeyEvents
  BY EventTypes
<1>2. first \in Seq(KeyEvents)  BY <1>1
<1>3. typed \in Seq(KeyEvents)  BY <1>1
<1>4. <<>> \in Seq(KeyEvents)  OBVIOUS
<1> HIDE DEF typed
<1>5. rest \in Seq(KeyEvents)  BY <1>3, <1>4, Zenon
<1> HIDE DEF first, rest
<1>6. first \o rest \in Seq(KeyEvents)  BY <1>2, <1>5
<1> QED  BY <1>6 DEF KeyPressed, first, rest, typed

(* Key events are events.                                                  *)
LEMMA KeyEventsAreEvents == \A s \in Seq(KeyEvents) : s \in Seq(Events)
BY DEF Events

(* Firing events keeps the types.                                          *)
LEMMA FireType ==
  ASSUME TypeOK, NEW events \in Seq(Events), NEW consumed \in BOOLEAN, Fire(events, consumed)
  PROVE  /\ out' \in Seq(Events) /\ reserved' \in BOOLEAN
         /\ running' \in BOOLEAN /\ tap' \in BOOLEAN
<1>1. CASE events = <<>>  BY <1>1 DEF Fire, TypeOK
<1>2. CASE events # <<>> /\ Len(events) = 1  BY <1>2 DEF Fire, TypeOK
<1>3. CASE events # <<>> /\ Len(events) # 1  BY <1>3 DEF Fire, TypeOK
<1> QED  BY <1>1, <1>2, <1>3

(* The counter stays within its 16 bits.                                   *)
LEMMA CountType ==
  ASSUME TypeOK, NEW n PROVE CountPress(n) \in 0..ClickMax
BY ClickAssumption DEF TypeOK, CountPress

(* A button event that is taken for a press keeps the types.               *)
LEMMA PressType ==
  ASSUME TypeOK, NEW b \in Buttons, NEW m \in SUBSET Masks, NEW consumed \in BOOLEAN,
         held' \subseteq Buttons, ProcessButtonPressed(b, m, consumed)
  PROVE  TypeOK'
<1>1. Number(b) \in MouseButton  BY ButtonTypes DEF MouseButton
<1>2. click_count' \in 0..ClickMax  BY CountType DEF ProcessButtonPressed
<1> DEFINE e == Mouse("MOUSE_PRESSED", m, Number(b), click_count')
<1>3. e \in Events  BY <1>1, <1>2, EventTypes DEF Events
<1>4. <<e>> \in Seq(Events)  BY <1>3
<1>5. Fire(<<e>>, consumed)  BY DEF ProcessButtonPressed
<1> HIDE DEF e
<1>6. /\ out' \in Seq(Events) /\ reserved' \in BOOLEAN
      /\ running' \in BOOLEAN /\ tap' \in BOOLEAN
  BY <1>4, <1>5, FireType
<1>7. presses' \in Seq([button : Buttons, time : Nat])
  BY DEF ProcessButtonPressed, TypeOK
<1> QED  BY <1>1, <1>2, <1>6, <1>7 DEF ProcessButtonPressed, TypeOK, Events

(* Init has the types.                                                     *)
LEMMA TypeInit == Init => TypeOK
<1> SUFFICES ASSUME Init PROVE TypeOK  OBVIOUS
<1>1. current_modifiers \subseteq Masks  BY Initialized DEF Init
<1>2. 0 \in 0..ClickMax /\ 0 \in MouseButton  BY ClickAssumption DEF MouseButton
<1>3. out \in Seq(Events) /\ presses \in Seq([button : Buttons, time : Nat])
  BY DEF Init
<1> QED  BY <1>1, <1>2, <1>3 DEF Init, TypeOK, Events


(* Every step keeps the types.                                             *)
LEMMA TypeStep == TypeOK /\ [Next]_vars => TypeOK'
<1> SUFFICES ASSUME TypeOK, [Next]_vars PROVE TypeOK'  OBVIOUS
<1> USE DEF userVars, clickVars, historyVars
<1>q. ASSUME Quiet PROVE out' \in Seq(Events) /\ reserved' \in BOOLEAN
  BY <1>q DEF Quiet, TypeOK
<1>f. ASSUME FireStatus PROVE out' \in Seq(Events) /\ reserved' \in BOOLEAN
  BY <1>f DEF FireStatus
<1>e. ASSUME NEW events \in Seq(Events), NEW consumed \in BOOLEAN, Fire(events, consumed)
      PROVE  /\ out' \in Seq(Events) /\ reserved' \in BOOLEAN
             /\ running' \in BOOLEAN /\ tap' \in BOOLEAN
  BY <1>e, FireType
<1>n. <<>> \in Seq(Events)  OBVIOUS
<1>r. \A m \in SUBSET Masks : <<Key("KEY_RELEASED", m)>> \in Seq(Events)
  <2> TAKE m \in SUBSET Masks
  <2>1. Key("KEY_RELEASED", m) \in Events  BY EventTypes DEF Events
  <2> QED  BY <2>1
<1>p. \A m \in SUBSET Masks, chars \in 0..1, consumed \in BOOLEAN :
        KeyPressed(m, chars, consumed) \in Seq(Events)
  BY KeyPressedType, KeyEventsAreEvents
<1>1. ASSUME NEW consumed \in BOOLEAN, NEW chars \in 0..1, KeyDown(chars, consumed) PROVE TypeOK'
  <2>1. KeyPressed(current_modifiers, chars, consumed) \in Seq(Events)  BY <1>p DEF TypeOK
  <2> QED  BY <1>1, <1>e, <2>1 DEF KeyDown, TypeOK, Events
<1>2. ASSUME NEW consumed \in BOOLEAN, KeyUp(consumed) PROVE TypeOK'
  <2>1. <<Key("KEY_RELEASED", current_modifiers)>> \in Seq(Events)  BY <1>r DEF TypeOK
  <2> QED  BY <1>2, <1>e, <2>1 DEF KeyUp, TypeOK, Events
<1>3. ASSUME NEW consumed \in BOOLEAN, NEW chars \in 0..1, NEW k \in Modifiers,
             FlagsChanged(k, chars, consumed)
      PROVE  TypeOK'
  <2> DEFINE flag == k \notin keys \/ Partner(k) \intersect keys # {}
             m == IF flag THEN current_modifiers \union {k} ELSE current_modifiers \ {k}
             events == IF flag THEN KeyPressed(m, chars, consumed) ELSE <<Key("KEY_RELEASED", m)>>
  <2> HIDE DEF flag
  <2>1. m \in SUBSET Masks  BY MasksApart DEF TypeOK, Masks
  <2>2. current_modifiers' = m /\ Fire(events, consumed)  BY <1>3 DEF FlagsChanged, flag
  <2> HIDE DEF m
  <2>3. events \in Seq(Events)  BY <1>p, <1>r, <2>1, Zenon
  <2> HIDE DEF events
  <2>4. /\ out' \in Seq(Events) /\ reserved' \in BOOLEAN
        /\ running' \in BOOLEAN /\ tap' \in BOOLEAN
    BY <1>e, <2>2, <2>3
  <2>5. keys' \subseteq Modifiers /\ shadowed' \subseteq Modifiers
    BY <1>3 DEF FlagsChanged, TypeOK
  <2>6. stale' \subseteq Modifiers \union Buttons  BY <1>3 DEF FlagsChanged, TypeOK
  <2> QED  BY <1>3, <2>1, <2>2, <2>4, <2>5, <2>6 DEF FlagsChanged, TypeOK, Events
<1>4. ASSUME NEW consumed \in BOOLEAN, NEW chars \in 0..1, NEW type \in {"down", "up", "none"},
             SystemKey(type, chars, consumed)
      PROVE  TypeOK'
  <2> DEFINE events == CASE type = "down" -> KeyPressed(current_modifiers, chars, consumed)
                         [] type = "up" -> <<Key("KEY_RELEASED", current_modifiers)>>
                         [] OTHER -> <<>>
  <2>1. KeyPressed(current_modifiers, chars, consumed) \in Seq(Events)  BY <1>p DEF TypeOK
  <2>2. <<Key("KEY_RELEASED", current_modifiers)>> \in Seq(Events)  BY <1>r DEF TypeOK
  <2>3. \/ events = KeyPressed(current_modifiers, chars, consumed)
        \/ events = <<Key("KEY_RELEASED", current_modifiers)>>
        \/ events = <<>>
    OBVIOUS
  <2>4. Fire(events, consumed)  BY <1>4 DEF SystemKey
  <2> HIDE DEF events
  <2>5. events \in Seq(Events)  BY <1>n, <2>1, <2>2, <2>3
  <2> QED  BY <1>4, <1>e, <2>4, <2>5 DEF SystemKey, TypeOK, Events
<1>5. CASE CapsChanged
  <2>1. current_modifiers' \subseteq Masks  BY <1>5 DEF CapsChanged, CapsToggled, TypeOK, Masks
  <2>2. light' \in BOOLEAN  BY <1>5 DEF CapsChanged
  <2> QED  BY <1>5, <1>e, <1>n, <2>1, <2>2 DEF CapsChanged, TypeOK, Events
<1>6. ASSUME NEW b \in Buttons, NEW consumed \in BOOLEAN, ButtonDown(b, consumed) PROVE TypeOK'
  <2>1. current_modifiers \union ButtonBits(b) \in SUBSET Masks  BY ButtonTypes DEF TypeOK
  <2>2. held' \subseteq Buttons  BY <1>6 DEF ButtonDown, TypeOK
  <2> QED  BY <1>6, <2>1, <2>2, PressType DEF ButtonDown
<1>7. ASSUME NEW b \in Buttons, NEW consumed \in BOOLEAN, OtherMouseUp(b, consumed) PROVE TypeOK'
  <2>1. current_modifiers \ ButtonBits(b) \in SUBSET Masks  BY DEF TypeOK
  <2>2. held' \subseteq Buttons  BY <1>7 DEF OtherMouseUp, TypeOK
  <2> QED  BY <1>7, <2>1, <2>2, PressType DEF OtherMouseUp
<1>8. ASSUME NEW b \in Buttons, NEW consumed \in BOOLEAN, ButtonUp(b, consumed) PROVE TypeOK'
  <2> DEFINE m == current_modifiers \ ButtonBits(b)
             r == Mouse("MOUSE_RELEASED", m, Number(b), click_count)
             c == Mouse("MOUSE_CLICKED", m, Number(b), click_count)
             rest == IF consumed \/ ~IsClick THEN <<>> ELSE <<c>>
  <2>1. m \in SUBSET Masks /\ click_count \in 0..ClickMax  BY DEF TypeOK
  <2>2. Number(b) \in MouseButton  BY ButtonTypes DEF MouseButton
  <2>3. r \in Events /\ c \in Events  BY <2>1, <2>2, EventTypes DEF Events
  <2>4. Fire(<<r>> \o rest, consumed)  BY <1>8 DEF ButtonUp
  <2> HIDE DEF r, c
  <2>5. <<r>> \in Seq(Events) /\ <<c>> \in Seq(Events)  BY <2>3
  <2>6. rest \in Seq(Events)  BY <1>n, <2>5, Zenon
  <2> HIDE DEF rest
  <2>7. <<r>> \o rest \in Seq(Events)  BY <2>5, <2>6
  <2>8. click_count' \in 0..ClickMax  BY <1>8, <2>1, ClickAssumption DEF ButtonUp
  <2>9. current_modifiers' \subseteq Masks  BY <1>8, <2>1 DEF ButtonUp
  <2> QED  BY <1>8, <1>e, <2>4, <2>7, <2>8, <2>9 DEF ButtonUp, TypeOK, Events
<1>9. ASSUME NEW consumed \in BOOLEAN, MouseMoved(consumed) PROVE TypeOK'
  <2> DEFINE n == IF click_count # 0 /\ Elapsed > MultiClick THEN 0 ELSE click_count
             type == IF mouse_dragged' THEN "MOUSE_DRAGGED" ELSE "MOUSE_MOVED"
             e == Mouse(type, current_modifiers, 0, n)
  <2>1. n \in 0..ClickMax  BY ClickAssumption DEF TypeOK
  <2>2. current_modifiers \in SUBSET Masks /\ 0 \in MouseButton  BY DEF TypeOK, MouseButton
  <2>3. e \in Events  BY <2>1, <2>2, EventTypes DEF Events
  <2>4. Fire(<<e>>, consumed) /\ click_count' = n  BY <1>9 DEF MouseMoved
  <2> HIDE DEF e, n
  <2>5. <<e>> \in Seq(Events)  BY <2>3
  <2>6. mouse_dragged' \in BOOLEAN  BY <1>9 DEF MouseMoved
  <2> QED  BY <1>9, <1>e, <2>1, <2>4, <2>5, <2>6 DEF MouseMoved, TypeOK, Events
<1>10. ASSUME NEW turned \in BOOLEAN, NEW consumed \in BOOLEAN, MouseWheel(turned, consumed)
       PROVE  TypeOK'
  <2> DEFINE e == Mouse("MOUSE_WHEEL", current_modifiers, 0, 1)
             events == IF turned THEN <<e>> ELSE <<>>
  <2>1. current_modifiers \in SUBSET Masks /\ 0 \in MouseButton /\ 1 \in 0..ClickMax
    BY ClickAssumption DEF TypeOK, MouseButton
  <2>2. e \in Events  BY <2>1, EventTypes DEF Events
  <2>3. Fire(events, consumed)  BY <1>10 DEF MouseWheel
  <2> HIDE DEF e
  <2>4. <<e>> \in Seq(Events)  BY <2>2
  <2>5. events \in Seq(Events)  BY <1>n, <2>4, Zenon
  <2> HIDE DEF events
  <2>6. presses' \in Seq([button : Buttons, time : Nat])  BY <1>10 DEF MouseWheel
  <2> QED  BY <1>10, <1>e, <2>1, <2>3, <2>5, <2>6 DEF MouseWheel, TypeOK, Events
<1>11. CASE TapEnabled \/ TapTimeout
  BY <1>11, <1>q DEF TapEnabled, TapTimeout, TypeOK, Events
<1>12. ASSUME NEW k \in Modifiers, UnseenKey(k) PROVE TypeOK'
  <2>1. keys' \subseteq Modifiers /\ stale' \subseteq Modifiers \union Buttons
    BY <1>12 DEF UnseenKey, TypeOK
  <2> QED  BY <1>12, <1>q, <2>1 DEF UnseenKey, TypeOK, Events
<1>13. CASE UnseenCaps
  <2>1. light' \in BOOLEAN /\ missed' \in BOOLEAN  BY <1>13 DEF UnseenCaps
  <2> QED  BY <1>13, <1>q, <2>1 DEF UnseenCaps, TypeOK, Events
<1>14. ASSUME NEW b \in Buttons, UnseenButton(b) PROVE TypeOK'
  <2>1. held' \subseteq Buttons /\ stale' \subseteq Modifiers \union Buttons
    BY <1>14 DEF UnseenButton, TypeOK
  <2> QED  BY <1>14, <1>q, <2>1 DEF UnseenButton, TypeOK, Events
<1>15. CASE Tick  BY <1>15, <1>q DEF Tick, TypeOK, Events
<1>16. CASE HookReturns  BY <1>16, <1>f DEF HookReturns, TypeOK, Events
<1>17. CASE HookRun
  <2>1. current_modifiers' \subseteq Masks  BY <1>17, Initialized DEF HookRun, TypeOK
  <2> QED  BY <1>17, <1>f, <2>1 DEF HookRun, TypeOK, Events
<1>18. CASE UNCHANGED vars  BY <1>18 DEF vars, TypeOK
<1> QED  BY <1>1, <1>2, <1>3, <1>4, <1>5, <1>6, <1>7, <1>8, <1>9, <1>10, <1>11, <1>12, <1>13,
         <1>14, <1>15, <1>16, <1>17, <1>18
     DEF Next, Keyboard, Pointer, Unseen

(* Type correctness of the Darwin input state.                             *)
THEOREM TypeCorrect == Spec => []TypeOK
BY TypeInit, TypeStep, PTL DEF Spec

-----------------------------------------------------------------------------
(* The mask.                                                               *)

(* No button has the bit of a key of this keyboard: the fourth and fifth   *)
(* set and clear bits that belong to SHIFT_L and META_L, so the mask of a  *)
(* mouse and keyboard with both is wrong.                                  *)
NoAliases == \A b \in Buttons : ButtonBits(b) \intersect Modifiers = {}

(* The bits a button event changes among those of the primary buttons.     *)
LEMMA PrimaryBits ==
  ASSUME NEW b \in Buttons, NEW a \in Buttons \intersect PrimaryButtons
  PROVE  ButtonMask(a) \in ButtonBits(b) <=> a = b
<1>1. ButtonMask(a) \in ButtonMasks  BY ButtonTypes
<1>2. CASE b \in PrimaryButtons
  <2>1. ButtonBits(b) = {ButtonMask(b)}  BY <1>2 DEF ButtonBits, PrimaryButtons
  <2> QED  BY <2>1, ButtonTypes
<1>3. CASE b \notin PrimaryButtons
  <2>1. b \in OtherButtons  BY <1>3, ButtonsAssumption
  <2>2. ButtonBits(b) \subseteq {"SHIFT_L", "META_L"}
    BY <1>3, <2>1 DEF ButtonBits, PrimaryButtons, OtherButtons
  <2> QED  BY <1>1, <1>3, <2>2 DEF ButtonMasks
<1> QED  BY <1>2, <1>3

(* The Caps Lock bit is toggled with the light, seen or not, and read when *)
(* the hook is run again.                                                  *)
LEMMA CapsStep == TypeOK /\ CapsFollowsLight /\ [Next]_vars => CapsFollowsLight'
<1> DEFINE Lit == "CAPS_LOCK" \in current_modifiers
<1> SUFFICES ASSUME TypeOK, CapsFollowsLight, [Next]_vars PROVE CapsFollowsLight'  OBVIOUS
<1> USE DEF userVars, clickVars, historyVars
<1>a. light \in BOOLEAN /\ missed \in BOOLEAN /\ (Lit <=> light # missed)
  BY DEF TypeOK, CapsFollowsLight
<1>s. ASSUME UNCHANGED <<light, missed>>, Lit' <=> Lit PROVE CapsFollowsLight'
  BY <1>a, <1>s DEF CapsFollowsLight
<1>1. ASSUME NEW consumed \in BOOLEAN, NEW chars \in 0..1, KeyDown(chars, consumed)
      PROVE  CapsFollowsLight'
  BY <1>1, <1>s DEF KeyDown
<1>2. ASSUME NEW consumed \in BOOLEAN, KeyUp(consumed) PROVE CapsFollowsLight'
  BY <1>2, <1>s DEF KeyUp
<1>3. ASSUME NEW consumed \in BOOLEAN, NEW chars \in 0..1, NEW k \in Modifiers,
             FlagsChanged(k, chars, consumed)
      PROVE  CapsFollowsLight'
  <2>1. k # "CAPS_LOCK"  BY MasksApart
  <2>2. Lit' <=> Lit  BY <1>3, <2>1 DEF FlagsChanged
  <2> QED  BY <1>3, <1>s, <2>2 DEF FlagsChanged
<1>4. ASSUME NEW consumed \in BOOLEAN, NEW chars \in 0..1, NEW type \in {"down", "up", "none"},
             SystemKey(type, chars, consumed)
      PROVE  CapsFollowsLight'
  BY <1>4, <1>s DEF SystemKey
<1>5. CASE CapsChanged
  <2>1. Lit' <=> ~Lit  BY <1>5 DEF CapsChanged, CapsToggled
  <2>2. light' = ~light /\ missed' = missed  BY <1>5 DEF CapsChanged
  <2> QED  BY <1>a, <2>1, <2>2 DEF CapsFollowsLight
<1>6. ASSUME NEW b \in Buttons, NEW consumed \in BOOLEAN,
             ButtonDown(b, consumed) \/ ButtonUp(b, consumed) \/ OtherMouseUp(b, consumed)
      PROVE  CapsFollowsLight'
  <2>1. Lit' <=> Lit
    BY <1>6, ButtonTypes DEF ButtonDown, ButtonUp, OtherMouseUp, ProcessButtonPressed
  <2> QED  BY <1>6, <1>s, <2>1 DEF ButtonDown, ButtonUp, OtherMouseUp, ProcessButtonPressed
<1>7. ASSUME NEW consumed \in BOOLEAN, MouseMoved(consumed) PROVE CapsFollowsLight'
  BY <1>7, <1>s DEF MouseMoved
<1>8. ASSUME NEW turned \in BOOLEAN, NEW consumed \in BOOLEAN, MouseWheel(turned, consumed)
      PROVE  CapsFollowsLight'
  BY <1>8, <1>s DEF MouseWheel
<1>9. CASE TapEnabled \/ TapTimeout \/ Tick \/ HookReturns
  BY <1>9, <1>s DEF TapEnabled, TapTimeout, Tick, HookReturns
<1>10. CASE (\E k \in Modifiers : UnseenKey(k)) \/ (\E b \in Buttons : UnseenButton(b))
  BY <1>10, <1>s DEF UnseenKey, UnseenButton
<1>11. CASE UnseenCaps
  <2>1. light' = ~light /\ missed' = ~missed /\ (Lit' <=> Lit)  BY <1>11 DEF UnseenCaps
  <2> QED  BY <1>a, <2>1 DEF CapsFollowsLight
<1>12. CASE HookRun
  <2>1. Lit' <=> light  BY <1>12, Initialized DEF HookRun, TypeOK
  <2>2. light' = light /\ missed' = FALSE  BY <1>12 DEF HookRun
  <2> QED  BY <1>a, <2>1, <2>2 DEF CapsFollowsLight
<1>13. CASE UNCHANGED vars  BY <1>13, <1>s DEF vars
<1> QED  BY <1>1, <1>2, <1>3, <1>4, <1>5, <1>6, <1>7, <1>8, <1>9, <1>10, <1>11, <1>12, <1>13
     DEF Next, Keyboard, Pointer, Unseen

(* The mask keeps up with the keys and buttons the tap sees.               *)
LEMMA ModifiersStep ==
  NoAliases /\ TypeOK /\ ModifiersTracked /\ [Next]_vars => ModifiersTracked'
<1> SUFFICES ASSUME NoAliases, TypeOK, ModifiersTracked, [Next]_vars PROVE ModifiersTracked'
  OBVIOUS
<1> USE DEF userVars, clickVars, historyVars
<1>s. ASSUME UNCHANGED <<keys, held, current_modifiers, stale, shadowed>>
      PROVE  ModifiersTracked'
  BY <1>s DEF ModifiersTracked
<1>1. ASSUME NEW consumed \in BOOLEAN, NEW chars \in 0..1, KeyDown(chars, consumed)
      PROVE  ModifiersTracked'
  BY <1>1, <1>s DEF KeyDown
<1>2. ASSUME NEW consumed \in BOOLEAN, KeyUp(consumed) PROVE ModifiersTracked'
  BY <1>2, <1>s DEF KeyUp
<1>3. ASSUME NEW consumed \in BOOLEAN, NEW chars \in 0..1, NEW k \in Modifiers,
             FlagsChanged(k, chars, consumed)
      PROVE  ModifiersTracked'
  <2> DEFINE flag == k \notin keys \/ Partner(k) \intersect keys # {}
  <2>1. /\ keys' = IF k \in keys THEN keys \ {k} ELSE keys \union {k}
        /\ current_modifiers' = IF flag THEN current_modifiers \union {k}
                                ELSE current_modifiers \ {k}
        /\ stale' = stale \ {k} /\ held' = held
        /\ shadowed' = IF k \in keys /\ flag THEN shadowed \union {k} ELSE shadowed \ {k}
    BY <1>3 DEF FlagsChanged
  <2>2. k \notin keys => flag  OBVIOUS
  <2> HIDE DEF flag
  <2>3. \A j \in Modifiers \ stale' :
          j \in current_modifiers' <=> j \in keys' \/ j \in shadowed'
    BY <2>1, <2>2 DEF ModifiersTracked
  <2>4. \A b \in Buttons : ButtonMask(b) # k /\ (b \in stale' <=> b \in stale)
    BY <2>1, ButtonTypes, MasksApart
  <2>5. \A b \in (Buttons \intersect PrimaryButtons) \ stale' :
          ButtonMask(b) \in current_modifiers' <=> b \in held'
    BY <2>1, <2>4 DEF ModifiersTracked
  <2> QED  BY <2>3, <2>5 DEF ModifiersTracked
<1>4. ASSUME NEW consumed \in BOOLEAN, NEW chars \in 0..1, NEW type \in {"down", "up", "none"},
             SystemKey(type, chars, consumed)
      PROVE  ModifiersTracked'
  BY <1>4, <1>s DEF SystemKey
<1>5. CASE CapsChanged
  <2>1. \A m \in Masks : m # "CAPS_LOCK" => (m \in current_modifiers' <=> m \in current_modifiers)
    BY <1>5 DEF CapsChanged, CapsToggled
  <2>2. \A k \in Modifiers : k \in Masks /\ k # "CAPS_LOCK"  BY MasksApart DEF Masks
  <2>3. \A b \in Buttons : ButtonMask(b) \in Masks /\ ButtonMask(b) # "CAPS_LOCK"
    BY ButtonTypes, MasksApart DEF Masks
  <2>4. UNCHANGED <<keys, held, stale, shadowed>>  BY <1>5 DEF CapsChanged
  <2> QED  BY <2>1, <2>2, <2>3, <2>4 DEF ModifiersTracked
<1>6. ASSUME NEW b \in Buttons, NEW consumed \in BOOLEAN,
             \/ ButtonDown(b, consumed)
             \/ ButtonUp(b, consumed)
             \/ OtherMouseUp(b, consumed)
      PROVE  ModifiersTracked'
  <2>1. \/ /\ current_modifiers' = current_modifiers \union ButtonBits(b)
           /\ held' = held \union {b}
        \/ /\ current_modifiers' = current_modifiers \ ButtonBits(b)
           /\ held' = held \ {b}
    BY <1>6 DEF ButtonDown, ButtonUp, OtherMouseUp, ProcessButtonPressed
  <2>2. stale' = stale \ {b} /\ UNCHANGED <<keys, shadowed>>
    BY <1>6 DEF ButtonDown, ButtonUp, OtherMouseUp, ProcessButtonPressed
  <2>3. \A k \in Modifiers : k \notin ButtonBits(b) /\ k # b
    BY MasksApart DEF NoAliases
  <2>4. \A k \in Modifiers \ stale' :
          k \in current_modifiers' <=> k \in keys' \/ k \in shadowed'
    BY <2>1, <2>2, <2>3 DEF ModifiersTracked
  <2>5. \A a \in (Buttons \intersect PrimaryButtons) \ stale' :
          ButtonMask(a) \in current_modifiers' <=> a \in held'
    BY <2>1, <2>2, PrimaryBits DEF ModifiersTracked
  <2> QED  BY <2>4, <2>5 DEF ModifiersTracked
<1>7. ASSUME NEW consumed \in BOOLEAN, MouseMoved(consumed) PROVE ModifiersTracked'
  BY <1>7, <1>s DEF MouseMoved
<1>8. ASSUME NEW turned \in BOOLEAN, NEW consumed \in BOOLEAN, MouseWheel(turned, consumed)
      PROVE  ModifiersTracked'
  BY <1>8, <1>s DEF MouseWheel
<1>9. CASE TapEnabled \/ TapTimeout \/ Tick \/ HookReturns \/ UnseenCaps
  BY <1>9, <1>s DEF TapEnabled, TapTimeout, Tick, HookReturns, UnseenCaps
<1>10. ASSUME NEW k \in Modifiers, UnseenKey(k) PROVE ModifiersTracked'
  BY <1>10 DEF UnseenKey, ModifiersTracked
<1>11. ASSUME NEW b \in Buttons, UnseenButton(b) PROVE ModifiersTracked'
  BY <1>11 DEF UnseenButton, ModifiersTracked
<1>12. CASE HookRun
  <2>1. /\ \A j \in Modifiers : j \in current_modifiers' <=> j \in keys
        /\ \A d \in Buttons : ButtonMask(d) \in current_modifiers' <=> d \in held
    BY <1>12, Initialized DEF HookRun, TypeOK
  <2>2. UNCHANGED <<keys, held>> /\ shadowed' = {}  BY <1>12 DEF HookRun
  <2> QED  BY <2>1, <2>2 DEF ModifiersTracked
<1>13. CASE UNCHANGED vars  BY <1>13, <1>s DEF vars
<1> QED  BY <1>1, <1>2, <1>3, <1>4, <1>5, <1>6, <1>7, <1>8, <1>9, <1>10, <1>11, <1>12, <1>13
     DEF Next, Keyboard, Pointer, Unseen

(* The Caps Lock bit is the light or, after an odd number of changes that  *)
(* no tap saw, its opposite, on every keyboard and with every mouse.       *)
THEOREM CapsIsTracked == Spec => []CapsFollowsLight
<1>1. Init => CapsFollowsLight
  <2> SUFFICES ASSUME Init PROVE CapsFollowsLight  OBVIOUS
  <2>1. "CAPS_LOCK" \in current_modifiers <=> light  BY Initialized DEF Init
  <2>2. light \in BOOLEAN /\ missed = FALSE  BY DEF Init
  <2> QED  BY <2>1, <2>2 DEF CapsFollowsLight
<1> QED  BY <1>1, CapsStep, TypeCorrect, PTL DEF Spec

(* The mask follows the keys, the primary buttons and the Caps Lock light  *)
(* through timeouts of the tap and calls of hook_run(), if no button has   *)
(* the bit of a key.                                                       *)
THEOREM MaskIsTracked ==
  ASSUME NoAliases
  PROVE  Spec => []MaskTracked
<1>1. Init => ModifiersTracked
  <2> SUFFICES ASSUME Init PROVE ModifiersTracked  OBVIOUS
  <2>1. /\ \A j \in Modifiers : j \in current_modifiers <=> j \in keys
        /\ \A d \in Buttons : ButtonMask(d) \in current_modifiers <=> d \in held
    BY Initialized DEF Init
  <2> QED  BY <2>1 DEF Init, ModifiersTracked
<1>2. TypeOK /\ ModifiersTracked /\ [Next]_vars => ModifiersTracked'  BY ModifiersStep
<1>3. Spec => []ModifiersTracked  BY <1>1, <1>2, TypeCorrect, PTL DEF Spec
<1> QED  BY <1>3, CapsIsTracked, PTL DEF MaskTracked

-----------------------------------------------------------------------------
(* The drag flag.                                                          *)

(* A button that was moved is remembered in the flag.                      *)
DragInv == moved # {} => mouse_dragged

LEMMA DragStep == DragInv /\ [Next]_vars => DragInv'
<1> SUFFICES ASSUME DragInv, [Next]_vars PROVE DragInv'  OBVIOUS
<1> USE DEF DragInv, userVars, clickVars, historyVars
<1>1. ASSUME NEW consumed \in BOOLEAN, Keyboard(consumed) PROVE DragInv'
  BY <1>1 DEF Keyboard, KeyDown, FlagsChanged, SystemKey, KeyUp, CapsChanged
<1>2. ASSUME NEW consumed \in BOOLEAN, Pointer(consumed) PROVE DragInv'
  <2>1. ASSUME NEW b \in Buttons,
               \/ ButtonDown(b, consumed)
               \/ ButtonUp(b, consumed)
               \/ OtherMouseUp(b, consumed)
        PROVE  DragInv'
    BY <2>1 DEF ButtonDown, ButtonUp, OtherMouseUp, ProcessButtonPressed
  <2>2. CASE MouseMoved(consumed)  BY <2>2 DEF MouseMoved
  <2>3. ASSUME NEW turned \in BOOLEAN, MouseWheel(turned, consumed) PROVE DragInv'
    BY <2>3 DEF MouseWheel
  <2> QED  BY <1>2, <2>1, <2>2, <2>3 DEF Pointer
<1>3. CASE Unseen  BY <1>3 DEF Unseen, UnseenKey, UnseenCaps, UnseenButton
<1>4. CASE TapEnabled \/ TapTimeout \/ Tick \/ HookReturns \/ HookRun
  BY <1>4 DEF TapEnabled, TapTimeout, Tick, HookReturns, HookRun
<1>5. CASE UNCHANGED vars  BY <1>5 DEF vars
<1> QED  BY <1>1, <1>2, <1>3, <1>4, <1>5 DEF Next

(* A button that was moved while it was down does not click, whatever the  *)
(* other buttons, the tap and hook_run() do in between.                    *)
THEOREM DragIsNoClick == Spec => ClickedWithoutDrag
<1> DEFINE Step == \A b \in held \ held' :
                     b \in moved /\ tap =>
                       \A i \in DOMAIN out' : out'[i].type # "MOUSE_CLICKED"
<1>1. Init => DragInv  BY DEF Init, DragInv
<1>2. DragInv /\ [Next]_vars => [Step]_vars
  <2> SUFFICES ASSUME DragInv, Next, NEW b \in held, b \notin held', b \in moved, tap,
                      NEW i \in DOMAIN out'
               PROVE  out'[i].type # "MOUSE_CLICKED"
    OBVIOUS
  <2>1. mouse_dragged  BY DEF DragInv
  <2>2. PICK a \in Buttons, consumed \in BOOLEAN :
          ButtonUp(a, consumed) \/ OtherMouseUp(a, consumed)
    BY DEF Next, Keyboard, KeyDown, FlagsChanged, SystemKey, KeyUp, CapsChanged,
       Pointer, ButtonDown, MouseMoved, MouseWheel, Unseen, UnseenKey, UnseenCaps, UnseenButton,
       TapEnabled, TapTimeout, Tick, HookReturns, HookRun, userVars
  <2>3. CASE ButtonUp(a, consumed)
    <3> DEFINE r == Mouse("MOUSE_RELEASED", current_modifiers \ ButtonBits(a), Number(a),
                          click_count)
    <3>1. out' = <<r>> \o <<>>  BY <2>1, <2>3 DEF ButtonUp, Fire, IsClick
    <3>2. r.type = "MOUSE_RELEASED"  BY DEF Mouse
    <3> HIDE DEF r
    <3>3. DOMAIN out' = {1} /\ out'[1] = r  BY <3>1
    <3> QED  BY <3>2, <3>3
  <2>4. CASE OtherMouseUp(a, consumed)
    <3>1. DOMAIN out' = {1} /\ out'[1].type = "MOUSE_PRESSED"
      BY <2>4 DEF OtherMouseUp, ProcessButtonPressed, Fire, Mouse
    <3> QED  BY <3>1
  <2> QED  BY <2>2, <2>3, <2>4
<1> QED  BY <1>1, <1>2, DragStep, PTL DEF Spec, ClickedWithoutDrag

-----------------------------------------------------------------------------
(* The click counter.                                                      *)

(* More time is never fewer whole milliseconds.                            *)
LEMMA DivMonotone ==
  ASSUME NEW a \in Nat, NEW b \in Nat, a <= b
  PROVE  /\ a \div TicksPerMs \in Nat /\ b \div TicksPerMs \in Nat
         /\ a \div TicksPerMs <= b \div TicksPerMs
<1> DEFINE w == TicksPerMs
           p == a \div w
           q == b \div w
<1>1. w \in Nat /\ w > 0  BY ClickAssumption
<1>2. /\ p \in Nat /\ w * p <= a /\ a < w * p + w
      /\ q \in Nat /\ w * q <= b /\ b < w * q + w
  BY <1>1
<1> HIDE DEF p, q, w
<1>3. p <= q
  <2> SUFFICES ASSUME q + 1 <= p PROVE FALSE  BY <1>2
  <2>1. w * (q + 1) <= w * p  BY <1>1, <1>2
  <2>2. w * (q + 1) = w * q + w  BY <1>1, <1>2
  <2>3. w * q \in Nat /\ w * p \in Nat  BY <1>1, <1>2
  <2> QED  BY <1>1, <1>2, <2>1, <2>2, <2>3
<1> QED  BY <1>2, <1>3 DEF p, q, w

(* Press i follows the one before it on the same button and in time.       *)
Follows(s, i) ==
  /\ s[i].button = s[i - 1].button
  /\ (s[i].time - s[i - 1].time) \div TicksPerMs <= MultiClick

(* The row of presses that ends the sequence begins with press j.          *)
RowStarts(s, j) ==
  /\ j \in 1..Len(s)
  /\ \A i \in j + 1 .. Len(s) : Follows(s, i)
  /\ j > 1 => ~Follows(s, j)

Capped(n) == IF n < ClickMax THEN n ELSE ClickMax

(* Where the row that ends a sequence of presses begins: RunLength counts  *)
(* the presses from there on.                                              *)
RowStart(s) ==
  LET n == Len(s)
      IsRun(j) == \A i \in j + 1 .. n :
                    /\ s[i].button = s[i - 1].button
                    /\ (s[i].time - s[i - 1].time) \div TicksPerMs <= MultiClick
  IN CHOOSE j \in 1..n : IsRun(j) /\ \A i \in 1..n : IsRun(i) => j <= i

(* A row that cannot be extended backwards is the longest run.             *)
LEMMA RowIsRun ==
  ASSUME NEW s \in Seq([button : Buttons, time : Nat]), NEW j, RowStarts(s, j)
  PROVE  RowStart(s) = j
<1> DEFINE n == Len(s)
           IsRun(k) == \A i \in k + 1 .. n :
                         /\ s[i].button = s[i - 1].button
                         /\ (s[i].time - s[i - 1].time) \div TicksPerMs <= MultiClick
           First(k) == IsRun(k) /\ \A i \in 1..n : IsRun(i) => k <= i
<1>1. n \in Nat /\ j \in 1..n  BY DEF RowStarts
<1>2. \A k \in 1..n : IsRun(k) <=> \A i \in k + 1 .. n : Follows(s, i)  BY DEF Follows
<1> HIDE DEF IsRun, n
<1>3. \A k \in 1..n : IsRun(k) => j <= k
  <2> SUFFICES ASSUME NEW k \in 1..n, IsRun(k), k < j PROVE FALSE  BY <1>1
  <2>1. j \in k + 1 .. n /\ j > 1  BY <1>1
  <2>2. Follows(s, j)  BY <1>2, <2>1
  <2> QED  BY <2>1, <2>2 DEF RowStarts
<1>4. IsRun(j)  BY <1>1, <1>2 DEF RowStarts, n
<1>5. First(j)  BY <1>3, <1>4
<1>6. \A k \in 1..n : First(k) => k = j  BY <1>1, <1>3, <1>4
<1> HIDE DEF First
<1>7. (CHOOSE k \in 1..n : First(k)) = j  BY <1>1, <1>5, <1>6
<1> QED  BY <1>7 DEF RowStart, First, IsRun, n

(* What is in a sequence of presses is a press.                            *)
LEMMA ElementOfPresses ==
  ASSUME NEW S, NEW s \in Seq(S), NEW i \in 1..Len(s) PROVE s[i] \in S
OBVIOUS

(* The counter is about the last press since the wheel was turned: it has  *)
(* the length of the row that this press ends, or was reset by a motion or *)
(* a release after the multi-click time.                                   *)
CountInv ==
  LET n == Len(presses) IN
  /\ click_time <= now
  /\ n = 0 => click_button = 0
  /\ n > 0 =>
       /\ click_button = Number(presses[n].button)
       /\ click_time = presses[n].time
       /\ \E j \in 1..n :
            /\ RowStarts(presses, j)
            /\ \/ click_count = Capped(n + 1 - j)
               \/ click_count = 0 /\ Elapsed > MultiClick

(* A step that is no press and no wheel keeps the counter or resets it     *)
(* after the multi-click time.                                             *)
LEMMA CountKept ==
  ASSUME TypeOK, CountInv,
         UNCHANGED <<presses, click_button, click_time>>,
         UNCHANGED now \/ now' = now + 1,
         UNCHANGED click_count \/ (click_count' = 0 /\ Elapsed > MultiClick)
  PROVE  CountInv'
<1> DEFINE n == Len(presses)
<1>1. n \in Nat /\ now \in Nat /\ click_time \in Nat /\ MultiClick \in Nat /\ click_time <= now
  BY ClickAssumption DEF TypeOK, CountInv
<1>2. now' \in Nat /\ now <= now' /\ click_time <= now'
  BY <1>1
<1>3. CASE n = 0
  BY <1>2, <1>3 DEF CountInv
<1>4. CASE n > 0
  <2>1. Elapsed > MultiClick => Elapsed' > MultiClick
    <3> DEFINE a == now - click_time
               b == now' - click_time
    <3>1. a \in Nat /\ b \in Nat /\ a <= b
      <4>1. \A x, y, t \in Nat : t <= x /\ x <= y =>
              x - t \in Nat /\ y - t \in Nat /\ x - t <= y - t
        OBVIOUS
      <4> QED  BY <1>1, <1>2, <4>1
    <3>2. Elapsed = a \div TicksPerMs /\ Elapsed' = b \div TicksPerMs
      BY click_time' = click_time DEF Elapsed
    <3> HIDE DEF a, b
    <3>3. /\ a \div TicksPerMs \in Nat /\ b \div TicksPerMs \in Nat
          /\ a \div TicksPerMs <= b \div TicksPerMs
      BY <3>1, DivMonotone
    <3> QED  BY <1>1, <3>2, <3>3
  <2>2. PICK j \in 1..n :
          /\ RowStarts(presses, j)
          /\ \/ click_count = Capped(n + 1 - j)
             \/ click_count = 0 /\ Elapsed > MultiClick
    BY <1>4 DEF CountInv
  <2>3. \/ click_count' = Capped(n + 1 - j)
        \/ click_count' = 0 /\ Elapsed' > MultiClick
    BY <2>1, <2>2
  <2>4. \E i \in 1..n :
          /\ RowStarts(presses, i)
          /\ \/ click_count' = Capped(n + 1 - i)
             \/ click_count' = 0 /\ Elapsed' > MultiClick
    BY <2>2, <2>3
  <2>5. click_button = Number(presses[n].button) /\ click_time = presses[n].time
    BY <1>4 DEF CountInv
  <2>6. presses' = presses /\ click_button' = click_button /\ click_time' = click_time  OBVIOUS
  <2> HIDE DEF n
  <2>7. Len(presses') = n  BY <2>6 DEF n
  <2> QED  BY <1>1, <1>2, <1>4, <2>4, <2>5, <2>6, <2>7 DEF CountInv
<1> QED  BY <1>1, <1>3, <1>4

(* A press lengthens the row of the presses before it or starts another.   *)
LEMMA PressCounted ==
  ASSUME TypeOK, CountInv, NEW d \in Buttons, NEW m, NEW consumed \in BOOLEAN,
         ProcessButtonPressed(d, m, consumed)
  PROVE  CountInv' /\ click_count' = Capped(RunLength')
<1> DEFINE n == Len(presses)
           b == Number(d)
           new == [button |-> d, time |-> now]
<1>1. n \in Nat /\ now \in Nat /\ MultiClick \in Nat /\ ClickMax \in Nat /\ ClickMax > 0
  BY ClickAssumption DEF TypeOK
<1>2. /\ presses' = Append(presses, new) /\ Len(presses') = n + 1
      /\ presses'[n + 1] = new
      /\ \A i \in 1..n : presses'[i] = presses[i]
  BY DEF ProcessButtonPressed, TypeOK
<1>3. presses' \in Seq([button : Buttons, time : Nat])
  BY <1>1, <1>2 DEF TypeOK
<1>4. /\ click_button' = b /\ click_time' = now /\ UNCHANGED now
      /\ click_count' = CountPress(b)
  BY DEF ProcessButtonPressed
<1>w. b # 0  BY ButtonTypes
<1> HIDE DEF n, b
<1>5. \A i \in 2..n : Follows(presses', i) <=> Follows(presses, i)
  <2> SUFFICES ASSUME NEW i \in 2..n PROVE Follows(presses', i) <=> Follows(presses, i)
    OBVIOUS
  <2>1. i \in 1..n /\ i - 1 \in 1..n  BY <1>1
  <2> QED  BY <1>2, <2>1 DEF Follows
<1>6. \E j \in 1..(n + 1) : RowStarts(presses', j) /\ click_count' = Capped(n + 2 - j)
  <2>1. CASE n = 0
    <3>1. RowStarts(presses', 1)  BY <1>2, <2>1 DEF RowStarts
    <3>2. click_button = 0  BY <2>1 DEF CountInv, n
    <3>3. click_count' = 1  BY <1>4, <1>w, <3>2 DEF CountPress
    <3>4. Capped(n + 2 - 1) = 1  BY <1>1, <2>1 DEF Capped
    <3>5. 1 \in 1..(n + 1)  BY <1>1
    <3> QED  BY <3>1, <3>3, <3>4, <3>5
  <2>2. CASE n > 0
    <3> DEFINE last == presses[n]
    <3>1. last \in [button : Buttons, time : Nat]
      <4>1. n \in 1..Len(presses)  BY <1>1, <2>2 DEF n
      <4> QED  BY <4>1, ElementOfPresses DEF TypeOK
    <3>2. click_button = Number(last.button) /\ Elapsed = (now - last.time) \div TicksPerMs
      BY <2>2 DEF CountInv, Elapsed, n
    <3>4. PICK j \in 1..n :
            /\ RowStarts(presses, j)
            /\ \/ click_count = Capped(n + 1 - j)
               \/ click_count = 0 /\ Elapsed > MultiClick
      BY <2>2 DEF CountInv, n
    <3>5. Follows(presses', n + 1) <=>
            d = last.button /\ (now - last.time) \div TicksPerMs <= MultiClick
      <4>1. n \in 1..n /\ n + 1 - 1 = n  BY <1>1, <2>2
      <4> QED  BY <1>2, <4>1 DEF Follows
    <3>6. b = click_button <=> d = last.button
      BY <3>1, <3>2, ButtonTypes DEF b
    <3> HIDE DEF last
    <3>7. CASE Follows(presses', n + 1)
      <4>1. click_count = Capped(n + 1 - j)
        BY <1>1, <3>1, <3>2, <3>4, <3>5, <3>7
      <4>2. click_count' = IF click_count < ClickMax THEN click_count + 1 ELSE click_count
        BY <1>4, <3>2, <3>5, <3>6, <3>7 DEF CountPress
      <4>3. click_count' = Capped(n + 2 - j)
        BY <1>1, <4>1, <4>2 DEF Capped
      <4>4. RowStarts(presses', j)
        <5>1. j \in 1..(n + 1)  BY <1>1
        <5>2. \A i \in j + 1 .. n + 1 : Follows(presses', i)
          <6> SUFFICES ASSUME NEW i \in j + 1 .. n, i # n + 1 PROVE Follows(presses', i)
            BY <1>1, <3>7
          <6>1. i \in 2..n  BY <1>1
          <6>2. Follows(presses, i)  BY <3>4 DEF RowStarts, n
          <6> QED  BY <1>5, <6>1, <6>2
        <5>3. j > 1 => ~Follows(presses', j)
          BY <1>1, <1>5, <3>4 DEF RowStarts
        <5> QED  BY <1>2, <5>1, <5>2, <5>3 DEF RowStarts
      <4>5. j \in 1..(n + 1)  BY <1>1
      <4> QED  BY <4>3, <4>4, <4>5
    <3>8. CASE ~Follows(presses', n + 1)
      <4>1. click_count' = 1
        BY <1>1, <1>4, <3>1, <3>2, <3>5, <3>6, <3>8 DEF CountPress
      <4>2. RowStarts(presses', n + 1)
        BY <1>1, <1>2, <3>8 DEF RowStarts
      <4>3. Capped(n + 2 - (n + 1)) = 1  BY <1>1 DEF Capped
      <4>4. n + 1 \in 1..(n + 1)  BY <1>1
      <4> QED  BY <4>1, <4>2, <4>3, <4>4
    <3> QED  BY <3>7, <3>8
  <2> QED  BY <1>1, <2>1, <2>2
<1>7. PICK j \in 1..(n + 1) : RowStarts(presses', j) /\ click_count' = Capped(n + 2 - j)
  BY <1>6
<1>8. RunLength' = Len(presses') + 1 - j
  <2>1. RowStart(presses') = j  BY <1>3, <1>7, RowIsRun
  <2>2. RunLength' = Len(presses') + 1 - RowStart(presses')  BY DEF RunLength, RowStart
  <2> QED  BY <2>1, <2>2
<1>9. CountInv'
  <2>2. new.button = d /\ new.time = now  OBVIOUS
  <2>3. n + 1 + 1 - j = n + 2 - j  BY <1>1
  <2> QED  BY <1>1, <1>2, <1>4, <1>7, <2>2, <2>3 DEF CountInv, b
<1>10. Len(presses') + 1 - j = n + 2 - j  BY <1>1, <1>2
<1> QED  BY <1>7, <1>8, <1>9, <1>10

(* The counter keeps up with the presses.                                  *)
LEMMA CountStep == TypeOK /\ CountInv /\ [Next]_vars => CountInv'
<1> SUFFICES ASSUME TypeOK, CountInv, [Next]_vars PROVE CountInv'  OBVIOUS
<1> USE DEF userVars, clickVars, historyVars
<1>k. ASSUME UNCHANGED <<presses, click_button, click_time>>,
             UNCHANGED now \/ now' = now + 1,
             UNCHANGED click_count \/ (click_count' = 0 /\ Elapsed > MultiClick)
      PROVE  CountInv'
  BY <1>k, CountKept
<1>1. ASSUME NEW consumed \in BOOLEAN, Keyboard(consumed) PROVE CountInv'
  BY <1>1, <1>k DEF Keyboard, KeyDown, FlagsChanged, SystemKey, KeyUp, CapsChanged
<1>2. ASSUME NEW b \in Buttons, NEW consumed \in BOOLEAN,
             ButtonDown(b, consumed) \/ OtherMouseUp(b, consumed)
      PROVE  CountInv'
  BY <1>2, PressCounted DEF ButtonDown, OtherMouseUp
<1>3. ASSUME NEW b \in Buttons, NEW consumed \in BOOLEAN, ButtonUp(b, consumed) PROVE CountInv'
  BY <1>3, <1>k DEF ButtonUp
<1>4. ASSUME NEW consumed \in BOOLEAN, MouseMoved(consumed) PROVE CountInv'
  BY <1>4, <1>k DEF MouseMoved
<1>5. ASSUME NEW turned \in BOOLEAN, NEW consumed \in BOOLEAN, MouseWheel(turned, consumed)
      PROVE  CountInv'
  <2>1. Len(presses') = 0 /\ click_button' = 0 /\ UNCHANGED <<now, click_time>>
    BY <1>5 DEF MouseWheel
  <2> QED  BY <2>1 DEF CountInv
<1>6. CASE Unseen  BY <1>6, <1>k DEF Unseen, UnseenKey, UnseenCaps, UnseenButton
<1>7. CASE TapEnabled \/ TapTimeout \/ Tick \/ HookReturns \/ HookRun
  BY <1>7, <1>k DEF TapEnabled, TapTimeout, Tick, HookReturns, HookRun
<1>8. CASE UNCHANGED vars  BY <1>8, <1>k DEF vars
<1> QED  BY <1>1, <1>2, <1>3, <1>4, <1>5, <1>6, <1>7, <1>8 DEF Next, Pointer

(* No press is being reported.                                             *)
NoPress == \A i \in DOMAIN out : out[i].type # "MOUSE_PRESSED"

(* Only what is processed as a press reports one.                          *)
LEMMA WhoDispatches ==
  ASSUME TypeOK, Next
  PROVE  \/ \E b \in Buttons, m \in SUBSET Masks, consumed \in BOOLEAN :
              ProcessButtonPressed(b, m, consumed)
         \/ NoPress'
<1> DEFINE Goal == \/ \E b \in Buttons, m \in SUBSET Masks, consumed \in BOOLEAN :
                        ProcessButtonPressed(b, m, consumed)
                   \/ NoPress'
<1> SUFFICES Goal  OBVIOUS
<1>q. ASSUME out' = <<>> PROVE Goal  BY <1>q DEF NoPress
<1>k. ASSUME out' \in Seq(KeyEvents) PROVE Goal
  <2>1. \A e \in KeyEvents : e.type # "MOUSE_PRESSED"  BY DEF KeyEvents
  <2> QED  BY <1>k, <2>1 DEF NoPress
<1>r. \A m \in SUBSET Masks : <<Key("KEY_RELEASED", m)>> \in Seq(KeyEvents)
  <2> TAKE m \in SUBSET Masks
  <2>1. Key("KEY_RELEASED", m) \in KeyEvents  BY EventTypes
  <2> QED  BY <2>1
<1>1. ASSUME NEW consumed \in BOOLEAN, NEW chars \in 0..1, KeyDown(chars, consumed) PROVE Goal
  BY <1>1, <1>k, KeyPressedType DEF KeyDown, Fire, TypeOK
<1>2. ASSUME NEW consumed \in BOOLEAN, KeyUp(consumed) PROVE Goal
  BY <1>2, <1>k, <1>r DEF KeyUp, Fire, TypeOK
<1>3. ASSUME NEW consumed \in BOOLEAN, NEW chars \in 0..1, NEW k \in Modifiers,
             FlagsChanged(k, chars, consumed)
      PROVE  Goal
  <2> DEFINE m == current_modifiers'
  <2>1. m \in SUBSET Masks  BY <1>3, MasksApart DEF FlagsChanged, TypeOK, Masks
  <2>2. out' = KeyPressed(m, chars, consumed) \/ out' = <<Key("KEY_RELEASED", m)>>
    BY <1>3 DEF FlagsChanged, Fire
  <2> HIDE DEF m
  <2>3. out' \in Seq(KeyEvents)  BY <1>r, <2>1, <2>2, KeyPressedType
  <2> QED  BY <1>k, <2>3
<1>4. ASSUME NEW consumed \in BOOLEAN, NEW chars \in 0..1, NEW type \in {"down", "up", "none"},
             SystemKey(type, chars, consumed)
      PROVE  Goal
  <2>1. \/ out' = KeyPressed(current_modifiers, chars, consumed)
        \/ out' = <<Key("KEY_RELEASED", current_modifiers)>>
        \/ out' = <<>>
    BY <1>4 DEF SystemKey, Fire
  <2> QED  BY <1>k, <1>q, <1>r, <2>1, KeyPressedType DEF TypeOK
<1>5. CASE CapsChanged  BY <1>5, <1>q DEF CapsChanged, Fire
<1>6. ASSUME NEW b \in Buttons, NEW consumed \in BOOLEAN, ButtonDown(b, consumed) PROVE Goal
  <2>1. current_modifiers \union ButtonBits(b) \in SUBSET Masks  BY ButtonTypes DEF TypeOK
  <2> QED  BY <1>6, <2>1 DEF ButtonDown
<1>7. ASSUME NEW b \in Buttons, NEW consumed \in BOOLEAN, OtherMouseUp(b, consumed) PROVE Goal
  <2>1. current_modifiers \ ButtonBits(b) \in SUBSET Masks  BY DEF TypeOK
  <2> QED  BY <1>7, <2>1 DEF OtherMouseUp
<1>8. ASSUME NEW b \in Buttons, NEW consumed \in BOOLEAN, ButtonUp(b, consumed) PROVE Goal
  <2> DEFINE r == Mouse("MOUSE_RELEASED", current_modifiers \ ButtonBits(b), Number(b), click_count)
             c == Mouse("MOUSE_CLICKED", current_modifiers \ ButtonBits(b), Number(b), click_count)
             rest == IF consumed \/ ~IsClick THEN <<>> ELSE <<c>>
  <2>1. r.type = "MOUSE_RELEASED" /\ c.type = "MOUSE_CLICKED"  BY DEF Mouse
  <2>2. out' = <<r>> \o rest  BY <1>8 DEF ButtonUp, Fire
  <2> HIDE DEF r, c
  <2>3. <<r>> \in Seq({r, c}) /\ <<c>> \in Seq({r, c}) /\ <<>> \in Seq({r, c})  OBVIOUS
  <2>4. rest \in Seq({r, c})
    <3>1. rest = <<>> \/ rest = <<c>>  OBVIOUS
    <3> HIDE DEF rest
    <3> QED  BY <2>3, <3>1
  <2> HIDE DEF rest
  <2>5. out' \in Seq({r, c})  BY <2>2, <2>3, <2>4
  <2> QED  BY <2>1, <2>5 DEF NoPress
<1>9. ASSUME NEW consumed \in BOOLEAN, MouseMoved(consumed) PROVE Goal
  <2>1. DOMAIN out' = {1} /\ out'[1].type \in {"MOUSE_MOVED", "MOUSE_DRAGGED"}
    BY <1>9 DEF MouseMoved, Fire, Mouse
  <2> QED  BY <2>1 DEF NoPress
<1>10. ASSUME NEW turned \in BOOLEAN, NEW consumed \in BOOLEAN, MouseWheel(turned, consumed)
       PROVE  Goal
  <2>1. CASE turned
    <3>1. DOMAIN out' = {1} /\ out'[1].type = "MOUSE_WHEEL"
      BY <1>10, <2>1 DEF MouseWheel, Fire, Mouse
    <3> QED  BY <3>1 DEF NoPress
  <2>2. CASE ~turned  BY <1>10, <1>q, <2>2 DEF MouseWheel, Fire
  <2> QED  BY <2>1, <2>2
<1>11. CASE TapEnabled \/ TapTimeout \/ Unseen \/ Tick
  BY <1>11, <1>q DEF TapEnabled, TapTimeout, Unseen, UnseenKey, UnseenCaps, UnseenButton, Tick,
     Quiet
<1>12. CASE HookReturns \/ HookRun  BY <1>12, <1>q DEF HookReturns, HookRun, FireStatus
<1> QED  BY <1>1, <1>2, <1>3, <1>4, <1>5, <1>6, <1>7, <1>8, <1>9, <1>10, <1>11, <1>12
     DEF Next, Keyboard, Pointer

(* The click count of a press is the number of presses of its button in a  *)
(* row, each within the multi-click time of the one before in whole        *)
(* milliseconds, up to USHRT_MAX: for every mouse, every unit of time, and *)
(* over timeouts of the tap and calls of hook_run().                       *)
THEOREM ClicksArePresses == Spec => []ClicksCountPresses
<1> DEFINE Inv == TypeOK /\ CountInv /\ ClicksCountPresses
<1>1. Init => Inv
  <2> SUFFICES ASSUME Init PROVE Inv  OBVIOUS
  <2>1. CountInv  BY DEF Init, CountInv
  <2>2. ClicksCountPresses  BY DEF Init, ClicksCountPresses, Dispatched
  <2> QED  BY <2>1, <2>2, TypeInit
<1>2. Inv /\ [Next]_vars => Inv'
  <2> SUFFICES ASSUME Inv, [Next]_vars PROVE ClicksCountPresses'
    BY TypeStep, CountStep
  <2>1. CASE UNCHANGED vars
    <3>1. out' = out /\ presses' = presses  BY <2>1 DEF vars, historyVars
    <3>2. RunLength' = RunLength  BY <3>1, Zenon DEF RunLength
    <3>3. Dispatched' = Dispatched  BY <3>1 DEF Dispatched
    <3> QED  BY <3>2, <3>3 DEF ClicksCountPresses
  <2>2. CASE NoPress'  BY <2>2 DEF NoPress, ClicksCountPresses, Dispatched
  <2>3. ASSUME NEW b \in Buttons, NEW m \in SUBSET Masks, NEW consumed \in BOOLEAN,
               ProcessButtonPressed(b, m, consumed)
        PROVE  ClicksCountPresses'
    <3>1. \A e \in Dispatched' : e.clicks = click_count'
      BY <2>3 DEF ProcessButtonPressed, Fire, Mouse, Dispatched
    <3>2. click_count' = Capped(RunLength')  BY <2>3, PressCounted
    <3> QED  BY <3>1, <3>2 DEF ClicksCountPresses, Capped
  <2> QED  BY <2>1, <2>2, <2>3, WhoDispatches
<1>3. Inv => ClicksCountPresses  OBVIOUS
<1> HIDE DEF Inv
<1> QED  BY <1>1, <1>2, <1>3, PTL DEF Spec

=============================================================================
