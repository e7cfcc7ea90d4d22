------------------------- MODULE WindowsInputProofs -------------------------
(***************************************************************************)
(* Proofs about WindowsInput, WindowsWheel and WindowsLocale, for any      *)
(* keys, buttons and points, any click limit, clock, deltas and number of  *)
(* messages, any finite set of layouts and number of changes of them.      *)
(***************************************************************************)
EXTENDS WindowsInput, WindowsWheel, WindowsLocale, FiniteSetTheorems, TLAPS

Events == KeyEvents \union MouseEvents

LEMMA BitsAreMasks ==
  /\ \A k \in Keys : KeyBits(k) \subseteq Masks
  /\ \A b \in Buttons : ButtonBits(b) \subseteq Masks
  /\ \A down : InitializeModifiers(down) \subseteq Masks
<1>1. \A k \in Keys : KeyBits(k) \subseteq Masks
  BY DEF KeyBits, Masks
<1>2. \A b \in Buttons : ButtonBits(b) \subseteq Masks
  BY ButtonsAssumption
  DEF ButtonBits, Masks, ButtonMasks, ModifierKeys, LockKeys, PlainButtons, ExtraButtons
<1>3. \A down : InitializeModifiers(down) \subseteq Masks
  BY <1>1, <1>2, Zenon DEF InitializeModifiers
<1> QED  BY <1>1, <1>2, <1>3

LEMMA NumbersAreButtons ==
  \A b \in Buttons : PressNumber(b) \in 1..5 /\ ReleaseNumber(b) \in 1..5
BY ButtonsAssumption DEF PressNumber, ReleaseNumber, PlainButtons, ExtraButtons

LEMMA EventTypes ==
  /\ \A type \in {"KEY_PRESSED", "KEY_RELEASED", "KEY_TYPED"}, m \in SUBSET Masks, c \in BOOLEAN :
       Key(type, m, c) \in Events
  /\ \A type \in {"MOUSE_PRESSED", "MOUSE_RELEASED", "MOUSE_CLICKED", "MOUSE_MOVED",
                  "MOUSE_DRAGGED", "MOUSE_WHEEL"},
        m \in SUBSET Masks, b \in MouseButton, n \in 0..ClickMax, c \in BOOLEAN :
       Mouse(type, m, b, n, c) \in Events
BY DEF Key, Mouse, Events, KeyEvents, MouseEvents

LEMMA FinishType ==
  ASSUME TypeOK, NEW events \in Seq(Events), Finish(events)
  PROVE  out' \in Seq(Events) /\ reserved' \in BOOLEAN
<1>1. \A e \in Events : e.consumed \in BOOLEAN
  BY DEF Events, KeyEvents, MouseEvents
<1>2. events # <<>> => events[Len(events)] \in Events
  OBVIOUS
<1>3. reserved' \in BOOLEAN
  BY <1>1, <1>2 DEF Finish, ReservedAfter, TypeOK
<1> QED  BY <1>3 DEF Finish

LEMMA TimeTypes ==
  TypeOK => Timestamp \in 0..(TimeWrap - 1) /\ Elapsed \in Int
BY TimeAssumption DEF TypeOK, Timestamp, Elapsed

LEMMA CountType ==
  ASSUME TypeOK, NEW n \in Int PROVE CountPress(n) \in 0..ClickMax
BY ClickAssumption DEF TypeOK, CountPress

LEMMA TypeInit == Init => TypeOK
<1> SUFFICES ASSUME Init PROVE TypeOK  OBVIOUS
<1>1. current_modifiers \subseteq Masks
  BY BitsAreMasks DEF Init
<1>2. now \in Nat /\ click_time \in 0..(TimeWrap - 1) /\ click_count \in 0..ClickMax /\ click_button \in MouseButton
  BY TimeAssumption, ClickAssumption DEF Init, MouseButton
<1>3. out \in Seq(Events) /\ presses \in Seq([button : Buttons, time : Nat])
  BY DEF Init
<1> QED  BY <1>1, <1>2, <1>3, PointsAssumption DEF Init, TypeOK, Events

LEMMA TypeStep == TypeOK /\ [Next]_vars => TypeOK'
<1> SUFFICES ASSUME TypeOK, [Next]_vars PROVE TypeOK'  OBVIOUS
<1> USE DEF userVars, clickVars, historyVars
<1>q. ASSUME Quiet PROVE out' \in Seq(Events) /\ reserved' \in BOOLEAN
  BY <1>q DEF Quiet, TypeOK
<1>f. ASSUME FireStatus PROVE out' \in Seq(Events) /\ reserved' \in BOOLEAN
  BY <1>f DEF FireStatus
<1>m. ASSUME ReadModifiers
      PROVE  current_modifiers' \subseteq Masks /\ stale' \subseteq Keys \union Buttons
  BY <1>m, BitsAreMasks DEF ReadModifiers, TypeOK
<1>1. ASSUME NEW k \in Keys, NEW chars \in 0..2, NEW c \in [1..3 -> BOOLEAN], KeyDown(k, chars, c)
      PROVE  TypeOK'
  <2> DEFINE m == current_modifiers \union KeyBits(k)
             texts == IF c[1] THEN <<>> ELSE [i \in 1..chars |-> Key("KEY_TYPED", m, c[i + 1])]
  <2>1. m \in SUBSET Masks  BY BitsAreMasks DEF TypeOK
  <2>2. Key("KEY_PRESSED", m, c[1]) \in Events  BY <2>1, EventTypes
  <2>3. texts \in Seq(Events)
    <3>1. \A i \in 1..chars : i + 1 \in 1..3  OBVIOUS
    <3>2. \A i \in 1..chars : Key("KEY_TYPED", m, c[i + 1]) \in Events
      BY <2>1, <3>1, EventTypes
    <3>3. [i \in 1..chars |-> Key("KEY_TYPED", m, c[i + 1])] \in Seq(Events)
      BY <3>2
    <3>4. <<>> \in Seq(Events)  OBVIOUS
    <3> QED  BY <3>3, <3>4, Zenon
  <2> HIDE DEF texts
  <2>4. <<Key("KEY_PRESSED", m, c[1])>> \o texts \in Seq(Events)
    BY <2>2, <2>3
  <2>5. out' \in Seq(Events) /\ reserved' \in BOOLEAN
    BY <1>1, <2>4, FinishType DEF KeyDown, texts
  <2>6. current_modifiers' \subseteq Masks  BY <1>1, <2>1 DEF KeyDown
  <2>7. logical' \subseteq Keys \union Buttons
    BY <1>1 DEF KeyDown, Press, TypeOK
  <2> QED  BY <1>1, <2>5, <2>6, <2>7 DEF KeyDown, TypeOK, Events
<1>2. ASSUME NEW k \in Keys, NEW c \in BOOLEAN, KeyUp(k, c) PROVE TypeOK'
  <2> DEFINE m == current_modifiers \ KeyBits(k)
  <2>1. m \in SUBSET Masks  BY DEF TypeOK
  <2>2. <<Key("KEY_RELEASED", m, c)>> \in Seq(Events)  BY <2>1, EventTypes
  <2>3. out' \in Seq(Events) /\ reserved' \in BOOLEAN
    BY <1>2, <2>2, FinishType DEF KeyUp
  <2>4. current_modifiers' \subseteq Masks  BY <1>2, <2>1 DEF KeyUp
  <2> QED  BY <1>2, <2>3, <2>4 DEF KeyUp, Release, TypeOK, Events
<1>3. ASSUME NEW b \in Buttons, NEW c \in BOOLEAN, ButtonDown(b, c) PROVE TypeOK'
  <2> DEFINE m == current_modifiers \union ButtonBits(b)
  <2>1. m \in SUBSET Masks  BY BitsAreMasks DEF TypeOK
  <2>2. PressNumber(b) \in MouseButton /\ PressNumber(b) \in Int
    BY NumbersAreButtons DEF MouseButton
  <2>3. click_count' \in 0..ClickMax /\ click_button' \in MouseButton
    BY <1>3, <2>2, CountType DEF ButtonDown
  <2>4. click_time' \in 0..(TimeWrap - 1)  BY <1>3, TimeTypes DEF ButtonDown
  <2>5. <<Mouse("MOUSE_PRESSED", m, PressNumber(b), click_count', c)>> \in Seq(Events)
    BY <2>1, <2>2, <2>3, EventTypes
  <2>6. out' \in Seq(Events) /\ reserved' \in BOOLEAN
    BY <1>3, <2>5, FinishType DEF ButtonDown
  <2>7. presses' \in Seq([button : Buttons, time : Nat])
    BY <1>3 DEF ButtonDown, TypeOK
  <2>8. current_modifiers' \subseteq Masks  BY <1>3, <2>1 DEF ButtonDown
  <2>9. held' \subseteq Buttons /\ still' \subseteq Buttons /\ logical' \subseteq Keys \union Buttons
        /\ stale' \subseteq Keys \union Buttons
    BY <1>3 DEF ButtonDown, Press, TypeOK
  <2> QED  BY <1>3, <2>3, <2>4, <2>6, <2>7, <2>8, <2>9 DEF ButtonDown, TypeOK, Events
<1>4. ASSUME NEW b \in Buttons, NEW c \in [1..2 -> BOOLEAN], ButtonUp(b, c) PROVE TypeOK'
  <2> DEFINE m == current_modifiers \ ButtonBits(b)
             n == ReleaseNumber(b)
             clicked == IF c[1] \/ ~IsClick THEN <<>>
                        ELSE <<Mouse("MOUSE_CLICKED", m, n, click_count, c[2])>>
  <2>1. m \in SUBSET Masks /\ click_count \in 0..ClickMax  BY DEF TypeOK
  <2>2. n \in MouseButton  BY NumbersAreButtons DEF MouseButton
  <2>3. Mouse("MOUSE_RELEASED", m, n, click_count, c[1]) \in Events
    BY <2>1, <2>2, EventTypes
  <2>4. Mouse("MOUSE_CLICKED", m, n, click_count, c[2]) \in Events
    BY <2>1, <2>2, EventTypes
  <2>5. <<Mouse("MOUSE_RELEASED", m, n, click_count, c[1])>> \o clicked \in Seq(Events)
    BY <2>3, <2>4
  <2>6. out' \in Seq(Events) /\ reserved' \in BOOLEAN
    BY <1>4, <2>5, FinishType DEF ButtonUp
  <2>7. click_count' \in 0..ClickMax  BY <1>4, <2>1, ClickAssumption DEF ButtonUp
  <2>8. current_modifiers' \subseteq Masks  BY <1>4, <2>1 DEF ButtonUp
  <2> QED  BY <1>4, <2>6, <2>7, <2>8 DEF ButtonUp, Release, TypeOK, Events
<1>5. ASSUME NEW p \in Points, NEW c \in BOOLEAN, MouseMoved(p, c) PROVE TypeOK'
  <2> DEFINE type == IF current_modifiers \intersect ButtonMasks # {}
                     THEN "MOUSE_DRAGGED" ELSE "MOUSE_MOVED"
             n == IF click_count # 0 /\ Elapsed > MultiClick THEN 0 ELSE click_count
  <2>1. n \in 0..ClickMax  BY ClickAssumption DEF TypeOK
  <2>2. current_modifiers \in SUBSET Masks /\ 0 \in MouseButton  BY DEF TypeOK, MouseButton
  <2>3. <<Mouse(type, current_modifiers, 0, n, c)>> \in Seq(Events) /\ <<>> \in Seq(Events)
    BY <2>1, <2>2, EventTypes
  <2> HIDE DEF type
  <2>4. out' \in Seq(Events) /\ reserved' \in BOOLEAN
    BY <1>5, <2>3, FinishType DEF MouseMoved, type
  <2>5. click_count' \in 0..ClickMax  BY <1>5, <2>1 DEF MouseMoved, TypeOK
  <2> QED  BY <1>5, <2>4, <2>5 DEF MouseMoved, Move, TypeOK, Events
<1>6. ASSUME NEW read \in BOOLEAN, NEW c \in BOOLEAN, MouseWheel(read, c) PROVE TypeOK'
  <2>1. current_modifiers \in SUBSET Masks /\ 0 \in MouseButton /\ 1 \in 0..ClickMax
    BY ClickAssumption DEF TypeOK, MouseButton
  <2>2. <<Mouse("MOUSE_WHEEL", current_modifiers, 0, 1, c)>> \in Seq(Events)
    BY <2>1, EventTypes
  <2>3. out' \in Seq(Events) /\ reserved' \in BOOLEAN
    <3>1. CASE read
      BY <1>6, <2>2, <3>1, FinishType DEF MouseWheel
    <3>2. CASE ~read
      BY <1>6, <3>2 DEF MouseWheel
    <3> QED  BY <3>1, <3>2
  <2> QED  BY <1>6, <2>1, <2>3 DEF MouseWheel, TypeOK, Events
<1>7. ASSUME NEW k \in {"keyboard", "mouse"}, HookTimeout(k) PROVE TypeOK'
  BY <1>7, <1>q DEF HookTimeout, TypeOK, Events
<1>8. ASSUME NEW k \in Keys, UnseenKey(k) PROVE TypeOK'
  BY <1>8, <1>q DEF UnseenKey, TypeOK, Events
<1>9. ASSUME NEW b \in Buttons, UnseenButton(b) PROVE TypeOK'
  BY <1>9, <1>q DEF UnseenButton, TypeOK, Events
<1>10. ASSUME NEW p \in Points, UnseenMove(p) PROVE TypeOK'
  BY <1>10, <1>q DEF UnseenMove, TypeOK, Events
<1>11. CASE Tick
  BY <1>11, <1>q DEF Tick, TypeOK, Events
<1>12. CASE WinHookEventProc
  BY <1>12, <1>q, <1>m DEF WinHookEventProc, TypeOK, Events
<1>13. CASE HookReturns
  BY <1>13, <1>f DEF HookReturns, TypeOK, Events
<1>14. CASE HookRun
  BY <1>14, <1>f, <1>m DEF HookRun, TypeOK, Events
<1>15. CASE UNCHANGED vars
  BY <1>15 DEF vars, TypeOK
<1> QED
  BY <1>1, <1>2, <1>3, <1>4, <1>5, <1>6, <1>7, <1>8, <1>9, <1>10, <1>11, <1>12, <1>13, <1>14, <1>15
  DEF Next, Seen, Unseen
-----------------------------------------------------------------------------
(* A message of an extended button names XBUTTON1 or XBUTTON2; these are   *)
(* all that Windows has.                                                   *)
NoExtraButtons == Buttons \subseteq PlainButtons

(* The bit of a button is set exactly while it is down, and the bits of    *)
(* the buttons that the mouse does not have are never set.                 *)
ButtonsTracked ==
  /\ \A b \in Buttons \ stale : ButtonBits(b) \subseteq current_modifiers <=> b \in held
  /\ \A m \in current_modifiers \intersect ButtonMasks : \E b \in Buttons : ButtonBits(b) = {m}

MaskInv == TypeOK /\ ModifiersTracked /\ ButtonsTracked

LEMMA Disjoint ==
  /\ Keys \intersect Buttons = {}
  /\ ButtonMasks \intersect (ModifierKeys \union LockKeys) = {}
  /\ \A k \in Keys : KeyBits(k) \intersect ButtonMasks = {}
BY KeysAssumption, ButtonsAssumption
DEF KeyBits, ModifierKeys, LockKeys, CharKeys, PlainButtons, ExtraButtons, ButtonMasks

LEMMA PlainBits ==
  ASSUME NoExtraButtons
  PROVE  /\ \A b \in Buttons : \E m \in ButtonMasks : ButtonBits(b) = {m}
         /\ \A a, b \in Buttons : ButtonBits(a) = ButtonBits(b) => a = b
<1>1. \A b \in PlainButtons : \E m \in ButtonMasks : ButtonBits(b) = {m}
  BY DEF ButtonBits, PlainButtons, ButtonMasks
<1>2. \A a, b \in PlainButtons : ButtonBits(a) = ButtonBits(b) => a = b
  <2>1. /\ ButtonBits("LEFT") = {"BUTTON1"} /\ ButtonBits("RIGHT") = {"BUTTON2"}
        /\ ButtonBits("MIDDLE") = {"BUTTON3"} /\ ButtonBits("X1") = {"BUTTON4"}
        /\ ButtonBits("X2") = {"BUTTON5"}
    BY DEF ButtonBits
  <2> QED  BY <2>1 DEF PlainButtons
<1> QED  BY <1>1, <1>2 DEF NoExtraButtons

(* initialize_modifiers() sets the bits of what GetKeyState() reports.     *)
LEMMA InitializedMask ==
  ASSUME NoExtraButtons, NEW down
  PROVE  /\ \A k \in Keys \intersect (ModifierKeys \union LockKeys) :
              k \in InitializeModifiers(down) <=> k \in down
         /\ \A b \in Buttons : ButtonBits(b) \subseteq InitializeModifiers(down) <=> b \in down
         /\ \A m \in InitializeModifiers(down) \intersect ButtonMasks :
              \E b \in Buttons : ButtonBits(b) = {m}
<1> DEFINE I == InitializeModifiers(down)
<1>1. \A m : m \in I <=> \/ \E k \in down \intersect Keys : m \in KeyBits(k)
                         \/ \E b \in down \intersect Buttons : m \in ButtonBits(b)
  BY DEF InitializeModifiers, NoExtraButtons
<1> HIDE DEF I
<1>2. \A k \in Keys \intersect (ModifierKeys \union LockKeys) : k \in I <=> k \in down
  <2> TAKE k \in Keys \intersect (ModifierKeys \union LockKeys)
  <2>1. \A j : k \in KeyBits(j) <=> j = k  BY DEF KeyBits
  <2>2. \A b \in Buttons : k \notin ButtonBits(b)  BY PlainBits, Disjoint
  <2> QED  BY <1>1, <2>1, <2>2
<1>3. \A b \in Buttons : ButtonBits(b) \subseteq I <=> b \in down
  <2> TAKE b \in Buttons
  <2>1. PICK m \in ButtonMasks : ButtonBits(b) = {m}  BY PlainBits
  <2>2. \A a \in Buttons : m \in ButtonBits(a) => a = b  BY <2>1, PlainBits
  <2>3. \A k \in Keys : m \notin KeyBits(k)  BY Disjoint
  <2> QED  BY <1>1, <2>1, <2>2, <2>3
<1>4. \A m \in I \intersect ButtonMasks : \E b \in Buttons : ButtonBits(b) = {m}
  <2> TAKE m \in I \intersect ButtonMasks
  <2>1. PICK b \in Buttons : m \in ButtonBits(b)  BY <1>1, Disjoint
  <2> QED  BY <2>1, PlainBits
<1> QED  BY <1>2, <1>3, <1>4 DEF I

LEMMA MaskInit == NoExtraButtons /\ Init => MaskInv
<1> SUFFICES ASSUME NoExtraButtons, Init PROVE MaskInv  OBVIOUS
<1>1. TypeOK  BY TypeInit
<1> DEFINE I == InitializeModifiers(logical)
<1>a. /\ \A k \in Keys \intersect (ModifierKeys \union LockKeys) : k \in I <=> k \in logical
      /\ \A b \in Buttons : ButtonBits(b) \subseteq I <=> b \in logical
      /\ \A m \in I \intersect ButtonMasks : \E b \in Buttons : ButtonBits(b) = {m}
  BY InitializedMask
<1>b. /\ current_modifiers = I /\ logical = keys \union held
      /\ keys \subseteq Keys /\ held \subseteq Buttons
  BY DEF Init
<1> HIDE DEF I
<1>2. ModifiersTracked
  BY <1>a, <1>b, Disjoint DEF ModifiersTracked
<1>3. ButtonsTracked
  BY <1>a, <1>b, Disjoint DEF ButtonsTracked
<1> QED  BY <1>1, <1>2, <1>3 DEF MaskInv

(* Reading the modifiers again restores the mask.                          *)
LEMMA ReadMask ==
  ASSUME NoExtraButtons, TypeOK, ReadModifiers, UNCHANGED <<keys, held>>
  PROVE  ModifiersTracked' /\ ButtonsTracked'
<1>1. ModifiersTracked'
  BY Disjoint, InitializedMask DEF ReadModifiers, ModifiersTracked, TypeOK
<1>2. ButtonsTracked'
  BY Disjoint, InitializedMask DEF ReadModifiers, ButtonsTracked, TypeOK
<1> QED  BY <1>1, <1>2

LEMMA MaskStep == NoExtraButtons /\ MaskInv /\ [Next]_vars => MaskInv'
<1> DEFINE Goal == ModifiersTracked' /\ ButtonsTracked'
<1> SUFFICES ASSUME NoExtraButtons, MaskInv, [Next]_vars PROVE Goal
  BY TypeStep DEF MaskInv
<1> USE DEF MaskInv, userVars, clickVars, historyVars
<1>s. ASSUME UNCHANGED <<keys, held, current_modifiers, stale>>
      PROVE  ModifiersTracked' /\ ButtonsTracked'
  BY <1>s DEF ModifiersTracked, ButtonsTracked
<1>1. ASSUME NEW k \in Keys, NEW chars \in 0..2, NEW c \in [1..3 -> BOOLEAN], KeyDown(k, chars, c)
      PROVE  Goal
  <2>1. ModifiersTracked'
    BY <1>1 DEF KeyDown, ModifiersTracked, KeyBits
  <2>2. ButtonsTracked'
    <3>1. \A m \in ButtonMasks : m \in current_modifiers' <=> m \in current_modifiers
      BY <1>1, Disjoint DEF KeyDown
    <3>2. UNCHANGED held /\ \A b \in Buttons : b \in stale' <=> b \in stale
      BY <1>1, Disjoint DEF KeyDown
    <3> QED  BY <3>1, <3>2, PlainBits DEF ButtonsTracked
  <2> QED  BY <1>1, <2>1, <2>2 DEF KeyDown
<1>2. ASSUME NEW k \in Keys, NEW c \in BOOLEAN, KeyUp(k, c) PROVE Goal
  <2>1. ModifiersTracked'
    BY <1>2 DEF KeyUp, ModifiersTracked, KeyBits
  <2>2. ButtonsTracked'
    BY <1>2, Disjoint, PlainBits DEF KeyUp, ButtonsTracked
  <2> QED  BY <1>2, <2>1, <2>2 DEF KeyUp
<1>3. ASSUME NEW b \in Buttons, NEW c \in BOOLEAN, ButtonDown(b, c) PROVE Goal
  <2>1. ModifiersTracked'
    BY <1>3, Disjoint, PlainBits DEF ButtonDown, ModifiersTracked
  <2>2. ButtonsTracked'
    <3>1. PICK m \in ButtonMasks : ButtonBits(b) = {m}  BY PlainBits
    <3>2. \A a \in Buttons \ {b} : \E l \in ButtonMasks \ {m} : ButtonBits(a) = {l}
      BY <3>1, PlainBits
    <3>3. /\ current_modifiers' = current_modifiers \union {m}
          /\ held' = held \union {b} /\ stale' = stale \ {b}
      BY <1>3, <3>1 DEF ButtonDown
    <3>4. \A a \in Buttons \ stale' : ButtonBits(a) \subseteq current_modifiers' <=> a \in held'
      BY <3>1, <3>2, <3>3 DEF ButtonsTracked
    <3>5. \A l \in current_modifiers' \intersect ButtonMasks : \E a \in Buttons : ButtonBits(a) = {l}
      BY <3>1, <3>3 DEF ButtonsTracked
    <3> QED  BY <3>4, <3>5 DEF ButtonsTracked
  <2> QED  BY <1>3, <2>1, <2>2 DEF ButtonDown
<1>4. ASSUME NEW b \in Buttons, NEW c \in [1..2 -> BOOLEAN], ButtonUp(b, c) PROVE Goal
  <2>1. ModifiersTracked'
    BY <1>4, Disjoint, PlainBits DEF ButtonUp, ModifiersTracked
  <2>2. ButtonsTracked'
    <3>1. PICK m \in ButtonMasks : ButtonBits(b) = {m}  BY PlainBits
    <3>2. \A a \in Buttons \ {b} : \E l \in ButtonMasks \ {m} : ButtonBits(a) = {l}
      BY <3>1, PlainBits
    <3>3. /\ current_modifiers' = current_modifiers \ {m}
          /\ held' = held \ {b} /\ stale' = stale \ {b}
      BY <1>4, <3>1 DEF ButtonUp
    <3>4. \A a \in Buttons \ stale' : ButtonBits(a) \subseteq current_modifiers' <=> a \in held'
      BY <3>1, <3>2, <3>3 DEF ButtonsTracked
    <3>5. \A l \in current_modifiers' \intersect ButtonMasks : \E a \in Buttons : ButtonBits(a) = {l}
      BY <3>1, <3>3 DEF ButtonsTracked
    <3> QED  BY <3>4, <3>5 DEF ButtonsTracked
  <2> QED  BY <1>4, <2>1, <2>2 DEF ButtonUp
<1>5. ASSUME NEW p \in Points, NEW c \in BOOLEAN, MouseMoved(p, c) PROVE Goal
  BY <1>5, <1>s DEF MouseMoved, Move
<1>6. ASSUME NEW read \in BOOLEAN, NEW c \in BOOLEAN, MouseWheel(read, c) PROVE Goal
  BY <1>6, <1>s DEF MouseWheel
<1>7. ASSUME NEW k \in {"keyboard", "mouse"}, HookTimeout(k) PROVE Goal
  BY <1>7, <1>s DEF HookTimeout
<1>8. ASSUME NEW k \in Keys, UnseenKey(k) PROVE Goal
  BY <1>8, Disjoint DEF UnseenKey, ModifiersTracked, ButtonsTracked
<1>9. ASSUME NEW b \in Buttons, UnseenButton(b) PROVE Goal
  BY <1>9, Disjoint DEF UnseenButton, ModifiersTracked, ButtonsTracked
<1>10. ASSUME NEW p \in Points, UnseenMove(p) PROVE Goal
  BY <1>10, <1>s DEF UnseenMove
<1>11. CASE Tick
  BY <1>11, <1>s DEF Tick
<1>12. CASE WinHookEventProc
  BY <1>12, ReadMask DEF WinHookEventProc
<1>13. CASE HookReturns
  BY <1>13, <1>s DEF HookReturns
<1>14. CASE HookRun
  BY <1>14, ReadMask DEF HookRun
<1>15. CASE UNCHANGED vars
  BY <1>15, <1>s DEF vars
<1> QED
  BY <1>1, <1>2, <1>3, <1>4, <1>5, <1>6, <1>7, <1>8, <1>9, <1>10, <1>11, <1>12, <1>13, <1>14, <1>15
  DEF Next, Seen, Unseen

(* A button that is still is one pressed at the point of the last click.   *)
StillInv == still # {} => last_click = pos

LEMMA StillStep == TypeOK /\ StillInv /\ [Next]_vars => StillInv'
<1> SUFFICES ASSUME TypeOK, StillInv, [Next]_vars PROVE StillInv'  OBVIOUS
<1> USE DEF StillInv, userVars, clickVars, historyVars
<1>1. ASSUME NEW k \in Keys, NEW chars \in 0..2, NEW c \in [1..3 -> BOOLEAN], KeyDown(k, chars, c)
      PROVE  StillInv'
  BY <1>1 DEF KeyDown
<1>2. ASSUME NEW k \in Keys, NEW c \in BOOLEAN, KeyUp(k, c) PROVE StillInv'
  BY <1>2 DEF KeyUp
<1>3. ASSUME NEW b \in Buttons, NEW c \in BOOLEAN, ButtonDown(b, c) PROVE StillInv'
  BY <1>3 DEF ButtonDown
<1>4. ASSUME NEW b \in Buttons, NEW c \in [1..2 -> BOOLEAN], ButtonUp(b, c) PROVE StillInv'
  BY <1>4 DEF ButtonUp
<1>5. ASSUME NEW p \in Points, NEW c \in BOOLEAN, MouseMoved(p, c) PROVE StillInv'
  BY <1>5 DEF MouseMoved, Move
<1>6. ASSUME NEW read \in BOOLEAN, NEW c \in BOOLEAN, MouseWheel(read, c) PROVE StillInv'
  BY <1>6 DEF MouseWheel
<1>7. CASE Unseen
  BY <1>7 DEF Unseen, HookTimeout, UnseenKey, UnseenButton, UnseenMove
<1>8. CASE Tick \/ WinHookEventProc \/ HookReturns \/ HookRun
  BY <1>8 DEF Tick, WinHookEventProc, HookReturns, HookRun
<1>9. CASE UNCHANGED vars
  BY <1>9 DEF vars
<1> QED  BY <1>1, <1>2, <1>3, <1>4, <1>5, <1>6, <1>7, <1>8, <1>9 DEF Next, Seen

LEMMA StillInvariance == Spec => [](TypeOK /\ StillInv)
<1>1. Init => TypeOK /\ StillInv  BY TypeInit DEF Init, StillInv
<1>2. TypeOK /\ StillInv /\ [Next]_vars => (TypeOK /\ StillInv)'  BY TypeStep, StillStep
<1> QED  BY <1>1, <1>2, PTL DEF Spec

(* The statics of the hook procedures keep their types: the click counter  *)
(* stays below USHRT_MAX and the mask within the bits uiohook.h defines.   *)
THEOREM TypeCorrect == Spec => []TypeOK
BY StillInvariance, PTL

(* A button pressed and released with the pointer where it was is clicked, *)
(* whatever is pressed, turned, lost and reinstalled in between.           *)
THEOREM StillReleaseIsAClick == Spec => StillReleaseClicks
<1> DEFINE A == \A b \in still, c \in [1..2 -> BOOLEAN] :
                  ButtonUp(b, c) /\ ~c[1] => \E i \in DOMAIN out' : out'[i].type = "MOUSE_CLICKED"
<1>1. TypeOK /\ StillInv => A
  <2> SUFFICES ASSUME TypeOK, StillInv, NEW b \in still, NEW c \in [1..2 -> BOOLEAN],
                      ButtonUp(b, c), ~c[1]
               PROVE  \E i \in DOMAIN out' : out'[i].type = "MOUSE_CLICKED"
    OBVIOUS
  <2> DEFINE m == current_modifiers \ ButtonBits(b)
             n == ReleaseNumber(b)
             released == Mouse("MOUSE_RELEASED", m, n, click_count, c[1])
             clicked == Mouse("MOUSE_CLICKED", m, n, click_count, c[2])
  <2>1. IsClick  BY DEF StillInv, IsClick
  <2>2. out' = <<released>> \o <<clicked>>  BY <2>1 DEF ButtonUp, Finish
  <2>3. clicked.type = "MOUSE_CLICKED"  BY DEF Mouse
  <2> HIDE DEF released, clicked
  <2>4. 2 \in DOMAIN out' /\ out'[2] = clicked  BY <2>2
  <2> QED  BY <2>3, <2>4
<1>2. TypeOK /\ StillInv => [A]_vars  BY <1>1
<1> HIDE DEF A
<1>3. Spec => [][A]_vars  BY <1>2, StillInvariance, PTL
<1> QED  BY <1>3 DEF StillReleaseClicks, A

(* The mask follows the keyboard: the bit of a modifier or lock key is set *)
(* exactly while the key is down, but for what changed without a hook or   *)
(* was swallowed before the modifiers were read.                           *)
THEOREM ModifiersAreTracked == NoExtraButtons => (Spec => []ModifiersTracked)
<1> SUFFICES ASSUME NoExtraButtons PROVE Spec => []ModifiersTracked  OBVIOUS
<1>1. Init => MaskInv  BY MaskInit
<1>2. MaskInv /\ [Next]_vars => MaskInv'  BY MaskStep
<1>3. MaskInv => ModifiersTracked  BY DEF MaskInv
<1> QED  BY <1>1, <1>2, <1>3, PTL DEF Spec

(* Only process_mouse_moved() reports motion, and only                     *)
(* process_button_pressed() a press.                                       *)
LEMMA WhoDispatches ==
  ASSUME TypeOK, Next, NEW e \in Dispatched'
  PROVE  /\ e.type \in {"MOUSE_MOVED", "MOUSE_DRAGGED"} =>
              \E p \in Points, c \in BOOLEAN : MouseMoved(p, c)
         /\ e.type = "MOUSE_PRESSED" => \E b \in Buttons, c \in BOOLEAN : ButtonDown(b, c)
<1> DEFINE Other == e.type \notin {"MOUSE_MOVED", "MOUSE_DRAGGED", "MOUSE_PRESSED"}
<1>0. PICK i \in DOMAIN out' : e = out'[i]  BY DEF Dispatched
<1>1. ASSUME NEW k \in Keys, NEW chars \in 0..2, NEW c \in [1..3 -> BOOLEAN], KeyDown(k, chars, c)
      PROVE  Other
  <2> DEFINE m == current_modifiers \union KeyBits(k)
             first == Key("KEY_PRESSED", m, c[1])
             texts == IF c[1] THEN <<>> ELSE [j \in 1..chars |-> Key("KEY_TYPED", m, c[j + 1])]
             K == [type : {"KEY_PRESSED", "KEY_TYPED"}, mask : {m}, consumed : BOOLEAN]
  <2>1. first \in K  BY DEF Key
  <2>2. \A j \in 1..chars : Key("KEY_TYPED", m, c[j + 1]) \in K
    <3>1. \A j \in 1..chars : j + 1 \in 1..3  OBVIOUS
    <3> QED  BY <3>1 DEF Key
  <2>3. [j \in 1..chars |-> Key("KEY_TYPED", m, c[j + 1])] \in Seq(K) /\ <<>> \in Seq(K)
    BY <2>2
  <2>4. texts \in Seq(K)  BY <2>3, Zenon
  <2>5. out' = <<first>> \o texts  BY <1>1 DEF KeyDown, Finish
  <2>6. \A x \in K : x.type \in {"KEY_PRESSED", "KEY_TYPED"}  OBVIOUS
  <2> HIDE DEF first, texts, K
  <2>7. out' \in Seq(K)  BY <2>1, <2>4, <2>5
  <2>8. out'[i] \in K  BY <1>0, <2>7
  <2> QED  BY <1>0, <2>6, <2>8
<1>2. ASSUME NEW k \in Keys, NEW c \in BOOLEAN, KeyUp(k, c) PROVE Other
  BY <1>0, <1>2 DEF KeyUp, Finish, Key
<1>3. ASSUME NEW b \in Buttons, NEW c \in BOOLEAN, ButtonDown(b, c)
      PROVE  e.type = "MOUSE_PRESSED"
  BY <1>0, <1>3 DEF ButtonDown, Finish, Mouse
<1>4. ASSUME NEW b \in Buttons, NEW c \in [1..2 -> BOOLEAN], ButtonUp(b, c) PROVE Other
  <2> DEFINE m == current_modifiers \ ButtonBits(b)
             n == ReleaseNumber(b)
             released == Mouse("MOUSE_RELEASED", m, n, click_count, c[1])
             clicked == Mouse("MOUSE_CLICKED", m, n, click_count, c[2])
  <2>1. out' = <<released>> \o <<>> \/ out' = <<released>> \o <<clicked>>
    BY <1>4 DEF ButtonUp, Finish
  <2>2. released.type = "MOUSE_RELEASED" /\ clicked.type = "MOUSE_CLICKED"  BY DEF Mouse
  <2> HIDE DEF released, clicked
  <2> QED  BY <1>0, <2>1, <2>2
<1>5. ASSUME NEW p \in Points, NEW c \in BOOLEAN, MouseMoved(p, c)
      PROVE  e.type \in {"MOUSE_MOVED", "MOUSE_DRAGGED"}
  BY <1>0, <1>5 DEF MouseMoved, Finish, Mouse
<1>6. ASSUME NEW read \in BOOLEAN, NEW c \in BOOLEAN, MouseWheel(read, c) PROVE Other
  BY <1>0, <1>6 DEF MouseWheel, Finish, Mouse
<1>7. Unseen \/ Tick \/ WinHookEventProc => Other
  BY <1>0 DEF Unseen, HookTimeout, UnseenKey, UnseenButton, UnseenMove, Tick, WinHookEventProc, Quiet
<1>8. HookReturns \/ HookRun => Other
  BY <1>0 DEF HookReturns, HookRun, FireStatus
<1> QED  BY <1>1, <1>2, <1>3, <1>4, <1>5, <1>6, <1>7, <1>8 DEF Next, Seen

(* Motion is reported as a drag exactly while a button is down, but for    *)
(* the buttons that changed without a hook.                                *)
THEOREM DragsAreTracked == NoExtraButtons => (Spec => []DragsTracked)
<1> SUFFICES ASSUME NoExtraButtons PROVE Spec => []DragsTracked  OBVIOUS
<1>1. Init => MaskInv /\ DragsTracked
  BY MaskInit DEF Init, DragsTracked, Dispatched
<1>2. MaskInv /\ DragsTracked /\ [Next]_vars => (MaskInv /\ DragsTracked)'
  <2> SUFFICES ASSUME MaskInv, DragsTracked, [Next]_vars PROVE DragsTracked'
    BY MaskStep
  <2>1. CASE UNCHANGED vars
    BY <2>1 DEF vars, userVars, historyVars, DragsTracked, Dispatched
  <2>2. CASE Next
    <3> SUFFICES ASSUME NEW e \in Dispatched', e.type \in {"MOUSE_MOVED", "MOUSE_DRAGGED"}
                 PROVE  /\ e.type = "MOUSE_MOVED" => held' \subseteq stale'
                        /\ e.type = "MOUSE_DRAGGED" => held' # {} \/ stale' # {}
      BY DEF DragsTracked
    <3>1. PICK p \in Points, c \in BOOLEAN : MouseMoved(p, c)
      BY <2>2, WhoDispatches DEF MaskInv
    <3>2. UNCHANGED <<held, stale>>
      BY <3>1 DEF MouseMoved
    <3>3. e.type = IF current_modifiers \intersect ButtonMasks # {}
                   THEN "MOUSE_DRAGGED" ELSE "MOUSE_MOVED"
      BY <3>1 DEF MouseMoved, Finish, Mouse, Dispatched
    <3>4. CASE current_modifiers \intersect ButtonMasks # {}
      <4>1. PICK m \in current_modifiers \intersect ButtonMasks : TRUE  BY <3>4
      <4>2. PICK b \in Buttons : ButtonBits(b) = {m}  BY <4>1 DEF MaskInv, ButtonsTracked
      <4>3. b \in stale \/ b \in held  BY <4>1, <4>2 DEF MaskInv, ButtonsTracked
      <4> QED  BY <3>2, <3>3, <3>4, <4>3
    <3>5. CASE current_modifiers \intersect ButtonMasks = {}
      <4>1. \A b \in Buttons : ~(ButtonBits(b) \subseteq current_modifiers)
        BY <3>5, PlainBits
      <4>2. held \subseteq stale
        BY <4>1 DEF MaskInv, ButtonsTracked, TypeOK
      <4> QED  BY <3>2, <3>3, <3>5, <4>2
    <3> QED  BY <3>4, <3>5
  <2> QED  BY <2>1, <2>2
<1> QED  BY <1>1, <1>2, PTL DEF Spec
-----------------------------------------------------------------------------
(* The clock does not wrap far enough to make an old press look recent:    *)
(* the hook runs for less than half of the 2^32 ms, and a multiple click   *)
(* takes less than that.                                                   *)
ClockFits == MaxTime - StartTime < TimeWrap \div 2 /\ MultiClick < TimeWrap \div 2

(* What a 32-bit difference of two times that are near each other is.      *)
LEMMA WrappedDifference ==
  ASSUME NEW w \in Nat, w > 0, NEW a \in Nat, NEW b \in Nat, b <= a, a - b < w,
         NEW r, NEW s, r = a % w, s = b % w
  PROVE  (r - s) % w = a - b
<1> DEFINE p == a \div w
           q == b \div w
<1>1. /\ p \in Nat /\ q \in Nat /\ r \in 0..(w - 1) /\ s \in 0..(w - 1)
      /\ a = w * p + r /\ b = w * q + s
  OBVIOUS
<1> HIDE DEF p, q
<1>2. w * p - w * q = w * (p - q) /\ p - q \in Int  BY <1>1
<1>3. a - b = w * (p - q) + (r - s)  BY <1>1, <1>2
<1>4. p - q < 2
  <2> SUFFICES ASSUME p - q >= 2 PROVE FALSE  BY <1>1
  <2>1. w * (p - q) >= w * 2  BY <1>2
  <2> QED  BY <1>1, <1>3, <2>1
<1>5. p - q > -1
  <2> SUFFICES ASSUME p - q <= -1 PROVE FALSE  BY <1>1
  <2>1. w * (p - q) <= -w  BY <1>2
  <2> QED  BY <1>1, <1>3, <2>1
<1>6. CASE p - q = 0
  <2>1. r - s = a - b  BY <1>1, <1>3, <1>6
  <2>2. r - s \in 0..(w - 1)  BY <2>1, <1>1
  <2>3. (r - s) % w = r - s  BY <2>2
  <2> QED  BY <2>1, <2>3
<1>7. CASE p - q = 1
  <2>1. r - s = (a - b) - w  BY <1>1, <1>3, <1>7
  <2>2. (r - s) % w = r - s + w  BY <2>1, <1>1
  <2> QED  BY <2>1, <2>2, <1>1
<1> QED  BY <1>2, <1>4, <1>5, <1>6, <1>7

LEMMA ElapsedIsReal ==
  ASSUME TypeOK, NEW t \in Nat, click_time = t % TimeWrap, t <= now, now - t < TimeWrap \div 2
  PROVE  Elapsed = now - t
<1>1. TimeWrap \in Nat /\ TimeWrap > 0 /\ now \in Nat  BY TimeAssumption DEF TypeOK
<1>2. TimeWrap \div 2 \in Nat /\ TimeWrap \div 2 <= TimeWrap  BY <1>1
<1>3. now - t \in Nat /\ now - t < TimeWrap  BY <1>1, <1>2
<1>4. Timestamp = now % TimeWrap  BY DEF Timestamp
<1>5. (Timestamp - click_time) % TimeWrap = now - t
  BY <1>1, <1>3, <1>4, WrappedDifference
<1> QED  BY <1>5 DEF Elapsed

(* Press i follows the one before it on the same button and in time.       *)
Follows(s, i) == s[i].button = s[i - 1].button /\ s[i].time - s[i - 1].time <= MultiClick

(* The row of presses that ends the sequence begins with press j.          *)
RowStarts(s, j) ==
  /\ j \in 1..Len(s)
  /\ \A i \in j + 1 .. Len(s) : Follows(s, i)
  /\ j > 1 => ~Follows(s, j)

Capped(n) == IF n < ClickMax THEN n ELSE ClickMax

(* Where the row that ends a sequence of presses begins: RunLength counts  *)
(* the presses from there on.                                              *)
RowStart(s) ==
  LET n == Len(s)
      IsRun(j) == \A i \in j + 1 .. n :
                    /\ s[i].button = s[i - 1].button
                    /\ s[i].time - s[i - 1].time <= MultiClick
  IN CHOOSE j \in 1..n : IsRun(j) /\ \A i \in 1..n : IsRun(i) => j <= i

LEMMA RowIsRun ==
  ASSUME NEW s \in Seq([button : Buttons, time : Nat]), NEW j, RowStarts(s, j)
  PROVE  RowStart(s) = j
<1> DEFINE n == Len(s)
           IsRun(k) == \A i \in k + 1 .. n :
                         /\ s[i].button = s[i - 1].button
                         /\ s[i].time - s[i - 1].time <= MultiClick
           First(k) == IsRun(k) /\ \A i \in 1..n : IsRun(i) => k <= i
<1>1. n \in Nat /\ j \in 1..n  BY DEF RowStarts
<1>2. \A k \in 1..n : IsRun(k) <=> \A i \in k + 1 .. n : Follows(s, i)  BY DEF Follows
<1> HIDE DEF IsRun, n
<1>3. \A k \in 1..n : IsRun(k) => j <= k
  <2> SUFFICES ASSUME NEW k \in 1..n, IsRun(k), k < j PROVE FALSE  BY <1>1
  <2>1. j \in k + 1 .. n /\ j > 1  BY <1>1
  <2>2. Follows(s, j)  BY <1>2, <2>1
  <2> QED  BY <2>1, <2>2 DEF RowStarts
<1>4. IsRun(j)  BY <1>1, <1>2 DEF RowStarts, n
<1>5. First(j)  BY <1>3, <1>4
<1>6. \A k \in 1..n : First(k) => k = j  BY <1>1, <1>3, <1>4
<1> HIDE DEF First
<1>7. (CHOOSE k \in 1..n : First(k)) = j  BY <1>1, <1>5, <1>6
<1> QED  BY <1>7 DEF RowStart, First, IsRun, n

LEMMA ElementOfPresses ==
  ASSUME NEW S, NEW s \in Seq(S), NEW i \in 1..Len(s) PROVE s[i] \in S
OBVIOUS

(* The counter is about the last press: it has the length of the row that  *)
(* this press ends, or was reset after the multi-click time.               *)
CountInv ==
  LET n == Len(presses) IN
  /\ StartTime <= now /\ (now <= MaxTime \/ now = StartTime)
  /\ n = 0 => click_button = 0
  /\ n > 0 =>
       /\ click_button = PressNumber(presses[n].button)
       /\ click_time = presses[n].time % TimeWrap
       /\ StartTime <= presses[n].time /\ presses[n].time <= now
       /\ \E j \in 1..n :
            /\ RowStarts(presses, j)
            /\ \/ click_count = Capped(n + 1 - j)
               \/ click_count = 0 /\ now - presses[n].time > MultiClick

LEMMA SinceLastPress ==
  ASSUME ClockFits, TypeOK, CountInv, Len(presses) > 0
  PROVE  /\ presses[Len(presses)].time \in Nat
         /\ Elapsed = now - presses[Len(presses)].time
<1> DEFINE t == presses[Len(presses)].time
<1>1. Len(presses) \in 1..Len(presses)  BY DEF TypeOK
<1>2. presses[Len(presses)] \in [button : Buttons, time : Nat]
  BY <1>1, ElementOfPresses DEF TypeOK
<1>3. t \in Nat /\ click_time = t % TimeWrap /\ StartTime <= t /\ t <= now
  BY <1>2 DEF CountInv
<1> HIDE DEF t
<1>4. now \in Nat /\ (now <= MaxTime \/ now = StartTime)  BY DEF CountInv, TypeOK
<1>5. MaxTime \in Int /\ StartTime \in Int /\ MultiClick \in Nat /\ TimeWrap \div 2 \in Int
  BY TimeAssumption, ClickAssumption
<1>6. now - t < TimeWrap \div 2  BY <1>3, <1>4, <1>5 DEF ClockFits
<1>7. Elapsed = now - t  BY <1>3, <1>6, ElapsedIsReal
<1> QED  BY <1>3, <1>7 DEF t

(* A step that is no press and no wheel keeps the counter or resets it     *)
(* after the multi-click time.                                             *)
LEMMA CountKept ==
  ASSUME ClockFits, TypeOK, CountInv,
         UNCHANGED <<presses, click_button, click_time>>,
         UNCHANGED now \/ (now < MaxTime /\ now' = now + 1),
         UNCHANGED click_count \/ (click_count' = 0 /\ Elapsed > MultiClick)
  PROVE  CountInv'
<1> DEFINE n == Len(presses)
<1>1. n \in Nat /\ now \in Nat /\ MaxTime \in Nat /\ StartTime \in Nat /\ MultiClick \in Nat
  BY TimeAssumption, ClickAssumption DEF TypeOK
<1>2. now' \in Nat /\ now <= now' /\ StartTime <= now' /\ (now' <= MaxTime \/ now' = StartTime)
  BY <1>1 DEF CountInv
<1>3. CASE n = 0
  BY <1>2, <1>3 DEF CountInv
<1>4. CASE n > 0
  <2>1. presses[n].time \in Nat /\ Elapsed = now - presses[n].time
    BY <1>4, SinceLastPress
  <2>2. PICK j \in 1..n :
          /\ RowStarts(presses, j)
          /\ \/ click_count = Capped(n + 1 - j)
             \/ click_count = 0 /\ now - presses[n].time > MultiClick
    BY <1>4 DEF CountInv
  <2>3. \/ click_count' = Capped(n + 1 - j)
        \/ click_count' = 0 /\ now' - presses[n].time > MultiClick
    BY <1>1, <1>2, <2>1, <2>2
  <2>4. \E i \in 1..n :
          /\ RowStarts(presses, i)
          /\ \/ click_count' = Capped(n + 1 - i)
             \/ click_count' = 0 /\ now' - presses[n].time > MultiClick
    BY <2>2, <2>3
  <2>5. /\ click_button = PressNumber(presses[n].button)
        /\ click_time = presses[n].time % TimeWrap
        /\ StartTime <= presses[n].time /\ presses[n].time <= now'
    BY <1>1, <1>2, <1>4, <2>1 DEF CountInv
  <2>6. presses' = presses /\ click_button' = click_button /\ click_time' = click_time  OBVIOUS
  <2> HIDE DEF n
  <2>7. Len(presses') = n  BY <2>6 DEF n
  <2> QED  BY <1>1, <1>2, <1>4, <2>4, <2>5, <2>6, <2>7 DEF CountInv
<1> QED  BY <1>1, <1>3, <1>4

LEMMA NumbersDiffer ==
  NoExtraButtons => \A a, b \in Buttons : PressNumber(a) = PressNumber(b) => a = b
<1>1. /\ PressNumber("LEFT") = 1 /\ PressNumber("RIGHT") = 2 /\ PressNumber("MIDDLE") = 3
      /\ PressNumber("X1") = 4 /\ PressNumber("X2") = 5
  BY DEF PressNumber
<1> QED  BY <1>1 DEF NoExtraButtons, PlainButtons

(* A press lengthens the row of the presses before it or starts another.   *)
LEMMA PressCounted ==
  ASSUME NoExtraButtons, ClockFits, TypeOK, CountInv,
         NEW b \in Buttons, NEW c \in BOOLEAN, ButtonDown(b, c)
  PROVE  CountInv' /\ click_count' = Capped(RunLength')
<1> DEFINE n == Len(presses)
           new == [button |-> b, time |-> now]
<1>1. n \in Nat /\ now \in Nat /\ MultiClick \in Nat /\ ClickMax \in Nat /\ ClickMax > 0
  BY ClickAssumption DEF TypeOK
<1>2. /\ presses' = Append(presses, new) /\ Len(presses') = n + 1
      /\ presses'[n + 1] = new
      /\ \A i \in 1..n : presses'[i] = presses[i]
  BY DEF ButtonDown, TypeOK
<1>3. presses' \in Seq([button : Buttons, time : Nat])
  BY <1>1, <1>2 DEF TypeOK
<1>4. /\ click_button' = PressNumber(b) /\ click_time' = now % TimeWrap /\ UNCHANGED now
      /\ click_count' = CountPress(PressNumber(b))
  BY DEF ButtonDown, Timestamp
<1> HIDE DEF n
<1>5. \A i \in 2..n : Follows(presses', i) <=> Follows(presses, i)
  <2> SUFFICES ASSUME NEW i \in 2..n PROVE Follows(presses', i) <=> Follows(presses, i)
    OBVIOUS
  <2>1. i \in 1..n /\ i - 1 \in 1..n  BY <1>1
  <2> QED  BY <1>2, <2>1 DEF Follows
<1>6. \E j \in 1..(n + 1) : RowStarts(presses', j) /\ click_count' = Capped(n + 2 - j)
  <2>1. CASE n = 0
    <3>1. RowStarts(presses', 1)  BY <1>2, <2>1 DEF RowStarts
    <3>2. click_button = 0 /\ PressNumber(b) # 0
      BY <2>1, NumbersAreButtons DEF CountInv, n
    <3>3. click_count' = 1  BY <1>4, <3>2 DEF CountPress
    <3>4. Capped(n + 2 - 1) = 1  BY <1>1, <2>1 DEF Capped
    <3>5. 1 \in 1..(n + 1)  BY <1>1
    <3> QED  BY <3>1, <3>3, <3>4, <3>5
  <2>2. CASE n > 0
    <3> DEFINE last == presses[n]
    <3>1. last \in [button : Buttons, time : Nat]
      <4>1. n \in 1..Len(presses)  BY <1>1, <2>2 DEF n
      <4> QED  BY <4>1, ElementOfPresses DEF TypeOK
    <3>2. Elapsed = now - last.time  BY <2>2, SinceLastPress DEF n
    <3>3. click_button = PressNumber(last.button)  BY <2>2 DEF CountInv, n
    <3>4. PICK j \in 1..n :
            /\ RowStarts(presses, j)
            /\ \/ click_count = Capped(n + 1 - j)
               \/ click_count = 0 /\ now - last.time > MultiClick
      BY <2>2 DEF CountInv, n
    <3>5. Follows(presses', n + 1) <=> b = last.button /\ now - last.time <= MultiClick
      <4>1. n \in 1..n /\ n + 1 - 1 = n  BY <1>1, <2>2
      <4> QED  BY <1>2, <4>1 DEF Follows
    <3>6. PressNumber(b) = click_button <=> b = last.button
      BY <3>1, <3>3, NumbersDiffer
    <3> HIDE DEF last
    <3>7. CASE Follows(presses', n + 1)
      <4>1. click_count = Capped(n + 1 - j)
        BY <1>1, <3>1, <3>4, <3>5, <3>7
      <4>2. click_count' = IF click_count < ClickMax THEN click_count + 1 ELSE click_count
        BY <1>4, <3>2, <3>5, <3>6, <3>7 DEF CountPress
      <4>3. click_count' = Capped(n + 2 - j)
        BY <1>1, <4>1, <4>2 DEF Capped
      <4>4. RowStarts(presses', j)
        <5>1. j \in 1..(n + 1)  BY <1>1
        <5>2. \A i \in j + 1 .. n + 1 : Follows(presses', i)
          <6> SUFFICES ASSUME NEW i \in j + 1 .. n, i # n + 1 PROVE Follows(presses', i)
            BY <1>1, <3>7
          <6>1. i \in 2..n  BY <1>1
          <6>2. Follows(presses, i)  BY <3>4 DEF RowStarts, n
          <6> QED  BY <1>5, <6>1, <6>2
        <5>3. j > 1 => ~Follows(presses', j)
          BY <1>1, <1>5, <3>4 DEF RowStarts
        <5> QED  BY <1>2, <5>1, <5>2, <5>3 DEF RowStarts
      <4>5. j \in 1..(n + 1)  BY <1>1
      <4> QED  BY <4>3, <4>4, <4>5
    <3>8. CASE ~Follows(presses', n + 1)
      <4>1. click_count' = 1
        BY <1>1, <1>4, <3>1, <3>2, <3>5, <3>6, <3>8 DEF CountPress
      <4>2. RowStarts(presses', n + 1)
        BY <1>1, <1>2, <3>8 DEF RowStarts
      <4>3. Capped(n + 2 - (n + 1)) = 1  BY <1>1 DEF Capped
      <4>4. n + 1 \in 1..(n + 1)  BY <1>1
      <4> QED  BY <4>1, <4>2, <4>3, <4>4
    <3> QED  BY <3>7, <3>8
  <2> QED  BY <1>1, <2>1, <2>2
<1>7. PICK j \in 1..(n + 1) : RowStarts(presses', j) /\ click_count' = Capped(n + 2 - j)
  BY <1>6
<1>8. RunLength' = Len(presses') + 1 - j
  <2>1. RowStart(presses') = j  BY <1>3, <1>7, RowIsRun
  <2>2. RunLength' = Len(presses') + 1 - RowStart(presses')  BY DEF RunLength, RowStart
  <2> QED  BY <2>1, <2>2
<1>9. CountInv'
  <2>1. StartTime <= now /\ (now <= MaxTime \/ now = StartTime)  BY DEF CountInv
  <2>2. new.button = b /\ new.time = now  OBVIOUS
  <2>3. n + 1 + 1 - j = n + 2 - j  BY <1>1
  <2> QED  BY <1>1, <1>2, <1>4, <1>7, <2>1, <2>2, <2>3 DEF CountInv
<1>10. Len(presses') + 1 - j = n + 2 - j  BY <1>1, <1>2
<1> QED  BY <1>7, <1>8, <1>9, <1>10

LEMMA CountStep ==
  NoExtraButtons /\ ClockFits /\ TypeOK /\ CountInv /\ [Next]_vars => CountInv'
<1> SUFFICES ASSUME NoExtraButtons, ClockFits, TypeOK, CountInv, [Next]_vars PROVE CountInv'
  OBVIOUS
<1> USE DEF userVars, clickVars, historyVars
<1>k. ASSUME UNCHANGED <<presses, click_button, click_time>>,
             UNCHANGED now \/ (now < MaxTime /\ now' = now + 1),
             UNCHANGED click_count \/ (click_count' = 0 /\ Elapsed > MultiClick)
      PROVE  CountInv'
  BY <1>k, CountKept
<1>1. ASSUME NEW k \in Keys, NEW chars \in 0..2, NEW c \in [1..3 -> BOOLEAN], KeyDown(k, chars, c)
      PROVE  CountInv'
  BY <1>1, <1>k DEF KeyDown
<1>2. ASSUME NEW k \in Keys, NEW c \in BOOLEAN, KeyUp(k, c) PROVE CountInv'
  BY <1>2, <1>k DEF KeyUp
<1>3. ASSUME NEW b \in Buttons, NEW c \in BOOLEAN, ButtonDown(b, c) PROVE CountInv'
  BY <1>3, PressCounted
<1>4. ASSUME NEW b \in Buttons, NEW c \in [1..2 -> BOOLEAN], ButtonUp(b, c) PROVE CountInv'
  BY <1>4, <1>k DEF ButtonUp
<1>5. ASSUME NEW p \in Points, NEW c \in BOOLEAN, MouseMoved(p, c) PROVE CountInv'
  BY <1>5, <1>k DEF MouseMoved
<1>6. ASSUME NEW read \in BOOLEAN, NEW c \in BOOLEAN, MouseWheel(read, c) PROVE CountInv'
  <2>1. Len(presses') = 0 /\ click_button' = 0 /\ UNCHANGED now  BY <1>6 DEF MouseWheel
  <2> QED  BY <2>1 DEF CountInv
<1>7. CASE Unseen
  BY <1>7, <1>k DEF Unseen, HookTimeout, UnseenKey, UnseenButton, UnseenMove
<1>8. CASE Tick
  BY <1>8, <1>k DEF Tick
<1>9. CASE WinHookEventProc \/ HookReturns \/ HookRun
  BY <1>9, <1>k DEF WinHookEventProc, HookReturns, HookRun
<1>10. CASE UNCHANGED vars
  BY <1>10, <1>k DEF vars
<1> QED  BY <1>1, <1>2, <1>3, <1>4, <1>5, <1>6, <1>7, <1>8, <1>9, <1>10 DEF Next, Seen

(* The click count of a press is the number of presses in a row, each      *)
(* within the multi-click time of the one before it, up to USHRT_MAX: over *)
(* the wrap of the clock, late resets, lost hooks and several runs.        *)
THEOREM ClicksArePresses == NoExtraButtons /\ ClockFits => (Spec => []ClicksCountPresses)
<1> SUFFICES ASSUME NoExtraButtons, ClockFits PROVE Spec => []ClicksCountPresses  OBVIOUS
<1> DEFINE Inv == TypeOK /\ CountInv /\ ClicksCountPresses
<1>1. Init => Inv
  <2> SUFFICES ASSUME Init PROVE Inv  OBVIOUS
  <2>1. CountInv  BY TimeAssumption DEF Init, CountInv
  <2>2. ClicksCountPresses  BY DEF Init, ClicksCountPresses, Dispatched
  <2> QED  BY <2>1, <2>2, TypeInit
<1>2. Inv /\ [Next]_vars => Inv'
  <2> SUFFICES ASSUME Inv, [Next]_vars PROVE ClicksCountPresses'
    BY TypeStep, CountStep
  <2>1. CASE UNCHANGED vars
    BY <2>1 DEF vars, historyVars, ClicksCountPresses, Dispatched, RunLength
  <2>2. CASE Next
    <3> SUFFICES ASSUME NEW e \in Dispatched', e.type = "MOUSE_PRESSED"
                 PROVE  e.clicks = Capped(RunLength')
      BY DEF ClicksCountPresses, Capped
    <3>1. PICK b \in Buttons, c \in BOOLEAN : ButtonDown(b, c)  BY <2>2, WhoDispatches
    <3>2. e.clicks = click_count'  BY <3>1 DEF ButtonDown, Finish, Mouse, Dispatched
    <3>3. click_count' = Capped(RunLength')  BY <3>1, PressCounted
    <3> QED  BY <3>2, <3>3
  <2> QED  BY <2>1, <2>2
<1>3. Inv => ClicksCountPresses  OBVIOUS
<1> HIDE DEF Inv
<1> QED  BY <1>1, <1>2, <1>3, PTL DEF Spec
-----------------------------------------------------------------------------
(* A sum that fits is not changed by its 16 bits.                          *)
LEMMA FitsInt16 ==
  ASSUME NEW x \in Int, 0 - 32768 <= x, x <= 32767
  PROVE  ToInt16(x) = x
BY DEF ToInt16

(* Division towards zero leaves a remainder smaller than a notch, on       *)
(* either side of zero.                                                    *)
LEMMA DivisionTowardsZero ==
  ASSUME NEW x \in Int
  PROVE  /\ Quotient(x) \in Int
         /\ Remainder(x) \in (1 - WHEEL_DELTA) .. (WHEEL_DELTA - 1)
         /\ x = Remainder(x) + WHEEL_DELTA * Quotient(x)
<1>1. CASE x >= 0
  <2>1. /\ x \div 120 \in Int
        /\ 0 <= x - 120 * (x \div 120)
        /\ x - 120 * (x \div 120) < 120
    OBVIOUS
  <2> QED  BY <1>1, <2>1 DEF Quotient, Remainder, WHEEL_DELTA
<1>2. CASE x < 0
  <2> DEFINE y == -x
  <2>1. /\ y \div 120 \in Int
        /\ 0 <= y - 120 * (y \div 120)
        /\ y - 120 * (y \div 120) < 120
    OBVIOUS
  <2> QED  BY <1>2, <2>1 DEF Quotient, Remainder, WHEEL_DELTA
<1> QED  BY <1>1, <1>2

(* The accumulator has room for any delta on top of what is left over.     *)
LEMMA SumFits ==
  ASSUME WheelTypeOK, NEW d \in WheelDirections, NEW delta \in Deltas
  PROVE  /\ 0 - 32768 <= rotation[d] + delta /\ rotation[d] + delta <= 32767
         /\ delta \in Int /\ rotation[d] \in Int /\ turned[d] \in Int /\ reported[d] \in Int
<1>1. delta \in Int /\ 120 - 32768 <= delta /\ delta <= 32767 - 120
  BY DeltasAssumption DEF WHEEL_DELTA
<1>2. rotation[d] \in Int /\ 0 - 119 <= rotation[d] /\ rotation[d] <= 119
  BY DEF WheelTypeOK, WHEEL_DELTA
<1>3. turned[d] \in Int /\ reported[d] \in Int  BY DEF WheelTypeOK
<1> QED  BY <1>1, <1>2, <1>3

(* What is left over is less than a notch, so that the 16 bits of the      *)
(* accumulator never overflow.                                             *)
WheelInv == WheelTypeOK /\ RotationConserved

LEMMA WheelInvInit == WheelInit => WheelInv
BY MessagesAssumption
DEF WheelInit, WheelInv, WheelTypeOK, RotationConserved, Zero, WHEEL_DELTA, Sign, WheelDirections

LEMMA WheelInvStep == WheelInv /\ [WheelNext]_wheelVars => WheelInv'
<1> SUFFICES ASSUME WheelInv, [WheelNext]_wheelVars PROVE WheelInv'  OBVIOUS
<1> USE DEF WheelInv
<1>1. ASSUME NEW d \in WheelDirections, NEW delta \in Deltas, GetScrollWheelRotation(d, delta)
      PROVE  WheelInv'
  <2> DEFINE sum == rotation[d] + delta
             q == Quotient(sum)
             r == Remainder(sum)
  <2>1. /\ sum \in Int /\ delta \in Int /\ rotation[d] \in Int
        /\ turned[d] \in Int /\ reported[d] \in Int
        /\ ToInt16(sum) = sum
    BY SumFits, FitsInt16
  <2>2. /\ q \in Int /\ r \in (1 - WHEEL_DELTA) .. (WHEEL_DELTA - 1)
        /\ sum = r + WHEEL_DELTA * q
    BY <2>1, DivisionTowardsZero
  <2> HIDE DEF q, r
  <2>3. /\ messages < MaxMessages /\ messages' = messages + 1
        /\ rotation' = [rotation EXCEPT ![d] = r]
        /\ turned' = [turned EXCEPT ![d] = @ + delta]
        /\ reported' = [reported EXCEPT ![d] = @ + Sign(d) * q]
    BY <1>1, <2>1 DEF GetScrollWheelRotation, q, r
  <2>4. Sign(d) \in {-1, 1} /\ Sign(d) * q \in Int
    BY <2>2 DEF Sign
  <2>5. WheelTypeOK'
    <3>1. messages' \in 0..MaxMessages
      BY <2>3, MessagesAssumption DEF WheelTypeOK
    <3> QED  BY <2>1, <2>2, <2>3, <2>4, <3>1 DEF WheelTypeOK
  <2>6. RotationConserved'
    <3>1. ASSUME NEW e \in WheelDirections, e # d
          PROVE  turned'[e] = rotation'[e] + WHEEL_DELTA * Sign(e) * reported'[e]
      BY <2>3, <3>1 DEF WheelTypeOK, RotationConserved
    <3>2. turned'[d] = rotation'[d] + WHEEL_DELTA * Sign(d) * reported'[d]
      <4>1. /\ turned'[d] = turned[d] + delta
            /\ rotation'[d] = r
            /\ reported'[d] = reported[d] + Sign(d) * q
        BY <2>3 DEF WheelTypeOK
      <4>2. turned[d] = rotation[d] + WHEEL_DELTA * Sign(d) * reported[d]
        BY DEF RotationConserved
      <4>3. CASE Sign(d) = 1
        BY <4>1, <4>2, <4>3, <2>1, <2>2 DEF WHEEL_DELTA
      <4>4. CASE Sign(d) = -1
        <5>1. \A z \in Int : 120 * (-1) * z = 0 - 120 * z  OBVIOUS
        <5>2. /\ reported'[d] = reported[d] - q
              /\ reported[d] - q \in Int
          BY <4>1, <4>4, <2>1, <2>2
        <5>3. 120 * (reported[d] - q) = 120 * reported[d] - 120 * q  BY <2>1, <2>2
        <5>4. /\ turned[d] = rotation[d] - 120 * reported[d]
              /\ 120 * (-1) * reported'[d] = 0 - 120 * (reported[d] - q)
          BY <4>2, <4>4, <5>1, <5>2, <2>1 DEF WHEEL_DELTA
        <5>5. turned'[d] = rotation'[d] + 120 * (-1) * reported'[d]
          BY <4>1, <5>3, <5>4, <2>1, <2>2 DEF WHEEL_DELTA
        <5> QED  BY <5>5, <4>4 DEF WHEEL_DELTA
      <4> QED  BY <4>3, <4>4, <2>4
    <3> QED  BY <3>1, <3>2 DEF RotationConserved
  <2> QED  BY <2>5, <2>6
<1>2. CASE LoadWheel
  <2>1. WheelTypeOK'  BY <1>2 DEF LoadWheel, WheelTypeOK, Zero, WHEEL_DELTA
  <2>2. RotationConserved'
    BY <1>2 DEF LoadWheel, RotationConserved, Zero, WHEEL_DELTA, Sign, WheelDirections
  <2> QED  BY <2>1, <2>2
<1>3. CASE UNCHANGED wheelVars
  BY <1>3 DEF wheelVars, WheelTypeOK, RotationConserved
<1> QED  BY <1>1, <1>2, <1>3 DEF WheelNext

LEMMA WheelInvariance == WheelSpec => []WheelInv
BY WheelInvInit, WheelInvStep, PTL DEF WheelSpec

(* The remainder get_scroll_wheel_rotation() keeps is less than a notch,   *)
(* so its int16_t never overflows, for any deltas and any number of them.  *)
THEOREM WheelTypeCorrect == WheelSpec => []WheelTypeOK
BY WheelInvariance, PTL DEF WheelInv

(* No rotation of the wheel is lost or reported twice, in either direction *)
(* and however small the parts of a notch it is turned by.                 *)
THEOREM RotationIsConserved == WheelSpec => []RotationConserved
BY WheelInvariance, PTL DEF WheelInv

-----------------------------------------------------------------------------
(* The list of layouts and the dead key.                                   *)

(* The dead key that is pending has the layout it was typed with.          *)
DeadInv ==
  /\ deadChar \in {Diacritic, WCH_NONE}
  /\ deadChar = WCH_NONE <=> deadLayout = NoLayout

(* Unless the list was refreshed since, that layout is the current one; a  *)
(* call that missed has dropped the current one and noted the refresh.     *)
KeptInv == loaded /\ deadChar # WCH_NONE => locale_current = deadLayout \/ refreshed
MissInv == missed # NoKey =>
             loaded /\ locale_current = NoLayout /\ (deadChar # WCH_NONE => refreshed)

LocaleInv == LocaleTypeOK /\ CacheIsSound /\ DeadInv /\ KeptInv /\ MissInv

(* The sequences that SetToSeqs() gives have each element once.            *)
LEMMA EachOnce ==
  ASSUME NEW S, IsFiniteSet(S), NEW s \in SetToSeqs(S)
  PROVE  s \in Seq(S) /\ ToSet(s) = S /\ IsInjective(s)
<1> DEFINE D == 1..Cardinality(S)
<1>1. Cardinality(S) \in Nat  BY FS_CardinalityType
<1>2. s \in [D -> S] /\ \A i, j \in D : i # j => s[i] # s[j]  BY DEF SetToSeqs
<1>3. s \in Injection(D, S)  BY <1>2 DEF Injection, IsInjective
<1>4. Cardinality(D) = Cardinality(S)  BY <1>1, FS_Interval
<1>5. s \in Surjection(D, S)  BY <1>3, <1>4, FS_Injection
<1>6. ToSet(s) = S  BY <1>2, <1>5 DEF Surjection, ToSet
<1>7. IsInjective(s)  BY <1>2 DEF IsInjective
<1> QED  BY <1>1, <1>2, <1>6, <1>7

(* Two lists with nothing in common, one after the other.                  *)
LEMMA Joined ==
  ASSUME NEW S, NEW s \in Seq(S), NEW t \in Seq(S), IsInjective(s), IsInjective(t),
         ToSet(s) \intersect ToSet(t) = {}
  PROVE  s \o t \in Seq(S) /\ ToSet(s \o t) = ToSet(s) \union ToSet(t) /\ IsInjective(s \o t)
<1>1. /\ s \o t \in Seq(S)
      /\ Len(s \o t) = Len(s) + Len(t)
      /\ \A i \in 1..Len(s) : (s \o t)[i] = s[i]
      /\ \A i \in 1..Len(t) : (s \o t)[Len(s) + i] = t[i]
  OBVIOUS
<1>2. /\ DOMAIN s = 1..Len(s) /\ DOMAIN t = 1..Len(t) /\ DOMAIN (s \o t) = 1..Len(s) + Len(t)
      /\ Len(s) \in Nat /\ Len(t) \in Nat
  BY <1>1
<1>3. \A i \in 1..Len(s) + Len(t) :
        \/ i \in 1..Len(s) /\ (s \o t)[i] = s[i]
        \/ i - Len(s) \in 1..Len(t) /\ (s \o t)[i] = t[i - Len(s)]
  <2> TAKE i \in 1..Len(s) + Len(t)
  <2>1. CASE i <= Len(s)  BY <1>1, <1>2, <2>1
  <2>2. CASE i > Len(s)
    <3>1. i - Len(s) \in 1..Len(t) /\ Len(s) + (i - Len(s)) = i  BY <1>2, <2>2
    <3> QED  BY <1>1, <3>1
  <2> QED  BY <1>2, <2>1, <2>2
<1>4. ToSet(s \o t) = ToSet(s) \union ToSet(t)
  <2>1. \A x \in ToSet(s \o t) : x \in ToSet(s) \union ToSet(t)
    BY <1>2, <1>3 DEF ToSet
  <2>2. \A x \in ToSet(s) : x \in ToSet(s \o t)
    <3> TAKE x \in ToSet(s)
    <3>1. PICK i \in 1..Len(s) : x = s[i]  BY <1>2 DEF ToSet
    <3>2. i \in 1..Len(s) + Len(t) /\ (s \o t)[i] = x  BY <1>1, <1>2, <3>1
    <3> QED  BY <1>2, <3>2 DEF ToSet
  <2>3. \A x \in ToSet(t) : x \in ToSet(s \o t)
    <3> TAKE x \in ToSet(t)
    <3>1. PICK i \in 1..Len(t) : x = t[i]  BY <1>2 DEF ToSet
    <3>2. Len(s) + i \in 1..Len(s) + Len(t) /\ (s \o t)[Len(s) + i] = x  BY <1>1, <1>2, <3>1
    <3> QED  BY <1>2, <3>2 DEF ToSet
  <2> QED  BY <2>1, <2>2, <2>3
<1>5. IsInjective(s \o t)
  <2> SUFFICES ASSUME NEW i \in 1..Len(s) + Len(t), NEW j \in 1..Len(s) + Len(t),
                      (s \o t)[i] = (s \o t)[j]
               PROVE  i = j
    BY <1>2 DEF IsInjective
  <2>1. \A m \in 1..Len(s), n \in 1..Len(t) : s[m] # t[n]  BY <1>2 DEF ToSet
  <2>2. \A m, n \in 1..Len(s) : s[m] = s[n] => m = n  BY <1>2 DEF IsInjective
  <2>3. \A m, n \in 1..Len(t) : t[m] = t[n] => m = n  BY <1>2 DEF IsInjective
  <2> QED  BY <1>2, <1>3, <2>1, <2>2, <2>3
<1> QED  BY <1>1, <1>4, <1>5

(* refresh_locale_list() leaves a list of different activated layouts, and *)
(* locale_current on it.                                                   *)
LEMMA RefreshIsSound ==
  ASSUME LocaleTypeOK, CacheIsSound,
         NEW current \in Cached \union {NoLayout}, NEW focused \in Layouts \union {NoLayout},
         RefreshLocaleList(current, focused)
  PROVE  /\ list' \in Seq(Layouts) /\ libraries' \in [Layouts -> Nat]
         /\ locale_current' \in {NoLayout, current, focused}
         /\ CacheIsSound'
<1> USE LayoutsAssumption
<1>0. Cached \subseteq Layouts /\ active \subseteq Layouts
  BY DEF LocaleTypeOK, Cached, ToSet
<1>1. CASE active = {}
  <2>1. locale_current' = current /\ list' = list /\ libraries' = libraries
    BY <1>1 DEF RefreshLocaleList
  <2> QED  BY <2>1 DEF LocaleTypeOK, CacheIsSound, Cached
<1>2. CASE active # {}
  <2>1. PICK kept \in Kept, new \in Insertable :
          /\ list' = kept \o new
          /\ locale_current' = IF focused \in ToSet(new) THEN focused
                               ELSE CurrentAfterRemoval(current, focused)
          /\ libraries' = LibrariesAfter(new)
    BY <1>2 DEF RefreshLocaleList, Refresh
  <2>2. kept \in Seq(Layouts) /\ ToSet(kept) = Cached \intersect active /\ IsInjective(kept)
    <3>1. kept \in SetToSeqs(Cached \intersect active)  BY DEF Kept
    <3>2. IsFiniteSet(Cached \intersect active)  BY <1>0, FS_Subset
    <3>3. /\ kept \in Seq(Cached \intersect active)
          /\ ToSet(kept) = Cached \intersect active /\ IsInjective(kept)
      BY <3>1, <3>2, EachOnce
    <3> QED  BY <1>0, <3>3
  <2>3. new \in Seq(Layouts) /\ ToSet(new) \subseteq active \ Cached /\ IsInjective(new)
    <3>1. PICK s \in SUBSET (active \ Cached) : new \in SetToSeqs(s)  BY DEF Insertable
    <3>2. IsFiniteSet(s)  BY <1>0, FS_Subset
    <3>3. new \in Seq(s) /\ ToSet(new) = s /\ IsInjective(new)  BY <3>1, <3>2, EachOnce
    <3> QED  BY <1>0, <3>3
  <2>4. /\ list' \in Seq(Layouts) /\ IsInjective(list')
        /\ ToSet(list') = (Cached \intersect active) \union ToSet(new)
    <3>1. ToSet(kept) \intersect ToSet(new) = {}  BY <2>2, <2>3
    <3> QED  BY <2>1, <2>2, <2>3, <3>1, Joined
  <2>5. libraries' \in [Layouts -> Nat]
        /\ \A l \in ToSet(list') : libraries'[l] > 0
    <3>1. libraries \in [Layouts -> Nat] /\ \A l \in Cached : libraries[l] > 0
      BY DEF LocaleTypeOK, CacheIsSound
    <3>2. \A l \in Layouts : libraries'[l] = libraries[l] + IF l \in ToSet(new) THEN 1 ELSE 0
      BY <2>1 DEF LibrariesAfter
    <3>3. libraries' \in [Layouts -> Nat]  BY <2>1, <3>1 DEF LibrariesAfter
    <3> QED  BY <1>0, <2>3, <2>4, <3>1, <3>2, <3>3
  <2>6. locale_current' \in {NoLayout, current, focused}
        /\ locale_current' \in ToSet(list') \union {NoLayout}
    BY <1>0, <2>1, <2>4 DEF CurrentAfterRemoval
  <2> QED  BY <2>4, <2>5, <2>6 DEF CacheIsSound, Cached
<1> QED  BY <1>1, <1>2

Char == (0..255) \X (0..255)

LEMMA CharsDiffer ==
  /\ Base # WCH_NONE /\ Letter # WCH_NONE /\ Diacritic # WCH_NONE /\ Diacritic # Base
  /\ Letter # Base
  /\ \A c \in Chars : c \in Char
<1>1. \A a, b, c, d : <<a, b>> = <<c, d>> => a = c /\ b = d  OBVIOUS
<1>2. /\ Base # WCH_NONE /\ Letter # WCH_NONE /\ Diacritic # WCH_NONE /\ Diacritic # Base
      /\ Letter # Base
  BY <1>1 DEF Base, Letter, Diacritic, WCH_NONE
<1>3. /\ Base \in Char /\ Letter \in Char
      /\ Diacritic \in Char /\ WCH_NONE \in Char
  BY DEF Base, Letter, Diacritic, WCH_NONE, Char
<1>4. Composed \in Char
  BY DEF Composed, Char
<1> QED  BY <1>2, <1>3, <1>4 DEF Chars

LEMMA MemsetType ==
  ASSUME NEW c \in Char, NEW b \in 0..255, NEW n \in 0..2
  PROVE  Memset(c, b, n) \in Char
BY DEF Memset, Char

(* keycode_to_unicode() with a layout keeps the dead key with its layout.  *)
LEMMA TranslateTypes ==
  ASSUME LocaleTypeOK, DeadInv,
         NEW key \in KeyNames, NEW stack \in Chars, NEW layout \in Layouts,
         NEW pending \in {deadChar, WCH_NONE}, Translate(key, stack, layout, pending)
  PROVE  /\ deadChar' \in Chars /\ deadLayout' \in Layouts \union {NoLayout}
         /\ typed' \in Results /\ typed'.key = key /\ typed'.layout = layout
         /\ typed'.before = pending
         /\ DeadInv' /\ refreshed' \in BOOLEAN
         /\ (pending # WCH_NONE => deadLayout = layout \/ refreshed)
              => (deadChar' # WCH_NONE => deadLayout' = layout \/ refreshed')
<1> DEFINE second == key = "dead" /\ pending # WCH_NONE
           dead   == IF key # "dead" THEN pending ELSE IF second THEN WCH_NONE ELSE Diacritic
           n      == CASE second -> 2 [] key \in {"base", "letter"} -> 1 [] OTHER -> 0
           first  == IF second THEN Memset(stack, pending[2], 2) ELSE FirstChar(key, stack)
           found  == dead = Diacritic /\ first = Base
           result == IF found THEN Memset(first, Composed[2], n) ELSE first
<1>1. /\ deadChar' = DeadAfter(found, dead)
      /\ deadLayout' = IF deadChar' = WCH_NONE THEN NoLayout
                       ELSE IF key = "dead" THEN layout ELSE deadLayout
      /\ refreshed' = (refreshed /\ deadChar' # WCH_NONE /\ key # "dead")
      /\ typed' = [key |-> key, layout |-> layout, before |-> pending,
                   buffer |-> CASE n = 0 -> <<>> [] n = 1 -> <<result>> [] n = 2 -> <<result, stack>>]
  BY DEF Translate
<1>2. pending \in {Diacritic, WCH_NONE} /\ deadLayout \in Layouts \union {NoLayout}
  BY DEF DeadInv, LocaleTypeOK
<1>3. dead \in {Diacritic, WCH_NONE}  BY <1>2
<1>4. deadChar' \in {Diacritic, WCH_NONE}
  BY <1>1, <1>3 DEF DeadAfter
<1>5. DeadInv'
  <2>1. CASE deadChar' = WCH_NONE
    <3>1. deadLayout' = NoLayout  BY <1>1, <2>1
    <3> QED  BY <1>4, <2>1, <3>1 DEF DeadInv
  <2>2. CASE deadChar' # WCH_NONE /\ key = "dead"
    <3>1. deadLayout' = layout  BY <1>1, <2>2
    <3> QED  BY <1>4, <2>2, <3>1, LayoutsAssumption DEF DeadInv
  <2>3. CASE deadChar' # WCH_NONE /\ key # "dead"
    <3>1. deadLayout' = deadLayout  BY <1>1, <2>3
    <3>2. dead # WCH_NONE  BY <1>1, <2>3 DEF DeadAfter
    <3>3. pending # WCH_NONE  BY <2>3, <3>2
    <3>4. deadLayout # NoLayout  BY <3>3 DEF DeadInv
    <3> QED  BY <1>4, <2>3, <3>1, <3>4 DEF DeadInv
  <2> QED  BY <2>1, <2>2, <2>3
<1>6. deadLayout' \in Layouts \union {NoLayout}
  BY <1>1, <1>2
<1>7. stack \in Char /\ Composed \in Char /\ pending \in Char /\ Base \in Char /\ Letter \in Char
  BY <1>2, CharsDiffer DEF Chars
<1>8. n \in 0..2  OBVIOUS
<1>9. result \in Char
  <2>1. first \in Char
    <3>1. pending[2] \in 0..255  BY <1>7 DEF Char
    <3>2. Memset(stack, pending[2], 2) \in Char  BY <1>7, <3>1, MemsetType
    <3>3. FirstChar(key, stack) \in Char  BY <1>7 DEF FirstChar
    <3> QED  BY <3>2, <3>3
  <2>2. Composed[2] \in 0..255  BY <1>7 DEF Char
  <2>3. Memset(first, Composed[2], n) \in Char
    <3> HIDE DEF first, n
    <3> QED  BY <1>8, <2>1, <2>2, MemsetType
  <2> HIDE DEF first, n, found
  <2> QED  BY <2>1, <2>3
<1>10. typed' \in Results /\ typed'.key = key /\ typed'.layout = layout /\ typed'.before = pending
  <2> DEFINE buffer == CASE n = 0 -> <<>> [] n = 1 -> <<result>> [] n = 2 -> <<result, stack>>
  <2>1. buffer \in Seq(Char)
    <3> HIDE DEF n, result
    <3>1. CASE n = 0  BY <3>1
    <3>2. CASE n = 1
      <4>1. <<result>> \in Seq(Char)  BY <1>9
      <4>2. buffer = <<result>>  BY <3>2
      <4> HIDE DEF buffer
      <4> QED  BY <4>1, <4>2, Zenon
    <3>3. CASE n = 2
      <4>1. <<result, stack>> \in Seq(Char)  BY <1>7, <1>9
      <4>2. buffer = <<result, stack>>  BY <3>3
      <4> HIDE DEF buffer
      <4> QED  BY <4>1, <4>2, Zenon
    <3> QED  BY <1>8, <3>1, <3>2, <3>3
  <2>2. pending \in Chars  BY <1>2 DEF Chars
  <2>3. typed' = [key |-> key, layout |-> layout, before |-> pending, buffer |-> buffer]  BY <1>1
  <2> HIDE DEF buffer
  <2> QED  BY <2>1, <2>2, <2>3 DEF Results, Char
<1>11. deadChar' \in Chars  BY <1>4 DEF Chars
<1>12. refreshed' \in BOOLEAN  BY <1>1
<1>13. ASSUME pending # WCH_NONE => deadLayout = layout \/ refreshed, deadChar' # WCH_NONE
       PROVE  deadLayout' = layout \/ refreshed'
  <2>1. CASE key = "dead"  BY <1>1, <1>13, <2>1
  <2>2. CASE key # "dead"
    <3>1. pending # WCH_NONE  BY <1>1, <1>13, <2>2 DEF DeadAfter
    <3>2. deadLayout' = deadLayout /\ refreshed' = refreshed
      BY <1>1, <1>13, <2>2, Zenon DEF LocaleTypeOK
    <3> QED  BY <1>13, <3>1, <3>2
  <2> QED  BY <2>1, <2>2
<1> QED  BY <1>5, <1>6, <1>10, <1>11, <1>12, <1>13

(* A base is composed if a dead key is pending, which is used up.          *)
LEMMA TranslateBase ==
  ASSUME FarAccents = FALSE, DeadInv, NEW stack \in Chars, NEW layout \in Layouts,
         NEW pending \in {deadChar, WCH_NONE}, Translate("base", stack, layout, pending)
  PROVE  /\ typed'.buffer = IF typed'.before = Diacritic THEN <<Composed>> ELSE <<Base>>
         /\ deadChar' = WCH_NONE
<1>1. pending \in {Diacritic, WCH_NONE}  BY DEF DeadInv
<1>2. Diacritic # WCH_NONE  BY CharsDiffer
<1>3. FirstChar("base", stack) = Base  BY DEF FirstChar
<1>4. Memset(Base, Composed[2], 1) = Composed  BY DEF Memset, Base, Composed
<1>5. /\ deadChar' = DeadAfter(pending = Diacritic, pending)
      /\ typed' = [key |-> "base", layout |-> layout, before |-> pending,
                   buffer |-> <<IF pending = Diacritic THEN Memset(Base, Composed[2], 1) ELSE Base>>]
  BY <1>3 DEF Translate
<1>6. deadChar' = WCH_NONE  BY <1>1, <1>5 DEF DeadAfter
<1> QED  BY <1>4, <1>5, <1>6

LEMMA NothingIsResult == Nothing \in Results
<1>1. <<>> \in Seq((0..255) \X (0..255)) /\ WCH_NONE \in Chars  BY DEF Chars
<1> QED  BY <1>1 DEF Nothing, Results

LEMMA LocaleInitially == LocaleInit => LocaleInv
<1> SUFFICES ASSUME LocaleInit PROVE LocaleInv  OBVIOUS
<1>1. Cached = {} /\ list \in Seq(Layouts) /\ IsInjective(list)
  BY DEF LocaleInit, Cached, ToSet, IsInjective
<1>2. libraries \in [Layouts -> Nat]  BY DEF LocaleInit
<1>3. typed \in Results  BY NothingIsResult DEF LocaleInit
<1>4. deadChar \in Chars  BY DEF LocaleInit, Chars
<1>5. changes \in 0..MaxChanges  BY BoundAssumption DEF LocaleInit
<1>6. LocaleTypeOK
  BY <1>1, <1>2, <1>3, <1>4, <1>5, Zenon DEF LocaleInit, LocaleTypeOK
<1>7. CacheIsSound  BY <1>1 DEF LocaleInit, CacheIsSound
<1>8. DeadInv /\ KeptInv /\ MissInv  BY DEF LocaleInit, DeadInv, KeptInv, MissInv
<1> QED  BY <1>6, <1>7, <1>8 DEF LocaleInv

LEMMA CrashKeeps == LocaleInv /\ Crash => LocaleInv'
BY DEF LocaleInv, Crash, LocaleTypeOK, CacheIsSound, Cached, DeadInv, KeptInv, MissInv,
       layoutVars, cacheVars, deadVars

LEMMA LoadKeeps == LocaleInv /\ LoadInputHelper => LocaleInv'
<1> SUFFICES ASSUME LocaleInv, LoadInputHelper PROVE LocaleInv'  OBVIOUS
<1> USE DEF LocaleInv
<1>1. CASE RemovesFirst
  <2>1. Crash  BY <1>1 DEF LoadInputHelper
  <2> QED  BY <2>1, CrashKeeps
<1>2. CASE ~RemovesFirst
  <2>1. /\ RefreshLocaleList(locale_current, focus) /\ loaded' = TRUE /\ missed = NoKey
        /\ refreshed' = (deadChar # WCH_NONE)
        /\ UNCHANGED <<layoutVars, deadChar, deadLayout, missed, typed, fault>>
    BY <1>2 DEF LoadInputHelper, NoteRefresh
  <2>2. /\ locale_current \in Cached \union {NoLayout}
        /\ locale_current \in Layouts \union {NoLayout} /\ focus \in Layouts \union {NoLayout}
    BY DEF CacheIsSound, LocaleTypeOK
  <2>3. /\ list' \in Seq(Layouts) /\ libraries' \in [Layouts -> Nat]
        /\ locale_current' \in {NoLayout, locale_current, focus}
        /\ CacheIsSound'
    BY <2>1, <2>2, RefreshIsSound
  <2>4. LocaleTypeOK'  BY <2>1, <2>2, <2>3 DEF LocaleTypeOK, layoutVars
  <2>5. DeadInv'  BY <2>1 DEF DeadInv
  <2>6. KeptInv'  BY <2>1, Zenon DEF KeptInv
  <2>7. MissInv'  BY <2>1 DEF MissInv
  <2> QED  BY <2>3, <2>4, <2>5, <2>6, <2>7
<1> QED  BY <1>1, <1>2

LEMMA UnloadKeeps == LocaleInv /\ UnloadInputHelper => LocaleInv'
<1> SUFFICES ASSUME LocaleInv, UnloadInputHelper PROVE LocaleInv'  OBVIOUS
<1> USE DEF LocaleInv
<1>1. /\ list' = <<>> /\ locale_current' = NoLayout /\ loaded' = FALSE /\ typed' = Nothing
      /\ libraries' = [l \in Layouts |-> libraries[l] - IF l \in Cached THEN 1 ELSE 0]
      /\ missed = NoKey /\ UNCHANGED <<layoutVars, deadVars, missed, fault>>
  BY DEF UnloadInputHelper, Freed
<1>2. libraries' \in [Layouts -> Nat]
  <2>1. libraries \in [Layouts -> Nat] /\ \A l \in Cached : libraries[l] > 0
    BY DEF LocaleTypeOK, CacheIsSound
  <2>2. \A l \in Layouts : libraries[l] - (IF l \in Cached THEN 1 ELSE 0) \in Nat  BY <2>1
  <2> QED  BY <1>1, <2>2
<1>3. LocaleTypeOK'
  <2>1. list' \in Seq(Layouts)  BY <1>1
  <2>2. typed' \in Results  BY <1>1, NothingIsResult
  <2> QED  BY <1>1, <1>2, <2>1, <2>2, Zenon DEF LocaleTypeOK, layoutVars, deadVars
<1>4. CacheIsSound'  BY <1>1 DEF CacheIsSound, Cached, ToSet, IsInjective
<1>5. DeadInv' /\ KeptInv' /\ MissInv'  BY <1>1 DEF DeadInv, KeptInv, MissInv, deadVars
<1> QED  BY <1>3, <1>4, <1>5

(* What a call of keycode_to_unicode() may do with its key: translate it   *)
(* with the layout of the focused window, with the dead key only if that   *)
(* is of the same layout or was noted as kept by a refresh; or nothing.    *)
Handled(key, stack) ==
  \/ \E layout \in Layouts, pending \in {deadChar, WCH_NONE} :
       /\ focus = NoLayout \/ layout = focus
       /\ Translate(key, stack, layout, pending)
       /\ pending # WCH_NONE => deadLayout = layout \/ refreshed
  \/ typed' = [Nothing EXCEPT !.key = key]
  \/ typed' = typed

(* The call until it has found the layout, in locale_current or in the     *)
(* list, or has missed it.                                                 *)
LEMMA KeyIsTranslatedInFocus ==
  ASSUME LocaleInv, NEW key \in KeyNames, NEW stack \in Chars, NEW own \in active,
         KeycodeToUnicode(key, stack, own)
  PROVE  LocaleInv' /\ Handled(key, stack)
<1> USE DEF LocaleInv
<1> DEFINE layout == IF focus = NoLayout THEN own ELSE focus
<1>1. layout \in Layouts /\ focus \in Layouts \union {NoLayout} /\ (focus = NoLayout \/ layout = focus)
  BY DEF LocaleTypeOK
<1>2. UNCHANGED <<layoutVars, loaded, fault>> /\ loaded /\ missed = NoKey  BY DEF KeycodeToUnicode
<1>3. CASE locale_current = layout
  <2>1. Translate(key, stack, layout, deadChar) /\ UNCHANGED <<cacheVars, missed>>
    BY <1>3 DEF KeycodeToUnicode
  <2> HIDE DEF layout
  <2>2. deadChar # WCH_NONE => deadLayout = layout \/ refreshed  BY <1>2, <1>3 DEF KeptInv
  <2>3. /\ deadChar' \in Chars /\ deadLayout' \in Layouts \union {NoLayout}
        /\ typed' \in Results /\ DeadInv' /\ refreshed' \in BOOLEAN
        /\ deadChar' # WCH_NONE => deadLayout' = layout \/ refreshed'
    BY <1>1, <2>1, <2>2, TranslateTypes
  <2>4. LocaleTypeOK' /\ CacheIsSound'
    BY <1>2, <2>1, <2>3 DEF LocaleTypeOK, CacheIsSound, Cached, layoutVars, cacheVars
  <2>5. KeptInv' /\ MissInv'  BY <1>2, <1>3, <2>1, <2>3 DEF KeptInv, MissInv, cacheVars
  <2> QED  BY <1>1, <2>1, <2>2, <2>3, <2>4, <2>5 DEF Handled
<1>4. CASE locale_current # layout /\ Switch(key, stack, layout)
  <2> HIDE DEF layout
  <2>1. /\ Translate(key, stack, layout, WCH_NONE) /\ UNCHANGED <<list, libraries, missed>>
        /\ layout \in Cached /\ locale_current' = layout
    BY <1>4 DEF Switch
  <2>2. /\ deadChar' \in Chars /\ deadLayout' \in Layouts \union {NoLayout}
        /\ typed' \in Results /\ DeadInv' /\ refreshed' \in BOOLEAN
        /\ deadChar' # WCH_NONE => deadLayout' = layout \/ refreshed'
    BY <1>1, <2>1, TranslateTypes
  <2>3. LocaleTypeOK' /\ CacheIsSound'
    BY <1>1, <1>2, <2>1, <2>2 DEF LocaleTypeOK, CacheIsSound, Cached, layoutVars
  <2>4. KeptInv' /\ MissInv'  BY <1>2, <2>1, <2>2 DEF KeptInv, MissInv
  <2> QED  BY <1>1, <2>1, <2>2, <2>3, <2>4 DEF Handled
<1>5. CASE locale_current # layout /\ Miss(key, layout)
  <2>1. /\ locale_current' = NoLayout /\ missed' = key
        /\ refreshed' = (deadChar # WCH_NONE)
        /\ UNCHANGED <<list, libraries, typed, deadChar, deadLayout>>
    BY <1>5 DEF Miss, NoteRefresh
  <2>2. LocaleTypeOK' /\ CacheIsSound'
    BY <1>2, <2>1 DEF LocaleTypeOK, CacheIsSound, Cached, layoutVars
  <2>3. DeadInv' /\ KeptInv' /\ MissInv'  BY <1>2, <2>1 DEF DeadInv, KeptInv, MissInv
  <2> QED  BY <2>1, <2>2, <2>3 DEF Handled
<1> QED  BY <1>3, <1>4, <1>5 DEF KeycodeToUnicode

(* The rest of a call that has missed the layout.                          *)
LEMMA MissIsTranslatedInFocus ==
  ASSUME LocaleInv, NEW stack \in Chars, SwitchUncached(stack)
  PROVE  LocaleInv' /\ missed \in KeyNames /\ Handled(missed, stack)
<1> USE DEF LocaleInv
<1>1. /\ missed \in KeyNames /\ loaded /\ locale_current = NoLayout
      /\ deadChar # WCH_NONE => refreshed
      /\ focus \in Layouts \union {NoLayout}
  BY DEF SwitchUncached, MissInv, LocaleTypeOK
<1>2. CASE RemovesFirst
  <2>1. Crash  BY <1>2 DEF SwitchUncached
  <2>2. typed' = typed  BY <2>1 DEF Crash
  <2> QED  BY <1>1, <2>1, <2>2, CrashKeeps DEF Handled
<1>3. CASE ~RemovesFirst
  <2>1. /\ RefreshLocaleList(locale_current, focus)
        /\ IF locale_current' # NoLayout
           THEN Translate(missed, stack, locale_current', deadChar)
           ELSE typed' = [Nothing EXCEPT !.key = missed] /\ UNCHANGED deadVars
        /\ missed' = NoKey
        /\ UNCHANGED <<layoutVars, loaded, fault>>
    BY <1>3 DEF SwitchUncached
  <2>2. /\ list' \in Seq(Layouts) /\ libraries' \in [Layouts -> Nat]
        /\ locale_current' \in {NoLayout, focus}
        /\ CacheIsSound'
    <3>1. locale_current \in Cached \union {NoLayout}  BY <1>1
    <3> QED  BY <1>1, <2>1, <3>1, RefreshIsSound
  <2>3. MissInv'  BY <2>1 DEF MissInv
  <2>4. CASE locale_current' # NoLayout
    <3>1. Translate(missed, stack, focus, deadChar) /\ focus \in Layouts /\ locale_current' = focus
      BY <1>1, <2>1, <2>2, <2>4
    <3>2. /\ deadChar' \in Chars /\ deadLayout' \in Layouts \union {NoLayout}
          /\ typed' \in Results /\ DeadInv' /\ refreshed' \in BOOLEAN
          /\ deadChar' # WCH_NONE => deadLayout' = focus \/ refreshed'
      BY <1>1, <3>1, TranslateTypes
    <3>3. LocaleTypeOK'  BY <1>1, <2>1, <2>2, <3>2 DEF LocaleTypeOK, layoutVars
    <3>4. KeptInv'  BY <3>1, <3>2 DEF KeptInv
    <3> QED  BY <1>1, <2>2, <2>3, <3>1, <3>2, <3>3, <3>4 DEF Handled
  <2>5. CASE locale_current' = NoLayout
    <3>1. typed' = [Nothing EXCEPT !.key = missed] /\ UNCHANGED deadVars  BY <2>1, <2>5
    <3>2. typed' \in Results
      <4>1. [Nothing EXCEPT !.key = missed] \in Results
        BY <1>1, NothingIsResult DEF Results
      <4> QED  BY <3>1, <4>1
    <3>3. LocaleTypeOK'
      BY <1>1, <2>1, <2>2, <3>1, <3>2 DEF LocaleTypeOK, layoutVars, deadVars
    <3>4. DeadInv' /\ KeptInv'  BY <1>1, <3>1 DEF DeadInv, KeptInv, deadVars
    <3> QED  BY <1>1, <2>2, <2>3, <3>1, <3>3, <3>4 DEF Handled
  <2> QED  BY <2>4, <2>5
<1> QED  BY <1>2, <1>3

LEMMA LocaleStep == LocaleInv /\ [LocaleNext]_localeVars => LocaleInv'
<1> SUFFICES ASSUME LocaleInv, [LocaleNext]_localeVars PROVE LocaleInv'  OBVIOUS
<1>1. CASE LoadInputHelper  BY <1>1, LoadKeeps
<1>2. CASE UnloadInputHelper  BY <1>2, UnloadKeeps
<1>3. CASE \E key \in KeyNames, stack \in Chars, own \in active : KeycodeToUnicode(key, stack, own)
  BY <1>3, KeyIsTranslatedInFocus
<1>4. CASE \E stack \in Chars : SwitchUncached(stack)
  BY <1>4, MissIsTranslatedInFocus
<1>5. CASE ChangeLayouts
  <2>1. active' \subseteq Layouts /\ focus' \in Layouts \union {NoLayout} /\ changes' \in 0..MaxChanges
    BY <1>5, BoundAssumption DEF LocaleInv, LocaleTypeOK, ChangeLayouts
  <2> QED
    BY <1>5, <2>1 DEF ChangeLayouts, LocaleInv, LocaleTypeOK, CacheIsSound, Cached, DeadInv,
                      KeptInv, MissInv, cacheVars, deadVars
<1>6. CASE UNCHANGED localeVars
  BY <1>6 DEF LocaleInv, LocaleTypeOK, CacheIsSound, Cached, DeadInv, KeptInv, MissInv,
              localeVars, layoutVars, cacheVars, deadVars
<1> QED  BY <1>1, <1>2, <1>3, <1>4, <1>5, <1>6 DEF LocaleNext

LEMMA LocaleInductive == LocaleSpec => []LocaleInv
BY LocaleInitially, LocaleStep, PTL DEF LocaleSpec

(* Every variable of the helper keeps its type; the count of the libraries *)
(* that are loaded for a layout is never negative.                         *)
THEOREM LocaleTypeCorrect == LocaleSpec => []LocaleTypeOK
<1>1. LocaleInv => LocaleTypeOK  BY DEF LocaleInv
<1> QED  BY LocaleInductive, <1>1, PTL

(* However layouts are activated and deactivated between the calls of the  *)
(* helper, locale_current points into the list, which has no layout twice, *)
(* and the tables of those in the list are in memory.                      *)
THEOREM LocaleCacheIsSound == LocaleSpec => []CacheIsSound
<1>1. LocaleInv => CacheIsSound  BY DEF LocaleInv
<1> QED  BY LocaleInductive, <1>1, PTL

LEMMA KeysAreHandled ==
  ASSUME LocaleInv, [LocaleNext]_localeVars, typed' # typed, typed' # Nothing
  PROVE  \E key \in KeyNames, stack \in Chars : Handled(key, stack)
<1>1. \/ \E key \in KeyNames, stack \in Chars, own \in active : KeycodeToUnicode(key, stack, own)
      \/ \E stack \in Chars : SwitchUncached(stack)
  BY DEF LocaleNext, LoadInputHelper, UnloadInputHelper, ChangeLayouts, Crash, localeVars
<1> QED  BY <1>1, KeyIsTranslatedInFocus, MissIsTranslatedInFocus

(* keycode_to_unicode() translates a key with the layout that the window   *)
(* with the focus has when the call last asks for it, or not at all,       *)
(* whatever layout was current before.                                     *)
THEOREM KeysAreTypedInFocus == LocaleSpec => TypedInFocus
<1>1. LocaleInv /\ [LocaleNext]_localeVars =>
        [typed' # typed => typed'.layout \in {NoLayout, focus} \/ focus = NoLayout]_localeVars
  <2> SUFFICES ASSUME LocaleInv, [LocaleNext]_localeVars, typed' # typed, focus # NoLayout
               PROVE  typed'.layout \in {NoLayout, focus}
    OBVIOUS
  <2>1. Nothing.layout = NoLayout  BY DEF Nothing
  <2>2. ASSUME NEW key \in KeyNames, NEW stack \in Chars, Handled(key, stack)
        PROVE  typed'.layout \in {NoLayout, focus}
    <3>1. ASSUME NEW layout \in Layouts, NEW pending \in {deadChar, WCH_NONE},
                 focus = NoLayout \/ layout = focus, Translate(key, stack, layout, pending)
          PROVE  typed'.layout = focus
      BY <3>1, TranslateTypes DEF LocaleInv
    <3>2. ASSUME typed' = [Nothing EXCEPT !.key = key]
          PROVE  typed'.layout = NoLayout
      BY <3>2 DEF Nothing
    <3> QED  BY <2>2, <3>1, <3>2 DEF Handled
  <2> QED  BY <2>1, <2>2, KeysAreHandled
<1> QED  BY LocaleInductive, <1>1, PTL DEF LocaleSpec, TypedInFocus

(* In a layout that composes within Latin-1, where the byte that memset()  *)
(* writes is the whole character, a base after a dead key gives the        *)
(* composed character and uses the dead key up, and the dead key is of the *)
(* layout of the base unless the list was refreshed between the two.       *)
THEOREM DeadKeyComposesOnce ==
  ASSUME FarAccents = FALSE
  PROVE  LocaleSpec => DeadComposesOnce
<1>1. LocaleInv /\ [LocaleNext]_localeVars =>
        [typed' # typed /\ typed'.key = "base" /\ typed'.layout # NoLayout =>
           /\ typed'.buffer = IF typed'.before = Diacritic THEN <<Composed>> ELSE <<Base>>
           /\ deadChar' = WCH_NONE
           /\ typed'.before = Diacritic => (deadLayout = typed'.layout \/ refreshed)]_localeVars
  <2> DEFINE Once ==
        /\ typed'.buffer = IF typed'.before = Diacritic THEN <<Composed>> ELSE <<Base>>
        /\ deadChar' = WCH_NONE
        /\ typed'.before = Diacritic => (deadLayout = typed'.layout \/ refreshed)
  <2> SUFFICES ASSUME LocaleInv, [LocaleNext]_localeVars,
                      typed' # typed, typed'.key = "base", typed'.layout # NoLayout
               PROVE  Once
    OBVIOUS
  <2>1. typed' # Nothing /\ \A key : typed' # [Nothing EXCEPT !.key = key]  BY DEF Nothing
  <2>2. PICK key \in KeyNames, stack \in Chars : Handled(key, stack)
    BY <2>1, KeysAreHandled
  <2>3. PICK layout \in Layouts, pending \in {deadChar, WCH_NONE} :
          /\ Translate(key, stack, layout, pending)
          /\ pending # WCH_NONE => deadLayout = layout \/ refreshed
    BY <2>1, <2>2 DEF Handled
  <2>4. key = "base" /\ typed'.layout = layout /\ typed'.before = pending
    BY <2>3, TranslateTypes DEF LocaleInv
  <2>5. typed'.before = Diacritic => (deadLayout = typed'.layout \/ refreshed)
    BY <2>3, <2>4, CharsDiffer
  <2> QED  BY <2>3, <2>4, <2>5, TranslateBase DEF LocaleInv
<1> QED  BY LocaleInductive, <1>1, PTL DEF LocaleSpec, DeadComposesOnce
=============================================================================
