--------------------------- MODULE X11InputProofs ---------------------------
(***************************************************************************)
(* Proofs about X11Input for every keyboard, pointer, pointer map and      *)
(* multi-click time, with and without keys held at the start.              *)
(***************************************************************************)
EXTENDS X11Input, SequenceTheorems, TLAPS

-----------------------------------------------------------------------------
(* What the helpers return.                                                *)

(* The five buttons an event can name each have a mask.                    *)
LEMMA ButtonMaskType == \A n \in 1..5 : ButtonMask(n) \in ButtonMasks
  BY DEF ButtonMask, ButtonMasks

(* A recorded button becomes one of the virtual buttons, or none; the bits *)
(* it sets are button bits, and it sets some exactly if it becomes one.    *)
LEMMA ButtonType ==
  ASSUME NEW d \in Buttons
  PROVE  /\ VirtualButton(d) \in MouseButton
         /\ MaskOf(d) \subseteq ButtonMasks
         /\ VirtualButton(d) = 0 <=> MaskOf(d) = {}
<1>1. PointerMap[d] \in Nat \ {0}  BY ButtonsAssumption
<1>2. ButtonMapLookup(d) \in Nat \ {0}  BY <1>1 DEF ButtonMapLookup
<1>3. VirtualButton(d) \in 0..5  BY <1>2 DEF VirtualButton
<1>4. CASE VirtualButton(d) = 0  BY <1>3, <1>4 DEF MaskOf, MouseButton
<1>5. CASE VirtualButton(d) \in 1..3
  <2>1. MaskOf(d) = {ButtonMask(VirtualButton(d))}  BY <1>5 DEF MaskOf
  <2> QED  BY <1>3, <1>5, <2>1, ButtonMaskType DEF MouseButton
<1>6. CASE VirtualButton(d) \in 4..5
  <2>1. MaskOf(d) = {"BUTTON5"}  BY <1>6 DEF MaskOf
  <2> QED  BY <1>3, <1>6, <2>1 DEF MouseButton, ButtonMasks
<1> QED  BY <1>3, <1>4, <1>5, <1>6

(* The xkb state of the hook and of the server stay in their type.         *)
LEMMA XkbType ==
  ASSUME NEW st \in XkbStates, NEW k
  PROVE  XkbDown(st, k) \in XkbStates /\ XkbUp(st, k) \in XkbStates
  BY DEF XkbStates, XkbDown, XkbUp

(* A key changes nothing but its own lock, and none if it is no lock key.  *)
LEMMA XkbOthers ==
  ASSUME NEW st \in XkbStates, NEW k, NEW j \in LockKeys, j # k \/ k \notin LockKeys
  PROVE  /\ j \in XkbDown(st, k).locked <=> j \in st.locked
         /\ j \in XkbDown(st, k).unlock <=> j \in st.unlock
         /\ j \in XkbUp(st, k).locked <=> j \in st.locked
         /\ j \in XkbUp(st, k).unlock <=> j \in st.unlock
<1>1. j \in {k} \intersect LockKeys <=> FALSE  OBVIOUS
<1>2. j # k  OBVIOUS
<1>3. CASE k \in st.locked
  <2>1. /\ XkbDown(st, k).locked = st.locked
        /\ XkbDown(st, k).unlock = st.unlock \union ({k} \intersect LockKeys)
    BY <1>3 DEF XkbDown, XkbStates
  <2> QED  BY <1>1, <1>2, <2>1 DEF XkbUp
<1>4. CASE k \notin st.locked
  <2>1. /\ XkbDown(st, k).unlock = st.unlock
        /\ XkbDown(st, k).locked = st.locked \union ({k} \intersect LockKeys)
    BY <1>4 DEF XkbDown, XkbStates
  <2> QED  BY <1>1, <1>2, <2>1 DEF XkbUp
<1> QED  BY <1>3, <1>4

(* Replacing the lock bits keeps a mask a mask.                            *)
LEMMA WithLocksType ==
  ASSUME NEW st \in XkbStates, NEW m, m \subseteq Masks
  PROVE  WithLocks(m, st) \subseteq Masks
  BY DEF XkbStates, WithLocks, Masks

(* A press counts at least one click and never more than USHRT_MAX.        *)
LEMMA CountType ==
  ASSUME count \in 0..ClickMax, NEW b
  PROVE  CountPress(b) \in 0..ClickMax
  BY ClickAssumption DEF CountPress

(* The events hook_event_proc() builds have the type of events.            *)
LEMMA KeyType ==
  ASSUME NEW type \in {"KEY_PRESSED", "KEY_RELEASED", "KEY_TYPED"},
         NEW m, m \subseteq Masks, NEW k \in Keys \union {"UNDEFINED"},
         NEW c \in Characters \union {"UNDEFINED"}
  PROVE  Key(type, m, k, c) \in KeyEvents
  BY DEF Key, KeyEvents

(* ... and so have the mouse events.                                       *)
LEMMA MouseType ==
  ASSUME NEW type \in {"MOUSE_PRESSED", "MOUSE_RELEASED", "MOUSE_CLICKED",
                       "MOUSE_MOVED", "MOUSE_DRAGGED"},
         NEW m, m \subseteq Masks, NEW b \in MouseButton, NEW n \in 0..ClickMax
  PROVE  Mouse(type, m, b, n) \in MouseEvents
  BY DEF Mouse, MouseEvents

(* What a key press or a release dispatches, before its type is known: the *)
(* elements of a concatenation are those of its parts.                     *)
LEMMA ConcatElements ==
  ASSUME NEW S, NEW s \in Seq(S), NEW t \in Seq(S), NEW i \in DOMAIN (s \o t)
  PROVE  \/ \E j \in DOMAIN s : (s \o t)[i] = s[j]
         \/ \E j \in DOMAIN t : (s \o t)[i] = t[j]
<1>1. s \o t \in Seq(S) /\ Len(s \o t) = Len(s) + Len(t)  BY ConcatProperties
<1>2. i \in 1 .. Len(s) + Len(t)  BY <1>1
<1>3. (s \o t)[i] = IF i <= Len(s) THEN s[i] ELSE t[i - Len(s)]
  BY <1>2, ConcatProperties
<1>4. CASE i <= Len(s)  BY <1>2, <1>3, <1>4
<1>5. CASE i > Len(s)
  <2>1. i - Len(s) \in DOMAIN t  BY <1>2, <1>5
  <2>2. (s \o t)[i] = t[i - Len(s)]  BY <1>2, <1>3, <1>5
  <2> QED  BY <2>1, <2>2
<1> QED  BY <1>2, <1>4, <1>5

(* The events of a key that has changed all are key events with the mask   *)
(* the handler has computed.                                               *)
LEMMA TypedEvents ==
  ASSUME NEW k \in Keys, NEW m, m \subseteq Masks
  PROVE  LET chars == KeycodeToUnicode(k)
             typed == [i \in DOMAIN chars |-> Key("KEY_TYPED", m, "UNDEFINED", chars[i])]
         IN  typed \in Seq(KeyEvents) /\ \A i \in DOMAIN typed : typed[i].mask = m
<1> DEFINE chars == KeycodeToUnicode(k)
           typed == [i \in DOMAIN chars |-> Key("KEY_TYPED", m, "UNDEFINED", chars[i])]
<1>1. chars \in Seq(Characters)
  <2>1. KeycodeToUnicode(k) \in {<<"high", "low">>, <<"bmp">>, <<"zero">>}
    BY DEF KeycodeToUnicode
  <2>2. /\ "high" \in Characters /\ "low" \in Characters
        /\ "bmp" \in Characters /\ "zero" \in Characters
    BY DEF Characters
  <2>3. <<"high", "low">> \in Seq(Characters)  BY <2>2
  <2>4. <<"bmp">> \in Seq(Characters) /\ <<"zero">> \in Seq(Characters)  BY <2>2
  <2> QED  BY <2>1, <2>3, <2>4
<1>2. \A i \in DOMAIN chars : Key("KEY_TYPED", m, "UNDEFINED", chars[i]) \in KeyEvents
  BY <1>1, KeyType
<1>3. typed \in Seq(KeyEvents)
  <2> HIDE DEF chars
  <2>1. DOMAIN typed = 1..Len(chars) /\ Len(chars) \in Nat  BY <1>1
  <2> QED  BY <1>1, <1>2, <2>1
<1>4. \A i \in DOMAIN typed : typed[i].mask = m  BY DEF Key
<1> QED  BY <1>3, <1>4
-----------------------------------------------------------------------------
(* The inductive invariant, in parts.                                      *)

AllEvents == KeyEvents \union MouseEvents \union WheelEvents

(* Before recording begins nothing has been pressed or dispatched.         *)
StartInv == phase # "live" => out = <<>> /\ pressed = {}

(* The keymap the hook has read, and later its mask, agree with the keys.  *)
ModifierInv ==
  /\ phase = "keymap" => stale \subseteq LockKeys
  /\ phase = "pointer" =>
       \A k \in (ModifierKeys \intersect Keys) \ stale : k \in keymap <=> k \in keys
  /\ ModifiersTracked

(* The hook's xkb state agrees with the server's, also in what the next    *)
(* release will do, and the mask with the hook's xkb state.                *)
LockInv ==
  /\ phase \in {"armed", "live"} => mask \intersect LockKeys = state.locked
  /\ \A k \in (LockKeys \intersect Keys) \ stale :
       /\ k \in state.locked <=> k \in server.locked
       /\ k \in state.unlock <=> k \in server.unlock

(* Every button bit comes from a button that is down, or was at the start. *)
BitsInv ==
  initHeld = {} =>
    \A b \in mask \intersect ButtonMasks : \E d \in pressed : b \in MaskOf(d)

(* No motion is being reported.                                            *)
Still == \A i \in DOMAIN out : out[i].type \notin {"MOUSE_MOVED", "MOUSE_DRAGGED"}

(* The pointer moved, or no motion is reported, or the report still stands.*)
MovedOrStill == MotionNotify \/ Still' \/ UNCHANGED <<out, pressed, initHeld>>

(* No two buttons share a bit, as they do if X buttons 8 and 9 both exist. *)
DistinctMasks ==
  \A d, e \in Buttons : MaskOf(d) \intersect MaskOf(e) # {} => d = e

(* Then the bit of a button lasts as long as the button is down, and a     *)
(* motion since its press is remembered.                                   *)
DragInv ==
  /\ \A d \in pressed : MaskOf(d) \subseteq mask
  /\ \A d \in pressed \intersect moved : VirtualButton(d) # 0 => is_dragged
-----------------------------------------------------------------------------
(* Dispatching and recording begin together.                               *)
LEMMA StartStep == StartInv /\ [Next]_vars => StartInv'
<1> SUFFICES ASSUME StartInv, [Next]_vars PROVE StartInv'  OBVIOUS
<1> USE DEF StartInv, serverVars, startVars, mouseVars, historyVars
<1>1. CASE QueryKeymap  BY <1>1 DEF QueryKeymap
<1>2. CASE QueryPointer  BY <1>2 DEF QueryPointer
<1>3. CASE QueryPointerFails  BY <1>3 DEF QueryPointerFails
<1>4. CASE StartRecording  BY <1>4 DEF StartRecording
<1>5. ASSUME NEW k \in Keys, UnrecordedKey(k) PROVE StartInv'  BY <1>5 DEF UnrecordedKey
<1>6. ASSUME NEW d \in Buttons, UnrecordedButton(d) PROVE StartInv'
  BY <1>6 DEF UnrecordedButton
<1>7. CASE Tick  BY <1>7 DEF Tick
<1>8. ASSUME NEW k \in Keys, NEW consumed \in BOOLEAN, KeyPress(k, consumed)
      PROVE  StartInv'
  BY <1>8 DEF KeyPress
<1>9. ASSUME NEW k \in Keys, KeyRelease(k) PROVE StartInv'  BY <1>9 DEF KeyRelease
<1>10. ASSUME NEW d \in Buttons, WheelPress(d) PROVE StartInv'  BY <1>10 DEF WheelPress
<1>11. ASSUME NEW d \in Buttons, WheelRelease(d) PROVE StartInv'
  BY <1>11 DEF WheelRelease
<1>12. ASSUME NEW d \in Buttons, ButtonPress(d) PROVE StartInv'
  BY <1>12 DEF ButtonPress
<1>13. ASSUME NEW d \in Buttons, NEW consumed \in BOOLEAN, ButtonRelease(d, consumed)
      PROVE  StartInv'
  BY <1>13 DEF ButtonRelease
<1>14. CASE MotionNotify  BY <1>14 DEF MotionNotify
<1>15. CASE UNCHANGED vars  BY <1>15 DEF vars
<1> QED  BY <1>1, <1>2, <1>3, <1>4, <1>5, <1>6, <1>7, <1>8,
         <1>9, <1>10, <1>11, <1>12, <1>13, <1>14, <1>15
     DEF Next, Start, Unrecorded, Recorded

(* The mask keeps up with the modifier keys.                               *)
LEMMA ModifierStep == TypeOK /\ ModifierInv /\ [Next]_vars => ModifierInv'
<1> SUFFICES ASSUME TypeOK, ModifierInv, [Next]_vars PROVE ModifierInv'  OBVIOUS
<1> USE DEF ModifierInv, ModifiersTracked, TypeOK, ModifierKeys, LockKeys, WithLocks, XkbStates,
        serverVars, startVars, mouseVars, historyVars
<1>1. CASE QueryKeymap  BY <1>1 DEF QueryKeymap
<1>2. CASE QueryPointer
  <2>1. \A k \in ModifierKeys : k \in Partner(k)  BY DEF Partner
  <2>2. \A n \in 1..5 : ButtonMask(n) \notin ModifierKeys \union LockKeys
    BY ButtonMaskType DEF ButtonMasks
  <2>3. \A k \in ModifierKeys : k \in mask' <=> k \in QueriedKeys(keys)
    BY <1>2, <2>2 DEF QueryPointer
  <2> QED  BY <1>2, <2>1, <2>3 DEF QueryPointer, QueriedKeys
<1>3. CASE QueryPointerFails  BY <1>3 DEF QueryPointerFails
<1>4. CASE StartRecording  BY <1>4 DEF StartRecording
<1>5. ASSUME NEW k \in Keys, UnrecordedKey(k) PROVE ModifierInv'
  BY <1>5 DEF UnrecordedKey
<1>6. ASSUME NEW d \in Buttons, UnrecordedButton(d) PROVE ModifierInv'
  BY <1>6 DEF UnrecordedButton
<1>7. CASE Tick  BY <1>7 DEF Tick
<1>8. ASSUME NEW k \in Keys, NEW consumed \in BOOLEAN, KeyPress(k, consumed)
      PROVE  ModifierInv'
  <2>1. XkbDown(state, k).locked \subseteq LockKeys  BY XkbType DEF XkbStates
  <2> QED  BY <1>8, <2>1 DEF KeyPress, ModifierBit
<1>9. ASSUME NEW k \in Keys, KeyRelease(k) PROVE ModifierInv'
  <2>1. XkbUp(state, k).locked \subseteq LockKeys  BY XkbType DEF XkbStates
  <2> QED  BY <1>9, <2>1 DEF KeyRelease, ModifierBit
<1>10. ASSUME NEW d \in Buttons, WheelPress(d) PROVE ModifierInv'
  BY <1>10 DEF WheelPress
<1>11. ASSUME NEW d \in Buttons, WheelRelease(d) PROVE ModifierInv'
  BY <1>11 DEF WheelRelease
<1>12. ASSUME NEW d \in Buttons, ButtonPress(d) PROVE ModifierInv'
  <2>1. MaskOf(d) \intersect ModifierKeys = {}  BY ButtonType DEF ButtonMasks
  <2> QED  BY <1>12, <2>1 DEF ButtonPress
<1>13. ASSUME NEW d \in Buttons, NEW consumed \in BOOLEAN, ButtonRelease(d, consumed)
      PROVE  ModifierInv'
  <2>1. MaskOf(d) \intersect ModifierKeys = {}  BY ButtonType DEF ButtonMasks
  <2> QED  BY <1>13, <2>1 DEF ButtonRelease
<1>14. CASE MotionNotify  BY <1>14 DEF MotionNotify
<1>15. CASE UNCHANGED vars  BY <1>15 DEF vars
<1> QED  BY <1>1, <1>2, <1>3, <1>4, <1>5, <1>6, <1>7, <1>8,
         <1>9, <1>10, <1>11, <1>12, <1>13, <1>14, <1>15
     DEF Next, Start, Unrecorded, Recorded

(* Hook and server agree on every lock key whose changes were all recorded. *)
LEMMA LockStep == TypeOK /\ LockInv /\ [Next]_vars => LockInv'
<1> SUFFICES ASSUME TypeOK, LockInv, [Next]_vars PROVE LockInv'  OBVIOUS
<1> USE DEF LockInv, TypeOK, WithLocks, XkbStates,
        serverVars, startVars, mouseVars, historyVars
<1>1. CASE QueryKeymap  BY <1>1 DEF QueryKeymap
<1>2. CASE QueryPointer  BY <1>2 DEF QueryPointer
<1>3. CASE QueryPointerFails  BY <1>3 DEF QueryPointerFails
<1>4. CASE StartRecording  BY <1>4 DEF StartRecording
<1>5. ASSUME NEW k \in Keys, UnrecordedKey(k) PROVE LockInv'
  <2>1. UNCHANGED <<phase, mask, state>>  BY <1>5 DEF UnrecordedKey
  <2>2. stale \subseteq stale' /\ (k \in LockKeys => k \in stale')  BY <1>5 DEF UnrecordedKey
  <2>3. ASSUME NEW j \in LockKeys, j # k \/ k \notin LockKeys
        PROVE  /\ j \in server'.locked <=> j \in server.locked
               /\ j \in server'.unlock <=> j \in server.unlock
    BY <1>5, <2>3, XkbOthers DEF UnrecordedKey
  <2> QED  BY <2>1, <2>2, <2>3
<1>6. ASSUME NEW d \in Buttons, UnrecordedButton(d) PROVE LockInv'
  BY <1>6 DEF UnrecordedButton
<1>7. CASE Tick  BY <1>7 DEF Tick
<1>8. ASSUME NEW k \in Keys, NEW consumed \in BOOLEAN, KeyPress(k, consumed)
      PROVE  LockInv'
  BY <1>8 DEF KeyPress, XkbDown
<1>9. ASSUME NEW k \in Keys, KeyRelease(k) PROVE LockInv'  BY <1>9 DEF KeyRelease, XkbUp
<1>10. ASSUME NEW d \in Buttons, WheelPress(d) PROVE LockInv'  BY <1>10 DEF WheelPress
<1>11. ASSUME NEW d \in Buttons, WheelRelease(d) PROVE LockInv'
  BY <1>11 DEF WheelRelease
<1>12. ASSUME NEW d \in Buttons, ButtonPress(d) PROVE LockInv'
  <2>1. MaskOf(d) \intersect LockKeys = {}  BY ButtonType DEF ButtonMasks, LockKeys
  <2> QED  BY <1>12, <2>1 DEF ButtonPress
<1>13. ASSUME NEW d \in Buttons, NEW consumed \in BOOLEAN, ButtonRelease(d, consumed)
      PROVE  LockInv'
  <2>1. MaskOf(d) \intersect LockKeys = {}  BY ButtonType DEF ButtonMasks, LockKeys
  <2> QED  BY <1>13, <2>1 DEF ButtonRelease
<1>14. CASE MotionNotify  BY <1>14 DEF MotionNotify
<1>15. CASE UNCHANGED vars  BY <1>15 DEF vars
<1> QED  BY <1>1, <1>2, <1>3, <1>4, <1>5, <1>6, <1>7, <1>8,
         <1>9, <1>10, <1>11, <1>12, <1>13, <1>14, <1>15
     DEF Next, Start, Unrecorded, Recorded

(* A press sets the bits of its button, a release clears only those.       *)
LEMMA BitsStep == TypeOK /\ BitsInv /\ [Next]_vars => BitsInv'
<1> SUFFICES ASSUME TypeOK, BitsInv, [Next]_vars PROVE BitsInv'  OBVIOUS
<1> USE DEF BitsInv, TypeOK, serverVars, startVars, mouseVars, historyVars
<1>1. CASE QueryKeymap  BY <1>1 DEF QueryKeymap
<1>2. CASE QueryPointer
  <2>1. ASSUME held = {} PROVE mask' \intersect ButtonMasks = {}
    BY <1>2, <2>1 DEF QueryPointer, QueriedKeys, WithLocks, XkbStates, ModifierKeys, LockKeys,
       ButtonMasks
  <2> QED  BY <1>2, <2>1 DEF QueryPointer
<1>3. CASE QueryPointerFails
  <2>1. mask' \intersect ButtonMasks = {}
    BY <1>3 DEF QueryPointerFails, WithLocks, XkbStates, ModifierKeys, LockKeys, ButtonMasks
  <2> QED  BY <2>1
<1>4. CASE StartRecording  BY <1>4 DEF StartRecording
<1>5. ASSUME NEW k \in Keys, UnrecordedKey(k) PROVE BitsInv'  BY <1>5 DEF UnrecordedKey
<1>6. ASSUME NEW d \in Buttons, UnrecordedButton(d) PROVE BitsInv'
  BY <1>6 DEF UnrecordedButton
<1>7. CASE Tick  BY <1>7 DEF Tick
<1>8. ASSUME NEW k \in Keys, NEW consumed \in BOOLEAN, KeyPress(k, consumed)
      PROVE  BitsInv'
  <2>1. mask' \intersect ButtonMasks = mask \intersect ButtonMasks
    BY <1>8, XkbType DEF KeyPress, WithLocks, ModifierBit, XkbStates, ModifierKeys, LockKeys,
       ButtonMasks
  <2> QED  BY <1>8, <2>1 DEF KeyPress
<1>9. ASSUME NEW k \in Keys, KeyRelease(k) PROVE BitsInv'
  <2>1. mask' \intersect ButtonMasks = mask \intersect ButtonMasks
    BY <1>9, XkbType DEF KeyRelease, WithLocks, ModifierBit, XkbStates, ModifierKeys, LockKeys,
       ButtonMasks
  <2> QED  BY <1>9, <2>1 DEF KeyRelease
<1>10. ASSUME NEW d \in Buttons, WheelPress(d) PROVE BitsInv'  BY <1>10 DEF WheelPress
<1>11. ASSUME NEW d \in Buttons, WheelRelease(d) PROVE BitsInv'
  BY <1>11 DEF WheelRelease
<1>12. ASSUME NEW d \in Buttons, ButtonPress(d) PROVE BitsInv'  BY <1>12 DEF ButtonPress
<1>13. ASSUME NEW d \in Buttons, NEW consumed \in BOOLEAN, ButtonRelease(d, consumed)
      PROVE  BitsInv'
  BY <1>13 DEF ButtonRelease
<1>14. CASE MotionNotify  BY <1>14 DEF MotionNotify
<1>15. CASE UNCHANGED vars  BY <1>15 DEF vars
<1> QED  BY <1>1, <1>2, <1>3, <1>4, <1>5, <1>6, <1>7, <1>8,
         <1>9, <1>10, <1>11, <1>12, <1>13, <1>14, <1>15
     DEF Next, Start, Unrecorded, Recorded

(* With distinct masks a release leaves the bits of the other buttons.     *)
LEMMA DragStep == TypeOK /\ StartInv /\ DistinctMasks /\ DragInv /\ [Next]_vars => DragInv'
<1> SUFFICES ASSUME TypeOK, StartInv, DistinctMasks, DragInv, [Next]_vars PROVE DragInv'  OBVIOUS
<1> USE DEF DragInv, StartInv, TypeOK, serverVars, startVars, mouseVars, historyVars
<1>1. CASE QueryKeymap  BY <1>1 DEF QueryKeymap
<1>2. CASE QueryPointer  BY <1>2 DEF QueryPointer
<1>3. CASE QueryPointerFails  BY <1>3 DEF QueryPointerFails
<1>4. CASE StartRecording  BY <1>4 DEF StartRecording
<1>5. ASSUME NEW k \in Keys, UnrecordedKey(k) PROVE DragInv'  BY <1>5 DEF UnrecordedKey
<1>6. ASSUME NEW d \in Buttons, UnrecordedButton(d) PROVE DragInv'
  BY <1>6 DEF UnrecordedButton
<1>7. CASE Tick  BY <1>7 DEF Tick
<1>8. ASSUME NEW k \in Keys, NEW consumed \in BOOLEAN, KeyPress(k, consumed)
      PROVE  DragInv'
  <2>1. \A e \in pressed : MaskOf(e) \subseteq mask'
    BY <1>8, ButtonType DEF KeyPress, WithLocks, ButtonMasks, LockKeys
  <2> QED  BY <1>8, <2>1 DEF KeyPress
<1>9. ASSUME NEW k \in Keys, KeyRelease(k) PROVE DragInv'
  <2>1. \A e \in pressed : MaskOf(e) \subseteq mask'
    BY <1>9, ButtonType DEF KeyRelease, WithLocks, ModifierBit, ButtonMasks, LockKeys, ModifierKeys
  <2> QED  BY <1>9, <2>1 DEF KeyRelease
<1>10. ASSUME NEW d \in Buttons, WheelPress(d) PROVE DragInv'  BY <1>10 DEF WheelPress
<1>11. ASSUME NEW d \in Buttons, WheelRelease(d) PROVE DragInv'
  BY <1>11 DEF WheelRelease
<1>12. ASSUME NEW d \in Buttons, ButtonPress(d) PROVE DragInv'  BY <1>12 DEF ButtonPress
<1>13. ASSUME NEW d \in Buttons, NEW consumed \in BOOLEAN, ButtonRelease(d, consumed)
      PROVE  DragInv'
  BY <1>13 DEF ButtonRelease, DistinctMasks
<1>14. CASE MotionNotify
  <2>1. ASSUME NEW d \in pressed, VirtualButton(d) # 0 PROVE is_dragged'
    BY <1>14, <2>1, ButtonType DEF MotionNotify, Dragged
  <2> QED  BY <1>14, <2>1 DEF MotionNotify
<1>15. CASE UNCHANGED vars  BY <1>15 DEF vars
<1> QED  BY <1>1, <1>2, <1>3, <1>4, <1>5, <1>6, <1>7, <1>8,
         <1>9, <1>10, <1>11, <1>12, <1>13, <1>14, <1>15
     DEF Next, Start, Unrecorded, Recorded

(* Every step keeps the types; the click count stays within USHRT_MAX.     *)
LEMMA TypeStep == TypeOK /\ [Next]_vars => TypeOK'
<1> SUFFICES ASSUME TypeOK, [Next]_vars PROVE TypeOK'  OBVIOUS
<1> USE DEF TypeOK, serverVars, startVars, mouseVars, historyVars
<1>1. CASE QueryKeymap  BY <1>1 DEF QueryKeymap
<1>2. CASE QueryPointer
  <2>1. {ButtonMask(d) : d \in held \intersect 1..5} \subseteq Masks
    BY ButtonMaskType DEF Masks
  <2>2. QueriedKeys(keys) \subseteq Masks  BY DEF QueriedKeys, Masks
  <2>3. mask' \subseteq Masks  BY <1>2, <2>1, <2>2, WithLocksType DEF QueryPointer
  <2> QED  BY <1>2, <2>3 DEF QueryPointer
<1>3. CASE QueryPointerFails
  <2>1. mask' \subseteq Masks  BY <1>3, WithLocksType DEF QueryPointerFails, Masks
  <2> QED  BY <1>3, <2>1 DEF QueryPointerFails
<1>4. CASE StartRecording  BY <1>4 DEF StartRecording
<1>5. ASSUME NEW k \in Keys, UnrecordedKey(k) PROVE TypeOK'
  BY <1>5, XkbType DEF UnrecordedKey
<1>6. ASSUME NEW d \in Buttons, UnrecordedButton(d) PROVE TypeOK'
  BY <1>6 DEF UnrecordedButton
<1>7. CASE Tick  BY <1>7 DEF Tick
<1>8. ASSUME NEW k \in Keys, NEW consumed \in BOOLEAN, KeyPress(k, consumed)
      PROVE  TypeOK'
  <2> DEFINE st == XkbDown(state, k)
             m == WithLocks(mask \union ModifierBit(k), st)
             chars == KeycodeToUnicode(k)
             typed == [i \in DOMAIN chars |-> Key("KEY_TYPED", m, "UNDEFINED", chars[i])]
  <2>1. st \in XkbStates /\ XkbDown(server, k) \in XkbStates  BY XkbType
  <2>2. m \subseteq Masks  BY <2>1, WithLocksType DEF ModifierBit, Masks
  <2>3. <<Key("KEY_PRESSED", m, k, "UNDEFINED")>> \in Seq(AllEvents)
    <3>1. Key("KEY_PRESSED", m, k, "UNDEFINED") \in AllEvents
      BY <2>2, KeyType DEF AllEvents
    <3> QED  BY <3>1
  <2>4. typed \in Seq(AllEvents)
    <3>1. typed \in Seq(KeyEvents)  BY <2>2, TypedEvents
    <3> QED  BY <3>1 DEF AllEvents
  <2>5. out' = <<Key("KEY_PRESSED", m, k, "UNDEFINED")>> \o IF consumed THEN <<>> ELSE typed
    BY <1>8 DEF KeyPress
  <2>6. out' \in Seq(AllEvents)
    <3> HIDE DEF m, typed
    <3>1. (IF consumed THEN <<>> ELSE typed) \in Seq(AllEvents)  BY <2>4
    <3> QED  BY <2>3, <2>5, <3>1
  <2>7. state' \in XkbStates /\ server' \in XkbStates /\ mask' \subseteq Masks
    BY <1>8, <2>1, <2>2 DEF KeyPress
  <2>8. keys' \subseteq Keys /\ stale' \subseteq Keys  BY <1>8 DEF KeyPress
  <2>9. UNCHANGED <<startVars, held, now, mouseVars, pressed, moved, presses, initHeld>>
    BY <1>8 DEF KeyPress
  <2> QED  BY <2>6, <2>7, <2>8, <2>9 DEF AllEvents
<1>9. ASSUME NEW k \in Keys, KeyRelease(k) PROVE TypeOK'
  <2> DEFINE m == WithLocks(mask \ ModifierBit(k), XkbUp(state, k))
  <2>1. XkbUp(state, k) \in XkbStates /\ XkbUp(server, k) \in XkbStates  BY XkbType
  <2>2. m \subseteq Masks  BY <2>1, WithLocksType
  <2>3. Key("KEY_RELEASED", m, k, "UNDEFINED") \in AllEvents
    BY <2>2, KeyType DEF AllEvents
  <2>4. out' \in Seq(AllEvents)
    <3>1. out' = <<Key("KEY_RELEASED", m, k, "UNDEFINED")>>  BY <1>9 DEF KeyRelease
    <3> QED  BY <2>3, <3>1
  <2>5. state' \in XkbStates /\ server' \in XkbStates /\ mask' \subseteq Masks
    BY <1>9, <2>1, <2>2 DEF KeyRelease
  <2> QED  BY <1>9, <2>4, <2>5 DEF KeyRelease, AllEvents
<1>10. ASSUME NEW d \in Buttons, WheelPress(d) PROVE TypeOK'
  <2> DEFINE e == [type |-> "MOUSE_WHEEL", mask |-> mask, clicks |-> 1,
                   rotation |-> IF d \in {WheelUp, WheelLeft} THEN -1 ELSE 1,
                   direction |-> IF d \in {WheelUp, WheelDown} THEN "VERTICAL"
                                 ELSE "HORIZONTAL"]
  <2>1. e \in AllEvents  BY DEF AllEvents, WheelEvents
  <2>2. out' \in Seq(AllEvents)
    <3>1. out' = <<e>>  BY <1>10 DEF WheelPress
    <3> QED  BY <2>1, <3>1
  <2>3. count' \in 0..ClickMax /\ button' \in MouseButton
    BY <1>10, ClickAssumption DEF WheelPress, MouseButton
  <2>4. presses' \in Seq([button : Buttons, time : Nat])  BY <1>10 DEF WheelPress
  <2> QED  BY <1>10, <2>2, <2>3, <2>4 DEF WheelPress, AllEvents
<1>11. ASSUME NEW d \in Buttons, WheelRelease(d) PROVE TypeOK'
  <2>1. out' \in Seq(AllEvents)  BY <1>11 DEF WheelRelease
  <2> QED  BY <1>11, <2>1 DEF WheelRelease, AllEvents
<1>12. ASSUME NEW d \in Buttons, ButtonPress(d) PROVE TypeOK'
  <2> DEFINE b == VirtualButton(d)
             m == mask \union MaskOf(d)
  <2>1. m \subseteq Masks /\ b \in MouseButton  BY ButtonType DEF Masks
  <2>2. count' \in 0..ClickMax  BY <1>12, CountType DEF ButtonPress
  <2>3. out' \in Seq(AllEvents)
    <3>1. Mouse("MOUSE_PRESSED", m, b, count') \in AllEvents
      BY <2>1, <2>2, MouseType DEF AllEvents
    <3>2. out' = <<Mouse("MOUSE_PRESSED", m, b, count')>>  BY <1>12 DEF ButtonPress
    <3> QED  BY <3>1, <3>2
  <2>4. time' \in Nat  BY <1>12, TimeAssumption DEF ButtonPress, Timestamp
  <2>5. presses' \in Seq([button : Buttons, time : Nat])  BY <1>12 DEF ButtonPress
  <2>6. mask' \subseteq Masks /\ button' \in MouseButton  BY <1>12, <2>1 DEF ButtonPress
  <2>7. UNCHANGED <<startVars, keys, server, now, state, is_dragged, stale, initHeld>>
    BY <1>12 DEF ButtonPress
  <2>8. held' \subseteq Buttons /\ pressed' \subseteq Buttons /\ moved' \subseteq Buttons
    BY <1>12 DEF ButtonPress
  <2> QED  BY <2>2, <2>3, <2>4, <2>5, <2>6, <2>7, <2>8 DEF AllEvents
<1>13. ASSUME NEW d \in Buttons, NEW consumed \in BOOLEAN, ButtonRelease(d, consumed)
      PROVE  TypeOK'
  <2> DEFINE b == VirtualButton(d)
             m == mask \ MaskOf(d)
             clicked == IF IsClick(consumed) THEN <<Mouse("MOUSE_CLICKED", m, b, count)>> ELSE <<>>
  <2>1. m \subseteq Masks /\ b \in MouseButton  BY ButtonType
  <2>2. out' \in Seq(AllEvents)
    <3>1. /\ Mouse("MOUSE_RELEASED", m, b, count) \in AllEvents
          /\ Mouse("MOUSE_CLICKED", m, b, count) \in AllEvents
      BY <2>1, MouseType DEF AllEvents
    <3>2. <<Mouse("MOUSE_RELEASED", m, b, count)>> \in Seq(AllEvents)  BY <3>1
    <3>3. clicked \in Seq(AllEvents)  BY <3>1
    <3>4. out' = <<Mouse("MOUSE_RELEASED", m, b, count)>> \o clicked  BY <1>13 DEF ButtonRelease
    <3> HIDE DEF clicked
    <3> QED  BY <3>2, <3>3, <3>4
  <2>3. count' \in 0..ClickMax  BY <1>13, ClickAssumption DEF ButtonRelease
  <2>4. mask' \subseteq Masks  BY <1>13, <2>1 DEF ButtonRelease
  <2> QED  BY <1>13, <2>2, <2>3, <2>4 DEF ButtonRelease, AllEvents
<1>14. CASE MotionNotify
  <2> DEFINE type == IF is_dragged' THEN "MOUSE_DRAGGED" ELSE "MOUSE_MOVED"
  <2>1. count' \in 0..ClickMax  BY <1>14, ClickAssumption DEF MotionNotify
  <2>2. Mouse(type, mask, 0, count') \in AllEvents
    <3>1. type \in {"MOUSE_MOVED", "MOUSE_DRAGGED"} /\ 0 \in MouseButton  BY DEF MouseButton
    <3> HIDE DEF type
    <3> QED  BY <2>1, <3>1, MouseType DEF AllEvents
  <2>3. out' \in Seq(AllEvents)
    <3>1. out' = <<Mouse(type, mask, 0, count')>>  BY <1>14 DEF MotionNotify
    <3> QED  BY <2>2, <3>1
  <2>4. is_dragged' \in BOOLEAN  BY <1>14 DEF MotionNotify, Dragged
  <2> QED  BY <1>14, <2>1, <2>3, <2>4 DEF MotionNotify, AllEvents
<1>15. CASE UNCHANGED vars  BY <1>15 DEF vars
<1> QED  BY <1>1, <1>2, <1>3, <1>4, <1>5, <1>6, <1>7, <1>8,
         <1>9, <1>10, <1>11, <1>12, <1>13, <1>14, <1>15
     DEF Next, Start, Unrecorded, Recorded

(* Every handler dispatches with the mask it leaves behind.                *)
LEMMA MaskStep == TypeOK /\ StartInv /\ EventsCarryMask /\ [Next]_vars => EventsCarryMask'
<1> SUFFICES ASSUME TypeOK, StartInv, EventsCarryMask, [Next]_vars PROVE EventsCarryMask'  OBVIOUS
<1> USE DEF EventsCarryMask, Dispatched, StartInv, TypeOK,
        serverVars, startVars, mouseVars, historyVars
<1>1. CASE QueryKeymap  BY <1>1 DEF QueryKeymap
<1>2. CASE QueryPointer  BY <1>2 DEF QueryPointer
<1>3. CASE QueryPointerFails  BY <1>3 DEF QueryPointerFails
<1>4. CASE StartRecording  BY <1>4 DEF StartRecording
<1>5. ASSUME NEW k \in Keys, UnrecordedKey(k) PROVE EventsCarryMask'
  BY <1>5 DEF UnrecordedKey
<1>6. ASSUME NEW d \in Buttons, UnrecordedButton(d) PROVE EventsCarryMask'
  BY <1>6 DEF UnrecordedButton
<1>7. CASE Tick  BY <1>7 DEF Tick
<1>8. ASSUME NEW k \in Keys, NEW consumed \in BOOLEAN, KeyPress(k, consumed)
      PROVE  EventsCarryMask'
  <2> DEFINE m == WithLocks(mask \union ModifierBit(k), XkbDown(state, k))
             chars == KeycodeToUnicode(k)
             typed == [i \in DOMAIN chars |-> Key("KEY_TYPED", m, "UNDEFINED", chars[i])]
             first == <<Key("KEY_PRESSED", m, k, "UNDEFINED")>>
             rest == IF consumed THEN <<>> ELSE typed
  <2>1. XkbDown(state, k) \in XkbStates  BY XkbType
  <2>2. m \subseteq Masks  BY <2>1, WithLocksType DEF ModifierBit, Masks
  <2>3. first \in Seq(KeyEvents) /\ \A i \in DOMAIN first : first[i].mask = m
    <3>1. Key("KEY_PRESSED", m, k, "UNDEFINED") \in KeyEvents  BY <2>2, KeyType
    <3>2. DOMAIN first = {1} /\ first[1].mask = m  BY DEF Key
    <3>3. first \in Seq(KeyEvents)  BY <3>1
    <3> QED  BY <3>2, <3>3
  <2>4. rest \in Seq(KeyEvents) /\ \A i \in DOMAIN rest : rest[i].mask = m
    <3>1. typed \in Seq(KeyEvents) /\ \A i \in DOMAIN typed : typed[i].mask = m
      BY <2>2, TypedEvents
    <3> HIDE DEF typed
    <3>2. CASE consumed
      <4>1. rest = <<>>  BY <3>2
      <4>2. <<>> \in Seq(KeyEvents) /\ DOMAIN <<>> = {}  OBVIOUS
      <4> HIDE DEF rest
      <4> QED  BY <4>1, <4>2
    <3>3. CASE ~consumed
      <4>1. rest = typed  BY <3>3
      <4> QED  BY <3>1, <4>1
    <3> QED  BY <3>2, <3>3
  <2>5. out' = first \o rest /\ mask' = m  BY <1>8 DEF KeyPress
  <2> HIDE DEF first, rest, m
  <2>6. ASSUME NEW i \in DOMAIN out' PROVE out'[i].mask = m
    BY <2>3, <2>4, <2>5, ConcatElements
  <2> QED  BY <2>5, <2>6
<1>9. ASSUME NEW k \in Keys, KeyRelease(k) PROVE EventsCarryMask'
  <2>1. DOMAIN out' = {1} /\ out'[1].mask = mask'  BY <1>9 DEF KeyRelease, Key
  <2> QED  BY <1>9, <2>1 DEF KeyRelease
<1>10. ASSUME NEW d \in Buttons, WheelPress(d) PROVE EventsCarryMask'
  BY <1>10 DEF WheelPress
<1>11. ASSUME NEW d \in Buttons, WheelRelease(d) PROVE EventsCarryMask'
  BY <1>11 DEF WheelRelease
<1>12. ASSUME NEW d \in Buttons, ButtonPress(d) PROVE EventsCarryMask'
  <2>1. DOMAIN out' = {1} /\ out'[1].mask = mask'  BY <1>12 DEF ButtonPress, Mouse
  <2> QED  BY <1>12, <2>1 DEF ButtonPress
<1>13. ASSUME NEW d \in Buttons, NEW consumed \in BOOLEAN, ButtonRelease(d, consumed)
      PROVE  EventsCarryMask'
  <2> DEFINE b == VirtualButton(d)
             m == mask \ MaskOf(d)
  <2>1. mask' = m  BY <1>13 DEF ButtonRelease
  <2>2. CASE ~IsClick(consumed)
    <3>1. out' = <<Mouse("MOUSE_RELEASED", m, b, count)>> \o <<>>
      BY <1>13, <2>2 DEF ButtonRelease
    <3>2. DOMAIN out' = {1} /\ out'[1].mask = m  BY <3>1 DEF Mouse
    <3> QED  BY <2>1, <3>2
  <2>3. CASE IsClick(consumed)
    <3>1. out' = <<Mouse("MOUSE_RELEASED", m, b, count)>> \o
                 <<Mouse("MOUSE_CLICKED", m, b, count)>>
      BY <1>13, <2>3 DEF ButtonRelease
    <3> DEFINE r == Mouse("MOUSE_RELEASED", m, b, count)
               c == Mouse("MOUSE_CLICKED", m, b, count)
    <3>2. r.mask = m /\ c.mask = m  BY DEF Mouse
    <3> HIDE DEF r, c
    <3>3. <<r>> \in Seq({r, c}) /\ <<c>> \in Seq({r, c})  OBVIOUS
    <3>4. ASSUME NEW i \in DOMAIN (<<r>> \o <<c>>) PROVE (<<r>> \o <<c>>)[i] \in {r, c}
      <4>1. \/ \E j \in DOMAIN <<r>> : (<<r>> \o <<c>>)[i] = <<r>>[j]
            \/ \E j \in DOMAIN <<c>> : (<<r>> \o <<c>>)[i] = <<c>>[j]
        BY <3>3, ConcatElements
      <4> QED  BY <4>1
    <3>5. out' = <<r>> \o <<c>>  BY <3>1 DEF r, c
    <3> QED  BY <2>1, <3>2, <3>4, <3>5
  <2> QED  BY <2>2, <2>3
<1>14. CASE MotionNotify
  <2>1. DOMAIN out' = {1} /\ out'[1].mask = mask'  BY <1>14 DEF MotionNotify, Mouse
  <2> QED  BY <1>14, <2>1 DEF MotionNotify
<1>15. CASE UNCHANGED vars  BY <1>15 DEF vars
<1> QED  BY <1>1, <1>2, <1>3, <1>4, <1>5, <1>6, <1>7, <1>8,
         <1>9, <1>10, <1>11, <1>12, <1>13, <1>14, <1>15
     DEF Next, Start, Unrecorded, Recorded

(* A motion event is reported by MotionNotify alone.                       *)
LEMMA StillStep ==
  TypeOK /\ StartInv /\ [Next]_vars => MovedOrStill
<1> SUFFICES ASSUME TypeOK, StartInv, [Next]_vars PROVE MovedOrStill  OBVIOUS
<1> USE DEF MovedOrStill, Still, StartInv, TypeOK,
        serverVars, startVars, mouseVars, historyVars
<1>1. CASE QueryKeymap  BY <1>1 DEF QueryKeymap
<1>2. CASE QueryPointer  BY <1>2 DEF QueryPointer
<1>3. CASE QueryPointerFails  BY <1>3 DEF QueryPointerFails
<1>4. CASE StartRecording  BY <1>4 DEF StartRecording
<1>5. ASSUME NEW k \in Keys, UnrecordedKey(k) PROVE MovedOrStill
  BY <1>5 DEF UnrecordedKey
<1>6. ASSUME NEW d \in Buttons, UnrecordedButton(d) PROVE MovedOrStill
  BY <1>6 DEF UnrecordedButton
<1>7. CASE Tick  BY <1>7 DEF Tick
<1>8. ASSUME NEW k \in Keys, NEW consumed \in BOOLEAN, KeyPress(k, consumed)
      PROVE  MovedOrStill
  <2> DEFINE m == WithLocks(mask \union ModifierBit(k), XkbDown(state, k))
             chars == KeycodeToUnicode(k)
             typed == [i \in DOMAIN chars |-> Key("KEY_TYPED", m, "UNDEFINED", chars[i])]
             first == <<Key("KEY_PRESSED", m, k, "UNDEFINED")>>
             rest == IF consumed THEN <<>> ELSE typed
  <2>1. XkbDown(state, k) \in XkbStates  BY XkbType
  <2>2. m \subseteq Masks  BY <2>1, WithLocksType DEF ModifierBit, Masks
  <2>3. first \in Seq(KeyEvents)
    <3>1. Key("KEY_PRESSED", m, k, "UNDEFINED") \in KeyEvents  BY <2>2, KeyType
    <3> QED  BY <3>1
  <2>4. rest \in Seq(KeyEvents)
    <3>1. typed \in Seq(KeyEvents)  BY <2>2, TypedEvents
    <3> HIDE DEF typed
    <3> QED  BY <3>1
  <2>5. out' = first \o rest  BY <1>8 DEF KeyPress
  <2> HIDE DEF first, rest
  <2>6. out' \in Seq(KeyEvents)  BY <2>3, <2>4, <2>5
  <2>7. \A e \in KeyEvents : e.type \notin {"MOUSE_MOVED", "MOUSE_DRAGGED"}  BY DEF KeyEvents
  <2> QED  BY <2>6, <2>7
<1>9. ASSUME NEW k \in Keys, KeyRelease(k) PROVE MovedOrStill
  <2>1. DOMAIN out' = {1} /\ out'[1].type = "KEY_RELEASED"  BY <1>9 DEF KeyRelease, Key
  <2> QED  BY <2>1
<1>10. ASSUME NEW d \in Buttons, WheelPress(d) PROVE MovedOrStill
  <2>1. DOMAIN out' = {1} /\ out'[1].type = "MOUSE_WHEEL"  BY <1>10 DEF WheelPress
  <2> QED  BY <2>1
<1>11. ASSUME NEW d \in Buttons, WheelRelease(d) PROVE MovedOrStill
  BY <1>11 DEF WheelRelease
<1>12. ASSUME NEW d \in Buttons, ButtonPress(d) PROVE MovedOrStill
  <2>1. DOMAIN out' = {1} /\ out'[1].type = "MOUSE_PRESSED"  BY <1>12 DEF ButtonPress, Mouse
  <2> QED  BY <2>1
<1>13. ASSUME NEW d \in Buttons, NEW consumed \in BOOLEAN, ButtonRelease(d, consumed)
      PROVE  MovedOrStill
  <2> DEFINE r == Mouse("MOUSE_RELEASED", mask \ MaskOf(d), VirtualButton(d), count)
             c == Mouse("MOUSE_CLICKED", mask \ MaskOf(d), VirtualButton(d), count)
             rest == IF IsClick(consumed) THEN <<c>> ELSE <<>>
  <2>1. r.type = "MOUSE_RELEASED" /\ c.type = "MOUSE_CLICKED"  BY DEF Mouse
  <2>2. out' = <<r>> \o rest  BY <1>13 DEF ButtonRelease
  <2> HIDE DEF r, c
  <2>3. <<r>> \in Seq({r, c}) /\ <<c>> \in Seq({r, c}) /\ <<>> \in Seq({r, c})  OBVIOUS
  <2>5. rest \in Seq({r, c})
    <3>1. rest = <<>> \/ rest = <<c>>  OBVIOUS
    <3> HIDE DEF rest
    <3> QED  BY <2>3, <3>1
  <2> HIDE DEF rest
  <2>4. out' \in Seq({r, c})  BY <2>2, <2>3, <2>5
  <2> QED  BY <2>1, <2>4
<1>14. CASE MotionNotify  BY <1>14 DEF MotionNotify
<1>15. CASE UNCHANGED vars  BY <1>15 DEF vars
<1> QED  BY <1>1, <1>2, <1>3, <1>4, <1>5, <1>6, <1>7, <1>8,
         <1>9, <1>10, <1>11, <1>12, <1>13, <1>14, <1>15
     DEF Next, Start, Unrecorded, Recorded
-----------------------------------------------------------------------------
(* All the parts that need no assumption about the buttons.                *)
IInv ==
  /\ TypeOK /\ StartInv /\ ModifierInv /\ LockInv /\ BitsInv
  /\ EventsCarryMask /\ DraggedMeansHeld

(* The invariant holds when hook_run() has made its xkb state.             *)
LEMMA IInvInit == Init => IInv
<1> SUFFICES ASSUME Init PROVE IInv  OBVIOUS
<1>1. TypeOK
  <2>1. server \in XkbStates /\ state \in XkbStates  BY DEF Init, XkbStates
  <2>2. keys \subseteq Keys /\ held \subseteq Buttons  BY DEF Init
  <2>3. 0 \in 0..ClickMax /\ 0 \in MouseButton  BY ClickAssumption DEF MouseButton
  <2>4. out = <<>> /\ presses = <<>>  BY DEF Init
  <2>5. /\ out \in Seq(KeyEvents \union MouseEvents \union WheelEvents)
        /\ presses \in Seq([button : Buttons, time : Nat])
    BY <2>4
  <2>6. stale \subseteq Keys /\ is_dragged \in BOOLEAN  BY <2>2 DEF Init
  <2> QED  BY <2>1, <2>2, <2>3, <2>5, <2>6 DEF Init, TypeOK
<1>2. StartInv /\ ModifierInv /\ BitsInv
  BY DEF Init, StartInv, ModifierInv, ModifiersTracked, BitsInv
<1>3. LockInv
  <2>1. \A k \in LockKeys : k \notin stale => k \notin server.unlock /\ k \notin state.unlock
    BY DEF Init
  <2>2. server.locked = state.locked  BY DEF Init
  <2> QED  BY <2>1, <2>2 DEF Init, LockInv
<1>4. EventsCarryMask /\ DraggedMeansHeld
  BY DEF Init, EventsCarryMask, DraggedMeansHeld, Dispatched
<1> QED  BY <1>1, <1>2, <1>3, <1>4 DEF IInv

(* A drag is reported only with a button in the mask, and it got there by  *)
(* a press that is still held or was there from the start.                 *)
LEMMA DraggedStep ==
  TypeOK /\ StartInv /\ BitsInv /\ DraggedMeansHeld /\ [Next]_vars => DraggedMeansHeld'
<1> SUFFICES ASSUME TypeOK, StartInv, BitsInv, DraggedMeansHeld, [Next]_vars
             PROVE  DraggedMeansHeld'
  OBVIOUS
<1>1. CASE MotionNotify
  <2>1. DOMAIN out' = {1} /\ (out'[1].type = "MOUSE_DRAGGED" => is_dragged')
    BY <1>1 DEF MotionNotify, Mouse
  <2>2. is_dragged' => pressed # {} \/ initHeld # {}
    BY <1>1 DEF MotionNotify, Dragged, BitsInv
  <2>3. UNCHANGED <<pressed, initHeld>>  BY <1>1 DEF MotionNotify
  <2> QED  BY <2>1, <2>2, <2>3 DEF DraggedMeansHeld, Dispatched
<1>2. CASE Still'  BY <1>2 DEF Still, DraggedMeansHeld, Dispatched
<1>3. CASE UNCHANGED <<out, pressed, initHeld>>
  BY <1>3 DEF DraggedMeansHeld, Dispatched
<1> QED  BY <1>1, <1>2, <1>3, StillStep DEF MovedOrStill

(* So the invariant always holds.                                          *)
LEMMA Invariance == Spec => []IInv
<1>1. IInv /\ [Next]_vars => IInv'
  BY TypeStep, StartStep, ModifierStep, LockStep, BitsStep, MaskStep, DraggedStep DEF IInv
<1> QED  BY IInvInit, <1>1, PTL DEF Spec

(* Type correctness of the X11 input state; with it, the click counter     *)
(* does not overflow its 16 bits.                                          *)
THEOREM TypeCorrect == Spec => []TypeOK
<1>1. IInv => TypeOK  BY DEF IInv
<1> QED  BY Invariance, <1>1, PTL

(* The modifier bits follow the keys, for every keyboard and whatever was  *)
(* held when the hook was started.                                         *)
THEOREM ModifiersAreTracked == Spec => []ModifiersTracked
<1>1. IInv => ModifiersTracked  BY DEF IInv, ModifierInv
<1> QED  BY Invariance, <1>1, PTL

(* The lock bits follow the server's locks although the hook never reads   *)
(* them again.                                                             *)
THEOREM LocksAreTracked == Spec => []LocksTracked
<1>1. IInv => LocksTracked
  BY DEF IInv, LockInv, LocksTracked
<1> QED  BY Invariance, <1>1, PTL

(* The mask follows the keyboard.                                          *)
THEOREM MaskIsTracked == Spec => []MaskTracked
BY ModifiersAreTracked, LocksAreTracked, PTL DEF MaskTracked

(* Every event of a handler carries the mask as the handler leaves it.     *)
THEOREM EventsAllCarryMask == Spec => []EventsCarryMask
<1>1. IInv => EventsCarryMask  BY DEF IInv
<1> QED  BY Invariance, <1>1, PTL

(* No drag is reported without a button that is down.                      *)
THEOREM DragsHaveButtons == Spec => []DraggedMeansHeld
<1>1. IInv => DraggedMeansHeld  BY DEF IInv
<1> QED  BY Invariance, <1>1, PTL
-----------------------------------------------------------------------------
(* For pointers without both extra buttons, the converse.                  *)

(* Motion with a button down is reported as a drag.                        *)
LEMMA HeldStep ==
  TypeOK /\ StartInv /\ DragInv /\ HeldMeansDragged /\ [Next]_vars => HeldMeansDragged'
<1> SUFFICES ASSUME TypeOK, StartInv, DragInv, HeldMeansDragged, [Next]_vars
             PROVE  HeldMeansDragged'
  OBVIOUS
<1>1. CASE MotionNotify
  <2>1. DOMAIN out' = {1} /\ (out'[1].type = "MOUSE_MOVED" => ~is_dragged')
    BY <1>1 DEF MotionNotify, Mouse
  <2>2. ASSUME NEW d \in pressed, VirtualButton(d) # 0 PROVE is_dragged'
    BY <1>1, <2>2, ButtonType DEF MotionNotify, Dragged, DragInv, TypeOK
  <2>3. UNCHANGED pressed  BY <1>1 DEF MotionNotify
  <2> QED  BY <2>1, <2>2, <2>3 DEF HeldMeansDragged, Dispatched
<1>2. CASE Still'  BY <1>2 DEF Still, HeldMeansDragged, Dispatched
<1>3. CASE UNCHANGED <<out, pressed, initHeld>>
  BY <1>3 DEF HeldMeansDragged, Dispatched
<1> QED  BY <1>1, <1>2, <1>3, StillStep DEF MovedOrStill

(* The invariant with the drag flag.                                       *)
LEMMA DragInvariance ==
  ASSUME DistinctMasks
  PROVE  Spec => [](IInv /\ DragInv /\ HeldMeansDragged)
<1>1. Init => DragInv /\ HeldMeansDragged
  BY DEF Init, DragInv, HeldMeansDragged, Dispatched
<1>2. IInv /\ DragInv /\ HeldMeansDragged /\ [Next]_vars => (DragInv /\ HeldMeansDragged)'
  BY DragStep, HeldStep DEF IInv
<1> QED  BY Invariance, <1>1, <1>2, PTL DEF Spec

(* Motion with a button down is a drag, if no two buttons share a bit.     *)
THEOREM HeldIsDragged ==
  ASSUME DistinctMasks
  PROVE  Spec => []HeldMeansDragged
BY DragInvariance, PTL

(* Motion is a drag exactly while a button is down, if no two buttons      *)
(* share a bit.                                                            *)
THEOREM DragsAreTracked ==
  ASSUME DistinctMasks
  PROVE  Spec => []DragsTracked
BY DragsHaveButtons, HeldIsDragged, PTL DEF DragsTracked

(* No MOUSE_CLICKED at the end of a drag, if no two buttons share a bit.   *)
THEOREM DragIsNoClick ==
  ASSUME DistinctMasks
  PROVE  Spec => ClickedWithoutDrag
<1> DEFINE Step == \A d \in pressed \ pressed' :
                     VirtualButton(d) # 0 /\ d \in moved =>
                       \A i \in DOMAIN out' : out'[i].type # "MOUSE_CLICKED"
<1>1. IInv /\ DragInv /\ [Next]_vars => [Step]_vars
  <2> SUFFICES ASSUME IInv, DragInv, Next,
                      NEW d \in pressed, d \notin pressed', VirtualButton(d) # 0, d \in moved,
                      NEW i \in DOMAIN out'
               PROVE  out'[i].type # "MOUSE_CLICKED"
    OBVIOUS
  <2>1. PICK e \in Buttons, consumed \in BOOLEAN : ButtonRelease(e, consumed)
    BY DEF Next, Start, Unrecorded, Recorded, QueryKeymap, QueryPointer, QueryPointerFails,
       StartRecording, UnrecordedKey, UnrecordedButton, Tick, KeyPress, KeyRelease,
       WheelPress, WheelRelease, ButtonPress, MotionNotify, historyVars
  <2>2. is_dragged  BY DEF DragInv
  <2>3. out' = <<Mouse("MOUSE_RELEASED", mask \ MaskOf(e), VirtualButton(e), count)>> \o <<>>
    BY <2>1, <2>2 DEF ButtonRelease, IsClick
  <2>4. DOMAIN out' = {1} /\ out'[1].type = "MOUSE_RELEASED"  BY <2>3 DEF Mouse
  <2> QED  BY <2>4
<1> QED  BY DragInvariance, <1>1, PTL DEF Spec, ClickedWithoutDrag

-----------------------------------------------------------------------------
(* The click counter.                                                      *)

(* Every button that is no wheel has a number, and no two have the same:   *)
(* false of a pointer with more buttons than uiohook has numbers for.      *)
DistinctButtons ==
  \A d, e \in Buttons :
    ~IsWheel(d) /\ ~IsWheel(e) =>
      VirtualButton(d) # 0 /\ (VirtualButton(d) = VirtualButton(e) => d = e)

(* The server's clock does not wrap, as it does every 49.7 days: the       *)
(* handler subtracts time stamps as 64-bit numbers, and over a wrap any    *)
(* press would seem to follow at once.                                     *)
ClockFits == MaxTime < TimeWrap

(* Press i follows the one before it on the same button and in time.       *)
Follows(s, i) == s[i].button = s[i - 1].button /\ s[i].time - s[i - 1].time <= MultiClick

(* The row of presses that ends the sequence begins with press j.          *)
RowStarts(s, j) ==
  /\ j \in 1..Len(s)
  /\ \A i \in j + 1 .. Len(s) : Follows(s, i)
  /\ j > 1 => ~Follows(s, j)

Capped(n) == IF n < ClickMax THEN n ELSE ClickMax

(* Where the row that ends a sequence of presses begins: RunLength counts  *)
(* the presses from there on.                                              *)
RowStart(s) ==
  LET n == Len(s)
      IsRun(j) == \A i \in j + 1 .. n :
                    /\ s[i].button = s[i - 1].button
                    /\ s[i].time - s[i - 1].time <= MultiClick
  IN CHOOSE j \in 1..n : IsRun(j) /\ \A i \in 1..n : IsRun(i) => j <= i

(* A row that cannot be extended backwards is the longest run.             *)
LEMMA RowIsRun ==
  ASSUME NEW s \in Seq([button : Buttons, time : Nat]), NEW j, RowStarts(s, j)
  PROVE  RowStart(s) = j
<1> DEFINE n == Len(s)
           IsRun(k) == \A i \in k + 1 .. n :
                         /\ s[i].button = s[i - 1].button
                         /\ s[i].time - s[i - 1].time <= MultiClick
           First(k) == IsRun(k) /\ \A i \in 1..n : IsRun(i) => k <= i
<1>1. n \in Nat /\ j \in 1..n  BY DEF RowStarts
<1>2. \A k \in 1..n : IsRun(k) <=> \A i \in k + 1 .. n : Follows(s, i)  BY DEF Follows
<1> HIDE DEF IsRun, n
<1>3. \A k \in 1..n : IsRun(k) => j <= k
  <2> SUFFICES ASSUME NEW k \in 1..n, IsRun(k), k < j PROVE FALSE  BY <1>1
  <2>1. j \in k + 1 .. n /\ j > 1  BY <1>1
  <2>2. Follows(s, j)  BY <1>2, <2>1
  <2> QED  BY <2>1, <2>2 DEF RowStarts
<1>4. IsRun(j)  BY <1>1, <1>2 DEF RowStarts, n
<1>5. First(j)  BY <1>3, <1>4
<1>6. \A k \in 1..n : First(k) => k = j  BY <1>1, <1>3, <1>4
<1> HIDE DEF First
<1>7. (CHOOSE k \in 1..n : First(k)) = j  BY <1>1, <1>5, <1>6
<1> QED  BY <1>7 DEF RowStart, First, IsRun, n

(* What is in a sequence of presses is a press.                            *)
LEMMA ElementOfPresses ==
  ASSUME NEW S, NEW s \in Seq(S), NEW i \in 1..Len(s) PROVE s[i] \in S
OBVIOUS

(* The counter is about the last press since the wheel was turned: it has  *)
(* the length of the row that this press ends, or was reset by a motion or *)
(* a release after the multi-click time.                                   *)
CountInv ==
  LET n == Len(presses) IN
  /\ now <= MaxTime
  /\ n = 0 => button = 0
  /\ n > 0 =>
       /\ ~IsWheel(presses[n].button)
       /\ button = VirtualButton(presses[n].button)
       /\ time = presses[n].time /\ time <= now
       /\ \E j \in 1..n :
            /\ RowStarts(presses, j)
            /\ \/ count = Capped(n + 1 - j)
               \/ count = 0 /\ now - time > MultiClick

(* As long as the clock has not wrapped, the handler's difference is the   *)
(* real one.                                                               *)
LEMMA ElapsedIsReal ==
  ASSUME ClockFits, TypeOK, now <= MaxTime
  PROVE  Timestamp = now /\ Elapsed = now - time
<1>1. now \in Nat /\ TimeWrap \in Nat /\ MaxTime \in Nat /\ now < TimeWrap
  BY TimeAssumption DEF TypeOK, ClockFits
<1>2. now % TimeWrap = now  BY <1>1
<1> QED  BY <1>2 DEF Timestamp, Elapsed

(* A step that is no press and no wheel keeps the counter or resets it     *)
(* after the multi-click time.                                             *)
LEMMA CountKept ==
  ASSUME ClockFits, TypeOK, CountInv,
         UNCHANGED <<presses, button, time>>,
         UNCHANGED now \/ (now < MaxTime /\ now' = now + 1),
         UNCHANGED count \/ (count' = 0 /\ Elapsed > MultiClick)
  PROVE  CountInv'
<1> DEFINE n == Len(presses)
<1>1. n \in Nat /\ now \in Nat /\ time \in Nat /\ MaxTime \in Nat /\ MultiClick \in Nat
  BY TimeAssumption, ClickAssumption DEF TypeOK
<1>2. now' \in Nat /\ now <= now' /\ now' <= MaxTime
  BY <1>1 DEF CountInv
<1>3. CASE n = 0
  BY <1>2, <1>3 DEF CountInv
<1>4. CASE n > 0
  <2>1. Elapsed = now - time  BY ElapsedIsReal DEF CountInv
  <2>2. PICK j \in 1..n :
          /\ RowStarts(presses, j)
          /\ \/ count = Capped(n + 1 - j)
             \/ count = 0 /\ now - time > MultiClick
    BY <1>4 DEF CountInv
  <2>3. \/ count' = Capped(n + 1 - j)
        \/ count' = 0 /\ now' - time > MultiClick
    <3>1. now - time > MultiClick => now' - time > MultiClick
      <4>1. \A a, b, t, m \in Nat : a <= b /\ a - t > m => b - t > m  OBVIOUS
      <4> QED  BY <1>1, <1>2, <4>1
    <3>2. CASE UNCHANGED count  BY <2>2, <3>1, <3>2
    <3>3. CASE count' = 0 /\ Elapsed > MultiClick  BY <2>1, <3>1, <3>3
    <3> QED  BY <3>2, <3>3
  <2>4. \E i \in 1..n :
          /\ RowStarts(presses, i)
          /\ \/ count' = Capped(n + 1 - i)
             \/ count' = 0 /\ now' - time > MultiClick
    BY <2>2, <2>3
  <2>5. /\ ~IsWheel(presses[n].button)
        /\ button = VirtualButton(presses[n].button)
        /\ time = presses[n].time /\ time <= now'
    BY <1>1, <1>2, <1>4 DEF CountInv
  <2>6. presses' = presses /\ button' = button /\ time' = time  OBVIOUS
  <2> HIDE DEF n
  <2>7. Len(presses') = n  BY <2>6 DEF n
  <2> QED  BY <1>1, <1>2, <1>4, <2>4, <2>5, <2>6, <2>7 DEF CountInv
<1> QED  BY <1>1, <1>3, <1>4

(* A press lengthens the row of the presses before it or starts another.   *)
LEMMA PressCounted ==
  ASSUME DistinctButtons, ClockFits, TypeOK, CountInv, NEW d \in Buttons, ButtonPress(d)
  PROVE  CountInv' /\ count' = Capped(RunLength')
<1> DEFINE n == Len(presses)
           b == VirtualButton(d)
           new == [button |-> d, time |-> now]
<1>1. n \in Nat /\ now \in Nat /\ MultiClick \in Nat /\ ClickMax \in Nat /\ ClickMax > 0
  BY ClickAssumption DEF TypeOK
<1>2. /\ presses' = Append(presses, new) /\ Len(presses') = n + 1
      /\ presses'[n + 1] = new
      /\ \A i \in 1..n : presses'[i] = presses[i]
  BY DEF ButtonPress, TypeOK
<1>3. presses' \in Seq([button : Buttons, time : Nat])
  BY <1>1, <1>2 DEF TypeOK
<1>e. Timestamp = now /\ Elapsed = now - time  BY ElapsedIsReal DEF CountInv
<1>4. /\ button' = b /\ time' = now /\ UNCHANGED now
      /\ count' = CountPress(b)
  BY <1>e DEF ButtonPress
<1>w. ~IsWheel(d) /\ b # 0  BY DEF ButtonPress, DistinctButtons
<1> HIDE DEF n, b
<1>5. \A i \in 2..n : Follows(presses', i) <=> Follows(presses, i)
  <2> SUFFICES ASSUME NEW i \in 2..n PROVE Follows(presses', i) <=> Follows(presses, i)
    OBVIOUS
  <2>1. i \in 1..n /\ i - 1 \in 1..n  BY <1>1
  <2> QED  BY <1>2, <2>1 DEF Follows
<1>6. \E j \in 1..(n + 1) : RowStarts(presses', j) /\ count' = Capped(n + 2 - j)
  <2>1. CASE n = 0
    <3>1. RowStarts(presses', 1)  BY <1>2, <2>1 DEF RowStarts
    <3>2. button = 0  BY <2>1 DEF CountInv, n
    <3>3. count' = 1  BY <1>4, <1>w, <3>2 DEF CountPress
    <3>4. Capped(n + 2 - 1) = 1  BY <1>1, <2>1 DEF Capped
    <3>5. 1 \in 1..(n + 1)  BY <1>1
    <3> QED  BY <3>1, <3>3, <3>4, <3>5
  <2>2. CASE n > 0
    <3> DEFINE last == presses[n]
    <3>1. last \in [button : Buttons, time : Nat]
      <4>1. n \in 1..Len(presses)  BY <1>1, <2>2 DEF n
      <4> QED  BY <4>1, ElementOfPresses DEF TypeOK
    <3>2. ~IsWheel(last.button) /\ button = VirtualButton(last.button) /\ time = last.time
      BY <2>2 DEF CountInv, n
    <3>4. PICK j \in 1..n :
            /\ RowStarts(presses, j)
            /\ \/ count = Capped(n + 1 - j)
               \/ count = 0 /\ now - time > MultiClick
      BY <2>2 DEF CountInv, n
    <3>5. Follows(presses', n + 1) <=> d = last.button /\ now - last.time <= MultiClick
      <4>1. n \in 1..n /\ n + 1 - 1 = n  BY <1>1, <2>2
      <4> QED  BY <1>2, <4>1 DEF Follows
    <3>6. b = button <=> d = last.button
      BY <1>w, <3>1, <3>2 DEF DistinctButtons, b
    <3> HIDE DEF last
    <3>7. CASE Follows(presses', n + 1)
      <4>1. count = Capped(n + 1 - j)
        BY <1>1, <3>1, <3>2, <3>4, <3>5, <3>7
      <4>2. count' = IF count < ClickMax THEN count + 1 ELSE count
        BY <1>4, <1>e, <3>2, <3>5, <3>6, <3>7 DEF CountPress
      <4>3. count' = Capped(n + 2 - j)
        BY <1>1, <4>1, <4>2 DEF Capped
      <4>4. RowStarts(presses', j)
        <5>1. j \in 1..(n + 1)  BY <1>1
        <5>2. \A i \in j + 1 .. n + 1 : Follows(presses', i)
          <6> SUFFICES ASSUME NEW i \in j + 1 .. n, i # n + 1 PROVE Follows(presses', i)
            BY <1>1, <3>7
          <6>1. i \in 2..n  BY <1>1
          <6>2. Follows(presses, i)  BY <3>4 DEF RowStarts, n
          <6> QED  BY <1>5, <6>1, <6>2
        <5>3. j > 1 => ~Follows(presses', j)
          BY <1>1, <1>5, <3>4 DEF RowStarts
        <5> QED  BY <1>2, <5>1, <5>2, <5>3 DEF RowStarts
      <4>5. j \in 1..(n + 1)  BY <1>1
      <4> QED  BY <4>3, <4>4, <4>5
    <3>8. CASE ~Follows(presses', n + 1)
      <4>1. count' = 1
        BY <1>1, <1>4, <1>e, <3>1, <3>2, <3>5, <3>6, <3>8 DEF CountPress
      <4>2. RowStarts(presses', n + 1)
        BY <1>1, <1>2, <3>8 DEF RowStarts
      <4>3. Capped(n + 2 - (n + 1)) = 1  BY <1>1 DEF Capped
      <4>4. n + 1 \in 1..(n + 1)  BY <1>1
      <4> QED  BY <4>1, <4>2, <4>3, <4>4
    <3> QED  BY <3>7, <3>8
  <2> QED  BY <1>1, <2>1, <2>2
<1>7. PICK j \in 1..(n + 1) : RowStarts(presses', j) /\ count' = Capped(n + 2 - j)
  BY <1>6
<1>8. RunLength' = Len(presses') + 1 - j
  <2>1. RowStart(presses') = j  BY <1>3, <1>7, RowIsRun
  <2>2. RunLength' = Len(presses') + 1 - RowStart(presses')  BY DEF RunLength, RowStart
  <2> QED  BY <2>1, <2>2
<1>9. CountInv'
  <2>1. now <= MaxTime  BY DEF CountInv
  <2>2. new.button = d /\ new.time = now  OBVIOUS
  <2>3. n + 1 + 1 - j = n + 2 - j  BY <1>1
  <2> QED  BY <1>1, <1>2, <1>4, <1>7, <1>w, <2>1, <2>2, <2>3 DEF CountInv, b
<1>10. Len(presses') + 1 - j = n + 2 - j  BY <1>1, <1>2
<1> QED  BY <1>7, <1>8, <1>9, <1>10

(* The counter keeps up with the presses.                                  *)
LEMMA CountStep ==
  DistinctButtons /\ ClockFits /\ TypeOK /\ CountInv /\ [Next]_vars => CountInv'
<1> SUFFICES ASSUME DistinctButtons, ClockFits, TypeOK, CountInv, [Next]_vars PROVE CountInv'
  OBVIOUS
<1> USE DEF serverVars, startVars, mouseVars, historyVars
<1>k. ASSUME UNCHANGED <<presses, button, time>>,
             UNCHANGED now \/ (now < MaxTime /\ now' = now + 1),
             UNCHANGED count \/ (count' = 0 /\ Elapsed > MultiClick)
      PROVE  CountInv'
  BY <1>k, CountKept
<1>1. CASE Start
  BY <1>1, <1>k DEF Start, QueryKeymap, QueryPointer, QueryPointerFails, StartRecording
<1>2. CASE Unrecorded
  BY <1>2, <1>k DEF Unrecorded, UnrecordedKey, UnrecordedButton
<1>3. CASE Tick  BY <1>3, <1>k DEF Tick
<1>4. ASSUME NEW k \in Keys, NEW consumed \in BOOLEAN, KeyPress(k, consumed) PROVE CountInv'
  BY <1>4, <1>k DEF KeyPress
<1>5. ASSUME NEW k \in Keys, KeyRelease(k) PROVE CountInv'  BY <1>5, <1>k DEF KeyRelease
<1>6. ASSUME NEW d \in Buttons, WheelPress(d) PROVE CountInv'
  <2>1. Len(presses') = 0 /\ button' = 0 /\ UNCHANGED now  BY <1>6 DEF WheelPress
  <2> QED  BY <2>1 DEF CountInv
<1>7. ASSUME NEW d \in Buttons, WheelRelease(d) PROVE CountInv'
  BY <1>7, <1>k DEF WheelRelease
<1>8. ASSUME NEW d \in Buttons, ButtonPress(d) PROVE CountInv'  BY <1>8, PressCounted
<1>9. ASSUME NEW d \in Buttons, NEW consumed \in BOOLEAN, ButtonRelease(d, consumed)
      PROVE  CountInv'
  BY <1>9, <1>k DEF ButtonRelease
<1>10. CASE MotionNotify  BY <1>10, <1>k DEF MotionNotify
<1>11. CASE UNCHANGED vars  BY <1>11, <1>k DEF vars
<1> QED  BY <1>1, <1>2, <1>3, <1>4, <1>5, <1>6, <1>7, <1>8, <1>9, <1>10, <1>11
     DEF Next, Recorded

(* A MOUSE_PRESSED is dispatched by ButtonPress alone, or still stands.    *)
NoPress == \A i \in DOMAIN out : out[i].type # "MOUSE_PRESSED"

LEMMA WhoDispatches ==
  TypeOK /\ StartInv /\ [Next]_vars =>
    (\E d \in Buttons : ButtonPress(d)) \/ NoPress' \/ UNCHANGED <<out, presses>>
<1> DEFINE Goal == (\E d \in Buttons : ButtonPress(d)) \/ NoPress' \/ UNCHANGED <<out, presses>>
<1> SUFFICES ASSUME TypeOK, StartInv, [Next]_vars PROVE Goal  OBVIOUS
<1> USE DEF NoPress, serverVars, startVars, mouseVars, historyVars
<1>1. CASE Start
  BY <1>1 DEF Start, QueryKeymap, QueryPointer, QueryPointerFails, StartRecording
<1>2. CASE Unrecorded
  BY <1>2 DEF Unrecorded, UnrecordedKey, UnrecordedButton
<1>3. CASE Tick  BY <1>3 DEF Tick
<1>4. ASSUME NEW k \in Keys, NEW consumed \in BOOLEAN, KeyPress(k, consumed) PROVE Goal
  <2> DEFINE m == WithLocks(mask \union ModifierBit(k), XkbDown(state, k))
             chars == KeycodeToUnicode(k)
             typed == [i \in DOMAIN chars |-> Key("KEY_TYPED", m, "UNDEFINED", chars[i])]
             first == <<Key("KEY_PRESSED", m, k, "UNDEFINED")>>
             rest == IF consumed THEN <<>> ELSE typed
  <2>1. XkbDown(state, k) \in XkbStates  BY XkbType DEF TypeOK
  <2>2. m \subseteq Masks  BY <2>1, WithLocksType DEF ModifierBit, Masks, TypeOK
  <2>3. first \in Seq(KeyEvents)
    <3>1. Key("KEY_PRESSED", m, k, "UNDEFINED") \in KeyEvents  BY <2>2, KeyType
    <3> QED  BY <3>1
  <2>4. rest \in Seq(KeyEvents)
    <3>1. typed \in Seq(KeyEvents)  BY <2>2, TypedEvents
    <3> HIDE DEF typed
    <3> QED  BY <3>1
  <2>5. out' = first \o rest  BY <1>4 DEF KeyPress
  <2> HIDE DEF first, rest
  <2>6. out' \in Seq(KeyEvents)  BY <2>3, <2>4, <2>5
  <2>7. \A e \in KeyEvents : e.type # "MOUSE_PRESSED"  BY DEF KeyEvents
  <2> QED  BY <2>6, <2>7
<1>5. ASSUME NEW k \in Keys, KeyRelease(k) PROVE Goal
  <2>1. DOMAIN out' = {1} /\ out'[1].type = "KEY_RELEASED"  BY <1>5 DEF KeyRelease, Key
  <2> QED  BY <2>1
<1>6. ASSUME NEW d \in Buttons, WheelPress(d) PROVE Goal
  <2>1. DOMAIN out' = {1} /\ out'[1].type = "MOUSE_WHEEL"  BY <1>6 DEF WheelPress
  <2> QED  BY <2>1
<1>7. ASSUME NEW d \in Buttons, WheelRelease(d) PROVE Goal  BY <1>7 DEF WheelRelease
<1>8. ASSUME NEW d \in Buttons, ButtonPress(d) PROVE Goal  BY <1>8
<1>9. ASSUME NEW d \in Buttons, NEW consumed \in BOOLEAN, ButtonRelease(d, consumed) PROVE Goal
  <2> DEFINE r == Mouse("MOUSE_RELEASED", mask \ MaskOf(d), VirtualButton(d), count)
             c == Mouse("MOUSE_CLICKED", mask \ MaskOf(d), VirtualButton(d), count)
             rest == IF IsClick(consumed) THEN <<c>> ELSE <<>>
  <2>1. r.type = "MOUSE_RELEASED" /\ c.type = "MOUSE_CLICKED"  BY DEF Mouse
  <2>2. out' = <<r>> \o rest  BY <1>9 DEF ButtonRelease
  <2> HIDE DEF r, c
  <2>3. <<r>> \in Seq({r, c}) /\ <<c>> \in Seq({r, c}) /\ <<>> \in Seq({r, c})  OBVIOUS
  <2>4. rest \in Seq({r, c})
    <3>1. rest = <<>> \/ rest = <<c>>  OBVIOUS
    <3> HIDE DEF rest
    <3> QED  BY <2>3, <3>1
  <2> HIDE DEF rest
  <2>5. out' \in Seq({r, c})  BY <2>2, <2>3, <2>4
  <2> QED  BY <2>1, <2>5
<1>10. CASE MotionNotify
  <2>1. DOMAIN out' = {1} /\ out'[1].type \in {"MOUSE_MOVED", "MOUSE_DRAGGED"}
    BY <1>10 DEF MotionNotify, Mouse
  <2> QED  BY <2>1
<1>11. CASE UNCHANGED vars  BY <1>11 DEF vars
<1> QED  BY <1>1, <1>2, <1>3, <1>4, <1>5, <1>6, <1>7, <1>8, <1>9, <1>10, <1>11
     DEF Next, Recorded

(* The click count of a press is the number of presses of its button in a  *)
(* row, each within the multi-click time of the one before, up to          *)
(* USHRT_MAX: for buttons that have numbers of their own, until the        *)
(* server's clock wraps, whatever motion, releases and wheels come between.*)
THEOREM ClicksArePresses ==
  ASSUME DistinctButtons, ClockFits
  PROVE  Spec => []ClicksCountPresses
<1> DEFINE Inv == IInv /\ CountInv /\ ClicksCountPresses
<1>1. Init => Inv
  <2> SUFFICES ASSUME Init PROVE Inv  OBVIOUS
  <2>1. CountInv  BY TimeAssumption DEF Init, CountInv
  <2>2. ClicksCountPresses  BY DEF Init, ClicksCountPresses, Dispatched
  <2> QED  BY <2>1, <2>2, IInvInit
<1>2. IInv' /\ Inv /\ [Next]_vars => Inv'
  <2> SUFFICES ASSUME IInv', Inv, [Next]_vars PROVE ClicksCountPresses'
    BY CountStep DEF IInv
  <2>1. CASE NoPress'  BY <2>1 DEF NoPress, ClicksCountPresses, Dispatched
  <2>2. CASE UNCHANGED <<out, presses>>
    <3>1. out' = out /\ presses' = presses  BY <2>2
    <3>2. RunLength' = RunLength  BY <3>1, Zenon DEF RunLength
    <3>3. Dispatched' = Dispatched  BY <3>1 DEF Dispatched
    <3> QED  BY <3>2, <3>3 DEF ClicksCountPresses
  <2>3. ASSUME NEW d \in Buttons, ButtonPress(d) PROVE ClicksCountPresses'
    <3>1. \A e \in Dispatched' : e.clicks = count'
      BY <2>3 DEF ButtonPress, Mouse, Dispatched
    <3>2. count' = Capped(RunLength')  BY <2>3, PressCounted DEF IInv
    <3> QED  BY <3>1, <3>2 DEF ClicksCountPresses, Capped
  <2> QED  BY <2>1, <2>2, <2>3, WhoDispatches DEF IInv
<1>3. Inv => ClicksCountPresses  OBVIOUS
<1> HIDE DEF Inv
<1> QED  BY Invariance, <1>1, <1>2, <1>3, PTL DEF Spec
=============================================================================
