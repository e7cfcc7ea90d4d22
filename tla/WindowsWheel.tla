---------------------------- MODULE WindowsWheel ----------------------------
(***************************************************************************)
(* get_scroll_wheel_rotation() of the Windows input helper.  A wheel may   *)
(* turn by less than a notch; what is left over is kept for the next       *)
(* message, in 16 bits, for each direction.                                *)
(***************************************************************************)
EXTENDS Integers

CONSTANTS
  Deltas,       \* the wheel deltas of a message
  MaxMessages   \* bound on the messages

WHEEL_DELTA == 120

(* No device reports a delta that overflows the accumulator.               *)
ASSUME DeltasAssumption ==
  /\ Deltas \subseteq Int
  /\ \A x \in Deltas : WHEEL_DELTA - 32768 <= x /\ x <= 32767 - WHEEL_DELTA
ASSUME MessagesAssumption == MaxMessages \in Nat

WheelDirections == {"VERTICAL", "HORIZONTAL"}

VARIABLES
  rotation,     \* v_rotation and h_rotation
  turned,       \* history: the sum of the deltas since the helper was loaded
  reported,     \* history: the sum of the rotations reported since
  messages      \* messages so far

wheelVars == <<rotation, turned, reported, messages>>

WheelTypeOK ==
  /\ rotation \in [WheelDirections -> (1 - WHEEL_DELTA) .. (WHEEL_DELTA - 1)]
  /\ turned \in [WheelDirections -> Int]
  /\ reported \in [WheelDirections -> Int]
  /\ messages \in 0..MaxMessages
-----------------------------------------------------------------------------
ToInt16(x) == ((x + 32768) % 65536) - 32768

(* Division as in C, towards zero.                                         *)
Quotient(x) == IF x >= 0 THEN x \div WHEEL_DELTA ELSE -((-x) \div WHEEL_DELTA)

(* Mutant: the remainder of a division towards minus infinity.             *)
FlooredRemainder(x) == x % WHEEL_DELTA

Remainder(x) == x - WHEEL_DELTA * Quotient(x)

(* Vertical rotation is inverted.                                          *)
Sign(d) == IF d = "VERTICAL" THEN -1 ELSE 1

Zero == [d \in WheelDirections |-> 0]

WheelInit == rotation = Zero /\ turned = Zero /\ reported = Zero /\ messages = 0

GetScrollWheelRotation(d, delta) ==
  LET sum == ToInt16(rotation[d] + delta) IN
  /\ messages < MaxMessages /\ messages' = messages + 1
  /\ rotation' = [rotation EXCEPT ![d] = Remainder(sum)]
  /\ turned' = [turned EXCEPT ![d] = @ + delta]
  /\ reported' = [reported EXCEPT ![d] = @ + Sign(d) * Quotient(sum)]

(* load_input_helper() forgets what is left over.                          *)
LoadWheel ==
  /\ rotation' = Zero /\ turned' = Zero /\ reported' = Zero
  /\ UNCHANGED messages

WheelNext ==
  \/ \E d \in WheelDirections, delta \in Deltas : GetScrollWheelRotation(d, delta)
  \/ LoadWheel

WheelSpec == WheelInit /\ [][WheelNext]_wheelVars
-----------------------------------------------------------------------------
(* No rotation is lost or invented: what was turned is what was reported,  *)
(* in notches, and what is left over, which is less than a notch; turning  *)
(* back and forth by parts of a notch reports nothing in the end.          *)
RotationConserved ==
  \A d \in WheelDirections :
     turned[d] = rotation[d] + WHEEL_DELTA * Sign(d) * reported[d]

=============================================================================
