-------------------------------- MODULE Mouse --------------------------------
(***************************************************************************)
(* The mouse driver of src/zarya-os/kernel/src/drivers/mouse.rs.  The      *)
(* handler runs with interrupts off and is one step; reset_position is two *)
(* stores, and the handler or another reset may come in between.  The      *)
(* getters only load.                                                      *)
(*                                                                         *)
(* A PS/2 mouse counts motion in nine bits.  The driver reads the byte of  *)
(* the low eight as an i8; positions are i32 and wrap.                     *)
(***************************************************************************)
EXTENDS Integers

CONSTANTS
  Resetters,     \* threads that call reset_position
  BYTE,          \* 256 in the code
  INT,           \* 2^32 in the code
  Motions,       \* counts that the mouse reports for an axis
  Holds          \* sets of buttons held down together

ASSUME MouseConstants ==
  /\ BYTE \in Nat /\ BYTE >= 2 /\ BYTE % 2 = 0
  /\ INT \in Nat /\ INT > BYTE /\ INT % 2 = 0
  /\ Motions \subseteq -BYTE .. BYTE - 1
  /\ \A held \in Holds : held \subseteq {"left", "right", "middle"}

Axes == {"x", "y"}

VARIABLES
  initialized,   \* MOUSE_INITIALIZED
  position,      \* MOUSE_X and MOUSE_Y
  buttons,       \* MOUSE_LEFT, MOUSE_RIGHT and MOUSE_MIDDLE: the ones held down
  resetting,     \* threads between the two stores of reset_position
  travelled,     \* way since the axis was last set to 0, as an i32 (history)
  exact          \* axes whose motions since then all fitted into an i8 (history)

mouseVars == <<initialized, position, buttons, resetting, travelled, exact>>

-----------------------------------------------------------------------------
(* The signed number that the low bits of n stand for.                     *)
Signed(n, range) == IF n % range < range \div 2 THEN n % range ELSE (n % range) - range

AsU8AsI32(byte) == byte % BYTE

(* `as i8 as i32' of a byte, and the i32 that an addition leaves.          *)
AsI8AsI32(byte) == Signed(byte, BYTE)
AsI32(n) == Signed(n, INT)

(* The byte that the mouse sends for a motion.                             *)
MotionByte(motion) == motion % BYTE
Fits(motion) == -(BYTE \div 2) <= motion /\ motion < BYTE \div 2

(* Motion to the right counts up; upwards it counts down, as the screen    *)
(* has its origin at the top.                                              *)
Along(axis, way) == IF axis = "x" THEN way ELSE -way

-----------------------------------------------------------------------------
(* PS2Mouse::init: commands and acknowledgements, then the flag.           *)
InitMouse ==
  /\ ~initialized
  /\ initialized' = TRUE
  /\ UNCHANGED <<position, buttons, resetting, travelled, exact>>

(* handle_interrupt returns at once before init; then it stores the        *)
(* buttons and adds the motion to X, and takes it from Y.                  *)
MouseInterrupt(motion, held) ==
  /\ initialized
  /\ buttons' = held
  /\ position' = [a \in Axes |->
       AsI32(position[a] + Along(a, AsI8AsI32(MotionByte(motion[a]))))]
  /\ travelled' = [a \in Axes |-> AsI32(travelled[a] + Along(a, motion[a]))]
  /\ exact' = {a \in exact : Fits(motion[a])}
  /\ UNCHANGED <<initialized, resetting>>

StoreZero(axis) ==
  /\ position' = [position EXCEPT ![axis] = 0]
  /\ travelled' = [travelled EXCEPT ![axis] = 0]
  /\ exact' = exact \cup {axis}

(* reset_position: X first, then Y.                                        *)
ResetX(t) ==
  /\ t \notin resetting
  /\ StoreZero("x")
  /\ resetting' = resetting \cup {t}
  /\ UNCHANGED <<initialized, buttons>>

ResetY(t) ==
  /\ t \in resetting
  /\ StoreZero("y")
  /\ resetting' = resetting \ {t}
  /\ UNCHANGED <<initialized, buttons>>

-----------------------------------------------------------------------------
MouseInit ==
  /\ initialized = FALSE
  /\ position = [a \in Axes |-> 0]
  /\ buttons = {}
  /\ resetting = {}
  /\ travelled = [a \in Axes |-> 0]
  /\ exact = Axes

MouseNext ==
  \/ InitMouse
  \/ \E motion \in [Axes -> Motions], held \in Holds : MouseInterrupt(motion, held)
  \/ \E t \in Resetters : ResetX(t) \/ ResetY(t)

MouseSpec == MouseInit /\ [][MouseNext]_mouseVars

-----------------------------------------------------------------------------
(* Types: positions stay within an i32.                                    *)
MouseTypeOK ==
  /\ initialized \in BOOLEAN
  /\ position \in [Axes -> -(INT \div 2) .. (INT \div 2) - 1]
  /\ buttons \in Holds \cup {{}} /\ resetting \subseteq Resetters /\ exact \subseteq Axes

(* Each coordinate is the sum of the motions since it was last set to 0,   *)
(* whatever interrupts and resets come in between, as long as each motion  *)
(* fits into the i8 that handle_interrupt makes of it.                     *)
PositionIsSum == \A a \in exact : position[a] = travelled[a]
=============================================================================
