----------------------------- MODULE MotorControl -----------------------------
(* src/motor_control.c: lengths and speeds turned into register values, and   *)
(* the motor calls of the motor task, each the set of its outcomes.           *)
(*                                                                            *)
(* A length is an integer number of length units and a microstep is           *)
(* MicrostepLen of them, so a length need not be a whole number of microsteps *)
(* and the rounding of motor_mm_to_microsteps is not the identity.            *)
EXTENDS Tmc5130

CONSTANTS MicrostepLen,     \* length units in a microstep
          VelocityUnit      \* the speed below which vel() truncates to 0

ASSUME UnitsAssumption == MicrostepLen \in Nat \ {0} /\ VelocityUnit \in Nat \ {0}

motor_microsteps_to_mm(s) == s * MicrostepLen

(* Nearest microstep, halves away from zero.                                  *)
motor_mm_to_microsteps(mm) ==
  LET nearest(l) == (2 * l + MicrostepLen) \div (2 * MicrostepLen)
  IN  IF mm >= 0 THEN nearest(mm) ELSE -nearest(-mm)

vel(mm_s) == (IF mm_s < 0 THEN -mm_s ELSE mm_s) \div VelocityUnit

motor_init(t, speed) == tmc5130_start(t, vel(speed))

motor_manual(t, d, speed) == tmc5130_velocity(t, d, vel(speed))

(* VMAX first, then position mode, then the target relative to XACTUAL.       *)
motor_move_relative(t, mm, speed) ==
  LET limit  == Write(t, "VMAX", vel(speed))
      ranged == Write(limit, "RAMPMODE", "POSITION")
      target == t.XACTUAL + motor_mm_to_microsteps(mm)
  IN  Outcome({t, limit, ranged}, Write(ranged, "XTARGET", target))

motor_stop(t) == tmc5130_stop(t)

(* Faulty variant: looks for the target, which a velocity motion never meets. *)
motor_is_stopped_position(t) ==
  {[value |-> t.XACTUAL = t.XTARGET, ok |-> TRUE], [value |-> FALSE, ok |-> FALSE]}

motor_is_stopped(t) == {[value |-> t.VACTUAL = 0, ok |-> TRUE], [value |-> FALSE, ok |-> FALSE]}

(* Faulty variant: a motor that has not started yet counts as arrived.        *)
motor_target_reached_still(t) ==
  {[value |-> t.VACTUAL = 0, ok |-> TRUE], [value |-> FALSE, ok |-> FALSE]}

motor_target_reached(t) ==
  {[value |-> t.XACTUAL = t.XTARGET /\ t.VACTUAL = 0, ok |-> TRUE],
   [value |-> FALSE, ok |-> FALSE]}

(* The value of a failed read is used as it stands.                           *)
motor_position(t) == {[mm |-> motor_microsteps_to_mm(x.value), ok |-> x.ok] : x \in Read(t, "XACTUAL")}

motor_set_position_mm(t, mm) ==
  LET x     == motor_mm_to_microsteps(mm)
      moved == Write(t, "XACTUAL", x)
  IN  Outcome({t, moved}, Write(moved, "XTARGET", x))

motor_set_zero(t) == motor_set_position_mm(t, 0)
=============================================================================
