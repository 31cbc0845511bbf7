----------------------------- MODULE DeviceConfig -----------------------------
(* The settings and the three checks a change of them passes: the conversion  *)
(* of apply_config_value in src/app_tasks.c, device_config_validate of        *)
(* src/device_config.c and motor_config_valid of src/motor_control.c.         *)
(*                                                                            *)
(* The floats are integers in tenths of their unit, so every number is finite *)
(* and far below the 4294967040 the 32-bit fields accept.                     *)
EXTENDS CommandApi

Defaults ==
  [screw_pitch_mm |-> 20, motor_steps_per_rev |-> 200, microsteps |-> 16,
   motor_run_current_mA |-> 800, motor_hold_current_mA |-> 300,
   manual_speed_mm_s |-> 50, dosing_speed_mm_s |-> 50, trigger_dose_mm |-> 8,
   a1_mm_s2 |-> 1000, amax_mm_s2 |-> 1000, dmax_mm_s2 |-> 1000, d1_mm_s2 |-> 1000,
   retract_distance_mm |-> 1, retract_speed_mm_s |-> 30, retract_delay_ms |-> 50,
   position_min_mm |-> 0, position_max_mm |-> 1200, manual_timeout_ms |-> 30000,
   stallguard_threshold |-> 0, stallguard_warning_level |-> 0, stallguard_critical_level |-> 0,
   stallguard_filter_count |-> 4, stallguard_baseline |-> 0, stallguard_enabled |-> 0]

(* MRES has an encoding for these only.                                       *)
Resolutions == {1, 2, 4, 8, 16, 32, 64, 128, 256}

Currents == 200..1200
MaxSpeed == 25 * Unit
MaxAcceleration == 300 * Unit

device_config_validate(c) ==
  /\ c.motor_steps_per_rev # 0 /\ c.screw_pitch_mm > 0 /\ c.microsteps \in Resolutions
  /\ c.stallguard_threshold \in -64..63
  /\ c.stallguard_enabled # 0 =>
       /\ c.stallguard_baseline # 0 /\ c.stallguard_filter_count # 0
       /\ c.stallguard_critical_level < c.stallguard_warning_level
       /\ c.stallguard_warning_level < c.stallguard_baseline
  /\ c.motor_run_current_mA \in Currents
  /\ c.motor_hold_current_mA \in Currents /\ c.motor_hold_current_mA =< c.motor_run_current_mA
  /\ \A s \in Speeds : c[s] \in 1..MaxSpeed
  /\ \A a \in Accelerations : c[a] \in 1..MaxAcceleration
  /\ c.trigger_dose_mm \in 1..(100 * Unit) /\ c.retract_distance_mm \in 0..(100 * Unit)
  /\ c.position_max_mm > c.position_min_mm /\ c.manual_timeout_ms >= 100

(* motor_acceleration_to_tmc is at most 65535 up to 4291501 microsteps/s2, at *)
(* a clock of 12 MHz.                                                         *)
FitsRamp(c, a) == c.motor_steps_per_rev * c.microsteps =< (4291501 * c.screw_pitch_mm) \div a

motor_config_valid(c) ==
  /\ c.motor_steps_per_rev # 0 /\ c.microsteps \in Resolutions /\ c.screw_pitch_mm > 0
  /\ 0 < c.motor_hold_current_mA /\ c.motor_hold_current_mA =< c.motor_run_current_mA
  /\ c.manual_speed_mm_s > 0
  /\ \A a \in Accelerations : c[a] > 0 /\ FitsRamp(c, c[a])

Whole(v) == v % Unit = 0

(* Faulty variant: the conversion to the width of the field decides.          *)
InRange_narrowed(parameter, v) ==
  /\ parameter = "stallguard_threshold" => Whole(v)
  /\ parameter = "stallguard_enabled" => v \in {0, Unit}

Max16 == 65535

(* What each field can hold without loss.                                     *)
InRange(parameter, v) ==
  /\ parameter \in Words16 => Whole(v) /\ v \in 0..(Max16 * Unit)
  /\ parameter \in Words32 => Whole(v) /\ v >= 0
  /\ parameter = "stallguard_threshold" => Whole(v) /\ v \in (-64 * Unit)..(63 * Unit)
  /\ parameter = "stallguard_enabled" => v \in {0, Unit}

(* The assignment, with the width of the field.                               *)
Narrow(parameter, v) ==
  CASE parameter \in Words16                -> (v \div Unit) % (Max16 + 1)
    [] parameter \in Words32                -> v \div Unit
    [] parameter = "stallguard_threshold"   -> ((v \div Unit + 128) % 256) - 128
    [] parameter = "stallguard_enabled"     -> IF v # 0 THEN 1 ELSE 0
    [] OTHER                                -> v

(* The settings a SET asks for.                                               *)
Next_config(c, parameter, v) == [c EXCEPT ![parameter] = Narrow(parameter, v)]

(* Faulty variant: the limits of the driver are left to the next boot.        *)
Applicable_unchecked(c, parameter, v) ==
  InRange(parameter, v) /\ device_config_validate(Next_config(c, parameter, v))

(* What apply_config_value hands to config_store_save.                        *)
Applicable(c, parameter, v) ==
  /\ InRange(parameter, v)
  /\ device_config_validate(Next_config(c, parameter, v))
  /\ motor_config_valid(Next_config(c, parameter, v))
================================================================================
