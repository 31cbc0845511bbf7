------------------------------ MODULE StallGuard ------------------------------
(* StallGuard from the boot to a calibration: app_tasks_start sets the driver   *)
(* up, then the SGCAL commands of execute() start, cancel and finish a          *)
(* measurement and write the chip's two registers, while SET changes the        *)
(* configuration only.                                                          *)
EXTENDS TmcRegisters, SgCalibration

VARIABLES enabled, threshold,   \* of config
          calibrated,           \* its levels are in order
          phase                 \* of the boot: configure, arm, up

config == <<enabled, threshold, calibrated>>

StallGuardInit ==
  /\ Init /\ CalInit
  /\ threshold \in Thresholds \cap -64..63
  /\ enabled \in BOOLEAN /\ calibrated \in BOOLEAN /\ (enabled => calibrated)
  /\ phase = "configure"

(* motor_init: the set-up, then the ramp, which writes no word kept here.  When *)
(* either fails, the fault skips the next step.                                 *)
Configure(s) ==
  /\ phase = "configure" /\ tmc5130_configure(s)
  /\ phase' \in IF setup' = s THEN {"arm", "up"} ELSE {"up"}
  /\ UNCHANGED <<calvars, config>>

Arm ==
  /\ phase = "arm" /\ phase' = "up"
  /\ tmc5130_configure_stallguard(enabled, threshold)
  /\ UNCHANGED <<calvars, config>>

Start ==
  /\ phase = "up" /\ sg_calibration_start
  /\ tmc5130_configure_stallguard(TRUE, threshold)
  /\ UNCHANGED <<config, phase>>

(* Once per pass of a manual motion.                                            *)
Sample(v) ==
  /\ phase = "up" /\ sg_calibration_add(v)
  /\ UNCHANGED <<vars, config, phase>>

Finish ==
  /\ phase = "up" /\ sg_calibration_finish
  /\ enabled' = TRUE /\ calibrated' = TRUE
  /\ tmc5130_configure_stallguard(TRUE, threshold)
  /\ UNCHANGED <<threshold, phase>>

(* Faulty variant: only the registers are put back.                             *)
CalCancelled_open ==
  /\ phase = "up" /\ finished' = FALSE
  /\ UNCHANGED <<cal, thresholds>>
  /\ tmc5130_configure_stallguard(enabled, threshold)
  /\ UNCHANGED <<config, phase>>

CalCancelled ==
  /\ phase = "up" /\ Cancel
  /\ tmc5130_configure_stallguard(enabled, threshold)
  /\ UNCHANGED <<config, phase>>

(* SET stallguard_threshold, SET stallguard_enabled: validated, saved, and left *)
(* for the next SGCAL or boot to write to the chip.                             *)
SetThreshold(t) ==
  /\ phase = "up" /\ t \in -64..63 /\ threshold' = t
  /\ UNCHANGED <<vars, calvars, enabled, calibrated, phase>>

SetEnabled(on) ==
  /\ phase = "up" /\ (on => calibrated) /\ enabled' = on
  /\ UNCHANGED <<vars, calvars, threshold, calibrated, phase>>

StallGuardNext ==
  \/ \E s \in Setups : Configure(s)
  \/ Arm \/ Start \/ Finish \/ CalCancelled
  \/ \E v \in Readings : Sample(v)
  \/ \E t \in Thresholds : SetThreshold(t)
  \/ \E on \in BOOLEAN : SetEnabled(on)

StallGuardSpec == StallGuardInit /\ [][StallGuardNext]_<<vars, calvars, config, phase>>

----------------------------------------------------------------------------
(* A measurement whose START reached the chip is one the chip takes: whatever   *)
(* was set or cancelled before, the chip reports a load while samples count.    *)
SamplesMeasured == active /\ sg.ok => ChipSgOn
===============================================================================
