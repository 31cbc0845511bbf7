------------------------------ MODULE Dispenser ------------------------------
(* The motor task of src/app_tasks.c with everything it calls: the state      *)
(* machine, the safety check, the motor driver and the ramp generator it      *)
(* drives, and the boot that precedes it.                                     *)
(*                                                                            *)
(* One pass of the loop is the phases Poll, Exec* , Keys, Settle, Retract,    *)
(* Check, Tail; the motor moves between any two of them.  The command queue   *)
(* is abstracted to "any command, any number of times" while it is drained.   *)
(* A machine that reboots keeps the registers of the driver chip, which is    *)
(* not reset with the RP2350.                                                 *)
EXTENDS AppState, Safety, MotorControl

CONSTANTS
  Commands,       \* the machine_command_t the two interfaces submit
  Configs,        \* the configurations SET can produce
  DefaultConfig,  \* device_config_defaults
  CalLevels,      \* the thresholds a calibration can yield
  CalSamples,     \* samples a calibration needs (100 in the code)
  ButtonInputs,   \* debounced contacts buttons_update can return
  SgSamples,      \* SG_RESULT readings
  Overtemps,      \* readings of the overtemperature flag
  Elapsed,        \* milliseconds between two passes, in model units
  ConflictHold,   \* PUSH and PULL held this long factory-reset the device
  XBound,         \* bound on |XACTUAL|
  MaxGlitches,    \* bound on failing SPI and flash calls
  MaxBoots        \* bound on boots

VARIABLES
  pc,             \* the phase of the loop
  machine, safety, sg_cal, config, direction, retract_mm, unload_result,
  phase_ms,       \* age: now - phase_ms
  motor_cfg,      \* the part of the boot configuration motor_control keeps
  buttons, old,   \* this pass's contacts and the previous pass's
  conflict,       \* age of conflict_since, -1 when it is zero
  dirty,          \* statistics_dirty()
  motor_moving,   \* what the LED task reads
  reboot,         \* a watchdog reboot is armed
  saved,          \* the configuration in flash
  tmc,            \* the registers of the driver chip
  glitches, boots

motion == <<machine, safety, direction, retract_mm, unload_result, dirty>>
settings == <<sg_cal, config, saved>>
inputs == <<buttons, old, conflict>>
system == <<motor_cfg, boots>>
vars == <<motion, settings, inputs, system, pc, phase_ms, motor_moving, reboot, tmc, glitches>>

----------------------------------------------------------------------------
ButtonRecords == [push : BOOLEAN, pull : BOOLEAN, dose : BOOLEAN]

NoButtons == [push |-> FALSE, pull |-> FALSE, dose |-> FALSE]

(* Faulty variant: DOSE hides the conflict.                                   *)
IsConflict_masked(b) == b.push /\ b.pull /\ ~b.dose

IsConflict(b) == b.push /\ b.pull

(* The part of device_config_validate about the fields kept here.             *)
ValidConfig(c) ==
  /\ c.manual_speed_mm_s > 0 /\ c.dosing_speed_mm_s > 0 /\ c.retract_speed_mm_s > 0
  /\ c.trigger_dose_mm > 0 /\ c.retract_distance_mm >= 0
  /\ c.position_max_mm > c.position_min_mm
  /\ c.stallguard_enabled => /\ c.stallguard_filter_count # 0
                             /\ c.stallguard_critical_level < c.stallguard_warning_level

ConfigRecords ==
  [manual_speed_mm_s : Nat, dosing_speed_mm_s : Nat, trigger_dose_mm : Int,
   retract_distance_mm : Int, retract_speed_mm_s : Nat, retract_delay_ms : Nat,
   position_min_mm : Int, position_max_mm : Int, manual_timeout_ms : Nat,
   stallguard_enabled : BOOLEAN, stallguard_warning_level : Nat,
   stallguard_critical_level : Nat, stallguard_filter_count : Nat]

(* The commands execute() takes in READY only, and the others.                *)
ReadyKinds == {"SG_CAL_START", "SG_CAL_FINISH", "FLUSH_STATISTICS", "PUSH_START",
               "PULL_START", "UNLOAD_SYRINGE", "SET_ZERO", "MOVE_RELATIVE", "DOSE"}

CommandKinds ==
  ReadyKinds \cup {"STOP", "PUSH_STOP", "PULL_STOP", "RESET", "REBOOT", "BOOTSEL",
                   "SG_CAL_CANCEL", "SET_CONFIG", "SET_TRIGGER_DOSE"}

CommandRecords == [kind : CommandKinds, distance_mm : Int, speed_mm_s : Int, retract_mm : Int]

ASSUME DispenserAssumption ==
  /\ Commands \subseteq CommandRecords
  /\ Configs \subseteq {c \in ConfigRecords : ValidConfig(c)}
  /\ DefaultConfig \in Configs
  /\ CalLevels \subseteq [warning : Nat, critical : Nat]
  /\ \A l \in CalLevels : l.critical < l.warning
  /\ ButtonInputs \subseteq ButtonRecords
  /\ SgSamples \subseteq Nat /\ Overtemps \subseteq BOOLEAN
  /\ Elapsed \subseteq Nat \ {0}
  /\ CalSamples \in Nat /\ XBound \in Nat /\ MaxGlitches \in Nat
  /\ MaxBoots \in Nat \ {0}
  /\ ConflictHold \in 1..AgeCap

----------------------------------------------------------------------------
(* RAM as main() finds it, before app_tasks_start.                            *)
Init ==
  /\ pc = "boot" /\ machine = MachineInit /\ safety = SafetyInit
  /\ sg_cal = [active |-> FALSE, samples |-> 0]
  /\ config = DefaultConfig /\ motor_cfg = [manual_speed_mm_s |-> 0]
  /\ direction = 0 /\ retract_mm = 0 /\ unload_result = "none" /\ phase_ms = 0
  /\ buttons = NoButtons /\ old = NoButtons /\ conflict = -1
  /\ dirty = FALSE /\ motor_moving = FALSE /\ reboot = FALSE
  /\ saved = DefaultConfig /\ tmc = PowerOnRegs /\ glitches = 0 /\ boots = 1

(* The processor restarts: everything but the flash and the driver chip.      *)
RamLost ==
  /\ pc' = "boot" /\ machine' = MachineInit /\ safety' = SafetyInit
  /\ sg_cal' = [active |-> FALSE, samples |-> 0]
  /\ config' = DefaultConfig /\ motor_cfg' = [manual_speed_mm_s |-> 0]
  /\ direction' = 0 /\ retract_mm' = 0 /\ unload_result' = "none" /\ phase_ms' = 0
  /\ buttons' = NoButtons /\ old' = NoButtons /\ conflict' = -1
  /\ dirty' = FALSE /\ motor_moving' = FALSE /\ reboot' = FALSE
  /\ boots' = boots + 1

Spend(n) == /\ glitches + n =< MaxGlitches
            /\ glitches' = glitches + n

(* A call to the driver whose result the code ignores.                        *)
Drive(outcomes) == \E o \in outcomes : tmc' = o.regs /\ Spend(Cost(o))

Faulted(f) == Dispatch([machine EXCEPT !.fault_code = f], "FAULT")

(* Faulty variant: with no motion armed there is nothing to stop.             *)
set_fault_armed(f, regs, failed) ==
  /\ IF direction # 0 THEN \E stop \in motor_stop(regs) : tmc' = stop.regs /\ Spend(failed + Cost(stop))
                      ELSE tmc' = regs /\ Spend(failed)
  /\ machine' = Faulted(f)
  /\ direction' = 0

(* motor_stop, fault code, EVT_FAULT, no direction; after the register state  *)
(* regs and the given number of calls already failed in the same step.        *)
set_fault(f, regs, failed) ==
  /\ \E stop \in motor_stop(regs) : tmc' = stop.regs /\ Spend(failed + Cost(stop))
  /\ machine' = Faulted(f)
  /\ direction' = 0

(* app_tasks_start: load the configuration, set the driver up, enter READY or *)
(* FAULT.  The StallGuard set-up writes no register kept here.                *)
Boot ==
  /\ pc = "boot"
  /\ pc' = "poll"
  /\ config' = saved
  /\ motor_cfg' = [manual_speed_mm_s |-> saved.manual_speed_mm_s]
  /\ \E init \in motor_init(tmc, saved.manual_speed_mm_s), sg \in BOOLEAN :
       \/ /\ init.ok /\ sg
          /\ tmc' = init.regs /\ Spend(0)
          /\ machine' = Dispatch(machine, "INIT_OK")
          /\ UNCHANGED direction
       \/ /\ init.ok # sg             \* sg is not called after a failed init
          /\ set_fault("SPI", init.regs, IF DriverPresent THEN 1 ELSE 0)
  /\ UNCHANGED <<safety, retract_mm, unload_result, dirty, sg_cal, saved,
                 inputs, boots, phase_ms, motor_moving, reboot>>

(* The watchdog fires 10 ms after RESET: RAM is lost, the chip is not reset.  *)
Restart ==
  /\ reboot /\ pc # "boot"
  /\ RamLost
  /\ UNCHANGED <<saved, tmc, glitches>>

----------------------------------------------------------------------------
(* Commands.                                                                  *)

Speed(requested, default) == IF requested > 0 THEN requested ELSE default

(* A push counts as an activation; so does a dose.                            *)
begin_manual(d) ==
  /\ machine.state = "READY"
  /\ \E o \in motor_manual(tmc, d, motor_cfg.manual_speed_mm_s) :
       /\ tmc' = o.regs /\ Spend(Cost(o))
       /\ IF o.ok
          THEN /\ direction' = d
               /\ safety' = ManualStarted(safety)
               /\ machine' = Dispatch(machine, IF d > 0 THEN "PUSH" ELSE "PULL")
               /\ dirty' = (dirty \/ d > 0)
          ELSE UNCHANGED <<direction, safety, machine, dirty>>
  /\ UNCHANGED <<retract_mm, unload_result, settings>>

stop_motion ==
  /\ unload_result' = IF machine.state = "HOMING" THEN "stopped" ELSE unload_result
  /\ Drive(motor_stop(tmc))
  /\ direction' = 0
  /\ machine' = IF machine.state = "FAULT" THEN machine ELSE Dispatch(machine, "STOP")
  /\ UNCHANGED <<safety, retract_mm, dirty, settings>>

(* Faulty variant: the direction is set before the driver call is checked.    *)
StartDose_unchecked(o, d, retract, counted) ==
  /\ tmc' = o.regs /\ direction' = d /\ retract_mm' = retract
  /\ machine' = IF o.ok THEN Dispatch(machine, "DOSE") ELSE machine
  /\ dirty' = (dirty \/ counted)
  /\ UNCHANGED <<safety, unload_result, settings>>

(* The common end of DOSE and MOVE once the driver accepted the target.       *)
StartDose(o, d, retract, counted) ==
  /\ tmc' = o.regs
  /\ IF o.ok
     THEN /\ direction' = d /\ retract_mm' = retract
          /\ machine' = Dispatch(machine, "DOSE")
          /\ dirty' = (dirty \/ counted)
     ELSE UNCHANGED <<direction, retract_mm, machine, dirty>>
  /\ UNCHANGED <<safety, unload_result, settings>>

(* Faulty variant: compares with the course, not with what remains of it.     *)
DoseAccepted_total(distance, pos) == distance > 0 /\ distance =< config.position_max_mm

DoseAccepted(distance, pos) == distance > 0 /\ distance =< config.position_max_mm - pos

Dose(c) ==
  /\ machine.state = "READY"
  /\ LET distance == IF c.distance_mm > 0 THEN c.distance_mm ELSE config.trigger_dose_mm
         retract  == IF c.retract_mm >= 0 THEN c.retract_mm ELSE config.retract_distance_mm
     IN  \E pos \in motor_position(tmc) :
           IF DoseAccepted(distance, pos.mm)
           THEN \E o \in motor_move_relative(tmc, distance,
                                             Speed(c.speed_mm_s, config.dosing_speed_mm_s)) :
                  /\ Spend(Cost(pos) + Cost(o))
                  /\ StartDose(o, 1, retract, TRUE)
           ELSE Spend(Cost(pos)) /\ UNCHANGED <<motion, settings, tmc>>

Move(c) ==
  /\ machine.state = "READY"
  /\ \E o \in motor_move_relative(tmc, c.distance_mm,
                                  Speed(c.speed_mm_s, config.dosing_speed_mm_s)) :
       /\ Spend(Cost(o))
       /\ StartDose(o, IF c.distance_mm >= 0 THEN 1 ELSE -1, 0, c.distance_mm > 0)

Unload(c) ==
  /\ machine.state = "READY"
  /\ \E pos \in motor_position(tmc) :
       IF pos.mm =< config.position_min_mm
       THEN \E o \in motor_set_position_mm(tmc, config.position_min_mm) :
              /\ tmc' = o.regs /\ Spend(Cost(pos) + Cost(o))
              /\ unload_result' = "position_min"
              /\ UNCHANGED <<machine, safety, direction, retract_mm, dirty>>
       ELSE \E o \in motor_move_relative(tmc, config.position_min_mm - pos.mm,
                                         Speed(c.speed_mm_s, config.manual_speed_mm_s)) :
              /\ tmc' = o.regs /\ Spend(Cost(pos) + Cost(o))
              /\ IF o.ok
                 THEN /\ direction' = -1 /\ retract_mm' = 0 /\ unload_result' = "running"
                      /\ safety' = ManualStarted(SafetyInit)
                      /\ machine' = Dispatch(machine, "HOME")
                 ELSE UNCHANGED <<direction, retract_mm, unload_result, safety, machine>>
              /\ UNCHANGED dirty
  /\ UNCHANGED settings

SetZero ==
  /\ machine.state = "READY"
  /\ Drive(motor_set_zero(tmc))
  /\ UNCHANGED <<motion, settings>>

FaultReset ==
  /\ machine.state = "FAULT"
  /\ safety' = SafetyInit
  /\ machine' = Dispatch(machine, "RESET")
  /\ Spend(0)
  /\ UNCHANGED <<direction, retract_mm, unload_result, dirty, settings, tmc>>

(* SET and set_trigger_dose: validate, save, and only then adopt.  Refused    *)
(* values and failed saves change nothing.                                    *)
apply_config_value ==
  /\ config' \in Configs
  /\ saved' = config'
  /\ Spend(0)
  /\ UNCHANGED <<motion, sg_cal, tmc>>

CalStart ==
  /\ machine.state = "READY"
  /\ sg_cal' = [active |-> TRUE, samples |-> 0]
  /\ Spend(0)
  /\ UNCHANGED <<motion, config, saved, tmc>>

CalCancel ==
  /\ sg_cal' = [sg_cal EXCEPT !.active = FALSE]
  /\ Spend(0)
  /\ UNCHANGED <<motion, config, saved, tmc>>

(* The result of the save is ignored: RAM holds the thresholds either way.    *)
CalFinish ==
  /\ machine.state = "READY"
  /\ sg_cal.active /\ sg_cal.samples >= CalSamples
  /\ sg_cal' = [sg_cal EXCEPT !.active = FALSE]
  /\ \E l \in CalLevels :
       config' = [config EXCEPT !.stallguard_enabled = TRUE,
                                !.stallguard_warning_level = l.warning,
                                !.stallguard_critical_level = l.critical]
  /\ \/ ValidConfig(config') /\ saved' = config' /\ Spend(0)
     \/ ValidConfig(config') /\ saved' = saved /\ Spend(1)
     \/ ~ValidConfig(config') /\ saved' = saved /\ Spend(0)
  /\ UNCHANGED <<motion, tmc>>

FlushStatistics ==
  /\ machine.state = "READY"
  /\ \/ dirty' = FALSE /\ Spend(0)
     \/ dirty' = TRUE /\ Spend(1)
  /\ UNCHANGED <<machine, safety, direction, retract_mm, unload_result, settings, tmc>>

(* A start command out of READY, an acknowledgement with no fault, a refused  *)
(* SET, a FINISH without enough samples: nothing happens.                     *)
Ignored == Spend(0) /\ UNCHANGED <<motion, settings, tmc>>

Execute(c) ==
  \/ c.kind \in {"STOP", "PUSH_STOP", "PULL_STOP"} /\ stop_motion
  \/ c.kind = "RESET" /\ FaultReset
  \/ c.kind = "SG_CAL_CANCEL" /\ CalCancel
  \/ c.kind = "SG_CAL_START" /\ CalStart
  \/ c.kind = "SG_CAL_FINISH" /\ (CalFinish \/ Ignored)
  \/ c.kind \in {"SET_CONFIG", "SET_TRIGGER_DOSE"} /\ (apply_config_value \/ Ignored)
  \/ c.kind = "FLUSH_STATISTICS" /\ FlushStatistics
  \/ c.kind = "PUSH_START" /\ begin_manual(1)
  \/ c.kind = "PULL_START" /\ begin_manual(-1)
  \/ c.kind = "UNLOAD_SYRINGE" /\ Unload(c)
  \/ c.kind = "SET_ZERO" /\ SetZero
  \/ c.kind = "MOVE_RELATIVE" /\ Move(c)
  \/ c.kind = "DOSE" /\ Dose(c)
  \/ c.kind \in ReadyKinds /\ machine.state # "READY" /\ Ignored

----------------------------------------------------------------------------
(* The phases of a pass.                                                      *)

(* Sample the clock and the contacts.  The last boot of the bound cannot be   *)
(* followed by the factory reset's reboot, so its conflict clock stops short. *)
Poll ==
  /\ pc = "poll" /\ pc' = "exec"
  /\ buttons' \in ButtonInputs
  /\ \E d \in Elapsed :
       /\ safety' = [safety EXCEPT !.manual_ms = Elapse(@, d)]
       /\ phase_ms' = Elapse(phase_ms, d)
       /\ conflict' = IF conflict = -1 THEN -1
                      ELSE IF boots = MaxBoots /\ Elapse(conflict, d) >= ConflictHold
                           THEN conflict ELSE Elapse(conflict, d)
  /\ UNCHANGED <<machine, direction, retract_mm, unload_result, dirty, settings, old,
                 system, motor_moving, reboot, tmc, glitches>>

(* Take one command off the queue and execute it.                             *)
Exec(c) ==
  /\ pc = "exec"
  /\ Execute(c)
  /\ UNCHANGED <<inputs, system, pc, phase_ms, motor_moving, reboot>>

(* RESET on the wire: stop, arm the watchdog, carry on with the loop.         *)
Reboot ==
  /\ pc = "exec" /\ \E c \in Commands : c.kind = "REBOOT"
  /\ boots < MaxBoots
  /\ Drive(motor_stop(tmc))
  /\ reboot' = TRUE
  /\ UNCHANGED <<motion, settings, inputs, system, pc, phase_ms, motor_moving>>

(* BOOTSEL: stop and hand the processor to the boot ROM.                      *)
Bootsel ==
  /\ pc = "exec" /\ \E c \in Commands : c.kind = "BOOTSEL"
  /\ Drive(motor_stop(tmc))
  /\ pc' = "bootsel"
  /\ UNCHANGED <<motion, settings, inputs, system, phase_ms, motor_moving, reboot>>

(* The queue is empty.                                                        *)
Drain ==
  /\ pc = "exec" /\ pc' = "keys"
  /\ UNCHANGED <<motion, settings, inputs, system, phase_ms, motor_moving, reboot, tmc, glitches>>

(* Both contacts: fault, and nothing else this pass.                          *)
Conflict ==
  /\ pc = "keys" /\ IsConflict(buttons)
  /\ conflict' = IF conflict = -1 THEN 0 ELSE conflict
  /\ conflict' < ConflictHold
  /\ set_fault("BUTTON_CONFLICT", tmc, 0)
  /\ pc' = "tail"
  /\ UNCHANGED <<safety, retract_mm, unload_result, dirty, settings, buttons, old, system,
                 phase_ms, motor_moving, reboot>>

(* Both contacts held: stop, erase configuration and statistics, reboot now.  *)
FactoryReset ==
  /\ pc = "keys" /\ IsConflict(buttons) /\ conflict >= ConflictHold
  /\ boots < MaxBoots
  /\ RamLost
  /\ \E o \in motor_stop(tmc), erased \in BOOLEAN :
       /\ tmc' = o.regs
       /\ saved' = IF erased THEN DefaultConfig ELSE saved
       /\ Spend(Cost(o) + IF erased THEN 0 ELSE 1)

(* In FAULT the rest of the pass is skipped.                                  *)
KeysInFault ==
  /\ pc = "keys" /\ ~IsConflict(buttons) /\ machine.state = "FAULT"
  /\ conflict' = -1 /\ pc' = "tail"
  /\ UNCHANGED <<motion, settings, buttons, old, system, phase_ms, motor_moving, reboot, tmc, glitches>>

Trigger == [kind |-> "DOSE", distance_mm |-> config.trigger_dose_mm,
            speed_mm_s |-> config.dosing_speed_mm_s, retract_mm |-> config.retract_distance_mm]

(* One edge per pass: PUSH, else PULL, else DOSE, else a release.             *)
PushEdge == buttons.push /\ ~old.push
PullEdge == ~PushEdge /\ buttons.pull /\ ~old.pull
DoseEdge == ~PushEdge /\ ~PullEdge /\ buttons.dose /\ ~old.dose
Released == /\ ~PushEdge /\ ~PullEdge /\ ~DoseEdge
            /\ \/ machine.state = "MANUAL_PUSH" /\ old.push /\ ~buttons.push
               \/ machine.state = "MANUAL_PULL" /\ old.pull /\ ~buttons.pull

Keys ==
  /\ pc = "keys" /\ ~IsConflict(buttons) /\ machine.state # "FAULT"
  /\ conflict' = -1 /\ pc' = "settle"
  /\ \/ PushEdge /\ begin_manual(1)
     \/ PullEdge /\ begin_manual(-1)
     \/ DoseEdge /\ Dose(Trigger)
     \/ Released /\ stop_motion
     \/ (PushEdge \/ PullEdge \/ DoseEdge) /\ machine.state # "READY" /\ Ignored
     \/ ~(PushEdge \/ PullEdge \/ DoseEdge \/ Released) /\ Ignored
  /\ UNCHANGED <<buttons, old, system, phase_ms, motor_moving, reboot>>

(* STOPPING ends when the motor has stopped.                                  *)
Stopped ==
  /\ machine.state = "STOPPING"
  /\ \E r \in motor_is_stopped(tmc) :
       /\ Spend(Cost(r))
       /\ machine' = IF r.value THEN Dispatch(machine, "STOPPED") ELSE machine
  /\ UNCHANGED <<direction, phase_ms>>

(* DOSING ends on its target.  A dose without retraction goes through         *)
(* RETRACTING to READY at once.                                               *)
DoseDone ==
  /\ machine.state = "DOSING"
  /\ \E r \in motor_target_reached(tmc) :
       /\ Spend(Cost(r))
       /\ IF r.value
          THEN LET done == Dispatch(machine, "MOVE_DONE")
               IN  /\ direction' = 0
                   /\ phase_ms' = IF retract_mm > 0 THEN 0 ELSE phase_ms
                   /\ machine' = IF retract_mm > 0 THEN done ELSE Dispatch(done, "MOVE_DONE")
          ELSE UNCHANGED <<machine, direction, phase_ms>>

Settle ==
  /\ pc = "settle" /\ pc' = "retract"
  /\ \/ Stopped
     \/ DoseDone
     \/ machine.state \notin {"STOPPING", "DOSING"} /\ UNCHANGED <<machine, direction, phase_ms, glitches>>
  /\ UNCHANGED <<safety, retract_mm, unload_result, dirty, settings, inputs, system,
                 motor_moving, reboot, tmc>>

(* After the delay the retraction starts; refused, it is a fault.             *)
RetractDue == machine.state = "RETRACTING" /\ direction = 0 /\ phase_ms >= config.retract_delay_ms

RetractStart ==
  /\ RetractDue
  /\ \E o \in motor_move_relative(tmc, -retract_mm, config.retract_speed_mm_s) :
       \/ o.ok /\ tmc' = o.regs /\ direction' = -1 /\ Spend(0) /\ UNCHANGED machine
       \/ ~o.ok /\ set_fault("SPI", o.regs, 1)
  /\ UNCHANGED unload_result

RetractDone ==
  /\ machine.state = "RETRACTING" /\ direction < 0
  /\ \E r \in motor_target_reached(tmc) :
       /\ Spend(Cost(r))
       /\ IF r.value THEN direction' = 0 /\ machine' = Dispatch(machine, "MOVE_DONE")
                     ELSE UNCHANGED <<direction, machine>>
  /\ UNCHANGED <<tmc, unload_result>>

(* Faulty variant: the direction outlives the motion.                         *)
UnloadEnd_armed(result, failed) ==
  /\ \E stop \in motor_stop(tmc) :
       \E o \in motor_set_position_mm(stop.regs, config.position_min_mm) :
         tmc' = o.regs /\ Spend(failed + Cost(stop) + Cost(o))
  /\ unload_result' = result
  /\ machine' = Dispatch(machine, "MOVE_DONE")
  /\ UNCHANGED direction

(* The end of an unload: stop, relabel the position, back to READY.           *)
UnloadEnd(result, failed) ==
  /\ \E stop \in motor_stop(tmc) :
       \E o \in motor_set_position_mm(stop.regs, config.position_min_mm) :
         tmc' = o.regs /\ Spend(failed + Cost(stop) + Cost(o))
  /\ direction' = 0
  /\ unload_result' = result
  /\ machine' = Dispatch(machine, "MOVE_DONE")

HomingDone ==
  /\ machine.state = "HOMING"
  /\ \E r \in motor_target_reached(tmc) :
       IF r.value THEN UnloadEnd("position_min", 0)
                  ELSE Spend(Cost(r)) /\ UNCHANGED <<machine, direction, unload_result, tmc>>

Retract ==
  /\ pc = "retract" /\ pc' = "check"
  /\ \/ RetractStart \/ RetractDone \/ HomingDone
     \/ /\ machine.state # "HOMING" /\ ~RetractDue
        /\ ~(machine.state = "RETRACTING" /\ direction < 0)
        /\ UNCHANGED <<machine, direction, unload_result, tmc, glitches>>
  /\ UNCHANGED <<safety, retract_mm, dirty, settings, inputs, system, phase_ms, motor_moving, reboot>>

(* Faulty variant: the thresholds stay armed during a calibration.            *)
SafetyCfg_armed == config

(* StallGuard does not stop the calibration that is measuring it.             *)
SafetyCfg == [config EXCEPT !.stallguard_enabled = @ /\ ~sg_cal.active]

(* Faulty variant: an unload is not timed.                                    *)
TimedStates_manual == ManualStates

(* The motions manual_timeout_ms limits.                                      *)
TimedStates == ManualStates \cup {"HOMING"}

(* The safety check on this pass's readings.  During an unload a stall or a   *)
(* limit is the end of the course; any other fault stops the motor.           *)
Check ==
  /\ pc = "check" /\ pc' = "tail"
  /\ LET unload == machine.state = "HOMING"
     IN  /\ sg_cal' = IF sg_cal.active /\ machine.state \in ManualStates /\ sg_cal.samples < CalSamples
                      THEN [sg_cal EXCEPT !.samples = @ + 1] ELSE sg_cal
         /\ \E sg \in SgSamples, hot \in Overtemps, spi \in BOOLEAN, pos \in motor_position(tmc) :
              LET s      == safety_check(safety, SafetyCfg, machine.state \in TimedStates,
                                         machine.state \in MotionStates, sg, hot, spi, pos.mm, direction)
                  failed == (IF spi THEN 0 ELSE 1) + Cost(pos)
                  ended  == unload /\ s.fault \in {"STALL", "LIMIT"}
              IN  \/ /\ s.fault = "OK"
                     /\ safety' = s /\ Spend(failed)
                     /\ UNCHANGED <<machine, direction, unload_result, tmc>>
                  \/ /\ ended
                     /\ safety' = SafetyInit
                     /\ UnloadEnd(IF s.fault = "STALL" THEN "stall" ELSE "position_min", failed)
                  \/ /\ s.fault # "OK" /\ ~ended
                     /\ safety' = s
                     /\ set_fault(s.fault, tmc, failed)
                     /\ UNCHANGED unload_result
  /\ UNCHANGED <<retract_mm, dirty, config, saved, inputs, system, phase_ms, motor_moving, reboot>>

(* Faulty variant: an unload is not announced.                                *)
LedStates_dosing == ManualStates \cup {"DOSING", "RETRACTING", "STOPPING"}

(* The states in which the LED task is told of a motion.                      *)
LedStates == MotionStates \cup {"STOPPING"}

(* Faulty variant: saves only after a pass the LED has shown at rest.         *)
Tail_rested ==
  /\ pc = "tail" /\ pc' = "poll"
  /\ old' = buttons
  /\ motor_moving' = (machine.state \in LedStates)
  /\ IF machine.state = "READY" /\ dirty /\ ~motor_moving
     THEN \/ dirty' = FALSE /\ Spend(0)
          \/ dirty' = TRUE /\ Spend(1)
     ELSE UNCHANGED <<dirty, glitches>>
  /\ UNCHANGED <<machine, safety, direction, retract_mm, unload_result, settings, buttons,
                 conflict, system, phase_ms, reboot, tmc>>

(* The end of the pass: remember the contacts, tell the LED, save the         *)
(* statistics when idle.  The telemetry snapshot influences nothing.          *)
Tail ==
  /\ pc = "tail" /\ pc' = "poll"
  /\ old' = buttons
  /\ motor_moving' = (machine.state \in LedStates)
  /\ IF machine.state = "READY" /\ dirty
     THEN \/ dirty' = FALSE /\ Spend(0)
          \/ dirty' = TRUE /\ Spend(1)
     ELSE UNCHANGED <<dirty, glitches>>
  /\ UNCHANGED <<machine, safety, direction, retract_mm, unload_result, settings, buttons,
                 conflict, system, phase_ms, reboot, tmc>>

----------------------------------------------------------------------------
(* The motor.                                                                 *)

Moves(t) == -XBound =< t.XACTUAL /\ t.XACTUAL =< XBound /\ tmc' = t

firmware == <<motion, settings, inputs, system, pc, phase_ms, motor_moving, reboot, glitches>>

RampGo ==
  /\ DriveDir(tmc) # 0 /\ tmc.VACTUAL \in {0, DriveDir(tmc)}
  /\ Moves(Advance(tmc))
  /\ UNCHANGED firmware

Coasting == tmc.VACTUAL # 0 /\ tmc.VACTUAL # DriveDir(tmc)

RampCoast == Coasting /\ Moves(Coast(tmc)) /\ UNCHANGED firmware

RampHalt == Coasting /\ tmc' = Halt(tmc) /\ UNCHANGED firmware

----------------------------------------------------------------------------
Pass == Poll \/ Drain \/ Conflict \/ FactoryReset \/ KeysInFault \/ Keys
        \/ Settle \/ Retract \/ Check \/ Tail

Next == \/ Boot \/ Restart \/ Pass
        \/ \E c \in Commands : Exec(c)
        \/ Reboot \/ Bootsel
        \/ RampGo \/ RampCoast \/ RampHalt

Spec == Init /\ [][Next]_vars

(* The motor task has the highest priority once the radio is up and blocks    *)
(* only in vTaskDelayUntil; the chip's ramp generator runs by itself.         *)
Fairness == WF_vars(Boot \/ Restart \/ Pass) /\ WF_vars(RampGo) /\ WF_vars(RampHalt)

FairSpec == Spec /\ Fairness

----------------------------------------------------------------------------
(* Properties.                                                                *)

MotionTypeOK ==
  /\ machine \in Machines /\ safety \in SafetyRecords
  /\ direction \in {-1, 0, 1} /\ retract_mm \in Int /\ dirty \in BOOLEAN
  /\ unload_result \in {"none", "running", "stopped", "position_min", "stall"}

SettingsTypeOK ==
  /\ sg_cal \in [active : BOOLEAN, samples : 0..CalSamples]
  /\ config \in ConfigRecords /\ saved \in ConfigRecords

InputsTypeOK ==
  /\ buttons \in ButtonRecords /\ old \in ButtonRecords /\ conflict \in -1..AgeCap

DriverTypeOK == tmc \in Registers /\ glitches \in 0..MaxGlitches

LoopTypeOK ==
  /\ pc \in {"boot", "poll", "exec", "keys", "settle", "retract", "check", "tail", "bootsel"}
  /\ motor_cfg \in [manual_speed_mm_s : Nat] /\ phase_ms \in 0..AgeCap
  /\ motor_moving \in BOOLEAN /\ reboot \in BOOLEAN /\ boots \in 1..MaxBoots

(* Every variable stays in its type; every age stays below AgeCap.            *)
TypeOK == MotionTypeOK /\ SettingsTypeOK /\ InputsTypeOK /\ DriverTypeOK /\ LoopTypeOK

(* The fault code set_fault reports is the state's: a code is shown exactly   *)
(* in FAULT, and a fault safety_check has latched always has the machine      *)
(* there, on every path that resets one of the two records.                   *)
FaultConsistent ==
  /\ machine.fault_code # "OK" <=> machine.state = "FAULT"
  /\ safety.fault # "OK" => machine.state = "FAULT"

(* direction arms the software limits of safety_check: it follows the state   *)
(* through every handler, whichever of their driver calls fail.               *)
DirectionMatchesState ==
  CASE machine.state = "MANUAL_PUSH"              -> direction = 1
    [] machine.state \in {"MANUAL_PULL", "HOMING"} -> direction = -1
    [] machine.state = "DOSING"                   -> direction # 0
    [] machine.state = "RETRACTING"               -> direction \in {0, -1}
    [] OTHER                                      -> direction = 0

(* On a link that works, since power-on: the registers ask for motion only    *)
(* in a motion state with the software limits armed, and a manual motion      *)
(* turns the way it was asked.  The loop has stopped the motor on every path  *)
(* into READY, STOPPING, FAULT and the dwell before a retraction.             *)
NoUncommandedMotion ==
  glitches = 0 /\ boots = 1 =>
    /\ DriveDir(tmc) # 0 => machine.state \in MotionStates /\ direction # 0
    /\ machine.state \in ManualStates => DriveDir(tmc) \in {0, direction}

(* A pass never ends with a manual motion or an unload older than             *)
(* manual_timeout_ms, however long the pass before it took.                   *)
TimedMotion ==
  pc = "tail" /\ machine.state \in ManualStates \cup {"HOMING"} =>
    safety.manual_ms =< config.manual_timeout_ms

(* A pass whose readings succeed leaves no motion running toward the end of   *)
(* the course it is at, whatever transfers failed before.                     *)
LimitsHeld ==
  [][pc = "check" /\ pc' = "tail" /\ glitches' = glitches /\ machine'.state \in MotionStates =>
       LET mm == motor_microsteps_to_mm(tmc.XACTUAL)
       IN  /\ DriveDir(tmc') = 1  => mm < config.position_max_mm
           /\ DriveDir(tmc') = -1 => mm > config.position_min_mm]_vars

(* Where a motion is left, the limits are disarmed or the machine enters       *)
(* STOPPING or FAULT, the registers ask for no motion any more, unless a        *)
(* transfer of that very step fails: whatever failed starts, failed stops and   *)
(* restarts have left in the chip.  A dose or retraction that its target ends   *)
(* is not stopped by a transfer: its registers must be those of a target.       *)
Disarms == direction # 0 /\ direction' = 0
Halts == machine'.state # machine.state /\ machine'.state \in {"STOPPING", "FAULT"}

EndsAtRest ==
  [][(Disarms \/ Halts) /\ machine'.state # "BOOT" /\ glitches' = glitches =>
       DriveDir(tmc') = 0]_vars

(* On a link that works, since power-on: between two passes the LED task is   *)
(* told of every motion the registers ask for, through starts and ends in the *)
(* same pass.                                                                 *)
LedFollows == glitches = 0 /\ boots = 1 /\ pc = "poll" /\ DriveDir(tmc) # 0 => motor_moving

(* A length is on a microstep when it is within half a microstep of it.       *)
Within(x, mm) == 2 * motor_microsteps_to_mm(x) =< 2 * mm + MicrostepLen

(* A dose larger than the remaining course is refused: the target of a dose,  *)
(* which goes forward, is at most half a microstep, the rounding, beyond      *)
(* position_max_mm.                                                           *)
DoseFits ==
  machine.state = "DOSING" /\ direction = 1 => Within(tmc.XTARGET, config.position_max_mm)

(* An unload that reports position_min has brought the motor there: the       *)
(* relabelling that ends it never moves the origin of the course.             *)
UnloadHonest ==
  [][unload_result = "running" /\ unload_result' = "position_min" =>
       Within(tmc.XACTUAL, config.position_min_mm)]_vars

(* PUSH and PULL together stop the machine in the pass that sees them.        *)
ConflictStops ==
  pc = "tail" /\ buttons.push /\ buttons.pull =>
    machine.state = "FAULT" /\ (glitches = 0 => DriveDir(tmc) = 0)

(* No motion starts with critical StallGuard samples an earlier one counted.  *)
StallCountFresh ==
  [][machine.state = "READY" /\ machine'.state \in MotionStates =>
       safety.critical_count = 0]_vars

(* filter_count critical samples in a row never go unreported (a SET that     *)
(* lowers filter_count counts from the next sample on).                       *)
StallCaught ==
  config.stallguard_filter_count > 0 /\ safety.fault # "STALL" =>
    safety.critical_count < config.stallguard_filter_count

(* The calibration that measures the load is never stopped by its thresholds. *)
CalibrationNeverStalls ==
  [][machine.fault_code # "STALL" /\ machine'.fault_code = "STALL" => ~sg_cal.active]_vars

(* Every motion and every stop ends, if the link works.                       *)
MotionEnds ==
  (machine.state \in MotionStates \cup {"STOPPING"}) ~> (machine.state \in {"READY", "FAULT"})

(* A count is saved only at the end of a pass that ends in READY.  Commands   *)
(* that start the next motion in the pass that finds the last one ended do    *)
(* not put that off for ever; a machine that faults owes it no longer.        *)
CountSaved == dirty ~> (~dirty \/ machine.state = "FAULT")

(* The abstract axis: starts from rest, reverses through rest, and leaves a   *)
(* fault by an acknowledgement or a restart only, on any link and through any *)
(* number of restarts.                                                        *)
AxisMode ==
  CASE machine.state = "BOOT"     -> "off"
    [] machine.state = "READY"    -> "idle"
    [] machine.state = "STOPPING" -> "halting"
    [] machine.state = "FAULT"    -> "fault"
    [] OTHER                      -> "busy"

A == INSTANCE Axis WITH mode <- AxisMode, dir <- direction

AxisSpec == A!Spec

----------------------------------------------------------------------------
(* What the documents and tests say and the code does not do.                 *)

(* docs/communications.md:140: RESET stops the motor, then restarts: the      *)
(* firmware that comes up in READY has a motor at rest.                       *)
ResetStopsMotor == pc = "poll" /\ machine.state = "READY" => DriveDir(tmc) = 0

(* docs/communications.md:132: a fault whose cause persists is detected       *)
(* again; the machine does not move a driver that failed its set-up.          *)
FaultRedetected == machine.state \in {"READY"} \cup MotionStates => tmc.enabled

(* docs/communications.md:90: STOP stops the movement.                        *)
StopObeyed == pc = "poll" /\ machine.state = "STOPPING" => DriveDir(tmc) = 0

(* docs/hardware.md:56-57: the LED stays lit during a movement.               *)
LedTellsMotion == pc = "poll" /\ DriveDir(tmc) # 0 => motor_moving

(* tests/test_main.c:18-19: a manual push that is released goes to STOPPING.  *)
ReleaseStops == pc = "tail" /\ machine.state = "MANUAL_PUSH" => buttons.push

(* docs/communications.md:166: SGCAL FINISH computes and saves.               *)
CalibrationSaved == pc # "boot" /\ config.stallguard_enabled => saved = config
=============================================================================
