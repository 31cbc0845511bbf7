----------------------------- MODULE MotionProofs ------------------------------
(* The motor task, continued: the motions, what one pass leaves to the next,   *)
(* and where the motions go.                                                   *)
EXTENDS DispenserProofs

--------------------------------------------------------------------------------
(* On a link that works, since power-on, the registers ask for motion only in *)
(* a motion state and with the limits armed: for every course, speed, queue   *)
(* of commands and sequence of buttons.                                       *)

AtRest(t) == t.RAMPMODE = "POSITION" /\ t.XACTUAL = t.XTARGET /\ t.VACTUAL = 0

Still(t) == t.VMAX = 0 \/ AtRest(t)

(* NoUncommandedMotion is not inductive: a position-mode motor at rest stays  *)
(* at rest only if it is not coasting, and a motion leaves its mode behind in *)
(* the registers for the next state to find.                                  *)
MotorInv ==
  /\ direction = 0 => Still(tmc)
  /\ machine.state = "BOOT" => AtRest(tmc)
  /\ machine.state = "MANUAL_PUSH" => tmc.VMAX = 0 \/ tmc.RAMPMODE = "VELPOS"
  /\ machine.state = "MANUAL_PULL" => tmc.VMAX = 0 \/ tmc.RAMPMODE = "VELNEG"
  /\ machine.state \in {"DOSING", "RETRACTING", "HOMING"} =>
       tmc.VMAX = 0 \/ tmc.RAMPMODE = "POSITION"

Clean == glitches = 0 /\ boots = 1

LinkInv == /\ ~DriverPresent => tmc.VMAX = 0
           /\ Clean => MotorInv

Base == TypeOK /\ ModeInv /\ LinkInv

----------------------------------------------------------------------------
LEMMA CleanSpend ==
  ASSUME TypeOK, NEW n \in Nat, Spend(n), boots' = boots, Clean'
  PROVE  Clean /\ n = 0
BY DEF Clean, Spend, TypeOK, DriverTypeOK

LEMMA CostZero == \A o : (o.ok \in BOOLEAN /\ Cost(o) = 0) => o.ok
BY DEF Cost

LEMMA KeepLink ==
  ASSUME LinkInv, UNCHANGED <<machine, direction, tmc>>, Clean' => Clean
  PROVE  LinkInv'
BY DEF LinkInv, MotorInv

(* Whatever the state, a motor whose VMAX is 0 is still.                      *)
LEMMA HaltedLink ==
  ASSUME machine'.state # "BOOT", ~DriverPresent => tmc'.VMAX = 0, Clean' => tmc'.VMAX = 0
  PROVE  LinkInv'
BY DEF LinkInv, MotorInv, Still

(* After motor_stop: written, or a failed call was counted.                   *)
LEMMA StopWrites ==
  ASSUME TypeOK, NEW t \in Registers, ~DriverPresent => t.VMAX = 0,
         NEW stop \in motor_stop(t)
  PROVE  /\ stop.regs \in Registers
         /\ ~DriverPresent => stop.regs.VMAX = 0
         /\ Cost(stop) = 0 => stop.regs.VMAX = 0
<1>1. CASE DriverPresent
  <2>1. Write(t, "VMAX", 0).VMAX = 0
    BY <1>1 DEF Write, Registers
  <2> QED
    BY <1>1, <2>1, StopFact, CostZero
<1>2. CASE ~DriverPresent
  BY <1>2, AbsentFact
<1> QED
  BY <1>1, <1>2

LEMMA SetFaultLink ==
  ASSUME Base, NEW f \in Faults, NEW regs \in Registers, NEW n \in Nat, set_fault(f, regs, n),
         ~DriverPresent => regs.VMAX = 0, boots' = boots
  PROVE  LinkInv'
<1>1. PICK stop \in motor_stop(regs) : tmc' = stop.regs /\ Spend(n + Cost(stop))
  BY DEF set_fault
<1>2. Cost(stop) \in Nat
  BY CostFact
<1>3. Clean' => Cost(stop) = 0
  BY <1>1, <1>2, CleanSpend DEF Base
<1>4. /\ ~DriverPresent => stop.regs.VMAX = 0
      /\ Cost(stop) = 0 => stop.regs.VMAX = 0
  BY StopWrites DEF Base
<1>5. machine'.state # "BOOT"
  BY SetFaultFact DEF Base
<1> QED
  BY <1>1, <1>3, <1>4, <1>5, HaltedLink

LEMMA UnloadEndLink ==
  ASSUME Base, machine.state = "HOMING", NEW n \in Nat, NEW result, UnloadEnd(result, n), boots' = boots
  PROVE  LinkInv'
<1> DEFINE mm == config.position_min_mm
<1>0. mm \in Int /\ tmc \in Registers /\ machine \in Machines /\ (~DriverPresent => tmc.VMAX = 0)
  BY DEF Base, LinkInv, TypeOK, MotionTypeOK, SettingsTypeOK, ConfigRecords, DriverTypeOK
<1> HIDE DEF mm
<1>1. PICK stop \in motor_stop(tmc) :
        \E o \in motor_set_position_mm(stop.regs, mm) :
          tmc' = o.regs /\ Spend(n + Cost(stop) + Cost(o))
  BY DEF UnloadEnd, mm
<1>2. PICK o \in motor_set_position_mm(stop.regs, mm) :
        tmc' = o.regs /\ Spend(n + Cost(stop) + Cost(o))
  BY <1>1
<1>3. Cost(stop) \in Nat /\ Cost(o) \in Nat /\ n + Cost(stop) + Cost(o) \in Nat
  BY CostFact
<1>4. Clean' => Cost(stop) = 0
  <2>1. Clean' => n + Cost(stop) + Cost(o) = 0
    BY <1>2, <1>3, CleanSpend DEF Base
  <2> QED
    BY <1>3, <2>1
<1>5. /\ stop.regs \in Registers
      /\ ~DriverPresent => stop.regs.VMAX = 0
      /\ Cost(stop) = 0 => stop.regs.VMAX = 0
  BY <1>0, StopWrites DEF Base
<1>6. o.regs.VMAX = stop.regs.VMAX
  BY <1>0, <1>5, RelabelFact
<1>7. machine' = Dispatch(machine, "MOVE_DONE")
  BY DEF UnloadEnd
<1>8. machine'.state = "READY"
  BY <1>0, <1>7, Moved
<1> QED
  BY <1>2, <1>4, <1>5, <1>6, <1>8, HaltedLink

----------------------------------------------------------------------------
(* Commands.                                                                  *)

LEMMA ManualLink ==
  ASSUME Base, NEW d \in {-1, 1}, begin_manual(d), boots' = boots
  PROVE  LinkInv'
<1> DEFINE ev == IF d > 0 THEN "PUSH" ELSE "PULL"
<1>0. /\ tmc \in Registers /\ machine \in Machines /\ motor_cfg.manual_speed_mm_s \in Nat
      /\ machine.state = "READY"
  BY DEF Base, TypeOK, MotionTypeOK, DriverTypeOK, LoopTypeOK, begin_manual
<1>1. PICK o \in motor_manual(tmc, d, motor_cfg.manual_speed_mm_s) :
         /\ tmc' = o.regs /\ Spend(Cost(o))
         /\ o.ok => direction' = d /\ machine' = Dispatch(machine, ev)
  BY DEF begin_manual
<1> HIDE DEF ev
<1>2. Cost(o) \in Nat /\ o.ok \in BOOLEAN
  BY <1>0, CostFact, ManualFact
<1>3. ~DriverPresent => tmc'.VMAX = 0
  BY <1>0, <1>1, AbsentFact DEF Base, LinkInv
<1>4. ASSUME Clean' PROVE MotorInv'
  <2>1. Clean /\ o.ok
    BY <1>1, <1>2, <1>4, CleanSpend, CostZero DEF Base
  <2>2. direction' = d /\ machine' = Dispatch(machine, ev)
    BY <1>1, <2>1
  <2>3. machine'.state = IF d > 0 THEN "MANUAL_PUSH" ELSE "MANUAL_PULL"
    BY <1>0, <2>2, Moved DEF ev
  <2>4. DriverPresent => tmc'.RAMPMODE = IF d > 0 THEN "VELPOS" ELSE "VELNEG"
    <3> DEFINE mode == IF d > 0 THEN "VELPOS" ELSE "VELNEG"
               limit == Write(tmc, "VMAX", vel(motor_cfg.manual_speed_mm_s))
    <3>1. limit \in Registers
      BY <1>0, VelFact, WriteFact
    <3>2. tmc' = Write(limit, "RAMPMODE", mode)
      BY <1>0, <1>1, <2>1, ManualFact
    <3> HIDE DEF limit, mode
    <3>3. DriverPresent => tmc'.RAMPMODE = mode
      BY <3>1, <3>2 DEF Write, Registers
    <3> QED
      BY <3>3 DEF mode
  <2> QED
    BY <1>3, <2>2, <2>3, <2>4 DEF MotorInv
<1> QED
  BY <1>3, <1>4 DEF LinkInv

LEMMA StopLink == ASSUME Base, stop_motion, pc # "boot", boots' = boots PROVE LinkInv'
<1>1. PICK stop \in motor_stop(tmc) : tmc' = stop.regs /\ Spend(Cost(stop))
  BY DEF stop_motion, Drive
<1>2. Cost(stop) \in Nat
  BY CostFact
<1>3. Clean' => Cost(stop) = 0
  BY <1>1, <1>2, CleanSpend DEF Base
<1>4. tmc \in Registers /\ machine \in Machines /\ machine.state # "BOOT" /\ (~DriverPresent => tmc.VMAX = 0)
  BY DEF Base, LinkInv, ModeInv, TypeOK, MotionTypeOK, DriverTypeOK
<1>5. /\ ~DriverPresent => stop.regs.VMAX = 0
      /\ Cost(stop) = 0 => stop.regs.VMAX = 0
  BY <1>4, StopWrites DEF Base
<1>6. machine'.state # "BOOT"
  BY <1>4, Moved DEF stop_motion
<1> QED
  BY <1>1, <1>3, <1>5, <1>6, HaltedLink

(* A positioning that succeeded leaves position mode.                         *)
LEMMA MoveWrites ==
  ASSUME Base, NEW mm \in Int, NEW s \in Int, NEW o \in motor_move_relative(tmc, mm, s)
  PROVE  /\ o.ok \in BOOLEAN
         /\ ~DriverPresent => o.regs.VMAX = 0
         /\ o.ok => o.regs.VMAX = 0 \/ o.regs.RAMPMODE = "POSITION"
<1>0. tmc \in Registers
  BY DEF Base, TypeOK, DriverTypeOK
<1>1. ~DriverPresent => o.regs.VMAX = 0
  BY <1>0, AbsentFact DEF Base, LinkInv
<1>2. ASSUME DriverPresent, o.ok PROVE o.regs.RAMPMODE = "POSITION"
  <2> DEFINE limit  == Write(tmc, "VMAX", vel(s))
             ranged == Write(limit, "RAMPMODE", "POSITION")
             target == tmc.XACTUAL + motor_mm_to_microsteps(mm)
  <2>1. limit \in Registers
    BY <1>0, VelFact, WriteFact
  <2>2. ranged = [limit EXCEPT !.RAMPMODE = "POSITION"]
    BY <1>2 DEF Write
  <2>3. o.regs = Write(ranged, "XTARGET", target)
    BY <1>0, <1>2, MoveFact
  <2> HIDE DEF limit, ranged, target
  <2>4. o.regs = [ranged EXCEPT !.XTARGET = target]
    BY <1>2, <2>3 DEF Write
  <2> QED
    BY <2>1, <2>2, <2>4 DEF Registers
<1> QED
  BY <1>0, <1>1, <1>2, MoveFact

(* A positioning starts, or the driver refused it.                            *)
LEMMA StartLink ==
  ASSUME Base, NEW mm \in Int, NEW s \in Int, NEW o \in motor_move_relative(tmc, mm, s),
         NEW n \in Nat, Spend(n + Cost(o)), tmc' = o.regs, boots' = boots,
         o.ok => direction' # 0 /\ machine'.state \in {"DOSING", "RETRACTING", "HOMING"}
  PROVE  LinkInv'
<1>1. /\ o.ok \in BOOLEAN
      /\ ~DriverPresent => o.regs.VMAX = 0
      /\ o.ok => o.regs.VMAX = 0 \/ o.regs.RAMPMODE = "POSITION"
  BY MoveWrites
<1>2. Cost(o) \in Nat
  BY CostFact
<1>3. ASSUME Clean' PROVE o.ok
  <2>1. n + Cost(o) = 0
    BY <1>2, <1>3, CleanSpend DEF Base
  <2> QED
    BY <1>1, <1>2, <2>1, CostZero
<1>4. Clean' => MotorInv'
  BY <1>1, <1>3 DEF MotorInv
<1> QED
  BY <1>1, <1>4 DEF LinkInv

LEMMA DoseLink == ASSUME Base, NEW c \in CommandRecords, Dose(c), boots' = boots PROVE LinkInv'
<1> DEFINE distance == IF c.distance_mm > 0 THEN c.distance_mm ELSE config.trigger_dose_mm
           retract  == IF c.retract_mm >= 0 THEN c.retract_mm ELSE config.retract_distance_mm
           speed    == Speed(c.speed_mm_s, config.dosing_speed_mm_s)
<1>1. /\ distance \in Int /\ speed \in Int
      /\ machine.state = "READY" /\ machine \in Machines
  BY SpeedFact DEF CommandRecords, Base, TypeOK, MotionTypeOK, SettingsTypeOK, ConfigRecords, Dose
<1> HIDE DEF distance, retract, speed
<1>2. PICK pos \in motor_position(tmc) :
        \/ \E o \in motor_move_relative(tmc, distance, speed) :
             Spend(Cost(pos) + Cost(o)) /\ StartDose(o, 1, retract, TRUE)
        \/ Spend(Cost(pos)) /\ UNCHANGED <<motion, settings, tmc>>
  BY DEF Dose, distance, retract, speed
<1>3. Cost(pos) \in Nat
  BY CostFact
<1>4. ASSUME NEW o \in motor_move_relative(tmc, distance, speed),
             Spend(Cost(pos) + Cost(o)), StartDose(o, 1, retract, TRUE)
      PROVE  LinkInv'
  <2>1. tmc' = o.regs /\ (o.ok => direction' # 0 /\ machine' = Dispatch(machine, "DOSE"))
    BY <1>4 DEF StartDose
  <2>2. o.ok => machine'.state = "DOSING"
    BY <1>1, <2>1, Moved
  <2> QED
    BY <1>1, <1>3, <1>4, <2>1, <2>2, StartLink
<1>5. CASE Spend(Cost(pos)) /\ UNCHANGED <<motion, settings, tmc>>
  BY <1>3, <1>5, CleanSpend, KeepLink DEF Base, motion
<1> QED
  BY <1>2, <1>4, <1>5

LEMMA MoveLink == ASSUME Base, NEW c \in CommandRecords, Move(c), boots' = boots PROVE LinkInv'
<1> DEFINE speed == Speed(c.speed_mm_s, config.dosing_speed_mm_s)
           d     == IF c.distance_mm >= 0 THEN 1 ELSE -1
           fwd   == c.distance_mm > 0
           mm    == c.distance_mm
<1>1. mm \in Int /\ speed \in Int /\ machine.state = "READY" /\ machine \in Machines /\ d # 0
  BY SpeedFact DEF CommandRecords, Base, TypeOK, MotionTypeOK, SettingsTypeOK, ConfigRecords, Move
<1> HIDE DEF speed, d, fwd, mm
<1>2. PICK o \in motor_move_relative(tmc, mm, speed) : Spend(Cost(o)) /\ StartDose(o, d, 0, fwd)
  BY DEF Move, speed, d, fwd, mm
<1>3. tmc' = o.regs /\ (o.ok => direction' # 0 /\ machine' = Dispatch(machine, "DOSE"))
  BY <1>1, <1>2 DEF StartDose
<1>4. o.ok => machine'.state = "DOSING"
  BY <1>1, <1>3, Moved
<1>5. Spend(0 + Cost(o))
  BY <1>2, CostFact
<1> QED
  BY <1>1, <1>3, <1>4, <1>5, StartLink

(* A relabelling of a motor that is still leaves it still.                    *)
LEMMA RelabelLink ==
  ASSUME Base, machine.state = "READY", machine' = machine, direction' = direction,
         NEW mm \in Int, NEW o \in motor_set_position_mm(tmc, mm), tmc' = o.regs,
         NEW n \in Nat, Spend(n + Cost(o)), boots' = boots
  PROVE  LinkInv'
<1>0. tmc \in Registers /\ Cost(o) \in Nat
  BY CostFact DEF Base, TypeOK, DriverTypeOK
<1>1. /\ o.ok \in BOOLEAN
      /\ tmc'.VMAX = tmc.VMAX /\ tmc'.RAMPMODE = tmc.RAMPMODE /\ tmc'.VACTUAL = tmc.VACTUAL
      /\ o.ok /\ DriverPresent => tmc'.XACTUAL = tmc'.XTARGET
  BY <1>0, RelabelFact
<1>2. ASSUME Clean' PROVE Clean /\ o.ok
  <2>1. Clean /\ n + Cost(o) = 0
    BY <1>0, <1>2, CleanSpend DEF Base
  <2> QED
    BY <1>0, <1>1, <2>1, CostZero
<1>3. ASSUME Clean' PROVE Still(tmc')
  <2>1. direction = 0
    BY DEF Base, ModeInv, DirectionMatchesState
  <2>2. Still(tmc)
    BY <1>2, <1>3, <2>1 DEF Base, LinkInv, MotorInv
  <2>3. DriverPresent => tmc'.XACTUAL = tmc'.XTARGET
    BY <1>1, <1>2, <1>3
  <2>4. ~DriverPresent => tmc'.VMAX = 0
    BY <1>1 DEF Base, LinkInv
  <2> QED
    BY <1>1, <2>2, <2>3, <2>4 DEF Still, AtRest
<1>4. ~DriverPresent => tmc'.VMAX = 0
  BY <1>1 DEF Base, LinkInv
<1> QED
  BY <1>3, <1>4 DEF LinkInv, MotorInv

LEMMA UnloadLink == ASSUME Base, NEW c \in CommandRecords, Unload(c), boots' = boots PROVE LinkInv'
<1> DEFINE speed == Speed(c.speed_mm_s, config.manual_speed_mm_s)
           min   == config.position_min_mm
<1>1. /\ speed \in Int /\ min \in Int /\ machine.state = "READY"
      /\ machine \in Machines /\ tmc \in Registers
  BY SpeedFact DEF CommandRecords, Base, TypeOK, MotionTypeOK, SettingsTypeOK, ConfigRecords,
     DriverTypeOK, Unload
<1> HIDE DEF speed, min
<1>2. PICK pos \in motor_position(tmc) :
        \/ \E o \in motor_set_position_mm(tmc, min) :
             /\ tmc' = o.regs /\ Spend(Cost(pos) + Cost(o)) /\ UNCHANGED <<machine, direction>>
        \/ \E o \in motor_move_relative(tmc, min - pos.mm, speed) :
             /\ tmc' = o.regs /\ Spend(Cost(pos) + Cost(o))
             /\ o.ok => direction' = -1 /\ machine' = Dispatch(machine, "HOME")
  BY DEF Unload, speed, min
<1>3. Cost(pos) \in Nat /\ min - pos.mm \in Int
  BY <1>1, CostFact, PositionFact
<1>4. ASSUME NEW o \in motor_set_position_mm(tmc, min), tmc' = o.regs,
             Spend(Cost(pos) + Cost(o)), UNCHANGED <<machine, direction>>
      PROVE  LinkInv'
  BY <1>1, <1>3, <1>4, RelabelLink
<1>5. ASSUME NEW o \in motor_move_relative(tmc, min - pos.mm, speed), tmc' = o.regs,
             Spend(Cost(pos) + Cost(o)),
             o.ok => direction' = -1 /\ machine' = Dispatch(machine, "HOME")
      PROVE  LinkInv'
  <2>1. o.ok => direction' # 0 /\ machine'.state = "HOMING"
    BY <1>1, <1>5, Moved
  <2> QED
    BY <1>1, <1>3, <1>5, <2>1, StartLink
<1> QED
  BY <1>2, <1>4, <1>5

LEMMA ExecuteLink ==
  ASSUME Base, NEW c \in Commands, Execute(c), pc # "boot", boots' = boots
  PROVE  LinkInv'
<1>1. c \in CommandRecords
  BY DispenserAssumption
<1>2. CASE SetZero
  <2>1. PICK o \in motor_set_position_mm(tmc, 0) : tmc' = o.regs /\ Spend(Cost(o))
    BY <1>2 DEF SetZero, Drive, motor_set_zero
  <2>2. Spend(0 + Cost(o))
    BY <2>1, CostFact
  <2>3. machine.state = "READY" /\ UNCHANGED <<machine, direction>>
    BY <1>2 DEF SetZero, motion
  <2> QED
    BY <2>1, <2>2, <2>3, RelabelLink
<1>3. CASE FaultReset
  <2>1. /\ machine.state = "FAULT" /\ machine \in Machines /\ UNCHANGED <<direction, tmc>>
        /\ machine' = Dispatch(machine, "RESET") /\ Spend(0)
    BY <1>3 DEF FaultReset, Base, TypeOK, MotionTypeOK
  <2>2. machine'.state = "READY"
    BY <2>1, Moved
  <2>3. Clean' => Clean
    BY <2>1, CleanSpend DEF Base
  <2> QED
    BY <2>1, <2>2, <2>3 DEF Base, LinkInv, MotorInv
<1>4. CASE apply_config_value \/ CalStart \/ CalCancel \/ CalFinish \/ FlushStatistics \/ Ignored
  <2>1. UNCHANGED <<machine, direction, tmc>> /\ (Spend(0) \/ Spend(1))
    BY <1>4 DEF apply_config_value, CalStart, CalCancel, CalFinish, FlushStatistics, Ignored, motion
  <2>2. Clean' => Clean
    BY <2>1, CleanSpend DEF Base
  <2> QED
    BY <2>1, <2>2, KeepLink DEF Base
<1>5. CASE begin_manual(1) \/ begin_manual(-1) \/ stop_motion
  BY <1>5, ManualLink, StopLink
<1>6. CASE Dose(c) \/ Move(c) \/ Unload(c)
  BY <1>1, <1>6, DoseLink, MoveLink, UnloadLink
<1> QED
  BY <1>2, <1>3, <1>4, <1>5, <1>6 DEF Execute

----------------------------------------------------------------------------
(* The phases of a pass, the boots and the motor.                             *)

LEMMA BootLink == ASSUME Base, Boot PROVE LinkInv'
<1> DEFINE n == IF DriverPresent THEN 1 ELSE 0
<1>1. /\ tmc \in Registers /\ machine \in Machines /\ saved.manual_speed_mm_s \in Nat
      /\ machine.state = "BOOT" /\ direction = 0 /\ boots' = boots
  BY DEF Base, TypeOK, MotionTypeOK, SettingsTypeOK, ConfigRecords, DriverTypeOK, ModeInv,
     DirectionMatchesState, Boot
<1>2. n \in Nat /\ "SPI" \in Faults
  BY DEF Faults
<1> HIDE DEF n
<1>3. PICK init \in motor_init(tmc, saved.manual_speed_mm_s) :
        \/ /\ init.ok /\ tmc' = init.regs /\ Spend(0)
           /\ machine' = Dispatch(machine, "INIT_OK") /\ UNCHANGED direction
        \/ set_fault("SPI", init.regs, n)
  BY DEF Boot, n
<1>4. /\ init.regs \in Registers
      /\ init.regs.RAMPMODE = tmc.RAMPMODE /\ init.regs.XACTUAL = tmc.XACTUAL
      /\ init.regs.XTARGET = tmc.XTARGET /\ init.regs.VACTUAL = tmc.VACTUAL
      /\ ~DriverPresent => init.regs.VMAX = tmc.VMAX
  BY <1>1, InitFact
<1>5. ~DriverPresent => init.regs.VMAX = 0
  BY <1>4 DEF Base, LinkInv
<1>6. CASE /\ tmc' = init.regs /\ Spend(0)
           /\ machine' = Dispatch(machine, "INIT_OK") /\ UNCHANGED direction
  <2>1. machine'.state = "READY"
    BY <1>1, <1>6, Moved
  <2>2. Clean' => Clean
    BY <1>1, <1>6, CleanSpend DEF Base
  <2>3. Clean => AtRest(tmc)
    BY <1>1 DEF Base, LinkInv, MotorInv
  <2>4. Clean' => AtRest(tmc')
    BY <1>4, <1>6, <2>2, <2>3 DEF AtRest
  <2> QED
    BY <1>5, <1>6, <2>1, <2>4 DEF LinkInv, MotorInv, Still
<1>7. CASE set_fault("SPI", init.regs, n)
  BY <1>1, <1>2, <1>4, <1>5, <1>7, SetFaultLink
<1> QED
  BY <1>3, <1>6, <1>7

(* The promise ends with the first boot: the chip is not reset.               *)
LEMMA RestartLink == ASSUME Base, Restart \/ FactoryReset PROVE LinkInv'
<1>1. boots' = boots + 1 /\ boots \in Nat /\ boots # 0
  BY DispenserAssumption DEF Restart, FactoryReset, RamLost, Base, TypeOK, LoopTypeOK
<1>2. ~Clean'
  BY <1>1 DEF Clean
<1>3. ~DriverPresent => tmc'.VMAX = 0
  <2>1. tmc' = tmc \/ \E o \in motor_stop(tmc) : tmc' = o.regs
    BY DEF Restart, FactoryReset
  <2>2. tmc \in Registers /\ (~DriverPresent => tmc.VMAX = 0)
    BY DEF Base, LinkInv, TypeOK, DriverTypeOK
  <2> QED
    BY <2>1, <2>2, AbsentFact
<1> QED
  BY <1>2, <1>3 DEF LinkInv

LEMMA HandOverLink == ASSUME Base, Reboot \/ Bootsel PROVE LinkInv'
<1>1. PICK stop \in motor_stop(tmc) : tmc' = stop.regs /\ Spend(Cost(stop))
  BY DEF Reboot, Bootsel, Drive
<1>2. /\ tmc \in Registers /\ Cost(stop) \in Nat /\ (~DriverPresent => tmc.VMAX = 0)
      /\ boots' = boots /\ machine' = machine /\ machine.state # "BOOT"
  BY CostFact DEF Reboot, Bootsel, motion, system, Base, LinkInv, ModeInv, TypeOK, DriverTypeOK
<1>3. Clean' => Cost(stop) = 0
  BY <1>1, <1>2, CleanSpend DEF Base
<1>4. /\ ~DriverPresent => stop.regs.VMAX = 0
      /\ Cost(stop) = 0 => stop.regs.VMAX = 0
  BY <1>2, StopWrites DEF Base
<1> QED
  BY <1>1, <1>2, <1>3, <1>4, HaltedLink

LEMMA QuietLink == ASSUME Base, Poll \/ Drain \/ KeysInFault \/ Tail PROVE LinkInv'
<1>1. UNCHANGED <<machine, direction, tmc, boots>>
  BY DEF Poll, Drain, KeysInFault, Tail, motion, system
<1>2. glitches' = glitches \/ Spend(0) \/ Spend(1)
  BY DEF Poll, Drain, KeysInFault, Tail
<1>3. Clean' => Clean
  BY <1>1, <1>2, CleanSpend DEF Base, Clean
<1> QED
  BY <1>1, <1>3, KeepLink DEF Base

LEMMA ConflictLink == ASSUME Base, Conflict PROVE LinkInv'
<1>1. /\ set_fault("BUTTON_CONFLICT", tmc, 0) /\ "BUTTON_CONFLICT" \in Faults /\ tmc \in Registers
      /\ boots' = boots /\ (~DriverPresent => tmc.VMAX = 0)
  BY DEF Conflict, Faults, system, Base, LinkInv, TypeOK, DriverTypeOK
<1> QED
  BY <1>1, SetFaultLink

LEMMA KeysLink == ASSUME Base, Keys PROVE LinkInv'
<1>1. pc # "boot" /\ boots' = boots
  BY DEF Keys, system
<1>2. /\ config.trigger_dose_mm \in Int /\ config.dosing_speed_mm_s \in Int
      /\ config.retract_distance_mm \in Int
  BY DEF Base, TypeOK, SettingsTypeOK, ConfigRecords
<1>3. Trigger \in CommandRecords
  BY <1>2 DEF Trigger, CommandRecords, CommandKinds, ReadyKinds
<1>4. CASE begin_manual(1) \/ begin_manual(-1) \/ Dose(Trigger) \/ stop_motion
  BY <1>1, <1>3, <1>4, ManualLink, DoseLink, StopLink
<1>5. CASE Ignored
  <2>1. UNCHANGED <<machine, direction, tmc>> /\ Spend(0)
    BY <1>5 DEF Ignored, motion
  <2>2. Clean' => Clean
    BY <1>1, <2>1, CleanSpend DEF Base
  <2> QED
    BY <2>1, <2>2, KeepLink DEF Base
<1> QED
  BY <1>4, <1>5 DEF Keys

(* A motion that reached its target is over.                                  *)
LEMMA ArrivedLink ==
  ASSUME Base, machine.state \in {"DOSING", "RETRACTING"}, UNCHANGED <<tmc, boots>>,
         Clean' => Clean, tmc.XACTUAL = tmc.XTARGET, tmc.VACTUAL = 0,
         machine'.state \in {"RETRACTING", "READY"}
  PROVE  LinkInv'
<1>1. Clean => tmc.VMAX = 0 \/ tmc.RAMPMODE = "POSITION"
  BY DEF Base, LinkInv, MotorInv
<1>2. Clean => Still(tmc)
  BY <1>1 DEF Still, AtRest
<1> QED
  BY <1>1, <1>2 DEF Base, LinkInv, MotorInv, Still

LEMMA ReachedFact ==
  ASSUME NEW r \in motor_target_reached(tmc), r.value
  PROVE  tmc.XACTUAL = tmc.XTARGET /\ tmc.VACTUAL = 0
<1> DEFINE there == tmc.XACTUAL = tmc.XTARGET /\ tmc.VACTUAL = 0
<1> SUFFICES ASSUME ~there PROVE FALSE
  OBVIOUS
<1>1. r = [value |-> there, ok |-> TRUE] \/ r = [value |-> FALSE, ok |-> FALSE]
  BY DEF motor_target_reached
<1>2. there = FALSE
  OBVIOUS
<1> HIDE DEF there
<1>3. r = [value |-> FALSE, ok |-> TRUE] \/ r = [value |-> FALSE, ok |-> FALSE]
  BY <1>1, <1>2, Zenon
<1>4. r.value = FALSE
  BY <1>3
<1> QED
  BY <1>4

LEMMA SettleLink == ASSUME Base, Settle PROVE LinkInv'
<1>1. UNCHANGED <<tmc, boots>> /\ machine \in Machines
  BY DEF Settle, system, Base, TypeOK, MotionTypeOK
<1>2. CASE Stopped
  <2>1. PICK r \in motor_is_stopped(tmc) :
          /\ Spend(Cost(r))
          /\ machine' = IF r.value THEN Dispatch(machine, "STOPPED") ELSE machine
    BY <1>2 DEF Stopped
  <2>2. machine.state = "STOPPING" /\ direction' = direction
    BY <1>2 DEF Stopped
  <2>3. machine'.state \in {"STOPPING", "READY"}
    BY <1>1, <2>1, <2>2, Moved
  <2>4. Clean' => Clean
    BY <1>1, <2>1, CostFact, CleanSpend DEF Base
  <2> QED
    BY <1>1, <2>2, <2>3, <2>4 DEF Base, LinkInv, MotorInv
<1>3. CASE DoseDone
  <2> DEFINE done == Dispatch(machine, "MOVE_DONE")
  <2>1. PICK r \in motor_target_reached(tmc) :
          /\ Spend(Cost(r))
          /\ IF r.value THEN machine' = done \/ machine' = Dispatch(done, "MOVE_DONE")
                        ELSE UNCHANGED <<machine, direction>>
    BY <1>3 DEF DoseDone
  <2>2. Clean' => Clean
    BY <1>1, <2>1, CostFact, CleanSpend DEF Base
  <2>3. machine.state = "DOSING"
    BY <1>3 DEF DoseDone
  <2>4. done.state = "RETRACTING" /\ done \in Machines
    BY <1>1, <2>3, Moved, DispatchFact
  <2> HIDE DEF done
  <2>5. CASE r.value
    <3>1. machine'.state \in {"RETRACTING", "READY"}
      BY <2>1, <2>4, <2>5, Moved
    <3>2. tmc.XACTUAL = tmc.XTARGET /\ tmc.VACTUAL = 0
      BY <2>5, ReachedFact
    <3> QED
      BY <1>1, <2>2, <2>3, <3>1, <3>2, ArrivedLink
  <2>6. CASE ~r.value
    BY <1>1, <2>1, <2>2, <2>6, KeepLink DEF Base
  <2> QED
    BY <2>5, <2>6
<1>4. CASE UNCHANGED <<machine, direction, phase_ms, glitches>>
  BY <1>1, <1>4, KeepLink DEF Base, Clean
<1> QED
  BY <1>2, <1>3, <1>4 DEF Settle

LEMMA RetractLink == ASSUME Base, Retract PROVE LinkInv'
<1>1. boots' = boots /\ machine \in Machines /\ tmc \in Registers
  BY DEF Retract, system, Base, TypeOK, MotionTypeOK, DriverTypeOK
<1>2. CASE RetractStart
  <2>1. -retract_mm \in Int /\ config.retract_speed_mm_s \in Int /\ "SPI" \in Faults
    BY DEF Base, TypeOK, MotionTypeOK, SettingsTypeOK, ConfigRecords, Faults
  <2>2. PICK o \in motor_move_relative(tmc, -retract_mm, config.retract_speed_mm_s) :
          \/ o.ok /\ tmc' = o.regs /\ direction' = -1 /\ Spend(0) /\ UNCHANGED machine
          \/ ~o.ok /\ set_fault("SPI", o.regs, 1)
    BY <1>2 DEF RetractStart
  <2>3. machine.state = "RETRACTING"
    BY <1>2 DEF RetractStart, RetractDue
  <2>4. CASE o.ok /\ tmc' = o.regs /\ direction' = -1 /\ Spend(0) /\ UNCHANGED machine
    <3>1. Spend(0 + Cost(o))
      BY <2>4 DEF Cost
    <3> QED
      BY <1>1, <2>1, <2>3, <2>4, <3>1, StartLink
  <2>5. CASE set_fault("SPI", o.regs, 1)
    <3>1. o.regs \in Registers /\ (~DriverPresent => o.regs.VMAX = 0)
      BY <1>1, <2>1, MoveFact, MoveWrites
    <3> QED
      BY <1>1, <2>1, <2>5, <3>1, SetFaultLink
  <2> QED
    BY <2>2, <2>4, <2>5
<1>3. CASE RetractDone
  <2>1. PICK r \in motor_target_reached(tmc) :
          /\ Spend(Cost(r))
          /\ IF r.value THEN machine' = Dispatch(machine, "MOVE_DONE")
                        ELSE UNCHANGED <<direction, machine>>
    BY <1>3 DEF RetractDone
  <2>2. Clean' => Clean
    BY <1>1, <2>1, CostFact, CleanSpend DEF Base
  <2>3. machine.state = "RETRACTING" /\ tmc' = tmc
    BY <1>3 DEF RetractDone
  <2>4. CASE r.value
    <3>1. machine'.state = "READY"
      BY <1>1, <2>1, <2>3, <2>4, Moved
    <3>2. tmc.XACTUAL = tmc.XTARGET /\ tmc.VACTUAL = 0
      BY <2>4, ReachedFact
    <3> QED
      BY <1>1, <2>2, <2>3, <3>1, <3>2, ArrivedLink
  <2>5. CASE ~r.value
    BY <2>1, <2>2, <2>3, <2>5, KeepLink DEF Base
  <2> QED
    BY <2>4, <2>5
<1>4. CASE HomingDone
  <2>1. machine.state = "HOMING"
    BY <1>4 DEF HomingDone
  <2>2. PICK r \in motor_target_reached(tmc) :
          \/ UnloadEnd("position_min", 0)
          \/ Spend(Cost(r)) /\ UNCHANGED <<machine, direction, unload_result, tmc>>
    BY <1>4 DEF HomingDone
  <2>3. CASE UnloadEnd("position_min", 0)
    BY <1>1, <2>1, <2>3, UnloadEndLink
  <2>4. CASE Spend(Cost(r)) /\ UNCHANGED <<machine, direction, unload_result, tmc>>
    BY <1>1, <2>4, CostFact, CleanSpend, KeepLink DEF Base
  <2> QED
    BY <2>2, <2>3, <2>4
<1>5. CASE UNCHANGED <<machine, direction, unload_result, tmc, glitches>>
  BY <1>1, <1>5, KeepLink DEF Base, Clean
<1> QED
  BY <1>2, <1>3, <1>4, <1>5 DEF Retract

LEMMA CheckLink == ASSUME Base, Check PROVE LinkInv'
<1>1. boots' = boots /\ tmc \in Registers /\ (~DriverPresent => tmc.VMAX = 0)
  BY DEF Check, system, Base, LinkInv, TypeOK, DriverTypeOK
<1>2. PICK s \in SafetyRecords, failed \in Nat :
        \/ Spend(failed) /\ UNCHANGED <<machine, direction, unload_result, tmc>>
        \/ /\ machine.state = "HOMING"
           /\ UnloadEnd(IF s.fault = "STALL" THEN "stall" ELSE "position_min", failed)
        \/ set_fault(s.fault, tmc, failed)
  BY CheckCases DEF Base
<1>3. s.fault \in Faults
  BY DEF SafetyRecords
<1>4. CASE Spend(failed) /\ UNCHANGED <<machine, direction, unload_result, tmc>>
  BY <1>1, <1>4, CleanSpend, KeepLink DEF Base
<1>5. CASE /\ machine.state = "HOMING"
           /\ UnloadEnd(IF s.fault = "STALL" THEN "stall" ELSE "position_min", failed)
  BY <1>1, <1>5, UnloadEndLink
<1>6. CASE set_fault(s.fault, tmc, failed)
  BY <1>1, <1>3, <1>6, SetFaultLink
<1> QED
  BY <1>2, <1>4, <1>5, <1>6

(* A motor at rest stays at rest; a moving one keeps its mode.                *)
LEMMA RampLink == ASSUME Base, RampGo \/ RampCoast \/ RampHalt PROVE LinkInv'
<1>1. /\ tmc \in Registers /\ tmc' \in {Advance(tmc), Coast(tmc), Halt(tmc)}
      /\ UNCHANGED <<machine, direction, boots, glitches>>
  BY DEF RampGo, RampCoast, RampHalt, Moves, firmware, motion, system, Base, TypeOK, DriverTypeOK
<1>2. tmc'.VMAX = tmc.VMAX /\ tmc'.RAMPMODE = tmc.RAMPMODE
  BY <1>1, RampFact
<1>3. ~AtRest(tmc)
  <2>1. tmc.VACTUAL # 0 \/ DriveDir(tmc) # 0
    BY DEF RampGo, RampCoast, RampHalt, Coasting
  <2>2. AtRest(tmc) => DriveDir(tmc) = 0 /\ tmc.VACTUAL = 0
    BY <1>1 DEF AtRest, DriveDir, Sign, Registers
  <2> QED
    BY <2>1, <2>2
<1>4. machine.state # "BOOT" \/ ~Clean
  BY <1>3 DEF Base, LinkInv, MotorInv
<1> QED
  BY <1>1, <1>2, <1>3, <1>4 DEF Base, LinkInv, MotorInv, Still, Clean

----------------------------------------------------------------------------
LEMMA InitLink == Init => LinkInv
BY DEF Init, MachineInit, PowerOnRegs, LinkInv, MotorInv, Still, AtRest

LEMMA NextLink == Base /\ [Next]_vars => LinkInv'
<1> SUFFICES ASSUME Base, [Next]_vars PROVE LinkInv'
  OBVIOUS
<1>1. CASE UNCHANGED vars
  BY <1>1, KeepLink DEF vars, motion, system, Base, Clean
<1>2. CASE \E c \in Commands : Exec(c)
  <2>1. PICK c \in Commands : Exec(c)
    BY <1>2
  <2>2. Execute(c) /\ pc # "boot" /\ boots' = boots
    BY <2>1 DEF Exec, system
  <2> QED
    BY <2>2, ExecuteLink
<1>3. CASE Boot \/ Restart \/ FactoryReset \/ Reboot \/ Bootsel
  BY <1>3, BootLink, RestartLink, HandOverLink
<1>4. CASE Poll \/ Drain \/ KeysInFault \/ Tail \/ Conflict \/ Keys
  BY <1>4, QuietLink, ConflictLink, KeysLink
<1>5. CASE Settle \/ Retract \/ Check
  BY <1>5, SettleLink, RetractLink, CheckLink
<1>6. CASE RampGo \/ RampCoast \/ RampHalt
  BY <1>6, RampLink
<1> QED
  BY <1>1, <1>2, <1>3, <1>4, <1>5, <1>6 DEF Next, Pass

LEMMA LinkInvariant == Spec => []LinkInv
<1>1. TypeOK /\ ModeInv /\ LinkInv /\ [Next]_vars => LinkInv'
  BY NextLink DEF Base
<1> QED
  BY InitLink, TypeHolds, ModeInvariant, <1>1, PTL DEF Spec

LEMMA LinkImplies == TypeOK /\ ModeInv /\ LinkInv => NoUncommandedMotion
<1> SUFFICES ASSUME TypeOK, ModeInv, LinkInv, Clean
             PROVE  /\ DriveDir(tmc) # 0 => machine.state \in MotionStates /\ direction # 0
                    /\ machine.state \in ManualStates => DriveDir(tmc) \in {0, direction}
  BY DEF NoUncommandedMotion, Clean
<1>1. MotorInv /\ tmc \in Registers /\ machine.state \in States
  BY DEF LinkInv, TypeOK, DriverTypeOK, MotionTypeOK, Machines
<1>2. Still(tmc) => DriveDir(tmc) = 0
  BY <1>1 DEF Still, AtRest, DriveDir, Sign, Registers
<1>3. direction # 0 => machine.state \in MotionStates
  BY <1>1 DEF ModeInv, DirectionMatchesState, MotionStates, ManualStates, States
<1>4. CASE machine.state = "MANUAL_PUSH"
  BY <1>1, <1>2, <1>3, <1>4 DEF MotorInv, DriveDir, ModeInv, DirectionMatchesState
<1>5. CASE machine.state = "MANUAL_PULL"
  BY <1>1, <1>2, <1>3, <1>5 DEF MotorInv, DriveDir, ModeInv, DirectionMatchesState
<1>6. CASE machine.state \notin ManualStates
  BY <1>1, <1>2, <1>3, <1>6 DEF MotorInv
<1> QED
  BY <1>4, <1>5, <1>6 DEF ManualStates

(* On a link that works, since power-on: the registers ask for motion only in *)
(* a motion state with the limits armed, and a manual motion turns the way it *)
(* was asked.                                                                 *)
THEOREM MotionCommanded == Spec => []NoUncommandedMotion
BY LinkInvariant, ModeInvariant, TypeHolds, LinkImplies, PTL

--------------------------------------------------------------------------------
(* What one pass of the motor task leaves to the next, for every value of the *)
(* constants: the count of critical samples, the latched fault, the conflict  *)
(* of the contacts and what the LED task is told.                             *)

(* The phases between the look at the contacts and the end of the pass.       *)
Midway == {"settle", "retract", "check"}

(* A motion's count outlives it by the rest of the pass that ends it only, as *)
(* far as the safety check; a pass that gets there has no latched fault.      *)
LoadInv ==
  /\ pc \in Midway => safety.fault = "OK"
  /\ pc \notin Midway /\ machine.state \in {"BOOT", "READY"} => safety.critical_count = 0

(* A pass that goes on past the contacts has seen no conflict.                *)
ConflictInv ==
  /\ pc \in Midway => ~IsConflict(buttons)
  /\ pc = "tail" /\ IsConflict(buttons) =>
       machine.state = "FAULT" /\ (glitches = 0 => tmc.VMAX = 0)

LedInv ==
  /\ pc = "boot" => motor_moving = FALSE
  /\ pc = "poll" => (motor_moving <=> machine.state \in LedStates)

----------------------------------------------------------------------------
(* What a command does to the two records.                                    *)
CommandEffect ==
  /\ machine'.fault_code \in {machine.fault_code, "OK"}
  /\ safety'.fault \in {safety.fault, "OK"}
  /\ \/ UNCHANGED <<machine, safety>>
     \/ machine.state = "READY" /\ machine'.state \in MotionStates
     \/ machine.state # "FAULT" /\ machine'.state = "STOPPING" /\ safety' = safety
     \/ machine.state = "FAULT" /\ machine'.state = "READY" /\ safety' = SafetyInit

LEMMA ManualEffect ==
  ASSUME TypeOK, NEW d \in {-1, 1}, begin_manual(d)
  PROVE  CommandEffect
<1>1. machine.state = "READY" /\ machine \in Machines /\ safety \in SafetyRecords
  BY DEF begin_manual, TypeOK, MotionTypeOK
<1>2. \/ UNCHANGED <<machine, safety>>
      \/ /\ safety' = ManualStarted(safety)
         /\ machine' = Dispatch(machine, IF d > 0 THEN "PUSH" ELSE "PULL")
  BY DEF begin_manual
<1>3. CASE UNCHANGED <<machine, safety>>
  BY <1>3 DEF CommandEffect
<1>4. CASE /\ safety' = ManualStarted(safety)
           /\ machine' = Dispatch(machine, IF d > 0 THEN "PUSH" ELSE "PULL")
  <2>1. machine'.state \in MotionStates /\ machine'.fault_code = machine.fault_code
    BY <1>1, <1>4, Moved DEF MotionStates, ManualStates
  <2>2. safety'.fault = safety.fault
    BY <1>1, <1>4, ManualStartedFact
  <2> QED
    BY <1>1, <2>1, <2>2 DEF CommandEffect
<1> QED
  BY <1>2, <1>3, <1>4

LEMMA StopEffect == ASSUME TypeOK, stop_motion PROVE CommandEffect
<1>1. machine \in Machines /\ safety' = safety
  BY DEF stop_motion, TypeOK, MotionTypeOK
<1>2. CASE machine.state = "FAULT"
  BY <1>1, <1>2 DEF stop_motion, CommandEffect
<1>3. CASE machine.state # "FAULT"
  <2>1. machine'.state = "STOPPING" /\ machine'.fault_code = machine.fault_code
    BY <1>1, <1>3, Moved DEF stop_motion
  <2> QED
    BY <1>1, <1>3, <2>1 DEF CommandEffect
<1> QED
  BY <1>2, <1>3

LEMMA StartDoseEffect ==
  ASSUME TypeOK, machine.state = "READY", NEW o, NEW d, NEW r, NEW counted,
         StartDose(o, d, r, counted)
  PROVE  CommandEffect
<1>1. machine \in Machines /\ safety' = safety
  BY DEF StartDose, TypeOK, MotionTypeOK
<1>2. CASE machine' = machine
  BY <1>1, <1>2 DEF CommandEffect
<1>3. CASE machine' = Dispatch(machine, "DOSE")
  <2>1. machine'.state \in MotionStates /\ machine'.fault_code = machine.fault_code
    BY <1>1, <1>3, Moved DEF MotionStates
  <2> QED
    BY <1>1, <2>1 DEF CommandEffect
<1> QED
  BY <1>2, <1>3 DEF StartDose

LEMMA DoseEffect == ASSUME TypeOK, NEW c, Dose(c) PROVE CommandEffect
<1>1. machine.state = "READY"
  BY DEF Dose
<1>2. CASE \E o, r : StartDose(o, 1, r, TRUE)
  BY <1>1, <1>2, StartDoseEffect
<1>3. CASE UNCHANGED motion
  BY <1>3 DEF motion, CommandEffect
<1> QED
  BY <1>2, <1>3 DEF Dose

LEMMA MoveEffect == ASSUME TypeOK, NEW c, Move(c) PROVE CommandEffect
<1> DEFINE d   == IF c.distance_mm >= 0 THEN 1 ELSE -1
           fwd == c.distance_mm > 0
<1>1. machine.state = "READY"
  BY DEF Move
<1>2. \E o : StartDose(o, d, 0, fwd)
  BY DEF Move
<1> HIDE DEF d, fwd
<1> QED
  BY <1>1, <1>2, StartDoseEffect

LEMMA UnloadEffect == ASSUME TypeOK, NEW c, Unload(c) PROVE CommandEffect
<1>1. machine.state = "READY" /\ machine \in Machines
  BY DEF Unload, TypeOK, MotionTypeOK
<1>2. CASE safety' = ManualStarted(SafetyInit) /\ machine' = Dispatch(machine, "HOME")
  <2>1. machine'.state \in MotionStates /\ machine'.fault_code = machine.fault_code
    BY <1>1, <1>2, Moved DEF MotionStates
  <2>2. safety'.fault = "OK"
    BY <1>2, SafetyInitFact, ManualStartedFact DEF SafetyInit
  <2> QED
    BY <1>1, <2>1, <2>2 DEF CommandEffect
<1>3. CASE UNCHANGED <<safety, machine>>
  BY <1>3 DEF CommandEffect
<1> QED
  BY <1>2, <1>3 DEF Unload

LEMMA OtherEffect ==
  ASSUME SetZero \/ apply_config_value \/ CalStart \/ CalCancel \/ CalFinish \/ FlushStatistics \/ Ignored
  PROVE  CommandEffect
<1>1. UNCHANGED <<machine, safety>>
  BY DEF SetZero, apply_config_value, CalStart, CalCancel, CalFinish, FlushStatistics, Ignored, motion
<1> QED
  BY <1>1 DEF CommandEffect

LEMMA FaultResetEffect == ASSUME TypeOK, FaultReset PROVE CommandEffect
<1>1. machine.state = "FAULT" /\ machine \in Machines
  BY DEF FaultReset, TypeOK, MotionTypeOK
<1>2. machine' = Dispatch(machine, "RESET") /\ safety' = SafetyInit
  BY DEF FaultReset
<1>3. machine'.state = "READY" /\ machine'.fault_code = "OK" /\ safety'.fault = "OK"
  BY <1>1, <1>2, Moved DEF SafetyInit
<1> QED
  BY <1>1, <1>2, <1>3 DEF CommandEffect

LEMMA ExecuteEffect == ASSUME TypeOK, NEW c, Execute(c) PROVE CommandEffect
BY ManualEffect, StopEffect, DoseEffect, MoveEffect, UnloadEffect, OtherEffect, FaultResetEffect
DEF Execute

LEMMA KeysEffect == ASSUME TypeOK, Keys PROVE CommandEffect
<1>1. begin_manual(1) \/ begin_manual(-1) \/ Dose(Trigger) \/ stop_motion \/ Ignored
  BY DEF Keys
<1> QED
  BY <1>1, ManualEffect, StopEffect, DoseEffect, OtherEffect

(* The ends of motions and stops that are observed between two checks.        *)
LEMMA EndEffect ==
  ASSUME TypeOK, Settle \/ Retract
  PROVE  /\ safety' = safety /\ pc' \in Midway
         /\ \/ machine' = machine
            \/ machine.state # "READY" /\ machine'.fault_code \in {machine.fault_code, "OK", "SPI"}
<1>1. safety' = safety /\ pc' \in Midway /\ machine \in Machines /\ tmc \in Registers
  BY DEF Settle, Retract, Midway, TypeOK, MotionTypeOK, DriverTypeOK
<1>2. CASE \E e : machine.state # "READY" /\ machine' = Dispatch(machine, e)
  BY <1>1, <1>2, Moved
<1>3. CASE DoseDone
  <2> DEFINE done == Dispatch(machine, "MOVE_DONE")
  <2>1. machine.state = "DOSING" /\ (machine' = machine \/ machine' = done \/ machine' = Dispatch(done, "MOVE_DONE"))
    BY <1>3 DEF DoseDone
  <2>2. done \in Machines /\ done.fault_code = machine.fault_code
    BY <1>1, DispatchFact, Moved
  <2> HIDE DEF done
  <2>3. CASE machine' = Dispatch(done, "MOVE_DONE")
    BY <1>1, <2>1, <2>2, <2>3, Moved
  <2> QED
    BY <1>1, <2>1, <2>2, <2>3
<1>4. CASE RetractStart
  <2>1. PICK o \in motor_move_relative(tmc, -retract_mm, config.retract_speed_mm_s) :
          machine' = machine \/ set_fault("SPI", o.regs, 1)
    BY <1>4 DEF RetractStart
  <2>2. -retract_mm \in Int /\ config.retract_speed_mm_s \in Int /\ "SPI" \in Faults
    BY DEF TypeOK, MotionTypeOK, SettingsTypeOK, ConfigRecords, Faults
  <2>3. o.regs \in Registers
    BY <1>1, <2>2, MoveFact
  <2>4. CASE set_fault("SPI", o.regs, 1)
    <3>1. machine' = [state |-> "FAULT", fault_code |-> "SPI"]
      BY <2>2, <2>3, <2>4, SetFaultFact
    <3>2. machine.state # "READY"
      BY <1>4 DEF RetractStart, RetractDue
    <3> QED
      BY <1>1, <3>1, <3>2
  <2> QED
    BY <1>1, <2>1, <2>4
<1>5. CASE Stopped \/ RetractDone \/ HomingDone
  <2>1. machine.state # "READY"
    BY <1>5 DEF Stopped, RetractDone, HomingDone
  <2>2. machine' = machine \/ \E e : machine' = Dispatch(machine, e)
    BY <1>5 DEF Stopped, RetractDone, HomingDone, UnloadEnd
  <2> QED
    BY <1>1, <1>2, <2>1, <2>2
<1> QED
  BY <1>1, <1>3, <1>4, <1>5 DEF Settle, Retract

----------------------------------------------------------------------------
(* The counts and the latched fault.                                          *)

LEMMA ExecLoad ==
  ASSUME TypeOK, ModeInv, LoadInv, CommandEffect,
         \/ pc = "exec" /\ pc' = "exec"
         \/ machine.state # "FAULT" /\ pc' = "settle"
  PROVE  LoadInv'
<1>1. CASE pc = "exec" /\ pc' = "exec"
  <2>1. pc \notin Midway /\ pc' \notin Midway
    BY <1>1 DEF Midway
  <2>2. ASSUME machine'.state \in {"BOOT", "READY"} PROVE safety'.critical_count = 0
    <3>1. CASE UNCHANGED <<machine, safety>>
      BY <2>1, <2>2, <3>1 DEF LoadInv
    <3>2. CASE safety' = SafetyInit
      BY <3>2 DEF SafetyInit
    <3> QED
      BY <2>2, <3>1, <3>2 DEF CommandEffect, MotionStates, ManualStates
  <2> QED
    BY <2>1, <2>2 DEF LoadInv
<1>2. CASE machine.state # "FAULT" /\ pc' = "settle"
  <2>1. safety'.fault = "OK"
    BY <1>2 DEF CommandEffect, ModeInv, FaultConsistent
  <2> QED
    BY <1>2, <2>1 DEF LoadInv, Midway
<1> QED
  BY <1>1, <1>2

LEMMA SetFaultState ==
  ASSUME TypeOK, NEW f, NEW regs, NEW n, set_fault(f, regs, n)
  PROVE  machine'.state \notin MotionStates \cup {"BOOT", "READY"}
<1>1. machine'.state = NextState(machine.state, "FAULT")
  BY DEF set_fault, Faulted, Dispatch, TypeOK, MotionTypeOK, Machines
<1> QED
  BY <1>1 DEF NextState, BackToReady, MotionStates, ManualStates

LEMMA FaultedLoad ==
  ASSUME TypeOK, NEW f \in Faults, NEW regs \in Registers, NEW n \in Nat, set_fault(f, regs, n),
         pc' \notin Midway
  PROVE  LoadInv'
<1>1. machine' = [state |-> "FAULT", fault_code |-> f]
  BY SetFaultFact
<1> QED
  BY <1>1 DEF LoadInv

LEMMA BootLoad == ASSUME TypeOK, ModeInv, LoadInv, Boot PROVE LoadInv'
<1>1. safety' = safety /\ pc = "boot" /\ pc' = "poll" /\ machine.state = "BOOT"
  BY DEF Boot, ModeInv
<1> QED
  BY <1>1 DEF LoadInv, Midway

LEMMA CheckLoad == ASSUME TypeOK, LoadInv, Check PROVE LoadInv'
<1>1. pc' \notin Midway /\ tmc \in Registers
  BY DEF Check, Midway, TypeOK, DriverTypeOK
<1>2. PICK s \in SafetyRecords, failed \in Nat :
        /\ machine.state \notin MotionStates /\ s.fault = "OK" => s.critical_count = 0
        /\ \/ s.fault = "OK" /\ safety' = s /\ UNCHANGED machine
           \/ safety' = SafetyInit
           \/ set_fault(s.fault, tmc, failed)
  BY CheckCases
<1>3. CASE s.fault = "OK" /\ safety' = s /\ UNCHANGED machine
  BY <1>1, <1>2, <1>3 DEF LoadInv, MotionStates, ManualStates
<1>4. CASE safety' = SafetyInit
  BY <1>1, <1>4 DEF LoadInv, SafetyInit
<1>5. CASE set_fault(s.fault, tmc, failed)
  <2>1. s.fault \in Faults
    BY DEF SafetyRecords
  <2> QED
    BY <1>1, <1>5, <2>1, FaultedLoad
<1> QED
  BY <1>2, <1>3, <1>4, <1>5

LEMMA ConflictLoad == ASSUME TypeOK, Conflict PROVE LoadInv'
<1>1. /\ set_fault("BUTTON_CONFLICT", tmc, 0) /\ tmc \in Registers
      /\ "BUTTON_CONFLICT" \in Faults /\ pc' \notin Midway
  BY DEF Conflict, TypeOK, DriverTypeOK, Faults, Midway
<1> QED
  BY <1>1, FaultedLoad

(* Nothing the load invariant reads changes, but the clock of the check.      *)
LEMMA QuietLoad ==
  ASSUME TypeOK, LoadInv,
         \/ Poll \/ Drain \/ KeysInFault \/ Tail \/ Reboot \/ Bootsel
         \/ RampGo \/ RampCoast \/ RampHalt \/ UNCHANGED vars
  PROVE  LoadInv'
<1>1. machine' = machine /\ (pc \in Midway <=> pc' \in Midway)
  BY DEF Poll, Drain, KeysInFault, Tail, Reboot, Bootsel, RampGo, RampCoast, RampHalt, firmware,
     vars, motion, Midway
<1>2. safety'.fault = safety.fault /\ safety'.critical_count = safety.critical_count
  <2>1. CASE Poll
    BY <2>1 DEF Poll, TypeOK, MotionTypeOK, SafetyRecords
  <2>2. CASE ~Poll
    BY <2>2 DEF Drain, KeysInFault, Tail, Reboot, Bootsel, RampGo, RampCoast, RampHalt,
       firmware, vars, motion
  <2> QED
    BY <2>1, <2>2
<1> QED
  BY <1>1, <1>2 DEF LoadInv

LEMMA NextLoad == TypeOK /\ ModeInv /\ LoadInv /\ [Next]_vars => LoadInv'
<1> SUFFICES ASSUME TypeOK, ModeInv, LoadInv, [Next]_vars PROVE LoadInv'
  OBVIOUS
<1>1. CASE \E c \in Commands : Exec(c)
  <2>1. PICK c \in Commands : Exec(c)
    BY <1>1
  <2>2. pc = "exec" /\ pc' = "exec" /\ Execute(c)
    BY <2>1 DEF Exec
  <2>3. CommandEffect
    BY <2>2, ExecuteEffect
  <2> QED
    BY <2>2, <2>3, ExecLoad
<1>2. CASE Keys
  <2>1. pc = "keys" /\ machine.state # "FAULT" /\ pc' = "settle"
    BY <1>2 DEF Keys
  <2> QED
    BY <1>2, <2>1, KeysEffect, ExecLoad
<1>3. CASE Settle \/ Retract
  <2>1. pc \in Midway
    BY <1>3 DEF Settle, Retract, Midway
  <2> QED
    BY <1>3, <2>1, EndEffect DEF LoadInv
<1>4. CASE Restart \/ FactoryReset
  <2>1. safety' = SafetyInit /\ pc' = "boot"
    BY <1>4 DEF Restart, FactoryReset, RamLost
  <2> QED
    BY <2>1 DEF LoadInv, SafetyInit, Midway
<1>5. CASE Boot \/ Check \/ Conflict
  BY <1>5, BootLoad, CheckLoad, ConflictLoad
<1>6. CASE \/ Poll \/ Drain \/ KeysInFault \/ Tail \/ Reboot \/ Bootsel
           \/ RampGo \/ RampCoast \/ RampHalt \/ UNCHANGED vars
  BY <1>6, QuietLoad
<1> QED
  BY <1>1, <1>2, <1>3, <1>4, <1>5, <1>6 DEF Next, Pass

LEMMA LoadInvariant == Spec => []LoadInv
<1>1. Init => LoadInv
  BY DEF Init, LoadInv, SafetyInit, Midway
<1> QED
  BY <1>1, NextLoad, TypeHolds, ModeInvariant, PTL DEF Spec

(* A motion leaves READY by a command or a contact.                           *)
LEMMA StartPhase ==
  ASSUME TypeOK, ModeInv, [Next]_vars, machine.state = "READY", machine'.state \in MotionStates
  PROVE  pc \in {"exec", "keys"}
<1>1. CASE Settle \/ Retract
  BY <1>1, EndEffect DEF MotionStates, ManualStates
<1>2. CASE Conflict
  BY <1>2, SetFaultState DEF Conflict
<1>3. CASE Check
  <2>1. PICK s \in SafetyRecords, failed \in Nat :
          UNCHANGED machine \/ machine.state = "HOMING" \/ set_fault(s.fault, tmc, failed)
    BY <1>3, CheckCases
  <2> QED
    BY <2>1, SetFaultState DEF MotionStates, ManualStates
<1>4. CASE Boot \/ Restart \/ FactoryReset
  BY <1>4 DEF Boot, Restart, FactoryReset, RamLost, MachineInit, ModeInv, MotionStates, ManualStates
<1>5. CASE \/ Poll \/ Drain \/ KeysInFault \/ Tail \/ Reboot \/ Bootsel
           \/ RampGo \/ RampCoast \/ RampHalt \/ UNCHANGED vars
  BY <1>5 DEF Poll, Drain, KeysInFault, Tail, Reboot, Bootsel, RampGo, RampCoast, RampHalt,
     firmware, vars, motion, MotionStates, ManualStates
<1> QED
  BY <1>1, <1>2, <1>3, <1>4, <1>5 DEF Next, Pass, Exec, Keys

(* No motion starts with critical StallGuard samples an earlier one counted:  *)
(* the check of the pass that ends a motion forgets them before a command or  *)
(* a contact of the next pass can start another.                              *)
THEOREM CountsFresh == Spec => StallCountFresh
<1>1. TypeOK /\ ModeInv /\ LoadInv /\ [Next]_vars =>
        [machine.state = "READY" /\ machine'.state \in MotionStates => safety.critical_count = 0]_vars
  <2> SUFFICES ASSUME TypeOK, ModeInv, LoadInv, [Next]_vars,
                      machine.state = "READY", machine'.state \in MotionStates
               PROVE  safety.critical_count = 0
    OBVIOUS
  <2>1. pc \notin Midway
    BY StartPhase DEF Midway
  <2> QED
    BY <2>1 DEF LoadInv
<1> QED
  BY <1>1, TypeHolds, ModeInvariant, LoadInvariant, PTL DEF Spec, StallCountFresh

(* A stall becomes the fault of the machine in the safety check only, and     *)
(* there it is one that the check itself has just found.                      *)
LEMMA StallStep ==
  ASSUME TypeOK, ModeInv, LoadInv, [Next]_vars,
         machine.fault_code # "STALL", machine'.fault_code = "STALL"
  PROVE  ~sg_cal.active
<1>1. CASE (\E c \in Commands : Exec(c)) \/ Keys
  <2>1. CommandEffect
    BY <1>1, ExecuteEffect, KeysEffect DEF Exec
  <2> QED
    BY <2>1 DEF CommandEffect
<1>2. CASE Settle \/ Retract
  BY <1>2, EndEffect
<1>3. CASE Conflict \/ Boot
  <2>1. CASE Conflict
    <3>1. set_fault("BUTTON_CONFLICT", tmc, 0) /\ tmc \in Registers /\ "BUTTON_CONFLICT" \in Faults
      BY <2>1 DEF Conflict, TypeOK, DriverTypeOK, Faults
    <3> QED
      BY <3>1, SetFaultFact
  <2>2. CASE Boot
    <3>1. machine' = Dispatch(machine, "INIT_OK") \/ machine' = Faulted("SPI")
      BY <2>2 DEF Boot, set_fault
    <3>2. machine \in Machines /\ "SPI" \in Faults
      BY DEF TypeOK, MotionTypeOK, Faults
    <3>3. Faulted("SPI") = [state |-> "FAULT", fault_code |-> "SPI"]
      BY <3>2, FaultedFact DEF Faulted
    <3>4. Faulted("SPI").fault_code # "STALL"
      BY <3>3
    <3> QED
      BY <3>1, <3>2, <3>4, Moved
  <2> QED
    BY <1>3, <2>1, <2>2
<1>4. CASE Check
  <2>1. PICK s \in SafetyRecords, failed \in Nat :
          /\ s.fault = "STALL" /\ safety.fault # "STALL" => ~sg_cal.active
          /\ \/ UNCHANGED machine
             \/ machine.state = "HOMING" /\ machine' = Dispatch(machine, "MOVE_DONE")
             \/ set_fault(s.fault, tmc, failed)
    BY <1>4, CheckCases DEF UnloadEnd
  <2>2. safety.fault = "OK" /\ machine \in Machines /\ s.fault \in Faults /\ tmc \in Registers
    BY <1>4 DEF Check, LoadInv, Midway, TypeOK, MotionTypeOK, DriverTypeOK, SafetyRecords
  <2>3. CASE set_fault(s.fault, tmc, failed)
    BY <2>1, <2>2, <2>3, SetFaultFact
  <2> QED
    BY <2>1, <2>2, <2>3, Moved
<1>5. CASE Restart \/ FactoryReset
  BY <1>5 DEF Restart, FactoryReset, RamLost, MachineInit
<1>6. CASE \/ Poll \/ Drain \/ KeysInFault \/ Tail \/ Reboot \/ Bootsel
           \/ RampGo \/ RampCoast \/ RampHalt \/ UNCHANGED vars
  BY <1>6 DEF Poll, Drain, KeysInFault, Tail, Reboot, Bootsel, RampGo, RampCoast, RampHalt,
     firmware, vars, motion
<1> QED
  BY <1>1, <1>2, <1>3, <1>4, <1>5, <1>6 DEF Next, Pass

(* The calibration that measures the load is never stopped by its thresholds. *)
THEOREM CalibrationsRun == Spec => CalibrationNeverStalls
<1>1. TypeOK /\ ModeInv /\ LoadInv /\ [Next]_vars =>
        [machine.fault_code # "STALL" /\ machine'.fault_code = "STALL" => ~sg_cal.active]_vars
  BY StallStep
<1> QED
  BY <1>1, TypeHolds, ModeInvariant, LoadInvariant, PTL DEF Spec, CalibrationNeverStalls

----------------------------------------------------------------------------
(* The conflict of the contacts.                                              *)

LEMMA NextConflict == Base /\ ConflictInv /\ [Next]_vars => ConflictInv'
<1> SUFFICES ASSUME Base, ConflictInv, [Next]_vars PROVE ConflictInv'
  OBVIOUS
<1>0. tmc \in Registers /\ (~DriverPresent => tmc.VMAX = 0)
  BY DEF Base, TypeOK, DriverTypeOK, LinkInv
<1>1. CASE Conflict
  <2>1. pc' = "tail" /\ set_fault("BUTTON_CONFLICT", tmc, 0)
    BY <1>1 DEF Conflict
  <2>2. PICK stop \in motor_stop(tmc) : tmc' = stop.regs /\ Spend(0 + Cost(stop))
    BY <2>1 DEF set_fault
  <2>3. glitches' = 0 => Cost(stop) = 0
    BY <2>2, CostFact DEF Spend, Base, TypeOK, DriverTypeOK
  <2>4. glitches' = 0 => tmc'.VMAX = 0
    BY <1>0, <2>2, <2>3, StopWrites DEF Base
  <2>5. machine'.state = "FAULT"
    <3>1. "BUTTON_CONFLICT" \in Faults
      BY DEF Faults
    <3> QED
      BY <1>0, <2>1, <3>1, SetFaultFact DEF Base
  <2> QED
    BY <2>1, <2>4, <2>5 DEF ConflictInv, Midway
<1>2. CASE KeysInFault \/ Keys
  <2>1. ~IsConflict(buttons) /\ buttons' = buttons
    BY <1>2 DEF KeysInFault, Keys
  <2> QED
    BY <2>1 DEF ConflictInv, IsConflict
<1>3. CASE Settle \/ Retract \/ Check
  <2>1. pc \in Midway /\ buttons' = buttons
    BY <1>3 DEF Settle, Retract, Check, inputs, Midway
  <2> QED
    BY <2>1 DEF ConflictInv, IsConflict
<1>4. CASE RampGo \/ RampCoast \/ RampHalt
  <2>1. tmc' \in {Advance(tmc), Coast(tmc), Halt(tmc)} /\ UNCHANGED firmware
    BY <1>4 DEF RampGo, RampCoast, RampHalt, Moves
  <2>2. tmc'.VMAX = tmc.VMAX /\ UNCHANGED <<pc, buttons, machine, glitches>>
    BY <1>0, <2>1, RampFact DEF firmware, motion, inputs
  <2> QED
    BY <2>2 DEF ConflictInv, IsConflict
<1>5. CASE UNCHANGED vars
  BY <1>5 DEF ConflictInv, IsConflict, vars, inputs, motion
<1>6. CASE \/ Boot \/ Restart \/ FactoryReset \/ Poll \/ Drain \/ Tail \/ Reboot \/ Bootsel
           \/ \E c \in Commands : Exec(c)
  <2>1. pc' \notin Midway \cup {"tail"}
    BY <1>6 DEF Boot, Restart, FactoryReset, RamLost, Poll, Drain, Tail, Reboot, Bootsel, Exec, Midway
  <2> QED
    BY <2>1 DEF ConflictInv
<1> QED
  BY <1>1, <1>2, <1>3, <1>4, <1>5, <1>6 DEF Next, Pass

(* PUSH and PULL together stop the machine in the pass that sees them: in     *)
(* FAULT whatever fails, and with the motor told to stop if nothing does.     *)
THEOREM ConflictsStop == Spec => []ConflictStops
<1>1. Init => ConflictInv
  BY DEF Init, ConflictInv, Midway
<1>2. TypeOK /\ ModeInv /\ LinkInv /\ ConflictInv /\ [Next]_vars => ConflictInv'
  BY NextConflict DEF Base
<1>3. ConflictInv => ConflictStops
  BY DEF ConflictInv, ConflictStops, IsConflict, DriveDir
<1> QED
  BY <1>1, <1>2, <1>3, TypeHolds, ModeInvariant, LinkInvariant, PTL DEF Spec

----------------------------------------------------------------------------
(* What the LED task is told.                                                 *)

LEMMA NextLed == TypeOK /\ ModeInv /\ LedInv /\ [Next]_vars => LedInv'
<1> SUFFICES ASSUME TypeOK, ModeInv, LedInv, [Next]_vars PROVE LedInv'
  OBVIOUS
<1>1. CASE Boot
  <2>1. pc' = "poll" /\ motor_moving' = FALSE
    BY <1>1 DEF Boot, LedInv
  <2>2. machine'.state \in {"READY", "FAULT"}
    <3>1. machine' = Dispatch(machine, "INIT_OK") \/ machine' = Faulted("SPI")
      BY <1>1 DEF Boot, set_fault
    <3>2. machine \in Machines /\ machine.state = "BOOT" /\ "SPI" \in Faults
      BY <1>1 DEF Boot, ModeInv, TypeOK, MotionTypeOK, Faults
    <3>3. Faulted("SPI") = [state |-> "FAULT", fault_code |-> "SPI"]
      BY <3>2, FaultedFact DEF Faulted
    <3>4. Faulted("SPI").state = "FAULT"
      BY <3>3
    <3> QED
      BY <3>1, <3>2, <3>4, Moved
  <2> QED
    BY <2>1, <2>2 DEF LedInv, LedStates, MotionStates, ManualStates
<1>2. CASE Tail
  <2>1. pc' = "poll" /\ machine' = machine /\ motor_moving' = (machine.state \in LedStates)
    BY <1>2 DEF Tail
  <2> QED
    BY <2>1 DEF LedInv
<1>3. CASE Restart \/ FactoryReset
  BY <1>3 DEF Restart, FactoryReset, RamLost, LedInv
<1>4. CASE RampGo \/ RampCoast \/ RampHalt \/ UNCHANGED vars
  BY <1>4 DEF RampGo, RampCoast, RampHalt, firmware, vars, motion, LedInv
<1>5. CASE \/ Poll \/ Drain \/ Conflict \/ KeysInFault \/ Keys \/ Settle \/ Retract \/ Check
           \/ Reboot \/ Bootsel \/ \E c \in Commands : Exec(c)
  <2>1. pc' \notin {"boot", "poll"}
    BY <1>5 DEF Poll, Drain, Conflict, KeysInFault, Keys, Settle, Retract, Check, Reboot, Bootsel, Exec
  <2> QED
    BY <2>1 DEF LedInv
<1> QED
  BY <1>1, <1>2, <1>3, <1>4, <1>5 DEF Next, Pass

(* On a link that works, since power-on: between two passes the LED task is   *)
(* told of every motion the registers ask for.                                *)
THEOREM LedTold == Spec => []LedFollows
<1>1. Init => LedInv
  BY DEF Init, LedInv
<1>2. NoUncommandedMotion /\ LedInv => LedFollows
  BY DEF NoUncommandedMotion, LedInv, LedFollows, LedStates
<1> QED
  BY <1>1, <1>2, NextLed, TypeHolds, ModeInvariant, MotionCommanded, PTL DEF Spec

--------------------------------------------------------------------------------
(* Where the motions go: the limits of the course, the targets of doses and    *)
(* unloads, the stalls.  These depend on lengths and on what a SET may change  *)
(* in the middle of a motion, so each theorem names what it needs of both.     *)

(* motor_move_relative succeeded: position mode, and a target at the rounded   *)
(* distance from where the motor was.                                          *)
Sent(mm) ==
  IF DriverPresent
  THEN /\ tmc'.RAMPMODE = "POSITION" /\ tmc'.XTARGET = tmc.XACTUAL + motor_mm_to_microsteps(mm)
       /\ tmc'.XACTUAL = tmc.XACTUAL /\ tmc'.VACTUAL = tmc.VACTUAL
  ELSE tmc' = tmc

Begins(state) == machine.state = "READY" /\ machine'.state = state /\ UNCHANGED config

ManualBegins ==
  \/ Begins("MANUAL_PUSH") /\ direction' = 1 /\ (DriverPresent => tmc'.RAMPMODE = "VELPOS")
  \/ Begins("MANUAL_PULL") /\ direction' = -1 /\ (DriverPresent => tmc'.RAMPMODE = "VELNEG")

DoseBegins ==
  /\ Begins("DOSING") /\ direction' = 1
  /\ \E pos \in motor_position(tmc), distance \in Int :
       /\ \/ distance = config.trigger_dose_mm
          \/ \E c \in Commands : c.kind = "DOSE" /\ c.distance_mm > 0 /\ distance = c.distance_mm
       /\ DoseAccepted(distance, pos.mm) /\ (glitches' = glitches => pos.ok)
       /\ Sent(distance)

MoveBegins ==
  /\ Begins("DOSING")
  /\ \E c \in Commands : /\ c.kind = "MOVE_RELATIVE" /\ Sent(c.distance_mm)
                         /\ direction' = IF c.distance_mm >= 0 THEN 1 ELSE -1

UnloadBegins ==
  /\ Begins("HOMING") /\ direction' = -1
  /\ \E pos \in motor_position(tmc) :
       /\ pos.mm > config.position_min_mm /\ (glitches' = glitches => pos.ok)
       /\ Sent(config.position_min_mm - pos.mm)

OnTarget(t) == t.XACTUAL = t.XTARGET /\ t.VACTUAL = 0

RetractBegins ==
  /\ machine.state = "RETRACTING" /\ machine'.state = "RETRACTING"
  /\ direction = 0 /\ direction' = -1 /\ Sent(-retract_mm)

(* The dwell between a dose and its retraction.                                *)
Dwells ==
  /\ machine.state = "DOSING" /\ machine'.state = "RETRACTING" /\ direction' = 0
  /\ UNCHANGED <<tmc, retract_mm>> /\ retract_mm > 0 /\ OnTarget(tmc)

GoesOn ==
  /\ machine'.state = machine.state /\ UNCHANGED <<direction, retract_mm>>
  /\ tmc' \in {tmc, Write(tmc, "VMAX", 0)} \/ ((RampGo \/ RampCoast \/ RampHalt) /\ UNCHANGED config)

(* What a step does to a motion.                                               *)
MotionStep ==
  \/ machine'.state \notin MotionStates
  \/ ManualBegins \/ DoseBegins \/ MoveBegins \/ UnloadBegins \/ RetractBegins
  \/ Dwells \/ GoesOn

----------------------------------------------------------------------------
(* The registers of a motion do not lead it away from its target: whatever     *)
(* transfers failed before, its start has written all of them.                 *)
Ahead(d, t) == (d = 1 /\ t.XTARGET > t.XACTUAL) \/ (d = -1 /\ t.XTARGET < t.XACTUAL)

AheadInv ==
  /\ machine.state = "MANUAL_PUSH" => tmc.VMAX = 0 \/ tmc.RAMPMODE = "VELPOS"
  /\ machine.state = "MANUAL_PULL" => tmc.VMAX = 0 \/ tmc.RAMPMODE = "VELNEG"
  /\ machine.state \in {"DOSING", "RETRACTING", "HOMING"} =>
       tmc.VMAX = 0 \/ (tmc.RAMPMODE = "POSITION" /\ (OnTarget(tmc) \/ Ahead(direction, tmc)))
  /\ machine.state = "RETRACTING" /\ direction = 0 => OnTarget(tmc) /\ retract_mm > 0

UnloadInv == machine.state = "HOMING" => Within(tmc.XTARGET, config.position_min_mm)

----------------------------------------------------------------------------
(* Lengths.                                                                    *)

LEMMA QuotientFact ==
  ASSUME NEW a \in Nat, NEW b \in Nat \ {0}
  PROVE  a \div b \in Nat /\ b * (a \div b) =< a /\ a < b * (a \div b) + b
OBVIOUS

LEMMA NearestFact ==
  ASSUME NEW l \in Nat, NEW m \in Nat \ {0}
  PROVE  LET n == (2 * l + m) \div (2 * m)
         IN  /\ n \in Nat /\ 2 * (m * n) =< 2 * l + m /\ 2 * l - m < 2 * (m * n)
             /\ 2 * l >= m => n >= 1
<1> DEFINE a == 2 * l + m
           b == 2 * m
           n == a \div b
<1>1. b \in Nat \ {0} /\ a \in Nat
  OBVIOUS
<1> HIDE DEF a, b
<1>2. n \in Nat /\ b * n =< a /\ a < b * n + b
  BY <1>1, QuotientFact
<1> HIDE DEF n
<1>3. b * n = 2 * (m * n) /\ m * n \in Nat
  BY <1>2 DEF b
<1>4. 2 * l >= m => n >= 1
  <2> SUFFICES ASSUME 2 * l >= m, n = 0 PROVE FALSE
    BY <1>2
  <2>1. b * n = 0
    BY <1>1
  <2> QED BY <1>1, <1>2, <2>1 DEF a, b
<1>5. n \in Nat /\ 2 * (m * n) =< 2 * l + m /\ 2 * l - m < 2 * (m * n)
  BY <1>2, <1>3 DEF a, b
<1> QED BY <1>4, <1>5 DEF n, a, b

(* The rounding of a length.                                                   *)
LEMMA RoundFact ==
  ASSUME NEW mm \in Int
  PROVE  LET k == motor_mm_to_microsteps(mm)
         IN  /\ k \in Int /\ 2 * motor_microsteps_to_mm(k) =< 2 * mm + MicrostepLen
             /\ mm >= 0 => k >= 0
             /\ mm =< 0 => k =< 0
             /\ 2 * mm >= MicrostepLen => k >= 1
             /\ 2 * mm =< -MicrostepLen => k =< -1
<1> DEFINE L == MicrostepLen
           near(l) == (2 * l + L) \div (2 * L)
<1>1. L \in Nat \ {0}
  BY UnitsAssumption
<1>2. motor_mm_to_microsteps(mm) = IF mm >= 0 THEN near(mm) ELSE -near(-mm)
  BY DEF motor_mm_to_microsteps
<1>3. CASE mm >= 0
  <2> DEFINE n == near(mm)
  <2>1. mm \in Nat
    BY <1>3
  <2>2. n \in Nat /\ 2 * (L * n) =< 2 * mm + L /\ (2 * mm >= L => n >= 1)
    BY <1>1, <2>1, NearestFact
  <2>3. motor_mm_to_microsteps(mm) = n
    BY <1>2, <1>3
  <2> HIDE DEF n
  <2>4. motor_microsteps_to_mm(n) = L * n
    BY <1>1, <2>2 DEF motor_microsteps_to_mm
  <2>5. mm =< 0 => n =< 0
    <3> SUFFICES ASSUME mm = 0, n >= 1 PROVE FALSE
      BY <1>3, <2>2
    <3>1. L * n >= L
      BY <1>1, <2>2
    <3> QED BY <1>1, <2>2, <3>1
  <2>6. ~(2 * mm =< -L)
    BY <1>1, <1>3
  <2> QED BY <2>2, <2>3, <2>4, <2>5, <2>6
<1>4. CASE mm < 0
  <2> DEFINE n == near(-mm)
  <2>1. -mm \in Nat
    BY <1>4
  <2>2. n \in Nat /\ 2 * (-mm) - L < 2 * (L * n) /\ (2 * (-mm) >= L => n >= 1)
    BY <1>1, <2>1, NearestFact
  <2>3. motor_mm_to_microsteps(mm) = -n
    BY <1>2, <1>4
  <2> HIDE DEF n
  <2>4. motor_microsteps_to_mm(-n) = -(L * n) /\ L * n \in Nat
    BY <1>1, <2>2 DEF motor_microsteps_to_mm
  <2>5. ~(mm >= 0) /\ ~(2 * mm >= L)
    BY <1>1, <1>4
  <2> QED BY <1>1, <2>2, <2>3, <2>4, <2>5
<1> QED BY <1>3, <1>4

(* What a read of XACTUAL gives: the position, or with the failure counted -1. *)
LEMMA ReadFact ==
  ASSUME NEW t \in Registers, NEW pos \in motor_position(t)
  PROVE  /\ pos.ok => pos.mm = motor_microsteps_to_mm(t.XACTUAL)
         /\ \E x \in Int : pos.mm = motor_microsteps_to_mm(x)
<1>1. PICK x \in Read(t, "XACTUAL") : pos = [mm |-> motor_microsteps_to_mm(x.value), ok |-> x.ok]
  BY DEF motor_position
<1>2. t["XACTUAL"] = t.XACTUAL /\ t.XACTUAL \in Int /\ x.value \in Int /\ (x.ok => x.value = t.XACTUAL)
  BY DEF Read, Registers
<1> QED BY <1>1, <1>2

----------------------------------------------------------------------------
(* Stalls.                                                                    *)

(* No SET lowers the number of samples a stall takes.                         *)
CountNeverLowered ==
  [][pc = "exec" /\ pc' = "exec" =>
       config'.stallguard_filter_count >= config.stallguard_filter_count]_vars

(* A filter_count of 0 can be raised later: the count is 0 until then.        *)
CountInv ==
  safety.fault # "STALL" =>
    safety.critical_count = 0 \/ safety.critical_count < config.stallguard_filter_count

LEMMA CountFact ==
  ASSUME NEW s \in SafetyRecords, NEW c, IsSafetyConfig(c), NEW m, NEW sg \in Nat
  PROVE  LET r == StallGuard(s, c, m, sg)
         IN  r.fault # "STALL" => r.critical_count = 0 \/ r.critical_count < c.stallguard_filter_count
<1> DEFINE r        == StallGuard(s, c, m, sg)
           f        == Filtered(s.sg_filtered, sg)
           critical == (s.critical_count + 1) % CountMod
           warning  == (s.warning_count + 1) % CountMod
<1>1. CASE c.stallguard_enabled /\ m /\ f < c.stallguard_critical_level
  <2> DEFINE l == IF Stalled(critical, c) THEN "STALL_ERROR" ELSE "STALL_WARNING"
             q == IF Stalled(critical, c) THEN "STALL" ELSE s.fault
  <2>1. r = [s EXCEPT !.sg_filtered = f, !.warning_count = warning,
                      !.critical_count = critical, !.load_state = l, !.fault = q]
    BY <1>1 DEF StallGuard
  <2>2. critical \in Nat
    BY SafetyAssumption DEF SafetyRecords
  <2>3. q # "STALL" => critical < c.stallguard_filter_count
    BY <2>2 DEF Stalled, IsSafetyConfig
  <2> HIDE DEF r, f, critical, warning, l, q
  <2>4. r.critical_count = critical /\ r.fault = q
    BY <2>1 DEF SafetyRecords
  <2> QED
    BY <2>3, <2>4 DEF r
<1>2. CASE ~(c.stallguard_enabled /\ m /\ f < c.stallguard_critical_level)
  <2>1. r.critical_count = 0
    BY <1>2, FilteredFact DEF StallGuard, Rested, SafetyRecords
  <2> QED
    BY <2>1
<1> QED
  BY <1>1, <1>2

(* What safety_check makes of the count.                                      *)
LEMMA CheckCount == ASSUME TypeOK, CountInv, Check PROVE CountInv'
<1> DEFINE timed  == machine.state \in TimedStates
           moving == machine.state \in MotionStates
           n      == config.stallguard_filter_count
           Counted(s) == s.fault # "STALL" => s.critical_count = 0 \/ s.critical_count < n
<1>1. PICK sg \in SgSamples, hot \in Overtemps, spi \in BOOLEAN, pos \in motor_position(tmc) :
        safety' \in {SafetyInit, safety_check(safety, SafetyCfg, timed, moving, sg, hot, spi, pos.mm, direction)}
  BY DEF Check
<1>2. /\ sg \in Nat /\ safety \in SafetyRecords /\ IsSafetyConfig(SafetyCfg)
      /\ config' = config /\ SafetyCfg.stallguard_filter_count = n
  BY DispenserAssumption, SafetyCfgFact
  DEF TypeOK, MotionTypeOK, Check, SafetyCfg, SettingsTypeOK, ConfigRecords
<1> DEFINE r     == StallGuard(safety, SafetyCfg, moving, sg)
           cause == Cause(safety, SafetyCfg, timed, hot, spi, pos.mm, direction)
<1>3. Counted(r)
  BY <1>2, CountFact
<1>4. Counted([safety EXCEPT !.fault = cause])
  <2>1. safety.fault = "STALL" => cause = "STALL"
    BY DEF Cause
  <2> HIDE DEF cause
  <2> QED
    BY <1>2, <2>1 DEF CountInv, SafetyRecords
<1>5. Counted(SafetyInit)
  BY DEF SafetyInit
<1>6. safety' \in {SafetyInit, [safety EXCEPT !.fault = cause], r}
  BY <1>1 DEF safety_check
<1> HIDE DEF r, cause
<1>7. Counted(safety')
  BY <1>3, <1>4, <1>5, <1>6
<1> QED
  BY <1>2, <1>7 DEF CountInv

LEMMA CommandCount ==
  ASSUME TypeOK, CountInv, NEW c, Execute(c) \/ Keys,
         config'.stallguard_filter_count >= config.stallguard_filter_count,
         config'.stallguard_filter_count \in Nat
  PROVE  CountInv'
<1>1. safety' \in {safety, ManualStarted(safety), SafetyInit, ManualStarted(SafetyInit)}
  BY DEF Execute, Keys, stop_motion, FaultReset, CalCancel, CalStart, CalFinish, apply_config_value,
     Ignored, FlushStatistics, begin_manual, Unload, SetZero, Move, Dose, StartDose, motion
<1>2. safety \in SafetyRecords /\ SafetyInit \in SafetyRecords /\ SafetyInit.critical_count = 0
  BY SafetyInitFact DEF TypeOK, MotionTypeOK, SafetyInit
<1>3. \A s \in SafetyRecords : /\ ManualStarted(s).fault = s.fault
                               /\ ManualStarted(s).critical_count = s.critical_count
  BY DEF ManualStarted, SafetyRecords
<1>4. safety.critical_count \in Nat /\ config.stallguard_filter_count \in Nat
  BY DEF TypeOK, MotionTypeOK, SafetyRecords, SettingsTypeOK, ConfigRecords
<1> QED
  BY <1>1, <1>2, <1>3, <1>4 DEF CountInv

LEMMA NextCount ==
  TypeOK /\ TypeOK' /\ ModeInv /\ LoadInv /\ CountInv /\ [Next]_vars
  /\ (pc = "exec" /\ pc' = "exec" =>
        config'.stallguard_filter_count >= config.stallguard_filter_count)
  => CountInv'
<1> SUFFICES ASSUME TypeOK, TypeOK', ModeInv, LoadInv, CountInv, [Next]_vars,
                    pc = "exec" /\ pc' = "exec" =>
                      config'.stallguard_filter_count >= config.stallguard_filter_count
             PROVE  CountInv'
  OBVIOUS
<1>0. /\ safety \in SafetyRecords /\ config'.stallguard_filter_count \in Nat
      /\ config.stallguard_filter_count \in Nat
  BY DEF TypeOK, MotionTypeOK, SettingsTypeOK, ConfigRecords
<1>1. CASE Boot
  <2>1. safety' = safety /\ safety.critical_count = 0
    BY <1>1 DEF Boot, LoadInv, ModeInv, Midway
  <2> QED
    BY <2>1 DEF CountInv
<1>2. CASE Restart \/ FactoryReset
  <2>1. safety'.critical_count = 0
    BY <1>2 DEF Restart, FactoryReset, RamLost, SafetyInit
  <2> QED
    BY <2>1 DEF CountInv
<1>3. CASE \E c \in Commands : Exec(c)
  <2>1. PICK c \in Commands : Exec(c)
    BY <1>3
  <2>2. pc = "exec" /\ pc' = "exec" /\ Execute(c)
    BY <2>1 DEF Exec
  <2> QED
    BY <1>0, <2>2, CommandCount
<1>4. CASE Keys
  <2>1. config' = config
    BY <1>4 DEF Keys, begin_manual, Dose, StartDose, stop_motion, Ignored, settings
  <2> QED
    BY <1>0, <1>4, <2>1, CommandCount
<1>5. CASE Check
  BY <1>5, CheckCount
<1>6. CASE Poll
  <2>1. /\ safety'.fault = safety.fault /\ safety'.critical_count = safety.critical_count
        /\ config' = config
    BY <1>0, <1>6 DEF Poll, settings, SafetyRecords
  <2> QED
    BY <2>1 DEF CountInv
<1>7. CASE \/ Drain \/ Conflict \/ KeysInFault \/ Settle \/ Retract \/ Tail \/ Reboot \/ Bootsel
           \/ RampGo \/ RampCoast \/ RampHalt \/ UNCHANGED vars
  <2>1. UNCHANGED <<safety, config>>
    BY <1>7 DEF Drain, Conflict, KeysInFault, Settle, Retract, Tail, Reboot, Bootsel, RampGo,
       RampCoast, RampHalt, firmware, vars, motion, settings
  <2> QED
    BY <2>1 DEF CountInv
<1> QED
  BY <1>1, <1>2, <1>3, <1>4, <1>5, <1>6, <1>7 DEF Next, Pass

(* filter_count critical samples in a row never go unreported, for every      *)
(* width of the counter, in a run whose SETs never lower filter_count.        *)
THEOREM StallsCaught == Spec /\ CountNeverLowered => []StallCaught
<1>1. Init => CountInv
  BY DEF Init, CountInv, SafetyInit
<1>2. TypeOK /\ CountInv => StallCaught
  BY DEF CountInv, StallCaught, TypeOK, SettingsTypeOK, ConfigRecords
<1>3. /\ TypeOK /\ TypeOK' /\ ModeInv /\ LoadInv /\ CountInv /\ [Next]_vars
      /\ [pc = "exec" /\ pc' = "exec" =>
            config'.stallguard_filter_count >= config.stallguard_filter_count]_vars
      => CountInv'
  <2>1. vars' = vars => (pc = "exec" /\ pc' = "exec" => config'.stallguard_filter_count = config.stallguard_filter_count)
    BY DEF vars, settings
  <2>2. TypeOK => config.stallguard_filter_count \in Nat
    BY DEF TypeOK, SettingsTypeOK, ConfigRecords
  <2> QED
    BY <2>1, <2>2, NextCount
<1> QED
  BY <1>1, <1>2, <1>3, TypeHolds, ModeInvariant, LoadInvariant, PTL DEF Spec, CountNeverLowered

----------------------------------------------------------------------------
(* Every step is one of MotionStep's.                                         *)

LEMMA SentFact ==
  ASSUME tmc \in Registers, NEW mm \in Int, NEW s \in Int, NEW o \in motor_move_relative(tmc, mm, s),
         o.ok, tmc' = o.regs
  PROVE  Sent(mm)
<1> DEFINE limit  == Write(tmc, "VMAX", vel(s))
           ranged == Write(limit, "RAMPMODE", "POSITION")
           target == tmc.XACTUAL + motor_mm_to_microsteps(mm)
<1>1. CASE DriverPresent
  <2>1. limit = [tmc EXCEPT !.VMAX = vel(s)]
    BY <1>1 DEF Write
  <2>2. ranged = [limit EXCEPT !.RAMPMODE = "POSITION"]
    BY <1>1 DEF Write
  <2>3. tmc' = Write(ranged, "XTARGET", target)
    BY MoveFact
  <2>4. tmc' = [ranged EXCEPT !.XTARGET = target]
    BY <1>1, <2>3 DEF Write
  <2> HIDE DEF limit, ranged, target
  <2>5. limit \in Registers /\ limit.XACTUAL = tmc.XACTUAL /\ limit.VACTUAL = tmc.VACTUAL
    BY <2>1, VelFact DEF Registers
  <2>6. /\ ranged \in Registers /\ ranged.RAMPMODE = "POSITION"
        /\ ranged.XACTUAL = tmc.XACTUAL /\ ranged.VACTUAL = tmc.VACTUAL
    BY <2>2, <2>5 DEF Registers
  <2>7. /\ tmc'.RAMPMODE = "POSITION" /\ tmc'.XTARGET = target
        /\ tmc'.XACTUAL = tmc.XACTUAL /\ tmc'.VACTUAL = tmc.VACTUAL
    BY <2>4, <2>6 DEF Registers
  <2> QED
    BY <1>1, <2>7 DEF Sent, target
<1>2. CASE ~DriverPresent
  BY <1>2, AbsentFact DEF Sent
<1> QED
  BY <1>1, <1>2

(* Nothing of a motion changes.                                               *)
LEMMA KeptStep ==
  ASSUME UNCHANGED <<machine, direction, retract_mm>>, tmc' \in {tmc, Write(tmc, "VMAX", 0)}
  PROVE  MotionStep
BY DEF MotionStep, GoesOn

LEMMA ManualSteps ==
  ASSUME TypeOK, NEW d \in {-1, 1}, begin_manual(d)
  PROVE  MotionStep
<1>0. /\ machine.state = "READY" /\ machine \in Machines /\ tmc \in Registers
      /\ motor_cfg.manual_speed_mm_s \in Nat /\ config' = config
  BY DEF begin_manual, settings, TypeOK, MotionTypeOK, DriverTypeOK, LoopTypeOK
<1> DEFINE mode == IF d > 0 THEN "VELPOS" ELSE "VELNEG"
           ev   == IF d > 0 THEN "PUSH" ELSE "PULL"
<1>1. PICK o \in motor_manual(tmc, d, motor_cfg.manual_speed_mm_s) :
         /\ tmc' = o.regs
         /\ IF o.ok THEN direction' = d /\ machine' = Dispatch(machine, ev) ELSE machine' = machine
  BY DEF begin_manual
<1>2. CASE ~o.ok
  BY <1>0, <1>1, <1>2 DEF MotionStep, MotionStates, ManualStates
<1>3. CASE o.ok
  <2> DEFINE limit == Write(tmc, "VMAX", vel(motor_cfg.manual_speed_mm_s))
  <2>0. vel(motor_cfg.manual_speed_mm_s) \in Nat
    BY <1>0, VelFact
  <2>1. limit \in Registers
    BY <1>0, <2>0, WriteFact
  <2>2. tmc' = Write(limit, "RAMPMODE", mode)
    BY <1>0, <1>1, <1>3, ManualFact
  <2> HIDE DEF limit, mode
  <2>3. DriverPresent => tmc'.RAMPMODE = mode
    BY <2>1, <2>2 DEF Write, Registers
  <2>4. machine' = Dispatch(machine, ev) /\ direction' = d
    BY <1>1, <1>3
  <2>5. machine'.state = IF d > 0 THEN "MANUAL_PUSH" ELSE "MANUAL_PULL"
    BY <1>0, <2>4, Moved DEF ev
  <2> QED
    BY <1>0, <2>3, <2>4, <2>5 DEF MotionStep, ManualBegins, Begins, mode
<1> QED
  BY <1>2, <1>3

LEMMA StopSteps == ASSUME TypeOK, stop_motion PROVE MotionStep
<1>1. machine'.state \in {"FAULT", "STOPPING"}
  BY Moved DEF stop_motion, TypeOK, MotionTypeOK
<1> QED
  BY <1>1 DEF MotionStep, MotionStates, ManualStates

LEMMA DoseSteps ==
  ASSUME TypeOK, NEW c \in CommandRecords, Dose(c),
         (c \in Commands /\ c.kind = "DOSE") \/ c.distance_mm = config.trigger_dose_mm
  PROVE  MotionStep
<1> DEFINE distance == IF c.distance_mm > 0 THEN c.distance_mm ELSE config.trigger_dose_mm
           retract  == IF c.retract_mm >= 0 THEN c.retract_mm ELSE config.retract_distance_mm
           speed    == Speed(c.speed_mm_s, config.dosing_speed_mm_s)
<1>0. /\ distance \in Int /\ speed \in Int /\ tmc \in Registers
      /\ machine.state = "READY" /\ machine \in Machines /\ glitches \in Nat
  BY SpeedFact DEF CommandRecords, TypeOK, MotionTypeOK, SettingsTypeOK, DriverTypeOK, ConfigRecords, Dose
<1>1. \/ distance = config.trigger_dose_mm
      \/ \E k \in Commands : k.kind = "DOSE" /\ k.distance_mm > 0 /\ distance = k.distance_mm
  OBVIOUS
<1> HIDE DEF distance, retract, speed
<1>2. PICK pos \in motor_position(tmc) :
        \/ /\ DoseAccepted(distance, pos.mm)
           /\ \E o \in motor_move_relative(tmc, distance, speed) :
                Spend(Cost(pos) + Cost(o)) /\ StartDose(o, 1, retract, TRUE)
        \/ machine' = machine
  BY DEF Dose, distance, retract, speed, motion
<1>3. CASE machine' = machine
  BY <1>0, <1>3 DEF MotionStep, MotionStates, ManualStates
<1>4. ASSUME NEW o \in motor_move_relative(tmc, distance, speed), DoseAccepted(distance, pos.mm),
             Spend(Cost(pos) + Cost(o)), StartDose(o, 1, retract, TRUE), machine' # machine
      PROVE  MotionStep
  <2>1. /\ o.ok /\ tmc' = o.regs /\ direction' = 1 /\ config' = config
        /\ machine' = Dispatch(machine, "DOSE")
    BY <1>4 DEF StartDose, settings
  <2>2. machine'.state = "DOSING"
    BY <1>0, <2>1, Moved
  <2>3. Sent(distance)
    BY <1>0, <2>1, SentFact
  <2>4. glitches' = glitches => pos.ok
    BY <1>0, <1>4, CostFact DEF Spend, Cost
  <2>5. DoseBegins
    BY <1>0, <1>1, <1>4, <2>1, <2>2, <2>3, <2>4 DEF DoseBegins, Begins
  <2> QED
    BY <2>5 DEF MotionStep
<1> QED
  BY <1>2, <1>3, <1>4

LEMMA MoveSteps ==
  ASSUME TypeOK, NEW c \in Commands, c.kind = "MOVE_RELATIVE", Move(c)
  PROVE  MotionStep
<1> DEFINE speed == Speed(c.speed_mm_s, config.dosing_speed_mm_s)
           d     == IF c.distance_mm >= 0 THEN 1 ELSE -1
           fwd   == c.distance_mm > 0
<1>0. /\ c.distance_mm \in Int /\ speed \in Int /\ tmc \in Registers
      /\ machine.state = "READY" /\ machine \in Machines
  BY DispenserAssumption, SpeedFact
  DEF CommandRecords, TypeOK, MotionTypeOK, SettingsTypeOK, DriverTypeOK, ConfigRecords, Move
<1>1. PICK o \in motor_move_relative(tmc, c.distance_mm, speed) : StartDose(o, d, 0, fwd)
  BY DEF Move
<1> HIDE DEF d, speed, fwd
<1>2. CASE ~o.ok
  BY <1>0, <1>1, <1>2 DEF StartDose, MotionStep, MotionStates, ManualStates
<1>3. CASE o.ok
  <2>1. tmc' = o.regs /\ direction' = d /\ config' = config /\ machine' = Dispatch(machine, "DOSE")
    BY <1>1, <1>3 DEF StartDose, settings
  <2>2. machine'.state = "DOSING"
    BY <1>0, <2>1, Moved
  <2>3. Sent(c.distance_mm)
    BY <1>0, <1>3, <2>1, SentFact
  <2> QED
    BY <1>0, <2>1, <2>2, <2>3 DEF MotionStep, MoveBegins, Begins, d
<1> QED
  BY <1>2, <1>3

LEMMA UnloadSteps == ASSUME TypeOK, NEW c \in CommandRecords, Unload(c) PROVE MotionStep
<1> DEFINE min   == config.position_min_mm
           speed == Speed(c.speed_mm_s, config.manual_speed_mm_s)
<1>0. /\ min \in Int /\ speed \in Int /\ tmc \in Registers
      /\ machine.state = "READY" /\ machine \in Machines /\ glitches \in Nat /\ config' = config
  BY SpeedFact DEF CommandRecords, TypeOK, MotionTypeOK, SettingsTypeOK, DriverTypeOK, ConfigRecords,
     Unload, settings
<1> HIDE DEF speed
<1>1. PICK pos \in motor_position(tmc) :
        \/ /\ ~(pos.mm =< min)
           /\ \E o \in motor_move_relative(tmc, min - pos.mm, speed) :
                /\ tmc' = o.regs /\ Spend(Cost(pos) + Cost(o))
                /\ IF o.ok THEN direction' = -1 /\ machine' = Dispatch(machine, "HOME")
                           ELSE machine' = machine
        \/ machine' = machine
  BY DEF Unload, speed
<1>2. CASE machine' = machine
  BY <1>0, <1>2 DEF MotionStep, MotionStates, ManualStates
<1>3. ASSUME ~(pos.mm =< min), NEW o \in motor_move_relative(tmc, min - pos.mm, speed),
             tmc' = o.regs, Spend(Cost(pos) + Cost(o)), o.ok, direction' = -1,
             machine' = Dispatch(machine, "HOME")
      PROVE  MotionStep
  <2>1. pos.mm \in Int /\ min - pos.mm \in Int /\ pos.mm > min
    BY <1>0, <1>3, PositionFact
  <2>2. machine'.state = "HOMING"
    BY <1>0, <1>3, Moved
  <2> HIDE DEF min
  <2>3. Sent(min - pos.mm)
    BY <1>0, <1>3, <2>1, SentFact
  <2>4. glitches' = glitches => pos.ok
    BY <1>0, <1>3, CostFact DEF Spend, Cost
  <2> QED
    BY <1>0, <1>3, <2>1, <2>2, <2>3, <2>4 DEF MotionStep, UnloadBegins, Begins, min
<1> QED
  BY <1>1, <1>2, <1>3

LEMMA OtherSteps ==
  ASSUME TypeOK, \/ FaultReset \/ SetZero \/ apply_config_value \/ CalStart \/ CalCancel
                 \/ CalFinish \/ FlushStatistics \/ Ignored
  PROVE  MotionStep
<1>1. CASE FaultReset
  <2>1. machine'.state = "READY"
    BY <1>1, Moved DEF FaultReset, TypeOK, MotionTypeOK
  <2> QED
    BY <2>1 DEF MotionStep, MotionStates, ManualStates
<1>2. CASE SetZero
  BY <1>2 DEF SetZero, motion, MotionStep, MotionStates, ManualStates
<1>3. CASE apply_config_value \/ CalStart \/ CalCancel \/ CalFinish \/ FlushStatistics \/ Ignored
  BY <1>3, KeptStep DEF apply_config_value, CalStart, CalCancel, CalFinish, FlushStatistics, Ignored, motion
<1> QED
  BY <1>1, <1>2, <1>3

LEMMA ExecuteSteps == ASSUME TypeOK, NEW c \in Commands, Execute(c) PROVE MotionStep
<1>1. c \in CommandRecords
  BY DispenserAssumption
<1> QED
  BY <1>1, ManualSteps, StopSteps, DoseSteps, MoveSteps, UnloadSteps, OtherSteps DEF Execute

LEMMA KeysSteps == ASSUME TypeOK, Keys PROVE MotionStep
<1>1. Trigger \in CommandRecords /\ Trigger.distance_mm = config.trigger_dose_mm
  BY DEF Trigger, CommandRecords, CommandKinds, ReadyKinds, TypeOK, SettingsTypeOK, ConfigRecords
<1>2. begin_manual(1) \/ begin_manual(-1) \/ Dose(Trigger) \/ stop_motion \/ Ignored
  BY DEF Keys
<1> QED
  BY <1>1, <1>2, ManualSteps, StopSteps, DoseSteps, OtherSteps

LEMMA UnloadEndSteps ==
  ASSUME TypeOK, machine.state = "HOMING", NEW result, NEW n, UnloadEnd(result, n)
  PROVE  machine'.state = "READY" /\ MotionStep
<1>1. machine'.state = "READY"
  BY Moved DEF UnloadEnd, TypeOK, MotionTypeOK
<1> QED
  BY <1>1 DEF MotionStep, MotionStates, ManualStates

LEMMA SetFaultSteps == ASSUME TypeOK, NEW f, NEW regs, NEW n, set_fault(f, regs, n) PROVE MotionStep
BY SetFaultState DEF MotionStep

LEMMA SettleSteps == ASSUME TypeOK, Settle PROVE MotionStep
<1>0. machine \in Machines /\ UNCHANGED <<tmc, retract_mm>> /\ retract_mm \in Int
  BY DEF Settle, TypeOK, MotionTypeOK
<1>1. CASE Stopped
  <2>1. machine.state = "STOPPING" /\ (machine' = machine \/ machine' = Dispatch(machine, "STOPPED"))
    BY <1>1 DEF Stopped
  <2>2. machine'.state \in {"STOPPING", "READY"}
    BY <1>0, <2>1, Moved
  <2> QED
    BY <2>2 DEF MotionStep, MotionStates, ManualStates
<1>2. CASE DoseDone
  <2> DEFINE done == Dispatch(machine, "MOVE_DONE")
  <2>1. PICK r \in motor_target_reached(tmc) :
          IF r.value THEN /\ direction' = 0
                          /\ machine' = IF retract_mm > 0 THEN done ELSE Dispatch(done, "MOVE_DONE")
                     ELSE UNCHANGED <<machine, direction>>
    BY <1>2 DEF DoseDone
  <2>2. machine.state = "DOSING" /\ done \in Machines /\ done.state = "RETRACTING"
    BY <1>0, <1>2, Moved, DispatchFact DEF DoseDone
  <2>3. Dispatch(done, "MOVE_DONE").state = "READY"
    BY <2>2, Moved
  <2> HIDE DEF done
  <2>4. CASE r.value
    <3>1. OnTarget(tmc)
      BY <2>4, ReachedFact DEF OnTarget
    <3> QED
      BY <1>0, <2>1, <2>2, <2>3, <2>4, <3>1 DEF MotionStep, Dwells, MotionStates, ManualStates
  <2>5. CASE ~r.value
    BY <1>0, <2>1, <2>5, KeptStep
  <2> QED
    BY <2>4, <2>5
<1>3. CASE UNCHANGED <<machine, direction, phase_ms, glitches>>
  BY <1>0, <1>3, KeptStep
<1> QED
  BY <1>1, <1>2, <1>3 DEF Settle

LEMMA RetractSteps == ASSUME TypeOK, Retract PROVE MotionStep
<1>0. machine \in Machines /\ retract_mm' = retract_mm /\ tmc \in Registers
  BY DEF Retract, TypeOK, MotionTypeOK, DriverTypeOK
<1>1. CASE RetractStart
  <2>1. -retract_mm \in Int /\ config.retract_speed_mm_s \in Int
    BY DEF TypeOK, MotionTypeOK, SettingsTypeOK, ConfigRecords
  <2>2. PICK o \in motor_move_relative(tmc, -retract_mm, config.retract_speed_mm_s) :
          \/ o.ok /\ tmc' = o.regs /\ direction' = -1 /\ UNCHANGED machine
          \/ set_fault("SPI", o.regs, 1)
    BY <1>1 DEF RetractStart
  <2>3. machine.state = "RETRACTING" /\ direction = 0
    BY <1>1 DEF RetractStart, RetractDue
  <2>4. CASE o.ok /\ tmc' = o.regs /\ direction' = -1 /\ UNCHANGED machine
    <3>1. Sent(-retract_mm)
      BY <1>0, <2>1, <2>4, SentFact
    <3> QED
      BY <2>3, <2>4, <3>1 DEF MotionStep, RetractBegins
  <2> QED
    BY <2>2, <2>4, SetFaultSteps
<1>2. CASE RetractDone
  <2>1. /\ machine.state = "RETRACTING" /\ tmc' = tmc
        /\ machine' = Dispatch(machine, "MOVE_DONE") \/ UNCHANGED <<direction, machine>>
    BY <1>2 DEF RetractDone
  <2>2. CASE machine' = Dispatch(machine, "MOVE_DONE")
    <3>1. machine'.state = "READY"
      BY <1>0, <2>1, <2>2, Moved
    <3> QED
      BY <3>1 DEF MotionStep, MotionStates, ManualStates
  <2> QED
    BY <1>0, <2>1, <2>2, KeptStep
<1>3. CASE HomingDone
  <2>1. machine.state = "HOMING" /\ (UnloadEnd("position_min", 0) \/ UNCHANGED <<machine, direction, tmc>>)
    BY <1>3 DEF HomingDone
  <2> QED
    BY <1>0, <2>1, UnloadEndSteps, KeptStep
<1>4. CASE UNCHANGED <<machine, direction, unload_result, tmc, glitches>>
  BY <1>0, <1>4, KeptStep
<1> QED
  BY <1>1, <1>2, <1>3, <1>4 DEF Retract

LEMMA CheckSteps == ASSUME TypeOK, Check PROVE MotionStep
<1>1. PICK s \in SafetyRecords, failed \in Nat :
        \/ UNCHANGED <<machine, direction, unload_result, tmc>>
        \/ /\ machine.state = "HOMING"
           /\ UnloadEnd(IF s.fault = "STALL" THEN "stall" ELSE "position_min", failed)
        \/ set_fault(s.fault, tmc, failed)
  BY CheckCases
<1>2. retract_mm' = retract_mm
  BY DEF Check
<1> QED
  BY <1>1, <1>2, KeptStep, UnloadEndSteps, SetFaultSteps

LEMMA BootSteps == ASSUME TypeOK, ModeInv, Boot PROVE MotionStep
<1>1. machine.state = "BOOT" /\ machine \in Machines
  BY DEF Boot, ModeInv, TypeOK, MotionTypeOK
<1>2. CASE machine' = Dispatch(machine, "INIT_OK")
  <2>1. machine'.state = "READY"
    BY <1>1, <1>2, Moved
  <2> QED
    BY <2>1 DEF MotionStep, MotionStates, ManualStates
<1>3. CASE \E regs, n : set_fault("SPI", regs, n)
  BY <1>3, SetFaultSteps
<1> QED
  BY <1>2, <1>3 DEF Boot

LEMMA NextSteps == TypeOK /\ ModeInv /\ [Next]_vars => MotionStep
<1> SUFFICES ASSUME TypeOK, ModeInv, [Next]_vars PROVE MotionStep
  OBVIOUS
<1>1. CASE Boot
  BY <1>1, BootSteps
<1>2. CASE Restart \/ FactoryReset
  BY <1>2 DEF Restart, FactoryReset, RamLost, MachineInit, MotionStep, MotionStates, ManualStates
<1>3. CASE \E c \in Commands : Exec(c)
  BY <1>3, ExecuteSteps DEF Exec
<1>4. CASE Keys \/ Settle \/ Retract \/ Check
  BY <1>4, KeysSteps, SettleSteps, RetractSteps, CheckSteps
<1>5. CASE Conflict
  BY <1>5, SetFaultSteps DEF Conflict
<1>6. CASE Poll \/ Drain \/ KeysInFault \/ Tail \/ UNCHANGED vars
  BY <1>6, KeptStep DEF Poll, Drain, KeysInFault, Tail, vars, motion
<1>7. CASE Reboot \/ Bootsel
  <2>1. UNCHANGED motion /\ \E o \in motor_stop(tmc) : tmc' = o.regs
    BY <1>7 DEF Reboot, Bootsel, Drive
  <2>2. tmc' \in {tmc, Write(tmc, "VMAX", 0)}
    BY <2>1, OutcomeFact DEF motor_stop, tmc5130_stop
  <2> QED
    BY <2>1, <2>2, KeptStep DEF motion
<1>8. CASE RampGo \/ RampCoast \/ RampHalt
  BY <1>8 DEF RampGo, RampCoast, RampHalt, firmware, motion, settings, MotionStep, GoesOn
<1> QED
  BY <1>1, <1>2, <1>3, <1>4, <1>5, <1>6, <1>7, <1>8 DEF Next, Pass

----------------------------------------------------------------------------
(* What the registers ask for where a motion is left.                         *)

(* A dose or a retraction is ended by its target, with no transfer.  That     *)
(* leaves the motor at rest because its start has written the mode last: a    *)
(* start in which a transfer failed leaves the machine where it was.          *)
TargetInv ==
  machine.state \in {"DOSING", "RETRACTING", "HOMING"} => tmc.VMAX = 0 \/ tmc.RAMPMODE = "POSITION"

Ending == (Disarms \/ Halts) /\ machine'.state # "BOOT" /\ glitches' = glitches

EndStep == Ending => DriveDir(tmc') = 0

LEMMA NextTarget ==
  ASSUME TypeOK, ModeInv, LinkInv', TargetInv, [Next]_vars
  PROVE  TargetInv'
<1>0. MotionStep
  BY NextSteps
<1>1. ~DriverPresent => TargetInv'
  BY DEF LinkInv, TargetInv
<1>2. CASE \/ machine'.state \notin MotionStates
           \/ ManualBegins \/ DoseBegins \/ MoveBegins \/ UnloadBegins \/ RetractBegins
  BY <1>1, <1>2
  DEF ManualBegins, DoseBegins, MoveBegins, UnloadBegins, RetractBegins, Begins, Sent, TargetInv, MotionStates
<1>3. CASE Dwells
  BY <1>3 DEF Dwells, TargetInv
<1>4. CASE GoesOn
  <2>1. tmc \in Registers /\ machine'.state = machine.state
    BY <1>4 DEF GoesOn, TypeOK, DriverTypeOK
  <2>2. CASE tmc' \in {tmc, Write(tmc, "VMAX", 0)}
    BY <2>1, <2>2 DEF Write, Registers, TargetInv
  <2>3. CASE RampGo \/ RampCoast \/ RampHalt
    <3>1. tmc' \in {Advance(tmc), Coast(tmc), Halt(tmc)}
      BY <2>3 DEF RampGo, RampCoast, RampHalt, Moves
    <3>2. tmc'.VMAX = tmc.VMAX /\ tmc'.RAMPMODE = tmc.RAMPMODE
      BY <2>1, <3>1, RampFact
    <3> QED
      BY <2>1, <3>2 DEF TargetInv
  <2> QED
    BY <1>4, <2>2, <2>3 DEF GoesOn
<1> QED
  BY <1>0, <1>2, <1>3, <1>4 DEF MotionStep

LEMMA SpendsNothing ==
  ASSUME TypeOK, NEW n \in Nat, Spend(n), glitches' = glitches
  PROVE  n = 0
BY DEF Spend, TypeOK, DriverTypeOK

(* A stop that no transfer fails clears VMAX, whatever the chip held.         *)
LEMMA StopEnds ==
  ASSUME TypeOK, NEW regs \in Registers, ~DriverPresent => regs.VMAX = 0,
         NEW stop \in motor_stop(regs), NEW n \in Nat, Spend(n + Cost(stop)), tmc'.VMAX = stop.regs.VMAX
  PROVE  EndStep
<1>1. SUFFICES ASSUME Ending PROVE DriveDir(tmc') = 0
  BY DEF EndStep
<1>2. Cost(stop) \in Nat
  BY CostFact
<1>3. n + Cost(stop) = 0
  BY <1>1, <1>2, SpendsNothing DEF Ending
<1>4. Cost(stop) = 0
  BY <1>2, <1>3
<1>5. stop.regs.VMAX = 0
  BY <1>4, StopWrites
<1> QED
  BY <1>5 DEF DriveDir

LEMMA SetFaultEnds ==
  ASSUME TypeOK, NEW f, NEW regs \in Registers, ~DriverPresent => regs.VMAX = 0,
         NEW n \in Nat, set_fault(f, regs, n)
  PROVE  EndStep
BY StopEnds DEF set_fault

LEMMA UnloadEndEnds ==
  ASSUME TypeOK, LinkInv, NEW result, NEW n \in Nat, UnloadEnd(result, n)
  PROVE  EndStep
<1> DEFINE mm == config.position_min_mm
<1>1. mm \in Int /\ tmc \in Registers /\ (~DriverPresent => tmc.VMAX = 0)
  BY DEF LinkInv, TypeOK, SettingsTypeOK, ConfigRecords, DriverTypeOK
<1> HIDE DEF mm
<1>2. PICK stop \in motor_stop(tmc) :
        \E o \in motor_set_position_mm(stop.regs, mm) :
          tmc' = o.regs /\ Spend(n + Cost(stop) + Cost(o))
  BY DEF UnloadEnd, mm
<1>3. PICK o \in motor_set_position_mm(stop.regs, mm) :
        tmc' = o.regs /\ Spend(n + Cost(stop) + Cost(o))
  BY <1>2
<1>4. Cost(stop) \in Nat /\ Cost(o) \in Nat /\ n + Cost(o) \in Nat
  BY CostFact
<1>5. stop.regs \in Registers
  BY <1>1, StopFact
<1>6. tmc'.VMAX = stop.regs.VMAX
  BY <1>1, <1>3, <1>5, RelabelFact
<1>7. n + Cost(stop) + Cost(o) = (n + Cost(o)) + Cost(stop)
  BY <1>4
<1>8. Spend((n + Cost(o)) + Cost(stop))
  BY <1>3, <1>7
<1> QED
  BY <1>1, <1>4, <1>6, <1>8, StopEnds

LEMMA StopMotionEnds == ASSUME TypeOK, LinkInv, stop_motion PROVE EndStep
<1>1. tmc \in Registers /\ (~DriverPresent => tmc.VMAX = 0)
  BY DEF TypeOK, DriverTypeOK, LinkInv
<1>2. PICK stop \in motor_stop(tmc) : tmc' = stop.regs /\ Spend(Cost(stop))
  BY DEF stop_motion, Drive
<1>3. Spend(0 + Cost(stop))
  BY <1>2, CostFact
<1> QED
  BY <1>1, <1>2, <1>3, StopEnds

(* The other commands leave no motion: a start is refused out of READY, where *)
(* there is none.                                                             *)
LEMMA CommandEnds ==
  ASSUME TypeOK, ModeInv,
         \/ begin_manual(1) \/ begin_manual(-1) \/ \E c : Dose(c) \/ Move(c) \/ Unload(c)
         \/ FaultReset \/ SetZero \/ apply_config_value \/ CalStart \/ CalCancel \/ CalFinish
         \/ FlushStatistics \/ Ignored
  PROVE  ~Ending
<1>1. machine \in Machines /\ (machine.state \in {"READY", "FAULT"} => direction = 0)
  BY DEF TypeOK, MotionTypeOK, ModeInv, DirectionMatchesState
<1>2. CASE begin_manual(1) \/ begin_manual(-1) \/ \E c : Dose(c) \/ Move(c) \/ Unload(c)
  <2>1. /\ machine.state = "READY"
        /\ machine' = machine \/ \E e \in {"PUSH", "PULL", "DOSE", "HOME"} : machine' = Dispatch(machine, e)
    BY <1>2 DEF begin_manual, Dose, Move, Unload, StartDose, motion
  <2>2. machine'.state \notin {"STOPPING", "FAULT"}
    BY <1>1, <2>1, Moved
  <2> QED
    BY <1>1, <2>1, <2>2 DEF Ending, Disarms, Halts
<1>3. CASE FaultReset
  <2>1. machine.state = "FAULT" /\ machine'.state = "READY"
    BY <1>1, <1>3, Moved DEF FaultReset
  <2> QED
    BY <1>1, <2>1 DEF Ending, Disarms, Halts
<1>4. CASE \/ SetZero \/ apply_config_value \/ CalStart \/ CalCancel \/ CalFinish
           \/ FlushStatistics \/ Ignored
  <2>1. UNCHANGED <<machine, direction>>
    BY <1>4 DEF SetZero, apply_config_value, CalStart, CalCancel, CalFinish, FlushStatistics, Ignored, motion
  <2> QED
    BY <2>1 DEF Ending, Disarms, Halts
<1> QED
  BY <1>2, <1>3, <1>4

(* A dose or a retraction on its target.                                      *)
LEMMA TargetEnds ==
  ASSUME TypeOK, TargetInv, machine.state \in {"DOSING", "RETRACTING"}, tmc' = tmc,
         NEW r \in motor_target_reached(tmc), r.value
  PROVE  EndStep
<1>1. tmc.XACTUAL = tmc.XTARGET /\ tmc.XACTUAL \in Int
  BY ReachedFact DEF TypeOK, DriverTypeOK, Registers
<1>2. tmc.VMAX = 0 \/ tmc.RAMPMODE = "POSITION"
  BY DEF TargetInv
<1>3. tmc.XTARGET - tmc.XACTUAL = 0
  BY <1>1
<1>4. DriveDir(tmc) = 0
  BY <1>2, <1>3 DEF DriveDir, Sign
<1> QED
  BY <1>4 DEF EndStep

LEMMA SettleEnds == ASSUME TypeOK, TargetInv, Settle PROVE EndStep
<1>1. machine \in Machines /\ tmc' = tmc
  BY DEF TypeOK, MotionTypeOK, Settle
<1>2. CASE Stopped
  <2>1. machine.state = "STOPPING" /\ direction' = direction
        /\ (machine' = machine \/ machine' = Dispatch(machine, "STOPPED"))
    BY <1>2 DEF Stopped
  <2>2. machine'.state \in {machine.state, "READY"}
    BY <1>1, <2>1, Moved
  <2> QED
    BY <2>1, <2>2 DEF EndStep, Ending, Disarms, Halts
<1>3. CASE DoseDone
  <2>1. PICK r \in motor_target_reached(tmc) : r.value \/ UNCHANGED <<machine, direction>>
    BY <1>3 DEF DoseDone
  <2>2. CASE r.value
    BY <1>1, <1>3, <2>2, TargetEnds DEF DoseDone
  <2>3. CASE UNCHANGED <<machine, direction>>
    BY <2>3 DEF EndStep, Ending, Disarms, Halts
  <2> QED
    BY <2>1, <2>2, <2>3
<1>4. CASE UNCHANGED <<machine, direction, phase_ms, glitches>>
  BY <1>4 DEF EndStep, Ending, Disarms, Halts
<1> QED
  BY <1>2, <1>3, <1>4 DEF Settle

LEMMA RetractEnds == ASSUME TypeOK, LinkInv, TargetInv, Retract PROVE EndStep
<1>1. tmc \in Registers /\ (~DriverPresent => tmc.VMAX = 0)
  BY DEF TypeOK, DriverTypeOK, LinkInv
<1>2. CASE RetractStart
  <2>1. -retract_mm \in Int /\ config.retract_speed_mm_s \in Int
    BY DEF TypeOK, MotionTypeOK, SettingsTypeOK, ConfigRecords
  <2>2. PICK o \in motor_move_relative(tmc, -retract_mm, config.retract_speed_mm_s) :
          \/ direction = 0 /\ UNCHANGED machine
          \/ set_fault("SPI", o.regs, 1)
    BY <1>2 DEF RetractStart, RetractDue
  <2>3. o.regs \in Registers /\ (~DriverPresent => o.regs.VMAX = 0)
    BY <1>1, <2>1, MoveFact, AbsentFact
  <2>4. CASE set_fault("SPI", o.regs, 1)
    BY <2>3, <2>4, SetFaultEnds
  <2>5. CASE direction = 0 /\ UNCHANGED machine
    BY <2>5 DEF EndStep, Ending, Disarms, Halts
  <2> QED
    BY <2>2, <2>4, <2>5
<1>3. CASE RetractDone
  <2>1. PICK r \in motor_target_reached(tmc) : r.value \/ UNCHANGED <<machine, direction>>
    BY <1>3 DEF RetractDone
  <2>2. CASE r.value
    BY <1>3, <2>2, TargetEnds DEF RetractDone
  <2>3. CASE UNCHANGED <<machine, direction>>
    BY <2>3 DEF EndStep, Ending, Disarms, Halts
  <2> QED
    BY <2>1, <2>2, <2>3
<1>4. CASE HomingDone
  <2>1. UnloadEnd("position_min", 0) \/ UNCHANGED <<machine, direction>>
    BY <1>4 DEF HomingDone
  <2> QED
    BY <2>1, UnloadEndEnds DEF EndStep, Ending, Disarms, Halts
<1>5. CASE UNCHANGED <<machine, direction, unload_result, tmc, glitches>>
  BY <1>5 DEF EndStep, Ending, Disarms, Halts
<1> QED
  BY <1>2, <1>3, <1>4, <1>5 DEF Retract

LEMMA CheckEnds == ASSUME TypeOK, LinkInv, Check PROVE EndStep
<1>1. tmc \in Registers /\ (~DriverPresent => tmc.VMAX = 0)
  BY DEF TypeOK, DriverTypeOK, LinkInv
<1>2. PICK s \in SafetyRecords, failed \in Nat :
        \/ UNCHANGED <<machine, direction, unload_result, tmc>>
        \/ UnloadEnd(IF s.fault = "STALL" THEN "stall" ELSE "position_min", failed)
        \/ set_fault(s.fault, tmc, failed)
  BY CheckCases
<1>3. CASE UNCHANGED <<machine, direction, unload_result, tmc>>
  BY <1>3 DEF EndStep, Ending, Disarms, Halts
<1>4. CASE UnloadEnd(IF s.fault = "STALL" THEN "stall" ELSE "position_min", failed)
  BY <1>4, UnloadEndEnds
<1>5. CASE set_fault(s.fault, tmc, failed)
  BY <1>1, <1>5, SetFaultEnds
<1> QED
  BY <1>2, <1>3, <1>4, <1>5

LEMMA BootEnds == ASSUME TypeOK, ModeInv, LinkInv, Boot PROVE EndStep
<1> DEFINE n == IF DriverPresent THEN 1 ELSE 0
<1>1. /\ tmc \in Registers /\ (~DriverPresent => tmc.VMAX = 0) /\ saved.manual_speed_mm_s \in Nat
      /\ machine \in Machines /\ machine.state = "BOOT" /\ n \in Nat
  BY DEF TypeOK, MotionTypeOK, SettingsTypeOK, ConfigRecords, DriverTypeOK, LinkInv, ModeInv, Boot
<1> HIDE DEF n
<1>2. PICK init \in motor_init(tmc, saved.manual_speed_mm_s) :
        \/ machine' = Dispatch(machine, "INIT_OK") /\ UNCHANGED direction
        \/ set_fault("SPI", init.regs, n)
  BY DEF Boot, n
<1>3. init.regs \in Registers /\ (~DriverPresent => init.regs.VMAX = 0)
  BY <1>1, InitFact
<1>4. CASE machine' = Dispatch(machine, "INIT_OK") /\ UNCHANGED direction
  <2>1. machine'.state = "READY"
    BY <1>1, <1>4, Moved
  <2> QED
    BY <1>4, <2>1 DEF EndStep, Ending, Disarms, Halts
<1>5. CASE set_fault("SPI", init.regs, n)
  BY <1>1, <1>3, <1>5, SetFaultEnds
<1> QED
  BY <1>2, <1>4, <1>5

LEMMA NextEnds == ASSUME TypeOK, ModeInv, LinkInv, TargetInv, [Next]_vars PROVE EndStep
<1>1. CASE Boot
  BY <1>1, BootEnds
<1>2. CASE Restart \/ FactoryReset
  BY <1>2 DEF Restart, FactoryReset, RamLost, MachineInit, EndStep, Ending
<1>3. CASE \E c \in Commands : Exec(c)
  <2>1. PICK c \in Commands : Execute(c)
    BY <1>3 DEF Exec
  <2> QED
    BY <2>1, StopMotionEnds, CommandEnds DEF Execute, EndStep
<1>4. CASE Keys
  <2>1. begin_manual(1) \/ begin_manual(-1) \/ Dose(Trigger) \/ stop_motion \/ Ignored
    BY <1>4 DEF Keys
  <2> QED
    BY <2>1, StopMotionEnds, CommandEnds DEF EndStep
<1>5. CASE Conflict
  <2>1. set_fault("BUTTON_CONFLICT", tmc, 0) /\ tmc \in Registers /\ (~DriverPresent => tmc.VMAX = 0)
    BY <1>5 DEF Conflict, TypeOK, DriverTypeOK, LinkInv
  <2> QED
    BY <2>1, SetFaultEnds
<1>6. CASE Settle \/ Retract \/ Check
  BY <1>6, SettleEnds, RetractEnds, CheckEnds
<1>7. CASE \/ Poll \/ Drain \/ KeysInFault \/ Tail \/ Reboot \/ Bootsel
           \/ RampGo \/ RampCoast \/ RampHalt \/ UNCHANGED vars
  <2>1. UNCHANGED <<machine, direction>>
    BY <1>7 DEF Poll, Drain, KeysInFault, Tail, Reboot, Bootsel, RampGo, RampCoast, RampHalt,
       firmware, vars, motion
  <2> QED
    BY <2>1 DEF EndStep, Ending, Disarms, Halts
<1> QED
  BY <1>1, <1>2, <1>3, <1>4, <1>5, <1>6, <1>7 DEF Next, Pass

(* Where a motion is left, the limits are disarmed or the machine enters      *)
(* STOPPING or FAULT, the registers ask for no motion, unless a transfer of   *)
(* that very step fails: for every course, speed and sequence of commands,    *)
(* whatever failed starts, failed stops and restarts have left in the chip.   *)
THEOREM MotionsEndAtRest == Spec => EndsAtRest
<1>1. Init => TargetInv
  BY DEF Init, MachineInit, TargetInv
<1>2. TypeOK /\ ModeInv /\ LinkInv' /\ TargetInv /\ [Next]_vars => TargetInv'
  BY NextTarget
<1>3. TypeOK /\ ModeInv /\ LinkInv /\ TargetInv /\ [Next]_vars =>
        [(Disarms \/ Halts) /\ machine'.state # "BOOT" /\ glitches' = glitches => DriveDir(tmc') = 0]_vars
  BY NextEnds DEF EndStep, Ending
<1> QED
  BY <1>1, <1>2, <1>3, TypeHolds, ModeInvariant, LinkInvariant, PTL DEF Spec, EndsAtRest

----------------------------------------------------------------------------
(* The limits.                                                                *)

(* The ramp generator goes to its target and rests there.                     *)
LEMMA RampAhead ==
  ASSUME NEW t \in Registers, NEW u, NEW d \in {-1, 1}, t.VMAX # 0, t.RAMPMODE = "POSITION",
         OnTarget(t) \/ Ahead(d, t),
         \/ DriveDir(t) # 0 /\ t.VACTUAL \in {0, DriveDir(t)} /\ u = Advance(t)
         \/ t.VACTUAL # 0 /\ t.VACTUAL # DriveDir(t) /\ u \in {Coast(t), Halt(t)}
  PROVE  OnTarget(u) \/ Ahead(d, u)
<1>0. t.XACTUAL \in Int /\ t.XTARGET \in Int /\ t.VACTUAL \in {-1, 0, 1}
  BY DEF Registers
<1>1. DriveDir(t) = Sign(t.XTARGET - t.XACTUAL)
  BY DEF DriveDir
<1>2. OnTarget(t) => DriveDir(t) = 0 /\ t.VACTUAL = 0
  BY <1>0, <1>1 DEF OnTarget, Sign
<1>3. Ahead(d, t)
  BY <1>2
<1>4. DriveDir(t) = d
  BY <1>0, <1>1, <1>3 DEF Ahead, Sign
<1>5. CASE u = Advance(t)
  <2> DEFINE moved == [t EXCEPT !.XACTUAL = @ + DriveDir(t), !.VACTUAL = DriveDir(t)]
  <2>1. /\ moved.XACTUAL = t.XACTUAL + d /\ moved.XTARGET = t.XTARGET /\ moved.RAMPMODE = "POSITION"
        /\ moved.VACTUAL = d /\ moved \in Registers
    <3>1. ASSUME NEW x \in Int
          PROVE  LET m == [t EXCEPT !.XACTUAL = x, !.VACTUAL = d]
                 IN  /\ m.XACTUAL = x /\ m.XTARGET = t.XTARGET /\ m.RAMPMODE = t.RAMPMODE
                     /\ m.VACTUAL = d /\ m \in Registers
      BY DEF Registers
    <3>2. moved = [t EXCEPT !.XACTUAL = t.XACTUAL + d, !.VACTUAL = d] /\ t.XACTUAL + d \in Int
      BY <1>0, <1>4
    <3> QED
      BY <3>1, <3>2
  <2>2. u = IF moved.XACTUAL = moved.XTARGET THEN [moved EXCEPT !.VACTUAL = 0] ELSE moved
    BY <1>5, <2>1 DEF Advance, Arrived
  <2> HIDE DEF moved
  <2>3. CASE moved.XACTUAL = moved.XTARGET
    <3>1. u.XACTUAL = moved.XACTUAL /\ u.XTARGET = moved.XTARGET /\ u.VACTUAL = 0
      BY <2>1, <2>2, <2>3 DEF Registers
    <3> QED
      BY <2>3, <3>1 DEF OnTarget
  <2>4. CASE moved.XACTUAL # moved.XTARGET
    BY <1>0, <1>3, <2>1, <2>2, <2>4 DEF Ahead
  <2> QED
    BY <2>3, <2>4
<1>6. CASE t.VACTUAL # 0 /\ t.VACTUAL # DriveDir(t) /\ u = Coast(t)
  <2>1. u.XACTUAL = t.XACTUAL + t.VACTUAL /\ u.XTARGET = t.XTARGET
    BY <1>0, <1>6 DEF Coast, Registers
  <2>2. t.VACTUAL = -d
    BY <1>0, <1>4, <1>6
  <2> QED
    BY <1>0, <1>3, <2>1, <2>2 DEF Ahead
<1>7. CASE u = Halt(t)
  <2>1. u.XACTUAL = t.XACTUAL /\ u.XTARGET = t.XTARGET
    BY <1>7 DEF Halt, Registers
  <2> QED
    BY <1>3, <2>1 DEF Ahead
<1> QED
  BY <1>5, <1>6, <1>7

(* A motion of less than half a microstep has no direction: it is begun where  *)
(* it ends.  With the motor still turning, it overshoots and comes back.      *)
ShortStart ==
  /\ machine.state = "READY" /\ machine'.state \in {"DOSING", "HOMING"}
  /\ tmc'.VMAX # 0 /\ tmc'.XTARGET = tmc'.XACTUAL /\ tmc.VACTUAL # 0

(* A motion that has just been sent on its way.                               *)
LEMMA SentAhead ==
  ASSUME TypeOK, LinkInv', NEW mm \in Int, Sent(mm), ~ShortStart, NEW d \in {-1, 1},
         machine.state = "READY", machine'.state \in {"DOSING", "HOMING"},
         (d = 1 /\ mm >= 0) \/ (d = -1 /\ mm =< 0)
  PROVE  tmc'.VMAX = 0 \/ (tmc'.RAMPMODE = "POSITION" /\ (OnTarget(tmc') \/ Ahead(d, tmc')))
<1> DEFINE k == motor_mm_to_microsteps(mm)
<1>1. k \in Int /\ (mm >= 0 => k >= 0) /\ (mm =< 0 => k =< 0)
  BY RoundFact
<1>2. tmc.XACTUAL \in Int
  BY DEF TypeOK, DriverTypeOK, Registers
<1>3. ~DriverPresent => tmc'.VMAX = 0
  BY DEF LinkInv
<1>4. DriverPresent => /\ tmc'.RAMPMODE = "POSITION" /\ tmc'.XACTUAL = tmc.XACTUAL
                       /\ tmc'.XTARGET = tmc.XACTUAL + k /\ tmc'.VACTUAL = tmc.VACTUAL
  BY DEF Sent
<1> HIDE DEF k
<1>5. (d = 1 /\ k >= 0) \/ (d = -1 /\ k =< 0)
  BY <1>1
<1>6. CASE DriverPresent /\ k = 0
  <2>1. tmc'.XTARGET = tmc'.XACTUAL
    BY <1>2, <1>4, <1>6
  <2> QED
    BY <1>4, <1>6, <2>1 DEF ShortStart, OnTarget
<1>7. CASE DriverPresent /\ k # 0
  BY <1>1, <1>2, <1>4, <1>5, <1>7 DEF Ahead
<1> QED
  BY <1>3, <1>6, <1>7

LEMMA StartAhead ==
  ASSUME TypeOK, LinkInv', ~ShortStart,
         ManualBegins \/ DoseBegins \/ MoveBegins \/ UnloadBegins
  PROVE  AheadInv'
<1>0. tmc \in Registers /\ config.position_min_mm \in Int
  BY DEF TypeOK, DriverTypeOK, SettingsTypeOK, ConfigRecords
<1>1. CASE ManualBegins
  BY <1>1 DEF ManualBegins, Begins, AheadInv, LinkInv
<1>2. CASE DoseBegins
  <2>1. PICK pos \in motor_position(tmc), distance \in Int :
          DoseAccepted(distance, pos.mm) /\ Sent(distance)
    BY <1>2 DEF DoseBegins
  <2>2. distance >= 0
    BY <2>1 DEF DoseAccepted
  <2>3. machine.state = "READY" /\ machine'.state = "DOSING" /\ direction' = 1
    BY <1>2 DEF DoseBegins, Begins
  <2>4. tmc'.VMAX = 0 \/ (tmc'.RAMPMODE = "POSITION" /\ (OnTarget(tmc') \/ Ahead(1, tmc')))
    BY <2>1, <2>2, <2>3, SentAhead
  <2> QED
    BY <2>3, <2>4 DEF AheadInv
<1>3. CASE MoveBegins
  <2>1. PICK c \in Commands : /\ c.kind = "MOVE_RELATIVE" /\ Sent(c.distance_mm)
                              /\ direction' = IF c.distance_mm >= 0 THEN 1 ELSE -1
    BY <1>3 DEF MoveBegins
  <2>2. c.distance_mm \in Int
    BY <2>1, DispenserAssumption DEF CommandRecords
  <2>3. \/ direction' = 1 /\ c.distance_mm >= 0
        \/ direction' = -1 /\ c.distance_mm =< 0
    BY <2>1, <2>2
  <2>4. machine.state = "READY" /\ machine'.state = "DOSING"
    BY <1>3 DEF MoveBegins, Begins
  <2>5. \/ tmc'.VMAX = 0
        \/ tmc'.RAMPMODE = "POSITION" /\ (OnTarget(tmc') \/ Ahead(direction', tmc'))
    <3>1. direction' \in {-1, 1}
      BY <2>3
    <3> QED
      BY <2>1, <2>2, <2>3, <2>4, <3>1, SentAhead
  <2> QED
    BY <2>4, <2>5 DEF AheadInv
<1>4. CASE UnloadBegins
  <2> DEFINE mm == config.position_min_mm
  <2>1. PICK pos \in motor_position(tmc) : pos.mm > mm /\ Sent(mm - pos.mm)
    BY <1>4 DEF UnloadBegins
  <2>2. pos.mm \in Int
    BY <1>0, PositionFact
  <2>3. mm - pos.mm \in Int /\ mm - pos.mm =< 0
    BY <1>0, <2>1, <2>2
  <2> HIDE DEF mm
  <2>4. machine.state = "READY" /\ machine'.state = "HOMING" /\ direction' = -1
    BY <1>4 DEF UnloadBegins, Begins
  <2>5. tmc'.VMAX = 0 \/ (tmc'.RAMPMODE = "POSITION" /\ (OnTarget(tmc') \/ Ahead(-1, tmc')))
    BY <2>1, <2>3, <2>4, SentAhead
  <2> QED
    BY <2>4, <2>5 DEF AheadInv
<1> QED
  BY <1>1, <1>2, <1>3, <1>4

LEMMA RetractAhead ==
  ASSUME TypeOK, LinkInv', AheadInv, RetractBegins
  PROVE  AheadInv'
<1> DEFINE k == motor_mm_to_microsteps(-retract_mm)
<1>1. machine'.state = "RETRACTING" /\ direction' = -1 /\ OnTarget(tmc) /\ retract_mm > 0
  BY DEF RetractBegins, AheadInv
<1>2. retract_mm \in Int /\ tmc.XACTUAL \in Int
  BY DEF TypeOK, MotionTypeOK, DriverTypeOK, Registers
<1>3. k \in Int /\ k =< 0
  <2>1. -retract_mm \in Int /\ -retract_mm =< 0
    BY <1>1, <1>2
  <2> QED
    BY <2>1, RoundFact
<1>4. DriverPresent => /\ tmc'.RAMPMODE = "POSITION" /\ tmc'.XACTUAL = tmc.XACTUAL
                       /\ tmc'.XTARGET = tmc.XACTUAL + k /\ tmc'.VACTUAL = tmc.VACTUAL
  BY DEF RetractBegins, Sent
<1> HIDE DEF k
<1>5. DriverPresent => OnTarget(tmc') \/ Ahead(-1, tmc')
  BY <1>1, <1>2, <1>3, <1>4 DEF Ahead, OnTarget
<1> QED
  BY <1>1, <1>4, <1>5 DEF AheadInv, LinkInv

LEMMA RampsAhead ==
  ASSUME TypeOK, ModeInv, AheadInv, RampGo \/ RampCoast \/ RampHalt,
         UNCHANGED <<direction, retract_mm>>, machine'.state = machine.state
  PROVE  AheadInv'
<1> DEFINE Positions == {"DOSING", "RETRACTING", "HOMING"}
<1>1. /\ tmc \in Registers /\ tmc' \in {Advance(tmc), Coast(tmc), Halt(tmc)}
      /\ \/ DriveDir(tmc) # 0 /\ tmc.VACTUAL \in {0, DriveDir(tmc)} /\ tmc' = Advance(tmc)
         \/ tmc.VACTUAL # 0 /\ tmc.VACTUAL # DriveDir(tmc) /\ tmc' \in {Coast(tmc), Halt(tmc)}
  BY DEF RampGo, RampCoast, RampHalt, Coasting, Moves, TypeOK, DriverTypeOK
<1>2. tmc'.VMAX = tmc.VMAX /\ tmc'.RAMPMODE = tmc.RAMPMODE
  BY <1>1, RampFact
<1>3. ~(machine.state = "RETRACTING" /\ direction = 0)
  <2> SUFFICES ASSUME machine.state = "RETRACTING", direction = 0 PROVE FALSE
    OBVIOUS
  <2>1. OnTarget(tmc) /\ (tmc.VMAX = 0 \/ tmc.RAMPMODE = "POSITION")
    BY DEF AheadInv
  <2>2. DriveDir(tmc) = 0 /\ tmc.VACTUAL = 0
    BY <1>1, <2>1 DEF OnTarget, DriveDir, Sign, Registers
  <2> QED
    BY <1>1, <2>2
<1>4. ASSUME machine.state \in Positions, tmc.VMAX # 0
      PROVE  tmc'.RAMPMODE = "POSITION" /\ (OnTarget(tmc') \/ Ahead(direction, tmc'))
  <2>1. tmc.RAMPMODE = "POSITION" /\ (OnTarget(tmc) \/ Ahead(direction, tmc))
    BY <1>4 DEF AheadInv
  <2>2. direction \in {-1, 1}
    <3>1. direction \in {-1, 0, 1}
      BY DEF TypeOK, MotionTypeOK
    <3>2. direction # 0
      BY <1>3, <1>4 DEF ModeInv, DirectionMatchesState
    <3> QED
      BY <3>1, <3>2
  <2>3. OnTarget(tmc') \/ Ahead(direction, tmc')
    BY <1>1, <1>4, <2>1, <2>2, RampAhead
  <2> QED
    BY <1>2, <2>1, <2>3
<1> QED
  BY <1>2, <1>3, <1>4 DEF AheadInv

LEMMA GoesOnAhead == ASSUME TypeOK, ModeInv, AheadInv, GoesOn PROVE AheadInv'
<1>1. machine'.state = machine.state /\ UNCHANGED <<direction, retract_mm>> /\ tmc \in Registers
  BY DEF GoesOn, TypeOK, DriverTypeOK
<1>2. CASE tmc' = tmc
  BY <1>1, <1>2 DEF AheadInv
<1>3. CASE DriverPresent /\ tmc' = Write(tmc, "VMAX", 0)
  <2>1. /\ tmc'.VMAX = 0 /\ tmc'.XACTUAL = tmc.XACTUAL /\ tmc'.XTARGET = tmc.XTARGET
        /\ tmc'.VACTUAL = tmc.VACTUAL
    BY <1>1, <1>3 DEF Write, Registers
  <2> QED
    BY <1>1, <2>1 DEF AheadInv, OnTarget
<1>4. CASE ~DriverPresent /\ tmc' = Write(tmc, "VMAX", 0)
  BY <1>2, <1>4 DEF Write
<1>5. CASE RampGo \/ RampCoast \/ RampHalt
  BY <1>1, <1>5, RampsAhead
<1> QED
  BY <1>2, <1>3, <1>4, <1>5 DEF GoesOn

LEMMA NextAhead ==
  TypeOK /\ ModeInv /\ LinkInv' /\ AheadInv /\ [Next]_vars /\ ~ShortStart => AheadInv'
<1> SUFFICES ASSUME TypeOK, ModeInv, LinkInv', AheadInv, [Next]_vars, ~ShortStart
             PROVE  AheadInv'
  OBVIOUS
<1>1. CASE machine'.state \notin MotionStates
  BY <1>1 DEF AheadInv, MotionStates, ManualStates
<1>2. CASE ManualBegins \/ DoseBegins \/ MoveBegins \/ UnloadBegins
  BY <1>2, StartAhead
<1>3. CASE RetractBegins
  BY <1>3, RetractAhead
<1>4. CASE Dwells
  BY <1>4 DEF Dwells, AheadInv
<1>5. CASE GoesOn
  BY <1>5, GoesOnAhead
<1> QED
  BY <1>1, <1>2, <1>3, <1>4, <1>5, NextSteps DEF MotionStep

(* What the position read by the safety check decides.                        *)
LEMMA LimitCause ==
  ASSUME NEW s \in SafetyRecords, s.fault = "OK", NEW c, IsSafetyConfig(c), NEW timed,
         NEW m \in BOOLEAN, NEW sg \in Nat, NEW hot, NEW spi, NEW pos, NEW dir
  PROVE  LET r == safety_check(s, c, timed, m, sg, hot, spi, pos, dir)
         IN  /\ r.fault = "OK" => ~AtLimit(c, pos, dir)
             /\ r.fault = "LIMIT" => AtLimit(c, pos, dir)
<1> DEFINE r     == safety_check(s, c, timed, m, sg, hot, spi, pos, dir)
           cause == Cause(s, c, timed, hot, spi, pos, dir)
<1>1. /\ cause = "OK" => ~AtLimit(c, pos, dir)
      /\ cause = "LIMIT" => AtLimit(c, pos, dir)
  BY DEF Cause
<1> HIDE DEF cause
<1>2. r = IF cause # "OK" THEN [s EXCEPT !.fault = cause] ELSE StallGuard(s, c, m, sg)
  BY DEF safety_check, cause
<1>3. CASE cause # "OK"
  <2>1. r.fault = cause
    BY <1>2, <1>3 DEF SafetyRecords
  <2> QED
    BY <1>1, <1>3, <2>1
<1>4. CASE cause = "OK"
  <2>1. r.fault \in {"OK", "STALL"}
    BY <1>2, <1>4, StallGuardFact
  <2> QED
    BY <1>1, <1>4, <2>1
<1> QED
  BY <1>3, <1>4

LEMMA CheckReads ==
  ASSUME TypeOK, LoadInv, Check
  PROVE  \E pos \in motor_position(tmc) :
           /\ glitches' = glitches => pos.ok
           /\ \/ UNCHANGED <<machine, direction, unload_result, tmc>> /\ ~AtLimit(config, pos.mm, direction)
              \/ unload_result' = "stall" /\ machine'.state \notin MotionStates
              \/ /\ machine.state = "HOMING" /\ AtLimit(config, pos.mm, direction)
                 /\ machine'.state \notin MotionStates
              \/ unload_result' = unload_result /\ machine'.state \notin MotionStates
<1> DEFINE timed == machine.state \in TimedStates
           moving == machine.state \in MotionStates
           S(sg, hot, spi, mm) == safety_check(safety, SafetyCfg, timed, moving, sg, hot, spi, mm, direction)
           F(spi, pos) == (IF spi THEN 0 ELSE 1) + Cost(pos)
<1>1. PICK sg \in SgSamples, hot \in Overtemps, spi \in BOOLEAN, pos \in motor_position(tmc) :
        LET s      == S(sg, hot, spi, pos.mm)
            failed == F(spi, pos)
            ended  == machine.state = "HOMING" /\ s.fault \in {"STALL", "LIMIT"}
        IN  \/ /\ s.fault = "OK"
               /\ Spend(failed)
               /\ UNCHANGED <<machine, direction, unload_result, tmc>>
            \/ /\ ended
               /\ UnloadEnd(IF s.fault = "STALL" THEN "stall" ELSE "position_min", failed)
            \/ /\ set_fault(s.fault, tmc, failed)
               /\ UNCHANGED unload_result
  BY DEF Check
<1> DEFINE s == S(sg, hot, spi, pos.mm)
           failed == F(spi, pos)
           at == AtLimit(config, pos.mm, direction)
<1>2. /\ s.fault = "OK" => ~at
      /\ s.fault = "LIMIT" => at
  <2>1. /\ sg \in Nat /\ safety \in SafetyRecords /\ moving \in BOOLEAN
        /\ safety.fault = "OK" /\ IsSafetyConfig(SafetyCfg)
    BY DispenserAssumption, SafetyCfgFact DEF Check, LoadInv, Midway, TypeOK, MotionTypeOK
  <2>2. /\ SafetyCfg.position_min_mm = config.position_min_mm
        /\ SafetyCfg.position_max_mm = config.position_max_mm
    BY DEF SafetyCfg, TypeOK, SettingsTypeOK, ConfigRecords
  <2>3. AtLimit(SafetyCfg, pos.mm, direction) <=> at
    BY <2>2 DEF AtLimit
  <2> HIDE DEF timed, moving, at
  <2>4. /\ s.fault = "OK" => ~AtLimit(SafetyCfg, pos.mm, direction)
        /\ s.fault = "LIMIT" => AtLimit(SafetyCfg, pos.mm, direction)
    BY <2>1, LimitCause
  <2> QED
    BY <2>3, <2>4
<1>3. /\ failed \in Nat /\ (failed = 0 => pos.ok) /\ glitches \in Nat /\ tmc \in Registers
      /\ machine \in Machines
  BY CostFact DEF Cost, TypeOK, DriverTypeOK, MotionTypeOK
<1>4. \/ /\ s.fault = "OK" /\ Spend(failed)
         /\ UNCHANGED <<machine, direction, unload_result, tmc>>
      \/ /\ machine.state = "HOMING" /\ s.fault \in {"STALL", "LIMIT"}
         /\ UnloadEnd(IF s.fault = "STALL" THEN "stall" ELSE "position_min", failed)
      \/ set_fault(s.fault, tmc, failed) /\ UNCHANGED unload_result
  BY <1>1
<1> HIDE DEF s, failed, S, F, at
<1>5. CASE /\ s.fault = "OK" /\ Spend(failed)
           /\ UNCHANGED <<machine, direction, unload_result, tmc>>
  <2>1. glitches' = glitches => pos.ok
    BY <1>3, <1>5 DEF Spend
  <2> QED
    BY <1>2, <1>5, <2>1 DEF at
<1>6. CASE /\ machine.state = "HOMING" /\ s.fault \in {"STALL", "LIMIT"}
           /\ UnloadEnd(IF s.fault = "STALL" THEN "stall" ELSE "position_min", failed)
  <2>1. machine'.state \notin MotionStates
    BY <1>3, <1>6, Moved DEF UnloadEnd, MotionStates, ManualStates
  <2>2. \E n, k \in Nat : Spend(failed + n + k)
    BY <1>6, CostFact DEF UnloadEnd
  <2>3. glitches' = glitches => pos.ok
    BY <1>3, <2>2 DEF Spend
  <2>4. unload_result' = IF s.fault = "STALL" THEN "stall" ELSE "position_min"
    BY <1>6 DEF UnloadEnd
  <2> QED
    BY <1>2, <1>6, <2>1, <2>3, <2>4 DEF at
<1>7. CASE set_fault(s.fault, tmc, failed) /\ UNCHANGED unload_result
  <2>1. machine'.state \notin MotionStates
    BY <1>7, SetFaultState
  <2>2. \E n \in Nat : Spend(failed + n)
    BY <1>7, CostFact DEF set_fault
  <2>3. glitches' = glitches => pos.ok
    BY <1>3, <2>2 DEF Spend
  <2> QED
    BY <1>7, <2>1, <2>3
<1> QED
  BY <1>4, <1>5, <1>6, <1>7

(* While the machine is in a motion the registers ask for its direction.      *)
LEMMA AheadDrives ==
  ASSUME TypeOK, ModeInv, AheadInv, machine.state \in MotionStates
  PROVE  DriveDir(tmc) \in {0, direction}
<1>1. tmc \in Registers /\ tmc.XACTUAL \in Int /\ tmc.XTARGET \in Int
  BY DEF TypeOK, DriverTypeOK, Registers
<1>2. CASE tmc.VMAX = 0
  BY <1>2 DEF DriveDir
<1>3. CASE tmc.VMAX # 0 /\ machine.state \in ManualStates
  <2>1. /\ machine.state = "MANUAL_PUSH" => direction = 1 /\ tmc.RAMPMODE = "VELPOS"
        /\ machine.state = "MANUAL_PULL" => direction = -1 /\ tmc.RAMPMODE = "VELNEG"
    BY <1>3 DEF AheadInv, ModeInv, DirectionMatchesState
  <2> QED
    BY <1>3, <2>1 DEF DriveDir, ManualStates
<1>4. CASE tmc.VMAX # 0 /\ machine.state \notin ManualStates
  <2>1. tmc.RAMPMODE = "POSITION" /\ (OnTarget(tmc) \/ Ahead(direction, tmc))
    BY <1>4 DEF AheadInv, MotionStates
  <2>2. DriveDir(tmc) = Sign(tmc.XTARGET - tmc.XACTUAL)
    BY <1>4, <2>1 DEF DriveDir
  <2> QED
    BY <1>1, <2>1, <2>2 DEF OnTarget, Ahead, Sign
<1> QED
  BY <1>2, <1>3, <1>4

LEMMA CheckPhase ==
  ASSUME [Next]_vars, pc = "check", pc' = "tail"
  PROVE  Check
BY DEF Next, Pass, Boot, Restart, RamLost, Exec, Reboot, Bootsel, Poll, Drain, Conflict, FactoryReset,
   KeysInFault, Keys, Settle, Retract, Tail, RampGo, RampCoast, RampHalt, firmware, vars

LEMMA LimitStep ==
  ASSUME TypeOK, ModeInv, LoadInv, AheadInv, [Next]_vars,
         pc = "check", pc' = "tail", glitches' = glitches, machine'.state \in MotionStates
  PROVE  LET mm == motor_microsteps_to_mm(tmc.XACTUAL)
         IN  /\ DriveDir(tmc') = 1  => mm < config.position_max_mm
             /\ DriveDir(tmc') = -1 => mm > config.position_min_mm
<1> DEFINE mm == motor_microsteps_to_mm(tmc.XACTUAL)
<1>1. Check
  BY CheckPhase
<1>2. PICK pos \in motor_position(tmc) :
        /\ pos.ok
        /\ UNCHANGED <<machine, tmc>> /\ ~AtLimit(config, pos.mm, direction)
  BY <1>1, CheckReads
<1>3. /\ tmc \in Registers /\ config.position_max_mm \in Int /\ config.position_min_mm \in Int
      /\ mm \in Int
  BY UnitsAssumption
  DEF TypeOK, DriverTypeOK, SettingsTypeOK, ConfigRecords, Registers, motor_microsteps_to_mm
<1>4. pos.mm = mm
  BY <1>2, <1>3, ReadFact
<1>5. DriveDir(tmc') \in {0, direction}
  BY <1>2, AheadDrives
<1> HIDE DEF mm
<1> QED
  BY <1>2, <1>3, <1>4, <1>5 DEF AtLimit, mm

NoShortStart == [][~ShortStart]_vars

LEMMA AheadInvariant == Spec /\ NoShortStart => []AheadInv
<1>1. Init => AheadInv
  BY DEF Init, AheadInv, MachineInit
<1>2. TypeOK /\ ModeInv /\ LinkInv' /\ AheadInv /\ [Next]_vars /\ [~ShortStart]_vars => AheadInv'
  <2>1. UNCHANGED vars => ~ShortStart
    BY DEF vars, motion, ShortStart
  <2> QED
    BY <2>1, NextAhead
<1> QED
  BY <1>1, <1>2, TypeHolds, ModeInvariant, LinkInvariant, PTL DEF Spec, NoShortStart

(* A pass whose readings succeed leaves no motion running toward the end of   *)
(* the course it is at: for every course, through any number of failed        *)
(* transfers, SETs and restarts, as long as no motion too short to have a     *)
(* direction is begun with the motor still turning.                           *)
THEOREM LimitsKept == Spec /\ NoShortStart => LimitsHeld
<1>1. TypeOK /\ ModeInv /\ LoadInv /\ AheadInv /\ [Next]_vars =>
        [pc = "check" /\ pc' = "tail" /\ glitches' = glitches /\ machine'.state \in MotionStates =>
           LET mm == motor_microsteps_to_mm(tmc.XACTUAL)
           IN  /\ DriveDir(tmc') = 1  => mm < config.position_max_mm
               /\ DriveDir(tmc') = -1 => mm > config.position_min_mm]_vars
  BY LimitStep
<1> QED
  BY <1>1, AheadInvariant, TypeHolds, ModeInvariant, LoadInvariant, PTL DEF Spec, LimitsHeld

(* Every length asked for, whose direction the code takes from its sign, is   *)
(* at least the half microstep motor_mm_to_microsteps rounds up; a MOVE of    *)
(* less is no motion, and one of 0 goes forward.  An unload asks for the      *)
(* distance between a microstep and the start of the course.                  *)
LengthsReachable ==
  /\ \A g \in Configs :
       /\ 2 * g.trigger_dose_mm >= MicrostepLen
       /\ \A x \in Int : motor_microsteps_to_mm(x) > g.position_min_mm =>
                           2 * (g.position_min_mm - motor_microsteps_to_mm(x)) =< -MicrostepLen
  /\ \A c \in Commands :
       /\ c.kind = "DOSE" /\ c.distance_mm > 0 => 2 * c.distance_mm >= MicrostepLen
       /\ c.kind = "MOVE_RELATIVE" =>
            2 * c.distance_mm >= MicrostepLen \/ 2 * c.distance_mm =< -MicrostepLen

(* The lengths in force are those of a configuration SET can produce.         *)
HasLengths(c) ==
  \E g \in Configs : /\ c.trigger_dose_mm = g.trigger_dose_mm
                     /\ c.position_min_mm = g.position_min_mm

LengthsInv == HasLengths(config) /\ HasLengths(saved)

LEMMA FinishLengths == ASSUME TypeOK, LengthsInv, CalFinish PROVE LengthsInv'
<1>1. PICK l \in CalLevels :
        config' = [config EXCEPT !.stallguard_enabled = TRUE,
                                 !.stallguard_warning_level = l.warning,
                                 !.stallguard_critical_level = l.critical]
  BY DEF CalFinish
<1>2. saved' = config' \/ saved' = saved
  BY DEF CalFinish
<1>3. config \in ConfigRecords
  BY DEF TypeOK, SettingsTypeOK
<1>4. /\ config'.trigger_dose_mm = config.trigger_dose_mm
      /\ config'.position_min_mm = config.position_min_mm
  BY <1>1, <1>3 DEF ConfigRecords
<1> QED
  BY <1>2, <1>4 DEF LengthsInv, HasLengths

LEMMA NextLengths == TypeOK /\ LengthsInv /\ [Next]_vars => LengthsInv'
<1> SUFFICES ASSUME TypeOK, LengthsInv, [Next]_vars PROVE LengthsInv'
  OBVIOUS
<1>0. \A g \in Configs : HasLengths(g)
  BY DEF HasLengths
<1>1. CASE UNCHANGED <<config, saved>>
  BY <1>1 DEF LengthsInv
<1>2. CASE Boot
  BY <1>2 DEF Boot, LengthsInv
<1>3. CASE Restart \/ FactoryReset
  <2>1. config' = DefaultConfig /\ saved' \in {DefaultConfig, saved}
    BY <1>3 DEF Restart, FactoryReset, RamLost
  <2> QED
    BY <1>0, <2>1, DispenserAssumption DEF LengthsInv
<1>4. CASE \E c \in Commands : Exec(c)
  <2>1. PICK c \in Commands : Execute(c)
    BY <1>4 DEF Exec
  <2>2. apply_config_value \/ CalFinish \/ UNCHANGED <<config, saved>>
    BY <2>1 DEF Execute, stop_motion, FaultReset, CalCancel, CalStart, Ignored, FlushStatistics,
       begin_manual, Unload, SetZero, Move, Dose, StartDose, settings
  <2>3. CASE apply_config_value
    BY <1>0, <2>3 DEF apply_config_value, LengthsInv
  <2> QED
    BY <1>1, <2>2, <2>3, FinishLengths
<1>5. CASE \/ Poll \/ Drain \/ Conflict \/ KeysInFault \/ Keys \/ Settle \/ Retract \/ Check
           \/ Tail \/ Reboot \/ Bootsel
  <2>1. UNCHANGED <<config, saved>>
    BY <1>5 DEF Poll, Drain, Conflict, KeysInFault, Keys, Settle, Retract, Check, Tail, Reboot, Bootsel,
       begin_manual, Dose, StartDose, stop_motion, Ignored, settings
  <2> QED
    BY <1>1, <2>1
<1>6. CASE RampGo \/ RampCoast \/ RampHalt \/ UNCHANGED vars
  BY <1>6 DEF RampGo, RampCoast, RampHalt, firmware, vars, settings, LengthsInv
<1> QED
  BY <1>2, <1>3, <1>4, <1>5, <1>6 DEF Next, Pass

LEMMA SentFar ==
  ASSUME TypeOK, LinkInv', NEW mm \in Int, Sent(mm),
         2 * mm >= MicrostepLen \/ 2 * mm =< -MicrostepLen
  PROVE  tmc'.VMAX = 0 \/ tmc'.XTARGET # tmc'.XACTUAL
<1> DEFINE k == motor_mm_to_microsteps(mm)
<1>1. k \in Int /\ k # 0
  <2>1. k \in Int /\ (2 * mm >= MicrostepLen => k >= 1) /\ (2 * mm =< -MicrostepLen => k =< -1)
    BY RoundFact
  <2> HIDE DEF k
  <2> QED
    BY <2>1
<1>2. tmc.XACTUAL \in Int
  BY DEF TypeOK, DriverTypeOK, Registers
<1>3. DriverPresent => tmc'.XACTUAL = tmc.XACTUAL /\ tmc'.XTARGET = tmc.XACTUAL + k
  BY DEF Sent
<1> HIDE DEF k
<1> QED
  BY <1>1, <1>2, <1>3 DEF LinkInv

LEMMA StartsFar ==
  ASSUME LengthsReachable
  PROVE  TypeOK /\ ModeInv /\ LinkInv' /\ LengthsInv /\ [Next]_vars => ~ShortStart
<1> SUFFICES ASSUME TypeOK, ModeInv, LinkInv', LengthsInv, [Next]_vars,
                    machine.state = "READY", machine'.state \in {"DOSING", "HOMING"}
             PROVE  tmc'.VMAX = 0 \/ tmc'.XTARGET # tmc'.XACTUAL
  BY DEF ShortStart
<1>0. tmc \in Registers /\ config.position_min_mm \in Int /\ MicrostepLen \in Nat \ {0}
  BY UnitsAssumption DEF TypeOK, DriverTypeOK, SettingsTypeOK, ConfigRecords
<1>1. DoseBegins \/ MoveBegins \/ UnloadBegins
  BY NextSteps DEF MotionStep, ManualBegins, RetractBegins, Dwells, GoesOn, Begins,
     MotionStates, ManualStates
<1>2. CASE DoseBegins
  <2>1. PICK distance \in Int :
          /\ \/ distance = config.trigger_dose_mm
             \/ \E c \in Commands : c.kind = "DOSE" /\ c.distance_mm > 0 /\ distance = c.distance_mm
          /\ Sent(distance)
    BY <1>2 DEF DoseBegins
  <2>2. 2 * distance >= MicrostepLen
    BY <2>1 DEF LengthsReachable, LengthsInv, HasLengths
  <2> QED
    BY <2>1, <2>2, SentFar
<1>3. CASE MoveBegins
  <2>1. PICK c \in Commands : c.kind = "MOVE_RELATIVE" /\ Sent(c.distance_mm)
    BY <1>3 DEF MoveBegins
  <2>2. c.distance_mm \in Int
    BY <2>1, DispenserAssumption DEF CommandRecords
  <2>3. 2 * c.distance_mm >= MicrostepLen \/ 2 * c.distance_mm =< -MicrostepLen
    BY <2>1 DEF LengthsReachable
  <2> QED
    BY <2>1, <2>2, <2>3, SentFar
<1>4. CASE UnloadBegins
  <2> DEFINE mm == config.position_min_mm
  <2>1. PICK pos \in motor_position(tmc) : pos.mm > mm /\ Sent(mm - pos.mm)
    BY <1>4 DEF UnloadBegins
  <2>2. PICK x \in Int : pos.mm = motor_microsteps_to_mm(x)
    BY <1>0, ReadFact
  <2>3. pos.mm \in Int
    BY <1>0, PositionFact
  <2>4. 2 * (mm - pos.mm) =< -MicrostepLen
    BY <2>1, <2>2 DEF LengthsReachable, LengthsInv, HasLengths
  <2>5. mm - pos.mm \in Int
    BY <1>0, <2>3
  <2> HIDE DEF mm
  <2> QED
    BY <2>1, <2>4, <2>5, SentFar
<1> QED
  BY <1>1, <1>2, <1>3, <1>4

(* With lengths that are all motions, as those of a pump with a microstep     *)
(* shorter than any length it is asked for, the limits hold without more.     *)
THEOREM LimitsKeptReachable == ASSUME LengthsReachable PROVE Spec => LimitsHeld
<1>1. Init => LengthsInv
  BY DispenserAssumption DEF Init, LengthsInv, HasLengths
<1>2. Spec => NoShortStart
  BY <1>1, NextLengths, StartsFar, TypeHolds, ModeInvariant, LinkInvariant, PTL
  DEF Spec, NoShortStart
<1> QED
  BY <1>2, LimitsKept

----------------------------------------------------------------------------
(* The targets.                                                               *)

(* No transfer fails in a step that begins a motion, whose length comes from  *)
(* the position read, or that writes the result of an unload.  Any other may. *)
Decides ==
  \/ machine.state = "READY" /\ machine'.state \in MotionStates
  \/ unload_result' # unload_result

DecidesOnReadings == [][Decides => glitches' = glitches]_vars

(* A SET in the middle of a motion does not move the end it goes to toward it. *)
EndKept(state, end, new) == machine.state = state /\ machine'.state = state => new >= end

MinKept == EndKept("HOMING", config.position_min_mm, config'.position_min_mm)
MaxKept == EndKept("DOSING", config.position_max_mm, config'.position_max_mm)

MinSteady == [][MinKept]_vars
MaxSteady == [][MaxKept]_vars

LEMMA WithinMore ==
  ASSUME NEW x \in Int, NEW a \in Int, NEW b \in Int, Within(x, a), b >= a
  PROVE  Within(x, b)
<1> DEFINE p == motor_microsteps_to_mm(x)
<1>1. p \in Int /\ MicrostepLen \in Nat
  BY UnitsAssumption DEF motor_microsteps_to_mm
<1>2. 2 * p =< 2 * a + MicrostepLen
  BY DEF Within
<1> HIDE DEF p
<1>3. 2 * p =< 2 * b + MicrostepLen
  BY <1>1, <1>2
<1> QED
  BY <1>3 DEF Within, p

LEMMA SentWithin ==
  ASSUME TypeOK, DriverPresent, NEW mm \in Int, Sent(mm), NEW end \in Int,
         motor_microsteps_to_mm(tmc.XACTUAL) + mm =< end
  PROVE  Within(tmc'.XTARGET, end)
<1> DEFINE x == tmc.XACTUAL
           k == motor_mm_to_microsteps(mm)
           L == MicrostepLen
<1>1. x \in Int /\ L \in Nat \ {0} /\ tmc'.XTARGET = x + k
  BY UnitsAssumption DEF TypeOK, DriverTypeOK, Registers, Sent
<1>2. k \in Int /\ 2 * motor_microsteps_to_mm(k) =< 2 * mm + L
  BY RoundFact
<1> HIDE DEF x, k, L
<1>3. x * L + mm =< end /\ 2 * (k * L) =< 2 * mm + L
  BY <1>2 DEF motor_microsteps_to_mm, x, L
<1>4. (x + k) * L = x * L + k * L /\ x * L \in Int /\ k * L \in Int
  BY <1>1, <1>2
<1>5. 2 * ((x + k) * L) =< 2 * end + L
  BY <1>1, <1>3, <1>4
<1> QED
  BY <1>1, <1>5 DEF Within, motor_microsteps_to_mm, L

LEMMA TargetKept == ASSUME TypeOK, GoesOn PROVE tmc'.XTARGET = tmc.XTARGET
<1>1. tmc \in Registers
  BY DEF TypeOK, DriverTypeOK
<1>2. CASE tmc' = Advance(tmc)
  <2> DEFINE moved == [tmc EXCEPT !.XACTUAL = @ + DriveDir(tmc), !.VACTUAL = DriveDir(tmc)]
  <2>1. DOMAIN moved = DOMAIN tmc /\ moved.XTARGET = tmc.XTARGET
    BY <1>1 DEF Registers
  <2>2. tmc' = moved \/ tmc' = [moved EXCEPT !.VACTUAL = 0]
    BY <1>2 DEF Advance
  <2> HIDE DEF moved
  <2>3. "XTARGET" \in DOMAIN moved
    BY <1>1, <2>1 DEF Registers
  <2> QED
    BY <2>1, <2>2, <2>3
<1>3. CASE tmc' \in {tmc, Coast(tmc), Halt(tmc), Write(tmc, "VMAX", 0)}
  BY <1>1, <1>3 DEF Coast, Halt, Write, Registers
<1> QED
  BY <1>2, <1>3 DEF GoesOn, RampGo, RampCoast, RampHalt, Moves

LEMMA NextUnload ==
  ASSUME DriverPresent
  PROVE  /\ TypeOK /\ TypeOK' /\ ModeInv /\ UnloadInv /\ [Next]_vars
         /\ (Decides => glitches' = glitches) /\ MinKept
         => UnloadInv'
<1> SUFFICES ASSUME TypeOK, TypeOK', ModeInv, UnloadInv, [Next]_vars, Decides => glitches' = glitches, MinKept,
                    machine'.state = "HOMING"
             PROVE  Within(tmc'.XTARGET, config'.position_min_mm)
  BY DEF UnloadInv
<1>1. UnloadBegins \/ GoesOn
  BY NextSteps DEF MotionStep, ManualBegins, DoseBegins, MoveBegins, RetractBegins, Dwells, Begins,
     MotionStates, ManualStates
<1>2. CASE UnloadBegins
  <2> DEFINE end == config.position_min_mm
  <2>1. PICK pos \in motor_position(tmc) : pos.ok /\ Sent(end - pos.mm)
    BY <1>2 DEF UnloadBegins, Begins, Decides, MotionStates
  <2>2. end \in Int /\ pos.mm \in Int /\ end - pos.mm \in Int /\ config' = config
    BY <1>2, PositionFact
    DEF UnloadBegins, Begins, TypeOK, DriverTypeOK, SettingsTypeOK, ConfigRecords
  <2>3. pos.mm = motor_microsteps_to_mm(tmc.XACTUAL)
    BY <2>1, ReadFact DEF TypeOK, DriverTypeOK
  <2> HIDE DEF end
  <2>4. Within(tmc'.XTARGET, end)
    BY <2>1, <2>2, <2>3, SentWithin
  <2> QED
    BY <2>2, <2>4 DEF end
<1>3. CASE GoesOn
  <2>1. machine.state = "HOMING" /\ tmc'.XTARGET = tmc.XTARGET
    BY <1>3, TargetKept DEF GoesOn
  <2>2. /\ config'.position_min_mm >= config.position_min_mm
        /\ config.position_min_mm \in Int /\ config'.position_min_mm \in Int /\ tmc.XTARGET \in Int
    BY <2>1 DEF MinKept, EndKept, TypeOK, SettingsTypeOK, DriverTypeOK, ConfigRecords, Registers
  <2> QED
    BY <2>1, <2>2, WithinMore DEF UnloadInv
<1> QED
  BY <1>1, <1>2, <1>3

LEMMA NextDose ==
  ASSUME DriverPresent, \A c \in Commands : c.kind = "MOVE_RELATIVE" => c.distance_mm < 0
  PROVE  /\ TypeOK /\ TypeOK' /\ ModeInv /\ DoseFits /\ [Next]_vars
         /\ (Decides => glitches' = glitches) /\ MaxKept
         => DoseFits'
<1> SUFFICES ASSUME TypeOK, TypeOK', ModeInv, DoseFits, [Next]_vars, Decides => glitches' = glitches, MaxKept,
                    machine'.state = "DOSING", direction' = 1
             PROVE  Within(tmc'.XTARGET, config'.position_max_mm)
  BY DEF DoseFits
<1>1. DoseBegins \/ MoveBegins \/ GoesOn
  BY NextSteps DEF MotionStep, ManualBegins, UnloadBegins, RetractBegins, Dwells, Begins,
     MotionStates, ManualStates
<1>2. CASE DoseBegins
  <2> DEFINE end == config.position_max_mm
  <2>1. PICK pos \in motor_position(tmc), distance \in Int :
          pos.ok /\ DoseAccepted(distance, pos.mm) /\ Sent(distance)
    BY <1>2 DEF DoseBegins, Begins, Decides, MotionStates
  <2>2. end \in Int /\ pos.mm \in Int /\ config' = config
    BY <1>2, PositionFact
    DEF DoseBegins, Begins, TypeOK, DriverTypeOK, SettingsTypeOK, ConfigRecords
  <2>3. pos.mm = motor_microsteps_to_mm(tmc.XACTUAL)
    BY <2>1, ReadFact DEF TypeOK, DriverTypeOK
  <2>4. pos.mm + distance =< end
    BY <2>1, <2>2 DEF DoseAccepted
  <2> HIDE DEF end
  <2>5. Within(tmc'.XTARGET, end)
    BY <2>1, <2>2, <2>3, <2>4, SentWithin
  <2> QED
    BY <2>2, <2>5 DEF end
<1>3. CASE MoveBegins
  <2>1. PICK c \in Commands : /\ c.kind = "MOVE_RELATIVE"
                              /\ direction' = IF c.distance_mm >= 0 THEN 1 ELSE -1
    BY <1>3 DEF MoveBegins
  <2>2. c.distance_mm < 0 /\ c.distance_mm \in Int
    BY <2>1, DispenserAssumption DEF CommandRecords
  <2> QED
    BY <2>1, <2>2
<1>4. CASE GoesOn
  <2>1. machine.state = "DOSING" /\ direction = 1 /\ tmc'.XTARGET = tmc.XTARGET
    BY <1>4, TargetKept DEF GoesOn
  <2>2. /\ config'.position_max_mm >= config.position_max_mm
        /\ config.position_max_mm \in Int /\ config'.position_max_mm \in Int /\ tmc.XTARGET \in Int
    BY <2>1 DEF MaxKept, EndKept, TypeOK, SettingsTypeOK, DriverTypeOK, ConfigRecords, Registers
  <2> QED
    BY <2>1, <2>2, WithinMore DEF DoseFits
<1> QED
  BY <1>1, <1>2, <1>3, <1>4

LEMMA NearIsWithin ==
  ASSUME TypeOK, motor_microsteps_to_mm(tmc.XACTUAL) =< config.position_min_mm
  PROVE  Within(tmc.XACTUAL, config.position_min_mm)
BY UnitsAssumption
DEF Within, motor_microsteps_to_mm, TypeOK, DriverTypeOK, SettingsTypeOK, ConfigRecords, Registers

(* The unload that a command reports done at once.                            *)
LEMMA UnloadAtOnce ==
  ASSUME TypeOK, glitches' = glitches, NEW c, Unload(c), unload_result' = "position_min",
         unload_result # "position_min"
  PROVE  Within(tmc.XACTUAL, config.position_min_mm)
<1>1. PICK pos \in motor_position(tmc) :
        /\ pos.mm =< config.position_min_mm
        /\ \E o : Spend(Cost(pos) + Cost(o))
  BY DEF Unload
<1>2. tmc \in Registers /\ glitches \in Nat
  BY DEF TypeOK, DriverTypeOK
<1>3. pos.ok
  BY <1>1, <1>2, CostFact DEF Spend, Cost
<1> QED
  BY <1>1, <1>2, <1>3, ReadFact, NearIsWithin

LEMMA UnloadStep ==
  ASSUME TypeOK, ModeInv, LoadInv, UnloadInv, [Next]_vars, glitches' = glitches,
         unload_result = "running", unload_result' = "position_min"
  PROVE  Within(tmc.XACTUAL, config.position_min_mm)
<1>1. CASE \E c \in Commands : Exec(c)
  <2>1. PICK c \in Commands : Execute(c)
    BY <1>1 DEF Exec
  <2>2. Unload(c)
    BY <2>1 DEF Execute, stop_motion, FaultReset, CalCancel, CalStart, CalFinish, apply_config_value,
       Ignored, FlushStatistics, begin_manual, SetZero, Move, Dose, StartDose, motion
  <2> QED
    BY <2>2, UnloadAtOnce
<1>2. CASE Retract
  <2>1. HomingDone
    BY <1>2 DEF Retract, RetractStart, RetractDone
  <2>2. PICK r \in motor_target_reached(tmc) : r.value
    BY <2>1 DEF HomingDone
  <2>3. tmc.XACTUAL = tmc.XTARGET
    BY <2>2, ReachedFact
  <2> QED
    BY <2>1, <2>3 DEF HomingDone, UnloadInv
<1>3. CASE Check
  <2>1. PICK pos \in motor_position(tmc) :
          pos.ok /\ machine.state = "HOMING" /\ AtLimit(config, pos.mm, direction)
    BY <1>3, CheckReads
  <2>2. direction = -1
    BY <2>1 DEF ModeInv, DirectionMatchesState
  <2>3. pos.mm =< config.position_min_mm
    BY <2>1, <2>2 DEF AtLimit
  <2>4. pos.mm = motor_microsteps_to_mm(tmc.XACTUAL)
    BY <2>1, ReadFact DEF TypeOK, DriverTypeOK
  <2> QED
    BY <2>3, <2>4, NearIsWithin
<1>4. CASE Keys
  BY <1>4 DEF Keys, begin_manual, Dose, StartDose, stop_motion, Ignored, motion
<1>5. CASE Restart \/ FactoryReset
  BY <1>5 DEF Restart, FactoryReset, RamLost
<1>6. CASE \/ Boot \/ Poll \/ Drain \/ Conflict \/ KeysInFault \/ Settle \/ Tail \/ Reboot \/ Bootsel
           \/ RampGo \/ RampCoast \/ RampHalt \/ UNCHANGED vars
  BY <1>6 DEF Boot, Poll, Drain, Conflict, KeysInFault, Settle, Tail, Reboot, Bootsel,
     RampGo, RampCoast, RampHalt, firmware, vars, motion
<1> QED
  BY <1>1, <1>2, <1>3, <1>4, <1>5, <1>6 DEF Next, Pass

(* An unload that reports position_min has brought the motor there, if no     *)
(* reading that decides fails and no SET lowers the minimum under it: by its  *)
(* target, by the limit, or because it was there already.                     *)
THEOREM UnloadsHonest ==
  ASSUME DriverPresent
  PROVE  Spec /\ DecidesOnReadings /\ MinSteady => UnloadHonest
<1>1. Init => UnloadInv
  BY DEF Init, MachineInit, UnloadInv
<1>2. /\ TypeOK /\ TypeOK' /\ ModeInv /\ UnloadInv /\ [Next]_vars
      /\ [Decides => glitches' = glitches]_vars /\ [MinKept]_vars
      => UnloadInv'
  <2>1. UNCHANGED vars => UNCHANGED glitches
    BY DEF vars
  <2>2. TypeOK /\ UNCHANGED vars => MinKept
    BY DEF vars, settings, MinKept, EndKept, TypeOK, SettingsTypeOK, ConfigRecords
  <2> QED
    BY <2>1, <2>2, NextUnload
<1>3. /\ TypeOK /\ ModeInv /\ LoadInv /\ UnloadInv /\ [Next]_vars
      /\ [Decides => glitches' = glitches]_vars
      => [unload_result = "running" /\ unload_result' = "position_min" =>
           Within(tmc.XACTUAL, config.position_min_mm)]_vars
  BY UnloadStep DEF Decides
<1> QED
  BY <1>1, <1>2, <1>3, TypeHolds, ModeInvariant, LoadInvariant, PTL
  DEF Spec, DecidesOnReadings, MinSteady, UnloadHonest

(* The target of a dose is within the course, if the position it starts from  *)
(* was read, no SET shortens the course under it and no MOVE, which nothing   *)
(* checks, goes forward: for every course, syringe and rounding.              *)
THEOREM DosesFit ==
  ASSUME DriverPresent, \A c \in Commands : c.kind = "MOVE_RELATIVE" => c.distance_mm < 0
  PROVE  Spec /\ DecidesOnReadings /\ MaxSteady => []DoseFits
<1>1. Init => DoseFits
  BY DEF Init, MachineInit, DoseFits
<1>2. /\ TypeOK /\ TypeOK' /\ ModeInv /\ DoseFits /\ [Next]_vars
      /\ [Decides => glitches' = glitches]_vars /\ [MaxKept]_vars
      => DoseFits'
  <2>1. UNCHANGED vars => UNCHANGED glitches
    BY DEF vars
  <2>2. TypeOK /\ UNCHANGED vars => MaxKept
    BY DEF vars, settings, MaxKept, EndKept, TypeOK, SettingsTypeOK, ConfigRecords
  <2> QED
    BY <2>1, <2>2, NextDose
<1> QED
  BY <1>1, <1>2, TypeHolds, ModeInvariant, PTL DEF Spec, DecidesOnReadings, MaxSteady
================================================================================
