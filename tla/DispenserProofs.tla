---------------------------- MODULE DispenserProofs ----------------------------
(* The motor task, for every value of the constants: its operators, its types *)
(* and its states.  Further on: MotionProofs.                                 *)
EXTENDS Dispenser, TLAPS

--------------------------------------------------------------------------------
(* What the operators of the motor task return: the registers a driver or     *)
(* motor call can leave, whichever of its transfers fail, and the answer of   *)
(* safety_check, for every microstep length, configuration and reading.       *)

(* A call that reports success wrote everything; any call stays on its way.   *)
LEMMA OutcomeFact ==
  ASSUME NEW S, NEW f, NEW o \in Outcome(S, f)
  PROVE  /\ o.regs \in S \cup {f}
         /\ o.ok \in BOOLEAN
         /\ o.ok => o.regs = f
<1>1. CASE o = [regs |-> f, ok |-> TRUE]
  BY <1>1
<1>2. CASE o \in [regs : S \cup {f}, ok : {FALSE}]
  BY <1>2
<1> QED
  BY <1>1, <1>2 DEF Outcome

(* Writing a register in its type keeps the record in its type.               *)
LEMMA WriteFact ==
  ASSUME NEW t \in Registers
  PROVE  /\ \A v \in Nat : Write(t, "VMAX", v) \in Registers
         /\ \A v \in Int : Write(t, "XACTUAL", v) \in Registers
         /\ \A v \in Int : Write(t, "XTARGET", v) \in Registers
         /\ \A v \in {"POSITION", "VELPOS", "VELNEG"} : Write(t, "RAMPMODE", v) \in Registers
BY DEF Write, Registers

LEMMA VelFact == \A s \in Int : vel(s) \in Nat
BY UnitsAssumption DEF vel

LEMMA StepsFact == \A l \in Int : motor_mm_to_microsteps(l) \in Int
BY UnitsAssumption DEF motor_mm_to_microsteps

LEMMA StopFact ==
  ASSUME NEW t \in Registers, NEW o \in motor_stop(t)
  PROVE  /\ o.regs \in Registers /\ o.ok \in BOOLEAN
         /\ o.ok => o.regs = Write(t, "VMAX", 0)
BY OutcomeFact, WriteFact DEF motor_stop, tmc5130_stop

LEMMA ManualFact ==
  ASSUME NEW t \in Registers, NEW d \in {-1, 1}, NEW s \in Nat, NEW o \in motor_manual(t, d, s)
  PROVE  /\ o.regs \in Registers /\ o.ok \in BOOLEAN
         /\ o.ok => o.regs = Write(Write(t, "VMAX", vel(s)), "RAMPMODE",
                                   IF d > 0 THEN "VELPOS" ELSE "VELNEG")
<1> DEFINE limit == Write(t, "VMAX", vel(s))
           mode  == IF d > 0 THEN "VELPOS" ELSE "VELNEG"
<1>0. vel(s) \in Nat
  BY VelFact
<1>1. limit \in Registers
  BY <1>0, WriteFact
<1>2. Write(limit, "RAMPMODE", mode) \in Registers
  BY <1>1, WriteFact
<1> HIDE DEF limit, mode
<1>3. o \in Outcome({t, limit}, Write(limit, "RAMPMODE", mode))
  BY DEF motor_manual, tmc5130_velocity, limit, mode
<1>4. /\ o.regs \in {t, limit} \cup {Write(limit, "RAMPMODE", mode)}
      /\ o.ok \in BOOLEAN
      /\ o.ok => o.regs = Write(limit, "RAMPMODE", mode)
  BY <1>3, OutcomeFact
<1> QED
  BY <1>1, <1>2, <1>4 DEF limit, mode

LEMMA MoveFact ==
  ASSUME NEW t \in Registers, NEW mm \in Int, NEW s \in Int, NEW o \in motor_move_relative(t, mm, s)
  PROVE  /\ o.regs \in Registers /\ o.ok \in BOOLEAN
         /\ o.ok => o.regs = Write(Write(Write(t, "VMAX", vel(s)), "RAMPMODE", "POSITION"),
                                   "XTARGET", t.XACTUAL + motor_mm_to_microsteps(mm))
<1> DEFINE limit  == Write(t, "VMAX", vel(s))
           ranged == Write(limit, "RAMPMODE", "POSITION")
           target == t.XACTUAL + motor_mm_to_microsteps(mm)
<1>1. limit \in Registers
  BY VelFact, WriteFact
<1>2. ranged \in Registers
  BY <1>1, WriteFact
<1>3. target \in Int
  BY StepsFact DEF Registers
<1> HIDE DEF limit, ranged, target
<1>4. Write(ranged, "XTARGET", target) \in Registers
  BY <1>2, <1>3, WriteFact
<1>5. o \in Outcome({t, limit, ranged}, Write(ranged, "XTARGET", target))
  BY DEF motor_move_relative, limit, ranged, target
<1>6. /\ o.regs \in {t, limit, ranged} \cup {Write(ranged, "XTARGET", target)}
      /\ o.ok \in BOOLEAN
      /\ o.ok => o.regs = Write(ranged, "XTARGET", target)
  BY <1>5, OutcomeFact
<1> QED
  BY <1>1, <1>2, <1>4, <1>6 DEF limit, ranged, target

LEMMA RelabelFact ==
  ASSUME NEW t \in Registers, NEW mm \in Int, NEW o \in motor_set_position_mm(t, mm)
  PROVE  /\ o.regs \in Registers /\ o.ok \in BOOLEAN
         /\ o.regs.VMAX = t.VMAX /\ o.regs.RAMPMODE = t.RAMPMODE /\ o.regs.VACTUAL = t.VACTUAL
         /\ o.ok /\ DriverPresent => o.regs.XACTUAL = o.regs.XTARGET
<1> DEFINE x     == motor_mm_to_microsteps(mm)
           moved == Write(t, "XACTUAL", x)
           both  == Write(moved, "XTARGET", x)
<1>0. x \in Int
  BY StepsFact
<1> HIDE DEF x
<1>1. moved \in Registers
  BY <1>0, WriteFact
<1>2. both \in Registers
  BY <1>0, <1>1, WriteFact
<1>3. /\ moved.VMAX = t.VMAX /\ moved.RAMPMODE = t.RAMPMODE /\ moved.VACTUAL = t.VACTUAL
      /\ both.VMAX = t.VMAX /\ both.RAMPMODE = t.RAMPMODE /\ both.VACTUAL = t.VACTUAL
      /\ DriverPresent => both.XACTUAL = both.XTARGET
  BY <1>0 DEF Write, Registers
<1> HIDE DEF moved, both
<1>4. o \in Outcome({t, moved}, both)
  BY DEF motor_set_position_mm, x, moved, both
<1>5. o.regs \in {t, moved} \cup {both} /\ o.ok \in BOOLEAN /\ (o.ok => o.regs = both)
  BY <1>4, OutcomeFact
<1> QED
  BY <1>1, <1>2, <1>3, <1>5

(* The set-up either leaves the chip silent and off or ends with the manual   *)
(* speed in VMAX; it touches neither the mode nor the target.                 *)
LEMMA InitFact ==
  ASSUME NEW t \in Registers, NEW s \in Nat, NEW o \in motor_init(t, s)
  PROVE  /\ o.regs \in Registers /\ o.ok \in BOOLEAN
         /\ o.regs.RAMPMODE = t.RAMPMODE /\ o.regs.XACTUAL = t.XACTUAL
         /\ o.regs.XTARGET = t.XTARGET /\ o.regs.VACTUAL = t.VACTUAL
         /\ ~DriverPresent => o.regs.VMAX = t.VMAX /\ ~o.ok
<1> DEFINE off  == [t EXCEPT !.enabled = FALSE]
           on   == [t EXCEPT !.enabled = TRUE]
           full == Write(on, "VMAX", vel(s))
           Same(r) == /\ r \in Registers /\ r.RAMPMODE = t.RAMPMODE /\ r.XACTUAL = t.XACTUAL
                      /\ r.XTARGET = t.XTARGET /\ r.VACTUAL = t.VACTUAL
<1>1. Same(off) /\ Same(on) /\ off.VMAX = t.VMAX
  BY DEF Registers
<1> HIDE DEF off, on
<1>2. Same(full)
  <2>1. vel(s) \in Nat
    BY VelFact
  <2>2. full \in Registers
    BY <1>1, <2>1, WriteFact
  <2>3. full = on \/ full = [on EXCEPT !.VMAX = vel(s)]
    BY DEF Write
  <2> QED
    BY <1>1, <2>1, <2>2, <2>3 DEF Registers
<1> HIDE DEF full
<1>3. CASE DriverPresent
  <2>1. o \in Outcome({off, on}, full)
    BY <1>3 DEF motor_init, tmc5130_start, off, on, full
  <2>2. o.regs \in {off, on} \cup {full} /\ o.ok \in BOOLEAN
    BY <2>1, OutcomeFact
  <2> QED
    BY <1>1, <1>2, <1>3, <2>2
<1>4. CASE ~DriverPresent
  <2>1. o = [regs |-> off, ok |-> FALSE]
    BY <1>4 DEF motor_init, tmc5130_start, off
  <2> QED
    BY <1>1, <1>4, <2>1
<1> QED
  BY <1>3, <1>4

(* The ramp generator moves XACTUAL and VACTUAL, nothing else.                *)
LEMMA RampFact ==
  ASSUME NEW t \in Registers, NEW u \in {Advance(t), Coast(t), Halt(t)}
  PROVE  /\ u \in Registers
         /\ u.VMAX = t.VMAX /\ u.RAMPMODE = t.RAMPMODE
<1>1. DriveDir(t) \in {-1, 0, 1}
  BY DEF DriveDir, Sign, Registers
<1>2. CASE u = Advance(t)
  <2> DEFINE moved == [t EXCEPT !.XACTUAL = @ + DriveDir(t), !.VACTUAL = DriveDir(t)]
  <2>0. ASSUME NEW d \in {-1, 0, 1}, NEW x \in Int
        PROVE  LET u1 == [t EXCEPT !.XACTUAL = x, !.VACTUAL = d]
               IN  u1 \in Registers /\ u1.VMAX = t.VMAX /\ u1.RAMPMODE = t.RAMPMODE
    BY DEF Registers
  <2>1. moved \in Registers /\ moved.VMAX = t.VMAX /\ moved.RAMPMODE = t.RAMPMODE
    <3>1. t.XACTUAL + DriveDir(t) \in Int
      BY <1>1 DEF Registers
    <3> QED
      BY <1>1, <2>0, <3>1
  <2>2. u = moved \/ u = [moved EXCEPT !.VACTUAL = 0]
    BY <1>2 DEF Advance
  <2> HIDE DEF moved
  <2> QED
    BY <2>1, <2>2 DEF Registers
<1>3. CASE u = Coast(t) \/ u = Halt(t)
  BY <1>3 DEF Coast, Halt, Registers
<1> QED
  BY <1>2, <1>3

(* A chip that does not answer is never written.                              *)
LEMMA AbsentFact ==
  ASSUME ~DriverPresent, NEW t \in Registers
  PROVE  /\ \A o \in motor_stop(t) : o.regs = t
         /\ \A d, s : \A o \in motor_manual(t, d, s) : o.regs = t
         /\ \A mm, s : \A o \in motor_move_relative(t, mm, s) : o.regs = t
         /\ \A mm : \A o \in motor_set_position_mm(t, mm) : o.regs = t
<1>1. \A r, v : Write(t, r, v) = t
  BY DEF Write
<1>2. \A o \in motor_stop(t) : o.regs = t
  BY <1>1, OutcomeFact DEF motor_stop, tmc5130_stop
<1>3. ASSUME NEW d, NEW s, NEW o \in motor_manual(t, d, s) PROVE o.regs = t
  <2>1. o \in Outcome({t, t}, t)
    BY <1>1 DEF motor_manual, tmc5130_velocity
  <2> QED
    BY <2>1, OutcomeFact
<1>4. ASSUME NEW mm, NEW s, NEW o \in motor_move_relative(t, mm, s) PROVE o.regs = t
  <2>1. o \in Outcome({t, t, t}, t)
    BY <1>1 DEF motor_move_relative
  <2> QED
    BY <2>1, OutcomeFact
<1>5. ASSUME NEW mm, NEW o \in motor_set_position_mm(t, mm) PROVE o.regs = t
  <2>1. o \in Outcome({t, t}, t)
    BY <1>1 DEF motor_set_position_mm
  <2> QED
    BY <2>1, OutcomeFact
<1> QED
  BY <1>2, <1>3, <1>4, <1>5

----------------------------------------------------------------------------
(* The part of a configuration safety_check reads.                            *)
IsSafetyConfig(c) ==
  /\ c.stallguard_enabled \in BOOLEAN /\ c.stallguard_filter_count \in Nat
  /\ c.stallguard_critical_level \in Nat /\ c.stallguard_warning_level \in Nat

LEMMA ElapseFact ==
  ASSUME NEW age \in 0..AgeCap, NEW d \in Nat
  PROVE  Elapse(age, d) \in 0..AgeCap
BY SafetyAssumption DEF Elapse

LEMMA FilteredFact == \A f, sg \in Nat : Filtered(f, sg) \in Nat
BY DEF Filtered

LEMMA StallGuardFact ==
  ASSUME NEW s \in SafetyRecords, NEW c, IsSafetyConfig(c), NEW m \in BOOLEAN, NEW sg \in Nat
  PROVE  /\ StallGuard(s, c, m, sg) \in SafetyRecords
         /\ StallGuard(s, c, m, sg).manual_ms = s.manual_ms
         /\ StallGuard(s, c, m, sg).fault \in {s.fault, "STALL"}
         /\ ~m => StallGuard(s, c, m, sg).critical_count = 0
         /\ ~c.stallguard_enabled => StallGuard(s, c, m, sg).fault = s.fault
<1> DEFINE f        == Filtered(s.sg_filtered, sg)
           critical == (s.critical_count + 1) % CountMod
           warning  == (s.warning_count + 1) % CountMod
           warnings == IF s.warning_count < c.stallguard_filter_count
                       THEN s.warning_count + 1 ELSE s.warning_count
           n        == c.stallguard_filter_count
<1>1. f \in Nat /\ critical \in Nat /\ warning \in Nat /\ warnings \in Nat
  <2>1. s.critical_count + 1 \in Nat /\ s.warning_count + 1 \in Nat /\ s.warning_count \in Nat
    BY DEF SafetyRecords
  <2>2. f \in Nat
    BY FilteredFact DEF SafetyRecords
  <2> QED
    BY <2>1, <2>2, SafetyAssumption
<1>2. CASE /\ c.stallguard_enabled /\ m /\ f < c.stallguard_critical_level
  <2> DEFINE l == IF Stalled(critical, c) THEN "STALL_ERROR" ELSE "STALL_WARNING"
             q == IF Stalled(critical, c) THEN "STALL" ELSE s.fault
  <2>1. StallGuard(s, c, m, sg) = [s EXCEPT !.sg_filtered = f, !.warning_count = warning,
                                            !.critical_count = critical, !.load_state = l, !.fault = q]
    BY <1>2 DEF StallGuard
  <2>2. l \in LoadStates
    BY DEF LoadStates
  <2>3. q \in Faults /\ q \in {s.fault, "STALL"}
    BY DEF Faults, SafetyRecords
  <2> HIDE DEF f, critical, warning, l, q
  <2> QED
    BY <1>1, <1>2, <2>1, <2>2, <2>3 DEF SafetyRecords
<1>3. CASE /\ ~(c.stallguard_enabled /\ m /\ f < c.stallguard_critical_level)
           /\ c.stallguard_enabled /\ m /\ f < c.stallguard_warning_level
  <2> DEFINE l == IF warnings >= n THEN "STALL_WARNING" ELSE "LOAD_HIGH"
  <2>1. StallGuard(s, c, m, sg) = [s EXCEPT !.sg_filtered = f, !.warning_count = warnings,
                                            !.critical_count = 0, !.load_state = l]
    BY <1>3 DEF StallGuard
  <2>2. l \in LoadStates
    BY DEF LoadStates
  <2>3. ASSUME NEW a \in Nat, NEW b \in Nat, NEW d \in LoadStates
        PROVE  LET r == [s EXCEPT !.sg_filtered = a, !.warning_count = b,
                                  !.critical_count = 0, !.load_state = d]
               IN  r \in SafetyRecords /\ r.manual_ms = s.manual_ms /\ r.fault = s.fault
    BY DEF SafetyRecords
  <2> DEFINE r == [s EXCEPT !.sg_filtered = f, !.warning_count = warnings,
                            !.critical_count = 0, !.load_state = l]
  <2> HIDE DEF f, warnings, critical, warning, n, l
  <2>4. r \in SafetyRecords /\ r.manual_ms = s.manual_ms /\ r.fault = s.fault
    <3>1. f \in Nat /\ warnings \in Nat
      BY <1>1
    <3> QED BY <2>2, <2>3, <3>1, Zenon
  <2> HIDE DEF r
  <2>5. StallGuard(s, c, m, sg) = r
    BY <2>1 DEF r
  <2> QED
    BY <1>3, <2>4, <2>5
<1>4. CASE /\ ~(c.stallguard_enabled /\ m /\ f < c.stallguard_critical_level)
           /\ ~(c.stallguard_enabled /\ m /\ f < c.stallguard_warning_level)
  <2>1. StallGuard(s, c, m, sg) = [Rested(s) EXCEPT !.sg_filtered = f]
    BY <1>4 DEF StallGuard
  <2>2. /\ Rested(s) \in SafetyRecords /\ Rested(s).manual_ms = s.manual_ms
        /\ Rested(s).fault = s.fault /\ Rested(s).critical_count = 0
    BY DEF Rested, SafetyRecords, LoadStates
  <2> HIDE DEF f
  <2> QED
    BY <1>1, <2>1, <2>2 DEF SafetyRecords
<1> QED
  BY <1>2, <1>3, <1>4

(* What safety_check is called with, and what it answers: the record stays in *)
(* its type, the clock is untouched, a latched fault is the one reported, a   *)
(* timed motion that is too old is one, a count does not survive a check      *)
(* without a motion, and a stall is found by an enabled StallGuard only.      *)
CheckInputs(s, c, timed, m, sg, hot, spi, pos, dir) ==
  /\ s \in SafetyRecords /\ IsSafetyConfig(c) /\ sg \in Nat
  /\ timed \in BOOLEAN /\ m \in BOOLEAN /\ hot \in BOOLEAN /\ spi \in BOOLEAN
  /\ pos \in Int /\ dir \in {-1, 0, 1}

CheckResult(r, s, c, timed, m) ==
  /\ r \in SafetyRecords
  /\ r.manual_ms = s.manual_ms
  /\ s.fault # "OK" => r.fault = s.fault
  /\ timed /\ s.manual_ms > c.manual_timeout_ms => r.fault # "OK"
  /\ ~m /\ r.fault = "OK" => r.critical_count = 0
  /\ r.fault = "STALL" /\ s.fault # "STALL" => c.stallguard_enabled

LEMMA SafetyCheckFact ==
  ASSUME NEW s, NEW c, NEW timed, NEW m, NEW sg, NEW hot, NEW spi, NEW pos, NEW dir,
         CheckInputs(s, c, timed, m, sg, hot, spi, pos, dir)
  PROVE  CheckResult(safety_check(s, c, timed, m, sg, hot, spi, pos, dir), s, c, timed, m)
<1> DEFINE r == safety_check(s, c, timed, m, sg, hot, spi, pos, dir)
<1> DEFINE cause == Cause(s, c, timed, hot, spi, pos, dir)
<1>0. /\ s \in SafetyRecords /\ IsSafetyConfig(c) /\ sg \in Nat /\ m \in BOOLEAN
      /\ timed \in BOOLEAN /\ hot \in BOOLEAN /\ spi \in BOOLEAN
  BY DEF CheckInputs
<1>1. cause \in Faults
  BY <1>0 DEF Cause, SafetyRecords, Faults
<1>2. s.fault # "OK" => cause = s.fault
  BY DEF Cause
<1>3. timed /\ s.manual_ms > c.manual_timeout_ms => cause # "OK"
  BY <1>0 DEF Cause
<1>7. cause = "STALL" => s.fault = "STALL"
  BY DEF Cause
<1> HIDE DEF cause
<1>4. r = IF cause # "OK" THEN [s EXCEPT !.fault = cause] ELSE StallGuard(s, c, m, sg)
  BY DEF safety_check, cause
<1> SUFFICES CheckResult(r, s, c, timed, m)
  OBVIOUS
<1> HIDE DEF r
<1>5. CASE cause # "OK"
  BY <1>0, <1>1, <1>2, <1>3, <1>4, <1>5, <1>7 DEF CheckResult, SafetyRecords
<1>6. CASE cause = "OK"
  BY <1>0, <1>2, <1>3, <1>4, <1>6, StallGuardFact DEF CheckResult
<1> QED
  BY <1>5, <1>6

--------------------------------------------------------------------------------
(* Type correctness of the motor task, for every value of the constants.      *)

(* TypeOK is not inductive: the restart a REBOOT command armed needs room in  *)
(* the bound on boots.                                                        *)
TypeInv == TypeOK /\ (reboot => boots < MaxBoots)

----------------------------------------------------------------------------
LEMMA SpendFact ==
  ASSUME glitches \in 0..MaxGlitches, NEW n \in Nat, Spend(n)
  PROVE  glitches' \in 0..MaxGlitches
BY DispenserAssumption DEF Spend

LEMMA CostFact == \A o : Cost(o) \in Nat
BY DEF Cost

LEMMA DispatchFact ==
  ASSUME NEW m \in Machines, NEW e
  PROVE  Dispatch(m, e) \in Machines
<1>1. NextState(m.state, e) \in States
  BY DEF NextState, States, Machines
<1> QED
  BY <1>1 DEF Dispatch, Machines, Faults

LEMMA PositionFact ==
  ASSUME NEW t \in Registers, NEW p \in motor_position(t)
  PROVE  p.mm \in Int /\ p.ok \in BOOLEAN
<1>1. PICK x \in Read(t, "XACTUAL") : p = [mm |-> motor_microsteps_to_mm(x.value), ok |-> x.ok]
  BY DEF motor_position
<1>2. x.value \in Int /\ x.ok \in BOOLEAN
  <2>1. t["XACTUAL"] \in Int
    BY DEF Registers
  <2>2. x = [value |-> t["XACTUAL"], ok |-> TRUE] \/ x = [value |-> -1, ok |-> FALSE]
    BY DEF Read
  <2>3. CASE x = [value |-> t["XACTUAL"], ok |-> TRUE]
    BY <2>1, <2>3
  <2>4. CASE x = [value |-> -1, ok |-> FALSE]
    BY <2>4
  <2> QED
    BY <2>2, <2>3, <2>4
<1> QED
  BY <1>1, <1>2, UnitsAssumption DEF motor_microsteps_to_mm

LEMMA FaultedFact ==
  ASSUME NEW m \in Machines, NEW f \in Faults
  PROVE  Dispatch([m EXCEPT !.fault_code = f], "FAULT") = [state |-> "FAULT", fault_code |-> f]
<1> DEFINE n == [m EXCEPT !.fault_code = f]
<1>1. n.fault_code = f
  BY DEF Machines
<1> HIDE DEF n
<1>2. NextState(n.state, "FAULT") = "FAULT"
  BY DEF NextState, BackToReady
<1>3. Dispatch(n, "FAULT") = [state |-> "FAULT", fault_code |-> f]
  BY <1>1, <1>2 DEF Dispatch
<1> QED
  BY <1>3 DEF n

LEMMA SetFaultFact ==
  ASSUME TypeOK, NEW f \in Faults, NEW regs \in Registers, NEW n \in Nat, set_fault(f, regs, n)
  PROVE  DriverTypeOK' /\ direction' = 0 /\ machine' = [state |-> "FAULT", fault_code |-> f]
<1>1. PICK stop \in motor_stop(regs) : tmc' = stop.regs /\ Spend(n + Cost(stop))
  BY DEF set_fault
<1>2. n + Cost(stop) \in Nat
  BY CostFact
<1>3. glitches' \in 0..MaxGlitches
  BY <1>1, <1>2, SpendFact DEF TypeOK, DriverTypeOK
<1>4. tmc' \in Registers
  BY <1>1, StopFact
<1>5. machine' = [state |-> "FAULT", fault_code |-> f]
  BY FaultedFact DEF set_fault, Faulted, TypeOK, MotionTypeOK
<1> QED
  BY <1>3, <1>4, <1>5 DEF set_fault, DriverTypeOK

LEMMA FaultRecords == \A f \in Faults : [state |-> "FAULT", fault_code |-> f] \in Machines
BY DEF Machines, States

LEMMA SafetyInitFact == SafetyInit \in SafetyRecords
BY SafetyAssumption DEF SafetyInit, SafetyRecords, Faults, LoadStates

LEMMA ManualStartedFact ==
  ASSUME NEW s \in SafetyRecords
  PROVE  ManualStarted(s) \in SafetyRecords /\ ManualStarted(s).fault = s.fault
BY SafetyAssumption DEF ManualStarted, SafetyRecords

(* What a command may change.                                                 *)
CommandTypeOK == MotionTypeOK /\ SettingsTypeOK /\ DriverTypeOK

LEMMA KeepMotion == MotionTypeOK /\ UNCHANGED motion => MotionTypeOK'
BY DEF MotionTypeOK, motion

LEMMA KeepSettings == SettingsTypeOK /\ UNCHANGED settings => SettingsTypeOK'
BY DEF SettingsTypeOK, settings

LEMMA KeepInputs == InputsTypeOK /\ UNCHANGED inputs => InputsTypeOK'
BY DEF InputsTypeOK, inputs

----------------------------------------------------------------------------
(* Commands.                                                                  *)

LEMMA ManualTyped ==
  ASSUME TypeOK, NEW d \in {-1, 1}, begin_manual(d)
  PROVE  CommandTypeOK'
<1>1. PICK o \in motor_manual(tmc, d, motor_cfg.manual_speed_mm_s) :
         /\ tmc' = o.regs /\ Spend(Cost(o))
         /\ IF o.ok
            THEN /\ direction' = d
                 /\ safety' = ManualStarted(safety)
                 /\ machine' = Dispatch(machine, IF d > 0 THEN "PUSH" ELSE "PULL")
                 /\ dirty' = (dirty \/ d > 0)
            ELSE UNCHANGED <<direction, safety, machine, dirty>>
  BY DEF begin_manual
<1>2. motor_cfg.manual_speed_mm_s \in Nat
  BY DEF TypeOK, LoopTypeOK
<1>3. o.regs \in Registers
  BY <1>2, ManualFact DEF TypeOK, DriverTypeOK
<1>4. DriverTypeOK'
  BY <1>1, <1>3, CostFact, SpendFact DEF TypeOK, DriverTypeOK
<1>5. SettingsTypeOK'
  BY KeepSettings DEF TypeOK, begin_manual
<1>6. retract_mm' = retract_mm /\ unload_result' = unload_result
  BY DEF begin_manual
<1>7. MotionTypeOK'
  BY <1>1, <1>6, DispatchFact, ManualStartedFact DEF TypeOK, MotionTypeOK
<1> QED
  BY <1>4, <1>5, <1>7 DEF CommandTypeOK

LEMMA StopTyped ==
  ASSUME TypeOK, stop_motion
  PROVE  CommandTypeOK'
<1>1. PICK o \in motor_stop(tmc) : tmc' = o.regs /\ Spend(Cost(o))
  BY DEF stop_motion, Drive
<1>2. DriverTypeOK'
  BY <1>1, StopFact, CostFact, SpendFact DEF TypeOK, DriverTypeOK
<1>3. SettingsTypeOK'
  BY KeepSettings DEF TypeOK, stop_motion
<1>4. MotionTypeOK'
  BY DispatchFact DEF TypeOK, MotionTypeOK, stop_motion
<1> QED
  BY <1>2, <1>3, <1>4 DEF CommandTypeOK

LEMMA StartDoseTyped ==
  ASSUME TypeOK, NEW o, NEW d \in {-1, 1}, NEW r \in Int, NEW counted \in BOOLEAN,
         o.regs \in Registers, StartDose(o, d, r, counted)
  PROVE  MotionTypeOK' /\ SettingsTypeOK' /\ tmc' \in Registers
<1>1. SettingsTypeOK'
  BY KeepSettings DEF TypeOK, StartDose
<1>2. MotionTypeOK'
  BY DispatchFact DEF TypeOK, MotionTypeOK, StartDose
<1> QED
  BY <1>1, <1>2 DEF StartDose

LEMMA SpeedFact == \A r \in Int, d \in Nat : Speed(r, d) \in Int
BY DEF Speed

LEMMA DoseTyped ==
  ASSUME TypeOK, NEW c \in CommandRecords, Dose(c)
  PROVE  CommandTypeOK'
<1> DEFINE distance == IF c.distance_mm > 0 THEN c.distance_mm ELSE config.trigger_dose_mm
           retract  == IF c.retract_mm >= 0 THEN c.retract_mm ELSE config.retract_distance_mm
           speed    == Speed(c.speed_mm_s, config.dosing_speed_mm_s)
<1>1. distance \in Int /\ retract \in Int
  BY DEF CommandRecords, TypeOK, SettingsTypeOK, ConfigRecords
<1>2. speed \in Int
  BY SpeedFact DEF CommandRecords, TypeOK, SettingsTypeOK, ConfigRecords
<1> HIDE DEF distance, retract, speed
<1>3. PICK pos \in motor_position(tmc) :
        IF DoseAccepted(distance, pos.mm)
        THEN \E o \in motor_move_relative(tmc, distance, speed) :
               Spend(Cost(pos) + Cost(o)) /\ StartDose(o, 1, retract, TRUE)
        ELSE Spend(Cost(pos)) /\ UNCHANGED <<motion, settings, tmc>>
  BY DEF Dose, distance, retract, speed
<1>4. CASE DoseAccepted(distance, pos.mm)
  <2>1. PICK o \in motor_move_relative(tmc, distance, speed) :
          Spend(Cost(pos) + Cost(o)) /\ StartDose(o, 1, retract, TRUE)
    BY <1>3, <1>4
  <2>2. o.regs \in Registers
    BY <1>1, <1>2, MoveFact DEF TypeOK, DriverTypeOK
  <2>3. MotionTypeOK' /\ SettingsTypeOK' /\ tmc' \in Registers
    BY <1>1, <2>1, <2>2, StartDoseTyped
  <2>4. Cost(pos) + Cost(o) \in Nat
    BY CostFact
  <2> QED
    BY <2>1, <2>3, <2>4, SpendFact DEF CommandTypeOK, DriverTypeOK, TypeOK
<1>5. CASE ~DoseAccepted(distance, pos.mm)
  <2>1. Spend(Cost(pos)) /\ UNCHANGED <<motion, settings, tmc>>
    BY <1>3, <1>5
  <2> QED
    BY <2>1, CostFact, SpendFact, KeepMotion, KeepSettings DEF CommandTypeOK, DriverTypeOK, TypeOK
<1> QED
  BY <1>4, <1>5

LEMMA MoveTyped ==
  ASSUME TypeOK, NEW c \in CommandRecords, Move(c)
  PROVE  CommandTypeOK'
<1> DEFINE speed == Speed(c.speed_mm_s, config.dosing_speed_mm_s)
           d     == IF c.distance_mm >= 0 THEN 1 ELSE -1
           fwd   == c.distance_mm > 0
<1>1. speed \in Int
  BY SpeedFact DEF CommandRecords, TypeOK, SettingsTypeOK, ConfigRecords
<1>2. c.distance_mm \in Int /\ d \in {-1, 1} /\ fwd \in BOOLEAN
  BY DEF CommandRecords
<1> HIDE DEF speed, d, fwd
<1>3. PICK o \in motor_move_relative(tmc, c.distance_mm, speed) :
        Spend(Cost(o)) /\ StartDose(o, d, 0, fwd)
  BY DEF Move, speed, d, fwd
<1>4. o.regs \in Registers
  BY <1>1, <1>2, MoveFact DEF TypeOK, DriverTypeOK
<1>5. MotionTypeOK' /\ SettingsTypeOK' /\ tmc' \in Registers
  BY <1>2, <1>3, <1>4, StartDoseTyped
<1> QED
  BY <1>3, <1>5, CostFact, SpendFact DEF CommandTypeOK, DriverTypeOK, TypeOK

LEMMA UnloadTyped ==
  ASSUME TypeOK, NEW c \in CommandRecords, Unload(c)
  PROVE  CommandTypeOK'
<1> DEFINE speed == Speed(c.speed_mm_s, config.manual_speed_mm_s)
           min   == config.position_min_mm
<1>1. speed \in Int /\ min \in Int
  BY SpeedFact DEF CommandRecords, TypeOK, SettingsTypeOK, ConfigRecords
<1>2. SettingsTypeOK'
  BY KeepSettings DEF Unload, TypeOK
<1> HIDE DEF speed, min
<1>3. PICK pos \in motor_position(tmc) :
        IF pos.mm =< min
        THEN \E o \in motor_set_position_mm(tmc, min) :
               /\ tmc' = o.regs /\ Spend(Cost(pos) + Cost(o))
               /\ unload_result' = "position_min"
               /\ UNCHANGED <<machine, safety, direction, retract_mm, dirty>>
        ELSE \E o \in motor_move_relative(tmc, min - pos.mm, speed) :
               /\ tmc' = o.regs /\ Spend(Cost(pos) + Cost(o))
               /\ IF o.ok
                  THEN /\ direction' = -1 /\ retract_mm' = 0 /\ unload_result' = "running"
                       /\ safety' = ManualStarted(SafetyInit)
                       /\ machine' = Dispatch(machine, "HOME")
                  ELSE UNCHANGED <<direction, retract_mm, unload_result, safety, machine>>
               /\ UNCHANGED dirty
  BY DEF Unload, speed, min
<1>4. min - pos.mm \in Int
  BY <1>1, PositionFact DEF TypeOK, DriverTypeOK
<1>5. CASE pos.mm =< min
  <2>1. PICK o \in motor_set_position_mm(tmc, min) :
          /\ tmc' = o.regs /\ Spend(Cost(pos) + Cost(o))
          /\ unload_result' = "position_min"
          /\ UNCHANGED <<machine, safety, direction, retract_mm, dirty>>
    BY <1>3, <1>5
  <2>2. o.regs \in Registers
    BY <1>1, RelabelFact DEF TypeOK, DriverTypeOK
  <2>3. Cost(pos) + Cost(o) \in Nat
    BY CostFact
  <2>4. DriverTypeOK'
    BY <2>1, <2>2, <2>3, SpendFact DEF TypeOK, DriverTypeOK
  <2>5. MotionTypeOK'
    BY <2>1 DEF TypeOK, MotionTypeOK
  <2> QED
    BY <1>2, <2>4, <2>5 DEF CommandTypeOK
<1>6. CASE ~(pos.mm =< min)
  <2>1. PICK o \in motor_move_relative(tmc, min - pos.mm, speed) :
          /\ tmc' = o.regs /\ Spend(Cost(pos) + Cost(o))
          /\ IF o.ok
             THEN /\ direction' = -1 /\ retract_mm' = 0 /\ unload_result' = "running"
                  /\ safety' = ManualStarted(SafetyInit)
                  /\ machine' = Dispatch(machine, "HOME")
             ELSE UNCHANGED <<direction, retract_mm, unload_result, safety, machine>>
          /\ UNCHANGED dirty
    BY <1>3, <1>6
  <2>2. o.regs \in Registers
    BY <1>1, <1>4, MoveFact DEF TypeOK, DriverTypeOK
  <2>3. Cost(pos) + Cost(o) \in Nat
    BY CostFact
  <2>4. DriverTypeOK'
    BY <2>1, <2>2, <2>3, SpendFact DEF TypeOK, DriverTypeOK
  <2>5. MotionTypeOK'
    BY <2>1, DispatchFact, SafetyInitFact, ManualStartedFact DEF TypeOK, MotionTypeOK
  <2> QED
    BY <1>2, <2>4, <2>5 DEF CommandTypeOK
<1> QED
  BY <1>5, <1>6

LEMMA SetZeroTyped == ASSUME TypeOK, SetZero PROVE CommandTypeOK'
<1>1. PICK o \in motor_set_position_mm(tmc, 0) : tmc' = o.regs /\ Spend(Cost(o))
  BY DEF SetZero, Drive, motor_set_zero
<1>2. DriverTypeOK'
  BY <1>1, RelabelFact, CostFact, SpendFact DEF TypeOK, DriverTypeOK
<1> QED
  BY <1>2, KeepMotion, KeepSettings DEF SetZero, CommandTypeOK, TypeOK

LEMMA FaultResetTyped == ASSUME TypeOK, FaultReset PROVE CommandTypeOK'
<1>1. MotionTypeOK'
  BY DispatchFact, SafetyInitFact DEF FaultReset, TypeOK, MotionTypeOK
<1>2. DriverTypeOK'
  BY SpendFact DEF FaultReset, TypeOK, DriverTypeOK
<1> QED
  BY <1>1, <1>2, KeepSettings DEF FaultReset, CommandTypeOK, TypeOK

LEMMA ConfigTyped == ASSUME TypeOK, apply_config_value PROVE CommandTypeOK'
<1>1. SettingsTypeOK'
  BY DispenserAssumption DEF apply_config_value, TypeOK, SettingsTypeOK
<1>2. DriverTypeOK'
  BY SpendFact DEF apply_config_value, TypeOK, DriverTypeOK
<1> QED
  BY <1>1, <1>2, KeepMotion DEF apply_config_value, CommandTypeOK, TypeOK

LEMMA CalStartCancelTyped == ASSUME TypeOK, CalStart \/ CalCancel PROVE CommandTypeOK'
<1>0. 0 \in 0..CalSamples
  BY DispenserAssumption
<1>a. sg_cal' \in [active : BOOLEAN, samples : 0..CalSamples]
  <2>1. CASE CalStart
    BY <1>0, <2>1 DEF CalStart
  <2>2. CASE CalCancel
    BY <2>2 DEF CalCancel, TypeOK, SettingsTypeOK
  <2> QED
    BY <2>1, <2>2
<1>1. SettingsTypeOK'
  BY <1>a DEF CalStart, CalCancel, TypeOK, SettingsTypeOK
<1>2. DriverTypeOK'
  BY SpendFact DEF CalStart, CalCancel, TypeOK, DriverTypeOK
<1> QED
  BY <1>1, <1>2, KeepMotion DEF CalStart, CalCancel, CommandTypeOK, TypeOK

LEMMA CalFinishTyped == ASSUME TypeOK, CalFinish PROVE CommandTypeOK'
<1>1. PICK l \in CalLevels :
        config' = [config EXCEPT !.stallguard_enabled = TRUE,
                                 !.stallguard_warning_level = l.warning,
                                 !.stallguard_critical_level = l.critical]
  BY DEF CalFinish
<1>2. l.warning \in Nat /\ l.critical \in Nat
  BY DispenserAssumption
<1>3. config' \in ConfigRecords
  BY <1>1, <1>2 DEF TypeOK, SettingsTypeOK, ConfigRecords
<1>4. sg_cal' \in [active : BOOLEAN, samples : 0..CalSamples]
  BY DEF CalFinish, TypeOK, SettingsTypeOK
<1>5. saved' \in ConfigRecords
  BY <1>3 DEF CalFinish, TypeOK, SettingsTypeOK
<1>6. Spend(0) \/ Spend(1)
  BY DEF CalFinish
<1>7. DriverTypeOK'
  BY <1>6, SpendFact DEF CalFinish, TypeOK, DriverTypeOK
<1> QED
  BY <1>3, <1>4, <1>5, <1>7, KeepMotion DEF CalFinish, CommandTypeOK, TypeOK, SettingsTypeOK

LEMMA FlushTyped == ASSUME TypeOK, FlushStatistics PROVE CommandTypeOK'
<1>1. MotionTypeOK'
  BY DEF FlushStatistics, TypeOK, MotionTypeOK
<1>2. DriverTypeOK'
  BY SpendFact DEF FlushStatistics, TypeOK, DriverTypeOK
<1> QED
  BY <1>1, <1>2, KeepSettings DEF FlushStatistics, CommandTypeOK, TypeOK

LEMMA IgnoredTyped == ASSUME TypeOK, Ignored PROVE CommandTypeOK'
<1>1. DriverTypeOK'
  BY SpendFact DEF Ignored, TypeOK, DriverTypeOK
<1> QED
  BY <1>1, KeepMotion, KeepSettings DEF Ignored, CommandTypeOK, TypeOK

LEMMA ExecuteTyped ==
  ASSUME TypeOK, NEW c \in Commands, Execute(c)
  PROVE  CommandTypeOK'
<1>1. c \in CommandRecords
  BY DispenserAssumption
<1> QED
  BY <1>1, ManualTyped, StopTyped, DoseTyped, MoveTyped, UnloadTyped, SetZeroTyped, FaultResetTyped,
     ConfigTyped, CalStartCancelTyped, CalFinishTyped, FlushTyped, IgnoredTyped DEF Execute

----------------------------------------------------------------------------
(* The phases of a pass, the boots and the motor.                             *)

LEMMA BootTyped == ASSUME TypeInv, Boot PROVE TypeInv'
<1>1. PICK init \in motor_init(tmc, saved.manual_speed_mm_s), sg \in BOOLEAN :
        \/ /\ init.ok /\ sg
           /\ tmc' = init.regs /\ Spend(0)
           /\ machine' = Dispatch(machine, "INIT_OK")
           /\ UNCHANGED direction
        \/ /\ init.ok # sg
           /\ set_fault("SPI", init.regs, IF DriverPresent THEN 1 ELSE 0)
  BY DEF Boot
<1>2. saved.manual_speed_mm_s \in Nat /\ tmc \in Registers
  BY DEF TypeInv, TypeOK, SettingsTypeOK, ConfigRecords, DriverTypeOK
<1>3. init.regs \in Registers
  BY <1>2, InitFact
<1>4. DriverTypeOK' /\ direction' \in {-1, 0, 1} /\ machine' \in Machines
  <2>1. CASE /\ tmc' = init.regs /\ Spend(0)
             /\ machine' = Dispatch(machine, "INIT_OK") /\ UNCHANGED direction
    BY <1>3, <2>1, SpendFact, DispatchFact DEF TypeInv, TypeOK, DriverTypeOK, MotionTypeOK
  <2>2. CASE set_fault("SPI", init.regs, IF DriverPresent THEN 1 ELSE 0)
    <3> DEFINE n == IF DriverPresent THEN 1 ELSE 0
    <3>1. n \in Nat /\ "SPI" \in Faults
      BY DEF Faults
    <3> HIDE DEF n
    <3>2. set_fault("SPI", init.regs, n)
      BY <2>2 DEF n
    <3>3. DriverTypeOK' /\ direction' = 0 /\ machine' = [state |-> "FAULT", fault_code |-> "SPI"]
      BY <1>3, <3>1, <3>2, SetFaultFact DEF TypeInv
    <3> QED
      BY <3>1, <3>3, FaultRecords
  <2> QED
    BY <1>1, <2>1, <2>2
<1>5. MotionTypeOK'
  BY <1>4 DEF Boot, TypeInv, TypeOK, MotionTypeOK
<1>6. SettingsTypeOK' /\ InputsTypeOK'
  BY KeepInputs DEF Boot, TypeInv, TypeOK, SettingsTypeOK
<1>7. LoopTypeOK' /\ reboot' = reboot /\ boots' = boots
  BY <1>2 DEF Boot, TypeInv, TypeOK, LoopTypeOK
<1> QED
  BY <1>4, <1>5, <1>6, <1>7 DEF TypeInv, TypeOK

(* What RAM holds before app_tasks_start is in its type.                      *)
LEMMA RamLostTyped ==
  ASSUME TypeInv, RamLost, boots < MaxBoots
  PROVE  /\ MotionTypeOK' /\ InputsTypeOK' /\ LoopTypeOK' /\ reboot' = FALSE
         /\ sg_cal' \in [active : BOOLEAN, samples : 0..CalSamples] /\ config' \in ConfigRecords
<1>0. MachineInit \in Machines
  BY DEF MachineInit, Machines, States, Faults
<1>1. MotionTypeOK'
  <2>1. machine' \in Machines /\ safety' \in SafetyRecords
    BY <1>0, SafetyInitFact DEF RamLost
  <2>2. direction' \in {-1, 0, 1} /\ retract_mm' \in Int
    BY DEF RamLost
  <2>3. unload_result' \in {"none", "running", "stopped", "position_min", "stall"}
    BY DEF RamLost
  <2>4. dirty' \in BOOLEAN
    BY DEF RamLost
  <2> QED
    BY <2>1, <2>2, <2>3, <2>4 DEF MotionTypeOK
<1>2. InputsTypeOK'
  BY SafetyAssumption DEF RamLost, InputsTypeOK, NoButtons, ButtonRecords
<1>3. LoopTypeOK' /\ reboot' = FALSE
  <2>1. boots' \in 1..MaxBoots
    BY DispenserAssumption DEF RamLost, LoopTypeOK, TypeInv, TypeOK
  <2>2. phase_ms' \in 0..AgeCap
    BY SafetyAssumption DEF RamLost
  <2>3. motor_cfg' \in [manual_speed_mm_s : Nat]
    BY DEF RamLost
  <2> QED
    BY <2>1, <2>2, <2>3 DEF RamLost, LoopTypeOK
<1>4. sg_cal' \in [active : BOOLEAN, samples : 0..CalSamples]
  <2>1. 0 \in 0..CalSamples
    BY DispenserAssumption
  <2> QED
    BY <2>1 DEF RamLost
<1>5. config' \in ConfigRecords
  BY DispenserAssumption DEF RamLost
<1> QED
  BY <1>1, <1>2, <1>3, <1>4, <1>5

LEMMA RestartTyped == ASSUME TypeInv, Restart PROVE TypeInv'
<1>1. RamLost /\ boots < MaxBoots
  BY DEF Restart, TypeInv
<1>2. SettingsTypeOK'
  BY <1>1, RamLostTyped DEF Restart, SettingsTypeOK, TypeInv, TypeOK
<1>3. DriverTypeOK'
  BY DEF Restart, DriverTypeOK, TypeInv, TypeOK
<1> QED
  BY <1>1, <1>2, <1>3, RamLostTyped DEF TypeInv, TypeOK

LEMMA FactoryResetTyped == ASSUME TypeInv, FactoryReset PROVE TypeInv'
<1>1. RamLost /\ boots < MaxBoots
  BY DEF FactoryReset
<1>2. PICK o \in motor_stop(tmc), erased \in BOOLEAN :
        /\ tmc' = o.regs
        /\ saved' = IF erased THEN DefaultConfig ELSE saved
        /\ Spend(Cost(o) + IF erased THEN 0 ELSE 1)
  BY DEF FactoryReset
<1>3. Cost(o) + (IF erased THEN 0 ELSE 1) \in Nat
  BY CostFact
<1>4. DriverTypeOK'
  BY <1>2, <1>3, StopFact, SpendFact DEF DriverTypeOK, TypeInv, TypeOK
<1>5. saved' \in ConfigRecords
  BY <1>2, DispenserAssumption DEF TypeInv, TypeOK, SettingsTypeOK
<1> QED
  BY <1>1, <1>4, <1>5, RamLostTyped DEF TypeInv, TypeOK, SettingsTypeOK

LEMMA PollTyped == ASSUME TypeInv, Poll PROVE TypeInv'
<1>1. PICK d \in Elapsed :
        /\ safety' = [safety EXCEPT !.manual_ms = Elapse(@, d)]
        /\ phase_ms' = Elapse(phase_ms, d)
        /\ conflict' = IF conflict = -1 THEN -1
                       ELSE IF boots = MaxBoots /\ Elapse(conflict, d) >= ConflictHold
                            THEN conflict ELSE Elapse(conflict, d)
  BY DEF Poll
<1>2. d \in Nat
  BY DispenserAssumption
<1>3. safety.manual_ms \in 0..AgeCap /\ phase_ms \in 0..AgeCap /\ conflict \in -1..AgeCap
  BY DEF TypeInv, TypeOK, MotionTypeOK, LoopTypeOK, InputsTypeOK, SafetyRecords
<1>4. Elapse(safety.manual_ms, d) \in 0..AgeCap /\ Elapse(phase_ms, d) \in 0..AgeCap
  BY <1>2, <1>3, ElapseFact
<1>5. conflict' \in -1..AgeCap
  <2>1. CASE conflict = -1
    BY <1>1, <2>1, SafetyAssumption
  <2>2. CASE conflict # -1
    <3>1. conflict \in 0..AgeCap
      BY <1>3, <2>2, SafetyAssumption
    <3>2. Elapse(conflict, d) \in 0..AgeCap
      BY <1>2, <3>1, ElapseFact
    <3>3. conflict' \in {conflict, Elapse(conflict, d)}
      BY <1>1, <2>2
    <3> QED
      BY <3>1, <3>2, <3>3, SafetyAssumption
  <2> QED
    BY <2>1, <2>2
<1>6. safety' \in SafetyRecords
  BY <1>1, <1>4 DEF TypeInv, TypeOK, MotionTypeOK, SafetyRecords
<1>7. MotionTypeOK' /\ SettingsTypeOK' /\ DriverTypeOK'
  BY <1>6, KeepSettings DEF Poll, TypeInv, TypeOK, MotionTypeOK, DriverTypeOK
<1>8. InputsTypeOK'
  BY <1>5, DispenserAssumption DEF Poll, TypeInv, TypeOK, InputsTypeOK
<1>9. LoopTypeOK' /\ reboot' = reboot /\ boots' = boots
  BY <1>1, <1>4 DEF Poll, TypeInv, TypeOK, LoopTypeOK, system
<1> QED
  BY <1>7, <1>8, <1>9 DEF TypeInv, TypeOK

LEMMA ExecTyped == ASSUME TypeInv, NEW c \in Commands, Exec(c) PROVE TypeInv'
<1>1. CommandTypeOK'
  BY ExecuteTyped DEF Exec, TypeInv
<1>2. InputsTypeOK' /\ LoopTypeOK' /\ reboot' = reboot /\ boots' = boots
  BY KeepInputs DEF Exec, system, TypeInv, TypeOK, LoopTypeOK
<1> QED
  BY <1>1, <1>2 DEF TypeInv, TypeOK, CommandTypeOK

LEMMA RebootTyped == ASSUME TypeInv, Reboot \/ Bootsel PROVE TypeInv'
<1>1. PICK o \in motor_stop(tmc) : tmc' = o.regs /\ Spend(Cost(o))
  BY DEF Reboot, Bootsel, Drive
<1>2. DriverTypeOK'
  BY <1>1, StopFact, CostFact, SpendFact DEF TypeInv, TypeOK, DriverTypeOK
<1>3. MotionTypeOK' /\ SettingsTypeOK' /\ InputsTypeOK'
  BY KeepMotion, KeepSettings, KeepInputs DEF Reboot, Bootsel, TypeInv, TypeOK
<1>4. LoopTypeOK' /\ (reboot' => boots' < MaxBoots)
  <2>1. CASE Reboot
    BY <2>1 DEF Reboot, TypeInv, TypeOK, LoopTypeOK, system
  <2>2. CASE Bootsel
    BY <2>2 DEF Bootsel, TypeInv, TypeOK, LoopTypeOK, system
  <2> QED
    BY <2>1, <2>2
<1> QED
  BY <1>2, <1>3, <1>4 DEF TypeInv, TypeOK

LEMMA DrainTyped == ASSUME TypeInv, Drain \/ KeysInFault PROVE TypeInv'
<1>1. MotionTypeOK' /\ SettingsTypeOK' /\ DriverTypeOK'
  BY KeepMotion, KeepSettings DEF Drain, KeysInFault, TypeInv, TypeOK, DriverTypeOK
<1>2. InputsTypeOK'
  BY SafetyAssumption DEF Drain, KeysInFault, inputs, TypeInv, TypeOK, InputsTypeOK
<1>3. LoopTypeOK' /\ reboot' = reboot /\ boots' = boots
  BY DEF Drain, KeysInFault, system, TypeInv, TypeOK, LoopTypeOK
<1> QED
  BY <1>1, <1>2, <1>3 DEF TypeInv, TypeOK

LEMMA ConflictTyped == ASSUME TypeInv, Conflict PROVE TypeInv'
<1>1. set_fault("BUTTON_CONFLICT", tmc, 0) /\ "BUTTON_CONFLICT" \in Faults /\ tmc \in Registers
  BY DEF Conflict, Faults, TypeInv, TypeOK, DriverTypeOK
<1>2. DriverTypeOK' /\ direction' = 0 /\ machine' = [state |-> "FAULT", fault_code |-> "BUTTON_CONFLICT"]
  BY <1>1, SetFaultFact DEF TypeInv
<1>3. MotionTypeOK'
  BY <1>1, <1>2, FaultRecords DEF Conflict, TypeInv, TypeOK, MotionTypeOK
<1>4. InputsTypeOK'
  BY SafetyAssumption DEF Conflict, TypeInv, TypeOK, InputsTypeOK
<1>5. SettingsTypeOK' /\ LoopTypeOK' /\ reboot' = reboot /\ boots' = boots
  BY KeepSettings DEF Conflict, system, TypeInv, TypeOK, LoopTypeOK
<1> QED
  BY <1>2, <1>3, <1>4, <1>5 DEF TypeInv, TypeOK

LEMMA KeysTyped == ASSUME TypeInv, Keys PROVE TypeInv'
<1>1. /\ config.trigger_dose_mm \in Int /\ config.dosing_speed_mm_s \in Int
      /\ config.retract_distance_mm \in Int
  BY DEF TypeInv, TypeOK, SettingsTypeOK, ConfigRecords
<1>2. Trigger \in CommandRecords
  BY <1>1 DEF Trigger, CommandRecords, CommandKinds, ReadyKinds
<1>3. CommandTypeOK'
  BY <1>2, ManualTyped, DoseTyped, StopTyped, IgnoredTyped DEF Keys, TypeInv
<1>4. InputsTypeOK'
  BY SafetyAssumption DEF Keys, TypeInv, TypeOK, InputsTypeOK
<1>5. LoopTypeOK' /\ reboot' = reboot /\ boots' = boots
  BY DEF Keys, system, TypeInv, TypeOK, LoopTypeOK
<1> QED
  BY <1>3, <1>4, <1>5 DEF TypeInv, TypeOK, CommandTypeOK

LEMMA SettleTyped == ASSUME TypeInv, Settle PROVE TypeInv'
<1>1. /\ machine' \in Machines /\ direction' \in {-1, 0, 1} /\ phase_ms' \in 0..AgeCap
      /\ glitches' \in 0..MaxGlitches
  <2>1. CASE Stopped
    BY <2>1, DispatchFact, CostFact, SpendFact
    DEF Stopped, TypeInv, TypeOK, MotionTypeOK, LoopTypeOK, DriverTypeOK
  <2>2. CASE DoseDone
    <3>1. PICK r \in motor_target_reached(tmc) :
            /\ Spend(Cost(r))
            /\ IF r.value
               THEN LET done == Dispatch(machine, "MOVE_DONE")
                    IN  /\ direction' = 0
                        /\ phase_ms' = IF retract_mm > 0 THEN 0 ELSE phase_ms
                        /\ machine' = IF retract_mm > 0 THEN done ELSE Dispatch(done, "MOVE_DONE")
               ELSE UNCHANGED <<machine, direction, phase_ms>>
      BY <2>2 DEF DoseDone
    <3>2. glitches' \in 0..MaxGlitches
      BY <3>1, CostFact, SpendFact DEF TypeInv, TypeOK, DriverTypeOK
    <3>3. machine' \in Machines
      BY <3>1, DispatchFact DEF TypeInv, TypeOK, MotionTypeOK
    <3>4. direction' \in {-1, 0, 1}
      BY <3>1 DEF TypeInv, TypeOK, MotionTypeOK
    <3>5. phase_ms' \in 0..AgeCap
      BY <3>1, SafetyAssumption DEF TypeInv, TypeOK, LoopTypeOK
    <3> QED
      BY <3>2, <3>3, <3>4, <3>5
  <2>3. CASE UNCHANGED <<machine, direction, phase_ms, glitches>>
    BY <2>3 DEF TypeInv, TypeOK, MotionTypeOK, LoopTypeOK, DriverTypeOK
  <2> QED
    BY <2>1, <2>2, <2>3 DEF Settle
<1>2. MotionTypeOK' /\ SettingsTypeOK' /\ InputsTypeOK' /\ DriverTypeOK'
  BY <1>1, KeepSettings, KeepInputs DEF Settle, TypeInv, TypeOK, MotionTypeOK, DriverTypeOK
<1>3. LoopTypeOK' /\ reboot' = reboot /\ boots' = boots
  BY <1>1 DEF Settle, system, TypeInv, TypeOK, LoopTypeOK
<1> QED
  BY <1>2, <1>3 DEF TypeInv, TypeOK

LEMMA UnloadEndTyped ==
  ASSUME TypeOK, NEW n \in Nat, NEW result, UnloadEnd(result, n)
  PROVE  DriverTypeOK' /\ machine' \in Machines /\ direction' = 0 /\ unload_result' = result
<1>1. PICK stop \in motor_stop(tmc) :
        \E o \in motor_set_position_mm(stop.regs, config.position_min_mm) :
          tmc' = o.regs /\ Spend(n + Cost(stop) + Cost(o))
  BY DEF UnloadEnd
<1>2. stop.regs \in Registers /\ config.position_min_mm \in Int
  BY StopFact DEF TypeOK, DriverTypeOK, SettingsTypeOK, ConfigRecords
<1>3. PICK o \in motor_set_position_mm(stop.regs, config.position_min_mm) :
        tmc' = o.regs /\ Spend(n + Cost(stop) + Cost(o))
  BY <1>1
<1>4. n + Cost(stop) + Cost(o) \in Nat
  BY CostFact
<1>5. DriverTypeOK'
  BY <1>2, <1>3, <1>4, RelabelFact, SpendFact DEF TypeOK, DriverTypeOK
<1>6. machine' \in Machines
  BY DispatchFact DEF UnloadEnd, TypeOK, MotionTypeOK
<1> QED
  BY <1>5, <1>6 DEF UnloadEnd

LEMMA RetractTyped == ASSUME TypeInv, Retract PROVE TypeInv'
<1>1. /\ DriverTypeOK' /\ machine' \in Machines /\ direction' \in {-1, 0, 1}
      /\ unload_result' \in {"none", "running", "stopped", "position_min", "stall"}
  <2>1. CASE RetractStart
    <3>1. PICK o \in motor_move_relative(tmc, -retract_mm, config.retract_speed_mm_s) :
            \/ o.ok /\ tmc' = o.regs /\ direction' = -1 /\ Spend(0) /\ UNCHANGED machine
            \/ ~o.ok /\ set_fault("SPI", o.regs, 1)
      BY <2>1 DEF RetractStart
    <3>2. -retract_mm \in Int /\ config.retract_speed_mm_s \in Int
      BY DEF TypeInv, TypeOK, MotionTypeOK, SettingsTypeOK, ConfigRecords
    <3>3. o.regs \in Registers /\ "SPI" \in Faults
      BY <3>2, MoveFact DEF TypeInv, TypeOK, DriverTypeOK, Faults
    <3>4. unload_result' = unload_result
      BY <2>1 DEF RetractStart
    <3>5. CASE o.ok /\ tmc' = o.regs /\ direction' = -1 /\ Spend(0) /\ UNCHANGED machine
      BY <3>3, <3>4, <3>5, SpendFact DEF TypeInv, TypeOK, DriverTypeOK, MotionTypeOK
    <3>6. CASE set_fault("SPI", o.regs, 1)
      BY <3>3, <3>4, <3>6, SetFaultFact, FaultRecords DEF TypeInv, TypeOK, MotionTypeOK
    <3> QED
      BY <3>1, <3>5, <3>6
  <2>2. CASE RetractDone
    BY <2>2, DispatchFact, CostFact, SpendFact
    DEF RetractDone, TypeInv, TypeOK, MotionTypeOK, DriverTypeOK
  <2>3. CASE HomingDone
    <3>1. PICK r \in motor_target_reached(tmc) :
            IF r.value THEN UnloadEnd("position_min", 0)
                       ELSE Spend(Cost(r)) /\ UNCHANGED <<machine, direction, unload_result, tmc>>
      BY <2>3 DEF HomingDone
    <3>2. CASE UnloadEnd("position_min", 0)
      BY <3>2, UnloadEndTyped DEF TypeInv
    <3>3. CASE Spend(Cost(r)) /\ UNCHANGED <<machine, direction, unload_result, tmc>>
      BY <3>3, CostFact, SpendFact DEF TypeInv, TypeOK, MotionTypeOK, DriverTypeOK
    <3> QED
      BY <3>1, <3>2, <3>3
  <2>4. CASE UNCHANGED <<machine, direction, unload_result, tmc, glitches>>
    BY <2>4 DEF TypeInv, TypeOK, MotionTypeOK, DriverTypeOK
  <2> QED
    BY <2>1, <2>2, <2>3, <2>4 DEF Retract
<1>2. MotionTypeOK' /\ SettingsTypeOK' /\ InputsTypeOK'
  BY <1>1, KeepSettings, KeepInputs DEF Retract, TypeInv, TypeOK, MotionTypeOK
<1>3. LoopTypeOK' /\ reboot' = reboot /\ boots' = boots
  BY DEF Retract, system, TypeInv, TypeOK, LoopTypeOK
<1> QED
  BY <1>1, <1>2, <1>3 DEF TypeInv, TypeOK

LEMMA SafetyCfgFact == ASSUME TypeOK PROVE IsSafetyConfig(SafetyCfg)
<1>1. SafetyCfg \in ConfigRecords
  BY DEF TypeOK, SettingsTypeOK, ConfigRecords, SafetyCfg
<1> QED
  BY <1>1 DEF IsSafetyConfig, ConfigRecords

(* The three ways a pass leaves the safety check: no fault, the end of an     *)
(* unload, a fault.                                                           *)
LEMMA CheckCases ==
  ASSUME TypeOK, Check
  PROVE  \E s \in SafetyRecords, failed \in Nat :
           /\ safety.fault # "OK" => s.fault = safety.fault
           /\ s.manual_ms = safety.manual_ms
           /\ machine.state \in TimedStates /\ safety.manual_ms > config.manual_timeout_ms
                => s.fault # "OK"
           /\ machine.state \notin MotionStates /\ s.fault = "OK" => s.critical_count = 0
           /\ s.fault = "STALL" /\ safety.fault # "STALL" => ~sg_cal.active
           /\ \/ /\ s.fault = "OK"
                 /\ safety' = s /\ Spend(failed)
                 /\ UNCHANGED <<machine, direction, unload_result, tmc>>
              \/ /\ machine.state = "HOMING"
                 /\ safety' = SafetyInit
                 /\ UnloadEnd(IF s.fault = "STALL" THEN "stall" ELSE "position_min", failed)
              \/ /\ s.fault # "OK"
                 /\ safety' = s
                 /\ set_fault(s.fault, tmc, failed)
                 /\ UNCHANGED unload_result
<1> DEFINE timed == machine.state \in TimedStates
           moving == machine.state \in MotionStates
           S(sg, hot, spi, mm) == safety_check(safety, SafetyCfg, timed, moving, sg, hot, spi, mm, direction)
           F(spi, pos) == (IF spi THEN 0 ELSE 1) + Cost(pos)
<1>1. PICK sg \in SgSamples, hot \in Overtemps, spi \in BOOLEAN, pos \in motor_position(tmc) :
        LET s      == S(sg, hot, spi, pos.mm)
            failed == F(spi, pos)
            ended  == machine.state = "HOMING" /\ s.fault \in {"STALL", "LIMIT"}
        IN  \/ /\ s.fault = "OK"
               /\ safety' = s /\ Spend(failed)
               /\ UNCHANGED <<machine, direction, unload_result, tmc>>
            \/ /\ ended
               /\ safety' = SafetyInit
               /\ UnloadEnd(IF s.fault = "STALL" THEN "stall" ELSE "position_min", failed)
            \/ /\ s.fault # "OK" /\ ~ended
               /\ safety' = s
               /\ set_fault(s.fault, tmc, failed)
               /\ UNCHANGED unload_result
  BY DEF Check
<1>2. sg \in Nat /\ hot \in BOOLEAN /\ spi \in BOOLEAN /\ pos.mm \in Int
  BY <1>1, DispenserAssumption, PositionFact DEF TypeOK, DriverTypeOK
<1>3. safety \in SafetyRecords /\ timed \in BOOLEAN /\ moving \in BOOLEAN /\ direction \in {-1, 0, 1}
  BY DEF TypeOK, MotionTypeOK
<1> DEFINE s == S(sg, hot, spi, pos.mm)
           failed == F(spi, pos)
<1>4. SafetyCfg.manual_timeout_ms = config.manual_timeout_ms
  BY DEF SafetyCfg, TypeOK, SettingsTypeOK, ConfigRecords
<1>8. SafetyCfg.stallguard_enabled => ~sg_cal.active
  BY DEF SafetyCfg, TypeOK, SettingsTypeOK, ConfigRecords
<1> HIDE DEF timed, moving
<1>5. /\ s \in SafetyRecords /\ s.manual_ms = safety.manual_ms
      /\ safety.fault # "OK" => s.fault = safety.fault
      /\ timed /\ safety.manual_ms > SafetyCfg.manual_timeout_ms => s.fault # "OK"
      /\ ~moving /\ s.fault = "OK" => s.critical_count = 0
      /\ s.fault = "STALL" /\ safety.fault # "STALL" => SafetyCfg.stallguard_enabled
  <2>1. IsSafetyConfig(SafetyCfg)
    BY SafetyCfgFact
  <2>2. CheckInputs(safety, SafetyCfg, timed, moving, sg, hot, spi, pos.mm, direction)
    BY <1>2, <1>3, <2>1 DEF CheckInputs
  <2>3. CheckResult(s, safety, SafetyCfg, timed, moving)
    BY <2>2, SafetyCheckFact, Zenon
  <2> HIDE DEF s, S
  <2> QED
    BY <2>3 DEF CheckResult
<1>6. failed \in Nat
  BY CostFact
<1> HIDE DEF s, failed, S, F
<1>7. \/ /\ s.fault = "OK"
         /\ safety' = s /\ Spend(failed)
         /\ UNCHANGED <<machine, direction, unload_result, tmc>>
      \/ /\ machine.state = "HOMING"
         /\ safety' = SafetyInit
         /\ UnloadEnd(IF s.fault = "STALL" THEN "stall" ELSE "position_min", failed)
      \/ /\ s.fault # "OK"
         /\ safety' = s
         /\ set_fault(s.fault, tmc, failed)
         /\ UNCHANGED unload_result
  BY <1>1 DEF s, failed
<1> QED
  BY <1>4, <1>5, <1>6, <1>7, <1>8 DEF timed, moving

LEMMA CheckTyped == ASSUME TypeInv, Check PROVE TypeInv'
<1>1. /\ DriverTypeOK' /\ machine' \in Machines /\ safety' \in SafetyRecords
      /\ direction' \in {-1, 0, 1}
      /\ unload_result' \in {"none", "running", "stopped", "position_min", "stall"}
  <2>1. PICK s \in SafetyRecords, failed \in Nat :
          \/ /\ s.fault = "OK"
             /\ safety' = s /\ Spend(failed)
             /\ UNCHANGED <<machine, direction, unload_result, tmc>>
          \/ /\ safety' = SafetyInit
             /\ UnloadEnd(IF s.fault = "STALL" THEN "stall" ELSE "position_min", failed)
          \/ /\ safety' = s
             /\ set_fault(s.fault, tmc, failed)
             /\ UNCHANGED unload_result
    BY CheckCases DEF TypeInv
  <2>2. s.fault \in Faults /\ tmc \in Registers
    BY DEF SafetyRecords, TypeInv, TypeOK, DriverTypeOK
  <2>3. CASE safety' = s /\ Spend(failed) /\ UNCHANGED <<machine, direction, unload_result, tmc>>
    BY <2>3, SpendFact DEF TypeInv, TypeOK, MotionTypeOK, DriverTypeOK
  <2>4. CASE /\ safety' = SafetyInit
             /\ UnloadEnd(IF s.fault = "STALL" THEN "stall" ELSE "position_min", failed)
    BY <2>4, SafetyInitFact, UnloadEndTyped DEF TypeInv
  <2>5. CASE safety' = s /\ set_fault(s.fault, tmc, failed) /\ UNCHANGED unload_result
    BY <2>2, <2>5, SetFaultFact, FaultRecords DEF TypeInv, TypeOK, MotionTypeOK
  <2> QED
    BY <2>1, <2>3, <2>4, <2>5
<1>2. sg_cal' \in [active : BOOLEAN, samples : 0..CalSamples]
  <2>1. sg_cal' = sg_cal \/ (sg_cal.samples < CalSamples /\ sg_cal' = [sg_cal EXCEPT !.samples = @ + 1])
    BY DEF Check
  <2> QED
    BY <2>1, DispenserAssumption DEF TypeInv, TypeOK, SettingsTypeOK
<1>3. MotionTypeOK' /\ SettingsTypeOK' /\ InputsTypeOK'
  BY <1>1, <1>2, KeepInputs DEF Check, TypeInv, TypeOK, MotionTypeOK, SettingsTypeOK
<1>4. LoopTypeOK' /\ reboot' = reboot /\ boots' = boots
  BY DEF Check, system, TypeInv, TypeOK, LoopTypeOK
<1> QED
  BY <1>1, <1>3, <1>4 DEF TypeInv, TypeOK

LEMMA TailTyped == ASSUME TypeInv, Tail PROVE TypeInv'
<1>1. dirty' \in BOOLEAN /\ glitches' \in 0..MaxGlitches
  BY SpendFact DEF Tail, TypeInv, TypeOK, MotionTypeOK, DriverTypeOK
<1>2. MotionTypeOK' /\ SettingsTypeOK' /\ DriverTypeOK'
  BY <1>1, KeepSettings DEF Tail, TypeInv, TypeOK, MotionTypeOK, DriverTypeOK
<1>3. InputsTypeOK'
  BY DEF Tail, TypeInv, TypeOK, InputsTypeOK
<1>4. LoopTypeOK' /\ reboot' = reboot /\ boots' = boots
  BY DEF Tail, system, TypeInv, TypeOK, LoopTypeOK
<1> QED
  BY <1>2, <1>3, <1>4 DEF TypeInv, TypeOK

LEMMA RampTyped == ASSUME TypeInv, RampGo \/ RampCoast \/ RampHalt PROVE TypeInv'
<1>1. tmc' \in {Advance(tmc), Coast(tmc), Halt(tmc)} /\ UNCHANGED firmware
  BY DEF RampGo, RampCoast, RampHalt, Moves
<1>2. DriverTypeOK'
  BY <1>1, RampFact DEF TypeInv, TypeOK, DriverTypeOK, firmware
<1>3. MotionTypeOK' /\ SettingsTypeOK' /\ InputsTypeOK'
  BY <1>1, KeepMotion, KeepSettings, KeepInputs DEF firmware, TypeInv, TypeOK
<1>4. LoopTypeOK' /\ reboot' = reboot /\ boots' = boots
  BY <1>1 DEF firmware, system, TypeInv, TypeOK, LoopTypeOK
<1> QED
  BY <1>2, <1>3, <1>4 DEF TypeInv, TypeOK

----------------------------------------------------------------------------
LEMMA InitTyped == Init => TypeInv
<1> SUFFICES ASSUME Init PROVE TypeInv
  OBVIOUS
<1>1. MachineInit \in Machines
  BY DEF MachineInit, Machines, States, Faults
<1>2. MotionTypeOK
  <2>1. machine \in Machines /\ safety \in SafetyRecords
    BY <1>1, SafetyInitFact DEF Init
  <2>2. direction \in {-1, 0, 1} /\ retract_mm \in Int
    BY DEF Init
  <2>3. unload_result \in {"none", "running", "stopped", "position_min", "stall"}
    BY DEF Init
  <2>4. dirty \in BOOLEAN
    BY DEF Init
  <2> QED
    BY <2>1, <2>2, <2>3, <2>4 DEF MotionTypeOK
<1>3. 0 \in 0..CalSamples /\ DefaultConfig \in ConfigRecords
  BY DispenserAssumption
<1>4. SettingsTypeOK
  BY <1>3 DEF Init, SettingsTypeOK
<1>5. InputsTypeOK
  BY SafetyAssumption DEF Init, InputsTypeOK, NoButtons, ButtonRecords
<1>6. DriverTypeOK
  <2>1. PowerOnRegs \in Registers
    BY DEF PowerOnRegs, Registers
  <2> QED
    BY <2>1, DispenserAssumption DEF Init, DriverTypeOK
<1>7. LoopTypeOK
  <2>1. boots \in 1..MaxBoots
    BY DispenserAssumption DEF Init
  <2>2. phase_ms \in 0..AgeCap
    BY SafetyAssumption DEF Init
  <2>3. motor_cfg \in [manual_speed_mm_s : Nat]
    BY DEF Init
  <2> QED
    BY <2>1, <2>2, <2>3 DEF Init, LoopTypeOK
<1> QED
  BY <1>2, <1>4, <1>5, <1>6, <1>7 DEF Init, TypeInv, TypeOK

LEMMA NextTyped == TypeInv /\ [Next]_vars => TypeInv'
<1> SUFFICES ASSUME TypeInv, [Next]_vars PROVE TypeInv'
  OBVIOUS
<1>1. CASE UNCHANGED vars
  <2>1. MotionTypeOK' /\ SettingsTypeOK' /\ InputsTypeOK'
    BY <1>1, KeepMotion, KeepSettings, KeepInputs DEF vars, TypeInv, TypeOK
  <2>2. DriverTypeOK' /\ LoopTypeOK' /\ reboot' = reboot /\ boots' = boots
    BY <1>1 DEF vars, system, TypeInv, TypeOK, DriverTypeOK, LoopTypeOK
  <2> QED
    BY <2>1, <2>2 DEF TypeInv, TypeOK
<1>2. CASE Pass
  BY <1>2, PollTyped, DrainTyped, ConflictTyped, FactoryResetTyped, KeysTyped, SettleTyped,
     RetractTyped, CheckTyped, TailTyped DEF Pass
<1>3. CASE \E c \in Commands : Exec(c)
  BY <1>3, ExecTyped
<1>4. CASE Boot \/ Restart \/ Reboot \/ Bootsel
  BY <1>4, BootTyped, RestartTyped, RebootTyped
<1>5. CASE RampGo \/ RampCoast \/ RampHalt
  BY <1>5, RampTyped
<1> QED
  BY <1>1, <1>2, <1>3, <1>4, <1>5 DEF Next

LEMMA TypeInvariant == Spec => []TypeInv
BY InitTyped, NextTyped, PTL DEF Spec

(* Type correctness: every variable stays in its type and every age below     *)
(* AgeCap, through failing calls and restarts.                                *)
THEOREM TypeCorrect == Spec => []TypeOK
<1>1. TypeInv => TypeOK
  BY DEF TypeInv
<1> QED
  BY <1>1, TypeInvariant, PTL

--------------------------------------------------------------------------------
(* The states of the motor task, for every value of the constants: the fault  *)
(* code and the direction that arms the limits follow the state on every path *)
(* and whichever calls fail, and the task implements the abstract axis.       *)

(* The two state properties lean on each other and on the boot phase being    *)
(* the BOOT state: entering READY clears no direction by itself.              *)
ModeInv ==
  /\ pc = "boot" <=> machine.state = "BOOT"
  /\ FaultConsistent
  /\ DirectionMatchesState

AxisStep == A!Next \/ UNCHANGED <<AxisMode, direction>>

Preserved == ModeInv' /\ AxisStep

(* Between two phases of the loop.                                            *)
InLoop == pc # "boot" /\ pc' # "boot"

----------------------------------------------------------------------------
LEMMA KeepMode ==
  ASSUME ModeInv, UNCHANGED <<machine, direction>>, safety'.fault = safety.fault,
         pc = "boot" <=> pc' = "boot"
  PROVE  Preserved
BY DEF Preserved, AxisStep, AxisMode, ModeInv, FaultConsistent, DirectionMatchesState

(* The dispatches the handlers make, from the states they make them in.       *)
LEMMA Moved ==
  ASSUME NEW m \in Machines
  PROVE  /\ \A e : Dispatch(m, e).fault_code = IF m.state = "FAULT" /\ e = "RESET" THEN "OK" ELSE m.fault_code
         /\ m.state = "BOOT" => Dispatch(m, "INIT_OK").state = "READY"
         /\ m.state = "READY" => /\ Dispatch(m, "PUSH").state = "MANUAL_PUSH"
                                 /\ Dispatch(m, "PULL").state = "MANUAL_PULL"
                                 /\ Dispatch(m, "DOSE").state = "DOSING"
                                 /\ Dispatch(m, "HOME").state = "HOMING"
         /\ m.state # "FAULT" => Dispatch(m, "STOP").state = "STOPPING"
         /\ m.state = "FAULT" => Dispatch(m, "RESET").state = "READY"
         /\ m.state = "DOSING" => Dispatch(m, "MOVE_DONE").state = "RETRACTING"
         /\ m.state \in {"RETRACTING", "HOMING"} => Dispatch(m, "MOVE_DONE").state = "READY"
         /\ m.state = "STOPPING" => Dispatch(m, "STOPPED").state = "READY"
<1>1. \A e : Dispatch(m, e).state = NextState(m.state, e)
  BY DEF Dispatch
<1>2. \A e : Dispatch(m, e).fault_code = IF m.state = "FAULT" /\ e = "RESET" THEN "OK" ELSE m.fault_code
  BY DEF Dispatch
<1>3. /\ NextState("BOOT", "INIT_OK") = "READY" /\ NextState("READY", "PUSH") = "MANUAL_PUSH"
      /\ NextState("READY", "PULL") = "MANUAL_PULL" /\ NextState("READY", "DOSE") = "DOSING"
      /\ NextState("READY", "HOME") = "HOMING"
  BY DEF NextState, BackToReady, ManualStates
<1>4. /\ NextState("FAULT", "RESET") = "READY" /\ NextState("DOSING", "MOVE_DONE") = "RETRACTING"
      /\ NextState("RETRACTING", "MOVE_DONE") = "READY" /\ NextState("HOMING", "MOVE_DONE") = "READY"
      /\ NextState("STOPPING", "STOPPED") = "READY"
  BY DEF NextState, BackToReady, ManualStates
<1>5. \A s : s # "FAULT" => NextState(s, "STOP") = "STOPPING"
  BY DEF NextState, BackToReady
<1> QED
  BY <1>1, <1>2, <1>3, <1>4, <1>5

LEMMA SetFaultMode ==
  ASSUME TypeOK, ModeInv, NEW f \in Faults \ {"OK"}, NEW regs \in Registers, NEW n \in Nat,
         set_fault(f, regs, n), pc' # "boot"
  PROVE  Preserved
<1>1. direction' = 0 /\ machine' = [state |-> "FAULT", fault_code |-> f]
  BY SetFaultFact
<1>2. machine'.state = "FAULT" /\ machine'.fault_code # "OK"
  BY <1>1
<1>3. ModeInv'
  BY <1>1, <1>2 DEF ModeInv, FaultConsistent, DirectionMatchesState
<1>4. AxisMode' = "fault"
  BY <1>2 DEF AxisMode
<1>a. direction' = 0
  BY <1>1
<1>5. CASE machine.state = "FAULT"
  <2>1. AxisMode = "fault" /\ direction = 0
    BY <1>5 DEF AxisMode, ModeInv, DirectionMatchesState
  <2> QED
    BY <1>a, <1>3, <1>4, <2>1 DEF Preserved, AxisStep
<1>6. CASE machine.state # "FAULT"
  <2>1. AxisMode # "fault"
    BY <1>6 DEF AxisMode
  <2> QED
    BY <1>a, <1>3, <1>4, <2>1 DEF Preserved, AxisStep, A!Next, A!Fail
<1> QED
  BY <1>5, <1>6

LEMMA RamLostMode == ASSUME RamLost PROVE Preserved
<1>1. machine' = [state |-> "BOOT", fault_code |-> "OK"] /\ direction' = 0 /\ pc' = "boot"
  BY DEF RamLost, MachineInit
<1>2. machine'.state = "BOOT" /\ machine'.fault_code = "OK" /\ safety'.fault = "OK"
  BY <1>1 DEF RamLost, SafetyInit
<1>3. ModeInv'
  BY <1>1, <1>2 DEF ModeInv, FaultConsistent, DirectionMatchesState
<1>4. AxisMode' = "off"
  BY <1>2 DEF AxisMode
<1> QED
  BY <1>1, <1>3, <1>4 DEF Preserved, AxisStep, A!Next, A!Crash

----------------------------------------------------------------------------
(* A motion starts: from READY, in the direction of the state entered.        *)
LEMMA StartMode ==
  ASSUME TypeOK, ModeInv, InLoop, machine.state = "READY", safety'.fault \in {safety.fault, "OK"},
         direction' \in {-1, 1}, machine'.fault_code = machine.fault_code,
         \/ machine'.state = "MANUAL_PUSH" /\ direction' = 1
         \/ machine'.state \in {"MANUAL_PULL", "HOMING"} /\ direction' = -1
         \/ machine'.state = "DOSING"
  PROVE  Preserved
<1>1. machine.fault_code = "OK" /\ safety.fault = "OK"
  BY DEF ModeInv, FaultConsistent
<1>2. ModeInv'
  BY <1>1 DEF InLoop, ModeInv, FaultConsistent, DirectionMatchesState
<1>3. AxisMode = "idle" /\ AxisMode' = "busy"
  BY DEF AxisMode
<1> QED
  BY <1>2, <1>3 DEF Preserved, AxisStep, A!Next, A!Start

LEMMA ManualMode ==
  ASSUME TypeOK, ModeInv, InLoop, NEW d \in {-1, 1}, begin_manual(d)
  PROVE  Preserved
<1>1. \/ /\ direction' = d
         /\ safety' = ManualStarted(safety)
         /\ machine' = Dispatch(machine, IF d > 0 THEN "PUSH" ELSE "PULL")
      \/ UNCHANGED <<direction, safety, machine>>
  BY DEF begin_manual
<1>2. CASE /\ direction' = d
           /\ safety' = ManualStarted(safety)
           /\ machine' = Dispatch(machine, IF d > 0 THEN "PUSH" ELSE "PULL")
  <2>1. machine.state = "READY" /\ machine \in Machines /\ safety \in SafetyRecords
    BY DEF begin_manual, TypeOK, MotionTypeOK
  <2>2. safety'.fault = safety.fault
    BY <1>2, <2>1, ManualStartedFact
  <2>3. machine'.fault_code = machine.fault_code
    BY <1>2, <2>1, Moved
  <2>4. \/ machine'.state = "MANUAL_PUSH" /\ direction' = 1
        \/ machine'.state = "MANUAL_PULL" /\ direction' = -1
    BY <1>2, <2>1, Moved
  <2> QED
    BY <1>2, <2>1, <2>2, <2>3, <2>4, StartMode
<1>3. CASE UNCHANGED <<direction, safety, machine>>
  BY <1>3, KeepMode DEF InLoop
<1> QED
  BY <1>1, <1>2, <1>3

LEMMA StopMode == ASSUME TypeOK, ModeInv, InLoop, stop_motion PROVE Preserved
<1>1. direction' = 0 /\ safety' = safety /\ machine \in Machines
  BY DEF stop_motion, TypeOK, MotionTypeOK
<1>2. CASE machine.state = "FAULT"
  <2>1. direction = 0 /\ machine' = machine
    BY <1>2 DEF stop_motion, ModeInv, DirectionMatchesState
  <2> QED
    BY <1>1, <2>1, KeepMode DEF InLoop
<1>3. CASE machine.state # "FAULT"
  <2>1. machine' = Dispatch(machine, "STOP")
    BY <1>3 DEF stop_motion
  <2>2. machine'.state = "STOPPING" /\ machine'.fault_code = machine.fault_code
    BY <1>1, <1>3, <2>1, Moved
  <2>3. ModeInv'
    BY <1>1, <1>3, <2>2 DEF InLoop, ModeInv, FaultConsistent, DirectionMatchesState
  <2>4. AxisMode' = "halting" /\ AxisMode \in {"idle", "busy", "halting"}
    BY <1>1, <1>3, <2>2 DEF AxisMode, ModeInv, InLoop
  <2>5. AxisMode = "halting" => direction = 0
    BY DEF AxisMode, ModeInv, DirectionMatchesState
  <2> QED
    BY <1>1, <2>3, <2>4, <2>5 DEF Preserved, AxisStep, A!Next, A!Stop
<1> QED
  BY <1>2, <1>3

LEMMA StartDoseMode ==
  ASSUME TypeOK, ModeInv, InLoop, machine.state = "READY", NEW o, NEW d \in {-1, 1}, NEW r,
         NEW counted, StartDose(o, d, r, counted)
  PROVE  Preserved
<1>1. safety' = safety /\ machine \in Machines
  BY DEF StartDose, TypeOK, MotionTypeOK
<1>2. CASE direction' = d /\ machine' = Dispatch(machine, "DOSE")
  <2>1. machine'.state = "DOSING" /\ machine'.fault_code = machine.fault_code
    BY <1>1, <1>2, Moved
  <2> QED
    BY <1>1, <1>2, <2>1, StartMode
<1>3. CASE UNCHANGED <<direction, machine>>
  BY <1>1, <1>3, KeepMode DEF InLoop
<1> QED
  BY <1>2, <1>3 DEF StartDose

LEMMA DoseMode == ASSUME TypeOK, ModeInv, InLoop, NEW c, Dose(c) PROVE Preserved
<1>1. machine.state = "READY"
  BY DEF Dose
<1>2. CASE \E o, r : StartDose(o, 1, r, TRUE)
  BY <1>1, <1>2, StartDoseMode
<1>3. CASE UNCHANGED motion
  BY <1>3, KeepMode DEF motion, InLoop
<1> QED
  BY <1>2, <1>3 DEF Dose

LEMMA MoveMode == ASSUME TypeOK, ModeInv, InLoop, NEW c, Move(c) PROVE Preserved
<1> DEFINE d == IF c.distance_mm >= 0 THEN 1 ELSE -1
           fwd == c.distance_mm > 0
<1>1. machine.state = "READY" /\ d \in {-1, 1}
  BY DEF Move
<1> HIDE DEF d, fwd
<1>2. PICK o : StartDose(o, d, 0, fwd)
  BY DEF Move, d, fwd
<1> QED
  BY <1>1, <1>2, StartDoseMode

LEMMA UnloadMode == ASSUME TypeOK, ModeInv, InLoop, NEW c, Unload(c) PROVE Preserved
<1>1. machine.state = "READY" /\ machine \in Machines
  BY DEF Unload, TypeOK, MotionTypeOK
<1>2. CASE /\ direction' = -1 /\ safety' = ManualStarted(SafetyInit)
           /\ machine' = Dispatch(machine, "HOME")
  <2>1. machine'.state = "HOMING" /\ machine'.fault_code = machine.fault_code
    BY <1>1, <1>2, Moved
  <2>2. safety'.fault = "OK"
    BY <1>2, SafetyInitFact, ManualStartedFact DEF SafetyInit
  <2> QED
    BY <1>1, <1>2, <2>1, <2>2, StartMode
<1>3. CASE UNCHANGED <<direction, safety, machine>>
  BY <1>3, KeepMode DEF InLoop
<1> QED
  BY <1>2, <1>3 DEF Unload

LEMMA FaultResetMode == ASSUME TypeOK, ModeInv, InLoop, FaultReset PROVE Preserved
<1>1. /\ machine.state = "FAULT" /\ machine \in Machines /\ direction' = direction
      /\ machine' = Dispatch(machine, "RESET") /\ safety'.fault = "OK"
  BY DEF FaultReset, SafetyInit, TypeOK, MotionTypeOK
<1>2. machine'.state = "READY" /\ machine'.fault_code = "OK" /\ direction = 0
  BY <1>1, Moved DEF ModeInv, DirectionMatchesState
<1>3. ModeInv'
  BY <1>1, <1>2 DEF InLoop, ModeInv, FaultConsistent, DirectionMatchesState
<1>4. AxisMode = "fault" /\ AxisMode' = "idle"
  BY <1>1, <1>2 DEF AxisMode
<1> QED
  BY <1>1, <1>3, <1>4 DEF Preserved, AxisStep, A!Next, A!Acknowledge

LEMMA OtherMode ==
  ASSUME ModeInv, InLoop,
         SetZero \/ apply_config_value \/ CalStart \/ CalCancel \/ CalFinish \/ FlushStatistics \/ Ignored
  PROVE  Preserved
<1>1. UNCHANGED <<machine, direction, safety>>
  BY DEF SetZero, apply_config_value, CalStart, CalCancel, CalFinish, FlushStatistics, Ignored, motion
<1> QED
  BY <1>1, KeepMode DEF InLoop

LEMMA ExecuteMode ==
  ASSUME TypeOK, ModeInv, InLoop, NEW c \in Commands, Execute(c)
  PROVE  Preserved
BY ManualMode, StopMode, DoseMode, MoveMode, UnloadMode, FaultResetMode, OtherMode DEF Execute

----------------------------------------------------------------------------
(* The phases of a pass and the boots.                                        *)

LEMMA BootMode == ASSUME TypeOK, ModeInv, Boot PROVE Preserved
<1>1. /\ pc = "boot" /\ pc' = "poll" /\ safety' = safety /\ machine.state = "BOOT"
      /\ machine \in Machines /\ direction = 0 /\ machine.fault_code = "OK" /\ safety.fault = "OK"
  BY DEF Boot, ModeInv, FaultConsistent, DirectionMatchesState, TypeOK, MotionTypeOK
<1>2. PICK init \in motor_init(tmc, saved.manual_speed_mm_s), sg \in BOOLEAN :
        \/ machine' = Dispatch(machine, "INIT_OK") /\ UNCHANGED direction
        \/ set_fault("SPI", init.regs, IF DriverPresent THEN 1 ELSE 0)
  BY DEF Boot
<1>3. CASE machine' = Dispatch(machine, "INIT_OK") /\ UNCHANGED direction
  <2>1. machine'.state = "READY" /\ machine'.fault_code = "OK"
    BY <1>1, <1>3, Moved
  <2>2. ModeInv'
    BY <1>1, <1>3, <2>1 DEF ModeInv, FaultConsistent, DirectionMatchesState
  <2>3. AxisMode = "off" /\ AxisMode' = "idle"
    BY <1>1, <2>1 DEF AxisMode
  <2> QED
    BY <1>1, <1>3, <2>2, <2>3 DEF Preserved, AxisStep, A!Next, A!PowerOn
<1>4. CASE set_fault("SPI", init.regs, IF DriverPresent THEN 1 ELSE 0)
  <2> DEFINE n == IF DriverPresent THEN 1 ELSE 0
  <2>1. saved.manual_speed_mm_s \in Nat /\ tmc \in Registers
    BY DEF TypeOK, SettingsTypeOK, ConfigRecords, DriverTypeOK
  <2>2. init.regs \in Registers /\ n \in Nat /\ "SPI" \in Faults \ {"OK"}
    BY <2>1, InitFact DEF Faults
  <2> HIDE DEF n
  <2>3. set_fault("SPI", init.regs, n)
    BY <1>4 DEF n
  <2> QED
    BY <1>1, <2>2, <2>3, SetFaultMode
<1> QED
  BY <1>2, <1>3, <1>4

LEMMA PollMode == ASSUME TypeOK, ModeInv, Poll PROVE Preserved
<1>1. safety'.fault = safety.fault
  BY DEF Poll, TypeOK, MotionTypeOK, SafetyRecords
<1> QED
  BY <1>1, KeepMode DEF Poll

LEMMA QuietMode ==
  ASSUME ModeInv, \/ Drain \/ KeysInFault \/ Tail \/ Reboot \/ Bootsel
                  \/ RampGo \/ RampCoast \/ RampHalt
  PROVE  Preserved
<1>1. UNCHANGED <<machine, direction, safety>> /\ (pc = "boot" <=> pc' = "boot")
  BY DEF Drain, KeysInFault, Tail, Reboot, Bootsel, RampGo, RampCoast, RampHalt, firmware, motion
<1> QED
  BY <1>1, KeepMode

LEMMA ConflictMode == ASSUME TypeOK, ModeInv, Conflict PROVE Preserved
<1>1. /\ set_fault("BUTTON_CONFLICT", tmc, 0) /\ pc' # "boot" /\ tmc \in Registers
      /\ "BUTTON_CONFLICT" \in Faults \ {"OK"}
  BY DEF Conflict, TypeOK, DriverTypeOK, Faults
<1> QED
  BY <1>1, SetFaultMode

LEMMA KeysMode == ASSUME TypeOK, ModeInv, Keys PROVE Preserved
<1>1. InLoop
  BY DEF Keys, InLoop
<1>2. begin_manual(1) \/ begin_manual(-1) \/ Dose(Trigger) \/ stop_motion \/ Ignored
  BY DEF Keys
<1> QED
  BY <1>1, <1>2, ManualMode, DoseMode, StopMode, OtherMode

(* The end of a motion: no direction, and READY or the dwell.                 *)
LEMMA DoneMode ==
  ASSUME ModeInv, InLoop, machine.state \in MotionStates, direction' = 0,
         safety'.fault \in {safety.fault, "OK"}, machine'.fault_code = machine.fault_code,
         machine'.state = "READY"
  PROVE  Preserved
<1>1. machine.fault_code = "OK" /\ safety.fault = "OK"
  BY DEF ModeInv, FaultConsistent, MotionStates, ManualStates
<1>2. ModeInv'
  BY <1>1 DEF InLoop, ModeInv, FaultConsistent, DirectionMatchesState
<1>3. AxisMode = "busy" /\ AxisMode' = "idle"
  BY DEF AxisMode, MotionStates, ManualStates
<1> QED
  BY <1>2, <1>3 DEF Preserved, AxisStep, A!Next, A!Done

LEMMA SettleMode == ASSUME TypeOK, ModeInv, Settle PROVE Preserved
<1>1. InLoop /\ safety' = safety /\ machine \in Machines
  BY DEF Settle, InLoop, TypeOK, MotionTypeOK
<1>2. CASE Stopped
  <2>1. machine.state = "STOPPING" /\ direction' = direction /\ direction = 0
    BY <1>2 DEF Stopped, ModeInv, DirectionMatchesState
  <2>2. machine' = machine \/ machine' = Dispatch(machine, "STOPPED")
    BY <1>2 DEF Stopped
  <2>3. CASE machine' = machine
    BY <1>1, <2>1, <2>3, KeepMode DEF InLoop
  <2>4. CASE machine' = Dispatch(machine, "STOPPED")
    <3>1. machine'.state = "READY" /\ machine'.fault_code = machine.fault_code
      BY <1>1, <2>1, <2>4, Moved
    <3>2. ModeInv'
      BY <1>1, <2>1, <3>1 DEF InLoop, ModeInv, FaultConsistent, DirectionMatchesState
    <3>3. AxisMode = "halting" /\ AxisMode' = "idle"
      BY <2>1, <3>1 DEF AxisMode
    <3> QED
      BY <2>1, <3>2, <3>3 DEF Preserved, AxisStep, A!Next, A!Rest
  <2> QED
    BY <2>2, <2>3, <2>4
<1>3. CASE DoseDone
  <2> DEFINE done == Dispatch(machine, "MOVE_DONE")
  <2>1. machine.state = "DOSING" /\ direction # 0
    BY <1>3 DEF DoseDone, ModeInv, DirectionMatchesState
  <2>2. done.state = "RETRACTING" /\ done.fault_code = machine.fault_code /\ done \in Machines
    BY <1>1, <2>1, Moved, DispatchFact
  <2>3. \/ UNCHANGED <<machine, direction>>
        \/ direction' = 0 /\ (machine' = done \/ machine' = Dispatch(done, "MOVE_DONE"))
    BY <1>3 DEF DoseDone
  <2> HIDE DEF done
  <2>4. CASE UNCHANGED <<machine, direction>>
    BY <1>1, <2>4, KeepMode DEF InLoop
  <2>5. CASE direction' = 0 /\ machine' = done
    <3>1. ModeInv'
      BY <1>1, <2>1, <2>2, <2>5 DEF InLoop, ModeInv, FaultConsistent, DirectionMatchesState
    <3>2. AxisMode = "busy" /\ AxisMode' = "busy"
      BY <2>1, <2>2, <2>5 DEF AxisMode
    <3> QED
      BY <2>1, <2>5, <3>1, <3>2 DEF Preserved, AxisStep, A!Next, A!Pause
  <2>6. CASE direction' = 0 /\ machine' = Dispatch(done, "MOVE_DONE")
    <3>1. machine'.state = "READY" /\ machine'.fault_code = machine.fault_code
      BY <2>2, <2>6, Moved
    <3> QED
      BY <1>1, <2>1, <2>6, <3>1, DoneMode DEF MotionStates
  <2> QED
    BY <2>3, <2>4, <2>5, <2>6
<1>4. CASE UNCHANGED <<machine, direction>>
  BY <1>1, <1>4, KeepMode DEF InLoop
<1> QED
  BY <1>2, <1>3, <1>4 DEF Settle

LEMMA UnloadEndMode ==
  ASSUME TypeOK, ModeInv, InLoop, machine.state = "HOMING", NEW result, NEW n,
         UnloadEnd(result, n), safety'.fault \in {safety.fault, "OK"}
  PROVE  Preserved
<1>1. direction' = 0 /\ machine' = Dispatch(machine, "MOVE_DONE") /\ machine \in Machines
  BY DEF UnloadEnd, TypeOK, MotionTypeOK
<1>2. machine'.state = "READY" /\ machine'.fault_code = machine.fault_code
  BY <1>1, Moved
<1> QED
  BY <1>1, <1>2, DoneMode DEF MotionStates

LEMMA RetractMode == ASSUME TypeOK, ModeInv, Retract PROVE Preserved
<1>1. InLoop /\ safety' = safety /\ machine \in Machines
  BY DEF Retract, InLoop, TypeOK, MotionTypeOK
<1>2. CASE RetractStart
  <2>1. machine.state = "RETRACTING" /\ direction = 0
    BY <1>2 DEF RetractStart, RetractDue
  <2>2. PICK o \in motor_move_relative(tmc, -retract_mm, config.retract_speed_mm_s) :
          (direction' = -1 /\ UNCHANGED machine) \/ set_fault("SPI", o.regs, 1)
    BY <1>2 DEF RetractStart
  <2>3. CASE direction' = -1 /\ UNCHANGED machine
    <3>1. ModeInv'
      BY <1>1, <2>1, <2>3 DEF InLoop, ModeInv, FaultConsistent, DirectionMatchesState
    <3>2. AxisMode = "busy" /\ AxisMode' = AxisMode
      BY <2>1, <2>3 DEF AxisMode
    <3> QED
      BY <2>1, <2>3, <3>1, <3>2 DEF Preserved, AxisStep, A!Next, A!Resume
  <2>4. CASE set_fault("SPI", o.regs, 1)
    <3>1. -retract_mm \in Int /\ config.retract_speed_mm_s \in Int
      BY DEF TypeOK, MotionTypeOK, SettingsTypeOK, ConfigRecords
    <3>2. o.regs \in Registers /\ "SPI" \in Faults \ {"OK"}
      BY <3>1, MoveFact DEF TypeOK, DriverTypeOK, Faults
    <3> QED
      BY <1>1, <2>4, <3>2, SetFaultMode DEF InLoop
  <2> QED
    BY <2>2, <2>3, <2>4
<1>3. CASE RetractDone
  <2>1. machine.state = "RETRACTING"
    BY <1>3 DEF RetractDone
  <2>2. \/ direction' = 0 /\ machine' = Dispatch(machine, "MOVE_DONE")
        \/ UNCHANGED <<direction, machine>>
    BY <1>3 DEF RetractDone
  <2>3. CASE direction' = 0 /\ machine' = Dispatch(machine, "MOVE_DONE")
    <3>1. machine'.state = "READY" /\ machine'.fault_code = machine.fault_code
      BY <1>1, <2>1, <2>3, Moved
    <3> QED
      BY <1>1, <2>1, <2>3, <3>1, DoneMode DEF MotionStates
  <2>4. CASE UNCHANGED <<direction, machine>>
    BY <1>1, <2>4, KeepMode DEF InLoop
  <2> QED
    BY <2>2, <2>3, <2>4
<1>4. CASE HomingDone
  <2>1. machine.state = "HOMING"
    BY <1>4 DEF HomingDone
  <2>2. UnloadEnd("position_min", 0) \/ UNCHANGED <<machine, direction>>
    BY <1>4 DEF HomingDone
  <2> QED
    BY <1>1, <2>1, <2>2, UnloadEndMode, KeepMode DEF InLoop
<1>5. CASE UNCHANGED <<machine, direction>>
  BY <1>1, <1>5, KeepMode DEF InLoop
<1> QED
  BY <1>2, <1>3, <1>4, <1>5 DEF Retract

LEMMA CheckMode == ASSUME TypeOK, ModeInv, Check PROVE Preserved
<1>1. InLoop
  BY DEF Check, InLoop
<1>2. PICK s \in SafetyRecords, failed \in Nat :
        /\ safety.fault # "OK" => s.fault = safety.fault
        /\ \/ /\ s.fault = "OK"
              /\ safety' = s
              /\ UNCHANGED <<machine, direction>>
           \/ /\ machine.state = "HOMING"
              /\ safety' = SafetyInit
              /\ UnloadEnd(IF s.fault = "STALL" THEN "stall" ELSE "position_min", failed)
           \/ s.fault # "OK" /\ set_fault(s.fault, tmc, failed)
  BY CheckCases
<1>3. CASE s.fault = "OK" /\ safety' = s /\ UNCHANGED <<machine, direction>>
  <2>1. safety'.fault = safety.fault
    BY <1>2, <1>3
  <2> QED
    BY <1>1, <1>3, <2>1, KeepMode DEF InLoop
<1>4. CASE /\ machine.state = "HOMING" /\ safety' = SafetyInit
           /\ UnloadEnd(IF s.fault = "STALL" THEN "stall" ELSE "position_min", failed)
  <2>1. safety'.fault = "OK"
    BY <1>4 DEF SafetyInit
  <2> QED
    BY <1>1, <1>4, <2>1, UnloadEndMode
<1>5. CASE s.fault # "OK" /\ set_fault(s.fault, tmc, failed)
  <2>1. s.fault \in Faults \ {"OK"} /\ tmc \in Registers
    BY <1>5 DEF SafetyRecords, TypeOK, DriverTypeOK
  <2> QED
    BY <1>1, <1>5, <2>1, SetFaultMode DEF InLoop
<1> QED
  BY <1>2, <1>3, <1>4, <1>5

----------------------------------------------------------------------------
LEMMA InitMode == Init => ModeInv /\ A!Init
<1> SUFFICES ASSUME Init PROVE ModeInv /\ A!Init
  OBVIOUS
<1>1. /\ machine.state = "BOOT" /\ machine.fault_code = "OK" /\ safety.fault = "OK"
      /\ direction = 0 /\ pc = "boot"
  BY DEF Init, MachineInit, SafetyInit
<1>2. AxisMode = "off"
  BY <1>1 DEF AxisMode
<1> QED
  BY <1>1, <1>2 DEF ModeInv, FaultConsistent, DirectionMatchesState, A!Init

LEMMA NextMode == TypeOK /\ ModeInv /\ [Next]_vars => Preserved
<1> SUFFICES ASSUME TypeOK, ModeInv, [Next]_vars PROVE Preserved
  OBVIOUS
<1>1. CASE UNCHANGED vars
  BY <1>1, KeepMode DEF vars, motion
<1>2. CASE \E c \in Commands : Exec(c)
  <2>1. PICK c \in Commands : Exec(c)
    BY <1>2
  <2>2. InLoop /\ Execute(c)
    BY <2>1 DEF Exec, InLoop
  <2> QED
    BY <2>2, ExecuteMode
<1>3. CASE Restart \/ FactoryReset
  BY <1>3, RamLostMode DEF Restart, FactoryReset
<1>4. CASE Drain \/ KeysInFault \/ Tail \/ Reboot \/ Bootsel \/ RampGo \/ RampCoast \/ RampHalt
  BY <1>4, QuietMode
<1>5. CASE Boot \/ Poll \/ Conflict \/ Keys \/ Settle \/ Retract \/ Check
  BY <1>5, BootMode, PollMode, ConflictMode, KeysMode, SettleMode, RetractMode, CheckMode
<1> QED
  BY <1>1, <1>2, <1>3, <1>4, <1>5 DEF Next, Pass

LEMMA TypeHolds == Spec => []TypeOK
BY TypeCorrect

LEMMA ModeInvariant == Spec => []ModeInv
<1>1. TypeOK /\ ModeInv /\ [Next]_vars => ModeInv'
  BY NextMode DEF Preserved
<1> QED
  BY InitMode, TypeHolds, <1>1, PTL DEF Spec

(* The fault code is shown exactly in FAULT, and a latched safety fault has   *)
(* the machine there.                                                         *)
THEOREM FaultsConsistent == Spec => []FaultConsistent
<1>1. ModeInv => FaultConsistent
  BY DEF ModeInv
<1> QED
  BY <1>1, ModeInvariant, PTL

(* The limits are armed in the direction of the motion the state stands for.  *)
THEOREM DirectionsMatch == Spec => []DirectionMatchesState
<1>1. ModeInv => DirectionMatchesState
  BY DEF ModeInv
<1> QED
  BY <1>1, ModeInvariant, PTL

(* The motor task implements the abstract axis: motions start from rest,      *)
(* reverse through rest, and a fault is left by an acknowledgement only.      *)
THEOREM ImplementsAxis == Spec => AxisSpec
<1>1. TypeOK /\ ModeInv /\ [Next]_vars => [A!Next]_(A!axis)
  BY NextMode DEF Preserved, AxisStep, A!axis
<1> QED
  BY InitMode, TypeHolds, ModeInvariant, <1>1, PTL DEF Spec, AxisSpec, A!Spec

----------------------------------------------------------------------------
LEMMA TimedStep == TypeOK /\ TimedMotion /\ [Next]_vars => TimedMotion'
<1> SUFFICES ASSUME TypeOK, TimedMotion, [Next]_vars, pc' = "tail",
                    machine'.state \in ManualStates \cup {"HOMING"}
             PROVE  safety'.manual_ms =< config'.manual_timeout_ms
  BY DEF TimedMotion
<1>1. CASE pc = "tail"
  <2>1. UNCHANGED <<machine, safety, config>>
    BY <1>1 DEF Next, Pass, Boot, Restart, RamLost, Poll, Exec, Drain, Conflict, FactoryReset, KeysInFault,
       Keys, Settle, Retract, Check, Tail, Reboot, Bootsel, RampGo, RampCoast, RampHalt, firmware,
       vars, motion, settings
  <2> QED
    BY <1>1, <2>1 DEF TimedMotion
<1>2. CASE pc # "tail"
  <2>1. Check \/ Conflict \/ KeysInFault
    BY <1>2 DEF Next, Pass, Boot, Restart, RamLost, Poll, Exec, Drain, FactoryReset, Keys, Settle,
       Retract, Tail, Reboot, Bootsel, RampGo, RampCoast, RampHalt, firmware, vars
  <2>2. CASE Conflict
    <3>1. set_fault("BUTTON_CONFLICT", tmc, 0) /\ tmc \in Registers /\ "BUTTON_CONFLICT" \in Faults
      BY <2>2 DEF Conflict, TypeOK, DriverTypeOK, Faults
    <3>2. machine' = [state |-> "FAULT", fault_code |-> "BUTTON_CONFLICT"]
      BY <3>1, SetFaultFact
    <3> QED
      BY <3>2 DEF ManualStates
  <2>3. CASE KeysInFault
    BY <2>3 DEF KeysInFault, motion, ManualStates
  <2>4. CASE Check
    <3>1. PICK s \in SafetyRecords, failed \in Nat :
            /\ s.manual_ms = safety.manual_ms
            /\ machine.state \in TimedStates /\ safety.manual_ms > config.manual_timeout_ms
                 => s.fault # "OK"
            /\ \/ s.fault = "OK" /\ safety' = s /\ UNCHANGED machine
               \/ /\ machine.state = "HOMING"
                  /\ UnloadEnd(IF s.fault = "STALL" THEN "stall" ELSE "position_min", failed)
               \/ set_fault(s.fault, tmc, failed)
      BY <2>4, CheckCases
    <3>2. CASE s.fault = "OK" /\ safety' = s /\ UNCHANGED machine
      <4>1. config' = config /\ safety.manual_ms \in Int /\ config.manual_timeout_ms \in Int
        BY <2>4, SafetyAssumption
        DEF Check, TypeOK, MotionTypeOK, SettingsTypeOK, SafetyRecords, ConfigRecords
      <4> QED
        BY <3>1, <3>2, <4>1 DEF TimedStates
    <3>3. CASE /\ machine.state = "HOMING"
               /\ UnloadEnd(IF s.fault = "STALL" THEN "stall" ELSE "position_min", failed)
      <4>1. machine' = Dispatch(machine, "MOVE_DONE") /\ machine \in Machines
        BY <3>3 DEF UnloadEnd, TypeOK, MotionTypeOK
      <4>2. machine'.state = "READY"
        BY <3>3, <4>1, Moved
      <4> QED
        BY <4>2 DEF ManualStates
    <3>4. CASE set_fault(s.fault, tmc, failed)
      <4>1. s.fault \in Faults /\ tmc \in Registers
        BY DEF SafetyRecords, TypeOK, DriverTypeOK
      <4>2. machine' = [state |-> "FAULT", fault_code |-> s.fault]
        BY <3>4, <4>1, SetFaultFact
      <4> QED
        BY <4>2 DEF ManualStates
    <3> QED
      BY <3>1, <3>2, <3>3, <3>4
  <2> QED
    BY <2>1, <2>2, <2>3, <2>4
<1> QED
  BY <1>1, <1>2

(* No pass ends with a manual motion or an unload older than its timeout.     *)
THEOREM MotionsTimed == Spec => []TimedMotion
<1>1. Init => TimedMotion
  BY DEF Init, TimedMotion
<1> QED
  BY <1>1, TimedStep, TypeHolds, PTL DEF Spec
================================================================================
