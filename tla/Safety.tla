-------------------------------- MODULE Safety --------------------------------
(* src/safety.c: the check the motor task runs on every pass of its loop.     *)
(*                                                                            *)
(* Time is an age: manual_ms is now - manual_started_ms, advanced by the      *)
(* motor task and saturating at AgeCap.                                       *)
EXTENDS Integers, AppState

CONSTANTS AgeCap,           \* ages saturate here, above every timeout
          CountMod          \* 2^16 in the code: the counters are uint16_t

ASSUME SafetyAssumption == AgeCap \in Nat \ {0} /\ CountMod \in Nat \ {0, 1}

LoadStates == {"LOAD_NORMAL", "LOAD_HIGH", "STALL_WARNING", "STALL_ERROR"}

SafetyRecords == [fault : Faults, load_state : LoadStates, sg_filtered : Nat,
                  warning_count : Nat, critical_count : Nat, manual_ms : 0..AgeCap]

(* All zero: the motion clock reads the time since boot, that is AgeCap.      *)
SafetyInit == [fault |-> "OK", load_state |-> "LOAD_NORMAL", sg_filtered |-> 0,
               warning_count |-> 0, critical_count |-> 0, manual_ms |-> AgeCap]

ManualStarted(s) == [s EXCEPT !.manual_ms = 0]

Elapse(age, d) == IF age + d > AgeCap THEN AgeCap ELSE age + d

(* The running average; 0 means it has not been seeded.                       *)
Filtered(f, sg) == IF f = 0 THEN sg ELSE (3 * f + sg) \div 4

(* Faulty variant: one sample too many before the stall is reported.          *)
Stalled_late(count, c) == count > c.stallguard_filter_count

Stalled(count, c) == count >= c.stallguard_filter_count

(* Faulty variant: counts survive the end of the motion.                      *)
Rested_kept(s) == [s EXCEPT !.load_state = "LOAD_NORMAL"]

(* No motion to watch, or a normal load.                                      *)
Rested(s) == [s EXCEPT !.load_state = "LOAD_NORMAL", !.warning_count = 0, !.critical_count = 0]

StallGuard(s, c, sg_motion, sg) ==
  LET f        == Filtered(s.sg_filtered, sg)
      n        == c.stallguard_filter_count
      watched  == c.stallguard_enabled /\ sg_motion
      critical == (s.critical_count + 1) % CountMod
      warnings == IF s.warning_count < n THEN s.warning_count + 1 ELSE s.warning_count
  IN  IF watched /\ f < c.stallguard_critical_level THEN
             [s EXCEPT !.sg_filtered    = f,
                       !.warning_count  = (@ + 1) % CountMod,
                       !.critical_count = critical,
                       !.load_state     = IF Stalled(critical, c) THEN "STALL_ERROR" ELSE "STALL_WARNING",
                       !.fault          = IF Stalled(critical, c) THEN "STALL" ELSE @]
      ELSE IF watched /\ f < c.stallguard_warning_level THEN
             [s EXCEPT !.sg_filtered    = f,
                       !.warning_count  = warnings,
                       !.critical_count = 0,
                       !.load_state     = IF warnings >= n THEN "STALL_WARNING" ELSE "LOAD_HIGH"]
      ELSE [Rested(s) EXCEPT !.sg_filtered = f]

(* Faulty variant: the start of the course is not a limit.                    *)
AtLimit_end(c, pos, dir) == dir > 0 /\ pos >= c.position_max_mm

AtLimit(c, pos, dir) == \/ dir < 0 /\ pos =< c.position_min_mm
                        \/ dir > 0 /\ pos >= c.position_max_mm

(* The early returns, in the code's order; a latched fault comes first.       *)
Cause(s, c, timed, hot, spi, pos, dir) ==
  IF s.fault # "OK" THEN s.fault
  ELSE IF ~spi THEN "SPI"
  ELSE IF hot THEN "OVERTEMP"
  ELSE IF timed /\ s.manual_ms > c.manual_timeout_ms THEN "TIMEOUT"
  ELSE IF AtLimit(c, pos, dir) THEN "LIMIT" ELSE "OK"

(* The safety record after the call; its fault is what the call returns.  The *)
(* argument both is always false at the one call site and is left out.        *)
safety_check(s, c, timed, sg_motion, sg, hot, spi, pos, dir) ==
  LET cause == Cause(s, c, timed, hot, spi, pos, dir)
  IN  IF cause # "OK" THEN [s EXCEPT !.fault = cause] ELSE StallGuard(s, c, sg_motion, sg)
=============================================================================
