----------------------------- MODULE MCDispenser -----------------------------
(* Instances of Dispenser for TLC.  A microstep is two length units, so odd   *)
(* lengths fall between two positions.                                        *)
EXTENDS Dispenser

Cmd(kind) == [kind |-> kind, distance_mm |-> 0, speed_mm_s |-> 0, retract_mm |-> -1]

DoseOf(d, r) == [Cmd("DOSE") EXCEPT !.distance_mm = d, !.retract_mm = r]
MoveOf(d) == [Cmd("MOVE_RELATIVE") EXCEPT !.distance_mm = d]

(* A course of three microsteps, a dose of one and a half.                    *)
BaseConfig ==
  [manual_speed_mm_s |-> 2, dosing_speed_mm_s |-> 2, trigger_dose_mm |-> 3,
   retract_distance_mm |-> 2, retract_speed_mm_s |-> 2, retract_delay_ms |-> 1,
   position_min_mm |-> 0, position_max_mm |-> 6, manual_timeout_ms |-> 2,
   stallguard_enabled |-> FALSE, stallguard_warning_level |-> 0,
   stallguard_critical_level |-> 0, stallguard_filter_count |-> 2]

OneConfig == {BaseConfig}
NoLevels == [warning : {}, critical : {}]

Button(p, q, d) == [push |-> p, pull |-> q, dose |-> d]
NoContact == {Button(FALSE, FALSE, FALSE)}
Calm == {8}
Cold == {FALSE}
Tick == {1}

Contacts == {Button(FALSE, FALSE, FALSE), Button(TRUE, FALSE, FALSE), Button(FALSE, TRUE, FALSE),
             Button(FALSE, FALSE, TRUE), Button(TRUE, TRUE, FALSE), Button(TRUE, TRUE, TRUE)}
PushContact == {Button(FALSE, FALSE, FALSE), Button(TRUE, FALSE, FALSE),
                Button(FALSE, FALSE, TRUE), Button(TRUE, FALSE, TRUE)}
LightOrHeavy == {0, 8}
HotOrCold == BOOLEAN
Ticks == {1, 2}

(* The same course with its end moved up by one microstep.                    *)
MovedMin == [BaseConfig EXCEPT !.position_min_mm = 2]
TwoConfigs == {BaseConfig, MovedMin}

(* A course that ends between two microsteps.                                 *)
MotionConfig == [BaseConfig EXCEPT !.position_max_mm = 5]
MotionConfigs == {MotionConfig}

(* A shorter course and a shorter timeout, for the runs with more events.     *)
ShortConfig == [BaseConfig EXCEPT !.position_max_mm = 4, !.manual_timeout_ms = 1]
ShortConfigs == {ShortConfig}

(* StallGuard armed, or off with a shorter dose and a shorter timeout: two     *)
(* critical samples stall.                                                    *)
StallConfig == [BaseConfig EXCEPT !.stallguard_enabled = TRUE, !.manual_timeout_ms = 3,
                                  !.stallguard_warning_level = 6, !.stallguard_critical_level = 4]
StallConfigs == {StallConfig, [StallConfig EXCEPT !.stallguard_enabled = FALSE, !.trigger_dose_mm = 2,
                                                     !.manual_timeout_ms = 1]}
Levels == {[warning |-> 6, critical |-> 4]}

(* Legal while StallGuard is off: no sample stalls.                           *)
NoFilterConfig == [BaseConfig EXCEPT !.stallguard_filter_count = 0]
NoFilterConfigs == {NoFilterConfig}

Kinds(ks) == {Cmd(k) : k \in ks}

MotionCommands == Kinds({"STOP", "PUSH_START", "PULL_START", "UNLOAD_SYRINGE", "RESET"})
                  \cup {DoseOf(3, 2), DoseOf(4, 0), MoveOf(-3)}
FaultCommands  == Kinds({"STOP", "PUSH_START", "DOSE", "UNLOAD_SYRINGE", "SET_ZERO", "RESET", "REBOOT",
                         "BOOTSEL", "FLUSH_STATISTICS"})
StallCommands  == Kinds({"PUSH_START", "UNLOAD_SYRINGE", "STOP", "PUSH_STOP", "PULL_STOP", "RESET",
                         "SG_CAL_START", "SG_CAL_FINISH", "SG_CAL_CANCEL", "SET_CONFIG",
                         "SET_TRIGGER_DOSE"})
ContactCommands == Kinds({"RESET", "PUSH_START", "DOSE"})
RebootCommands == Kinds({"STOP", "PUSH_START", "REBOOT"})
SetCommands    == Kinds({"UNLOAD_SYRINGE", "PUSH_START", "STOP", "SET_CONFIG"})
UnloadCommands == Kinds({"UNLOAD_SYRINGE", "PUSH_START", "STOP"})
DoseCommands   == Kinds({"DOSE"})
ManualCommands == Kinds({"PUSH_START", "STOP"})
AckCommands    == Kinds({"RESET", "DOSE"})
CalCommands    == Kinds({"PUSH_START", "STOP", "SG_CAL_START", "SG_CAL_FINISH"})
NoCommands     == {}
=============================================================================
