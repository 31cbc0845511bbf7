------------------------------ MODULE CommandApi ------------------------------
(* src/command_api.c: the commands a line of text stands for.                 *)
(*                                                                            *)
(* An ASCII line is its words and then its numbers; a JSON line is its fields *)
(* in order, the number of a field being what strtof reads after its colon.   *)
(* Every number is in tenths of the unit of its argument.  A parser returns   *)
(* the set of the commands it accepts: one, or none.                          *)
EXTENDS Integers, Sequences

LOCAL INSTANCE SequencesExt

Unit == 10

Words16 == {"motor_steps_per_rev", "microsteps", "motor_run_current_mA", "motor_hold_current_mA",
            "stallguard_warning_level", "stallguard_critical_level", "stallguard_filter_count"}

Words32 == {"retract_delay_ms", "manual_timeout_ms"}

Accelerations == {"a1_mm_s2", "amax_mm_s2", "dmax_mm_s2", "d1_mm_s2"}

Speeds == {"manual_speed_mm_s", "dosing_speed_mm_s", "retract_speed_mm_s"}

(* config_param_t                                                             *)
Parameters ==
  Words16 \cup Words32 \cup Accelerations \cup Speeds
  \cup {"screw_pitch_mm", "trigger_dose_mm", "retract_distance_mm", "position_min_mm",
        "position_max_mm", "stallguard_threshold", "stallguard_enabled"}

NoArguments == [kind |-> "NONE", parameter |-> "none", distance_mm |-> 0,
                speed_mm_s |-> 0, retract_mm |-> 0, value |-> 0]

----------------------------------------------------------------------------
(* ASCII, which ignores case.                                                 *)

AsciiKinds ==
  [PUSH |-> "PUSH_START", PULL |-> "PULL_START", STOP |-> "STOP", ZERO |-> "SET_ZERO",
   RESET |-> "REBOOT", BOOTSEL |-> "BOOTSEL", FAULTRESET |-> "RESET",
   FLUSH |-> "FLUSH_STATISTICS", DOSE |-> "DOSE", MOVE |-> "MOVE_RELATIVE",
   UNLOAD |-> "UNLOAD_SYRINGE", SET |-> "SET_CONFIG"]

SgCalKinds == [START |-> "SG_CAL_START", FINISH |-> "SG_CAL_FINISH", CANCEL |-> "SG_CAL_CANCEL"]

Argument(numbers, i, absent) == IF i =< Len(numbers) THEN numbers[i] ELSE absent

(* A dose has a length or none, a move has one, SGCAL has a verb, SET a       *)
(* parameter of the table and a value.                                        *)
WellFormed(words, numbers) ==
  LET cmd == words[1]
  IN  /\ cmd \in DOMAIN AsciiKinds \cup {"SGCAL"}
      /\ cmd = "DOSE"  => Argument(numbers, 1, 1) > 0
      /\ cmd = "MOVE"  => numbers # <<>>
      /\ cmd = "SGCAL" => Len(words) > 1 /\ words[2] \in DOMAIN SgCalKinds
      /\ cmd = "SET"   => Len(words) > 1 /\ words[2] \in Parameters /\ numbers # <<>>

command_parse_ascii(words, numbers) ==
  LET cmd  == words[1]
      goes == cmd \in {"DOSE", "MOVE"}
  IN  IF ~WellFormed(words, numbers) THEN {}
      ELSE {[kind        |-> IF cmd = "SGCAL" THEN SgCalKinds[words[2]] ELSE AsciiKinds[cmd],
             parameter   |-> IF cmd = "SET" THEN words[2] ELSE "none",
             distance_mm |-> IF goes THEN Argument(numbers, 1, 0) ELSE 0,
             speed_mm_s  |-> CASE goes           -> Argument(numbers, 2, 0)
                               [] cmd = "UNLOAD" -> Argument(numbers, 1, 0)
                               [] OTHER          -> 0,
             retract_mm  |-> IF cmd = "DOSE" THEN Argument(numbers, 3, -Unit) ELSE 0,
             value       |-> IF cmd = "SET" THEN numbers[1] ELSE 0]}

----------------------------------------------------------------------------
(* JSON: names are searched in the whole text, wherever they are.             *)

JsonNames ==
  << <<"push_start", "PUSH_START">>, <<"push_stop", "PUSH_STOP">>, <<"pull_start", "PULL_START">>,
     <<"pull_stop", "PULL_STOP">>, <<"stop", "STOP">>, <<"set_trigger_dose", "SET_TRIGGER_DOSE">>,
     <<"set_config", "SET_CONFIG">>, <<"flush_statistics", "FLUSH_STATISTICS">>,
     <<"unload_syringe", "UNLOAD_SYRINGE">>, <<"dose", "DOSE">>, <<"move_relative", "MOVE_RELATIVE">>,
     <<"set_zero", "SET_ZERO">>, <<"reboot", "REBOOT">>, <<"reset", "RESET">>,
     <<"sg_calibrate_start", "SG_CAL_START">>, <<"sg_calibrate_finish", "SG_CAL_FINISH">>,
     <<"sg_calibrate_cancel", "SG_CAL_CANCEL">> >>

(* strstr                                                                     *)
Occurs(name, text) ==
  \E i \in 0..(Len(text) - Len(name)) : SubSeq(text, i + 1, i + Len(name)) = name

Mentions(field, name) == Occurs(name, field.key) \/ Occurs(name, field.word)

(* Faulty variant: the names are searched from the shortest to the longest.   *)
JsonKind_shortest(fields) ==
  LET found == {n \in ToSet(JsonNames) : \E i \in DOMAIN fields : Mentions(fields[i], n[1])}
  IN  IF found = {} THEN "NONE"
      ELSE (CHOOSE n \in found : \A o \in found : Len(n[1]) =< Len(o[1]))[2]

(* The first name of the table that occurs in the text.                       *)
JsonKind(fields) ==
  LET i == SelectInSeq(JsonNames, LAMBDA n : \E j \in DOMAIN fields : Mentions(fields[j], n[1]))
  IN  IF i = 0 THEN "NONE" ELSE JsonNames[i][2]

(* The number after the colon that follows the first occurrence of a name: a  *)
(* name met in the word of a field reads the number of the next field.        *)
number(fields, name) ==
  LET i == SelectInSeq(fields, LAMBDA f : Mentions(f, name))
      j == IF i > 0 /\ ~Occurs(name, fields[i].key) THEN i + 1 ELSE i
  IN  IF j \in DOMAIN fields THEN fields[j].number ELSE 0

JsonParameter(fields) ==
  LET i == SelectInSeq(fields, LAMBDA f : f.key = "parameter")
  IN  IF i > 0 /\ fields[i].word \in Parameters THEN fields[i].word ELSE "none"

command_parse_json(fields) ==
  LET kind == JsonKind(fields)
      set  == kind = "SET_CONFIG"
  IN  IF kind = "NONE" \/ (set /\ JsonParameter(fields) = "none") THEN {}
      ELSE {[kind        |-> kind,
             parameter   |-> IF set THEN JsonParameter(fields) ELSE "none",
             distance_mm |-> number(fields, "distance_mm"),
             speed_mm_s  |-> number(fields, "speed_mm_s"),
             retract_mm  |-> number(fields, "retract_mm"),
             value       |-> number(fields, "value")]}
================================================================================
