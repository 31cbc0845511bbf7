------------------------------- MODULE Settings -------------------------------
(* The way of a setting from a line of text to the flash and to the next boot: *)
(* the line is parsed and queued by the task of its interface, executed by the *)
(* motor task, checked three times, saved flash call by flash call, and loaded *)
(* when the firmware restarts, which it may do at any point.                   *)
(*                                                                             *)
(* The mailbox and the races of the queue are in CommandPath; a calibration,   *)
(* which saves settings too, is in Dispenser.                                  *)
EXTENDS ConfigStore, DeviceConfig

LOCAL INSTANCE SequencesExt

CONSTANTS Lines,          \* the lines the clients send
          QueueLength     \* COMMAND_QUEUE_LENGTH

ASSUME SettingsAssumption ==
  /\ QueueLength \in Nat \ {0}
  /\ Values \subseteq [DOMAIN Defaults -> Int] /\ \A v \in Valid : device_config_validate(v)

VARIABLES queue,          \* the commands, each with its line and its interface
          executing       \* the ones the motor task is saving: one or none

application == <<queue, executing>>

InitSettings == Init /\ queue = <<>> /\ executing = {}

Parsed == [line \in Lines |-> IF line.form = "json" THEN command_parse_json(line.fields)
                              ELSE command_parse_ascii(line.words, line.numbers)]

(* usb_command_task takes both forms, uart_command ASCII only.  A STOP empties *)
(* the queue; any other command needs a place in it.                           *)
ReadLine(line, from) ==
  /\ line.form = "json" => from = "usb"
  /\ \E c \in Parsed[line] :
       LET entry == [command |-> c, line |-> line, from |-> from]
       IN  IF c.kind = "STOP" THEN queue' = <<entry>>
           ELSE Len(queue) < QueueLength /\ queue' = Append(queue, entry)
  /\ UNCHANGED <<vars, executing>>

(* The parameter and the value a command asks for, if it sets one.             *)
Asked(c) == CASE c.kind = "SET_CONFIG"       -> {<<c.parameter, c.value>>}
              [] c.kind = "SET_TRIGGER_DOSE" -> {<<"trigger_dose_mm", d>> :
                                                   d \in {c.distance_mm} \cap 1..(100 * Unit)}
              [] OTHER                       -> {}

Applied(c) == {a \in Asked(c) : Applicable(config, a[1], a[2])}

(* execute: a change that passes the checks is saved, the rest leaves the      *)
(* settings alone.                                                             *)
Execute ==
  /\ call = "idle" /\ queue # <<>> /\ queue' = Tail(queue)
  /\ \/ /\ executing' = {Head(queue)}
        /\ \E a \in Applied(Head(queue).command) : Save(Next_config(config, a[1], a[2]))
     \/ Applied(Head(queue).command) = {} /\ UNCHANGED <<vars, executing>>

(* apply_config_value returns, the settings adopted or not.                    *)
Returned == (TimedOut \/ Program) /\ executing' = {} /\ UNCHANGED queue

Flash == (Erase \/ FactoryReset \/ Wipe(0, "wipe_a", "wipe_b") \/ Wipe(1, "wipe_b", "reboot"))
         /\ UNCHANGED application

Reboot == Restart /\ queue' = <<>> /\ executing' = {}

NextSettings == \/ \E line \in Lines, from \in {"usb", "ble"} : ReadLine(line, from)
                \/ Execute \/ Returned \/ Flash \/ Reboot

SettingsSpec == InitSettings /\ [][NextSettings]_<<vars, application>>

----------------------------------------------------------------------------
(* Properties.                                                                 *)

FieldOf(line, key) == CHOOSE f \in ToSet(line.fields) : f.key = key

HasField(line, key) == \E f \in ToSet(line.fields) : f.key = key

NumberOf(line, key) == IF HasField(line, key) THEN FieldOf(line, key).number ELSE 0

(* A JSON command is the one its "command" names, with the parameter and the   *)
(* numbers of their own keys: the search of the names in the whole text is     *)
(* misled neither by a name inside another nor by the parameter's.             *)
CommandOfItsLine ==
  \A e \in ToSet(queue) : e.line.form = "json" =>
    LET c == e.command
    IN  /\ <<FieldOf(e.line, "command").word, c.kind>> \in ToSet(JsonNames)
        /\ c.kind = "SET_CONFIG" => /\ c.parameter = FieldOf(e.line, "parameter").word
                                    /\ c.value = NumberOf(e.line, "value")
        /\ c.kind \in {"DOSE", "MOVE_RELATIVE", "SET_TRIGGER_DOSE"} =>
             c.distance_mm = NumberOf(e.line, "distance_mm")
        /\ c.kind \in {"DOSE", "MOVE_RELATIVE", "UNLOAD_SYRINGE"} =>
             c.speed_mm_s = NumberOf(e.line, "speed_mm_s")
        /\ c.kind = "DOSE" => c.retract_mm = NumberOf(e.line, "retract_mm")

WholeParameters == Words16 \cup Words32 \cup {"stallguard_threshold", "stallguard_enabled"}

(* The parameter and the number a line gives, as its author reads them.        *)
Meant(line) ==
  IF line.form = "ascii" THEN <<line.words[2], line.numbers[1]>>
  ELSE IF HasField(line, "parameter") THEN <<FieldOf(line, "parameter").word, NumberOf(line, "value")>>
  ELSE <<"trigger_dose_mm", NumberOf(line, "distance_mm")>>

(* A line that takes effect changes the parameter it names to the number it    *)
(* gives, and no other: nothing is narrowed, truncated or taken from another   *)
(* line on the way through parser, queue, conversion and flash.                *)
SetExact ==
  [][config' # config => \A e \in executing :
       LET p == Meant(e.line)[1]
           n == Meant(e.line)[2]
       IN  /\ config' = [config EXCEPT ![p] = config'[p]]
           /\ config'[p] * (IF p \in WholeParameters THEN Unit ELSE 1) = n]_<<vars, application>>

(* What motor_init and motor_configure_stallguard refuse, the firmware faults  *)
(* on at every boot.                                                           *)
Bootable(c) == motor_config_valid(c) /\ c.stallguard_threshold \in -64..63

(* No sequence of changes, each accepted on its own, and no cut of a save make *)
(* the settings a restart would load ones the driver refuses.                  *)
RestartsReady == Bootable(Load(flash).value)

(* docs/communications.md:195: BOOTSEL is reserved to the local USB port.      *)
BootselUsbOnly == \A e \in ToSet(queue) : e.command.kind = "BOOTSEL" => e.from = "usb"
================================================================================
