------------------------------ MODULE MCSettings ------------------------------
(* Instances of Settings for TLC.                                             *)
EXTENDS Settings

Ascii(words, numbers) == [form |-> "ascii", words |-> words, numbers |-> numbers]
Json(fields) == [form |-> "json", fields |-> fields]
Word(key, word) == [key |-> key, word |-> word, number |-> 0]
Num(key, n) == [key |-> key, word |-> "", number |-> n]
SetJson(parameter, n) == Json(<<Word("command", "set_config"), Word("parameter", parameter), Num("value", n)>>)

(* Two resolutions, of which the finer does not fit the ramp with the higher  *)
(* deceleration, and two doses.                                               *)
Config(m, d, t) == [Defaults EXCEPT !.microsteps = m, !.dmax_mm_s2 = d, !.trigger_dose_mm = t]

Settable == {Config(m, d, t) : m \in {16, 256}, d \in {1000, 3000}, t \in {8, 15}}

(* A version 5 record may hold settings this version refuses.                 *)
Refused == Config(16, 1000, 0)

MCValues == Settable \cup {Refused}
MCValid == {v \in MCValues : device_config_validate(v)}

Written(kind, v) == {[kind |-> kind, sequence |-> n, value |-> v] : n \in 0..1}

Shipped == Written("v5", Defaults) \cup Written("v5", Refused) \cup Written("v6", Defaults)

(* A device as it comes into service: no record, or one or two saved ones.    *)
InitService == /\ flash \in [{0, 1} -> {Empty} \cup Shipped] /\ Placed(flash)
               /\ config = Load(flash).value /\ call = "idle" /\ record = Empty
               /\ queue = <<>> /\ executing = {}

ServiceSpec == InitService /\ [][NextSettings]_<<vars, application>>

SetLines ==
  {Ascii(<<"SET", "microsteps">>, <<n>>) : n \in {160, 2560, 655520, 165}}
  \cup {Ascii(<<"SET", "dmax_mm_s2">>, <<n>>) : n \in {1000, 3000, 3010}}
  \cup {Ascii(<<"SET", "stallguard_threshold">>, <<2560>>), Ascii(<<"SET", "stallguard_enabled">>, <<10>>),
        Ascii(<<"SET", "manual_timeout_ms">>, <<5>>), Ascii(<<"SET">>, <<>>), Ascii(<<"SET", "speed">>, <<10>>)}
  \cup {SetJson("dmax_mm_s2", 3000), SetJson("trigger_dose_mm", 15), SetJson("speed", 15),
        Json(<<Num("value", 8), Word("parameter", "trigger_dose_mm"), Word("command", "set_config")>>),
        Json(<<Word("command", "set_trigger_dose"), Num("distance_mm", 15)>>),
        Json(<<Word("command", "set_trigger_dose"), Num("distance_mm", 1010)>>)}

OtherLines ==
  {Ascii(<<w>>, <<>>) : w \in {"PUSH", "STOP", "ZERO", "RESET", "BOOTSEL", "FAULTRESET", "FLUSH", "DOSE", "MOVE"}}
  \cup {Ascii(<<"DOSE">>, <<8, 40, 1>>), Ascii(<<"DOSE">>, <<-8>>), Ascii(<<"MOVE">>, <<-15, 30>>),
        Ascii(<<"UNLOAD">>, <<30>>), Ascii(<<"SGCAL", "START">>, <<>>), Ascii(<<"SGCAL">>, <<>>)}
  \cup {Json(<<Word("command", n[1])>>) : n \in {JsonNames[i] : i \in DOMAIN JsonNames} \ {<<"set_config", "SET_CONFIG">>}}
  \cup {Json(<<Word("command", "dose"), Num("speed_mm_s", 50), Num("distance_mm", 8), Num("retract_mm", 1)>>),
        Json(<<Word("command", "unload_syringe"), Num("speed_mm_s", 30)>>),
        Json(<<Word("command", "move_relative"), Num("distance_mm", -8)>>),
        Json(<<Word("command", "home")>>)}

MCLines == SetLines \cup OtherLines
================================================================================
