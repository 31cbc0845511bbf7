------------------------------- MODULE StatusLed -------------------------------
(* src/status_led.c: the LED task updates the LED while the radio task, on the *)
(* other core, reports that the LED can be driven.  The two share the statics  *)
(* of the file without protection; each call is split where it drives the LED. *)
EXTENDS Naturals

CONSTANTS SlowMs, FastMs,   \* the intervals: 500 and 100 in the code
          Period            \* the LED task's: 25 in the code

ASSUME StatusLedAssumption ==
  /\ FastMs \in Nat \ {0} /\ SlowMs \in Nat /\ FastMs =< SlowMs
  /\ Period \in 1..FastMs

VARIABLES available, level, \* the statics of the file
          age,              \* now - changed_ms
          led,              \* the LED itself
          init,             \* where status_led_init(radio_ready) is
          update,           \* where status_led_update is
          connected, moving,    \* what the last update showed
          raced             \* history: init turned off an LED that level says is
                            \* lit, and no update has written it since

statics == <<available, level, age>>
ledvars == <<statics, led, init, update, connected, moving, raced>>

(* After status_led_init(false) in app_tasks_start.                            *)
LedInit == /\ available = FALSE /\ level = FALSE /\ age = 0 /\ led = FALSE
        /\ init = "called" /\ update = "idle"
        /\ connected = FALSE /\ moving = FALSE /\ raced = FALSE

(* The radio task: available, then the LED off; nothing if the radio failed.   *)
RadioReady == /\ init = "called" /\ init' = "put"
              /\ available' = TRUE
              /\ UNCHANGED <<level, age, led, update, connected, moving, raced>>

RadioFailed == /\ init = "called" /\ init' = "done"
               /\ UNCHANGED <<statics, led, update, connected, moving, raced>>

RadioPut == /\ init = "put" /\ init' = "done"
            /\ led' = FALSE
            /\ raced' = level
            /\ UNCHANGED <<statics, update, connected, moving>>

Interval(c) == IF c THEN FastMs ELSE SlowMs

(* Ages beyond the longer interval are alike.                                  *)
Aged == IF age + Period > SlowMs THEN SlowMs ELSE age + Period

(* Faulty variant: the level is not compared with the movement.                *)
Lit_unchanged(m) == m /\ level' = level /\ age' = 0 /\ update' = "idle"

(* A movement lights the LED, unless it is lit already.                        *)
Lit(m) == /\ m /\ level' = TRUE /\ age' = 0
          /\ update' = IF level THEN "idle" ELSE "put"

(* Faulty variant: the interval restarts although the level has not changed.   *)
Rested_restarted(c, m) == ~m /\ Aged < Interval(c) /\ age' = 0 /\ update' = "idle" /\ UNCHANGED level

Rested(c, m) == ~m /\ Aged < Interval(c) /\ age' = Aged /\ update' = "idle" /\ UNCHANGED level

Blinks(c, m) == ~m /\ Aged >= Interval(c) /\ age' = 0 /\ update' = "put" /\ level' = ~level

(* The LED task, every Period; nothing before the LED is available.            *)
Update(c, m) ==
  /\ update = "idle" /\ connected' = c /\ moving' = (available /\ m)
  /\ IF available THEN Lit(m) \/ Rested(c, m) \/ Blinks(c, m)
                  ELSE age' = Aged /\ UNCHANGED <<level, update>>
  /\ UNCHANGED <<available, led, init, raced>>

UpdatePut == /\ update = "put" /\ update' = "idle"
             /\ led' = level /\ raced' = FALSE
             /\ UNCHANGED <<statics, init, connected, moving>>

LedNext == \/ RadioReady \/ RadioFailed \/ RadioPut
        \/ \E c, m \in BOOLEAN : Update(c, m)
        \/ UpdatePut

LedSpec == LedInit /\ [][LedNext]_ledvars

(* Both tasks run; the LED task never ends.                                    *)
LedFairness == /\ WF_ledvars(RadioReady \/ RadioFailed \/ RadioPut)
               /\ WF_ledvars((\E c, m \in BOOLEAN : Update(c, m)) \/ UpdatePut)

----------------------------------------------------------------------------
LedTypeOK == /\ {available, level, led, connected, moving, raced} \subseteq BOOLEAN
             /\ age \in 0..SlowMs
             /\ init \in {"called", "put", "done"} /\ update \in {"idle", "put"}

(* The LED shows a movement in every period that saw one, unless the radio     *)
(* task has turned it off while it was lit: then the movement under way stays  *)
(* dark, and the first update that writes the LED again ends the exception.    *)
LedLit == update = "idle" /\ moving /\ ~raced => led

(* At rest the LED keeps blinking once the radio is up.                        *)
LedAlive == []<>(led \/ moving \/ ~available) /\ []<>(~led \/ moving \/ ~available)

----------------------------------------------------------------------------
(* docs/hardware.md:56-57: the LED stays lit during a movement.                *)
LedLitAlways == update = "idle" /\ moving => led
================================================================================
