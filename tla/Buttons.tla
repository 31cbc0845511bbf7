-------------------------------- MODULE Buttons --------------------------------
(* src/buttons.c: the debouncing of the contacts, sampled in every pass of the *)
(* motor task against a clock that wraps.                                      *)
EXTENDS Integers

CONSTANTS Contacts,         \* PUSH, PULL and DOSE
          DebounceMs,       \* BUTTON_DEBOUNCE_MS
          ClockMod,         \* 2^32 in the code
          Periods           \* milliseconds a pass may take

ASSUME ButtonsAssumption ==
  /\ DebounceMs \in Nat \ {0} /\ ClockMod \in Nat
  /\ Periods \subseteq 1..(ClockMod - DebounceMs)    \* no pass lasts for the whole clock

VARIABLES now,              \* to_ms_since_boot
          button,           \* the db_t of every contact
          held              \* history: for how long the contact has read the same

vars == <<now, button, held>>

Init == /\ now \in 0..(ClockMod - 1)       \* the clock has run since the boot
        /\ button = [b \in Contacts |-> [stable |-> FALSE, sample |-> FALSE, changed |-> 0]]
        /\ held = [b \in Contacts |-> DebounceMs]

(* Unsigned arithmetic of the clock's width.                                   *)
Plus(t, d) == IF t + d < ClockMod THEN t + d ELSE t + d - ClockMod
Since(t, changed) == IF changed =< t THEN t - changed ELSE t - changed + ClockMod

(* Faulty variant: the time of a change is compared without the wrap.          *)
Due_unwrapped(t, changed) == t >= changed + DebounceMs

Due(t, changed) == Since(t, changed) >= DebounceMs

(* Faulty variant: only the press starts the delay.                            *)
Sampled_press(d, sample, t) ==
  [d EXCEPT !.sample = sample, !.changed = IF sample /\ ~d.sample THEN t ELSE @]

Sampled(d, sample, t) ==
  [d EXCEPT !.sample = sample, !.changed = IF sample # d.sample THEN t ELSE @]

debounce(d, sample, t) ==
  LET s == Sampled(d, sample, t)
  IN  [s EXCEPT !.stable = IF Due(t, s.changed) THEN sample ELSE @]

Held(b, sample, d) ==
  IF sample # button[b].sample THEN 0 ELSE IF held[b] + d > DebounceMs THEN DebounceMs ELSE held[b] + d

(* The contacts bounce as they like between two passes.                        *)
buttons_update(samples, d) ==
  /\ now' = Plus(now, d)
  /\ button' = [b \in Contacts |-> debounce(button[b], samples[b], now')]
  /\ held' = [b \in Contacts |-> Held(b, samples[b], d)]

Next == \E samples \in [Contacts -> BOOLEAN], d \in Periods : buttons_update(samples, d)

Spec == Init /\ [][Next]_vars

----------------------------------------------------------------------------
TypeOK == /\ now \in 0..(ClockMod - 1)
          /\ button \in [Contacts -> [stable : BOOLEAN, sample : BOOLEAN, changed : 0..(ClockMod - 1)]]
          /\ held \in [Contacts -> 0..DebounceMs]

(* A contact changes for the motor task only once it has read the same in      *)
(* every pass of DebounceMs: no bounce is ever reported, neither a press nor a *)
(* release.                                                                    *)
Filtered == [][\A b \in Contacts :
                 button'[b].stable # button[b].stable => held'[b] >= DebounceMs]_vars

(* A contact that has read the same for DebounceMs is reported as it is, on    *)
(* either side of the wrap of the clock and however long it rested before.     *)
Reported == \A b \in Contacts : held[b] >= DebounceMs => button[b].stable = button[b].sample
================================================================================
