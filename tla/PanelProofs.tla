------------------------------ MODULE PanelProofs ------------------------------
(* What the debouncing promises for every delay, clock width and set of        *)
(* contacts, and the LED task for every interleaving with the radio task.      *)
EXTENDS Panel, TLAPS

(* A contact that differs from what is reported has done so for exactly the    *)
(* time the clock tells, and that time has not reached the delay yet.          *)
Waiting(b) ==
  button[b].stable # button[b].sample =>
    held[b] < DebounceMs /\ Since(now, button[b].changed) = held[b]

DebounceInv == TypeOK /\ \A b \in Contacts : Waiting(b)

USE DEF TypeOK

(* The clock: a period later, an age has grown by the period.                  *)
LEMMA SinceFact ==
  ASSUME NEW t \in 0..(ClockMod - 1), NEW c \in 0..(ClockMod - 1), NEW d \in Periods,
         Since(t, c) < DebounceMs
  PROVE  /\ Plus(t, d) \in 0..(ClockMod - 1)
         /\ Since(Plus(t, d), c) = Since(t, c) + d
<1>1. DebounceMs \in Nat /\ ClockMod \in Nat /\ d \in 1..(ClockMod - DebounceMs)
  BY ButtonsAssumption
<1> QED
  BY <1>1 DEF Since, Plus

LEMMA PlusFact ==
  ASSUME NEW t \in 0..(ClockMod - 1), NEW d \in Periods
  PROVE  /\ Plus(t, d) \in 0..(ClockMod - 1)
         /\ Since(Plus(t, d), Plus(t, d)) = 0
<1>1. DebounceMs \in Nat /\ ClockMod \in Nat /\ d \in 1..(ClockMod - DebounceMs)
  BY ButtonsAssumption
<1> QED
  BY <1>1 DEF Since, Plus

(* One contact in one pass.                                                    *)
LEMMA PassFact ==
  ASSUME DebounceInv, NEW d \in Periods, NEW samples \in [Contacts -> BOOLEAN],
         buttons_update(samples, d), NEW b \in Contacts
  PROVE  /\ now' \in 0..(ClockMod - 1)
         /\ button'[b] \in [stable : BOOLEAN, sample : BOOLEAN, changed : 0..(ClockMod - 1)]
         /\ held'[b] \in 0..DebounceMs
         /\ Waiting(b)'
         /\ held'[b] >= DebounceMs => button'[b].stable = button'[b].sample
         /\ button'[b].stable # button[b].stable => held'[b] >= DebounceMs
<1> DEFINE old == button[b]
           new == debounce(old, samples[b], now')
<1>1. /\ DebounceMs \in Nat \ {0} /\ ClockMod \in Nat /\ d \in 1..(ClockMod - DebounceMs)
      /\ now \in 0..(ClockMod - 1) /\ held[b] \in 0..DebounceMs
      /\ old \in [stable : BOOLEAN, sample : BOOLEAN, changed : 0..(ClockMod - 1)]
      /\ samples[b] \in BOOLEAN
  BY ButtonsAssumption DEF DebounceInv
<1>2. now' = Plus(now, d) /\ button'[b] = new /\ held'[b] = Held(b, samples[b], d)
  BY DEF buttons_update
<1>3. now' \in 0..(ClockMod - 1) /\ Since(now', now') = 0
  BY <1>1, <1>2, PlusFact
<1>4. old.stable # old.sample => held[b] < DebounceMs /\ Since(now, old.changed) = held[b]
  BY DEF DebounceInv, Waiting
<1>5. CASE samples[b] # old.sample
  <2>1. held'[b] = 0
    BY <1>2, <1>5 DEF Held
  <2>2. ~Due(now', now')
    BY <1>1, <1>3 DEF Due
  <2>3. /\ new.sample = samples[b] /\ new.changed = now' /\ new.stable = old.stable
        /\ new \in [stable : BOOLEAN, sample : BOOLEAN, changed : 0..(ClockMod - 1)]
    BY <2>2, <1>1, <1>3, <1>5 DEF debounce, Sampled
  <2> HIDE DEF new, old
  <2> QED
    BY <2>1, <2>3, <1>1, <1>2, <1>3 DEF Waiting, old
<1>6. CASE samples[b] = old.sample /\ old.stable = old.sample
  <2>1. new.stable = samples[b] /\ new.sample = samples[b] /\ new.changed = old.changed
    BY <1>1, <1>6 DEF debounce, Sampled
  <2>2. new \in [stable : BOOLEAN, sample : BOOLEAN, changed : 0..(ClockMod - 1)]
    BY <1>1, <1>3 DEF debounce, Sampled
  <2>3. held'[b] \in 0..DebounceMs
    BY <1>1, <1>2 DEF Held
  <2> QED
    BY <2>1, <2>2, <2>3, <1>1, <1>2, <1>3, <1>6 DEF Waiting
<1>7. CASE samples[b] = old.sample /\ old.stable # old.sample
  <2>1. Since(now', old.changed) = held[b] + d
    BY <1>1, <1>2, <1>4, <1>7, SinceFact
  <2>2. Due(now', old.changed) <=> held[b] + d >= DebounceMs
    BY <2>1 DEF Due
  <2>3. held'[b] = IF held[b] + d > DebounceMs THEN DebounceMs ELSE held[b] + d
    BY <1>2, <1>7 DEF Held
  <2>4. /\ new.sample = samples[b] /\ new.changed = old.changed
        /\ new.stable = IF Due(now', old.changed) THEN samples[b] ELSE old.stable
        /\ new \in [stable : BOOLEAN, sample : BOOLEAN, changed : 0..(ClockMod - 1)]
    BY <1>1, <1>3, <1>7 DEF debounce, Sampled
  <2> HIDE DEF new, old
  <2>5. held'[b] \in 0..DebounceMs
    BY <2>3, <1>1
  <2>6. CASE held[b] + d >= DebounceMs
    <3>1. new.stable = samples[b] /\ held'[b] >= DebounceMs
      BY <2>2, <2>3, <2>4, <2>6, <1>1
    <3> QED
      BY <3>1, <2>4, <2>5, <1>2, <1>3 DEF Waiting
  <2>7. CASE ~(held[b] + d >= DebounceMs)
    <3>1. new.stable = old.stable /\ held'[b] = held[b] + d /\ held'[b] < DebounceMs
      BY <2>2, <2>3, <2>4, <2>7, <1>1
    <3> QED
      BY <3>1, <2>1, <2>4, <2>5, <1>1, <1>2, <1>3 DEF Waiting, old
  <2> QED
    BY <2>6, <2>7
<1> QED
  BY <1>1, <1>5, <1>6, <1>7

(* Init establishes the invariant and a pass keeps it.                         *)
LEMMA DebounceInvariant == Spec => []DebounceInv
<1>1. Init => DebounceInv
  <2> SUFFICES ASSUME Init PROVE DebounceInv
    OBVIOUS
  <2>1. DebounceMs \in 0..DebounceMs /\ now \in 0..(ClockMod - 1) /\ 0 \in 0..(ClockMod - 1)
    BY ButtonsAssumption DEF Init
  <2> QED
    BY <2>1 DEF Init, DebounceInv, Waiting
<1>2. DebounceInv /\ [Next]_vars => DebounceInv'
  <2> SUFFICES ASSUME DebounceInv, [Next]_vars PROVE DebounceInv'
    OBVIOUS
  <2>1. CASE UNCHANGED vars
    BY <2>1 DEF DebounceInv, Waiting, Since, vars
  <2>2. ASSUME NEW samples \in [Contacts -> BOOLEAN], NEW d \in Periods, buttons_update(samples, d)
        PROVE  DebounceInv'
    <3>1. /\ button' = [b \in Contacts |-> button'[b]]
          /\ held' = [b \in Contacts |-> held'[b]]
      BY <2>2 DEF buttons_update
    <3>2. \A b \in Contacts :
             /\ button'[b] \in [stable : BOOLEAN, sample : BOOLEAN, changed : 0..(ClockMod - 1)]
             /\ held'[b] \in 0..DebounceMs /\ Waiting(b)'
      BY <2>2, PassFact
    <3>3. now' \in 0..(ClockMod - 1)
      BY <2>2, PlusFact DEF buttons_update, DebounceInv
    <3> QED
      BY <3>1, <3>2, <3>3 DEF DebounceInv
  <2> QED
    BY <2>1, <2>2 DEF Next
<1> QED
  BY <1>1, <1>2, PTL DEF Spec

(* Every contact that has read the same for the delay is reported as it is,    *)
(* whatever the clock shows.                                                   *)
THEOREM ContactsReported == Spec => []Reported
<1>1. DebounceInv => Reported
  BY ButtonsAssumption DEF DebounceInv, Waiting, Reported
<1> QED
  BY <1>1, DebounceInvariant, PTL

(* No bounce is ever reported.                                                 *)
THEOREM BouncesFiltered == Spec => Filtered
<1>1. DebounceInv /\ [Next]_vars =>
        [\A b \in Contacts : button'[b].stable # button[b].stable => held'[b] >= DebounceMs]_vars
  BY PassFact DEF Next
<1> QED
  BY <1>1, DebounceInvariant, PTL DEF Spec, Filtered

-------------------------------------------------------------------------------
(* Between updates the LED is what level says, from before the radio is up: an *)
(* init that found it lit is remembered as a race until it is written again.   *)
LedInv ==
  /\ LedTypeOK
  /\ moving => available /\ level
  /\ ~available => ~level /\ update = "idle"
  /\ init = "called" => ~available
  /\ init # "done" => ~raced
  /\ update = "idle" /\ ~raced => led = level

LEMMA AgedFact == ASSUME NEW a \in 0..SlowMs, a = age PROVE Aged \in 0..SlowMs
  BY StatusLedAssumption DEF Aged

LEMMA LedStep == LedInv /\ [LedNext]_ledvars => LedInv'
<1> SUFFICES ASSUME LedInv, [LedNext]_ledvars PROVE LedInv'
  OBVIOUS
<1> USE DEF LedInv, LedTypeOK, statics
<1>1. CASE RadioReady
  BY <1>1 DEF RadioReady
<1>2. CASE RadioFailed
  BY <1>2 DEF RadioFailed
<1>3. CASE RadioPut
  BY <1>3 DEF RadioPut
<1>4. ASSUME NEW c \in BOOLEAN, NEW m \in BOOLEAN, Update(c, m) PROVE LedInv'
  <2>0. 0 \in 0..SlowMs /\ Aged \in 0..SlowMs
    BY StatusLedAssumption, AgedFact
  <2>1. CASE ~available
    BY <1>4, <2>0, <2>1 DEF Update
  <2>2. CASE available /\ Lit(m)
    BY <1>4, <2>0, <2>2 DEF Update, Lit
  <2>3. CASE available /\ Rested(c, m)
    BY <1>4, <2>0, <2>3 DEF Update, Rested
  <2>4. CASE available /\ Blinks(c, m)
    BY <1>4, <2>0, <2>4 DEF Update, Blinks
  <2> QED BY <1>4, <2>1, <2>2, <2>3, <2>4 DEF Update
<1>5. CASE UpdatePut
  BY <1>5 DEF UpdatePut
<1>6. CASE UNCHANGED ledvars
  BY <1>6 DEF ledvars
<1> QED BY <1>1, <1>2, <1>3, <1>4, <1>5, <1>6 DEF LedNext

(* The LED shows every movement an update has seen, wherever status_led_init   *)
(* of the radio task comes between the steps of the LED task, unless it came   *)
(* while the LED was lit and no update has written the LED since.              *)
THEOREM MovementsLit == PanelSpec => []LedLit
<1>1. PanelInit => LedInv
  <2>1. 0 \in 0..SlowMs
    BY StatusLedAssumption
  <2>2. LedInit => LedTypeOK
    BY <2>1 DEF LedInit, LedTypeOK
  <2>3. LedInit => LedInv
    BY <2>2 DEF LedInit, LedInv
  <2> QED BY <2>3 DEF PanelInit
<1>2. LedInv /\ [PanelNext]_<<vars, ledvars>> => LedInv'
  BY LedStep DEF PanelNext
<1>3. LedInv => LedLit
  BY DEF LedInv, LedLit
<1> QED BY <1>1, <1>2, <1>3, PTL DEF PanelSpec
================================================================================
