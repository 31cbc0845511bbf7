------------------------------ MODULE TmcRegisters ------------------------------
(* The set-up words of src/tmc5130.c and the currents of src/tmc_current.c:     *)
(* the bit fields the driver packs, the bytes it sends, and what the chip reads *)
(* out of them.  A word is the set of its bits that are one.                    *)
EXTENDS Integers, Sequences, FiniteSets

CONSTANTS Setups,           \* calls of tmc5130_configure
          Thresholds        \* int8_t thresholds StallGuard is asked for

ASSUME TmcRegistersAssumption ==
  /\ Setups \subseteq [ms : Nat, run_mA : 200..1200, hold_mA : 200..1200]
  /\ \A s \in Setups : s.hold_mA =< s.run_mA
  /\ Thresholds \subseteq -128..127

VARIABLES chip,             \* the registers, by name
          setup,            \* the last accepted call of tmc5130_configure
          sg                \* the last call of tmc5130_configure_stallguard, and its success

vars == <<chip, setup, sg>>

Bits(v, width) == {k \in 0..(width - 1) : (v \div 2^k) % 2 = 1}

(* The value of the bits from lo to hi.                                         *)
Value(word, lo, hi) ==
  LET upto[k \in (lo - 1)..hi] ==
        IF k < lo THEN 0 ELSE upto[k - 1] + (IF k \in word THEN 2^(k - lo) ELSE 0)
  IN  upto[hi]

(* The unions, least significant field first, by field width.                   *)
GconfFields == <<<<"i_scale_analog", 1>>, <<"internal_rsense", 1>>, <<"en_pwm_mode", 1>>,
  <<"enc_commutation", 1>>, <<"shaft", 1>>, <<"diag", 10>>, <<"stop_enable", 1>>,
  <<"direct_mode", 1>>, <<"test_mode", 1>>, <<"reserved_31_18", 14>>>>

CurrentFields == <<<<"ihold", 5>>, <<"reserved_7_5", 3>>, <<"irun", 5>>, <<"reserved_15_13", 3>>,
  <<"iholddelay", 4>>, <<"reserved_31_20", 12>>>>

ChopperFields == <<<<"toff", 4>>, <<"hstrt", 3>>, <<"hend", 4>>, <<"fd3", 1>>, <<"disfdcc", 1>>,
  <<"rndtf", 1>>, <<"chm", 1>>, <<"tbl", 2>>, <<"vsense", 1>>, <<"vhighfs", 1>>, <<"vhighchm", 1>>,
  <<"sync", 4>>, <<"mres", 4>>, <<"intpol", 1>>, <<"dedge", 1>>, <<"diss2g", 1>>, <<"reserved_31", 1>>>>

CoolFields == <<<<"semin", 4>>, <<"reserved_4", 1>>, <<"seup", 2>>, <<"reserved_7", 1>>, <<"semax", 4>>,
  <<"reserved_12", 1>>, <<"sedn", 2>>, <<"seimin", 1>>, <<"sgt", 7>>, <<"reserved_23", 1>>,
  <<"sfilt", 1>>, <<"reserved_31_25", 7>>>>

CoolThresholdFields == <<<<"threshold", 20>>, <<"reserved_31_20", 12>>>>

(* The word of a union whose fields are zero but those given.                   *)
Word(fields, values) ==
  LET offset[i \in 1..Len(fields)] == IF i = 1 THEN 0 ELSE offset[i - 1] + fields[i - 1][2]
  IN  UNION {{offset[i] + b : b \in Bits(values[fields[i][1]], fields[i][2])} :
               i \in {j \in 1..Len(fields) : fields[j][1] \in DOMAIN values}}

(* transfer() sends the most significant byte first; the chip shifts in a bit   *)
(* at a time.                                                                   *)
Sent(word) == [i \in 1..4 |-> {b \in 0..7 : b + 8 * (4 - i) \in word}]

Received(bytes) == UNION {{b + 8 * (4 - i) : b \in bytes[i]} : i \in 1..4}

Written(regs, register, word) == [regs EXCEPT ![register] = Received(Sent(word))]

----------------------------------------------------------------------------
(* Currents, for the reference resistor of the board: 1248 mA at full scale.    *)
FullScale == 1248

(* Faulty variant: the scale is rounded up.                                     *)
Scale_up(mA) == (32 * mA + FullScale - 1) \div FullScale - 1

(* raw + 0.5 truncated, raw being mA * 32 / full - 1 kept in 0..31.             *)
Scale(mA) ==
  LET nearest == (64 * mA - FullScale) \div (2 * FullScale)
  IN  IF 32 * mA < FullScale THEN 0 ELSE IF nearest > 31 THEN 31 ELSE nearest

Current(cs) == ((cs + 1) * FullScale + 16) \div 32

Resolutions == {2^k : k \in 0..8}

(* MRES counts the halvings from 256 microsteps.                                *)
Mres(ms) == CHOOSE m \in 0..8 : ms * 2^m = 256

----------------------------------------------------------------------------
NoRegister == [GCONF |-> {}, IHOLD_IRUN |-> {}, CHOPCONF |-> {}, COOLCONF |-> {}, TCOOLTHRS |-> {}]

NoSetup == [ms |-> 0, run_mA |-> 0, hold_mA |-> 0]

Init == chip = NoRegister /\ setup = NoSetup /\ sg = [enabled |-> FALSE, threshold |-> 0, ok |-> TRUE]

Gconf == Word(GconfFields, [internal_rsense |-> 1])
HoldRun(run, hold) == Word(CurrentFields, [ihold |-> Scale(hold), irun |-> Scale(run), iholddelay |-> 6])
Chopconf(ms) == Word(ChopperFields, [toff |-> 3, hstrt |-> 4, tbl |-> 1, mres |-> Mres(ms)])

(* Three writes, each after the success of the one before; a resolution the     *)
(* chip does not have is refused first.                                         *)
tmc5130_configure(s) ==
  /\ s.ms \in Resolutions
  /\ LET first  == Written(chip, "GCONF", Gconf)
         second == Written(first, "IHOLD_IRUN", HoldRun(s.run_mA, s.hold_mA))
         third  == Written(second, "CHOPCONF", Chopconf(s.ms))
     IN  \/ chip' = third /\ setup' = s
         \/ chip' \in {chip, first, second} /\ UNCHANGED setup
  /\ UNCHANGED sg

(* The field keeps the seven low bits of the threshold.                         *)
Coolconf(threshold) == Word(CoolFields, [sgt |-> threshold % 256])

(* The two writes in turn, or the first only, or none.                          *)
Both(reg1, word1, reg2, word2, call) ==
  LET first == Written(chip, reg1, word1)
  IN  \/ chip' = Written(first, reg2, word2) /\ sg' = [call EXCEPT !.ok = TRUE]
      \/ chip' \in {chip, first} /\ sg' = call

(* Faulty variant: clears the threshold before it turns StallGuard off.         *)
Disable_cleared == Both("COOLCONF", {}, "TCOOLTHRS", {}, [enabled |-> FALSE, threshold |-> 0, ok |-> FALSE])

Disable == Both("TCOOLTHRS", {}, "COOLCONF", {}, [enabled |-> FALSE, threshold |-> 0, ok |-> FALSE])

Enable(threshold) ==
  /\ threshold \in -64..63
  /\ Both("COOLCONF", Coolconf(threshold), "TCOOLTHRS", Word(CoolThresholdFields, [threshold |-> 2^20 - 1]),
          [enabled |-> TRUE, threshold |-> threshold, ok |-> FALSE])

tmc5130_configure_stallguard(enabled, threshold) ==
  (IF enabled THEN Enable(threshold) ELSE Disable) /\ UNCHANGED setup

----------------------------------------------------------------------------
(* What the chip takes the words for, by the positions of its data sheet.       *)
ChipMicrosteps == 256 \div 2^Value(chip.CHOPCONF, 24, 27)
ChipRun == Current(Value(chip.IHOLD_IRUN, 8, 12))
ChipHold == Current(Value(chip.IHOLD_IRUN, 0, 4))
ChipSgt == LET v == Value(chip.COOLCONF, 16, 22) IN IF v >= 64 THEN v - 128 ELSE v
ChipSgOn == Value(chip.TCOOLTHRS, 0, 19) # 0

(* What the driver was set up with is what the chip reads out of its words: it  *)
(* counts the microsteps the lengths are computed with, its chopper is on, it   *)
(* measures the current with its internal resistance and drives the configured  *)
(* currents to half a step of its scale, the hold current never above the run   *)
(* current; and the StallGuard threshold, negative ones included, arrives as it *)
(* was asked, through any order of failing and repeated calls.                  *)
SetupTaken ==
  /\ setup # NoSetup =>
       /\ ChipMicrosteps = setup.ms /\ chip.GCONF = {1}
       /\ Value(chip.CHOPCONF, 0, 3) = 3 /\ Value(chip.CHOPCONF, 15, 16) = 1
       /\ ChipRun - setup.run_mA \in -20..20 /\ ChipHold - setup.hold_mA \in -20..20
       /\ ChipHold =< ChipRun
  /\ sg.ok =>
       /\ ChipSgOn = sg.enabled
       /\ sg.enabled => ChipSgt = sg.threshold /\ Cardinality(chip.COOLCONF) =< 7

(* StallGuard is never on with the cleared threshold, whichever write fails.    *)
NeverOnCleared == ChipSgOn => chip.COOLCONF \in {Coolconf(t) : t \in Thresholds}
================================================================================
