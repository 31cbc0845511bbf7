----------------------------- MODULE SgCalibration -----------------------------
(* src/stallguard_calibration.c: the load measured over a manual motion and    *)
(* the StallGuard thresholds derived from it.                                  *)
EXTENDS Naturals

CONSTANTS Readings,         \* SG_RESULT values
          MinSamples,       \* 100 in the code
          MaxSamples,       \* bound on the samples taken
          SumMod            \* 2^32 in the code

SgMax == 1023

ASSUME SgCalibrationAssumption ==
  /\ Readings \subseteq Nat
  /\ MinSamples \in Nat \ {0} /\ MaxSamples \in Nat
  /\ SumMod \in Nat /\ SgMax * MaxSamples < SumMod

VARIABLES active, sum, samples, minimum, maximum,   \* sg_calibration_t
          thresholds,       \* the last result, Unset before one
          finished          \* the measurement just ended

cal == <<active, sum, samples, minimum, maximum>>
calvars == <<cal, thresholds, finished>>

Unset == [baseline |-> 0, warning |-> 0, critical |-> 0]

CalInit == /\ active = FALSE /\ sum = 0 /\ samples = 0 /\ minimum = 0 /\ maximum = 0
        /\ thresholds = Unset /\ finished = FALSE

(* Faulty variant: the sum of the measurement before is kept.                  *)
sg_calibration_start_kept ==
  /\ active' = TRUE /\ samples' = 0 /\ minimum' = SgMax /\ maximum' = 0
  /\ finished' = FALSE /\ UNCHANGED <<sum, thresholds>>

sg_calibration_start ==
  /\ active' = TRUE /\ sum' = 0 /\ samples' = 0 /\ minimum' = SgMax /\ maximum' = 0
  /\ finished' = FALSE /\ UNCHANGED thresholds

Counts(v) == active /\ v =< SgMax

sg_calibration_add(v) ==
  /\ Counts(v) /\ samples < MaxSamples
  /\ sum' = (sum + v) % SumMod /\ samples' = samples + 1
  /\ minimum' = IF v < minimum THEN v ELSE minimum
  /\ maximum' = IF v > maximum THEN v ELSE maximum
  /\ finished' = FALSE /\ UNCHANGED <<active, thresholds>>

Average == sum \div samples

Usable == active /\ samples >= MinSamples /\ Average >= 40

LevelsOf(avg) == [baseline |-> avg, warning |-> (avg * 70) \div 100, critical |-> (avg * 50) \div 100]

(* A measurement that is too short or too light is refused and stays open.     *)
sg_calibration_finish ==
  /\ Usable
  /\ active' = FALSE /\ thresholds' = LevelsOf(Average) /\ finished' = TRUE
  /\ UNCHANGED <<sum, samples, minimum, maximum>>

(* SGCAL CANCEL.                                                               *)
Cancel == active' = FALSE /\ finished' = FALSE /\ UNCHANGED <<sum, samples, minimum, maximum, thresholds>>

----------------------------------------------------------------------------
CalTypeOK == /\ {active, finished} \subseteq BOOLEAN
          /\ samples \in 0..MaxSamples /\ sum \in 0..(SumMod - 1)
          /\ minimum \in 0..SgMax /\ maximum \in 0..SgMax
          /\ thresholds \in [baseline : 0..SgMax, warning : 0..SgMax, critical : 0..SgMax]

(* Every result has its three levels distinct, in order and not zero, as       *)
(* device_config_validate asks of those it arms.  (It asks for a filter count  *)
(* too, which a calibration does not set.)                                     *)
(* And it was measured: the baseline lies between the extreme readings, the    *)
(* sum of the longest measurement does not overflow.                           *)
CalibrationSound ==
  /\ thresholds # Unset => /\ 0 < thresholds.critical
                           /\ thresholds.critical < thresholds.warning
                           /\ thresholds.warning < thresholds.baseline
  /\ finished => minimum =< thresholds.baseline /\ thresholds.baseline =< maximum
================================================================================
