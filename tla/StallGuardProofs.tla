---------------------------- MODULE StallGuardProofs ----------------------------
(* The calibration and the register words of the StallGuard module: what a      *)
(* measurement promises for every set of readings, what the chip reads out of   *)
(* the words the driver packs, and that it keeps reading it through failures.   *)
EXTENDS StallGuard, WellFoundedInduction, FiniteSetTheorems, TLAPS

(* A sum of n numbers between lo and hi.                                        *)
Between(lo, hi, n, s) == lo * n =< s /\ s =< hi * n

Ordered(t) == 0 < t.critical /\ t.critical < t.warning /\ t.warning < t.baseline

(* The sum lies between the extremes, and what was derived last is in order.    *)
MeasureInv ==
  /\ CalTypeOK
  /\ Between(minimum, maximum, samples, sum)
  /\ thresholds # Unset => Ordered(thresholds)
  /\ finished => samples > 0 /\ thresholds.baseline = sum \div samples

Levels == [baseline : 0..SgMax, warning : 0..SgMax, critical : 0..SgMax]

LEMMA CalTypes ==
  CalTypeOK <=> /\ active \in BOOLEAN /\ finished \in BOOLEAN
                /\ samples \in 0..MaxSamples /\ sum \in 0..(SumMod - 1)
                /\ minimum \in 0..SgMax /\ maximum \in 0..SgMax /\ thresholds \in Levels
  BY DEF CalTypeOK, Levels

LEMMA CalTypesPrime ==
  CalTypeOK' <=> /\ active' \in BOOLEAN /\ finished' \in BOOLEAN
                 /\ samples' \in 0..MaxSamples /\ sum' \in 0..(SumMod - 1)
                 /\ minimum' \in 0..SgMax /\ maximum' \in 0..SgMax /\ thresholds' \in Levels
  BY DEF CalTypeOK, Levels

(* One more number; the sum of a longest measurement; the average.              *)
LEMMA SumFact ==
  ASSUME NEW lo \in Nat, NEW hi \in Nat, NEW n \in Nat, NEW s \in Nat, Between(lo, hi, n, s),
         NEW v \in Nat, NEW low \in Nat, NEW high \in Nat,
         low =< lo, low =< v, hi =< high, v =< high
  PROVE  Between(low, high, n + 1, s + v)
<1>1. low * n =< lo * n /\ hi * n =< high * n
  OBVIOUS
<1>2. /\ low * (n + 1) = low * n + low /\ high * (n + 1) = high * n + high
      /\ low * n \in Nat /\ lo * n \in Nat /\ hi * n \in Nat /\ high * n \in Nat
  OBVIOUS
<1> QED BY <1>1, <1>2 DEF Between

LEMMA LongestFact ==
  ASSUME NEW lo \in Nat, NEW hi \in Nat, NEW n \in Nat, NEW s \in Nat, Between(lo, hi, n, s),
         NEW m \in Nat, hi =< SgMax, n =< m
  PROVE  s =< SgMax * m
<1>1. hi * n =< SgMax * n /\ SgMax * n =< SgMax * m
  BY DEF SgMax
<1>2. hi * n \in Nat /\ SgMax * n \in Nat /\ SgMax * m \in Nat
  BY DEF SgMax
<1> QED BY <1>1, <1>2 DEF Between

LEMMA MeanFact ==
  ASSUME NEW lo \in Nat, NEW hi \in Nat, NEW n \in Nat \ {0}, NEW s \in Nat, Between(lo, hi, n, s)
  PROVE  s \div n \in Nat /\ lo =< s \div n /\ s \div n =< hi
  BY DEF Between

LEMMA Widths == MaxSamples \in Nat /\ SumMod \in Nat \ {0} /\ SgMax * MaxSamples < SumMod
<1>1. SgMax * MaxSamples \in Nat
  BY SgCalibrationAssumption DEF SgMax
<1> QED BY <1>1, SgCalibrationAssumption

(* An average of 40 is enough for three distinct levels.                        *)
LEMMA LevelsFact ==
  ASSUME NEW avg \in 0..SgMax, avg >= 40
  PROVE  LevelsOf(avg) \in Levels /\ Ordered(LevelsOf(avg)) /\ LevelsOf(avg).baseline = avg
<1>1. /\ (avg * 70) \div 100 \in 0..SgMax /\ (avg * 50) \div 100 \in 0..SgMax
      /\ 0 < (avg * 50) \div 100 /\ (avg * 50) \div 100 < (avg * 70) \div 100
      /\ (avg * 70) \div 100 < avg
  BY DEF SgMax
<1> QED BY <1>1 DEF LevelsOf, Levels, Ordered

(* Each step of a calibration.                                                  *)
LEMMA StartKeeps == MeasureInv /\ sg_calibration_start => MeasureInv'
<1> SUFFICES ASSUME MeasureInv, sg_calibration_start PROVE MeasureInv'
  OBVIOUS
<1>0. thresholds \in Levels /\ SgMax \in Nat
  BY CalTypes DEF MeasureInv, SgMax
<1>1. /\ active' = TRUE /\ sum' = 0 /\ samples' = 0 /\ minimum' = SgMax /\ maximum' = 0
      /\ finished' = FALSE /\ thresholds' = thresholds
  BY DEF sg_calibration_start
<1>2. /\ sum' \in 0..(SumMod - 1) /\ samples' \in 0..MaxSamples
      /\ minimum' \in 0..SgMax /\ maximum' \in 0..SgMax
  BY <1>0, <1>1, Widths
<1>3. CalTypeOK'
  BY <1>0, <1>1, <1>2, CalTypesPrime
<1>4. Between(SgMax, 0, 0, 0)
  BY DEF Between, SgMax
<1> QED BY <1>1, <1>3, <1>4 DEF MeasureInv

LEMMA AddKeeps ==
  ASSUME MeasureInv, NEW v \in Readings, sg_calibration_add(v)
  PROVE  MeasureInv'
<1>0. /\ active \in BOOLEAN /\ thresholds \in Levels
      /\ samples \in Nat /\ sum \in Nat /\ minimum \in 0..SgMax /\ maximum \in 0..SgMax
      /\ Between(minimum, maximum, samples, sum) /\ v \in Nat /\ SgMax \in Nat
  BY CalTypes, SgCalibrationAssumption DEF MeasureInv, SgMax
<1>1. /\ v =< SgMax /\ samples < MaxSamples
      /\ sum' = (sum + v) % SumMod /\ samples' = samples + 1
      /\ minimum' = (IF v < minimum THEN v ELSE minimum)
      /\ maximum' = (IF v > maximum THEN v ELSE maximum)
      /\ finished' = FALSE /\ active' = active /\ thresholds' = thresholds
  BY DEF sg_calibration_add, Counts
<1>2. /\ minimum' \in Nat /\ minimum' =< minimum /\ minimum' =< v
      /\ maximum' \in Nat /\ maximum =< maximum' /\ v =< maximum' /\ maximum' =< SgMax
  BY <1>0, <1>1
<1>3. Between(minimum', maximum', samples + 1, sum + v)
  <2>1. minimum \in Nat /\ maximum \in Nat
    BY <1>0
  <2> QED BY <1>0, <1>2, <2>1, SumFact
<1>4. sum + v =< SgMax * MaxSamples
  <2>1. samples + 1 =< MaxSamples /\ samples + 1 \in Nat /\ sum + v \in Nat
    BY <1>0, <1>1, Widths
  <2> QED BY <1>2, <1>3, <2>1, LongestFact, Widths
<1>5. sum' = sum + v /\ sum' \in 0..(SumMod - 1)
  <2>1. SgMax * MaxSamples \in Nat
    BY <1>0, Widths
  <2>2. sum + v \in 0..(SumMod - 1)
    BY <1>0, <1>4, <2>1, Widths
  <2> QED BY <1>1, <2>2, Widths
<1>6. samples' \in 0..MaxSamples /\ minimum' \in 0..SgMax /\ maximum' \in 0..SgMax
  BY <1>0, <1>1, <1>2, Widths
<1>7. CalTypeOK'
  BY <1>0, <1>1, <1>5, <1>6, CalTypesPrime
<1> QED BY <1>0, <1>1, <1>3, <1>5, <1>7 DEF MeasureInv

LEMMA FinishKeeps == MeasureInv /\ sg_calibration_finish => MeasureInv'
<1> SUFFICES ASSUME MeasureInv, sg_calibration_finish PROVE MeasureInv'
  OBVIOUS
<1>0. /\ samples \in 0..MaxSamples /\ sum \in 0..(SumMod - 1) /\ minimum \in 0..SgMax /\ maximum \in 0..SgMax
      /\ Between(minimum, maximum, samples, sum) /\ SgMax \in Nat /\ MinSamples \in Nat \ {0}
  BY CalTypes, SgCalibrationAssumption DEF MeasureInv, SgMax
<1>1. /\ active' = FALSE /\ thresholds' = LevelsOf(Average) /\ finished' = TRUE
      /\ UNCHANGED <<sum, samples, minimum, maximum>> /\ samples >= MinSamples /\ Average >= 40
  BY DEF sg_calibration_finish, Usable
<1>2. samples \in Nat \ {0} /\ sum \in Nat /\ minimum \in Nat /\ maximum \in Nat /\ maximum =< SgMax
  BY <1>0, <1>1
<1>3. Average \in 0..SgMax
  <2>1. sum \div samples \in Nat /\ sum \div samples =< maximum
    BY <1>0, <1>2, MeanFact
  <2> QED BY <1>0, <1>2, <2>1 DEF Average
<1>4. LevelsOf(Average) \in Levels /\ Ordered(LevelsOf(Average)) /\ LevelsOf(Average).baseline = Average
  BY <1>1, <1>3, LevelsFact
<1>5. CalTypeOK'
  BY <1>0, <1>1, <1>4, CalTypesPrime
<1>6. thresholds'.baseline = sum' \div samples' /\ samples' > 0
  BY <1>1, <1>2, <1>4 DEF Average
<1> QED BY <1>0, <1>1, <1>4, <1>5, <1>6 DEF MeasureInv

LEMMA CancelKeeps == MeasureInv /\ Cancel => MeasureInv'
<1> SUFFICES ASSUME MeasureInv, Cancel PROVE MeasureInv'
  OBVIOUS
<1>1. /\ active' = FALSE /\ finished' = FALSE /\ UNCHANGED <<sum, samples, minimum, maximum, thresholds>>
  BY DEF Cancel
<1>2. CalTypeOK'
  BY <1>1, CalTypes, CalTypesPrime DEF MeasureInv
<1> QED BY <1>1, <1>2 DEF MeasureInv

LEMMA MeasureStep == MeasureInv /\ [StallGuardNext]_<<vars, calvars, config, phase>> => MeasureInv'
<1> SUFFICES ASSUME MeasureInv, [StallGuardNext]_<<vars, calvars, config, phase>> PROVE MeasureInv'
  OBVIOUS
<1>1. CASE UNCHANGED calvars
  <2>1. UNCHANGED <<active, sum, samples, minimum, maximum, thresholds, finished>>
    BY <1>1 DEF calvars, cal
  <2>2. CalTypeOK'
    BY <2>1, CalTypes, CalTypesPrime DEF MeasureInv
  <2> QED BY <2>1, <2>2 DEF MeasureInv
<1>2. CASE Start
  BY <1>2, StartKeeps DEF Start
<1>3. CASE Finish
  BY <1>3, FinishKeeps DEF Finish
<1>4. CASE CalCancelled
  BY <1>4, CancelKeeps DEF CalCancelled
<1>5. ASSUME NEW v \in Readings, Sample(v)
      PROVE  MeasureInv'
  BY <1>5, AddKeeps DEF Sample
<1>6. CASE \/ \E s \in Setups : Configure(s)
           \/ Arm
           \/ \E t \in Thresholds : SetThreshold(t)
           \/ \E on \in BOOLEAN : SetEnabled(on)
           \/ UNCHANGED <<vars, calvars, config, phase>>
  BY <1>1, <1>6 DEF Configure, Arm, SetThreshold, SetEnabled
<1> QED BY <1>2, <1>3, <1>4, <1>5, <1>6 DEF StallGuardNext

(* Every result of sg_calibration_finish passes device_config_validate, was     *)
(* measured, and no sum overflows, for every set of readings.                   *)
THEOREM CalibrationsSound == StallGuardSpec => []CalibrationSound
<1>1. StallGuardInit => MeasureInv
  <2> SUFFICES ASSUME StallGuardInit PROVE MeasureInv
    OBVIOUS
  <2>1. /\ active = FALSE /\ sum = 0 /\ samples = 0 /\ minimum = 0 /\ maximum = 0
        /\ thresholds = Unset /\ finished = FALSE
    BY DEF StallGuardInit, CalInit
  <2>2. sum \in 0..(SumMod - 1) /\ samples \in 0..MaxSamples /\ 0 \in 0..SgMax
    BY <2>1, Widths DEF SgMax
  <2>3. Unset \in Levels
    BY <2>2 DEF Unset, Levels
  <2>4. CalTypeOK
    BY <2>1, <2>2, <2>3, CalTypes
  <2>5. Between(0, 0, 0, 0)
    BY DEF Between
  <2> QED BY <2>1, <2>4, <2>5 DEF MeasureInv
<1>2. MeasureInv => CalibrationSound
  <2> SUFFICES ASSUME MeasureInv, finished
               PROVE  minimum =< thresholds.baseline /\ thresholds.baseline =< maximum
    BY DEF MeasureInv, Ordered, CalibrationSound
  <2>1. /\ samples \in Nat \ {0} /\ sum \in Nat /\ minimum \in Nat /\ maximum \in Nat
        /\ Between(minimum, maximum, samples, sum) /\ thresholds.baseline = sum \div samples
    <3>1. /\ samples \in 0..MaxSamples /\ sum \in 0..(SumMod - 1) /\ minimum \in 0..SgMax
          /\ maximum \in 0..SgMax
      BY CalTypes DEF MeasureInv
    <3>2. samples > 0 /\ thresholds.baseline = sum \div samples /\ Between(minimum, maximum, samples, sum)
      BY DEF MeasureInv
    <3>3. samples \in Nat /\ sum \in Nat /\ minimum \in Nat /\ maximum \in Nat
      BY <3>1, Widths DEF SgMax
    <3> QED BY <3>2, <3>3
  <2> QED BY <2>1, MeanFact
<1> QED BY <1>1, <1>2, MeasureStep, PTL DEF StallGuardSpec

---------------------------------------------------------------------------------
(* The words of the chip.  Induction over a field is over the first place where *)
(* two candidates differ.                                                       *)
LEMMA LeastFact ==
  ASSUME NEW T \in SUBSET Nat, T # {}
  PROVE  \E m \in T : \A x \in T : m =< x
<1> DEFINE R == {xx \in Nat \X Nat : xx[1] < xx[2]}
<1>1. IsWellFoundedOn(R, Nat)
  BY NatLessThanWellFounded DEF OpToRel
<1> HIDE DEF R
<1>2. PICK m \in T : \A x \in T : ~ (<<x, m>> \in R)
  BY <1>1, WFMin
<1>3. ASSUME NEW x \in T PROVE m =< x
  <2>1. x \in Nat /\ m \in Nat /\ ~ (x < m)
    BY <1>2 DEF R
  <2> QED BY <2>1
<1> QED BY <1>3

(* A field's value, from its lowest bit up.                                     *)
Rises(u, word, lo, hi) ==
  u = [k \in (lo - 1)..hi |-> IF k < lo THEN 0 ELSE u[k - 1] + (IF k \in word THEN 2^(k - lo) ELSE 0)]

LEMMA ValueFact ==
  ASSUME NEW word, NEW lo \in Nat, NEW hi \in Nat, lo =< hi, NEW g, Rises(g, word, lo, hi)
  PROVE  Value(word, lo, hi) = g[hi]
<1> DEFINE u == CHOOSE f : Rises(f, word, lo, hi)
<1>1. Value(word, lo, hi) = u[hi]
  BY Zenon DEF Value, Rises
<1>2. Rises(u, word, lo, hi)
  BY Zenon
<1> HIDE DEF u
<1>3. ASSUME NEW f, Rises(f, word, lo, hi)
      PROVE  \A k \in (lo - 1)..hi :
               f[k] = IF k < lo THEN 0 ELSE f[k - 1] + (IF k \in word THEN 2^(k - lo) ELSE 0)
  BY <1>3, Zenon DEF Rises
<1> DEFINE T == {k \in Nat : k \in lo..hi /\ u[k] # g[k]}
<1>4. T = {}
  <2> SUFFICES ASSUME T # {} PROVE FALSE
    OBVIOUS
  <2>1. PICK m \in T : \A x \in T : m =< x
    BY LeastFact
  <2>2. m \in lo..hi /\ m - 1 \in (lo - 1)..hi /\ m \in (lo - 1)..hi /\ ~(m < lo)
    BY <2>1
  <2>3. u[m - 1] = g[m - 1]
    <3>1. CASE m = lo
      BY <1>2, <1>3, <2>2, <3>1
    <3>2. CASE m # lo
      <4>1. m - 1 \in Nat /\ m - 1 \in lo..hi /\ m - 1 \notin T
        BY <2>1, <2>2, <3>2
      <4> QED BY <4>1
    <3> QED BY <3>1, <3>2
  <2>4. u[m] = u[m - 1] + (IF m \in word THEN 2^(m - lo) ELSE 0)
    BY <1>2, <1>3, <2>2
  <2>5. g[m] = g[m - 1] + (IF m \in word THEN 2^(m - lo) ELSE 0)
    BY <1>3, <2>2
  <2> QED BY <2>1, <2>3, <2>4, <2>5
<1>5. hi \in Nat /\ hi \in lo..hi
  OBVIOUS
<1> QED BY <1>1, <1>4, <1>5

(* The values of the seven lowest bits of a field, one by one.                  *)
Bit(word, lo, k, j, value) == IF k >= lo + j /\ lo + j \in word THEN value ELSE 0

SevenBits(word, lo, k) ==
  Bit(word, lo, k, 0, 1) + Bit(word, lo, k, 1, 2) + Bit(word, lo, k, 2, 4) + Bit(word, lo, k, 3, 8)
  + Bit(word, lo, k, 4, 16) + Bit(word, lo, k, 5, 32) + Bit(word, lo, k, 6, 64)

LEMMA Powers ==
  ASSUME NEW k \in Nat
  PROVE  /\ (k = 0 => 2^k = 1) /\ (k = 1 => 2^k = 2) /\ (k = 2 => 2^k = 4)
         /\ (k = 3 => 2^k = 8) /\ (k = 4 => 2^k = 16) /\ (k = 5 => 2^k = 32)
         /\ (k = 6 => 2^k = 64) /\ (k = 7 => 2^k = 128) /\ (k = 8 => 2^k = 256)
         /\ (k = 9 => 2^k = 512) /\ (k = 10 => 2^k = 1024) /\ (k = 11 => 2^k = 2048)
         /\ (k = 12 => 2^k = 4096) /\ (k = 13 => 2^k = 8192) /\ (k = 14 => 2^k = 16384)
         /\ (k = 15 => 2^k = 32768) /\ (k = 16 => 2^k = 65536) /\ (k = 17 => 2^k = 131072)
         /\ (k = 18 => 2^k = 262144) /\ (k = 19 => 2^k = 524288) /\ (k = 20 => 2^k = 1048576)
<1>0. ASSUME k = 0 PROVE 2^k = 1
  BY <1>0
<1>1. ASSUME k = 1 PROVE 2^k = 2
  BY <1>1
<1>2. ASSUME k = 2 PROVE 2^k = 4
  BY <1>2
<1>3. ASSUME k = 3 PROVE 2^k = 8
  BY <1>3
<1>4. ASSUME k = 4 PROVE 2^k = 16
  BY <1>4
<1>5. ASSUME k = 5 PROVE 2^k = 32
  BY <1>5
<1>6. ASSUME k = 6 PROVE 2^k = 64
  BY <1>6
<1>7. ASSUME k = 7 PROVE 2^k = 128
  BY <1>7
<1>8. ASSUME k = 8 PROVE 2^k = 256
  BY <1>8
<1>9. ASSUME k = 9 PROVE 2^k = 512
  BY <1>9
<1>10. ASSUME k = 10 PROVE 2^k = 1024
  BY <1>10
<1>11. ASSUME k = 11 PROVE 2^k = 2048
  BY <1>11
<1>12. ASSUME k = 12 PROVE 2^k = 4096
  BY <1>12
<1>13. ASSUME k = 13 PROVE 2^k = 8192
  BY <1>13
<1>14. ASSUME k = 14 PROVE 2^k = 16384
  BY <1>14
<1>15. ASSUME k = 15 PROVE 2^k = 32768
  BY <1>15
<1>16. ASSUME k = 16 PROVE 2^k = 65536
  BY <1>16
<1>17. ASSUME k = 17 PROVE 2^k = 131072
  BY <1>17
<1>18. ASSUME k = 18 PROVE 2^k = 262144
  BY <1>18
<1>19. ASSUME k = 19 PROVE 2^k = 524288
  BY <1>19
<1>20. ASSUME k = 20 PROVE 2^k = 1048576
  BY <1>20
<1> QED BY <1>0, <1>1, <1>2, <1>3, <1>4, <1>5, <1>6, <1>7, <1>8, <1>9, <1>10, <1>11, <1>12, <1>13,
          <1>14, <1>15, <1>16, <1>17, <1>18, <1>19, <1>20

LEMMA SevenFact ==
  ASSUME NEW word, NEW lo \in Nat, NEW hi \in Nat, lo =< hi, hi =< lo + 6
  PROVE  Value(word, lo, hi) = SevenBits(word, lo, hi)
<1> DEFINE S(k) == SevenBits(word, lo, k)
           g == [k \in (lo - 1)..hi |-> S(k)]
<1>1. ASSUME NEW k \in (lo - 1)..hi
      PROVE  S(k) = IF k < lo THEN 0 ELSE S(k - 1) + (IF k \in word THEN 2^(k - lo) ELSE 0)
  <2>1. CASE k < lo
    BY <2>1 DEF SevenBits, Bit
  <2>2. k >= lo => k - lo \in {0, 1, 2, 3, 4, 5, 6}
    OBVIOUS
  <2>3. CASE k - lo = 0
    <3>1. k = lo + 0 /\ 2^(k - lo) = 1
      BY <2>3, Powers
    <3> QED BY <3>1 DEF SevenBits, Bit
  <2>4. CASE k - lo = 1
    <3>1. k = lo + 1 /\ 2^(k - lo) = 2
      BY <2>4, Powers
    <3> QED BY <3>1 DEF SevenBits, Bit
  <2>5. CASE k - lo = 2
    <3>1. k = lo + 2 /\ 2^(k - lo) = 4
      BY <2>5, Powers
    <3> QED BY <3>1 DEF SevenBits, Bit
  <2>6. CASE k - lo = 3
    <3>1. k = lo + 3 /\ 2^(k - lo) = 8
      BY <2>6, Powers
    <3> QED BY <3>1 DEF SevenBits, Bit
  <2>7. CASE k - lo = 4
    <3>1. k = lo + 4 /\ 2^(k - lo) = 16
      BY <2>7, Powers
    <3> QED BY <3>1 DEF SevenBits, Bit
  <2>8. CASE k - lo = 5
    <3>1. k = lo + 5 /\ 2^(k - lo) = 32
      BY <2>8, Powers
    <3> QED BY <3>1 DEF SevenBits, Bit
  <2>9. CASE k - lo = 6
    <3>1. k = lo + 6 /\ 2^(k - lo) = 64
      BY <2>9, Powers
    <3> QED BY <3>1 DEF SevenBits, Bit
  <2> QED BY <2>1, <2>2, <2>3, <2>4, <2>5, <2>6, <2>7, <2>8, <2>9
<1> HIDE DEF S
<1>2. \A k \in (lo - 1)..hi : k >= lo => k - 1 \in (lo - 1)..hi
  OBVIOUS
<1>3. Rises(g, word, lo, hi)
  BY <1>1, <1>2 DEF Rises
<1>4. g[hi] = S(hi)
  OBVIOUS
<1> QED BY <1>3, <1>4, ValueFact DEF S

(* The value of a field of the chip is the number the driver packed there.      *)
LEMMA FieldFact ==
  ASSUME NEW word, NEW lo \in Nat, NEW width \in {2, 4, 5, 7}, NEW v \in Nat,
         \/ width = 2 /\ v < 4
         \/ width = 4 /\ v < 16
         \/ width = 5 /\ v < 32
         \/ width = 7 /\ v < 128,
         \A j \in 0..(width - 1) : lo + j \in word <=> j \in Bits(v, width)
  PROVE  Value(word, lo, lo + width - 1) = v
<1> DEFINE hi == lo + width - 1
<1>1. hi \in Nat /\ lo =< hi /\ hi =< lo + 6 /\ hi - lo = width - 1
  OBVIOUS
<1>2. Value(word, lo, hi) = SevenBits(word, lo, hi)
  BY <1>1, SevenFact
<1>3. \A j \in 0..(width - 1) : lo + j \in word <=> (v \div 2^j) % 2 = 1
  BY DEF Bits
<1>4. /\ 0 \in Nat /\ 1 \in Nat /\ 2 \in Nat /\ 3 \in Nat /\ 4 \in Nat /\ 5 \in Nat /\ 6 \in Nat
      /\ 2^0 = 1 /\ 2^1 = 2 /\ 2^2 = 4 /\ 2^3 = 8 /\ 2^4 = 16 /\ 2^5 = 32 /\ 2^6 = 64
  BY Powers
<1>5. CASE width = 2
  <2>1. /\ lo + 0 \in word <=> v % 2 = 1
        /\ lo + 1 \in word <=> (v \div 2) % 2 = 1
    BY <1>3, <1>4, <1>5
  <2>2. SevenBits(word, lo, lo + 1) = v
    BY <1>5, <2>1 DEF SevenBits, Bit
  <2> QED BY <1>2, <1>5, <2>2
<1>6. CASE width = 4
  <2>1. /\ lo + 0 \in word <=> v % 2 = 1
        /\ lo + 1 \in word <=> (v \div 2) % 2 = 1
        /\ lo + 2 \in word <=> (v \div 4) % 2 = 1
        /\ lo + 3 \in word <=> (v \div 8) % 2 = 1
    BY <1>3, <1>4, <1>6
  <2>2. SevenBits(word, lo, lo + 3) = v
    BY <1>6, <2>1 DEF SevenBits, Bit
  <2> QED BY <1>2, <1>6, <2>2
<1>7. CASE width = 5
  <2>1. /\ lo + 0 \in word <=> v % 2 = 1
        /\ lo + 1 \in word <=> (v \div 2) % 2 = 1
        /\ lo + 2 \in word <=> (v \div 4) % 2 = 1
        /\ lo + 3 \in word <=> (v \div 8) % 2 = 1
        /\ lo + 4 \in word <=> (v \div 16) % 2 = 1
    BY <1>3, <1>4, <1>7
  <2>2. SevenBits(word, lo, lo + 4) = v
    BY <1>7, <2>1 DEF SevenBits, Bit
  <2> QED BY <1>2, <1>7, <2>2
<1>8. CASE width = 7
  <2>1. /\ lo + 0 \in word <=> v % 2 = 1
        /\ lo + 1 \in word <=> (v \div 2) % 2 = 1
        /\ lo + 2 \in word <=> (v \div 4) % 2 = 1
        /\ lo + 3 \in word <=> (v \div 8) % 2 = 1
        /\ lo + 4 \in word <=> (v \div 16) % 2 = 1
        /\ lo + 5 \in word <=> (v \div 32) % 2 = 1
        /\ lo + 6 \in word <=> (v \div 64) % 2 = 1
    BY <1>3, <1>4, <1>8
  <2>2. SevenBits(word, lo, lo + 6) = v
    BY <1>8, <2>1 DEF SevenBits, Bit
  <2> QED BY <1>2, <1>8, <2>2
<1> QED BY <1>5, <1>6, <1>7, <1>8

(* Where the fields of a union begin.                                           *)
Begins(o, fields) ==
  o = [i \in 1..Len(fields) |-> IF i = 1 THEN 0 ELSE o[i - 1] + fields[i - 1][2]]

Assembled(o, fields, values) ==
  UNION {{o[i] + b : b \in Bits(values[fields[i][1]], fields[i][2])} :
           i \in {j \in 1..Len(fields) : fields[j][1] \in DOMAIN values}}

LEMMA WordFact ==
  ASSUME NEW fields, NEW values, Len(fields) \in Nat, NEW o, Begins(o, fields)
  PROVE  Word(fields, values) = Assembled(o, fields, values)
<1> DEFINE u == CHOOSE f : Begins(f, fields)
<1>1. Word(fields, values) = Assembled(u, fields, values)
  BY Zenon DEF Word, Begins, Assembled
<1>2. Begins(u, fields)
  BY Zenon
<1> HIDE DEF u
<1>3. ASSUME NEW f, Begins(f, fields)
      PROVE  /\ DOMAIN f = 1..Len(fields) /\ f = [i \in DOMAIN f |-> f[i]]
             /\ \A i \in 1..Len(fields) : f[i] = IF i = 1 THEN 0 ELSE f[i - 1] + fields[i - 1][2]
  BY <1>3, Zenon DEF Begins
<1> DEFINE T == {k \in Nat : k \in 1..Len(fields) /\ u[k] # o[k]}
<1>4. T = {}
  <2> SUFFICES ASSUME T # {} PROVE FALSE
    OBVIOUS
  <2>1. PICK m \in T : \A x \in T : m =< x
    BY LeastFact
  <2>2. m \in 1..Len(fields) /\ u[m] # o[m]
    BY <2>1
  <2>3. m # 1
    BY <1>2, <1>3, <2>2
  <2>4. m - 1 \in Nat /\ m - 1 \in 1..Len(fields) /\ m - 1 \notin T
    BY <2>1, <2>2, <2>3
  <2>5. u[m - 1] = o[m - 1]
    BY <2>4
  <2>6. u[m] = u[m - 1] + fields[m - 1][2]
    BY <1>2, <1>3, <2>2, <2>3
  <2>7. o[m] = o[m - 1] + fields[m - 1][2]
    BY <1>3, <2>2, <2>3
  <2> QED BY <2>2, <2>5, <2>6, <2>7
<1>5. u = o
  <2>1. \A i \in 1..Len(fields) : u[i] = o[i]
    BY <1>4
  <2>2. u = [i \in 1..Len(fields) |-> u[i]] /\ o = [i \in 1..Len(fields) |-> o[i]]
    BY <1>2, <1>3
  <2> QED BY <2>1, <2>2
<1> QED BY <1>1, <1>5

(* The bytes of the bus carry the 32 bits of a word.                            *)
LEMMA SentFact ==
  ASSUME NEW word, word \subseteq 0..31
  PROVE  Received(Sent(word)) = word
<1>1. \A x \in 0..31 : x \in Received(Sent(word)) <=> \E i \in 1..4, b \in 0..7 : x = b + 8 * (4 - i) /\ x \in word
  BY DEF Received, Sent
<1>2. \A x \in 0..31 : /\ x \div 8 \in 0..3 /\ x % 8 \in 0..7 /\ 4 - (x \div 8) \in 1..4
                       /\ x = (x % 8) + 8 * (4 - (4 - (x \div 8)))
  OBVIOUS
<1>3. Received(Sent(word)) \subseteq 0..31
  BY DEF Received, Sent
<1>4. \A x \in word : \E i \in 1..4, b \in 0..7 : x = b + 8 * (4 - i)
  BY <1>2
<1> QED BY <1>1, <1>3, <1>4

LEMMA BeginsFact ==
  /\ Begins(<<0, 1, 2, 3, 4, 5, 15, 16, 17, 18>>, GconfFields) /\ Len(GconfFields) = 10
  /\ Begins(<<0, 5, 8, 13, 16, 20>>, CurrentFields) /\ Len(CurrentFields) = 6
  /\ Begins(<<0, 4, 5, 7, 8, 12, 13, 15, 16, 23, 24, 25>>, CoolFields) /\ Len(CoolFields) = 12
  /\ Begins(<<0, 20>>, CoolThresholdFields) /\ Len(CoolThresholdFields) = 2
<1>1. Begins(<<0, 1, 2, 3, 4, 5, 15, 16, 17, 18>>, GconfFields) /\ Len(GconfFields) = 10
  BY DEF Begins, GconfFields
<1>2. Begins(<<0, 5, 8, 13, 16, 20>>, CurrentFields) /\ Len(CurrentFields) = 6
  BY DEF Begins, CurrentFields
<1>3. Begins(<<0, 4, 5, 7, 8, 12, 13, 15, 16, 23, 24, 25>>, CoolFields) /\ Len(CoolFields) = 12
  BY DEF Begins, CoolFields
<1>4. Begins(<<0, 20>>, CoolThresholdFields) /\ Len(CoolThresholdFields) = 2
  BY DEF Begins, CoolThresholdFields
<1> QED BY <1>1, <1>2, <1>3, <1>4

LEMMA ChopperBegins ==
  /\ Begins(<<0, 4, 7, 11, 12, 13, 14, 15, 17, 18, 19, 20, 24, 28, 29, 30, 31>>, ChopperFields)
  /\ Len(ChopperFields) = 17
  BY DEF Begins, ChopperFields

LEMMA GconfWord == Gconf = {1}
<1> DEFINE o == <<0, 1, 2, 3, 4, 5, 15, 16, 17, 18>>
           values == [internal_rsense |-> 1]
<1>1. Gconf = Assembled(o, GconfFields, values)
  BY BeginsFact, WordFact DEF Gconf
<1>2. {j \in 1..Len(GconfFields) : GconfFields[j][1] \in DOMAIN values} = {2}
  BY BeginsFact DEF GconfFields
<1>3. Assembled(o, GconfFields, values) = {1 + b : b \in Bits(1, 1)}
  BY <1>2 DEF Assembled, GconfFields
<1>4. Bits(1, 1) = {0}
  BY Powers DEF Bits
<1> QED BY <1>1, <1>3, <1>4

LEMMA HoldRunWord ==
  ASSUME NEW r, NEW h
  PROVE  LET word == Word(CurrentFields, [ihold |-> h, irun |-> r, iholddelay |-> 6])
         IN  /\ word \subseteq 0..31
             /\ \A j \in 0..4 : 0 + j \in word <=> j \in Bits(h, 5)
             /\ \A j \in 0..4 : 8 + j \in word <=> j \in Bits(r, 5)
<1> DEFINE o == <<0, 5, 8, 13, 16, 20>>
           values == [ihold |-> h, irun |-> r, iholddelay |-> 6]
<1>1. Word(CurrentFields, values) = Assembled(o, CurrentFields, values)
  BY BeginsFact, WordFact
<1>2. {j \in 1..Len(CurrentFields) : CurrentFields[j][1] \in DOMAIN values} = {1, 3, 5}
  BY BeginsFact DEF CurrentFields
<1>3. Assembled(o, CurrentFields, values) =
        {0 + b : b \in Bits(h, 5)} \cup {8 + b : b \in Bits(r, 5)} \cup {16 + b : b \in Bits(6, 4)}
  BY <1>2 DEF Assembled, CurrentFields
<1>4. Bits(h, 5) \subseteq 0..4 /\ Bits(r, 5) \subseteq 0..4 /\ Bits(6, 4) \subseteq 0..3
  BY DEF Bits
<1> HIDE DEF values, o
<1> DEFINE word == Word(CurrentFields, values)
<1>5. word = {0 + b : b \in Bits(h, 5)} \cup {8 + b : b \in Bits(r, 5)} \cup {16 + b : b \in Bits(6, 4)}
  BY <1>1, <1>3
<1> HIDE DEF word
<1>6. word \subseteq 0..31
  BY <1>4, <1>5
<1>7. \A j \in 0..4 : 0 + j \in word <=> j \in Bits(h, 5)
  BY <1>4, <1>5
<1>8. \A j \in 0..4 : 8 + j \in word <=> j \in Bits(r, 5)
  BY <1>4, <1>5
<1> QED BY <1>6, <1>7, <1>8 DEF word, values

LEMMA ChopperWord ==
  ASSUME NEW m
  PROVE  LET word == Word(ChopperFields, [toff |-> 3, hstrt |-> 4, tbl |-> 1, mres |-> m])
         IN  /\ word \subseteq 0..31
             /\ \A j \in 0..3 : 0 + j \in word <=> j \in Bits(3, 4)
             /\ \A j \in 0..1 : 15 + j \in word <=> j \in Bits(1, 2)
             /\ \A j \in 0..3 : 24 + j \in word <=> j \in Bits(m, 4)
<1> DEFINE o == <<0, 4, 7, 11, 12, 13, 14, 15, 17, 18, 19, 20, 24, 28, 29, 30, 31>>
           values == [toff |-> 3, hstrt |-> 4, tbl |-> 1, mres |-> m]
<1>1. Word(ChopperFields, values) = Assembled(o, ChopperFields, values)
  BY ChopperBegins, WordFact
<1>2. {j \in 1..Len(ChopperFields) : ChopperFields[j][1] \in DOMAIN values} = {1, 2, 8, 13}
  BY ChopperBegins DEF ChopperFields
<1>3. Assembled(o, ChopperFields, values) =
        {0 + b : b \in Bits(3, 4)} \cup {4 + b : b \in Bits(4, 3)}
        \cup {15 + b : b \in Bits(1, 2)} \cup {24 + b : b \in Bits(m, 4)}
  BY <1>2 DEF Assembled, ChopperFields
<1>4. /\ Bits(3, 4) \subseteq 0..3 /\ Bits(4, 3) \subseteq 0..2
      /\ Bits(1, 2) \subseteq 0..1 /\ Bits(m, 4) \subseteq 0..3
  BY DEF Bits
<1> HIDE DEF values, o
<1> DEFINE word == Word(ChopperFields, values)
<1>5. word = {0 + b : b \in Bits(3, 4)} \cup {4 + b : b \in Bits(4, 3)}
             \cup {15 + b : b \in Bits(1, 2)} \cup {24 + b : b \in Bits(m, 4)}
  BY <1>1, <1>3
<1> HIDE DEF word
<1>6. word \subseteq 0..31
  BY <1>4, <1>5
<1>7. \A j \in 0..3 : 0 + j \in word <=> j \in Bits(3, 4)
  BY <1>4, <1>5
<1>8. \A j \in 0..1 : 15 + j \in word <=> j \in Bits(1, 2)
  BY <1>4, <1>5
<1>9. \A j \in 0..3 : 24 + j \in word <=> j \in Bits(m, 4)
  BY <1>4, <1>5
<1> QED BY <1>6, <1>7, <1>8, <1>9 DEF word, values

LEMMA CoolWord ==
  ASSUME NEW t
  PROVE  /\ Coolconf(t) = {16 + b : b \in Bits(t % 256, 7)}
         /\ Coolconf(t) \subseteq 16..22
         /\ \A j \in 0..6 : 16 + j \in Coolconf(t) <=> j \in Bits(t % 256, 7)
<1> DEFINE o == <<0, 4, 5, 7, 8, 12, 13, 15, 16, 23, 24, 25>>
           values == [sgt |-> t % 256]
<1>1. Coolconf(t) = Assembled(o, CoolFields, values)
  BY BeginsFact, WordFact DEF Coolconf
<1>2. {j \in 1..Len(CoolFields) : CoolFields[j][1] \in DOMAIN values} = {9}
  BY BeginsFact DEF CoolFields
<1>3. Assembled(o, CoolFields, values) = {16 + b : b \in Bits(t % 256, 7)}
  BY <1>2 DEF Assembled, CoolFields
<1>4. Bits(t % 256, 7) \subseteq 0..6
  BY DEF Bits
<1> HIDE DEF values, o
<1>5. Coolconf(t) = {16 + b : b \in Bits(t % 256, 7)}
  BY <1>1, <1>3
<1> QED BY <1>4, <1>5

LEMMA Doubles ==
  ASSUME NEW k \in 0..19
  PROVE  2^(k + 1) = 2^k + 2^k /\ 2^k \in Nat /\ ((2^20 - 1) \div 2^k) % 2 = 1
<1>a. 2^20 - 1 = 1048575 /\ k \in Nat /\ k + 1 \in Nat
  OBVIOUS
<1>0. CASE k = 0
  <2>1. 2^k = 1 /\ 2^(k + 1) = 2
    BY <1>a, <1>0, Powers
  <2> QED BY <1>a, <2>1
<1>1. CASE k = 1
  <2>1. 2^k = 2 /\ 2^(k + 1) = 4
    BY <1>a, <1>1, Powers
  <2> QED BY <1>a, <2>1
<1>2. CASE k = 2
  <2>1. 2^k = 4 /\ 2^(k + 1) = 8
    BY <1>a, <1>2, Powers
  <2> QED BY <1>a, <2>1
<1>3. CASE k = 3
  <2>1. 2^k = 8 /\ 2^(k + 1) = 16
    BY <1>a, <1>3, Powers
  <2> QED BY <1>a, <2>1
<1>4. CASE k = 4
  <2>1. 2^k = 16 /\ 2^(k + 1) = 32
    BY <1>a, <1>4, Powers
  <2> QED BY <1>a, <2>1
<1>5. CASE k = 5
  <2>1. 2^k = 32 /\ 2^(k + 1) = 64
    BY <1>a, <1>5, Powers
  <2> QED BY <1>a, <2>1
<1>6. CASE k = 6
  <2>1. 2^k = 64 /\ 2^(k + 1) = 128
    BY <1>a, <1>6, Powers
  <2> QED BY <1>a, <2>1
<1>7. CASE k = 7
  <2>1. 2^k = 128 /\ 2^(k + 1) = 256
    BY <1>a, <1>7, Powers
  <2> QED BY <1>a, <2>1
<1>8. CASE k = 8
  <2>1. 2^k = 256 /\ 2^(k + 1) = 512
    BY <1>a, <1>8, Powers
  <2> QED BY <1>a, <2>1
<1>9. CASE k = 9
  <2>1. 2^k = 512 /\ 2^(k + 1) = 1024
    BY <1>a, <1>9, Powers
  <2> QED BY <1>a, <2>1
<1>10. CASE k = 10
  <2>1. 2^k = 1024 /\ 2^(k + 1) = 2048
    BY <1>a, <1>10, Powers
  <2> QED BY <1>a, <2>1
<1>11. CASE k = 11
  <2>1. 2^k = 2048 /\ 2^(k + 1) = 4096
    BY <1>a, <1>11, Powers
  <2> QED BY <1>a, <2>1
<1>12. CASE k = 12
  <2>1. 2^k = 4096 /\ 2^(k + 1) = 8192
    BY <1>a, <1>12, Powers
  <2> QED BY <1>a, <2>1
<1>13. CASE k = 13
  <2>1. 2^k = 8192 /\ 2^(k + 1) = 16384
    BY <1>a, <1>13, Powers
  <2> QED BY <1>a, <2>1
<1>14. CASE k = 14
  <2>1. 2^k = 16384 /\ 2^(k + 1) = 32768
    BY <1>a, <1>14, Powers
  <2> QED BY <1>a, <2>1
<1>15. CASE k = 15
  <2>1. 2^k = 32768 /\ 2^(k + 1) = 65536
    BY <1>a, <1>15, Powers
  <2> QED BY <1>a, <2>1
<1>16. CASE k = 16
  <2>1. 2^k = 65536 /\ 2^(k + 1) = 131072
    BY <1>a, <1>16, Powers
  <2> QED BY <1>a, <2>1
<1>17. CASE k = 17
  <2>1. 2^k = 131072 /\ 2^(k + 1) = 262144
    BY <1>a, <1>17, Powers
  <2> QED BY <1>a, <2>1
<1>18. CASE k = 18
  <2>1. 2^k = 262144 /\ 2^(k + 1) = 524288
    BY <1>a, <1>18, Powers
  <2> QED BY <1>a, <2>1
<1>19. CASE k = 19
  <2>1. 2^k = 524288 /\ 2^(k + 1) = 1048576
    BY <1>a, <1>19, Powers
  <2> QED BY <1>a, <2>1
<1> QED BY <1>0, <1>1, <1>2, <1>3, <1>4, <1>5, <1>6, <1>7, <1>8, <1>9, <1>10, <1>11, <1>12, <1>13,
          <1>14, <1>15, <1>16, <1>17, <1>18, <1>19

LEMMA AlwaysOnWord ==
  LET word == Word(CoolThresholdFields, [threshold |-> 2^20 - 1])
  IN  word \subseteq 0..19 /\ Value(word, 0, 19) # 0
<1> DEFINE o == <<0, 20>>
           values == [threshold |-> 2^20 - 1]
<1>1. Word(CoolThresholdFields, values) = Assembled(o, CoolThresholdFields, values)
  BY BeginsFact, WordFact
<1>2. {j \in 1..Len(CoolThresholdFields) : CoolThresholdFields[j][1] \in DOMAIN values} = {1}
  BY BeginsFact DEF CoolThresholdFields
<1>3. Assembled(o, CoolThresholdFields, values) = {0 + b : b \in Bits(2^20 - 1, 20)}
  BY <1>2 DEF Assembled, CoolThresholdFields
<1>4. Bits(2^20 - 1, 20) \subseteq 0..19
  BY DEF Bits
<1>5. Bits(2^20 - 1, 20) = 0..19
  <2>1. \A k \in 0..19 : ((2^20 - 1) \div 2^k) % 2 = 1
    BY Doubles, Zenon
  <2>2. Bits(2^20 - 1, 20) = {k \in 0..19 : ((2^20 - 1) \div 2^k) % 2 = 1}
    <3>1. 20 - 1 = 19
      OBVIOUS
    <3> QED BY <3>1, Zenon DEF Bits
  <2> QED BY <2>1, <2>2, Zenon
<1> HIDE DEF values, o
<1>6. Word(CoolThresholdFields, values) = 0..19
  BY <1>1, <1>3, <1>5
<1> DEFINE g == [k \in (0 - 1)..19 |-> 2^(k + 1) - 1]
<1>7. ASSUME NEW k \in (0 - 1)..19
      PROVE  g[k] = IF k < 0 THEN 0 ELSE g[k - 1] + (IF k \in 0..19 THEN 2^(k - 0) ELSE 0)
  <2>1. CASE k = -1
    BY <2>1, Powers
  <2>2. CASE k \in 0..19
    <3>1. g[k] = 2^(k + 1) - 1 /\ g[k - 1] = 2^k - 1
      BY <2>2
    <3>2. PICK a \in Nat : a = 2^k
      BY <2>2, Doubles, Zenon
    <3>3. 2^(k + 1) = a + a
      BY <2>2, <3>2, Doubles, Zenon
    <3>4. k - 0 = k
      OBVIOUS
    <3>5. 2^(k - 0) = a
      BY <3>2, <3>4, Zenon
    <3>6. g[k] = (a + a) - 1 /\ g[k - 1] = a - 1
      BY <3>1, <3>2, <3>3, Zenon
    <3>7. g[k] = g[k - 1] + a
      BY <3>6
    <3> HIDE DEF g
    <3>8. ~(k < 0)
      BY <2>2
    <3> QED BY <2>2, <3>5, <3>7, <3>8, Zenon
  <2> QED BY <2>1, <2>2
<1>8. Rises(g, 0..19, 0, 19)
  BY <1>7 DEF Rises
<1>9. Value(0..19, 0, 19) = g[19]
  BY <1>8, ValueFact
<1>10. g[19] # 0
  BY Powers
<1> QED BY <1>6, <1>9, <1>10 DEF values

(* Currents and resolutions.                                                    *)
Milliamperes == 200..1200
Signed7 == -64..63

LEMMA CurrentFact ==
  ASSUME NEW mA \in Milliamperes
  PROVE  Scale(mA) \in 0..31 /\ Current(Scale(mA)) - mA \in -20..20
<1>1. Scale(mA) \in 0..31
  BY DEF Scale, FullScale, Milliamperes
<1>2. Current(Scale(mA)) = 39 * Scale(mA) + 39
  BY <1>1 DEF Current, FullScale
<1>3. 39 * Scale(mA) + 39 - mA \in -20..20
  BY DEF Scale, FullScale, Milliamperes
<1> QED BY <1>1, <1>2, <1>3 DEF Milliamperes

LEMMA CurrentsOrdered ==
  ASSUME NEW a \in Milliamperes, NEW b \in Milliamperes, a =< b
  PROVE  Current(Scale(a)) =< Current(Scale(b))
<1>1. Scale(a) =< Scale(b)
  BY DEF Scale, FullScale, Milliamperes
<1>2. Scale(a) \in Int /\ Scale(b) \in Int
  BY DEF Scale, FullScale, Milliamperes
<1> QED BY <1>1, <1>2 DEF Current, FullScale

LEMMA MresFact ==
  ASSUME NEW ms \in Resolutions
  PROVE  Mres(ms) \in 0..8 /\ 256 \div 2^Mres(ms) = ms
<1>1. PICK k \in 0..8 : ms = 2^k
  BY DEF Resolutions
<1>2. ms \in Nat /\ \E m \in 0..8 : ms * 2^m = 256
  <2>1. 8 - k \in 0..8 /\ k \in Nat /\ 8 - k \in Nat
    OBVIOUS
  <2>2. ms * 2^(8 - k) = 256 /\ ms \in Nat
    <3>1. CASE k = 0
      BY <1>1, <2>1, <3>1, Powers
    <3>2. CASE k = 1
      BY <1>1, <2>1, <3>2, Powers
    <3>3. CASE k = 2
      BY <1>1, <2>1, <3>3, Powers
    <3>4. CASE k = 3
      BY <1>1, <2>1, <3>4, Powers
    <3>5. CASE k = 4
      BY <1>1, <2>1, <3>5, Powers
    <3>6. CASE k = 5
      BY <1>1, <2>1, <3>6, Powers
    <3>7. CASE k = 6
      BY <1>1, <2>1, <3>7, Powers
    <3>8. CASE k = 7
      BY <1>1, <2>1, <3>8, Powers
    <3>9. CASE k = 8
      BY <1>1, <2>1, <3>9, Powers
    <3> QED BY <3>1, <3>2, <3>3, <3>4, <3>5, <3>6, <3>7, <3>8, <3>9
  <2> QED BY <2>1, <2>2
<1>3. Mres(ms) \in 0..8 /\ ms * 2^Mres(ms) = 256
  BY <1>2, Zenon DEF Mres
<1> DEFINE m == Mres(ms)
<1> HIDE DEF m
<1>4. m \in 0..8 /\ ms * 2^m = 256
  BY <1>3 DEF m
<1>5. 2^m \in {1, 2, 4, 8, 16, 32, 64, 128, 256}
  <2>1. m \in Nat /\ (m = 0 \/ m = 1 \/ m = 2 \/ m = 3 \/ m = 4 \/ m = 5 \/ m = 6 \/ m = 7 \/ m = 8)
    BY <1>4
  <2> QED BY <2>1, Powers
<1>6. 256 \div 2^m = ms
  <2>1. PICK p \in {1, 2, 4, 8, 16, 32, 64, 128, 256} : p = 2^m
    BY <1>5
  <2>2. ms * p = 256
    BY <1>4, <2>1, Zenon
  <2>3. 256 \div p = ms
    BY <1>2, <2>2
  <2> QED BY <2>1, <2>3, Zenon
<1> QED BY <1>4, <1>6 DEF m

(* Writing a register.                                                          *)
Registers == {"GCONF", "IHOLD_IRUN", "CHOPCONF", "COOLCONF", "TCOOLTHRS"}
Words == SUBSET (0..31)
Chips == [Registers -> Words]

LEMMA WrittenFact ==
  ASSUME NEW regs \in Chips, NEW r \in Registers, NEW word \in Words
  PROVE  /\ Written(regs, r, word) \in Chips /\ Written(regs, r, word)[r] = word
         /\ \A q \in Registers : q # r => Written(regs, r, word)[q] = regs[q]
<1>1. Written(regs, r, word) = [regs EXCEPT ![r] = word]
  BY SentFact DEF Written, Words
<1> QED BY <1>1 DEF Chips

---------------------------------------------------------------------------------
(* The registers hold whole words of the driver: after a set-up those of its    *)
(* arguments, after an accepted StallGuard call those of its threshold.         *)
AlwaysOn == Word(CoolThresholdFields, [threshold |-> 2^20 - 1])

SetupInv ==
  /\ chip \in Chips
  /\ phase = "configure" => setup = NoSetup
  /\ setup # NoSetup =>
       /\ setup \in Setups /\ setup.ms \in Resolutions
       /\ chip["GCONF"] = Gconf /\ chip["CHOPCONF"] = Chopconf(setup.ms)
       /\ chip["IHOLD_IRUN"] = HoldRun(setup.run_mA, setup.hold_mA)

GuardInv ==
  /\ sg.ok \in BOOLEAN /\ sg.enabled \in BOOLEAN
  /\ threshold \in Thresholds /\ threshold \in -64..63
  /\ chip["TCOOLTHRS"] # {} => \E t \in Thresholds : chip["COOLCONF"] = Coolconf(t)
  /\ sg.ok => IF sg.enabled
              THEN /\ sg.threshold \in -64..63
                   /\ chip["TCOOLTHRS"] = AlwaysOn /\ chip["COOLCONF"] = Coolconf(sg.threshold)
              ELSE chip["TCOOLTHRS"] = {}

ActiveInv ==
  /\ enabled \in BOOLEAN /\ active \in BOOLEAN
  /\ phase # "up" => ~active
  /\ active /\ sg.ok => sg.enabled

RegisterInv == SetupInv /\ GuardInv /\ ActiveInv

(* The words fit their registers.                                               *)
LEMMA WordsFit ==
  /\ Gconf \in Words /\ {} \in Words /\ AlwaysOn \in Words
  /\ \A r, h : HoldRun(r, h) \in Words
  /\ \A ms : Chopconf(ms) \in Words
  /\ \A t : Coolconf(t) \in Words
<1>1. Gconf \in Words /\ {} \in Words
  BY GconfWord DEF Words
<1>2. AlwaysOn \in Words
  <2>1. AlwaysOn \subseteq 0..19
    BY AlwaysOnWord DEF AlwaysOn
  <2> QED BY <2>1 DEF Words
<1>3. ASSUME NEW r, NEW h PROVE HoldRun(r, h) \in Words
  BY HoldRunWord DEF HoldRun, Words
<1>4. ASSUME NEW ms PROVE Chopconf(ms) \in Words
  BY ChopperWord DEF Chopconf, Words
<1>5. ASSUME NEW t PROVE Coolconf(t) \in Words
  <2>1. Coolconf(t) \subseteq 16..22
    BY CoolWord
  <2> QED BY <2>1 DEF Words
<1> QED BY <1>1, <1>2, <1>3, <1>4, <1>5

(* What a call of tmc5130_configure leaves in the chip.                         *)
LEMMA ConfigureFact ==
  ASSUME chip \in Chips, NEW s \in Setups, tmc5130_configure(s)
  PROVE  /\ chip' \in Chips /\ sg' = sg /\ s.ms \in Resolutions
         /\ chip'["COOLCONF"] = chip["COOLCONF"] /\ chip'["TCOOLTHRS"] = chip["TCOOLTHRS"]
         /\ \/ setup' = setup
            \/ /\ setup' = s /\ chip'["GCONF"] = Gconf /\ chip'["CHOPCONF"] = Chopconf(s.ms)
               /\ chip'["IHOLD_IRUN"] = HoldRun(s.run_mA, s.hold_mA)
<1>p. PICK w1 \in Words, w2 \in Words, w3 \in Words :
        w1 = Gconf /\ w2 = HoldRun(s.run_mA, s.hold_mA) /\ w3 = Chopconf(s.ms)
  BY WordsFit, Zenon
<1> DEFINE first  == Written(chip, "GCONF", w1)
           second == Written(first, "IHOLD_IRUN", w2)
           third  == Written(second, "CHOPCONF", w3)
<1>1. /\ s.ms \in Resolutions /\ sg' = sg
      /\ \/ chip' = third /\ setup' = s
         \/ chip' \in {chip, first, second} /\ setup' = setup
  BY <1>p, Zenon DEF tmc5130_configure
<1>0. /\ "GCONF" \in Registers /\ "IHOLD_IRUN" \in Registers /\ "CHOPCONF" \in Registers
      /\ "COOLCONF" \in Registers /\ "TCOOLTHRS" \in Registers
  BY DEF Registers
<1>2. /\ first \in Chips /\ first["GCONF"] = w1
      /\ \A q \in Registers : q # "GCONF" => first[q] = chip[q]
  BY <1>0, WrittenFact
<1> HIDE DEF first
<1>3. /\ second \in Chips /\ second["IHOLD_IRUN"] = w2
      /\ \A q \in Registers : q # "IHOLD_IRUN" => second[q] = first[q]
  BY <1>0, <1>2, WrittenFact
<1> HIDE DEF second
<1>4. /\ third \in Chips /\ third["CHOPCONF"] = w3
      /\ \A q \in Registers : q # "CHOPCONF" => third[q] = second[q]
  BY <1>0, <1>3, WrittenFact
<1> HIDE DEF third
<1> QED BY <1>0, <1>1, <1>2, <1>3, <1>4, <1>p

(* What a StallGuard call leaves in the chip: of the two writes both, the first *)
(* one or none.                                                                 *)
LEMMA BothFact ==
  ASSUME chip \in Chips, NEW r1 \in Registers, NEW r2 \in Registers, r1 # r2,
         NEW w1 \in Words, NEW w2 \in Words, NEW on \in BOOLEAN, NEW t \in Int,
         Both(r1, w1, r2, w2, [enabled |-> on, threshold |-> t, ok |-> FALSE])
  PROVE  /\ chip' \in Chips /\ sg'.enabled = on /\ sg'.threshold = t /\ sg'.ok \in BOOLEAN
         /\ \A q \in Registers : q # r1 /\ q # r2 => chip'[q] = chip[q]
         /\ \/ chip'[r1] = w1 /\ chip'[r2] = w2
            \/ chip'[r1] = w1 /\ chip'[r2] = chip[r2] /\ ~sg'.ok
            \/ chip' = chip /\ ~sg'.ok
<1> DEFINE first == Written(chip, r1, w1)
           second == Written(first, r2, w2)
<1>1. \/ chip' = second /\ sg' = [[enabled |-> on, threshold |-> t, ok |-> FALSE] EXCEPT !.ok = TRUE]
      \/ chip' \in {chip, first} /\ sg' = [enabled |-> on, threshold |-> t, ok |-> FALSE]
  BY DEF Both
<1>2. first \in Chips /\ first[r1] = w1 /\ \A q \in Registers : q # r1 => first[q] = chip[q]
  BY WrittenFact
<1> HIDE DEF first
<1>3. second \in Chips /\ second[r2] = w2 /\ \A q \in Registers : q # r2 => second[q] = first[q]
  BY <1>2, WrittenFact
<1> HIDE DEF second
<1>4. CASE chip' = second /\ sg' = [[enabled |-> on, threshold |-> t, ok |-> FALSE] EXCEPT !.ok = TRUE]
  <2>1. sg'.enabled = on
    BY <1>4
  <2>2. sg'.threshold = t
    BY <1>4
  <2>3. sg'.ok \in BOOLEAN
    BY <1>4
  <2> QED BY <1>2, <1>3, <1>4, <2>1, <2>2, <2>3
<1>5. CASE chip' \in {chip, first} /\ sg' = [enabled |-> on, threshold |-> t, ok |-> FALSE]
  <2>1. sg'.enabled = on
    BY <1>5
  <2>2. sg'.threshold = t
    BY <1>5
  <2>3. sg'.ok = FALSE
    BY <1>5
  <2> QED BY <1>2, <1>3, <1>5, <2>1, <2>2, <2>3
<1> QED BY <1>1, <1>4, <1>5

(* After a call of tmc5130_configure_stallguard.                                *)
LEMMA GuardFact ==
  ASSUME SetupInv, GuardInv, NEW on \in BOOLEAN, tmc5130_configure_stallguard(on, threshold),
         threshold' = threshold
  PROVE  /\ GuardInv' /\ chip' \in Chips /\ setup' = setup /\ sg'.enabled = on
         /\ \A q \in {"GCONF", "IHOLD_IRUN", "CHOPCONF"} : chip'[q] = chip[q]
<1>0. /\ "GCONF" \in Registers /\ "IHOLD_IRUN" \in Registers /\ "CHOPCONF" \in Registers
      /\ "COOLCONF" \in Registers /\ "TCOOLTHRS" \in Registers /\ chip \in Chips
      /\ threshold \in Thresholds /\ threshold \in -64..63
  BY DEF Registers, SetupInv, GuardInv
<1>1. CASE on
  <2>1. /\ Both("COOLCONF", Coolconf(threshold), "TCOOLTHRS", AlwaysOn,
                [enabled |-> TRUE, threshold |-> threshold, ok |-> FALSE])
        /\ setup' = setup
    BY <1>1 DEF tmc5130_configure_stallguard, Enable, AlwaysOn
  <2>2. Coolconf(threshold) \in Words /\ AlwaysOn \in Words /\ threshold \in Int
    BY <1>0, WordsFit
  <2>3. /\ chip' \in Chips /\ sg'.enabled = TRUE /\ sg'.threshold = threshold /\ sg'.ok \in BOOLEAN
        /\ \A q \in Registers : q # "COOLCONF" /\ q # "TCOOLTHRS" => chip'[q] = chip[q]
        /\ \/ chip'["COOLCONF"] = Coolconf(threshold) /\ chip'["TCOOLTHRS"] = AlwaysOn
           \/ /\ chip'["COOLCONF"] = Coolconf(threshold) /\ chip'["TCOOLTHRS"] = chip["TCOOLTHRS"]
              /\ ~sg'.ok
           \/ chip' = chip /\ ~sg'.ok
    BY <1>0, <2>1, <2>2, BothFact
  <2>4. chip'["TCOOLTHRS"] # {} => \E t \in Thresholds : chip'["COOLCONF"] = Coolconf(t)
    BY <1>0, <2>3 DEF GuardInv
  <2> QED BY <1>0, <1>1, <2>1, <2>3, <2>4 DEF GuardInv
<1>2. CASE ~on
  <2>2. PICK none \in Words, zero \in Int : none = {} /\ zero = 0
    BY WordsFit
  <2>1. /\ Both("TCOOLTHRS", none, "COOLCONF", none, [enabled |-> on, threshold |-> zero, ok |-> FALSE])
        /\ setup' = setup
    BY <1>2, <2>2, on = FALSE DEF tmc5130_configure_stallguard, Disable
  <2>3. /\ chip' \in Chips /\ sg'.enabled = FALSE /\ sg'.ok \in BOOLEAN
        /\ \A q \in Registers : q # "COOLCONF" /\ q # "TCOOLTHRS" => chip'[q] = chip[q]
        /\ \/ chip'["TCOOLTHRS"] = {}
           \/ chip' = chip /\ ~sg'.ok
    <3>1. "TCOOLTHRS" # "COOLCONF"
      OBVIOUS
    <3>2. /\ chip' \in Chips /\ sg'.enabled = on /\ sg'.ok \in BOOLEAN
          /\ \A q \in Registers : q # "TCOOLTHRS" /\ q # "COOLCONF" => chip'[q] = chip[q]
          /\ \/ chip'["TCOOLTHRS"] = none /\ chip'["COOLCONF"] = none
             \/ /\ chip'["TCOOLTHRS"] = none /\ chip'["COOLCONF"] = chip["COOLCONF"]
                /\ ~sg'.ok
             \/ chip' = chip /\ ~sg'.ok
      BY <1>0, <2>1, <3>1, BothFact
    <3> QED BY <1>2, <2>2, <3>2
  <2>4. chip'["TCOOLTHRS"] # {} => \E t \in Thresholds : chip'["COOLCONF"] = Coolconf(t)
    BY <1>0, <2>3 DEF GuardInv
  <2> QED BY <1>0, <1>2, <2>1, <2>3, <2>4 DEF GuardInv
<1> QED BY <1>1, <1>2

LEMMA RegisterInit == StallGuardInit => RegisterInv
<1> SUFFICES ASSUME StallGuardInit PROVE RegisterInv
  OBVIOUS
<1>0. /\ chip = NoRegister /\ setup = NoSetup /\ active = FALSE /\ enabled \in BOOLEAN
      /\ threshold \in Thresholds /\ threshold \in -64..63
  BY DEF StallGuardInit, Init, CalInit
<1>1. sg.ok = TRUE /\ sg.enabled = FALSE
  BY DEF StallGuardInit, Init
<1>2. NoRegister \in Chips /\ NoRegister["TCOOLTHRS"] = {}
  BY DEF NoRegister, Chips, Registers, Words
<1>3. SetupInv
  BY <1>0, <1>2 DEF SetupInv
<1>4. GuardInv
  BY <1>0, <1>1, <1>2 DEF GuardInv
<1> QED BY <1>0, <1>3, <1>4 DEF RegisterInv, ActiveInv

(* A StallGuard call leaves the set-up registers alone.                         *)
LEMMA SetupLeft ==
  ASSUME SetupInv, chip' \in Chips, setup' = setup, phase # "configure" \/ setup = NoSetup,
         \A q \in {"GCONF", "IHOLD_IRUN", "CHOPCONF"} : chip'[q] = chip[q],
         phase' = "configure" => phase = "configure"
  PROVE  SetupInv'
<1>1. /\ chip'["GCONF"] = chip["GCONF"] /\ chip'["IHOLD_IRUN"] = chip["IHOLD_IRUN"]
      /\ chip'["CHOPCONF"] = chip["CHOPCONF"]
  OBVIOUS
<1> QED BY <1>1 DEF SetupInv

LEMMA RegisterStep ==
  RegisterInv /\ [StallGuardNext]_<<vars, calvars, config, phase>> => RegisterInv'
<1> SUFFICES ASSUME RegisterInv, [StallGuardNext]_<<vars, calvars, config, phase>>
             PROVE  RegisterInv'
  OBVIOUS
<1>0. SetupInv /\ GuardInv /\ ActiveInv
  BY DEF RegisterInv
<1>1. ASSUME NEW s \in Setups, Configure(s) PROVE RegisterInv'
  <2>1. /\ tmc5130_configure(s) /\ phase = "configure" /\ chip \in Chips /\ setup = NoSetup
        /\ active' = active /\ ~active /\ enabled' = enabled /\ threshold' = threshold
        /\ phase' \in {"arm", "up"}
    BY <1>0, <1>1 DEF Configure, calvars, cal, config, SetupInv, ActiveInv
  <2>2. /\ chip' \in Chips /\ sg' = sg /\ s.ms \in Resolutions
        /\ chip'["COOLCONF"] = chip["COOLCONF"] /\ chip'["TCOOLTHRS"] = chip["TCOOLTHRS"]
        /\ \/ setup' = setup
           \/ /\ setup' = s /\ chip'["GCONF"] = Gconf /\ chip'["CHOPCONF"] = Chopconf(s.ms)
              /\ chip'["IHOLD_IRUN"] = HoldRun(s.run_mA, s.hold_mA)
    BY <2>1, ConfigureFact
  <2>3. SetupInv'
    BY <2>1, <2>2 DEF SetupInv
  <2>4. GuardInv'
    BY <1>0, <2>1, <2>2 DEF GuardInv
  <2>5. ActiveInv'
    BY <1>0, <2>1 DEF ActiveInv
  <2> QED BY <2>3, <2>4, <2>5 DEF RegisterInv
<1>2. CASE Arm
  <2>1. /\ tmc5130_configure_stallguard(enabled, threshold) /\ phase = "arm" /\ phase' = "up"
        /\ active' = active /\ ~active /\ enabled' = enabled /\ threshold' = threshold
        /\ enabled \in BOOLEAN
    BY <1>0, <1>2 DEF Arm, calvars, cal, config, ActiveInv
  <2>2. /\ GuardInv' /\ chip' \in Chips /\ setup' = setup
        /\ \A q \in {"GCONF", "IHOLD_IRUN", "CHOPCONF"} : chip'[q] = chip[q]
    BY <1>0, <2>1, GuardFact
  <2>3. SetupInv'
    BY <1>0, <2>1, <2>2, SetupLeft
  <2>4. ActiveInv'
    BY <1>0, <2>1 DEF ActiveInv
  <2> QED BY <2>2, <2>3, <2>4 DEF RegisterInv
<1>3. CASE Start
  <2>1. /\ tmc5130_configure_stallguard(TRUE, threshold) /\ phase = "up" /\ phase' = "up"
        /\ active' = TRUE /\ enabled' = enabled /\ threshold' = threshold /\ enabled \in BOOLEAN
    BY <1>0, <1>3 DEF Start, sg_calibration_start, config, ActiveInv
  <2>2. PICK on \in BOOLEAN : on = TRUE /\ tmc5130_configure_stallguard(on, threshold)
    BY <2>1, Zenon
  <2>3. /\ GuardInv' /\ chip' \in Chips /\ setup' = setup /\ sg'.enabled = on
        /\ \A q \in {"GCONF", "IHOLD_IRUN", "CHOPCONF"} : chip'[q] = chip[q]
    BY <1>0, <2>1, <2>2, GuardFact
  <2>4. SetupInv'
    BY <1>0, <2>1, <2>3, SetupLeft
  <2>5. ActiveInv'
    BY <2>1, <2>2, <2>3 DEF ActiveInv
  <2> QED BY <2>3, <2>4, <2>5 DEF RegisterInv
<1>4. CASE Finish
  <2>1. /\ tmc5130_configure_stallguard(TRUE, threshold) /\ phase = "up" /\ phase' = "up"
        /\ active' = FALSE /\ enabled' = TRUE /\ threshold' = threshold
    BY <1>4 DEF Finish, sg_calibration_finish
  <2>2. PICK on \in BOOLEAN : on = TRUE /\ tmc5130_configure_stallguard(on, threshold)
    BY <2>1, Zenon
  <2>3. /\ GuardInv' /\ chip' \in Chips /\ setup' = setup
        /\ \A q \in {"GCONF", "IHOLD_IRUN", "CHOPCONF"} : chip'[q] = chip[q]
    BY <1>0, <2>1, <2>2, GuardFact
  <2>4. SetupInv'
    BY <1>0, <2>1, <2>3, SetupLeft
  <2>5. ActiveInv'
    BY <2>1 DEF ActiveInv
  <2> QED BY <2>3, <2>4, <2>5 DEF RegisterInv
<1>5. CASE CalCancelled
  <2>1. /\ tmc5130_configure_stallguard(enabled, threshold) /\ phase = "up" /\ phase' = "up"
        /\ active' = FALSE /\ enabled' = enabled /\ threshold' = threshold /\ enabled \in BOOLEAN
    BY <1>0, <1>5 DEF CalCancelled, Cancel, config, ActiveInv
  <2>2. /\ GuardInv' /\ chip' \in Chips /\ setup' = setup
        /\ \A q \in {"GCONF", "IHOLD_IRUN", "CHOPCONF"} : chip'[q] = chip[q]
    BY <1>0, <2>1, GuardFact
  <2>3. SetupInv'
    BY <1>0, <2>1, <2>2, SetupLeft
  <2>4. ActiveInv'
    BY <2>1 DEF ActiveInv
  <2> QED BY <2>2, <2>3, <2>4 DEF RegisterInv
<1>6. ASSUME UNCHANGED vars, phase' = phase, active' = active, enabled' \in BOOLEAN,
             threshold' \in Thresholds, threshold' \in -64..63
      PROVE  RegisterInv'
  <2>1. chip' = chip /\ setup' = setup /\ sg' = sg
    BY <1>6 DEF vars
  <2>2. SetupInv'
    BY <1>0, <1>6, <2>1 DEF SetupInv
  <2>3. GuardInv'
    BY <1>0, <1>6, <2>1 DEF GuardInv
  <2>4. ActiveInv'
    BY <1>0, <1>6, <2>1 DEF ActiveInv
  <2> QED BY <2>2, <2>3, <2>4 DEF RegisterInv
<1>t. enabled \in BOOLEAN /\ threshold \in Thresholds /\ threshold \in -64..63
  BY <1>0 DEF ActiveInv, GuardInv
<1>7. ASSUME NEW v \in Readings, Sample(v) PROVE RegisterInv'
  BY <1>6, <1>7, <1>t DEF Sample, sg_calibration_add, config
<1>8. ASSUME NEW t \in Thresholds, SetThreshold(t) PROVE RegisterInv'
  BY <1>6, <1>8, <1>t DEF SetThreshold, calvars, cal
<1>9. ASSUME NEW on \in BOOLEAN, SetEnabled(on) PROVE RegisterInv'
  BY <1>6, <1>9, <1>t DEF SetEnabled, calvars, cal
<1>10. CASE UNCHANGED <<vars, calvars, config, phase>>
  BY <1>6, <1>10, <1>t DEF calvars, cal, config
<1> QED BY <1>1, <1>2, <1>3, <1>4, <1>5, <1>7, <1>8, <1>9, <1>10 DEF StallGuardNext

LEMMA RegistersKept == StallGuardSpec => []RegisterInv
<1>1. StallGuardInit => RegisterInv
  BY RegisterInit
<1>2. RegisterInv /\ [StallGuardNext]_<<vars, calvars, config, phase>> => RegisterInv'
  BY RegisterStep
<1> QED BY <1>1, <1>2, PTL DEF StallGuardSpec

---------------------------------------------------------------------------------
(* What the chip reads out of the words.                                        *)
LEMMA NothingOn == Value({}, 0, 19) = 0
<1> DEFINE g == [k \in (0 - 1)..19 |-> 0]
<1>1. Rises(g, {}, 0, 19)
  BY DEF Rises
<1>2. Value({}, 0, 19) = g[19]
  BY <1>1, ValueFact
<1> QED BY <1>2

LEMMA LowBits ==
  ASSUME NEW t \in Signed7
  PROVE  Bits(t % 256, 7) = Bits((t % 256) % 128, 7)
<1> DEFINE a == t % 256
           b == (t % 256) % 128
<1>1. a \in Nat /\ b \in Nat /\ (a = b \/ a = b + 128)
  BY DEF Signed7
<1> HIDE DEF a, b
<1>2. ASSUME NEW p \in {1, 2, 4, 8, 16, 32, 64} PROVE (a \div p) % 2 = (b \div p) % 2
  BY <1>1
<1>3. ASSUME NEW k \in 0..6 PROVE (a \div 2^k) % 2 = (b \div 2^k) % 2
  <2>1. k \in Nat /\ (k = 0 \/ k = 1 \/ k = 2 \/ k = 3 \/ k = 4 \/ k = 5 \/ k = 6)
    OBVIOUS
  <2>2. 2^k \in {1, 2, 4, 8, 16, 32, 64}
    BY <2>1, Powers
  <2> QED BY <1>2, <2>2, Zenon
<1>4. 7 - 1 = 6
  OBVIOUS
<1>5. /\ Bits(a, 7) = {k \in 0..6 : (a \div 2^k) % 2 = 1}
      /\ Bits(b, 7) = {k \in 0..6 : (b \div 2^k) % 2 = 1}
  BY <1>4, Zenon DEF Bits
<1>6. ASSUME NEW k PROVE k \in Bits(a, 7) <=> k \in Bits(b, 7)
  <2>1. k \in Bits(a, 7) <=> k \in 0..6 /\ (a \div 2^k) % 2 = 1
    BY <1>5, Zenon
  <2>2. k \in Bits(b, 7) <=> k \in 0..6 /\ (b \div 2^k) % 2 = 1
    BY <1>5, Zenon
  <2> QED BY <1>3, <2>1, <2>2, Zenon
<1>7. Bits(a, 7) = Bits(b, 7)
  BY <1>6, Zenon
<1> QED BY <1>7 DEF a, b

LEMMA ThresholdFact ==
  ASSUME NEW t \in Signed7
  PROVE  LET v == Value(Coolconf(t), 16, 22) IN (IF v >= 64 THEN v - 128 ELSE v) = t
<1> DEFINE m == (t % 256) % 128
           w == Coolconf(t)
<1>1. m \in Nat /\ m < 128
  BY DEF Signed7
<1>2. \A j \in 0..6 : 16 + j \in w <=> j \in Bits(m, 7)
  <2>1. \A j \in 0..6 : 16 + j \in Coolconf(t) <=> j \in Bits(t % 256, 7)
    BY CoolWord
  <2>2. Bits(t % 256, 7) = Bits((t % 256) % 128, 7)
    BY LowBits
  <2> QED BY <2>1, <2>2, Zenon
<1>3. m = IF t >= 0 THEN t ELSE t + 128
  BY DEF Signed7
<1> HIDE DEF m, w
<1>4. Value(w, 16, 16 + 7 - 1) = m
  <2>1. 7 \in {2, 4, 5, 7} /\ 16 \in Nat /\ 7 - 1 = 6
    OBVIOUS
  <2> QED BY <1>1, <1>2, <2>1, FieldFact
<1>5. 16 + 7 - 1 = 22
  OBVIOUS
<1>6. Value(w, 16, 22) = m
  BY <1>4, <1>5, Zenon
<1> QED BY <1>3, <1>6 DEF w, Signed7

LEMMA SevenBitsOn ==
  ASSUME NEW t
  PROVE  Cardinality(Coolconf(t)) =< 7
<1>1. IsFiniteSet(16..22) /\ Cardinality(16..22) = 7
  <2>1. \A a, b \in Int : IsFiniteSet(a..b) /\ Cardinality(a..b) = IF a > b THEN 0 ELSE b - a + 1
    BY FS_Interval, Zenon
  <2>2. 16 \in Int /\ 22 \in Int /\ ~(16 > 22) /\ 22 - 16 + 1 = 7
    OBVIOUS
  <2> QED BY <2>1, <2>2, Zenon
<1>2. Coolconf(t) \subseteq 16..22
  BY CoolWord
<1>3. Cardinality(Coolconf(t)) =< Cardinality(16..22)
  BY <1>1, <1>2, FS_Subset, Zenon
<1> QED BY <1>1, <1>3

LEMMA CurrentsTaken ==
  ASSUME NEW r \in Milliamperes, NEW h \in Milliamperes, h =< r
  PROVE  LET run  == Current(Value(HoldRun(r, h), 8, 12))
             hold == Current(Value(HoldRun(r, h), 0, 4))
         IN  run - r \in -20..20 /\ hold - h \in -20..20 /\ hold =< run
<1> DEFINE w == HoldRun(r, h)
           a == Scale(r)
           b == Scale(h)
<1>1. /\ a \in 0..31 /\ b \in 0..31 /\ Current(a) - r \in -20..20 /\ Current(b) - h \in -20..20
      /\ Current(b) =< Current(a)
  <2>1. a \in 0..31 /\ Current(a) - r \in -20..20
    BY CurrentFact, Zenon
  <2>2. b \in 0..31 /\ Current(b) - h \in -20..20
    BY CurrentFact, Zenon
  <2>3. Current(b) =< Current(a)
    BY CurrentsOrdered, Zenon
  <2> QED BY <2>1, <2>2, <2>3
<1>2. /\ \A j \in 0..4 : 0 + j \in w <=> j \in Bits(b, 5)
      /\ \A j \in 0..4 : 8 + j \in w <=> j \in Bits(a, 5)
  BY HoldRunWord DEF HoldRun
<1> HIDE DEF a, b, w
<1>3. 5 \in {2, 4, 5, 7} /\ 0 \in Nat /\ 8 \in Nat /\ 5 - 1 = 4
  OBVIOUS
<1>4. Value(w, 8, 8 + 5 - 1) = a
  BY <1>1, <1>2, <1>3, FieldFact
<1>5. Value(w, 0, 0 + 5 - 1) = b
  BY <1>1, <1>2, <1>3, FieldFact
<1>6. 8 + 5 - 1 = 12 /\ 0 + 5 - 1 = 4
  OBVIOUS
<1>7. Value(w, 8, 12) = a /\ Value(w, 0, 4) = b
  BY <1>4, <1>5, <1>6, Zenon
<1> QED BY <1>1, <1>7, Zenon DEF w, a, b

LEMMA ChopperTaken ==
  ASSUME NEW ms \in Resolutions
  PROVE  /\ 256 \div 2^Value(Chopconf(ms), 24, 27) = ms
         /\ Value(Chopconf(ms), 0, 3) = 3 /\ Value(Chopconf(ms), 15, 16) = 1
<1> DEFINE w == Chopconf(ms)
           m == Mres(ms)
<1>1. /\ \A j \in 0..3 : 0 + j \in w <=> j \in Bits(3, 4)
      /\ \A j \in 0..1 : 15 + j \in w <=> j \in Bits(1, 2)
      /\ \A j \in 0..3 : 24 + j \in w <=> j \in Bits(m, 4)
  BY ChopperWord, Zenon DEF Chopconf
<1>2. m \in 0..8 /\ 256 \div 2^m = ms
  BY MresFact, Zenon
<1> HIDE DEF m, w
<1>3. /\ 4 \in {2, 4, 5, 7} /\ 2 \in {2, 4, 5, 7} /\ 0 \in Nat /\ 15 \in Nat /\ 24 \in Nat
      /\ 4 - 1 = 3 /\ 2 - 1 = 1
  OBVIOUS
<1>4. Value(w, 24, 24 + 4 - 1) = m
  BY <1>1, <1>2, <1>3, FieldFact
<1>5. Value(w, 0, 0 + 4 - 1) = 3
  BY <1>1, <1>3, FieldFact
<1>6. Value(w, 15, 15 + 2 - 1) = 1
  BY <1>1, <1>3, FieldFact
<1>7. 24 + 4 - 1 = 27 /\ 0 + 4 - 1 = 3 /\ 15 + 2 - 1 = 16
  OBVIOUS
<1>8. Value(w, 24, 27) = m /\ Value(w, 0, 3) = 3 /\ Value(w, 15, 16) = 1
  BY <1>4, <1>5, <1>6, <1>7, Zenon
<1> QED BY <1>2, <1>8, Zenon DEF w, m

(* What configure and configure_stallguard were called with is what the chip    *)
(* reads out of its registers, through any order of failing and repeated calls. *)
THEOREM SetupsTaken == StallGuardSpec => []SetupTaken
<1>1. RegisterInv => SetupTaken
  <2> SUFFICES ASSUME RegisterInv PROVE SetupTaken
    OBVIOUS
  <2>0. SetupInv /\ GuardInv
    BY DEF RegisterInv
  <2>1. ASSUME setup # NoSetup
        PROVE  /\ ChipMicrosteps = setup.ms /\ chip.GCONF = {1}
               /\ Value(chip.CHOPCONF, 0, 3) = 3 /\ Value(chip.CHOPCONF, 15, 16) = 1
               /\ ChipRun - setup.run_mA \in -20..20 /\ ChipHold - setup.hold_mA \in -20..20
               /\ ChipHold =< ChipRun
    <3>1. /\ setup \in Setups /\ setup.ms \in Resolutions
          /\ chip["GCONF"] = Gconf /\ chip["CHOPCONF"] = Chopconf(setup.ms)
          /\ chip["IHOLD_IRUN"] = HoldRun(setup.run_mA, setup.hold_mA)
      BY <2>0, <2>1 DEF SetupInv
    <3>2. setup.run_mA \in 200..1200 /\ setup.hold_mA \in 200..1200 /\ setup.hold_mA =< setup.run_mA
      BY <3>1, TmcRegistersAssumption
    <3>3. /\ ChipMicrosteps = setup.ms
          /\ Value(chip.CHOPCONF, 0, 3) = 3 /\ Value(chip.CHOPCONF, 15, 16) = 1
      BY <3>1, ChopperTaken, Zenon DEF ChipMicrosteps
    <3>4. /\ ChipRun - setup.run_mA \in -20..20 /\ ChipHold - setup.hold_mA \in -20..20
          /\ ChipHold =< ChipRun
      <4> DEFINE r == setup.run_mA
                 h == setup.hold_mA
                 run  == Current(Value(HoldRun(r, h), 8, 12))
                 hold == Current(Value(HoldRun(r, h), 0, 4))
      <4>1. run - r \in -20..20 /\ hold - h \in -20..20 /\ hold =< run
        <5> HIDE DEF r, h
        <5>1. r \in 200..1200 /\ h \in 200..1200 /\ h =< r
          BY <3>2 DEF r, h
        <5>2. r \in Milliamperes /\ h \in Milliamperes
          BY <5>1 DEF Milliamperes
        <5> QED BY <5>1, <5>2, CurrentsTaken
      <4>2. ChipRun = run /\ ChipHold = hold
        BY <3>1 DEF ChipRun, ChipHold
      <4> QED BY <4>1, <4>2, Zenon
    <3> QED BY <3>1, <3>3, <3>4, GconfWord
  <2>2. ASSUME sg.ok
        PROVE  /\ ChipSgOn = sg.enabled
               /\ sg.enabled => ChipSgt = sg.threshold /\ Cardinality(chip.COOLCONF) =< 7
    <3>1. CASE sg.enabled
      <4>1. /\ sg.threshold \in -64..63 /\ chip["TCOOLTHRS"] = AlwaysOn
            /\ chip["COOLCONF"] = Coolconf(sg.threshold)
        BY <2>0, <2>2, <3>1 DEF GuardInv
      <4>2. ChipSgOn
        BY <4>1, AlwaysOnWord DEF ChipSgOn, AlwaysOn
      <4>6. sg.threshold \in Signed7
        BY <4>1 DEF Signed7
      <4>3. ChipSgt = sg.threshold
        BY <4>1, <4>6, ThresholdFact, Zenon DEF ChipSgt
      <4>4. Cardinality(chip.COOLCONF) =< 7
        BY <4>1, SevenBitsOn
      <4>5. sg.enabled \in BOOLEAN
        BY <2>0 DEF GuardInv
      <4> QED BY <3>1, <4>2, <4>3, <4>4, <4>5
    <3>2. CASE ~sg.enabled
      <4>1. ChipSgOn = FALSE
        BY <2>0, <2>2, <3>2, NothingOn DEF GuardInv, ChipSgOn
      <4>2. sg.enabled \in BOOLEAN
        BY <2>0 DEF GuardInv
      <4> QED BY <3>2, <4>1, <4>2
    <3> QED BY <3>1, <3>2
  <2> QED BY <2>1, <2>2 DEF SetupTaken
<1> QED BY <1>1, RegistersKept, PTL

(* StallGuard is never on with the cleared threshold, whichever of the two      *)
(* writes of an arming or a disarming fails.                                    *)
THEOREM NeverOnClearedThreshold == StallGuardSpec => []NeverOnCleared
<1>1. RegisterInv => NeverOnCleared
  <2> SUFFICES ASSUME RegisterInv, ChipSgOn
               PROVE  \E t \in Thresholds : chip["COOLCONF"] = Coolconf(t)
    BY DEF NeverOnCleared
  <2>1. chip["TCOOLTHRS"] # {}
    BY NothingOn DEF ChipSgOn
  <2> QED BY <2>1 DEF RegisterInv, GuardInv
<1> QED BY <1>1, RegistersKept, PTL

(* While a measurement counts samples after a START that reached the chip, the  *)
(* chip measures the load: no SET, cancellation or refused result in between    *)
(* has turned StallGuard off.                                                   *)
THEOREM MeasuresLoad == StallGuardSpec => []SamplesMeasured
<1>1. RegisterInv => SamplesMeasured
  <2> SUFFICES ASSUME RegisterInv, active, sg.ok PROVE ChipSgOn
    BY DEF SamplesMeasured
  <2>1. chip["TCOOLTHRS"] = AlwaysOn
    BY DEF RegisterInv, GuardInv, ActiveInv
  <2> QED BY <2>1, AlwaysOnWord DEF ChipSgOn, AlwaysOn
<1> QED BY <1>1, RegistersKept, PTL
=================================================================================
