----------------------------- MODULE MCStallGuard -----------------------------
(* The run currents in steps of 20 mA, held at the lowest current or at their   *)
(* own, every resolution and one the chip does not have; thresholds at the      *)
(* edges of their seven bits (zero is left out, it looks like no threshold);    *)
(* readings whose average is at the lowest one accepted, and one of eleven bits. *)
EXTENDS StallGuard

Runs == {200 + 20 * k : k \in 0..50}
DefaultSetup == [ms |-> 16, run_mA |-> 800, hold_mA |-> 300]

MCSetups == {[DefaultSetup EXCEPT !.run_mA = r, !.hold_mA = 200] : r \in Runs}
            \cup {[DefaultSetup EXCEPT !.run_mA = r, !.hold_mA = r] : r \in Runs}
            \cup {[DefaultSetup EXCEPT !.ms = m] : m \in Resolutions \cup {48}}

MCThresholds == {-64, -1, 63}

(* Calibrations are explored on the chip as the default set-up leaves it, whole *)
(* or cut short; StallGuard does not depend on the others.                      *)
CalibratedSetups ==
  phase = "up" =>
    chip.IHOLD_IRUN \in {{}, HoldRun(DefaultSetup.run_mA, DefaultSetup.hold_mA)}
===============================================================================
