------------------------------- MODULE Tmc5130 -------------------------------
(* The TMC5130A ramp generator as the firmware sees it (the chip is external) *)
(* and the driver of src/tmc5130.c on top of it.                              *)
(*                                                                            *)
(* A driver call is a short list of SPI transfers joined by &&: it stops at   *)
(* the first one whose status byte reads 0xFF.  A call is therefore the SET   *)
(* of its outcomes [regs, ok]: everything written, or the registers as any    *)
(* failing transfer can leave them (the failing one may or may not have       *)
(* reached the chip).  Registers that never influence motion are left out.    *)
EXTENDS Integers

CONSTANT DriverPresent      \* FALSE: MISO held low, IOIN.version reads 0

ASSUME DriverPresentAssumption == DriverPresent \in BOOLEAN

Registers == [RAMPMODE : {"POSITION", "VELPOS", "VELNEG"}, VMAX : Nat,
              XACTUAL : Int, XTARGET : Int, VACTUAL : {-1, 0, 1}, enabled : BOOLEAN]

(* VACTUAL keeps only its sign; enabled is the ENN pin, driven by a GPIO.     *)
PowerOnRegs == [RAMPMODE |-> "POSITION", VMAX |-> 0, XACTUAL |-> 0,
                XTARGET |-> 0, VACTUAL |-> 0, enabled |-> FALSE]

----------------------------------------------------------------------------
(* The ramp generator.                                                        *)

Sign(n) == IF n > 0 THEN 1 ELSE IF n < 0 THEN -1 ELSE 0

(* The direction the registers ask for: none when VMAX is 0, else the side of *)
(* the target in position mode, else the sign of the velocity mode.           *)
DriveDir(t) ==
  IF t.VMAX = 0 THEN 0
  ELSE CASE t.RAMPMODE = "VELPOS" -> 1
         [] t.RAMPMODE = "VELNEG" -> -1
         [] OTHER                 -> Sign(t.XTARGET - t.XACTUAL)

Arrived(t) == t.RAMPMODE = "POSITION" /\ t.XACTUAL = t.XTARGET

(* One microstep under drive; position mode comes to rest on its target.      *)
Advance(t) ==
  LET moved == [t EXCEPT !.XACTUAL = @ + DriveDir(t), !.VACTUAL = DriveDir(t)]
  IN  IF Arrived(moved) THEN [moved EXCEPT !.VACTUAL = 0] ELSE moved

(* One microstep while decelerating from a motion no longer asked for.        *)
Coast(t) == [t EXCEPT !.XACTUAL = @ + t.VACTUAL]

Halt(t) == [t EXCEPT !.VACTUAL = 0]

----------------------------------------------------------------------------
(* SPI transfers.                                                             *)

Outcomes == [regs : Registers, ok : BOOLEAN]

(* partial: the registers before each transfer of the call; final: after all. *)
Outcome(partial, final) ==
  {[regs |-> final, ok |-> TRUE]} \cup [regs : partial \cup {final}, ok : {FALSE}]

Cost(o) == IF o.ok THEN 0 ELSE 1        \* failed calls, counted against a budget

Write(t, r, v) == IF DriverPresent THEN [t EXCEPT ![r] = v] ELSE t

(* A failed read returns all ones: -1 in the signed registers.                *)
Read(t, r) == {[value |-> t[r], ok |-> TRUE], [value |-> -1, ok |-> FALSE]}

----------------------------------------------------------------------------
(* tmc5130.c                                                                  *)

tmc5130_velocity(t, d, v) ==
  LET limit == Write(t, "VMAX", v)
  IN  Outcome({t, limit}, Write(limit, "RAMPMODE", IF d > 0 THEN "VELPOS" ELSE "VELNEG"))

(* Faulty variant: holds the position and leaves the velocity.                *)
tmc5130_stop_hold(t) == Outcome({t}, Write(t, "XTARGET", t.XACTUAL))

tmc5130_stop(t) == Outcome({t}, Write(t, "VMAX", 0))

(* init, configure, enable, set_ramp in the order motor_init calls them.  The *)
(* ramp set-up writes VMAX and never RAMPMODE or XTARGET; a chip that does    *)
(* not answer fails on IOIN.version with its power stage left off.            *)
tmc5130_start(t, v) ==
  LET off == [t EXCEPT !.enabled = FALSE]
      on  == [t EXCEPT !.enabled = TRUE]
  IN  IF DriverPresent THEN Outcome({off, on}, Write(on, "VMAX", v))
                       ELSE {[regs |-> off, ok |-> FALSE]}
=============================================================================
