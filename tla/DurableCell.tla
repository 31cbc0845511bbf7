------------------------------ MODULE DurableCell ------------------------------
(* What config_store.c promises of the configuration in flash: one value that *)
(* changes when the write that was begun takes effect and never otherwise,    *)
(* wherever the power is cut.  ConfigStore implements it.                     *)

CONSTANTS Values, Default, None

VARIABLES value,    \* what a restart would load
          older,    \* the value before it, if the flash still holds one
          pending   \* the value being written, or None

cell == <<value, older, pending>>

Init == value \in Values /\ older \in Values /\ pending = None

Begin == pending = None /\ pending' \in Values /\ UNCHANGED <<value, older>>

(* Making room loses the older value, never the current one.                  *)
Forget == pending # None /\ older' = Default /\ UNCHANGED <<value, pending>>

Commit == pending # None /\ value' = pending /\ older' = value /\ pending' = None

Abandon == pending' = None /\ UNCHANGED <<value, older>>

(* A factory reset erases the two copies one after the other: cut in between, *)
(* it can leave the older one.                                                *)
Wipe == /\ pending = None
        /\ value' \in {value, older, Default} /\ older' \in {older, Default} /\ UNCHANGED pending

Next == Begin \/ Forget \/ Commit \/ Abandon \/ Wipe

Spec == Init /\ [][Next]_cell
================================================================================
