------------------------------ MODULE AppState ------------------------------
(* The application state machine of src/app_state.c: a record              *)
(* [state, fault_code] and the one function that moves it, app_state_dispatch. *)
(* The module has no state of its own: the motor task (Dispenser) owns the   *)
(* machine and calls Dispatch.                                               *)

States == {"BOOT", "READY", "MANUAL_PUSH", "MANUAL_PULL", "DOSING",
           "RETRACTING", "HOMING", "STOPPING", "FAULT"}

Events == {"INIT_OK", "PUSH", "PULL", "RELEASE", "DOSE", "MOVE_DONE",
           "STOPPED", "HOME", "STOP", "FAULT", "RESET"}

(* safety_fault_t, which is also the domain of app_machine_t.fault_code. *)
Faults == {"OK", "BUTTON_CONFLICT", "SPI", "OVERTEMP", "STALL", "TIMEOUT", "LIMIT"}

Machines == [state : States, fault_code : Faults]

ManualStates == {"MANUAL_PUSH", "MANUAL_PULL"}

(* The states the motor task reports as movement (motor_moving). *)
MotionStates == ManualStates \cup {"DOSING", "RETRACTING", "HOMING"}

MachineInit == [state |-> "BOOT", fault_code |-> "OK"]

(* The rows of the switch that lead to READY. *)
BackToReady == {<<"BOOT", "INIT_OK">>, <<"RETRACTING", "MOVE_DONE">>,
                <<"HOMING", "MOVE_DONE">>, <<"STOPPING", "STOPPED">>, <<"FAULT", "RESET">>}

(* FAULT from anywhere, STOP from anywhere but FAULT, else the switch; an     *)
(* event the switch does not list leaves the state alone.                     *)
NextState(s, e) ==
  CASE e = "FAULT"                                 -> "FAULT"
    [] e = "STOP" /\ s # "FAULT"                   -> "STOPPING"
    [] s \in ManualStates /\ e = "RELEASE"         -> "STOPPING"
    [] s = "READY" /\ e = "PUSH"                   -> "MANUAL_PUSH"
    [] s = "READY" /\ e = "PULL"                   -> "MANUAL_PULL"
    [] s = "READY" /\ e = "DOSE"                   -> "DOSING"
    [] s = "READY" /\ e = "HOME"                   -> "HOMING"
    [] s = "DOSING" /\ e = "MOVE_DONE"             -> "RETRACTING"
    [] <<s, e>> \in BackToReady                    -> "READY"
    [] OTHER                                       -> s

(* Faulty variant: the acknowledgement keeps the code.                        *)
Dispatch_keepcode(m, e) == [m EXCEPT !.state = NextState(m.state, e)]

Dispatch(m, e) ==
  [state      |-> NextState(m.state, e),
   fault_code |-> IF m.state = "FAULT" /\ e = "RESET" THEN "OK" ELSE m.fault_code]
=============================================================================
