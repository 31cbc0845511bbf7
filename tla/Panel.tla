--------------------------------- MODULE Panel ---------------------------------
(* The front panel: the contacts, sampled by the motor task, and the LED,       *)
(* driven by a task of the lowest priority, each at its own pace.               *)
EXTENDS Buttons, StatusLed

PanelInit == Init /\ LedInit

PanelNext == (Next /\ UNCHANGED ledvars) \/ (LedNext /\ UNCHANGED vars)

PanelSpec == PanelInit /\ [][PanelNext]_<<vars, ledvars>> /\ LedFairness
================================================================================
