--------------------------------- MODULE Axis ---------------------------------
(* What the dispenser promises about its one axis, without the loop, the      *)
(* driver or the links: when it may be told to move and which way the         *)
(* software limits then guard.  Dispenser implements it (AxisSpec there).     *)
EXTENDS Integers

VARIABLES mode,     \* "off" until set up
          dir       \* the direction of the motion the limits guard, 0 for none

axis == <<mode, dir>>

Init == mode = "off" /\ dir = 0

(* A motion starts from rest only, one at a time.                             *)
Start == mode = "idle" /\ mode' = "busy" /\ dir' \in {-1, 1}

(* The dwell between a dose and its retraction, which always pulls.           *)
Pause == mode = "busy" /\ dir # 0 /\ dir' = 0 /\ UNCHANGED mode

Resume == mode = "busy" /\ dir = 0 /\ dir' = -1 /\ UNCHANGED mode

Done == mode = "busy" /\ mode' = "idle" /\ dir' = 0

Stop == mode \in {"idle", "busy"} /\ mode' = "halting" /\ dir' = 0

Rest == mode = "halting" /\ mode' = "idle" /\ UNCHANGED dir

Fail == mode # "fault" /\ mode' = "fault" /\ dir' = 0

(* The only way out of a fault, short of a restart.                           *)
Acknowledge == mode = "fault" /\ mode' = "idle" /\ UNCHANGED dir

PowerOn == mode = "off" /\ mode' = "idle" /\ UNCHANGED dir

Crash == mode' = "off" /\ dir' = 0

Next == Start \/ Pause \/ Resume \/ Done \/ Stop \/ Rest \/ Fail \/ Acknowledge \/ PowerOn \/ Crash

Spec == Init /\ [][Next]_axis
=============================================================================
