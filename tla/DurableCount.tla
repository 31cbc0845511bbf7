----------------------------- MODULE DurableCount -----------------------------
(* What statistics.c promises of the activation count, wherever the power is   *)
(* cut: a restart counts on from the newest record, which is the last one      *)
(* saved or the one under way; records go in a factory reset or to make room   *)
(* for another; and a save can be lost only while there were no more saves     *)
(* since the restart than cuts had damaged pages.  Statistics implements it.   *)
EXTENDS Naturals

VARIABLES records,          \* the records the flash holds
          writing,          \* the record being saved, in a set of its own
          reset,            \* how far a factory reset is
          count, unsaved,   \* the count in RAM
          saves,            \* saves reported since the restart
          damage            \* pages power cuts have damaged

store == <<records, writing, reset>>
counter == <<store, count, unsaved, saves, damage>>

Records == [sequence : Nat, count : Nat]

(* The record a restart counts on from.                                        *)
Newest(R) == IF R = {} THEN [sequence |-> 0, count |-> 0]
             ELSE CHOOSE r \in R : \A q \in R : q.sequence =< r.sequence

Shrinks == records' \subseteq records
Keeps == Shrinks /\ Newest(records') = Newest(records)

AtRest == writing = {} /\ reset = "none"

Init == /\ records = {} /\ writing = {} /\ reset = "none"
        /\ count = 0 /\ unsaved = FALSE /\ saves = 0 /\ damage = 0

Counts == /\ AtRest /\ count' \in {count + 1, 0} /\ unsaved' = TRUE
          /\ UNCHANGED <<store, saves, damage>>

Begin == /\ AtRest /\ unsaved
         /\ \E r \in writing' : /\ writing' = {r} /\ r \in Records /\ r.count = count
                                /\ \A q \in records : q.sequence < r.sequence
         /\ UNCHANGED <<records, reset, count, unsaved, saves, damage>>

MakeRoom == /\ writing # {} /\ Keeps
            /\ UNCHANGED <<writing, reset, count, unsaved, saves, damage>>

(* The other core could not be stopped: the count is still to be saved.        *)
Abandon == /\ writing # {} /\ writing' = {}
           /\ UNCHANGED <<records, reset, count, unsaved, saves, damage>>

(* The save is reported.                                                       *)
Saved == /\ writing # {} /\ writing' = {} /\ unsaved' = FALSE /\ saves' = saves + 1
         /\ UNCHANGED <<reset, count, damage>>

Commit == Saved /\ records' = records \cup writing
Lose == Saved /\ records' = records /\ saves < damage

Resets == /\ AtRest /\ reset' = "wiping"
          /\ UNCHANGED <<records, writing, count, unsaved, saves, damage>>

Wipe == /\ reset = "wiping"
        /\ \/ Shrinks /\ UNCHANGED reset
           \/ records' = {} /\ reset' = "done"
        /\ UNCHANGED <<writing, count, unsaved, saves, damage>>

Restarts == /\ writing' = {} /\ reset' = "none" /\ unsaved' = FALSE /\ saves' = 0
            /\ count' = Newest(records').count

Restart == /\ AtRest \/ reset = "done"
           /\ UNCHANGED <<records, damage>> /\ Restarts

CutSave == /\ writing # {} /\ Restarts
           /\ Keeps \/ records' = records \cup writing
           /\ damage' \in {damage, damage + 1}

CutReset == reset = "wiping" /\ Restarts /\ Shrinks /\ damage' >= damage

Next == \/ Counts \/ Begin \/ MakeRoom \/ Abandon \/ Commit \/ Lose
        \/ Resets \/ Wipe \/ Restart \/ CutSave \/ CutReset

Spec == Init /\ [][Next]_counter
===============================================================================
