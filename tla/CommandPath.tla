------------------------------ MODULE CommandPath ------------------------------
(* The way of a command to the motor task: the BLE callbacks store it in the   *)
(* one-place mailbox of src/ble_service.c, the communication task of           *)
(* src/app_tasks.c takes it out and submits it to the command queue, as does   *)
(* the USB task with the lines it reads, and the motor task receives it.       *)
(*                                                                             *)
(* The callbacks run in interrupt context, the tasks on two cores, and nothing *)
(* protects the mailbox: any two steps may interleave.  A command is its kind  *)
(* and its arguments, which are copied one after the other; the arguments of   *)
(* STOP are none.                                                              *)
EXTENDS Naturals, Sequences, Functions

CONSTANTS QueueLength,      \* COMMAND_QUEUE_LENGTH, 8 in the code
          MaxStops          \* bound on the STOPs

ASSUME CommandPathAssumption == QueueLength \in Nat \ {0} /\ MaxStops \in Nat

VARIABLES pending, has_command,   \* the mailbox
          callback,               \* the BLE callback storing a command
          connected, radio_ready,
          task,                   \* the communication task and the USB task
          queue,
          stops,                  \* history: STOPs accepted
          executed,               \* history: the last STOP executed, by interface
          owed,                   \* history: a STOP was accepted, none executed since
          raced                   \* history: a STOP met one of the two races

mailbox == <<pending, has_command, callback>>
link == <<connected, radio_ready>>
history == <<stops, executed, owed, raced>>
vars == <<mailbox, link, task, queue, history>>

Interfaces == {"ble", "usb"}

(* epoch: the STOPs accepted before the command, a STOP's own included.        *)
Commands == [kind : {"START", "STOP"}, args : {"own", "none"},
             from : Interfaces, epoch : 0..(MaxStops + 1)]

Cmd(kind, from, epoch) ==
  [kind |-> kind, args |-> IF kind = "STOP" THEN "none" ELSE "own", from |-> from, epoch |-> epoch]

Nothing == Cmd("STOP", "ble", 0)
AtRest == [step |-> "idle", command |-> Nothing]

Init == /\ pending = Nothing /\ has_command = FALSE /\ callback = AtRest
        /\ connected = FALSE /\ radio_ready = FALSE
        /\ task = [p \in Interfaces |-> AtRest]
        /\ queue = <<>>
        /\ stops = 0 /\ executed = [p \in Interfaces |-> 0] /\ owed = FALSE /\ raced = FALSE

(* The communication task is between its test of has_command and the moment it *)
(* clears it.                                                                  *)
Taking == task["ble"].step \in {"kind", "args", "clear"}

Overlap == callback.step # "idle" /\ callback.command.kind = "STOP" /\ Taking

Became(p, step) == task' = [task EXCEPT ![p].step = step]

----------------------------------------------------------------------------
(* The BLE callbacks.                                                          *)

RadioUp == /\ ~radio_ready /\ radio_ready' = TRUE
           /\ UNCHANGED <<mailbox, connected, task, queue, stops, executed, owed>>

Connect == /\ ~connected /\ connected' = TRUE /\ callback.step = "idle"
           /\ UNCHANGED <<mailbox, radio_ready, task, queue, stops, executed, owed>>

(* A command is on its way into the mailbox; a STOP gets its number.           *)
Storing(kind) ==
  /\ callback.step = "idle"
  /\ kind = "STOP" => stops < MaxStops
  /\ stops' = IF kind = "STOP" THEN stops + 1 ELSE stops
  /\ callback' = [step |-> "kind", command |-> Cmd(kind, "ble", stops')]
  /\ owed' = (owed \/ kind = "STOP")
  /\ UNCHANGED <<pending, has_command, radio_ready, task, queue, executed>>

(* Faulty variant: any command may overwrite one that waits.                   *)
Write_busy(kind) == connected /\ Storing(kind) /\ UNCHANGED connected

(* uart_command: only STOP may overwrite a command that waits (ERR BUSY).      *)
Write(kind) == /\ connected /\ (kind = "STOP" \/ ~has_command)
               /\ Storing(kind)
               /\ UNCHANGED connected

(* Losing the link stops the machine, whatever the mailbox holds.              *)
Disconnect == connected /\ connected' = FALSE /\ Storing("STOP")

StoreKind == /\ callback.step = "kind" /\ callback' = [callback EXCEPT !.step = "args"]
             /\ pending' = [callback.command EXCEPT !.args = pending.args]
             /\ UNCHANGED <<has_command, link, task, queue, stops, executed, owed>>

StoreArgs == /\ callback.step = "args" /\ callback' = [callback EXCEPT !.step = "flag"]
             /\ pending' = [pending EXCEPT !.args = callback.command.args]
             /\ UNCHANGED <<has_command, link, task, queue, stops, executed, owed>>

(* The answer OK QUEUED: from here on a later STOP must remove the command.    *)
StoreFlag == /\ callback.step = "flag" /\ callback' = AtRest
             /\ has_command' = TRUE
             /\ pending' = IF pending.kind = "STOP" THEN pending ELSE [pending EXCEPT !.epoch = stops]
             /\ UNCHANGED <<link, task, queue, stops, executed, owed>>

----------------------------------------------------------------------------
(* The communication task: ble_service_take_command, then submit_command.      *)

(* Faulty variant: takes commands from a connected client only.                *)
TakeSeen_connected == /\ task["ble"].step = "idle" /\ radio_ready /\ connected /\ has_command
                      /\ Became("ble", "kind")
                      /\ UNCHANGED <<mailbox, link, queue, stops, executed, owed>>

TakeSeen == /\ task["ble"].step = "idle" /\ radio_ready /\ has_command
            /\ Became("ble", "kind")
            /\ UNCHANGED <<mailbox, link, queue, stops, executed, owed>>

TakeKind == /\ task["ble"].step = "kind"
            /\ task' = [task EXCEPT !["ble"] = [step |-> "args", command |-> pending]]
            /\ UNCHANGED <<mailbox, link, queue, stops, executed, owed>>

TakeArgs == /\ task["ble"].step = "args"
            /\ task' = [task EXCEPT !["ble"].step = "clear", !["ble"].command.args = pending.args]
            /\ UNCHANGED <<mailbox, link, queue, stops, executed, owed>>

TakeClear == /\ task["ble"].step = "clear" /\ Became("ble", "submit")
             /\ has_command' = FALSE
             /\ UNCHANGED <<pending, callback, link, queue, stops, executed, owed>>

(* The USB task has read a line.                                               *)
UsbRead(kind) == /\ task["usb"].step = "idle"
                 /\ kind = "STOP" => stops < MaxStops
                 /\ task' = [task EXCEPT !["usb"] = [step |-> "submit", command |-> Cmd(kind, "usb", stops)]]
                 /\ UNCHANGED <<mailbox, link, queue, stops, executed, owed>>

SendToBack(c) == queue' = IF Len(queue) < QueueLength THEN Append(queue, c) ELSE queue

(* Faulty variant: a STOP goes to the front without emptying the queue.        *)
SubmitStop_kept(p) == /\ task[p].step = "submit" /\ task[p].command.kind = "STOP"
                      /\ Became(p, "front")
                      /\ UNCHANGED <<queue, mailbox, link, stops, executed, owed>>

(* Faulty variant: a STOP waits its turn like any other command.               *)
SubmitStop_queued(p) == /\ task[p].step = "submit" /\ task[p].command.kind = "STOP"
                        /\ task' = [task EXCEPT ![p] = AtRest]
                        /\ SendToBack(task[p].command)
                        /\ UNCHANGED <<mailbox, link, stops, executed, owed>>

(* xQueueReset, the first of the two calls for a STOP.                         *)
SubmitStop(p) == /\ task[p].step = "submit" /\ task[p].command.kind = "STOP"
                 /\ Became(p, "front") /\ queue' = <<>>
                 /\ UNCHANGED <<mailbox, link, stops, executed, owed>>

Submit(p) == /\ task[p].step = "submit" /\ task[p].command.kind # "STOP"
             /\ task' = [task EXCEPT ![p] = AtRest]
             /\ SendToBack(task[p].command)
             /\ UNCHANGED <<mailbox, link, stops, executed, owed>>

Placed(c) == <<c>> \o queue

(* xQueueSendToFront.  Over USB the STOP is accepted, and numbered, only now.  *)
SendToFront(p) ==
  /\ task[p].step = "front" /\ task' = [task EXCEPT ![p] = AtRest]
  /\ Len(queue) < QueueLength
  /\ stops' = IF p = "usb" THEN stops + 1 ELSE stops
  /\ owed' = (owed \/ p = "usb")
  /\ queue' = Placed(IF p = "usb" THEN [task[p].command EXCEPT !.epoch = stops'] ELSE task[p].command)
  /\ UNCHANGED <<mailbox, link, executed>>

(* The second race: the queue has filled up since the reset.  The STOP is      *)
(* lost, and so is any the reset removed; USB answers ERR, BLE nothing.        *)
FrontRefused(p) ==
  /\ task[p].step = "front" /\ task' = [task EXCEPT ![p] = AtRest]
  /\ Len(queue) = QueueLength
  /\ raced' = TRUE
  /\ UNCHANGED <<queue, mailbox, link, stops, executed, owed>>

----------------------------------------------------------------------------
(* The motor task receives a command and executes it.                          *)
Receive == /\ queue # <<>> /\ queue' = Tail(queue)
           /\ LET c == Head(queue)
              IN  IF c.kind = "STOP"
                  THEN executed' = [executed EXCEPT ![c.from] = c.epoch] /\ owed' = FALSE
                  ELSE UNCHANGED <<executed, owed>>
           /\ UNCHANGED <<mailbox, link, task, stops>>

Stores == StoreKind \/ StoreArgs \/ StoreFlag
Takes == TakeSeen \/ TakeKind \/ TakeArgs \/ TakeClear
Submits(p) == Submit(p) \/ SubmitStop(p) \/ SendToFront(p)

Steps == \/ RadioUp \/ Connect \/ Disconnect
         \/ \E kind \in {"START", "STOP"} : Write(kind) \/ UsbRead(kind)
         \/ Stores \/ Takes \/ Receive
         \/ \E p \in Interfaces : Submits(p)

(* The first race: a callback stores a STOP while the communication task takes *)
(* a command.                                                                  *)
Races == raced' = (raced \/ Overlap')

Next == \/ Steps /\ Races
        \/ \E p \in Interfaces : FrontRefused(p)

Spec == Init /\ [][Next]_vars

(* Interrupts return, the scheduler runs every ready task, and the motor task  *)
(* empties the queue in every pass.                                            *)
Fairness == /\ WF_vars(RadioUp /\ Races) /\ WF_vars(Stores /\ Races)
            /\ WF_vars(Takes /\ Races) /\ WF_vars(Receive /\ Races)
            /\ \A p \in Interfaces : WF_vars((Submits(p) /\ Races) \/ FrontRefused(p))

FairSpec == Spec /\ Fairness

----------------------------------------------------------------------------
StepNames == {"idle", "kind", "args", "flag", "clear", "submit", "front"}

TypeOK == /\ pending \in Commands /\ {has_command, connected, radio_ready, owed, raced} \subseteq BOOLEAN
          /\ callback \in [step : StepNames, command : Commands]
          /\ task \in [Interfaces -> [step : StepNames, command : Commands]]
          /\ queue \in Seq(Commands) /\ Len(queue) =< QueueLength
          /\ stops \in 0..(MaxStops + 1) /\ executed \in [Interfaces -> 0..(MaxStops + 1)]

(* Every command that may still reach the motor task.                          *)
InFlight == Range(queue)
            \cup (IF has_command THEN {pending} ELSE {})
            \cup (IF callback.step # "idle" THEN {callback.command} ELSE {})
            \cup {task[p].command : p \in {q \in Interfaces : task[q].step \notin {"idle", "kind"}}}

StopOnItsWay == \E c \in InFlight : c.kind = "STOP"

(* A STOP that was accepted, or owed to a lost link, is lost in the two races  *)
(* only: through the mailbox it shares with other commands and past the two    *)
(* submitters that reset the queue, a STOP is on its way until one executes.   *)
StopKept == owed /\ ~raced => StopOnItsWay

(* Once a STOP from an interface has been executed, nothing that interface     *)
(* sent before it can execute any more.                                        *)
StopFlushesItsInterface == \A c \in InFlight : c.epoch >= executed[c.from]

(* Outside the mailbox race no command reaches the queue that nobody sent: the *)
(* kind of one with the arguments of another.                                  *)
Genuine(c) == c = Cmd(c.kind, c.from, c.epoch)

CommandsGenuine == ~raced => \A c \in Range(queue) : Genuine(c)

(* A STOP accepted over either interface executes, unless it met a race.       *)
StopServed == owed ~> (~owed \/ raced)

----------------------------------------------------------------------------
(* docs/communications.md:90: STOP stops the movement.                         *)
StopDelivered == owed => StopOnItsWay

(* docs/communications.md:90: STOP empties the commands that wait.             *)
StopFlushes ==
  callback.step = "idle" =>
    \A c \in InFlight, p \in Interfaces : c.kind = "START" => c.epoch >= executed[p]

(* docs/communications.md:8: a command that answered OK QUEUED is queued.      *)
QueuedKept ==
  [][task["ble"].step = "submit" /\ task'["ble"].step = "idle" =>
       task["ble"].command \in Range(queue')]_vars
================================================================================
