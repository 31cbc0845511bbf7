---------------------------- MODULE CommandPathProofs ----------------------------
(* The way of a command to the motor task, for every length of the queue and any *)
(* number of STOPs.                                                              *)
EXTENDS CommandPath, SequenceTheorems, TLAPS

(* A task has taken a command that it has not yet passed on.                     *)
Busy(p) == task[p].step \notin {"idle", "kind"}

(* Where a task takes its next command: its number is the one there.             *)
Source(p) == IF p = "ble" THEN pending.epoch ELSE stops

StepInv ==
  /\ callback.step \in {"idle", "kind", "args", "flag"}
  /\ task["ble"].step \in {"idle", "kind", "args", "clear", "submit", "front"}
  /\ task["usb"].step \in {"idle", "submit", "front"}
  /\ pending.from = "ble" /\ callback.command.from = "ble"
  /\ \A p \in Interfaces : /\ Busy(p) => task[p].command.from = p
                           /\ task[p].step = "front" => task[p].command.kind = "STOP"
  /\ Busy("usb") /\ task["usb"].command.kind = "STOP" => stops =< MaxStops

(* A START is stored in an empty mailbox only; the mailbox is not empty while a  *)
(* command is taken out of it.  It holds a whole command unless one is stored.   *)
MailInv ==
  /\ callback.step # "idle" /\ callback.command.kind = "START" => ~has_command
  /\ Taking => has_command
  /\ Genuine(callback.command)
  /\ callback.step = "args" => pending = [callback.command EXCEPT !.args = pending.args]
  /\ callback.step = "flag" => pending = callback.command
  /\ callback.step # "args" => Genuine(pending)

(* Without a race nothing is stored while a command is taken out, so that what   *)
(* was taken is what the mailbox held.                                           *)
CleanInv ==
  ~raced => /\ ~Overlap
            /\ task["ble"].step \in {"args", "clear"} => task["ble"].command = pending
            /\ \A p \in Interfaces : Busy(p) => Genuine(task[p].command)
            /\ \A c \in Range(queue) : Genuine(c)

(* The commands of an interface are numbered in their order from the queue to    *)
(* the mailbox, after the last STOP of theirs that was executed.                 *)
EpochInv ==
  /\ pending.epoch =< stops /\ callback.command.epoch =< stops
  /\ callback.step # "idle" => pending.epoch =< callback.command.epoch
  /\ \A p \in Interfaces :
       /\ executed[p] =< Source(p)
       /\ Busy(p) => executed[p] =< task[p].command.epoch /\ task[p].command.epoch =< Source(p)
       /\ task[p].step = "front" => \A i \in DOMAIN queue : queue[i].from # p
  /\ \A i \in DOMAIN queue, p \in Interfaces :
       queue[i].from = p => /\ executed[p] =< queue[i].epoch /\ queue[i].epoch =< Source(p)
                            /\ Busy(p) => queue[i].epoch =< task[p].command.epoch
  /\ \A i, j \in DOMAIN queue :
       i < j /\ queue[i].from = queue[j].from => queue[i].epoch =< queue[j].epoch

PathInv == TypeOK /\ StepInv /\ MailInv /\ CleanInv /\ EpochInv

KeptInv == PathInv /\ StopKept

----------------------------------------------------------------------------------
(* The queue.                                                                    *)
LEMMA TailFact ==
  ASSUME NEW S, NEW s \in Seq(S), s # <<>>
  PROVE  /\ Tail(s) \in Seq(S) /\ Len(Tail(s)) =< Len(s)
         /\ 1 \in DOMAIN s /\ Head(s) = s[1] /\ DOMAIN s \subseteq Nat
         /\ \A i \in DOMAIN Tail(s) : i + 1 \in DOMAIN s /\ Tail(s)[i] = s[i + 1] /\ i >= 1
<1>1. Len(s) \in Nat \ {0} /\ DOMAIN s = 1..Len(s)
  BY EmptySeq, LenProperties
<1>2. Tail(s) \in Seq(S) /\ Len(Tail(s)) = Len(s) - 1
  BY HeadTailProperties
<1>3. \A i \in 1..Len(Tail(s)) : Tail(s)[i] = s[i + 1]
  BY HeadTailProperties
<1>4. DOMAIN Tail(s) = 1..Len(Tail(s))
  BY <1>2, LenProperties
<1>5. Head(s) = s[1]
  OBVIOUS
<1> QED BY <1>1, <1>2, <1>3, <1>4, <1>5

LEMMA AppendFact ==
  ASSUME NEW S, NEW s \in Seq(S), NEW c \in S
  PROVE  /\ Append(s, c) \in Seq(S) /\ Len(Append(s, c)) = Len(s) + 1 /\ Len(s) \in Nat
         /\ DOMAIN s = 1..Len(s)
         /\ \A i \in DOMAIN Append(s, c) : \/ i \in DOMAIN s /\ Append(s, c)[i] = s[i]
                                           \/ i = Len(s) + 1 /\ Append(s, c)[i] = c
<1>1. DOMAIN s = 1..Len(s) /\ Len(s) \in Nat
  BY LenProperties
<1>2. Append(s, c) \in Seq(S) /\ Len(Append(s, c)) = Len(s) + 1
  BY AppendProperties
<1>3. DOMAIN Append(s, c) = 1..(Len(s) + 1)
  BY <1>2, LenProperties
<1>4. /\ \A i \in 1..Len(s) : Append(s, c)[i] = s[i]
      /\ Append(s, c)[Len(s) + 1] = c
  BY AppendProperties
<1> QED BY <1>1, <1>2, <1>3, <1>4

LEMMA FrontFact ==
  ASSUME NEW S, NEW s \in Seq(S), NEW c \in S
  PROVE  /\ <<c>> \o s \in Seq(S) /\ Len(<<c>> \o s) = Len(s) + 1 /\ Len(s) \in Nat
         /\ DOMAIN s = 1..Len(s) /\ 1 \in DOMAIN (<<c>> \o s) /\ (<<c>> \o s)[1] = c
         /\ \A i \in DOMAIN s : i + 1 \in DOMAIN (<<c>> \o s) /\ (<<c>> \o s)[i + 1] = s[i]
         /\ \A i \in DOMAIN (<<c>> \o s) : \/ i = 1
                                           \/ i - 1 \in DOMAIN s /\ (<<c>> \o s)[i] = s[i - 1]
<1>0. <<c>> \in Seq(S) /\ Len(<<c>>) = 1 /\ <<c>>[1] = c
  OBVIOUS
<1>1. DOMAIN s = 1..Len(s) /\ Len(s) \in Nat
  BY LenProperties
<1>2. <<c>> \o s \in Seq(S) /\ Len(<<c>> \o s) = Len(s) + 1
  BY <1>0, <1>1, ConcatProperties
<1>3. DOMAIN (<<c>> \o s) = 1..(Len(s) + 1)
  BY <1>2, LenProperties
<1>4. \A i \in 1..(Len(s) + 1) : (<<c>> \o s)[i] = IF i =< 1 THEN <<c>>[i] ELSE s[i - 1]
  BY <1>0, <1>1, ConcatProperties
<1> QED BY <1>0, <1>1, <1>2, <1>3, <1>4

(* Commands.                                                                     *)
LEMMA CmdFact ==
  ASSUME NEW kind \in {"START", "STOP"}, NEW from \in Interfaces, NEW epoch \in 0..(MaxStops + 1)
  PROVE  LET c == Cmd(kind, from, epoch)
         IN  /\ c \in Commands /\ Genuine(c)
             /\ c.kind = kind /\ c.from = from /\ c.epoch = epoch
  BY DEF Cmd, Commands, Genuine

LEMMA RenumberFact ==
  ASSUME NEW c \in Commands, NEW epoch \in 0..(MaxStops + 1)
  PROVE  LET d == [c EXCEPT !.epoch = epoch]
         IN  /\ d \in Commands /\ (Genuine(c) => Genuine(d))
             /\ d.kind = c.kind /\ d.from = c.from /\ d.epoch = epoch
  BY DEF Cmd, Commands, Genuine

LEMMA ArgumentFact ==
  ASSUME NEW c \in Commands, NEW d \in Commands
  PROVE  LET e == [c EXCEPT !.args = d.args]
         IN  /\ e \in Commands /\ e.kind = c.kind /\ e.from = c.from /\ e.epoch = c.epoch
             /\ e.args = d.args
             /\ (c.kind = d.kind /\ c.from = d.from /\ c.epoch = d.epoch => e = d)
  BY DEF Commands

----------------------------------------------------------------------------------
(* Types, and where each step may be.                                            *)
Tasks == [Interfaces -> [step : StepNames, command : Commands]]
Callbacks == [step : StepNames, command : Commands]
Numbers == 0..(MaxStops + 1)

LEMMA Types ==
  TypeOK <=> /\ pending \in Commands /\ callback \in Callbacks /\ task \in Tasks
             /\ queue \in Seq(Commands) /\ Len(queue) =< QueueLength
             /\ stops \in Numbers /\ executed \in [Interfaces -> Numbers]
             /\ has_command \in BOOLEAN /\ connected \in BOOLEAN /\ radio_ready \in BOOLEAN
             /\ owed \in BOOLEAN /\ raced \in BOOLEAN
  BY DEF TypeOK, Tasks, Callbacks, Numbers

LEMMA TypesPrime ==
  TypeOK' <=> /\ pending' \in Commands /\ callback' \in Callbacks /\ task' \in Tasks
              /\ queue' \in Seq(Commands) /\ Len(queue') =< QueueLength
              /\ stops' \in Numbers /\ executed' \in [Interfaces -> Numbers]
              /\ has_command' \in BOOLEAN /\ connected' \in BOOLEAN /\ radio_ready' \in BOOLEAN
              /\ owed' \in BOOLEAN /\ raced' \in BOOLEAN
  BY DEF TypeOK, Tasks, Callbacks, Numbers

LEMMA TaskParts ==
  ASSUME NEW t \in Tasks, NEW p \in Interfaces
  PROVE  t[p].step \in StepNames /\ t[p].command \in Commands
  BY DEF Tasks

LEMMA BecameFact ==
  ASSUME task \in Tasks, NEW p \in Interfaces, NEW step \in StepNames, Became(p, step)
  PROVE  /\ task' \in Tasks /\ task'[p].step = step /\ task'[p].command = task[p].command
         /\ \A q \in Interfaces : q # p => task'[q] = task[q]
  BY DEF Tasks, Became

Entered(p, step, c) == task' = [task EXCEPT ![p] = [step |-> step, command |-> c]]

LEMMA TaskFact ==
  ASSUME task \in Tasks, NEW p \in Interfaces, NEW step \in StepNames, NEW c \in Commands,
         Entered(p, step, c)
  PROVE  /\ task' \in Tasks /\ task'[p].step = step /\ task'[p].command = c
         /\ \A q \in Interfaces : q # p => task'[q] = task[q]
  BY DEF Tasks, Entered

LEMMA TakeArgsFact ==
  ASSUME task \in Tasks, pending \in Commands,
         task' = [task EXCEPT !["ble"].step = "clear", !["ble"].command.args = pending.args]
  PROVE  /\ task' \in Tasks /\ task'["ble"].step = "clear"
         /\ task'["ble"].command = [task["ble"].command EXCEPT !.args = pending.args]
         /\ task'["usb"] = task["usb"]
<1>1. "ble" \in Interfaces /\ "usb" \in Interfaces /\ "clear" \in StepNames
  BY DEF Interfaces, StepNames
<1>2. task["ble"] \in [step : StepNames, command : Commands] /\ DOMAIN task = Interfaces
  BY <1>1 DEF Tasks
<1>3. task'["usb"] = task["usb"]
  BY <1>1, <1>2
<1>4. task'["ble"].step = "clear"
  BY <1>1, <1>2
<1>5. task'["ble"].command = [task["ble"].command EXCEPT !.args = pending.args]
  BY <1>1, <1>2
<1>6. task'["ble"] \in [step : StepNames, command : Commands]
  BY <1>1, <1>2 DEF Commands
<1>7. task' \in Tasks
  <2>1. \A p \in Interfaces : task'[p] \in [step : StepNames, command : Commands]
    BY <1>3, <1>6 DEF Interfaces, Tasks
  <2> QED BY <1>2, <2>1 DEF Tasks
<1> QED BY <1>3, <1>4, <1>5, <1>7

LEMMA NothingFact ==
  /\ Nothing \in Commands /\ Genuine(Nothing) /\ Nothing.kind = "STOP" /\ Nothing.from = "ble"
  /\ Nothing.epoch = 0 /\ AtRest.step = "idle" /\ AtRest.command = Nothing /\ AtRest \in Callbacks
<1>1. 0 \in 0..(MaxStops + 1) /\ "ble" \in Interfaces
  BY CommandPathAssumption DEF Interfaces
<1> QED BY <1>1, CmdFact DEF Nothing, AtRest, Callbacks, StepNames

(* What each step does to the variables it changes.                              *)
LEMMA StoringFact ==
  ASSUME TypeOK, NEW kind \in {"START", "STOP"}, Storing(kind)
  PROVE  /\ callback.step = "idle" /\ callback'.step = "kind" /\ callback' \in Callbacks
         /\ callback'.command = Cmd(kind, "ble", stops') /\ callback'.command \in Commands
         /\ callback'.command.kind = kind /\ callback'.command.from = "ble"
         /\ callback'.command.epoch = stops' /\ Genuine(callback'.command)
         /\ stops' \in Numbers /\ stops' >= stops /\ (stops' =< stops \/ stops' =< MaxStops)
         /\ owed' \in BOOLEAN /\ (owed' <=> owed \/ kind = "STOP")
         /\ pending' = pending /\ has_command' = has_command /\ radio_ready' = radio_ready
         /\ task' = task /\ queue' = queue /\ executed' = executed
<1>1. stops \in Numbers /\ owed \in BOOLEAN /\ MaxStops \in Nat
  BY Types, CommandPathAssumption
<1>2. stops' \in Numbers /\ stops' >= stops /\ (stops' =< stops \/ stops' =< MaxStops)
  BY <1>1 DEF Storing, Numbers
<1>3. callback' = [step |-> "kind", command |-> Cmd(kind, "ble", stops')]
  BY DEF Storing
<1>4. Cmd(kind, "ble", stops') \in Commands
  BY <1>2, CmdFact DEF Numbers, Interfaces
<1>5. callback' \in Callbacks /\ callback'.step = "kind" /\ callback'.command = Cmd(kind, "ble", stops')
  BY <1>3, <1>4 DEF Callbacks, StepNames
<1>6. /\ callback'.command.kind = kind /\ callback'.command.from = "ble"
      /\ callback'.command.epoch = stops' /\ Genuine(callback'.command)
  BY <1>2, <1>5, CmdFact DEF Numbers, Interfaces
<1>7. owed' \in BOOLEAN /\ (owed' <=> owed \/ kind = "STOP")
  BY <1>1 DEF Storing
<1> QED BY <1>2, <1>4, <1>5, <1>6, <1>7 DEF Storing

(* The steps, each with what it records of the races.                            *)
LEMMA NextCases ==
  ASSUME [Next]_vars
  PROVE  \/ /\ Races
            /\ \/ RadioUp \/ Connect \/ Disconnect
               \/ \E kind \in {"START", "STOP"} : Write(kind) \/ UsbRead(kind)
               \/ StoreKind \/ StoreArgs \/ StoreFlag
               \/ TakeSeen \/ TakeKind \/ TakeArgs \/ TakeClear \/ Receive
               \/ \E p \in Interfaces : Submit(p) \/ SubmitStop(p) \/ SendToFront(p)
         \/ \E p \in Interfaces : FrontRefused(p)
         \/ UNCHANGED vars
  BY DEF Next, Steps, Stores, Takes, Submits

(* A command is about to be stored; a START finds the mailbox empty.             *)
LEMMA Stored ==
  ASSUME TypeOK, Disconnect \/ \E kind \in {"START", "STOP"} : Write(kind)
  PROVE  /\ connected' \in BOOLEAN
         /\ \E kind \in {"START", "STOP"} : Storing(kind) /\ (kind = "START" => ~has_command)
<1>1. CASE Disconnect
  BY <1>1 DEF Disconnect
<1>2. CASE \E kind \in {"START", "STOP"} : Write(kind)
  <2>1. connected \in BOOLEAN
    BY Types
  <2> QED BY <1>2, <2>1 DEF Write
<1> QED BY <1>1, <1>2

TypeInv == TypeOK /\ StepInv

LEMMA TypeStep == TypeInv /\ [Next]_vars => TypeInv'
<1> SUFFICES ASSUME TypeOK, StepInv, [Next]_vars PROVE TypeOK' /\ StepInv'
  BY DEF TypeInv
<1>0. /\ pending \in Commands /\ callback \in Callbacks /\ task \in Tasks
      /\ queue \in Seq(Commands) /\ Len(queue) =< QueueLength /\ Len(queue) \in Nat
      /\ stops \in Numbers /\ executed \in [Interfaces -> Numbers]
      /\ has_command \in BOOLEAN /\ connected \in BOOLEAN /\ radio_ready \in BOOLEAN
      /\ owed \in BOOLEAN /\ raced \in BOOLEAN
      /\ callback.step \in StepNames /\ callback.command \in Commands
      /\ "ble" \in Interfaces /\ "usb" \in Interfaces /\ MaxStops \in Nat /\ QueueLength \in Nat \ {0}
  BY Types, CommandPathAssumption DEF Callbacks, Interfaces
<1>c. \A p \in Interfaces : task[p].step \in StepNames /\ task[p].command \in Commands
  BY <1>0, TaskParts
<1>r. ASSUME Races PROVE raced' \in BOOLEAN
  BY <1>0, <1>r DEF Races
<1>1. CASE Races /\ (RadioUp \/ Connect)
  <2>1. /\ UNCHANGED <<mailbox, task, queue, stops, executed, owed>>
        /\ radio_ready' \in BOOLEAN /\ connected' \in BOOLEAN
    BY <1>0, <1>1 DEF RadioUp, Connect, mailbox
  <2> QED BY <1>0, <1>1, <1>r, <2>1, TypesPrime DEF StepInv, Busy, mailbox
<1>2. CASE Races /\ (Disconnect \/ \E kind \in {"START", "STOP"} : Write(kind))
  <2>1. PICK kind \in {"START", "STOP"} : Storing(kind)
    BY <1>2, Stored
  <2>2. connected' \in BOOLEAN
    BY <1>2, Stored
  <2>3. TypeOK'
    BY <1>0, <1>2, <1>r, <2>1, <2>2, StoringFact, TypesPrime
  <2>4. /\ callback'.step = "kind" /\ callback'.command.from = "ble"
        /\ stops' =< stops \/ stops' =< MaxStops
        /\ UNCHANGED <<pending, task>> /\ stops' \in Nat /\ stops \in Nat
    BY <1>0, <2>1, StoringFact DEF Numbers
  <2>5. StepInv'
    BY <1>0, <2>4 DEF StepInv, Busy
  <2> QED BY <2>3, <2>5
<1>3. CASE Races /\ \E kind \in {"START", "STOP"} : UsbRead(kind)
  <2>1. PICK kind \in {"START", "STOP"} : UsbRead(kind)
    BY <1>3
  <2>2. /\ Cmd(kind, "usb", stops) \in Commands /\ Cmd(kind, "usb", stops).kind = kind
        /\ Cmd(kind, "usb", stops).from = "usb"
    BY <1>0, CmdFact DEF Numbers
  <2>3. /\ task' \in Tasks /\ task'["usb"].step = "submit"
        /\ task'["usb"].command = Cmd(kind, "usb", stops) /\ task'["ble"] = task["ble"]
    <3>1. Entered("usb", "submit", Cmd(kind, "usb", stops))
      BY <2>1 DEF UsbRead, Entered
    <3>2. "submit" \in StepNames /\ "ble" # "usb"
      BY DEF StepNames
    <3> HIDE DEF Interfaces
    <3> QED BY <1>0, <2>2, <3>1, <3>2, TaskFact
  <2>4. /\ UNCHANGED <<mailbox, link, queue, stops, executed, owed>>
        /\ kind = "STOP" => stops =< MaxStops
    BY <1>0, <2>1 DEF UsbRead, Numbers
  <2>5. TypeOK'
    BY <1>0, <1>3, <1>r, <2>3, <2>4, TypesPrime DEF mailbox, link
  <2>6. StepInv'
    BY <2>2, <2>3, <2>4 DEF StepInv, Busy, mailbox, Interfaces
  <2> QED BY <2>5, <2>6
<1>4. CASE Races /\ (StoreKind \/ StoreArgs \/ StoreFlag)
  <2>1. /\ pending' \in Commands /\ callback' \in Callbacks /\ has_command' \in BOOLEAN
        /\ pending'.from = "ble" /\ callback'.command.from = "ble"
        /\ callback'.step \in {"idle", "args", "flag"}
    <3>1. CASE StoreKind
      <4>1. pending' = [callback.command EXCEPT !.args = pending.args]
        BY <3>1 DEF StoreKind
      <4>2. pending' \in Commands /\ pending'.from = callback.command.from
        BY <1>0, <4>1, ArgumentFact
      <4>3. callback' \in Callbacks /\ callback'.command = callback.command /\ callback'.step = "args"
        BY <1>0, <3>1 DEF StoreKind, Callbacks, StepNames
      <4> QED BY <1>0, <3>1, <4>2, <4>3 DEF StoreKind, StepInv
    <3>2. CASE StoreArgs
      <4>1. pending' = [pending EXCEPT !.args = callback.command.args]
        BY <3>2 DEF StoreArgs
      <4>2. pending' \in Commands /\ pending'.from = pending.from
        BY <1>0, <4>1, ArgumentFact
      <4>3. callback' \in Callbacks /\ callback'.command = callback.command /\ callback'.step = "flag"
        BY <1>0, <3>2 DEF StoreArgs, Callbacks, StepNames
      <4> QED BY <1>0, <3>2, <4>2, <4>3 DEF StoreArgs, StepInv
    <3>3. CASE StoreFlag
      <4>1. pending' = IF pending.kind = "STOP" THEN pending ELSE [pending EXCEPT !.epoch = stops]
        BY <3>3 DEF StoreFlag
      <4>2. pending' \in Commands /\ pending'.from = pending.from
        BY <1>0, <4>1, RenumberFact DEF Numbers
      <4> QED BY <3>3, <4>2, NothingFact DEF StoreFlag, StepInv
    <3> QED BY <1>4, <3>1, <3>2, <3>3
  <2>2. UNCHANGED <<link, task, queue, stops, executed, owed>>
    BY <1>4 DEF StoreKind, StoreArgs, StoreFlag, link
  <2>3. TypeOK'
    BY <1>0, <1>4, <1>r, <2>1, <2>2, TypesPrime DEF link
  <2>4. StepInv'
    BY <2>1, <2>2 DEF StepInv, Busy
  <2> QED BY <2>3, <2>4
<1>5. CASE Races /\ (TakeSeen \/ TakeKind \/ TakeArgs \/ TakeClear)
  <2>1. /\ task' \in Tasks /\ task'["usb"] = task["usb"] /\ has_command' \in BOOLEAN
        /\ task'["ble"].step \in {"kind", "args", "clear", "submit"}
        /\ task'["ble"].step # "kind" => task'["ble"].command.from = "ble"
    <3>1. CASE TakeSeen
      BY <1>0, <3>1, BecameFact DEF TakeSeen, StepNames, mailbox, Interfaces
    <3>2. CASE TakeKind
      <4>1. Entered("ble", "args", pending)
        BY <3>2 DEF TakeKind, Entered
      <4> QED BY <1>0, <3>2, <4>1, TaskFact DEF TakeKind, StepNames, mailbox, Interfaces, StepInv
    <3>3. CASE TakeArgs
      <4> DEFINE c == [task["ble"].command EXCEPT !.args = pending.args]
      <4>2. c \in Commands /\ c.from = task["ble"].command.from
        BY <1>0, <1>c, ArgumentFact
      <4>3. /\ task' \in Tasks /\ task'["ble"].step = "clear" /\ task'["ble"].command = c
            /\ task'["usb"] = task["usb"]
        BY <1>0, <3>3, TakeArgsFact DEF TakeArgs
      <4>4. task["ble"].command.from = "ble"
        BY <1>0, <3>3 DEF TakeArgs, StepInv, Busy
      <4> QED BY <1>0, <3>3, <4>2, <4>3, <4>4 DEF TakeArgs, mailbox
    <3>4. CASE TakeClear
      <4>1. task["ble"].command.from = "ble"
        BY <1>0, <3>4 DEF TakeClear, StepInv, Busy
      <4> QED BY <1>0, <3>4, <4>1, BecameFact DEF TakeClear, StepNames
    <3> QED BY <1>5, <3>1, <3>2, <3>3, <3>4
  <2>2. UNCHANGED <<pending, callback, link, queue, stops, executed, owed>>
    BY <1>5 DEF TakeSeen, TakeKind, TakeArgs, TakeClear, mailbox, link
  <2>3. TypeOK'
    BY <1>0, <1>5, <1>r, <2>1, <2>2, TypesPrime DEF link
  <2>4. StepInv'
    BY <2>1, <2>2 DEF StepInv, Busy, Interfaces
  <2> QED BY <2>3, <2>4
<1>6. CASE Races /\ Receive
  <2>1. queue' \in Seq(Commands) /\ Len(queue') =< QueueLength /\ Head(queue) \in Commands
    <3>1. queue # <<>> /\ queue' = Tail(queue)
      BY <1>6 DEF Receive
    <3>2. Len(queue') = Len(queue) - 1
      BY <1>0, <3>1, HeadTailProperties
    <3> QED BY <1>0, <3>1, <3>2, HeadTailProperties
  <2>2. executed' \in [Interfaces -> Numbers] /\ owed' \in BOOLEAN
    <3>1. Head(queue).from \in Interfaces /\ Head(queue).epoch \in Numbers
      BY <2>1 DEF Commands, Numbers
    <3> QED BY <1>0, <1>6, <3>1 DEF Receive
  <2>3. UNCHANGED <<mailbox, link, task, stops>>
    BY <1>6 DEF Receive
  <2> QED BY <1>0, <1>6, <1>r, <2>1, <2>2, <2>3, TypesPrime DEF StepInv, Busy, mailbox, link
<1>7. ASSUME NEW p \in Interfaces, (Races /\ (Submit(p) \/ SubmitStop(p) \/ SendToFront(p))) \/ FrontRefused(p)
      PROVE  TypeOK' /\ StepInv'
  <2>1. /\ task' \in Tasks /\ task'[p].step \in {"idle", "front"}
        /\ task'[p].step = "front" => /\ task[p].step = "submit" /\ task'[p].command = task[p].command
                                      /\ task[p].command.kind = "STOP"
        /\ \A q \in Interfaces : q # p => task'[q] = task[q]
    <3>1. CASE SubmitStop(p)
      BY <1>0, <3>1, BecameFact DEF SubmitStop, StepNames
    <3>2. CASE Submit(p) \/ SendToFront(p) \/ FrontRefused(p)
      <4>1. Entered(p, "idle", Nothing)
        BY <3>2 DEF Submit, SendToFront, FrontRefused, AtRest, Entered
      <4> QED BY <1>0, <4>1, TaskFact, NothingFact DEF StepNames
    <3> QED BY <1>7, <3>1, <3>2
  <2>2. /\ stops' \in Numbers /\ owed' \in BOOLEAN /\ raced' \in BOOLEAN
        /\ \/ stops' = stops
           \/ p = "usb" /\ task'["usb"].step = "idle"
    <3>1. CASE Races /\ (Submit(p) \/ SubmitStop(p))
      BY <1>0, <1>r, <3>1 DEF Submit, SubmitStop
    <3>2. CASE FrontRefused(p)
      BY <1>0, <3>2 DEF FrontRefused
    <3>3. CASE Races /\ SendToFront(p)
      <4>1. CASE p = "usb"
        <5>1. stops =< MaxStops
          BY <1>0, <3>3, <4>1 DEF SendToFront, StepInv, Busy
        <5>2. stops' = stops + 1 /\ owed' = TRUE
          BY <3>3, <4>1 DEF SendToFront
        <5>3. task'["usb"].step = "idle"
          BY <1>0, <3>3, <4>1, NothingFact DEF SendToFront, Tasks
        <5> QED BY <1>0, <1>r, <3>3, <4>1, <5>1, <5>2, <5>3 DEF Numbers
      <4>2. CASE p # "usb"
        <5>1. stops' = stops /\ owed' = (owed \/ FALSE)
          BY <3>3, <4>2 DEF SendToFront
        <5> QED BY <1>0, <1>r, <3>3, <5>1
      <4> QED BY <4>1, <4>2
    <3> QED BY <1>7, <3>1, <3>2, <3>3
  <2>3. queue' \in Seq(Commands) /\ Len(queue') =< QueueLength
    <3>1. CASE Submit(p)
      BY <1>0, <1>c, <3>1, AppendFact DEF Submit, SendToBack
    <3>2. CASE SubmitStop(p)
      BY <1>0, <3>2 DEF SubmitStop
    <3>3. CASE FrontRefused(p)
      BY <1>0, <3>3 DEF FrontRefused
    <3>4. CASE SendToFront(p)
      <4>1. PICK c \in Commands : queue' = <<c>> \o queue
        <5>1. [task[p].command EXCEPT !.epoch = stops'] \in Commands
          BY <1>c, <2>2, RenumberFact DEF Numbers
        <5> QED BY <1>c, <3>4, <5>1 DEF SendToFront, Placed
      <4>2. Len(queue) < QueueLength
        BY <3>4 DEF SendToFront
      <4> QED BY <1>0, <4>1, <4>2, FrontFact
    <3> QED BY <1>7, <3>1, <3>2, <3>3, <3>4
  <2>4. UNCHANGED <<mailbox, link, executed>>
    BY <1>7 DEF Submit, SubmitStop, SendToFront, FrontRefused
  <2>5. TypeOK'
    BY <1>0, <2>1, <2>2, <2>3, <2>4, TypesPrime DEF mailbox, link
  <2>6. StepInv'
    <3>1. task'["ble"].step \in {"idle", "kind", "args", "clear", "submit", "front"}
      BY <1>0, <2>1 DEF StepInv
    <3>2. task'["usb"].step \in {"idle", "submit", "front"}
      BY <1>0, <2>1 DEF StepInv
    <3>3. ASSUME NEW q \in Interfaces
          PROVE  /\ task'[q].step \notin {"idle", "kind"} => task'[q].command.from = q
                 /\ task'[q].step = "front" => task'[q].command.kind = "STOP"
      BY <1>0, <2>1 DEF StepInv, Busy
    <3>4. task'["usb"].step \notin {"idle", "kind"} /\ task'["usb"].command.kind = "STOP" => stops' =< MaxStops
      BY <1>0, <2>1, <2>2 DEF StepInv, Busy
    <3> QED BY <2>4, <3>1, <3>2, <3>3, <3>4 DEF StepInv, Busy, mailbox
  <2> QED BY <2>5, <2>6
<1>8. CASE UNCHANGED vars
  <2>1. UNCHANGED <<mailbox, link, task, queue, stops, executed, owed, raced>>
    BY <1>8 DEF vars, history
  <2> QED BY <1>0, <2>1, TypesPrime DEF StepInv, Busy, mailbox, link
<1> QED BY <1>1, <1>2, <1>3, <1>4, <1>5, <1>6, <1>7, <1>8, NextCases

(* What the steps of the communication task change.                              *)
LEMMA TakesFact ==
  ASSUME TypeInv, TakeSeen \/ TakeKind \/ TakeArgs \/ TakeClear
  PROVE  /\ task' \in Tasks /\ task'["usb"] = task["usb"]
         /\ UNCHANGED <<pending, callback, queue, stops, executed, owed>>
         /\ \/ /\ TakeSeen /\ has_command /\ has_command' = has_command
               /\ task["ble"].step = "idle" /\ task'["ble"].step = "kind"
            \/ /\ TakeKind /\ has_command' = has_command
               /\ task["ble"].step = "kind" /\ task'["ble"].step = "args"
               /\ task'["ble"].command = pending
            \/ /\ TakeArgs /\ has_command' = has_command
               /\ task["ble"].step = "args" /\ task'["ble"].step = "clear"
               /\ task'["ble"].command = [task["ble"].command EXCEPT !.args = pending.args]
            \/ /\ TakeClear /\ has_command' = FALSE
               /\ task["ble"].step = "clear" /\ task'["ble"].step = "submit"
               /\ task'["ble"].command = task["ble"].command
<1>0. pending \in Commands /\ task \in Tasks /\ "ble" \in Interfaces /\ "usb" \in Interfaces /\ "ble" # "usb"
  BY Types DEF TypeInv, Interfaces
<1>1. CASE TakeSeen
  <2>1. "kind" \in StepNames
    BY DEF StepNames
  <2> QED BY <1>0, <1>1, <2>1, BecameFact DEF TakeSeen, mailbox
<1>2. CASE TakeKind
  <2>1. Entered("ble", "args", pending) /\ "args" \in StepNames
    BY <1>2 DEF TakeKind, Entered, StepNames
  <2> QED BY <1>0, <1>2, <2>1, TaskFact DEF TakeKind, mailbox
<1>3. CASE TakeArgs
  BY <1>0, <1>3, TakeArgsFact DEF TakeArgs, mailbox
<1>4. CASE TakeClear
  <2>1. "submit" \in StepNames
    BY DEF StepNames
  <2> QED BY <1>0, <1>4, <2>1, BecameFact DEF TakeClear
<1> QED BY <1>1, <1>2, <1>3, <1>4

(* What the steps that pass a command on change: the other task not.             *)
LEMMA SubmitsFact ==
  ASSUME TypeInv, NEW p \in Interfaces,
         Submit(p) \/ SubmitStop(p) \/ SendToFront(p) \/ FrontRefused(p)
  PROVE  /\ task' \in Tasks /\ \A q \in Interfaces : q # p => task'[q] = task[q]
         /\ UNCHANGED <<pending, callback, has_command, executed>>
         /\ \/ /\ SubmitStop(p) /\ task[p].step = "submit" /\ task'[p].step = "front"
               /\ task'[p].command = task[p].command /\ task[p].command.kind = "STOP"
            \/ /\ Submit(p) \/ SendToFront(p) \/ FrontRefused(p)
               /\ task[p].step \in {"submit", "front"} /\ task'[p].step = "idle"
<1>0. task \in Tasks
  BY Types DEF TypeInv
<1>1. CASE SubmitStop(p)
  <2>1. "front" \in StepNames
    BY DEF StepNames
  <2> QED BY <1>0, <1>1, <2>1, BecameFact DEF SubmitStop, mailbox
<1>2. CASE Submit(p) \/ SendToFront(p) \/ FrontRefused(p)
  <2>1. Entered(p, "idle", Nothing) /\ "idle" \in StepNames
    BY <1>2 DEF Submit, SendToFront, FrontRefused, AtRest, Entered, StepNames
  <2> QED BY <1>0, <1>2, <2>1, TaskFact, NothingFact DEF Submit, SendToFront, FrontRefused, mailbox
<1> QED BY <1>1, <1>2

LEMMA UsbReadFact ==
  ASSUME TypeInv, NEW kind \in {"START", "STOP"}, UsbRead(kind)
  PROVE  /\ task' \in Tasks /\ task["usb"].step = "idle" /\ task'["usb"].step = "submit"
         /\ task'["usb"].command = Cmd(kind, "usb", stops) /\ Genuine(task'["usb"].command)
         /\ task'["usb"].command.epoch = stops /\ task'["ble"] = task["ble"]
         /\ UNCHANGED <<pending, callback, has_command, queue, stops, executed, owed>>
<1>0. /\ task \in Tasks /\ stops \in Numbers /\ "ble" \in Interfaces /\ "usb" \in Interfaces
      /\ "ble" # "usb" /\ "submit" \in StepNames
  BY Types DEF TypeInv, Interfaces, StepNames
<1>1. /\ Cmd(kind, "usb", stops) \in Commands /\ Cmd(kind, "usb", stops).epoch = stops
      /\ Genuine(Cmd(kind, "usb", stops))
  BY <1>0, CmdFact DEF Numbers
<1>2. Entered("usb", "submit", Cmd(kind, "usb", stops))
  BY DEF UsbRead, Entered
<1> QED BY <1>0, <1>1, <1>2, TaskFact DEF UsbRead, mailbox

(* What the steps of a callback change: the mailbox only.                        *)
LEMMA StoresFact ==
  ASSUME TypeInv, StoreKind \/ StoreArgs \/ StoreFlag
  PROVE  /\ UNCHANGED <<task, queue, stops, executed, owed>>
         /\ pending' \in Commands /\ callback' \in Callbacks
         /\ \/ /\ StoreKind /\ callback.step = "kind" /\ callback'.step = "args" /\ has_command' = has_command
               /\ callback'.command = callback.command /\ pending'.kind = callback.command.kind
               /\ pending'.epoch = callback.command.epoch
               /\ pending' = [callback.command EXCEPT !.args = pending'.args]
            \/ /\ StoreArgs /\ callback.step = "args" /\ callback'.step = "flag" /\ has_command' = has_command
               /\ callback'.command = callback.command /\ pending'.kind = pending.kind
               /\ pending'.epoch = pending.epoch
               /\ pending' = [pending EXCEPT !.args = callback.command.args]
            \/ /\ StoreFlag /\ callback.step = "flag" /\ callback' = AtRest /\ has_command' = TRUE
               /\ pending'.kind = pending.kind /\ (Genuine(pending) => Genuine(pending'))
               /\ pending'.epoch \in {pending.epoch, stops}
<1>0. /\ pending \in Commands /\ callback \in Callbacks /\ stops \in Numbers
      /\ callback.command \in Commands
  BY Types DEF TypeInv, Callbacks
<1>1. CASE StoreKind
  <2>1. /\ pending' = [callback.command EXCEPT !.args = pending.args]
        /\ callback' = [callback EXCEPT !.step = "args"] /\ callback.step = "kind"
    BY <1>1 DEF StoreKind
  <2>2. /\ pending' \in Commands /\ pending'.kind = callback.command.kind
        /\ pending'.epoch = callback.command.epoch /\ pending'.args = pending.args
    BY <1>0, <2>1, ArgumentFact
  <2>3. callback' \in Callbacks /\ callback'.command = callback.command /\ callback'.step = "args"
    BY <1>0, <2>1 DEF Callbacks, StepNames
  <2> QED BY <1>1, <2>1, <2>2, <2>3 DEF StoreKind, link
<1>2. CASE StoreArgs
  <2>1. /\ pending' = [pending EXCEPT !.args = callback.command.args]
        /\ callback' = [callback EXCEPT !.step = "flag"] /\ callback.step = "args"
    BY <1>2 DEF StoreArgs
  <2>2. pending' \in Commands /\ pending'.kind = pending.kind /\ pending'.epoch = pending.epoch
    BY <1>0, <2>1, ArgumentFact
  <2>3. callback' \in Callbacks /\ callback'.command = callback.command /\ callback'.step = "flag"
    BY <1>0, <2>1 DEF Callbacks, StepNames
  <2> QED BY <1>2, <2>1, <2>2, <2>3 DEF StoreArgs, link
<1>3. CASE StoreFlag
  <2>1. pending' = IF pending.kind = "STOP" THEN pending ELSE [pending EXCEPT !.epoch = stops]
    BY <1>3 DEF StoreFlag
  <2>2. /\ pending' \in Commands /\ pending'.kind = pending.kind /\ (Genuine(pending) => Genuine(pending'))
        /\ pending'.epoch \in {pending.epoch, stops}
    BY <1>0, <2>1, RenumberFact DEF Numbers
  <2> QED BY <1>3, <2>2, NothingFact DEF StoreFlag, link
<1> QED BY <1>1, <1>2, <1>3

LEMMA MailStep == TypeInv /\ MailInv /\ [Next]_vars => MailInv'
<1> SUFFICES ASSUME TypeInv, MailInv, [Next]_vars PROVE MailInv'
  OBVIOUS
<1>0. pending \in Commands /\ callback \in Callbacks /\ callback.command \in Commands
  BY Types DEF TypeInv, Callbacks
<1>1. CASE UNCHANGED <<pending, callback, has_command>> /\ (Taking' => Taking)
  BY <1>1 DEF MailInv
<1>2. CASE RadioUp \/ Connect \/ Receive \/ UNCHANGED vars
  <2>1. UNCHANGED <<pending, callback, has_command, task>>
    BY <1>2 DEF RadioUp, Connect, Receive, vars, mailbox
  <2> QED BY <1>1, <2>1 DEF Taking
<1>3. CASE Disconnect \/ \E kind \in {"START", "STOP"} : Write(kind)
  <2>1. PICK kind \in {"START", "STOP"} : Storing(kind) /\ (kind = "START" => ~has_command)
    BY <1>3, Stored DEF TypeInv
  <2>2. /\ callback.step = "idle" /\ callback'.step = "kind" /\ callback'.command.kind = kind
        /\ Genuine(callback'.command) /\ pending' = pending /\ has_command' = has_command /\ task' = task
    BY <2>1, StoringFact DEF TypeInv
  <2> QED BY <2>1, <2>2 DEF MailInv, Taking
<1>4. CASE \E kind \in {"START", "STOP"} : UsbRead(kind)
  <2>1. UNCHANGED <<pending, callback, has_command>> /\ task'["ble"] = task["ble"]
    BY <1>4, UsbReadFact
  <2> QED BY <1>1, <2>1 DEF Taking
<1>5. CASE StoreKind \/ StoreArgs \/ StoreFlag
  <2>0. task' = task
    BY <1>5, StoresFact
  <2>1. CASE StoreKind
    <3>1. /\ callback.step = "kind" /\ callback'.step = "args" /\ has_command' = has_command
          /\ callback'.command = callback.command
          /\ pending' = [callback.command EXCEPT !.args = pending'.args]
      BY <2>1, StoresFact DEF StoreKind, StoreArgs, StoreFlag
    <3> QED BY <2>0, <3>1 DEF MailInv, Taking
  <2>2. CASE StoreArgs
    <3>1. /\ callback.step = "args" /\ callback'.step = "flag" /\ has_command' = has_command
          /\ callback'.command = callback.command
          /\ pending' = [pending EXCEPT !.args = callback.command.args]
      BY <2>2, StoresFact DEF StoreKind, StoreArgs, StoreFlag
    <3>2. pending = [callback.command EXCEPT !.args = pending.args]
      BY <3>1 DEF MailInv
    <3>3. pending' = callback.command
      BY <1>0, <3>1, <3>2, ArgumentFact
    <3> QED BY <2>0, <3>1, <3>3 DEF MailInv, Taking
  <2>3. CASE StoreFlag
    <3>1. /\ callback.step = "flag" /\ callback' = AtRest /\ has_command' = TRUE
          /\ (Genuine(pending) => Genuine(pending'))
      BY <2>3, StoresFact DEF StoreKind, StoreArgs, StoreFlag
    <3> QED BY <2>0, <3>1, NothingFact DEF MailInv, Taking
  <2> QED BY <1>5, <2>1, <2>2, <2>3
<1>6. CASE TakeSeen \/ TakeKind \/ TakeArgs \/ TakeClear
  <2>1. /\ UNCHANGED <<pending, callback>>
        /\ Taking' => has_command /\ has_command' = has_command
        /\ has_command' => has_command
    BY <1>6, TakesFact DEF MailInv, Taking
  <2> QED BY <2>1 DEF MailInv
<1>7. ASSUME NEW p \in Interfaces,
             Submit(p) \/ SubmitStop(p) \/ SendToFront(p) \/ FrontRefused(p)
      PROVE  MailInv'
  <2>1. UNCHANGED <<pending, callback, has_command>>
    BY <1>7, SubmitsFact
  <2>2. Taking' => Taking
    BY <1>7, SubmitsFact DEF Taking, Interfaces
  <2> QED BY <1>1, <2>1, <2>2
<1> QED BY <1>2, <1>3, <1>4, <1>5, <1>6, <1>7, NextCases

----------------------------------------------------------------------------------
(* What waits in the queue after each change of it.                              *)
LEMMA RangeFact ==
  ASSUME NEW S, NEW s \in Seq(S)
  PROVE  /\ Range(<<>>) = {}
         /\ s # <<>> => Range(s) = {Head(s)} \cup Range(Tail(s))
         /\ \A c \in S : Range(<<c>> \o s) = Range(s) \cup {c}
<1>0. DOMAIN s = 1..Len(s) /\ Len(s) \in Nat
  BY LenProperties
<1>1. Range(<<>>) = {}
  BY DEF Range
<1>2. ASSUME s # <<>> PROVE Range(s) = {Head(s)} \cup Range(Tail(s))
  <2>1. /\ Tail(s) \in Seq(S) /\ Len(Tail(s)) = Len(s) - 1 /\ Head(s) = s[1] /\ 1 \in DOMAIN s
        /\ \A i \in DOMAIN Tail(s) : i + 1 \in DOMAIN s /\ Tail(s)[i] = s[i + 1]
    BY <1>2, TailFact, HeadTailProperties
  <2>2. DOMAIN Tail(s) = 1..(Len(s) - 1)
    BY <2>1, LenProperties
  <2>3. \A i \in DOMAIN s : i = 1 \/ (i - 1 \in DOMAIN Tail(s) /\ Tail(s)[i - 1] = s[i])
    BY <1>0, <2>1, <2>2
  <2> QED BY <2>1, <2>3 DEF Range
<1>4. ASSUME NEW c \in S
      PROVE  Range(<<c>> \o s) = Range(s) \cup {c}
  <2>1. /\ 1 \in DOMAIN (<<c>> \o s) /\ (<<c>> \o s)[1] = c
        /\ \A i \in DOMAIN s : i + 1 \in DOMAIN (<<c>> \o s) /\ (<<c>> \o s)[i + 1] = s[i]
        /\ \A i \in DOMAIN (<<c>> \o s) : i = 1 \/ (i - 1 \in DOMAIN s /\ (<<c>> \o s)[i] = s[i - 1])
    BY FrontFact
  <2> DEFINE t == <<c>> \o s
  <2> HIDE DEF t
  <2>2. /\ 1 \in DOMAIN t /\ t[1] = c
        /\ \A i \in DOMAIN s : i + 1 \in DOMAIN t /\ t[i + 1] = s[i]
        /\ \A i \in DOMAIN t : i = 1 \/ (i - 1 \in DOMAIN s /\ t[i] = s[i - 1])
    BY <2>1 DEF t
  <2>3. Range(t) = Range(s) \cup {c}
    BY <2>2 DEF Range
  <2> QED BY <2>3 DEF t
<1> QED BY <1>1, <1>2, <1>4

Extended(t, s, c) == t = Append(s, c)

LEMMA AppendRange ==
  ASSUME NEW S, NEW s \in Seq(S), NEW c \in S, NEW t, Extended(t, s, c)
  PROVE  Range(t) = Range(s) \cup {c}
<1>1. /\ t \in Seq(S) /\ Len(t) = Len(s) + 1 /\ Len(s) \in Nat /\ DOMAIN s = 1..Len(s)
      /\ \A i \in DOMAIN t : \/ i \in DOMAIN s /\ t[i] = s[i]
                             \/ i = Len(s) + 1 /\ t[i] = c
  BY AppendFact DEF Extended
<1>2. DOMAIN t = 1..(Len(s) + 1)
  BY <1>1, LenProperties
<1>3. \A i \in DOMAIN s : i \in DOMAIN t /\ t[i] = s[i]
  BY <1>1, <1>2
<1>4. Len(s) + 1 \in DOMAIN t /\ t[Len(s) + 1] = c
  BY <1>1, <1>2
<1> QED BY <1>1, <1>3, <1>4 DEF Range

LEMMA SubmitQueue ==
  ASSUME TypeInv, NEW p \in Interfaces, Submit(p)
  PROVE  /\ UNCHANGED <<stops, owed>> /\ task[p].command.kind = "START" /\ Busy(p)
         /\ \/ queue' = queue
            \/ /\ queue' = Append(queue, task[p].command)
               /\ Range(queue') = Range(queue) \cup {task[p].command}
<1>0. task \in Tasks /\ queue \in Seq(Commands)
  BY Types DEF TypeInv
<1>1. task[p].command \in Commands
  BY <1>0, TaskParts
<1>2. task[p].command.kind = "START"
  BY <1>1 DEF Submit, Commands
<1>3. queue' = queue \/ queue' = Append(queue, task[p].command)
  BY DEF Submit, SendToBack
<1>4. ASSUME queue' = Append(queue, task[p].command)
      PROVE  Range(queue') = Range(queue) \cup {task[p].command}
  <2>1. Extended(queue', queue, task[p].command)
    BY <1>4 DEF Extended
  <2> QED BY <1>0, <1>1, <2>1, AppendRange
<1>5. UNCHANGED <<stops, owed>> /\ Busy(p)
  BY DEF Submit, Busy
<1> QED BY <1>1, <1>2, <1>3, <1>4, <1>5

LEMMA FrontQueue ==
  ASSUME TypeInv, NEW p \in Interfaces, SendToFront(p)
  PROVE  \E c \in Commands :
           /\ queue' = <<c>> \o queue /\ Range(queue') = Range(queue) \cup {c}
           /\ c.kind = "STOP" /\ c.from = p /\ (Genuine(task[p].command) => Genuine(c)) /\ Busy(p)
           /\ IF p = "usb" THEN c.epoch = stops' /\ stops' = stops + 1 /\ owed' = TRUE
              ELSE c = task[p].command /\ stops' = stops /\ owed' = owed
<1>0. /\ task \in Tasks /\ queue \in Seq(Commands) /\ stops \in Numbers /\ owed \in BOOLEAN
      /\ task[p].step = "front" /\ Busy(p) /\ MaxStops \in Nat
  BY Types, CommandPathAssumption DEF TypeInv, SendToFront, Busy
<1>1. task[p].command \in Commands /\ task[p].command.kind = "STOP" /\ task[p].command.from = p
  BY <1>0, TaskParts DEF TypeInv, StepInv
<1>2. CASE p = "usb"
  <2> DEFINE c == [task[p].command EXCEPT !.epoch = stops']
  <2>1. stops' = stops + 1 /\ owed' = TRUE /\ queue' = <<c>> \o queue
    BY <1>2 DEF SendToFront, Placed
  <2>2. stops =< MaxStops
    BY <1>0, <1>1, <1>2 DEF TypeInv, StepInv
  <2>3. stops' \in 0..(MaxStops + 1)
    BY <1>0, <2>1, <2>2 DEF Numbers
  <2>4. /\ c \in Commands /\ c.kind = "STOP" /\ c.from = p /\ c.epoch = stops'
        /\ (Genuine(task[p].command) => Genuine(c))
    BY <1>1, <2>3, RenumberFact
  <2> HIDE DEF c
  <2>5. Range(queue') = Range(queue) \cup {c}
    BY <1>0, <2>1, <2>4, RangeFact
  <2> QED BY <1>0, <1>2, <2>1, <2>4, <2>5
<1>3. CASE p # "usb"
  <2> DEFINE c == task[p].command
  <2>1. stops' = stops /\ owed' = (owed \/ FALSE) /\ queue' = <<c>> \o queue
    BY <1>3 DEF SendToFront, Placed
  <2>2. owed' = owed
    BY <1>0, <2>1
  <2>3. Range(queue') = Range(queue) \cup {c}
    BY <1>0, <1>1, <2>1, RangeFact
  <2> QED BY <1>0, <1>1, <1>3, <2>1, <2>2, <2>3
<1> QED BY <1>2, <1>3

LEMMA ReceiveQueue ==
  ASSUME TypeInv, Receive
  PROVE  /\ queue # <<>> /\ queue' = Tail(queue) /\ Head(queue) \in Commands
         /\ Range(queue) = {Head(queue)} \cup Range(queue')
         /\ UNCHANGED <<pending, callback, has_command, task, stops>>
         /\ IF Head(queue).kind = "STOP"
            THEN /\ owed' = FALSE
                 /\ executed' = [executed EXCEPT ![Head(queue).from] = Head(queue).epoch]
            ELSE owed' = owed /\ executed' = executed
<1>1. queue \in Seq(Commands) /\ queue # <<>> /\ queue' = Tail(queue)
  BY Types DEF TypeInv, Receive
<1> QED BY <1>1, HeadTailProperties, RangeFact DEF Receive, mailbox

(* Outside the races, the communication task takes what the mailbox holds.       *)
LEMMA CleanStep == TypeInv /\ MailInv /\ CleanInv /\ [Next]_vars => CleanInv'
<1> SUFFICES ASSUME TypeInv, MailInv, CleanInv, [Next]_vars, ~raced' PROVE CleanInv'
  BY DEF CleanInv
<1>0. /\ pending \in Commands /\ queue \in Seq(Commands) /\ raced \in BOOLEAN
      /\ task["ble"].command \in Commands /\ "ble" \in Interfaces
  BY Types, TaskParts DEF TypeInv, Interfaces
<1>1. ASSUME Races
      PROVE  ~raced /\ ~Overlap'
  BY <1>1 DEF Races
<1>2. ASSUME ~raced
      PROVE  /\ ~Overlap
             /\ task["ble"].step \in {"args", "clear"} => task["ble"].command = pending
             /\ \A p \in Interfaces : Busy(p) => Genuine(task[p].command)
             /\ \A c \in Range(queue) : Genuine(c)
  BY <1>2 DEF CleanInv
<1>3. ASSUME ~raced, Taking PROVE callback.step = "idle"
  <2>1. has_command /\ ~Overlap
    BY <1>2, <1>3 DEF MailInv
  <2>2. callback.command.kind \in {"START", "STOP"}
    BY Types DEF TypeInv, Callbacks, Commands
  <2> QED BY <1>3, <2>1, <2>2 DEF MailInv, Overlap
<1>4. CASE Races /\ (RadioUp \/ Connect)
  <2>1. UNCHANGED <<pending, callback, task, queue>>
    BY <1>4 DEF RadioUp, Connect, mailbox
  <2> QED BY <1>1, <1>2, <1>4, <2>1 DEF CleanInv, Overlap, Taking, Busy
<1>5. CASE Races /\ (Disconnect \/ \E kind \in {"START", "STOP"} : Write(kind))
  <2>1. PICK kind \in {"START", "STOP"} : Storing(kind)
    BY <1>5, Stored DEF TypeInv
  <2>2. UNCHANGED <<pending, task, queue>>
    BY <2>1, StoringFact DEF TypeInv
  <2> QED BY <1>1, <1>2, <1>5, <2>2 DEF CleanInv, Taking, Busy
<1>6. CASE Races /\ \E kind \in {"START", "STOP"} : UsbRead(kind)
  <2>1. /\ UNCHANGED <<pending, callback, queue>> /\ task'["ble"] = task["ble"]
        /\ Genuine(task'["usb"].command)
    BY <1>6, UsbReadFact
  <2> QED BY <1>1, <1>2, <1>6, <2>1 DEF CleanInv, Overlap, Taking, Busy, Interfaces
<1>7. CASE Races /\ (StoreKind \/ StoreArgs \/ StoreFlag)
  <2>1. UNCHANGED <<task, queue>> /\ callback.step # "idle"
    BY <1>7, StoresFact
  <2>2. ~Taking
    BY <1>1, <1>3, <1>7, <2>1
  <2> QED BY <1>1, <1>2, <1>7, <2>1, <2>2 DEF CleanInv, Taking, Busy
<1>8. CASE Races /\ (TakeSeen \/ TakeKind \/ TakeArgs \/ TakeClear)
  <2>1. UNCHANGED <<pending, callback, queue>> /\ task'["usb"] = task["usb"]
    BY <1>8, TakesFact
  <2>2. task'["ble"].step \in {"args", "clear"} => task'["ble"].command = pending
    <3>1. CASE task'["ble"].step = "clear"
      <4>1. /\ task["ble"].step = "args"
            /\ task'["ble"].command = [task["ble"].command EXCEPT !.args = pending.args]
        BY <1>8, <3>1, TakesFact
      <4>2. task["ble"].command = pending
        BY <1>1, <1>2, <1>8, <4>1
      <4> QED BY <1>0, <4>1, <4>2, ArgumentFact
    <3>2. CASE task'["ble"].step = "args"
      BY <1>8, <3>2, TakesFact
    <3> QED BY <3>1, <3>2
  <2>3. task'["ble"].step \notin {"idle", "kind"} => Genuine(task'["ble"].command)
    <3>1. CASE task'["ble"].step \in {"args", "clear"}
      <4>1. Taking
        BY <1>8, <3>1, TakesFact DEF Taking
      <4>2. Genuine(pending)
        BY <1>1, <1>3, <1>8, <4>1 DEF MailInv
      <4> QED BY <2>2, <3>1, <4>2
    <3>2. CASE task'["ble"].step = "submit"
      <4>1. task["ble"].step = "clear" /\ task'["ble"].command = task["ble"].command
        BY <1>8, <3>2, TakesFact
      <4> QED BY <1>0, <1>1, <1>2, <1>8, <4>1 DEF Busy
    <3> QED BY <1>8, <3>1, <3>2, TakesFact
  <2> QED BY <1>1, <1>2, <1>8, <2>1, <2>2, <2>3 DEF CleanInv, Busy, Interfaces
<1>9. CASE Races /\ Receive
  <2>1. UNCHANGED <<pending, callback, task>> /\ Range(queue') \subseteq Range(queue)
    BY <1>9, ReceiveQueue
  <2> QED BY <1>1, <1>2, <1>9, <2>1 DEF CleanInv, Overlap, Taking, Busy
<1>10. ASSUME NEW p \in Interfaces,
              (Races /\ (Submit(p) \/ SubmitStop(p) \/ SendToFront(p))) \/ FrontRefused(p)
       PROVE  CleanInv'
  <2>1. Races /\ ~FrontRefused(p)
    BY <1>10 DEF FrontRefused
  <2>2. /\ UNCHANGED <<pending, callback>> /\ \A q \in Interfaces : q # p => task'[q] = task[q]
        /\ task'[p].step \in {"idle", "front"}
        /\ task'[p].step = "front" => task'[p].command = task[p].command /\ Busy(p)
    BY <1>10, SubmitsFact DEF Busy
  <2>3. \A c \in Range(queue') : Genuine(c)
    <3>1. CASE Submit(p)
      BY <1>1, <1>2, <2>1, <3>1, SubmitQueue
    <3>2. CASE SubmitStop(p)
      BY <3>2, RangeFact DEF SubmitStop, Range
    <3>3. CASE SendToFront(p)
      <4>1. PICK c \in Commands : /\ Range(queue') = Range(queue) \cup {c}
                                  /\ Genuine(task[p].command) => Genuine(c)
                                  /\ Busy(p)
        BY <3>3, FrontQueue
      <4> QED BY <1>1, <1>2, <2>1, <4>1
    <3> QED BY <1>10, <2>1, <3>1, <3>2, <3>3
  <2>4. \A q \in Interfaces : Busy(q)' => Genuine(task'[q].command)
    BY <1>1, <1>2, <2>1, <2>2 DEF Busy
  <2>5. task'["ble"].step \in {"args", "clear"} => task'["ble"].command = pending'
    BY <1>0, <1>1, <1>2, <2>1, <2>2
  <2> QED BY <1>1, <2>1, <2>3, <2>4, <2>5 DEF CleanInv
<1>11. CASE UNCHANGED vars
  <2>1. UNCHANGED <<pending, callback, task, queue, raced>>
    BY <1>11 DEF vars, mailbox, history
  <2> QED BY <1>2, <2>1 DEF CleanInv, Overlap, Taking, Busy
<1> QED
  BY <1>4, <1>5, <1>6, <1>7, <1>8, <1>9, <1>10, <1>11, NextCases

----------------------------------------------------------------------------------
(* The numbers of the commands.                                                  *)
LEMMA EpochTypes ==
  ASSUME TypeInv
  PROVE  /\ stops \in Nat /\ pending.epoch \in Nat /\ callback.command.epoch \in Nat
         /\ \A p \in Interfaces : /\ executed[p] \in Nat /\ Source(p) \in Nat
                                  /\ task[p].command.epoch \in Nat
         /\ \A i \in DOMAIN queue : queue[i].from \in Interfaces /\ queue[i].epoch \in Nat
<1>0. /\ stops \in Numbers /\ pending \in Commands /\ callback \in Callbacks /\ task \in Tasks
      /\ executed \in [Interfaces -> Numbers] /\ queue \in Seq(Commands) /\ MaxStops \in Nat
  BY Types, CommandPathAssumption DEF TypeInv
<1>1. Numbers \subseteq Nat /\ \A c \in Commands : c.from \in Interfaces /\ c.epoch \in Nat
  BY <1>0 DEF Numbers, Commands
<1>2. \A p \in Interfaces : task[p].command \in Commands
  BY <1>0, TaskParts
<1>3. \A i \in DOMAIN queue : queue[i] \in Commands
  BY <1>0, ElementOfSeq, LenProperties
<1> QED BY <1>0, <1>1, <1>2, <1>3 DEF Callbacks, Source

(* A step that leaves the queue alone, and of a task at most takes a command     *)
(* with the number there is at the source.                                       *)
LEMMA SameQueue ==
  ASSUME TypeInv, TypeInv', EpochInv, queue' = queue, executed' = executed,
         stops' >= stops, pending'.epoch >= pending.epoch,
         pending'.epoch =< stops', callback'.command.epoch =< stops',
         callback'.step # "idle" => pending'.epoch =< callback'.command.epoch,
         \A p \in Interfaces :
           \/ task'[p] = task[p]
           \/ ~Busy(p)'
           \/ /\ task'[p].step # "front"
              /\ \/ Busy(p) /\ task'[p].command.epoch = task[p].command.epoch
                 \/ task'[p].command.epoch = Source(p)'
  PROVE  EpochInv'
<1>0. /\ \A p \in Interfaces : /\ executed[p] \in Nat /\ Source(p) \in Nat /\ Source(p)' \in Nat
                               /\ task[p].command.epoch \in Nat /\ Source(p)' >= Source(p)
      /\ \A i \in DOMAIN queue : queue[i].from \in Interfaces /\ queue[i].epoch \in Nat
  <2>1. /\ \A p \in Interfaces : executed[p] \in Nat /\ task[p].command.epoch \in Nat
        /\ \A i \in DOMAIN queue : queue[i].from \in Interfaces /\ queue[i].epoch \in Nat
        /\ stops \in Nat /\ pending.epoch \in Nat
    BY EpochTypes
  <2>2. stops' \in Nat /\ pending'.epoch \in Nat
    <3>1. stops' \in Numbers /\ pending' \in Commands /\ MaxStops \in Nat
      BY TypesPrime, CommandPathAssumption DEF TypeInv
    <3> QED BY <3>1 DEF Numbers, Commands
  <2> QED BY <2>1, <2>2 DEF Source
<1>1. ASSUME NEW p \in Interfaces
      PROVE  /\ executed[p] =< Source(p)'
             /\ Busy(p)' => executed[p] =< task'[p].command.epoch /\ task'[p].command.epoch =< Source(p)'
             /\ task'[p].step = "front" => \A i \in DOMAIN queue : queue[i].from # p
  <2>1. /\ executed[p] =< Source(p)
        /\ Busy(p) => executed[p] =< task[p].command.epoch /\ task[p].command.epoch =< Source(p)
        /\ task[p].step = "front" => \A i \in DOMAIN queue : queue[i].from # p
    BY DEF EpochInv
  <2>2. executed[p] =< Source(p)'
    BY <1>0, <2>1
  <2>3. CASE task'[p] = task[p]
    BY <1>0, <2>1, <2>2, <2>3 DEF Busy
  <2>4. CASE ~Busy(p)'
    BY <2>2, <2>4 DEF Busy
  <2>5. CASE /\ task'[p].step # "front"
             /\ \/ Busy(p) /\ task'[p].command.epoch = task[p].command.epoch
                \/ task'[p].command.epoch = Source(p)'
    BY <1>0, <2>1, <2>2, <2>5
  <2> QED BY <2>3, <2>4, <2>5
<1>2. ASSUME NEW i \in DOMAIN queue, NEW p \in Interfaces, queue[i].from = p
      PROVE  /\ executed[p] =< queue[i].epoch /\ queue[i].epoch =< Source(p)'
             /\ Busy(p)' => queue[i].epoch =< task'[p].command.epoch
  <2>1. /\ executed[p] =< queue[i].epoch /\ queue[i].epoch =< Source(p)
        /\ Busy(p) => queue[i].epoch =< task[p].command.epoch
    BY <1>2 DEF EpochInv
  <2>2. queue[i].epoch =< Source(p)'
    BY <1>0, <2>1
  <2>3. CASE task'[p] = task[p]
    <3>1. Busy(p)' => Busy(p)
      BY <2>3 DEF Busy
    <3> QED BY <2>1, <2>2, <2>3, <3>1
  <2>4. CASE ~Busy(p)'
    BY <2>1, <2>2, <2>4
  <2>5. CASE \/ Busy(p) /\ task'[p].command.epoch = task[p].command.epoch
             \/ task'[p].command.epoch = Source(p)'
    BY <2>1, <2>2, <2>5
  <2> QED BY <2>3, <2>4, <2>5
<1>3. \A i, j \in DOMAIN queue :
        i < j /\ queue[i].from = queue[j].from => queue[i].epoch =< queue[j].epoch
  BY DEF EpochInv
<1> QED BY <1>1, <1>2, <1>3 DEF EpochInv

LEMMA EpochReceive == TypeInv /\ EpochInv /\ Receive => EpochInv'
<1> SUFFICES ASSUME TypeInv, EpochInv, Receive PROVE EpochInv'
  OBVIOUS
<1>0. /\ \A p \in Interfaces : executed[p] \in Nat /\ Source(p) \in Nat /\ task[p].command.epoch \in Nat
      /\ \A i \in DOMAIN queue : queue[i].from \in Interfaces /\ queue[i].epoch \in Nat
      /\ executed \in [Interfaces -> Numbers]
  BY EpochTypes, Types DEF TypeInv
<1>1. /\ UNCHANGED <<pending, callback, task, stops>>
      /\ \A i \in DOMAIN queue' : i + 1 \in DOMAIN queue /\ queue'[i] = queue[i + 1] /\ i \in Nat /\ i >= 1
      /\ 1 \in DOMAIN queue /\ Head(queue) = queue[1]
  <2>1. queue \in Seq(Commands) /\ queue # <<>> /\ queue' = Tail(queue)
    BY Types, ReceiveQueue DEF TypeInv
  <2>2. queue' \in Seq(Commands)
    BY <2>1, TailFact
  <2>3. \A i \in DOMAIN queue' : i \in Nat
    BY <2>2, LenProperties
  <2> QED BY <2>1, <2>3, TailFact, ReceiveQueue
<1>2. \A p \in Interfaces : Source(p)' = Source(p) /\ Busy(p)' = Busy(p)
  BY <1>1 DEF Source, Busy
<1>3. ASSUME NEW p \in Interfaces
      PROVE  \/ executed'[p] = executed[p]
             \/ queue[1].from = p /\ executed'[p] = queue[1].epoch
  <2>1. IF Head(queue).kind = "STOP"
        THEN executed' = [executed EXCEPT ![queue[1].from] = queue[1].epoch]
        ELSE executed' = executed
    BY <1>1, ReceiveQueue
  <2> QED BY <1>0, <2>1
<1>4. ASSUME NEW p \in Interfaces
      PROVE  /\ executed'[p] =< Source(p)
             /\ Busy(p) => executed'[p] =< task[p].command.epoch /\ task[p].command.epoch =< Source(p)
             /\ task[p].step = "front" => \A i \in DOMAIN queue : queue[i].from # p
  BY <1>0, <1>1, <1>3 DEF EpochInv
<1>5. ASSUME NEW i \in DOMAIN queue', NEW p \in Interfaces, queue'[i].from = p
      PROVE  /\ executed'[p] =< queue'[i].epoch /\ queue'[i].epoch =< Source(p)
             /\ Busy(p) => queue'[i].epoch =< task[p].command.epoch
  <2>1. i + 1 \in DOMAIN queue /\ queue'[i] = queue[i + 1] /\ 1 < i + 1 /\ 1 \in DOMAIN queue
    BY <1>1
  <2>2. /\ executed[p] =< queue'[i].epoch /\ queue'[i].epoch =< Source(p)
        /\ Busy(p) => queue'[i].epoch =< task[p].command.epoch
    BY <1>5, <2>1 DEF EpochInv
  <2>3. queue[1].from = p => queue[1].epoch =< queue'[i].epoch
    BY <1>5, <2>1 DEF EpochInv
  <2> QED BY <1>3, <2>2, <2>3
<1>6. ASSUME NEW i \in DOMAIN queue', NEW j \in DOMAIN queue', i < j, queue'[i].from = queue'[j].from
      PROVE  queue'[i].epoch =< queue'[j].epoch
  <2>1. /\ i + 1 \in DOMAIN queue /\ queue'[i] = queue[i + 1]
        /\ j + 1 \in DOMAIN queue /\ queue'[j] = queue[j + 1] /\ i + 1 < j + 1
    BY <1>1, <1>6
  <2> QED BY <1>6, <2>1 DEF EpochInv
<1>7. \A p \in Interfaces : task[p].step = "front" => \A i \in DOMAIN queue' : queue'[i].from # p
  BY <1>1, <1>4
<1> QED BY <1>1, <1>2, <1>4, <1>5, <1>6, <1>7 DEF EpochInv

LEMMA EpochSubmit ==
  ASSUME TypeInv, EpochInv, NEW p \in Interfaces, Submit(p)
  PROVE  EpochInv'
<1>0. /\ \A q \in Interfaces : executed[q] \in Nat /\ Source(q) \in Nat /\ task[q].command.epoch \in Nat
      /\ \A i \in DOMAIN queue : queue[i].from \in Interfaces /\ queue[i].epoch \in Nat
  BY EpochTypes
<1>1. /\ UNCHANGED <<pending, callback, executed, stops>> /\ Busy(p) /\ task'[p].step = "idle"
      /\ \A q \in Interfaces : q # p => task'[q] = task[q]
      /\ task[p].command.from = p
  BY SubmitsFact, SubmitQueue DEF Submit, SubmitStop, TypeInv, StepInv
<1>2. /\ \A q \in Interfaces : Source(q)' = Source(q)
      /\ ~Busy(p)' /\ \A q \in Interfaces : q # p => Busy(q)' = Busy(q)
  BY <1>1 DEF Source, Busy
<1>3. /\ DOMAIN queue \subseteq Nat
      /\ \A i \in DOMAIN queue' : \/ i \in DOMAIN queue /\ queue'[i] = queue[i]
                                  \/ /\ queue'[i] = task[p].command /\ i \in Nat
                                     /\ \A j \in DOMAIN queue' : j =< i
  <2>1. queue \in Seq(Commands) /\ task[p].command \in Commands
    BY Types, TaskParts DEF TypeInv
  <2>2. CASE queue' = queue
    BY <2>1, <2>2, LenProperties
  <2>3. CASE queue' = Append(queue, task[p].command)
    <3>1. /\ Len(queue) \in Nat /\ DOMAIN queue = 1..Len(queue)
          /\ \A i \in DOMAIN queue' : \/ i \in DOMAIN queue /\ queue'[i] = queue[i]
                                      \/ i = Len(queue) + 1 /\ queue'[i] = task[p].command
      BY <2>1, <2>3, AppendFact
    <3>2. \A i \in DOMAIN queue' : i =< Len(queue) + 1
      BY <3>1
    <3> QED BY <3>1, <3>2
  <2> QED BY <2>2, <2>3, SubmitQueue
<1>4. ASSUME NEW q \in Interfaces
      PROVE  /\ executed[q] =< Source(q)
             /\ Busy(q)' => executed[q] =< task'[q].command.epoch /\ task'[q].command.epoch =< Source(q)
             /\ task'[q].step = "front" => \A i \in DOMAIN queue' : queue'[i].from # q
  <2>1. CASE q = p
    BY <1>1, <1>2, <2>1 DEF EpochInv
  <2>2. CASE q # p
    BY <1>1, <1>2, <1>3, <2>2 DEF EpochInv
  <2> QED BY <2>1, <2>2
<1>5. ASSUME NEW i \in DOMAIN queue', NEW q \in Interfaces, queue'[i].from = q
      PROVE  /\ executed[q] =< queue'[i].epoch /\ queue'[i].epoch =< Source(q)
             /\ Busy(q)' => queue'[i].epoch =< task'[q].command.epoch
  <2>1. CASE i \in DOMAIN queue /\ queue'[i] = queue[i]
    <3>1. /\ executed[q] =< queue[i].epoch /\ queue[i].epoch =< Source(q)
          /\ Busy(q) => queue[i].epoch =< task[q].command.epoch
      BY <1>5, <2>1 DEF EpochInv
    <3> QED BY <1>1, <1>2, <2>1, <3>1
  <2>2. CASE queue'[i] = task[p].command
    BY <1>1, <1>2, <1>5, <2>2 DEF EpochInv
  <2> QED BY <1>3, <2>1, <2>2
<1>6. ASSUME NEW i \in DOMAIN queue', NEW j \in DOMAIN queue', i < j, queue'[i].from = queue'[j].from
      PROVE  queue'[i].epoch =< queue'[j].epoch
  <2>1. i \in DOMAIN queue /\ queue'[i] = queue[i] /\ i \in Nat
    <3>1. ~(i \in Nat /\ \A k \in DOMAIN queue' : k =< i)
      <4>1. j \in Nat
        BY <1>3
      <4> QED BY <1>6, <4>1
    <3> QED BY <1>3, <3>1
  <2>2. CASE j \in DOMAIN queue /\ queue'[j] = queue[j]
    BY <1>6, <2>1, <2>2 DEF EpochInv
  <2>3. CASE queue'[j] = task[p].command
    <3>1. queue[i].from = p
      BY <1>1, <1>6, <2>1, <2>3
    <3> QED BY <1>1, <2>1, <2>3, <3>1 DEF EpochInv
  <2> QED BY <1>3, <2>2, <2>3
<1>7. /\ pending.epoch =< stops /\ callback.command.epoch =< stops
      /\ callback.step # "idle" => pending.epoch =< callback.command.epoch
  BY DEF EpochInv
<1> QED BY <1>1, <1>2, <1>4, <1>5, <1>6, <1>7 DEF EpochInv

LEMMA EpochFront ==
  ASSUME TypeInv, EpochInv, NEW p \in Interfaces, SendToFront(p)
  PROVE  EpochInv'
<1>0. /\ \A q \in Interfaces : executed[q] \in Nat /\ Source(q) \in Nat /\ task[q].command.epoch \in Nat
      /\ \A i \in DOMAIN queue : queue[i].from \in Interfaces /\ queue[i].epoch \in Nat
      /\ stops \in Nat /\ pending.epoch \in Nat /\ callback.command.epoch \in Nat
  BY EpochTypes
<1>1. /\ UNCHANGED <<pending, callback, executed>> /\ task[p].step = "front" /\ task'[p].step = "idle"
      /\ \A q \in Interfaces : q # p => task'[q] = task[q]
  BY SubmitsFact DEF SendToFront
<1>2. PICK c \in Commands :
        /\ queue' = <<c>> \o queue /\ c.from = p /\ Busy(p)
        /\ IF p = "usb" THEN c.epoch = stops' /\ stops' = stops + 1
           ELSE c = task[p].command /\ stops' = stops
  BY FrontQueue
<1>3. /\ \A q \in Interfaces : q # p => Source(q)' >= Source(q) /\ Source(q)' \in Nat /\ Busy(q)' = Busy(q)
      /\ ~Busy(p)' /\ stops' >= stops /\ stops' \in Nat /\ c.epoch \in Nat
      /\ Source(p)' >= Source(p) /\ Source(p)' \in Nat
      /\ executed[p] =< c.epoch /\ c.epoch =< Source(p)'
  <2>1. executed[p] =< Source(p) /\ executed[p] =< task[p].command.epoch /\ task[p].command.epoch =< Source(p)
    BY <1>2 DEF EpochInv
  <2>2. stops' \in Nat /\ stops' >= stops
    BY <1>0, <1>2
  <2>3. \A q \in Interfaces : Source(q)' >= Source(q) /\ Source(q)' \in Nat
    BY <1>0, <1>1, <2>2 DEF Source
  <2>4. ~Busy(p)' /\ \A q \in Interfaces : q # p => Busy(q)' = Busy(q)
    BY <1>1 DEF Busy
  <2>5. c.epoch \in Nat /\ executed[p] =< c.epoch /\ c.epoch =< Source(p)'
    <3>1. CASE p = "usb"
      <4>1. Source(p) = stops /\ Source(p)' = stops'
        BY <3>1 DEF Source
      <4> QED BY <1>0, <1>2, <2>1, <2>2, <3>1, <4>1
    <3>2. CASE p # "usb"
      BY <1>0, <1>2, <2>1, <2>3, <3>2
    <3> QED BY <3>1, <3>2
  <2> QED BY <2>2, <2>3, <2>4, <2>5
<1>4. \A i \in DOMAIN queue' :
        \/ i = 1 /\ queue'[i] = c
        \/ i \in Nat /\ i - 1 \in DOMAIN queue /\ queue'[i] = queue[i - 1] /\ i > 1
  <2>1. queue \in Seq(Commands)
    BY Types DEF TypeInv
  <2>2. /\ DOMAIN queue = 1..Len(queue) /\ Len(queue) \in Nat /\ queue'[1] = c
        /\ queue' \in Seq(Commands)
        /\ \A i \in DOMAIN queue' : i = 1 \/ (i - 1 \in DOMAIN queue /\ queue'[i] = queue[i - 1])
    BY <1>2, <2>1, FrontFact
  <2>3. \A i \in DOMAIN queue' : i \in Nat
    BY <2>2, LenProperties
  <2> QED BY <2>2, <2>3
<1>5. \A i \in DOMAIN queue : queue[i].from # p
  BY <1>1 DEF EpochInv
<1>6. ASSUME NEW q \in Interfaces
      PROVE  /\ executed[q] =< Source(q)'
             /\ Busy(q)' => executed[q] =< task'[q].command.epoch /\ task'[q].command.epoch =< Source(q)'
             /\ task'[q].step = "front" => \A i \in DOMAIN queue' : queue'[i].from # q
  <2>1. CASE q = p
    BY <1>0, <1>1, <1>3, <2>1 DEF EpochInv
  <2>2. CASE q # p
    <3>1. /\ executed[q] =< Source(q)
          /\ Busy(q) => executed[q] =< task[q].command.epoch /\ task[q].command.epoch =< Source(q)
          /\ task[q].step = "front" => \A i \in DOMAIN queue : queue[i].from # q
      BY DEF EpochInv
    <3> QED BY <1>0, <1>1, <1>2, <1>3, <1>4, <2>2, <3>1
  <2> QED BY <2>1, <2>2
<1>7. ASSUME NEW i \in DOMAIN queue', NEW q \in Interfaces, queue'[i].from = q
      PROVE  /\ executed[q] =< queue'[i].epoch /\ queue'[i].epoch =< Source(q)'
             /\ Busy(q)' => queue'[i].epoch =< task'[q].command.epoch
  <2>1. CASE queue'[i] = c
    BY <1>2, <1>3, <1>7, <2>1
  <2>2. CASE i \in Nat /\ i - 1 \in DOMAIN queue /\ queue'[i] = queue[i - 1]
    <3>1. /\ executed[q] =< queue'[i].epoch /\ queue'[i].epoch =< Source(q)
          /\ Busy(q) => queue'[i].epoch =< task[q].command.epoch
      BY <1>7, <2>2 DEF EpochInv
    <3>2. q # p /\ queue'[i].epoch \in Nat
      BY <1>0, <1>5, <1>7, <2>2
    <3> QED BY <1>0, <1>1, <1>3, <3>1, <3>2
  <2> QED BY <1>4, <2>1, <2>2
<1>8. ASSUME NEW i \in DOMAIN queue', NEW j \in DOMAIN queue', i < j, queue'[i].from = queue'[j].from
      PROVE  queue'[i].epoch =< queue'[j].epoch
  <2>1. j - 1 \in DOMAIN queue /\ queue'[j] = queue[j - 1] /\ j \in Nat
    <3>1. i = 1 \/ (i \in Nat /\ i > 1)
      BY <1>4
    <3> QED BY <1>4, <1>8, <3>1
  <2>2. queue'[j].from # p
    BY <1>5, <2>1
  <2>3. i - 1 \in DOMAIN queue /\ queue'[i] = queue[i - 1] /\ i \in Nat
    BY <1>2, <1>4, <1>8, <2>2
  <2>4. i - 1 < j - 1
    BY <1>8, <2>1, <2>3
  <2> QED BY <1>8, <2>1, <2>3, <2>4 DEF EpochInv
<1>9. /\ pending.epoch =< stops' /\ callback.command.epoch =< stops'
      /\ callback.step # "idle" => pending.epoch =< callback.command.epoch
  BY <1>0, <1>3 DEF EpochInv
<1> QED BY <1>1, <1>6, <1>7, <1>8, <1>9 DEF EpochInv

(* The numbers stay in order, whatever the interfaces do.                        *)
LEMMA EpochStep == TypeInv /\ EpochInv /\ [Next]_vars => EpochInv'
<1> SUFFICES ASSUME TypeInv, EpochInv, [Next]_vars PROVE EpochInv'
  OBVIOUS
<1>0. /\ TypeInv' /\ stops \in Nat /\ pending.epoch \in Nat /\ callback.command.epoch \in Nat
      /\ pending.epoch =< stops /\ callback.command.epoch =< stops
      /\ callback.step # "idle" => pending.epoch =< callback.command.epoch
  BY TypeStep, EpochTypes DEF EpochInv
<1>1. CASE RadioUp \/ Connect \/ UNCHANGED vars
  <2>1. UNCHANGED <<pending, callback, task, queue, stops, executed>>
    BY <1>1 DEF RadioUp, Connect, vars, mailbox, history
  <2> QED BY <1>0, <2>1, SameQueue
<1>2. CASE Disconnect \/ \E kind \in {"START", "STOP"} : Write(kind)
  <2>1. PICK kind \in {"START", "STOP"} : Storing(kind)
    BY <1>2, Stored DEF TypeInv
  <2>2. /\ UNCHANGED <<pending, task, queue, executed>> /\ stops' >= stops /\ stops' \in Numbers
        /\ callback'.command.epoch = stops' /\ MaxStops \in Nat
    BY <2>1, StoringFact, CommandPathAssumption DEF TypeInv
  <2> QED BY <1>0, <2>2, SameQueue DEF Numbers
<1>3. CASE \E kind \in {"START", "STOP"} : UsbRead(kind)
  <2>1. /\ UNCHANGED <<pending, callback, queue, stops, executed>>
        /\ task'["usb"].step = "submit" /\ task'["usb"].command.epoch = stops
        /\ task'["ble"] = task["ble"]
    BY <1>3, UsbReadFact
  <2>2. task'["usb"].command.epoch = Source("usb")'
    BY <2>1 DEF Source
  <2>3. \A p \in Interfaces : \/ task'[p] = task[p]
                              \/ task'[p].step # "front" /\ task'[p].command.epoch = Source(p)'
    BY <2>1, <2>2 DEF Interfaces
  <2> QED BY <1>0, <2>1, <2>3, SameQueue
<1>4. CASE StoreKind \/ StoreArgs \/ StoreFlag
  <2>1. UNCHANGED <<task, queue, stops, executed>>
    BY <1>4, StoresFact
  <2>2. /\ pending'.epoch >= pending.epoch /\ pending'.epoch =< stops
        /\ callback'.command.epoch =< stops
        /\ callback'.step # "idle" => pending'.epoch =< callback'.command.epoch
    <3>1. CASE callback' = AtRest
      <4>1. callback'.step = "idle" /\ callback'.command.epoch = 0
        BY <3>1, NothingFact
      <4>2. pending'.epoch \in {pending.epoch, stops}
        BY <1>4, <4>1, StoresFact
      <4> QED BY <1>0, <4>1, <4>2
    <3>2. CASE callback' # AtRest
      <4>1. /\ callback.step # "idle" /\ callback'.command = callback.command
            /\ pending'.epoch \in {pending.epoch, callback.command.epoch}
        BY <1>4, <3>2, StoresFact
      <4> QED BY <1>0, <4>1
    <3> QED BY <3>1, <3>2
  <2> QED BY <1>0, <2>1, <2>2, SameQueue
<1>5. CASE TakeSeen \/ TakeKind \/ TakeArgs \/ TakeClear
  <2>1. UNCHANGED <<pending, callback, queue, stops, executed>> /\ task'["usb"] = task["usb"]
    BY <1>5, TakesFact
  <2>2. \/ ~Busy("ble")'
        \/ /\ task'["ble"].step # "front"
           /\ \/ Busy("ble") /\ task'["ble"].command.epoch = task["ble"].command.epoch
              \/ task'["ble"].command.epoch = Source("ble")'
    <3>1. CASE task'["ble"].step = "kind"
      BY <3>1 DEF Busy
    <3>2. CASE task'["ble"].step = "args"
      BY <1>5, <2>1, <3>2, TakesFact DEF Source
    <3>3. CASE task'["ble"].step = "clear"
      <4>1. /\ task["ble"].step = "args"
            /\ task'["ble"].command = [task["ble"].command EXCEPT !.args = pending.args]
        BY <1>5, <3>3, TakesFact
      <4>2. pending \in Commands /\ task["ble"].command \in Commands
        BY Types, TaskParts DEF TypeInv, Interfaces
      <4>3. task'["ble"].command.epoch = task["ble"].command.epoch
        BY <4>1, <4>2, ArgumentFact
      <4> QED BY <3>3, <4>1, <4>3 DEF Busy
    <3>4. CASE task'["ble"].step = "submit"
      BY <1>5, <3>4, TakesFact DEF Busy
    <3> QED BY <1>5, <3>1, <3>2, <3>3, <3>4, TakesFact
  <2>3. \A p \in Interfaces : \/ task'[p] = task[p]
                              \/ ~Busy(p)'
                              \/ /\ task'[p].step # "front"
                                 /\ \/ Busy(p) /\ task'[p].command.epoch = task[p].command.epoch
                                    \/ task'[p].command.epoch = Source(p)'
    BY <2>1, <2>2 DEF Interfaces
  <2> QED BY <1>0, <2>1, <2>3, SameQueue
<1>6. CASE Receive
  BY <1>6, EpochReceive
<1>7. ASSUME NEW p \in Interfaces, Submit(p) \/ SubmitStop(p) \/ SendToFront(p) \/ FrontRefused(p)
      PROVE  EpochInv'
  <2>1. CASE Submit(p)
    BY <2>1, EpochSubmit
  <2>2. CASE SendToFront(p)
    BY <2>2, EpochFront
  <2>3. CASE FrontRefused(p)
    <3>1. /\ UNCHANGED <<pending, callback, queue, stops, executed>>
          /\ \A q \in Interfaces : task'[q] = task[q] \/ ~Busy(q)'
      BY <2>3, SubmitsFact DEF Busy, FrontRefused, SubmitStop
    <3> QED BY <1>0, <3>1, SameQueue
  <2>4. CASE SubmitStop(p)
    <3>1. /\ UNCHANGED <<pending, callback, stops, executed>> /\ queue' = <<>>
          /\ Busy(p) /\ task'[p].command = task[p].command /\ \A q \in Interfaces : q # p => task'[q] = task[q]
      BY <2>4, SubmitsFact DEF SubmitStop, Submit, SendToFront, FrontRefused, Busy
    <3>2. ASSUME NEW q \in Interfaces
          PROVE  Source(q)' = Source(q) /\ (Busy(q)' => Busy(q)) /\ task'[q].command = task[q].command
      BY <3>1 DEF Source, Busy
    <3>3. DOMAIN queue' = {}
      BY <3>1
    <3> QED BY <3>1, <3>2, <3>3 DEF EpochInv
  <2> QED BY <1>7, <2>1, <2>2, <2>3, <2>4
<1> QED BY <1>1, <1>2, <1>3, <1>4, <1>5, <1>6, <1>7, NextCases

----------------------------------------------------------------------------------
(* A STOP that is owed.                                                          *)

(* Where the STOP on its way is.                                                 *)
LEMMA OnItsWay ==
  StopOnItsWay <=> \/ \E c \in Range(queue) : c.kind = "STOP"
                   \/ has_command /\ pending.kind = "STOP"
                   \/ callback.step # "idle" /\ callback.command.kind = "STOP"
                   \/ \E p \in Interfaces : Busy(p) /\ task[p].command.kind = "STOP"
<1>1. \A c : c \in InFlight <=> \/ c \in Range(queue)
                                \/ has_command /\ c = pending
                                \/ callback.step # "idle" /\ c = callback.command
                                \/ \E p \in Interfaces : Busy(p) /\ c = task[p].command
  BY DEF InFlight, Busy
<1> QED BY <1>1 DEF StopOnItsWay

LEMMA OnItsWayPrime ==
  StopOnItsWay' <=> \/ \E c \in Range(queue') : c.kind = "STOP"
                    \/ has_command' /\ pending'.kind = "STOP"
                    \/ callback'.step # "idle" /\ callback'.command.kind = "STOP"
                    \/ \E p \in Interfaces : Busy(p)' /\ task'[p].command.kind = "STOP"
<1>1. \A c : c \in InFlight' <=> \/ c \in Range(queue')
                                 \/ has_command' /\ c = pending'
                                 \/ callback'.step # "idle" /\ c = callback'.command
                                 \/ \E p \in Interfaces : Busy(p)' /\ c = task'[p].command
  BY DEF InFlight, Busy
<1> QED BY <1>1 DEF StopOnItsWay

LEMMA KeptTakes ==
  ASSUME TypeInv, MailInv, CleanInv, StopOnItsWay, ~raced,
         TakeSeen \/ TakeKind \/ TakeArgs \/ TakeClear
  PROVE  StopOnItsWay'
<1>0. /\ pending \in Commands /\ task["ble"].command \in Commands /\ "ble" \in Interfaces
      /\ Interfaces = {"ble", "usb"}
  BY Types, TaskParts DEF TypeInv, Interfaces
<1>1. UNCHANGED <<pending, callback, queue>> /\ task'["usb"] = task["usb"]
  BY TakesFact
<1>2. task["ble"].step \in {"args", "clear"} => task["ble"].command = pending
  BY DEF CleanInv
<1>3. CASE has_command /\ pending.kind = "STOP"
  <2>1. CASE has_command'
    BY <1>1, <1>3, <2>1, OnItsWayPrime
  <2>2. CASE ~has_command'
    <3>1. /\ task["ble"].step = "clear" /\ task'["ble"].step = "submit"
          /\ task'["ble"].command = task["ble"].command
      BY <1>3, <2>2, TakesFact
    <3>2. Busy("ble")' /\ task'["ble"].command.kind = "STOP"
      BY <1>2, <1>3, <3>1 DEF Busy
    <3> QED BY <1>0, <3>2, OnItsWayPrime
  <2> QED BY <2>1, <2>2
<1>4. CASE Busy("ble") /\ task["ble"].command.kind = "STOP"
  <2>1. CASE task["ble"].step = "args"
    <3>1. /\ task'["ble"].step = "clear"
          /\ task'["ble"].command = [task["ble"].command EXCEPT !.args = pending.args]
      BY <2>1, TakesFact
    <3>2. Busy("ble")' /\ task'["ble"].command.kind = "STOP"
      BY <1>0, <1>4, <3>1, ArgumentFact DEF Busy
    <3> QED BY <1>0, <3>2, OnItsWayPrime
  <2>2. CASE task["ble"].step = "clear"
    <3>1. task'["ble"].step = "submit" /\ task'["ble"].command = task["ble"].command
      BY <2>2, TakesFact
    <3>2. Busy("ble")' /\ task'["ble"].command.kind = "STOP"
      BY <1>4, <3>1 DEF Busy
    <3> QED BY <1>0, <3>2, OnItsWayPrime
  <2>3. CASE task["ble"].step \in {"idle", "kind"}
    BY <1>4, <2>3 DEF Busy
  <2> QED BY <2>1, <2>2, <2>3, TakesFact
<1>5. CASE \/ \E c \in Range(queue) : c.kind = "STOP"
           \/ callback.step # "idle" /\ callback.command.kind = "STOP"
           \/ Busy("usb") /\ task["usb"].command.kind = "STOP"
  BY <1>0, <1>1, <1>5, OnItsWayPrime DEF Busy
<1> QED BY <1>0, <1>3, <1>4, <1>5, OnItsWay

(* Outside the races a STOP that is owed is never lost on its way.               *)
LEMMA KeptStep ==
  TypeInv /\ MailInv /\ CleanInv /\ StopKept /\ [Next]_vars => StopKept'
<1> SUFFICES ASSUME TypeInv, MailInv, CleanInv, StopKept, [Next]_vars, owed', ~raced'
             PROVE  StopOnItsWay'
  BY DEF StopKept
<1>0. /\ pending \in Commands /\ queue \in Seq(Commands) /\ raced \in BOOLEAN /\ owed \in BOOLEAN
      /\ callback.command \in Commands /\ "ble" \in Interfaces /\ "usb" \in Interfaces
  BY Types DEF TypeInv, Interfaces, Callbacks
<1>1. ~raced
  <2>1. CASE Races
    BY <2>1 DEF Races
  <2>2. CASE \E p \in Interfaces : FrontRefused(p)
    BY <2>2 DEF FrontRefused
  <2>3. CASE UNCHANGED vars
    BY <2>3 DEF vars, history
  <2> QED BY <2>1, <2>2, <2>3, NextCases
<1>2. owed => StopOnItsWay
  BY <1>1 DEF StopKept
<1>3. CASE RadioUp \/ Connect \/ UNCHANGED vars
  <2>1. UNCHANGED <<pending, has_command, callback, task, queue, owed>>
    BY <1>3 DEF RadioUp, Connect, vars, mailbox, history
  <2> QED BY <1>2, <2>1, OnItsWay, OnItsWayPrime DEF Busy
<1>4. CASE Disconnect \/ \E kind \in {"START", "STOP"} : Write(kind)
  <2>1. PICK kind \in {"START", "STOP"} : Storing(kind)
    BY <1>4, Stored DEF TypeInv
  <2>2. /\ callback.step = "idle" /\ callback'.step = "kind" /\ callback'.command.kind = kind
        /\ UNCHANGED <<pending, has_command, task, queue>> /\ (owed' <=> owed \/ kind = "STOP")
    BY <2>1, StoringFact DEF TypeInv
  <2> QED BY <1>2, <2>2, OnItsWay, OnItsWayPrime DEF Busy
<1>5. CASE \E kind \in {"START", "STOP"} : UsbRead(kind)
  <2>1. /\ UNCHANGED <<pending, has_command, callback, queue, owed>>
        /\ task["usb"].step = "idle" /\ task'["ble"] = task["ble"]
    BY <1>5, UsbReadFact
  <2> QED BY <1>2, <2>1, OnItsWay, OnItsWayPrime DEF Busy, Interfaces
<1>6. CASE StoreKind \/ StoreArgs \/ StoreFlag
  <2>1. UNCHANGED <<task, queue, owed>> /\ StopOnItsWay
    BY <1>2, <1>6, StoresFact
  <2>2. CASE callback' = AtRest
    <3>1. callback'.step = "idle"
      BY <2>2, NothingFact
    <3>2. callback.step = "flag" /\ has_command' = TRUE /\ pending'.kind = pending.kind
      BY <1>6, <3>1, StoresFact
    <3>3. pending = callback.command
      BY <3>2 DEF MailInv
    <3> QED BY <2>1, <3>2, <3>3, OnItsWay, OnItsWayPrime DEF Busy
  <2>3. CASE callback' # AtRest
    <3>1. /\ callback.step # "idle" /\ callback'.step # "idle" /\ callback'.command = callback.command
          /\ has_command' = has_command /\ pending'.kind \in {pending.kind, callback.command.kind}
      BY <1>6, <2>3, StoresFact
    <3>2. has_command => callback.command.kind = "STOP"
      <4>1. callback.command.kind \in {"START", "STOP"}
        BY <1>0 DEF Commands
      <4> QED BY <3>1, <4>1 DEF MailInv
    <3> QED BY <2>1, <3>1, <3>2, OnItsWay, OnItsWayPrime DEF Busy
  <2> QED BY <2>2, <2>3
<1>7. CASE TakeSeen \/ TakeKind \/ TakeArgs \/ TakeClear
  <2>1. owed' = owed
    BY <1>7, TakesFact
  <2> QED BY <1>1, <1>2, <1>7, <2>1, KeptTakes
<1>8. CASE Receive
  <2>1. /\ UNCHANGED <<pending, has_command, callback, task, owed>> /\ Head(queue).kind # "STOP"
        /\ Range(queue) = {Head(queue)} \cup Range(queue')
    BY <1>8, ReceiveQueue
  <2> QED BY <1>2, <2>1, OnItsWay, OnItsWayPrime DEF Busy
<1>9. ASSUME NEW p \in Interfaces, Submit(p) \/ SubmitStop(p) \/ SendToFront(p)
      PROVE  StopOnItsWay'
  <2>1. CASE SubmitStop(p)
    <3>1. Busy(p)' /\ task'[p].command.kind = "STOP"
      BY <2>1, SubmitsFact DEF SubmitStop, Submit, SendToFront, FrontRefused, Busy
    <3> QED BY <3>1, OnItsWayPrime
  <2>2. CASE SendToFront(p)
    <3>1. PICK c \in Commands : Range(queue') = Range(queue) \cup {c} /\ c.kind = "STOP"
      BY <2>2, FrontQueue
    <3> QED BY <3>1, OnItsWayPrime
  <2>3. CASE Submit(p)
    <3>1. /\ UNCHANGED <<pending, has_command, callback, owed>> /\ task[p].command.kind = "START"
          /\ \A q \in Interfaces : q # p => task'[q] = task[q]
          /\ Range(queue) \subseteq Range(queue')
      BY <2>3, SubmitsFact, SubmitQueue
    <3> QED BY <1>2, <3>1, OnItsWay, OnItsWayPrime DEF Busy
  <2> QED BY <1>9, <2>1, <2>2, <2>3
<1>10. ASSUME NEW p \in Interfaces, FrontRefused(p) PROVE FALSE
  BY <1>10 DEF FrontRefused
<1> QED BY <1>3, <1>4, <1>5, <1>6, <1>7, <1>8, <1>9, <1>10, NextCases

----------------------------------------------------------------------------------
(* The theorems.                                                                 *)
LEMMA InitPath == Init => PathInv /\ StopKept
<1> SUFFICES ASSUME Init PROVE PathInv /\ StopKept
  OBVIOUS
<1>0. /\ pending = Nothing /\ has_command = FALSE /\ callback = AtRest
      /\ connected = FALSE /\ radio_ready = FALSE /\ task = [p \in Interfaces |-> AtRest]
      /\ queue = <<>> /\ stops = 0 /\ executed = [p \in Interfaces |-> 0]
      /\ owed = FALSE /\ raced = FALSE /\ MaxStops \in Nat /\ QueueLength \in Nat
  BY CommandPathAssumption DEF Init
<1>1. \A p \in Interfaces : task[p] = AtRest /\ executed[p] = 0
  BY <1>0
<1>2. callback.step = "idle" /\ ~Taking /\ ~Overlap
  BY <1>0, <1>1, NothingFact DEF Taking, Overlap, Interfaces
<1>3. \A p \in Interfaces : ~Busy(p) /\ task[p].step # "front" /\ Source(p) = 0
  BY <1>0, <1>1, NothingFact DEF Busy, Source
<1>4. Range(queue) = {} /\ DOMAIN queue = {}
  BY <1>0 DEF Range
<1>5. TypeOK
  <2>1. task \in Tasks /\ executed \in [Interfaces -> Numbers] /\ stops \in Numbers
    BY <1>0, NothingFact DEF Tasks, Callbacks, Numbers
  <2>2. queue \in Seq(Commands) /\ Len(queue) =< QueueLength
    BY <1>0
  <2> QED BY <1>0, <2>1, <2>2, NothingFact, Types
<1>6. StepInv
  BY <1>0, <1>1, <1>3, NothingFact DEF StepInv, Interfaces
<1>7. MailInv
  BY <1>0, <1>2, NothingFact DEF MailInv
<1>8. CleanInv
  BY <1>1, <1>2, <1>3, <1>4, NothingFact DEF CleanInv, Interfaces
<1>9. EpochInv
  BY <1>0, <1>1, <1>3, <1>4, NothingFact DEF EpochInv
<1> QED BY <1>0, <1>5, <1>6, <1>7, <1>8, <1>9 DEF PathInv, StopKept

LEMMA PathStep == PathInv /\ [Next]_vars => PathInv'
<1> SUFFICES ASSUME PathInv, [Next]_vars PROVE PathInv'
  OBVIOUS
<1>1. TypeInv
  BY DEF PathInv, TypeInv
<1>2. TypeInv' /\ MailInv' /\ CleanInv' /\ EpochInv'
  BY <1>1, TypeStep, MailStep, CleanStep, EpochStep DEF PathInv
<1> QED BY <1>2 DEF PathInv, TypeInv

(* The mailbox, the tasks and the queue hold commands, and the queue never more  *)
(* than its length (the types of src/ble_service.c and src/app_tasks.c).         *)
THEOREM TypeCorrect == Spec => []TypeOK
<1>1. Init => TypeInv
  BY InitPath DEF PathInv, TypeInv
<1>2. TypeInv => TypeOK
  BY DEF TypeInv
<1> QED BY <1>1, <1>2, TypeStep, PTL DEF Spec

(* Outside the race of the mailbox, no command is queued that nobody sent: the   *)
(* copies of ble_service_take_command and of the callbacks never mix two.        *)
THEOREM QueuedCommandsGenuine == Spec => []CommandsGenuine
<1>1. Init => PathInv
  BY InitPath
<1>2. PathInv => CommandsGenuine
  BY DEF PathInv, CleanInv, CommandsGenuine
<1> QED BY <1>1, <1>2, PathStep, PTL DEF Spec

(* After a STOP of an interface has been executed, nothing that interface sent   *)
(* before it can still execute (the reset of the queue in submit_command).       *)
THEOREM OwnStopFlushes == Spec => []StopFlushesItsInterface
<1>1. Init => PathInv
  BY InitPath
<1>2. PathInv => StopFlushesItsInterface
  <2> SUFFICES ASSUME PathInv, NEW c \in InFlight PROVE c.epoch >= executed[c.from]
    BY DEF StopFlushesItsInterface
  <2>0. TypeInv /\ EpochInv /\ queue \in Seq(Commands) /\ "ble" \in Interfaces
    BY Types DEF PathInv, TypeInv, Interfaces
  <2>1. CASE c \in Range(queue)
    <3>1. PICK i \in DOMAIN queue : c = queue[i]
      BY <2>1 DEF Range
    <3>2. c.from \in Interfaces /\ executed[c.from] =< c.epoch
      BY <2>0, <3>1, EpochTypes DEF EpochInv
    <3> QED BY <2>0, <3>1, <3>2, EpochTypes
  <2>2. executed["ble"] =< pending.epoch /\ pending.from = "ble" /\ callback.command.from = "ble"
    BY <2>0 DEF EpochInv, Source, PathInv, StepInv
  <2>3. CASE c = pending
    BY <2>0, <2>2, <2>3, EpochTypes
  <2>4. CASE callback.step # "idle" /\ c = callback.command
    <3>1. pending.epoch =< callback.command.epoch
      BY <2>0, <2>4 DEF EpochInv
    <3> QED BY <2>0, <2>2, <2>4, <3>1, EpochTypes
  <2>5. ASSUME NEW p \in Interfaces, Busy(p), c = task[p].command
        PROVE  c.epoch >= executed[c.from]
    <3>1. c.from = p /\ executed[p] =< c.epoch
      BY <2>0, <2>5 DEF EpochInv, PathInv, StepInv
    <3> QED BY <2>0, <2>5, <3>1, EpochTypes
  <2> QED BY <2>1, <2>3, <2>4, <2>5 DEF InFlight, Busy
<1> QED BY <1>1, <1>2, PathStep, PTL DEF Spec

(* A STOP that was accepted, or owed to a lost link, is on its way until one is  *)
(* executed, unless it met one of the two races.                                 *)
THEOREM StopNeverLost == Spec => []StopKept
<1>1. Init => KeptInv
  BY InitPath DEF KeptInv
<1>2. KeptInv /\ [Next]_vars => KeptInv'
  <2> SUFFICES ASSUME KeptInv, [Next]_vars PROVE KeptInv'
    OBVIOUS
  <2>1. PathInv' /\ StopKept'
    BY PathStep, KeptStep DEF KeptInv, PathInv, TypeInv
  <2> QED BY <2>1 DEF KeptInv
<1>3. KeptInv => StopKept
  BY DEF KeptInv
<1> QED BY <1>1, <1>2, <1>3, PTL DEF Spec
==================================================================================
