# Dispenser: a TLA+ model of the firmware

The repository is the firmware of a paste dispenser: an RP2350 (Pico 2 W) drives
one stepper axis through a TMC5130 over SPI, takes commands over USB and
Bluetooth (Nordic UART service), samples three contacts, and keeps its
configuration and an activation counter in flash. FreeRTOS runs a handful of
tasks; one of them, the motor task, owns the machine. This directory models that
firmware in TLA+, checks it with TLC and proves part of it with TLAPS.

Contents: 1 inventory, 2 modules and how they relate to the code, 3 runs,
4 bounds and abstractions, 5 fairness, 6 proofs, 7 where the code and its
documents disagree, 8 what is not modelled, 9 plan.

To check a run: `tlc -config dispenser_motion.cfg MCDispenser.tla`; to check the
proofs of a module: `tlapm DispenserProofs.tla`. PROJECT.json lists the runs, maps
every definition to its source lines and every property to a faulty variant of
the code that violates it (the operators named `..._something` and introduced by
"Faulty variant").


## 1. Inventory

| component | source | state | operations |
|---|---|---|---|
| application state machine | app_state.c | `app_machine_t`: state, fault code | `app_state_dispatch` |
| motor task | app_tasks.c:114-135 and its helpers | `machine`, `safety`, `sg_cal`, `config`, `direction`, `retract_mm`, `phase_ms`, the previous contacts, the conflict clock, `motor_moving` | one pass every 5 ms: contacts, all queued commands, conflict, edges, ends of motion, safety check, persistence |
| safety check | safety.c | `safety_t`: latched fault, age of a timed motion, StallGuard filter and counters | `safety_init`, `safety_manual_started`, `safety_check` |
| motor control | motor_control.c | configuration given at boot | manual, relative move, stop, observations, relabelling |
| TMC5130 driver | tmc5130.c, tmc_current.c | the registers of the chip, which outlive a restart of the RP2350 | register reads and writes, set-up, StallGuard |
| configuration store | config_store.c | two flash sectors with numbered records | load with migration, save, factory reset |
| device configuration | device_config.c, app_tasks.c:64-82 | the settings in RAM | defaults, validation, the conversion and the three checks of a SET |
| statistics | statistics.c | a log of pages in two sectors, the count, `dirty` | scan, increment, persist, factory reset |
| StallGuard calibration | stallguard_calibration.c | sum, samples, extremes | start, add, finish |
| contacts | buttons.c | three debounce records | `buttons_update` |
| command path | app_tasks.c:55-58, 137-147, 183-189, ble_service.c | BLE mailbox, command queue | accept, copy, submit, receive |
| BLE link | ble_service.c | advertising, line buffer, reply being sent, idle timer | start of the radio, connection, writes, notifications, disconnection |
| status LED | status_led.c | available, level, time of the last change | initialisation, update |
| command parser | command_api.c | none | a line, ASCII or JSON, to `machine_command_t` |
| telemetry, queries | app_tasks.c | a snapshot | formatting |
| start-up | main.c | none | pins, tasks |

How they interact. The BTstack context (a low-level interrupt) and the USB task
turn text into commands. A BLE command waits in a mailbox of one that the
communication task polls every 10 ms; both tasks put commands in the queue of
eight through `submit_command`, where a STOP first resets the queue and then goes
to its front. The motor task empties the queue in every pass, then looks at the
contacts, and drives the chip by blocking SPI calls. The LED task and the
telemetry read what the motor task leaves in shared statics. A configuration is
validated, saved, and only then adopted; statistics are saved when the machine is
idle. Flash is programmed with `flash_safe_execute`, which stops both cores.

What is hard in it, and what must hold:

- *Motion.* The state of the machine, `direction` (which arms the software
  limits), and the registers of the chip are three descriptions of one motion,
  changed by a dozen handlers, each with driver calls that may fail half-way.
  They must agree; timed motions must end in time; a dose must fit in the course;
  an unload must end where it says; every motion must end.
- *Faults.* Two places latch a fault and two commands clear it. The code must be
  shown in FAULT exactly; StallGuard must neither miss a stall, nor inherit one
  from another motion, nor stop the calibration that sets it up.
- *Contacts.* PUSH and PULL together stop the machine and, held for 5 s, reset it
  to its factory settings. Debouncing works on a clock that wraps.
- *Storage.* A power cut in any flash call must leave an old or a new
  configuration, and must not lose the newest activation count before its
  successor is written.
- *Settings.* A line must change the parameter it names to the number it gives,
  past a search for names in free text, four conversions to narrower types and
  three places that judge the result; none of it may leave settings on which
  every later boot faults.
- *Commands.* STOP must overtake what waits, and a lost link must stop the machine.
- *Shared data without protection.* The mailbox between the BTstack context and
  a task; the LED between two cores; the configuration read by queries.


## 2. Modules

| module | models | kind |
|---|---|---|
| AppState | app_state.c | operators on the machine record |
| Safety | safety.c | operators on the safety record |
| Tmc5130 | tmc5130.c and the chip's ramp generator | operators: the set of outcomes of a call |
| MotorControl | motor_control.c | operators: the set of outcomes of a call |
| Dispenser | the motor task and everything above | state machine |
| Axis | what the motor task promises about the axis | abstract specification of Dispenser |
| TmcRegisters, SgCalibration | bit fields and currents; the measurement | components of StallGuard |
| StallGuard | boot and SGCAL commands as they reach the chip | state machine |
| ConfigStore | config_store.c, flash call by flash call | state machine |
| DurableCell | a value that a save replaces whole or not at all | abstract specification of ConfigStore |
| CommandApi | command_api.c, both forms of a line | operators: the set of commands a line stands for |
| DeviceConfig | device_config.c, apply_config_value, motor_config_valid | operators on the twenty-four settings |
| Settings | a line from its interface to the flash and the next boot | state machine, composes ConfigStore with the two above |
| Statistics | statistics.c, flash call by flash call | state machine |
| DurableCount | what a log of numbered records promises | abstract specification of Statistics |
| CommandPath | mailbox, communication task, USB task, queue | state machine |
| NusLink | advertising, line buffer, notifications, idle timer | state machine |
| Buttons, StatusLed | buttons.c; status_led.c | components of Panel |
| Panel | contacts and LED side by side | composition |
| MCDispenser, MCStallGuard, MCSettings | values of the constants | for TLC |
| DispenserProofs, MotionProofs | Dispenser and its operators | proofs |
| SettingsProofs | ConfigStore and Settings | proofs |
| PanelProofs | Buttons, StatusLed | proofs |
| StatisticsProofs, CommandPathProofs, LinkProofs, StallGuardProofs | the module of that name, NusLink | proofs |

**Dispenser.** One pass of `motor_task` is a sequence of steps, named by `pc`:
`Poll` (116), any number of `Exec` (117) ended by `Drain`, then `Conflict` or
`FactoryReset` (118), or `KeysInFault` (119), or `Keys` (120-121), `Settle`
(122-123), `Retract` (124-126), `Check` (127-129) and `Tail` (131-133). The motor
moves between any two steps (`RampGo`, `RampCoast`, `RampHalt`), which is how the
chip interleaves with the task. Every command of `execute` is an operator with
its name or the command's. The queue is "any command of `Commands`, any number
of times": what the path lets through is CommandPath's question. Variables carry
the names of the C statics; times are ages (`now - x`) and saturate at `AgeCap`.
`Boot` is `app_tasks_start`; `Reboot` arms the watchdog and `Restart` may follow
at any step of the pass, losing the RAM and keeping flash and chip.

**Driver calls.** A call of the driver returns the *set* of its outcomes: a
success, or for a list of transfers every prefix of it applied and the call
failed; a failed read returns all ones, which is the position -1. `MaxGlitches`
bounds how many fail in a behaviour. The ramp generator moves XACTUAL by one
microstep at a time towards XTARGET or along the sign of VMAX, coasts after it
is told to stop or reverse, and halts at some point.

**Axis.** off, idle, busy, halting, fault, and the direction guarded. Dispenser
maps its nine states to these five (`AxisMode`) and `direction` to itself: a
motion starts from idle only, a direction reverses through none only, a fault is
left by an acknowledgement or a restart only.

**ConfigStore and DurableCell.** The sectors A and B hold a version 6 record, a
version 5 record or nothing valid; each flash call is a step, and `Restart` may
come between any two and inside an erasure or programming. `saved` of the cell is
what a restart would load.

**CommandApi, DeviceConfig and Settings.** A line is its words and numbers, or
its JSON fields in order; a parser is a set of commands, empty when it refuses.
The JSON search keeps the order of the table in the code and its effect: the
first name of the table that occurs anywhere in the text, inside another name or
another field included. `Applicable` is what `apply_config_value` requires
before it saves: the number fits its field (`InRange`), then
`device_config_validate`, then `motor_config_valid`. `ReadLine` is one of the two
command tasks, `Execute` and `Returned` the beginning and the end of a save in
the motor task; between them the flash calls of ConfigStore take place, and lines
go on arriving. `Reboot` may come at any point and loses the queue.

**NusLink.** `Working` is the report of the stack that it runs, after which the
device advertises; `Accepted` is the controller's part of a connection. A byte
still in the line buffer at a connection is marked as an earlier client's.

**Statistics.** The log's pages are blank, valid, or torn; a torn page that is
programmed again keeps the bits already cleared, so its CRC does not match.
DurableCount has no pages: a set of records with numbers and counts, the record
under way and the count in RAM. A restart counts on from the newest record, or
from the one under way if it was complete; old records go only to make room, or
all of them in a factory reset; and a save that was reported is lost only while
the saves since the restart are fewer than the damaged pages.

**CommandPath.** The fields of the mailbox are stored and copied one by one:
`uart_command` runs in the BTstack context on one core while
`ble_service_take_command` runs in a task on the other. `raced` remembers that
the two met, or that a STOP found the queue full. Every command carries the
number of STOPs its interface had accepted (`epoch`), which says which came
before which.

**StallGuard** composes the registers and the measurement as `app_tasks_start`
and `execute` do: the chip is set up at boot, SGCAL START/CANCEL/FINISH write the
two StallGuard registers, SET changes the configuration only.


## 3. Runs

| run | module | checks |
|---|---|---|
| dispenser_motion | MCDispenser | NoUncommandedMotion, DoseFits, LedFollows, UnloadHonest, MotionEnds, CountSaved |
| dispenser_faults | MCDispenser | FaultConsistent, DirectionMatchesState, AxisSpec, LimitsHeld, EndsAtRest |
| dispenser_stall | MCDispenser | StallCaught, TimedMotion, StallCountFresh, CalibrationNeverStalls |
| dispenser_contacts | MCDispenser | ConflictStops |
| settings | MCSettings | RunsOnSaved, CommandOfItsLine, RestartsReady, CellSpec, SetExact |
| statistics | Statistics | UniqueNumbers, DamageHeals, CountSpec |
| command_path | CommandPath | StopKept, StopFlushesItsInterface, CommandsGenuine, StopServed |
| nus_link | NusLink | LinesOfOneLink, SendArmed, OnlySilentClosed, SilentClosed |
| panel | Panel | Reported, LedLit, Filtered, LedAlive |
| stallguard | MCStallGuard | SetupTaken, NeverOnCleared, SamplesMeasured, CalibrationSound |
| finding_reset | MCDispenser | ResetStopsMotor, violated |
| finding_mailbox | CommandPath | StopDelivered, violated |

*dispenser_motion* takes manual motions in both directions, doses with and
without retraction, one that ends between two microsteps, a move, an unload,
STOP and FAULTRESET, on a link without failures. It shows that the loop stops the
motor on every path into READY, STOPPING, FAULT and the dwell before a
retraction, that the LED task is told of every motion that goes on between two
passes, that a dose stays within half a microstep of the course, that an unload
relabels the position only at the end of the course, that every motion and
stop ends, and that a start counted in RAM is saved or leaves the machine in FAULT,
although the save waits for a pass that ends in READY.

*dispenser_faults* adds one failed transfer or flash call at any place,
overtemperature, and restarts. The records of the machine still agree, the axis
still behaves, and a pass that reads correctly leaves no motion running toward an
end of the course it has reached, whatever failed before. A step that leaves a
motion without a failed transfer of its own leaves registers that ask for none,
also when an earlier stop had failed between its writes. BOOTSEL leaves the
firmware, hence no deadlock check.

*dispenser_stall* arms StallGuard, turns it off and on by SET in any state,
together with another timeout and another dose, and calibrates it under light and
heavy load. A stall is reported in the pass that completes it, no motion inherits
counts, the calibration is never stopped by the thresholds it replaces, and no pass
ends with a timed motion past the timeout in force.

*dispenser_contacts* plays six combinations of the contacts, in any order, pass
by pass, including the hold that ends in a factory reset.

*settings* sends 53 lines, well and badly formed, ASCII over both interfaces and
JSON over USB: every command of both forms, and SETs whose numbers are too wide, fractional, refused by
validation, or refused only together with an earlier one (a resolution and a
deceleration). It starts from the records a device comes into service with,
absent, of version 5 (one of them refused by this version) or of version 6, and
cuts the power in every flash call of a save or a factory reset. A line sets
exactly what it says, RAM and flash agree out of a call, the two sectors are a
durable cell, and the next boot is never refused.

*statistics* starts from a blank log and cuts the power in every flash call: no two
records share a number, a torn page costs a bounded number of saves, and the log is a
durable count. *command_path* interleaves the four actors store by store.
*nus_link* splits commands into writes and replies into notifications, and
disconnects anywhere; a silent link gives the device back to other clients. *panel* and *stallguard* compose small components.

`finding_*.cfg` are counterexample configurations: TLC reports a violation in
each, and section 7 reads them. Two of them are listed as runs.


## 4. Bounds and abstractions

| bound | value | in the code | why it is enough |
|---|---|---|---|
| MicrostepLen, course | 2, 4-6 units | mm in float | lengths on and between microsteps, below, at and above the course |
| XBound | 3-5 microsteps | 32 bits | the chip may leave the course by a microstep and more on both sides |
| AgeCap, timeouts | 2-4; 1-3 | 32-bit ms | ages are compared with 1 to 3 and saturate above |
| MaxGlitches | 0, 1 | - | one failure reaches every error path; two in a row only repeat them. The proofs have no bound |
| MaxBoots | 1-2 | - | one restart at any point; the proofs have no bound |
| CountMod | 8 | 65536 | `critical_count` and `warning_count` wrap |
| CalSamples, MinSamples, MaxSamples | 1; 2, 3 | 100 | too few, enough, one more |
| ConflictHold | 2 | 5000 ms | held shorter and longer |
| QueueLength, MaxStops of command_path | 2, 2 | 8 | a full queue needs two; a STOP before and after another |
| MaxSequence, QueueLength of settings | 4, 1 | 2^32, 8 | both sectors rewritten twice; a line read during the save of the one before. The order of a longer queue is command_path's |
| Settable of settings | 8 | - | every combination of two resolutions, decelerations and doses; the other parameters are refused or restored |
| PagesPerSector, MaxSequence, MaxCount, MaxDamage | 2, 6, 1, 2 | 16, 2^32 | three sector changes; flash wears out long before 2^32 |
| BufferSize, Chunk, ReplySizes, IdleLimit | 5, 2, {1,5}, 4 | 112, MTU-3, -, 60 s | lines that fit exactly and not; replies of one and three notifications |
| DebounceMs, ClockMod, Periods | 3, 8, {1,2,4} | 30, 2^32, about 5 | the clock wraps within one bounce; the theorems hold for any |
| SlowMs, FastMs, Period | 20, 4, 1 | 500, 100, 25 | the ratios of the code |

Abstractions of Dispenser: lengths are integers, so `motor_mm_to_microsteps`
rounds to a microstep but floating-point error is left out; a target set while
the motor turns is reached without overshoot; the three reads of
`motor_target_reached` are one step, as are the read of XACTUAL and the write of
XTARGET of a relative move; only the sign of VACTUAL is kept; the baseline of
StallGuard and the set-up words are in StallGuard; the telemetry snapshot is
left out. A driver call of several writes is one step: the ramp generator does not
move between them, and a call that fails leaves the registers as they were before
or after any of its writes, so a failed transfer may or may not have written its own. Configurations are members of a set that satisfies the part of
`device_config_validate` on the fields kept; how a SET gets there is in Settings. Of the storage modules: a torn
sector reads as empty, because its CRC fails; a failed `flash_safe_execute`
(time-out while the other core does not answer) happens before anything is
written. Of NusLink and CommandPath: one BLE link, as configured in BTstack; the
arguments of a command are copied as one store apart from its kind. Of CommandApi and DeviceConfig: numbers are
integers in tenths, so the only fractions are tenths and there is no NaN or
infinity (which `apply_config_value` refuses first), and none comes near the
4294967040 that bounds the 32-bit fields; a word where a number is expected, upper
case and the length limits of a line are left out. Panel has one
contact: the records of the three are independent.


## 5. Fairness

- Dispenser: weak fairness of the pass, the boot and the restart, because the
  motor task has the highest application priority and blocks only in
  `vTaskDelayUntil`; weak fairness of the ramp generator, which is hardware.
  Commands and contacts are inputs and have none: `Drain` is part of the pass and
  the queue is finite, so a pass is not held up by commands for ever.
- CommandPath: an interrupt returns, ready tasks run, the motor task empties the
  queue. The client has no fairness.
- NusLink: the radio starts, BTstack's run loop delivers timers and disconnection
  events. Clients and can-send-now events have no fairness.
- StatusLed: the LED task runs, and the radio task ends its initialisation.


## 6. Proofs

| theorem | module | states |
|---|---|---|
| TypeCorrect | DispenserProofs | `TypeOK` |
| FaultsConsistent | DispenserProofs | `FaultConsistent` |
| DirectionsMatch | DispenserProofs | `DirectionMatchesState` |
| ImplementsAxis | DispenserProofs | `Spec => AxisSpec` |
| MotionsTimed | DispenserProofs | `TimedMotion` |
| MotionCommanded | MotionProofs | `NoUncommandedMotion` |
| CountsFresh | MotionProofs | `StallCountFresh` |
| CalibrationsRun | MotionProofs | `CalibrationNeverStalls` |
| ConflictsStop | MotionProofs | `ConflictStops` |
| LedTold | MotionProofs | `LedFollows` |
| MotionsEndAtRest | MotionProofs | `EndsAtRest` |
| StallsCaught | MotionProofs | `StallCaught`, if no SET lowers filter_count |
| LimitsKept | MotionProofs | `LimitsHeld`, if no motion without a direction is begun with the motor turning |
| LimitsKeptReachable | MotionProofs | `LimitsHeld`, for lengths of half a microstep or more |
| UnloadsHonest, DosesFit | MotionProofs | `UnloadHonest`, `DoseFits`, if the deciding transfers succeed and no SET cuts the course short |
| StoreInvariant | SettingsProofs | the inductive invariant of the store |
| RunningIsSaved | SettingsProofs | `RunsOnSaved` |
| CrashSafe | SettingsProofs | `Spec => CellSpec` |
| SettingsUseStore | SettingsProofs | `SettingsSpec => Spec`: the two above hold of Settings |
| SettingsExact | SettingsProofs | `SetExact`, for lines that are read as meant |
| RestartsStayReady | SettingsProofs | `RestartsReady`, from a flash that the driver accepts |
| TypeCorrect | StatisticsProofs | `TypeOK` |
| NumbersUnique, NewestRecordKept | StatisticsProofs | `UniqueNumbers`; the newest record goes in a factory reset only |
| SavedIsFound | StatisticsProofs | `DamageHeals` |
| CountDurable | StatisticsProofs | `Spec => CountSpec` |
| TypeCorrect | CommandPathProofs | `TypeOK` |
| QueuedCommandsGenuine | CommandPathProofs | `CommandsGenuine` |
| OwnStopFlushes, StopNeverLost | CommandPathProofs | `StopFlushesItsInterface`, `StopKept` |
| LinesKept, RepliesArmed, SilenceCloses | LinkProofs | `LinesOfOneLink`, `SendArmed`, `OnlySilentClosed` |
| ContactsReported, BouncesFiltered | PanelProofs | `Reported`, `Filtered` |
| MovementsLit | PanelProofs | `LedLit` |
| CalibrationsSound | StallGuardProofs | `CalibrationSound` |
| SetupsTaken, NeverOnClearedThreshold | StallGuardProofs | `SetupTaken`, `NeverOnCleared` |
| MeasuresLoad | StallGuardProofs | `SamplesMeasured` |

They hold for every value of the constants that satisfies the named ASSUMEs of
the modules: any configurations and commands, any number of failures and
restarts, any timeout, clock width, sector size and queue length. The assumptions
only type the constants, say that configurations are valid and that the clock is
wider than the debounce time and a pass. Seven theorems have hypotheses besides,
named with them below; the constants and the initial flash of the run *settings*
satisfy those of SettingsExact and RestartsStayReady, and the lengths of
*dispenser_faults* that of LimitsKeptReachable. The other four restrict single steps
(a begin, a SET during a motion, a reading that decides); every behaviour of
the run that checks their property satisfies them.

*Dispenser.* The first part of DispenserProofs types the operators: what a driver
call or a safety check may return. `TypeInv` is `TypeOK` with "an armed reboot
still has a boot left", without which `boots` would leave its type.
`ModeInv` adds `FaultConsistent`, `DirectionMatchesState` and "the state is BOOT
exactly before `Boot`": the direction lemma needs the state at the moment each
handler runs, and the fault lemma needs that no handler dispatches before the boot.
With ModeInv each action is a step of the abstract axis or a stutter, which is
ImplementsAxis; the restart is why the axis has a step back to off.
MotionsTimed is one step of induction over the pass: `Check` compares the age
that `Poll` advanced, and `Tail` follows it.
`LinkInv` of MotionProofs relates the registers to the state: on a working link
since power-on, the mode and velocity registers ask for motion only where the
state and the direction say so, and a manual motion has its direction in RAMPMODE. It
needs the phase (`pc`), because `Retract` and `Check` stop the motor in the
step that changes the state.

The second part of MotionProofs is about what a pass hands to the next.
`LoadInv`: from the look at
the contacts to the safety check no fault is latched, and outside of that stretch
a machine at rest has a count of zero. The check itself clears the count of a
machine that no longer moves, which is why a motion that a command ends and
another command restarts in the same pass cannot inherit one: commands come
first, and a motion starts from READY only. `ConflictInv`: a pass that went on
past the contacts has seen no conflict. `LedInv`: between two passes
`motor_moving` is exactly "the state is one of motion"; with LinkInv that covers
every motion the registers ask for.

The third part is about where motions go. `NextSteps` sorts the steps of the task
by what they do to a motion (`MotionStep`): one of five begins, the dwell between
a dose and its retraction, going on, or no motion. On it rest four invariants.
`TargetInv` is what the end of a dose, retraction or unload needs that no transfer
makes: such a motion is in position mode, so that a check that reads its target as
reached finds registers that ask for nothing. Every other end is a `motor_stop`, whose
write of VMAX suffices whatever the chip held (`StopEnds`); MotionsEndAtRest
follows by the steps that disarm the limits or enter STOPPING or FAULT.
`AheadInv` holds on any link and through restarts: a motor that may turn is in the
mode of its motion and its target is ahead in `direction`, or it is at rest on the
target. The ramp generator does not pass a target that lies ahead, and
a motor still coasting the other way only moves away from it; what breaks it is a
motion of less than half a microstep, which has no direction, begun while the
motor still turns: a MOVE of 0 after a FAULTRESET or a failed stop. It overshoots and comes
back against its own `direction`, which no limit guards. `NoShortStart` excludes
that step, and nothing more is needed for LimitsKept: the check compares the same
`direction` with the position it read. LimitsKeptReachable derives it from
lengths none of which is that short (`LengthsReachable`).
`UnloadInv` and DoseFits relate the target to the course with the rounding of
`motor_mm_to_microsteps` (`RoundFact`). Transfers may fail in any step but those
that begin a motion or write the result of an unload (`DecidesOnReadings`: a
failed read of the position decides where a motion goes, see finding_unload_read
and finding_dose_read); a SET may change the course during a motion, only not move
the end it goes to toward it (`MinSteady`, see finding_unload_set, and
`MaxSteady`); and for DosesFit MOVE, whose
distance no code compares with the course, only goes back. `CountInv` says that a count
not yet reported is below filter_count or 0; `CountNeverLowered` excludes the SET
that leaves the count above it until the next sample.

*ConfigStore.* `StoreInv` says, besides types, what each pending flash call still
has to do (`WriteOK`): an erased slot is the one that does not hold the newest
record. From it, what a restart would load changes only in the last step of a
save, which is the refinement.

*Settings.* Every step of Settings is a step of ConfigStore or leaves it alone
(SettingsUseStore), so StoreInv holds here too. `SavingInv`: while a SET is being
saved, the record on its way is the configuration in RAM with that one setting
changed, and the setting passed the three checks. That a check precedes the
conversion is what makes the conversion exact (`NarrowFact`), hence SettingsExact.
Its hypothesis `LinesRead` says that the parsers read each line as its author
does; whether they do is a question about the texts, which TLC answers for
53 lines (CommandOfItsLine). `BootInv`: the records in flash and the one on its
way are ones the driver accepts. It starts from a flash of which this is true,
because the load judges a record less than the boot does: one of version 5 by its
number and CRC alone, one of version 6 by `device_config_validate` besides, and
neither by `motor_config_valid`, which the boot applies; and it needs that the
defaults of the store are those of device_config.c.

*Statistics.* The log is a sequence of pages in two sectors, some of them torn.
`NumberInv`: numbers are unique, all below the next one (`Numbered`), and the page
under programming carries exactly the next (`WriteNext`). `PlaceInv`: numbers rise
along a sector (`Ordered`), a sector is entered only after its erasure
(`EntersErased`), and the place stays in the sector of the newest record
(`InSector`); with it an erasure never meets the newest record. SavedIsFound is
the hard one. A restart puts the log at the newest valid page; the pages after it
may be damaged, and a record programmed over one of them is lost although it
counts as saved. What is inductive is `Passed`: as long as a damaged page lies at
the place of the log or past it, the saves since the restart and the distance to
that page together are no more than the damage. Once the saves exceed the damage,
no such page is left and the last record is intact.
CountDurable maps the log to DurableCount: its records are the valid pages
(`Record`), the one under way is what the call in progress has not yet reported.
`NewestHeld` says that the newest record held is the page `PlaceInv` protects, and
`FewerHeld` that a sector change only takes older ones away, which makes an
erasure a step of MakeRoom. A programming is a Commit when the page was blank, and
a Lose when it was torn; that Lose has its guard, saves below damage, is `Passed`.

*Command path.* `StepInv` says what a task may hold at each of its steps.
`MailInv` is the protocol of the mailbox: a START is stored in an empty one only,
one is taken from a full one only, and between two stores of a command the fields
are a known mixture. `CleanInv` says what this is worth without a race: the copy
that a task takes is the command that was stored. `EpochInv` orders the commands
of one interface, from the queue through the task to the mailbox, by the number of
STOPs before them, all after the last STOP executed; a STOP of an interface is put
in front only when nothing of that interface is queued, although another task may
have queued its own commands since the reset. StopKept is inductive together with
these four.

*Link.* `LineInv` says that nothing of a line outlives its link and `TimerInv`
that a timer that is set has run as long as the link was silent; with the types
and `SendArmed` itself they are inductive.

*Contacts and LED.* `DebounceInv` relates the clock difference, modulo its width,
with how long the contact really has read the same. `LedInv` of PanelProofs:
between two updates the LED is what `level` says unless the radio task turned it
off meanwhile, and a motion is only noted on a level that is lit. Such a race
lasts until the LED is next written, by an update whose level differs.

*StallGuard.* `MeasureInv` bounds the sum by the extremes times the samples and
keeps the last thresholds in order; the bounds of the division follow. For the
registers, `RegisterInv` says which words they can hold: those of the arguments of
the last set-up, those of the threshold last asked for, and, with StallGuard on,
those of some threshold, whichever write failed. What the chip reads out of such a
word is a recursive sum over its bits; the lemmas `ValueFact` and `FieldFact` show,
by the least bit at which two such sums could differ, that a field yields the
number the driver packed there, and with the sign bit the threshold that was given.

Only model-checked:

- liveness: MotionEnds, CountSaved, StopServed, SilentClosed and LedAlive; the prover does not
  handle fairness and ENABLED;
- CommandOfItsLine, which depends on the lines: some texts do mislead the search
  for names, so it is true of a set of lines and not of any.


## 7. Where the code and its documents disagree

Each line is a behaviour TLC finds; the configuration that shows it is in this
directory. `docs/communications.md` is abbreviated c.md.

| configuration | the text | the code |
|---|---|---|
| finding_reset | c.md:140, RESET stops the motor, then restarts | the chip keeps RAMPMODE and XTARGET, `motor_init` writes VMAX again: the motion resumes in READY, with no limit armed |
| finding_mailbox | c.md:90, STOP stops the movement and empties the queue | a STOP stored while the communication task copies the mailbox is cleared with it |
| finding_setup | c.md:132, a fault whose cause persists is detected again | after a failed set-up of the driver, FAULTRESET goes to READY and doses "run" on a disabled driver |
| finding_unload_read | c.md:115, UNLOAD returns to position_min_mm | a failed read of XACTUAL is the position -1: the course is ended and relabelled where the motor is |
| finding_unload_set | the same | SET position_min_mm during the unload relabels the place where it stops |
| finding_dose_read | c.md:99, a dose beyond the remaining course is refused | with a failed read the remaining course is computed from position -1 |
| finding_stop | c.md:90 | the result of `motor_stop` is ignored: the machine is STOPPING while the motor turns, no limit armed |
| finding_led | hardware.md:56-57, the LED stays lit during a motion | after such a fault `motor_moving` is false while the motor turns |
| finding_release | tests/test_main.c:18-19, a release goes to STOPPING | a release in the pass of another contact's edge is skipped and forgotten |
| finding_calibration | c.md:166, FINISH computes and saves | with a filter count of 0 the save is refused and the thresholds are used unsaved |
| finding_statistics | c.md:182, FLUSH saves the statistics | a page torn by a power cut is programmed again without an erasure: the record is lost, and reported saved |
| finding_flush | c.md:90 | a STOP over USB does not touch the BLE mailbox |
| finding_queued | c.md:8, a queued command answers OK QUEUED | the communication task drops an acknowledged command when the queue is full |
| finding_reply | c.md:195-197, replies are concatenated until their last line | a command written during a long reply overwrites it |
| finding_bootsel | c.md:195, BOOTSEL is reserved to the local USB port | both interfaces share one parser, and BOOTSEL is accepted over BLE |
| finding_led_init | hardware.md:56-57 | the radio task turns the LED off under an update; it stays dark for that motion |

Noticed and not checked: a dose of exactly the remaining course may end in LIMIT, the limit
being checked on the rounded position; a speed below one velocity unit makes a
dose that never ends, doses not being timed; FAULTRESET and the end of an unload
by a stall reach READY while the motor decelerates; the tail of a line too long
for the buffer is taken as the next line; after a SET of microsteps or pitch and a
restart, the chip still counts XACTUAL in the old unit, so the position in
millimetres is another; CONFIG, said to list all persistent parameters (c.md:46),
omits the StallGuard baseline and the calibration speed.


## 8. Not modelled, and why

Telemetry and queries write nothing that is read back; a CONFIG reply may mix two
configurations (app_tasks.c:176 reads field by field), and nothing promises more.
The accelerations beyond their limits: the ramp's shape does not enter any
property. Task creation and pins; the status codes of advertising; the host
scripts and tests. The SPI bus itself is a call that succeeds or fails. Timing is
in ages per pass: that a pass takes about 5 ms is not used anywhere. A change of
pitch or microsteps: Dispenser has one microstep length per behaviour, where the
code has that of the boot in `motor_cfg`, that of `config`, and that in which the
chip has counted XACTUAL.


## 9. Plan

The order was: the motor task with its driver and safety check (the machine that
moves), its abstract axis and the proofs about both; then the two stores, the
command path and the BLE link; then contacts, LED and StallGuard; then the parser
and the validation, composed with the store, and the proofs about a pass and the
link. What is left:

1. *Model.* The storage as the motor task sees it: the factory reset of the two
   stores in turn with a power cut between them, composing ConfigStore and
   Statistics. The three microstep lengths of a SET of microsteps.
2. *Proofs.* What LimitsHeld still owes to a motion too short to have a
   direction: how far the motor may coast past the end before it turns back. A
   link whose transfers fail where they decide: what the findings on failed reads
   leave of UnloadHonest and DoseFits.

CommandPath has no abstract specification beside it: a channel that STOP
overtakes promises StopKept, StopFlushesItsInterface and CommandsGenuine, and
would only state the three once more.
