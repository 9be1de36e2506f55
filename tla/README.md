# Verification of the STM32G4 motor controller firmware

This directory holds TLA+ models of the motor controller firmware in this repository, the TLC
configurations that check them on small instances, and theorems about them that the TLAPS proof system
checks for every value of their constants.

The models keep the control of the program (states, guards, early returns, the order of effects, what may
interleave) and abstract its data: voltages are classes around the thresholds, times are ticks, rotor
feedback is a speed class, duty cycles are the source they were computed from, flash contents are page
numbers. Every definition that translates code is listed in `PROJECT.json` under `map` with its lines.

## 1. The system

The firmware is an RTIC application. Interrupts of priority 6 (`shared_adc_isr`, `watchdog_isr`,
`pwm_break_isr`) run the control loop and the protections, priority 5 counts hall edges, priority 2 drives
the CAN peripheral, and the priority 1 tasks are asynchronous and cooperative. They share state through
RTIC locks, whose ceiling makes each critical section atomic to everyone who uses the resource.

| Component | State | Operations | Interacts with | Hard behaviour | What makes it correct | Module |
|---|---|---|---|---|---|---|
| Operating mode (`app/modes.rs`) | the mode and what it carries: safe strategy, fault trace, calibration | `on_command`, `foc_gate` | every task and interrupt commands it | commands arrive in any order from five contexts | faults latch; the trace keeps the first causes; only fault clear leaves a fault | `OperatingMode` |
| Safe strategy (`app/safe_strategy.rs`) | STO, ASC, STOf or ramp-down, with debouncers | `foc_tick`, `fault_evolve`, reaction of a cause | owned by Idle and Fault | faults evolve while an earlier reaction runs | a reaction is never weakened; a ramp-down ends | `SafeStrategy`, `Debounced` |
| Calibration runner (`app/calibration.rs`) | the phase, the stages | `step`, `resume` | stages step in the FOC tick; deferred tasks resume it | waits for tasks that may already run for an earlier calibration | a wait has a task that ends it | `CalibrationRunner` |
| FOC step and interrupt (`app/control.rs`, `tasks/foc.rs`) | setpoint and its age, deferred diagnostics, feedback, polarity test, applied output | the FOC half and the board half of `shared_adc_isr` | reads and commands the mode, spawns tasks | several mode changes in one tick; verdicts taken after the tick and used in the next | the output belongs to the mode; torque needs a fresh setpoint, measured angle and known polarity | `Drive` |
| Software watchdog, break inputs (`main.rs`, `bsp.rs`) | started, faulted, acknowledged | expire, feed, report | assert faults | expiry between two ticks | an expiry faults the next tick | `Drive` |
| CAN driver, reception and telemetry (`main.rs`, `tasks/can_rx.rs`, `tasks/can_tx.rs`) | two frame buffers, `can_process` spawned or not, the frame taken, slots of the schedule | interrupt, one handler per message, periodic frames, dump | host, mode, setpoint, configuration, update, capture | the idle check and the handler are separate critical sections; a failed spawn strands a frame; buffers fill up | an idle-only message takes effect in an idle drive that modulates nothing, but for a fault after its check | `CanNode`, for the mode `Drive` |
| Configuration (`firmware/src/types.rs`) | the limits and targets | one setter per limit, called in groups by the messages | hosts, all users of a limit | setters clamp by limits that earlier messages left | related limits stay in order | `FirmwareConfig` |
| Deferred tasks (`tasks/foc.rs`, `persist_config`) | spawned or not | store, tune, persist | flash, mode | outlive the calibration that spawned them | resume the calibration that waits | `Drive` |
| Bootloader and boot confirmation (`bootloader/`, `boot.rs`, `bsp.rs`) | two flash areas, status page with a log, watchdog flag | dispatch, swap, revert, stage, apply, confirm | the firmware and the bootloader talk through flash | power loss in any flash operation | the working image is never lost; a bad one is reverted | `Bootloader` |
| Record store (`app/config.rs`) | 16 slots per page | load, store | init, the deferred tasks | torn writes, full pages, versions | a store is old or new | `RecordStore` |
| Motor parameters (`tasks/`, `memory.rs`, `main.rs`) | configuration, estimate, hall table, gains, in RAM and on four pages | change, invalidate, measure, persist, load | calibration, CAN, flash | a task outlives the calibration it belongs to; a reset between two pages | what runs and what loads belongs to one motor | `Parameters` |
| Firmware update reception (`app/update.rs`, `bsp.rs`) | counter, staged bytes, offset | data, apply, `dfu_write` | host, DFU area, bootloader | lost and repeated chunks, failed writes, page boundaries | what is marked is what was sent | `FirmwareUpdate` |
| Setpoint integrity (`checks/integrity.rs`, `debounce.rs`) | last counter, level of the bucket | check, fill, drain | setpoint handler | lost, repeated, corrupted frames | a bad frame changes nothing; persistent corruption faults | `SetpointIntegrity` |
| Rotor feedback (`estimation/`, `tasks/foc.rs`) | hall interpolation, polarity test, saliency loop, blend speed | estimate, update, reset, blend, read | hall timer, FOC result, `foc_step` | edges between two ticks, sources that appear and vanish while turning | no source is trusted outside of its range | `HallEstimator`, `SaliencyEstimator`, `Arbitration`, `RotorFeedback` |
| Commissioning stages (`commission/`) | the phase of each test, samples, edges | step | the calibration runner | timeouts, friction, stuck and bouncing sensors | what is accepted is right; every test ends | `HallCalibrator`, `MotorEstimator`, `Commissioning` |
| Capture, bandwidth test (`capture.rs`, `bandwidth_test.rs`) | buffer, cursor, phase of the test | start, record, next frame | FOC interrupt, telemetry task, host | a dump races a recording | a dump is of one recording | `DebugCapture` |
| Control laws, observers, filters | real numbers | - | results used by `Drive` | numerical | - | not modelled |
| Board drivers, build scripts, simulation | registers | - | - | - | - | not modelled |

`PROJECT.json` lists the hazards of this code at the line where they bite, with the properties that
cover them; the one with a note is not covered.

## 2. Modules

### The drive core

`Debounced`, `SafeStrategy`, `CalibrationRunner` and `OperatingMode` are operators: each function of the
code is an operator from the old value and the inputs to the new value. `Drive` holds the state and has
one action per handler:

| Action | Code |
|---|---|
| `Init` | `init`: faults of the bootloader status, the reset cause, the loads of the records, the gains, the confirmation, in this order |
| `FocTick` | the FOC half of `shared_adc_isr`: watchdog report, `foc_step`, output, feedback update, spawns, and the deferred current diagnostics |
| `BoardStatus` | the other half: bus voltage and temperature, debounced |
| `PwmBreak`, `WatchdogExpire` | `pwm_break_isr`, `watchdog_isr` |
| `ReceiveIdle`, `ReceiveCalibration`, `ReceiveTorqueControl`, `ReceiveCancelCalibration`, `ReceiveFaultClear` | the mode request arm of `can_process` |
| `ReceiveSetpoint`, `RejectSetpoint`, `ReceiveConfig`, `RefuseUpdate` | its other arms that reach the mode, the setpoint or a task |
| `StoreHallTable`, `TunePi`, `StoreMotorParams`, `PersistConfig` | the tasks that are spawned and not awaited |

| Variable | Code |
|---|---|
| `mode` | `OperatingMode`; a field that a variant lacks rests at a default |
| `setpoint_age` | `tick - target_torque.stamp`, capped at the timeout |
| `deferred` | the results of the current diagnostics, consumed one tick later |
| `dc_bus_v`, the board debouncers | the last board sample by class: under, ordinary, band, over, high; `none` before the first one |
| `rotor`, `polarity` | the feedback `foc_step` will read, and the verdict of the polarity test |
| `pwm` | what the inverter does, from which source, with a measured angle or a defaulted one |
| `spawned` | the deferred tasks that run; a second spawn fails silently, as in the code |
| `watchdog` | the software watchdog's flags |

An interrupt and a critical section are atomic, so each is one action, and the actions interleave freely.
`foc_step` is one action whose intermediate modes are bound by `LET` in the order of the code: diagnostics,
polarity test, setpoint, feedback, calibration, overspeed, safe strategy, output.

`DriveProperties` states the properties. `DrivePromise` is the abstract specification: a drive that is
armed, idle or faulted, whose output modulates without being armed for at most a budget of ticks.
`DriveRefinement` maps the drive core to it; a ramp-down's remaining ticks are the budget. `DriveClaims`
holds what the repository says and the code does not do, `Drive_proofs` the proofs.

### The bootloader

`Bootloader` models an update from the staged pages to the confirmed boot, in the bootloader and in the
firmware, with `pc` saying which of them does what. Each flash operation is one action, because power may
be lost between any two of them, or in the middle of one (`Torn`).

| Action | Code |
|---|---|
| `Dispatch` | `main`: the match on the status |
| `EraseTarget`, `CopyPage`, `LogStep` | `swap_images` with `firmware_to_dfu`, `dfu_to_firmware`, `log_step` |
| `SwapDone`, `EraseStatus`, `WriteStatus` | the end of `perform_swap`, `write_status` of the loader and of the firmware |
| `ClearFlags`, `Confirm`, `EraseConfirmed` | `init`: `caused_reset`, then `confirm_boot` |
| `StagePage`, `Apply` | `dfu_write` page by page, `FirmwareUpdateApply` |
| `Hang` | an image that does not confirm, until the independent watchdog resets |
| `Interrupt` | power loss (clears the watchdog flag) or a watchdog reset (sets it), anywhere |
| `FlashError` | a flash operation reports an error: `?` in the bootloader, an asserted fault in the firmware |

`good`, `failed` and `mishaps` are not in the code: the image confirmed last, whether a flash error was
reported, and the counter that bounds mishaps. `BootloaderProperties` states the properties and, at its
end, the inductive invariant; `BootloaderClaims` and `Bootloader_proofs` are as above.

### The motor parameters

`RecordStore` is the log of records in one page: a page is the sequence of its used slots, and the last one
decides alone. `Parameters` follows four kinds of values (configuration, motor estimate, hall table, gains)
through RAM and flash. A measured value is the pole pairs it was measured with and the number of the
calibration that measured it, which is all that "belongs to this motor" needs.

| Action | Code |
|---|---|
| `ReceiveConfig`, `ReceiveMotorConfig`, `ReceiveCalibration`, `ReceiveCancelCalibration`, `ReceiveMode` | the arms of `can_process`, with what they invalidate and the `persist_config` they spawn |
| `CalibrationTick` | the stages of a calibration, in the order that `CalibrationProtocol` states |
| `RunTask` | `store_hall_table`, `tune_pi`, `store_motor_params`, `persist_config`: each stores, or is refused |
| `PowerLoss`, `ImageSwapped` | a reset in front of or inside a write; a start of another version of the firmware |
| `Fault` | any cause |

Which of two pending priority 1 tasks goes first is decided by the executor and not by the code, and
`can_process` has no await in its loop: a backlog of frames is handled before a task that the FOC interrupt
spawns meanwhile. So any frame may come before any queued task in the model. When a frame drops the values
while a task of a calibration is queued, that task may bring some of them back and the promises about one motor
are lost (section 5, `pole_pairs_claim`). The history variable `overtaken` marks exactly these behaviours, from
that frame until a `persist_config` has written a RAM and pages without any measured value (`AllCleared`);
`RunsOneMotor`, `LoadsOneMotor` and `UnsavedHasTask` speak of all the others. `OldOrNew` has no exemption.

### Commissioning

`HallCalibrator` and `MotorEstimator` are operators, one per state of the two stages. `Commissioning` puts
them under the runner of `CalibrationRunner`, the FOC tick and a motor on the bench: a rotor that follows
within a dead band of friction, sensors that may be stuck or bounce, a current that rises with the voltage.
An angle is a number of half steps of the sweep and a sector has eight or more: at 10 rad/s it has over two
thousand. A friction either lets the rotor follow within a quarter of a turn, where the torque of a current
is the greatest, or locks it (`Moves`, `IsLocked`).
`CalibrationProtocol` is the abstract specification: the stages come in order, each wait is entered with
what its task needs, a calibration is done with a complete set only. `Commissioning` implements it
(`KeepsProtocol`), and `Parameters` relies on it.

### The CAN side

`FirmwareConfig`, `SetpointIntegrity`, `FirmwareUpdate` and `DebugCapture` are operators on the record of
their component. `CanNode` has the state and the actions: the host (one per group of messages, `Hosts`), the
bus, the two buffers of the driver, the interrupt, `can_process` from the frame it takes to the frame it
handles, the telemetry task with the dump, the control interrupt between any two critical sections,
`persist_config`, and the reset that ends an update. `mode` is the one of `OperatingMode`, without
calibrations. `interrupted` is a history variable: a fault was raised since the frame in hand was taken.

The host waits for the previous frame to be taken, except in a row of update chunks. Frames with a counter
may be lost, repeated or corrupted; for the others a repetition is a second message of the host. The CRC of
an image tells all images apart.

### Rotor feedback

`HallEstimator`, `SaliencyEstimator` and `Arbitration` are operators: the interpolation between hall edges,
the polarity test and the loop around it, the blend and the choice between sources. `RotorFeedback` is the
tick that drives them, in the order of `shared_adc_isr`: the arbitrator is read, `foc_step` settles the
polarity test, the estimators run or are reset, the arbitrator is updated for the next tick.

Two benches, chosen in `Init`, ask two questions. On "edges" the drive is off and the hall estimator meets
any number of edges, glitches, skipped edges and recalibrations between two ticks. On "speeds" a drive
starts, runs, ramps down and starts again while the rotor changes its speed by one unit a tick; hall
feedback is right or fails, which is what the first bench shows of it.

An estimate is a speed and whether its angle is right. What makes it right is the model's physics, and
external: a saliency loop under injection stays on its pole up to one unit beyond `HighSpeed`, the flux
estimator is right from one unit below `LowSpeed` and fails or drifts with a low speed below that, and a
drive without hall sensors is not started on a rotor that turns. One unit is what the speed changes in a
tick; without that overlap no choice of thresholds would do. The thresholds are at least two units apart
(`RotorFeedbackAssumption`): closer together, the rotor crosses the blend in less time than the weight of the
blend, which is that of the tick before, needs to follow, and TLC shows the flux estimator with its full
weight at a speed below its range (thresholds 2 and 3, for one). The simulation's thresholds, a twentieth and a
quarter of the base speed, are many units apart; `set_sensorless_1` does not ask for it. The
angle of a hall estimate is computed, from tables with sectors of different widths, none of them empty.

## 3. Runs

| Run | What it asks | Instance |
|---|---|---|
| `drive_torque` | Torque sessions in a build without hall sensors, with faults of every reaction from boot, interrupts, ticks and CAN, cleared in between: is the setpoint fresh, does the output follow the mode, do faults latch with their first causes and their reaction, under every order of requests, setpoints, ticks and losses of feedback? | setpoint timeout 2 ticks, switch debounce 2, board debounce 1, ramp-down 2, trace of 2 causes, all rotor classes, a high bus, one cause of each way a tick can fault |
| `drive_sessions` | Torque and calibration sessions alternating in a hall build: polarity, waits, and the refinement of `DrivePromise` | ramp-down 3, failing stages and tasks, tasks left over from earlier calibrations |
| `drive_live` | Does a ramp-down end, does a wait end? | a hall build, fair scheduling, ramp-down 2; calibrations are cancelled and started again, faults are not cleared |
| `boot` | Is the image that worked last ever lost or replaced half way, and does every start end in a running firmware? | 3 pages, 3 images of which one does not boot, 2 mishaps, fairness |
| `parameters` | Do RAM and every combination of pages that a firmware may load belong to one motor, and does what is not stored have a task that stores it? | 2 slots, 2 motors, 2 calibrations, 1 mishap (refused store, power loss, other firmware), none while `overtaken` |
| `commissioning` | Is an accepted hall table accurate, an accepted inductance unbiased, does every loop start unwound, does every calibration end, in the order of `CalibrationProtocol`? | healthy, stuck and bouncing sensors, friction by direction, a locked rotor, an open phase; 2 calibrations |
| `can` | Do the limits stay ordered, is a setpoint guarded, is an idle-only message honoured only as its check allows, is a dump of one capture, is an update whole, and does it complete? | seven hosts; buffers of 2 frames; chunks of 3, stages of 6, words of 2, pages of 4 bytes |
| `feedback` | Does the feedback that the current controller uses follow the rotor, and does the polarity test end? | speeds up to 6, thresholds 2 and 4, two tables of uneven sectors |
| `asc_claim`, `pole_pairs_claim`, `resume_claim`, `trial_claim` | four sentences of the repository that do not hold, section 5 | minimal instances; two pages for `resume_claim`, so that a mix exists |

### Bounds

* `SetpointTimeoutTicks`, `RampDownTicks`, `SwitchDebounceTicks`, `BoardDebounceTicks` are the code's
  durations in ticks of 40 kHz (2000 by default, 400, 10 and 5). Each is compared with a counter and nothing else, so the
  cases are "running", "on the last tick" and "expired". Two or three ticks have them all, and let another
  event come before, on and after the last tick; the board's debouncers, which are the ones of the strategies
  again, are left at one. The theorems hold for every value.
* `TraceCapacity` is 8 in the code. With 1 a second cause meets a full trace, with 2 also a free slot and
  a repeat.
* The environment sets (`BoardSamples`, `Readings`, `Diagnoses`, `Breaks`, `Requests`, `FocCauses`,
  `StageCauses`, `BootCauses`, `TaskCauses`) choose for each run one representative per behaviour: causes
  with the same reaction differ in their name in the trace only. The theorems hold for every choice.
* `ImagePages` is 118 in the code and the log has 254 entries for 236 steps. Three pages have a first, a
  middle and a last page, and a scratch page that wraps; two suffice for liveness.
* `MaxMishaps`: one mishap interrupts a swap, the second the resumed swap or the revert. The counter is a
  bound of the model, and the theorems hold for any number. Liveness needs finitely many: a drive whose
  power fails in every swap never ends it.
* `Slots` is 16 in the code: with 2 a page has a free slot, is full, and is erased. One mishap in
  `parameters` falls between any two writes; what it leaves is met by a second calibration. `MishapsApart`
  leaves out a mishap in a behaviour that is `overtaken`, where the three invariants say nothing unless it
  recovers; it saves five of six states, and without it the same instance passes too.
* `Sector` is 8 half steps: an edge lies before, on and after a step of the sweep. `num_edges` is counted to
  5, the largest number it is compared with. Two bounces meet an edge in both passes. With the hall offset and
  the frictions of the run one entry is off by half a sector exactly, so the bound is no looser than it must be.
* The update sizes of the code are 6, 24, 8 and 2048 bytes. What matters of them is kept: a chunk is no
  whole number of words, a stage is, a page is no whole number of stages. One image fills the area, one ends
  within a word. Buffers of 2 frames fill up; a window of 2 chunks fits, which is what completion needs.
* Limits of a configuration have 3 values, so that each may be below, between and above the others.
* Speeds: two thresholds with one value between them, two beyond the upper one, and reverse by one unit,
  because the two directions are treated alike. `TestTicks` is 2, so a sum may cancel out or not.

### Fairness

`Drive!FairSpec`: weak fairness of the two halves of the ADC interrupt, because each interrupt retriggers
the ADC and the samples take turns, and of each deferred task, because the executor runs a task that was
spawned once the interrupts leave time for it. No request, setpoint, fault or fault clear is assumed.
`Bootloader!FairSpec`: weak fairness of what the processor does by itself, straight-line code that the
independent watchdog restarts when it hangs. Nobody has to send an image.
`Commissioning!FairSpec`: the tick and the deferred tasks; nobody has to start or to stop a calibration.
`CanNode!FairSpec`: the interrupts, the tasks and the bus, and of the host that updates only that it goes
on, resends after a timeout and starts over when it is told to. Mishaps are finite.
`RotorFeedback!FairSpec`: the tick.

## 4. Proofs

Unless a hypothesis is named, theorems hold for every value of the constants, under the assumptions named next to the constants
(natural numbers, the environment's causes among those the code can assert, a factory image that boots).

**Drive core** (`Drive_proofs`). The inductive invariant `IInv` is typing and the shape of the mode,
`SetpointFresh`, `PolarityKept`, `TorqueOnKnownPolarity` and `WaitHasTask`. `SetpointFresh` needs the shape
of the mode only: foc_step checks the age on each tick in the two modes concerned. `TorqueOnKnownPolarity`
speaks of the output and is not inductive: after a tick that did not modulate the estimator is reset and
its verdict open while the mode may still be torque control. `PolarityKept` says what saves it: such a
mode has no feedback either, so the next tick faults before it computes a duty cycle. `WaitHasTask` needs
that a spawn finds the task either free or already queued. The rest are action properties: lemmas show
that each operator of `OperatingMode` escalates (`AssertFault`) or keeps (all the others) the reaction and
the trace, and each theorem goes through the actions with those lemmas. `DriveKeepsPromise` is the
refinement: the initial states map to initial states, a FOC tick to `Tick`, everything else to `Command`
or to a stutter.

**Bootloader** (`Bootloader_proofs`). That no page of the working image is lost is not inductive: the next
copy may overwrite the page that was found. `IInv` says where each page is. `OldKept`: a swap has moved the
pages below the logged step to the DFU area, one page ahead and wrapped, and has the others still in the
firmware area; a revert the other way round. `NewKept` says the same of the new image. `Phases` ties `pc`
to the status: a status is replaced only when its swap is complete. The argument is about places: the
lemmas `SavedValue`, `ScratchValue` and `SavedPlaces` compute the wrapped page numbers, `ProgramKeeps`
shows that the page which a step overwrites is none that is still needed - in four cases, by direction and
by half of the step - and one lemma per action does the rest. As long as no flash operation fails the
invariant gives `GoodImageKept`, `RevertRestores`, `MixedOnlyMidRevert` and `TrialDecided`.

**CAN side** (`Can_proofs`). `LimitsOrdered` is inductive only together with what the frames in flight can
be (`FramesHonest`): the lemmas show, for every group of setters, that a message which is accepted leaves
an ordered configuration, on whatever configuration it finds. `IdleOnlyHonoured` rests on `TakenAtRest`:
between the check and the handling of an idle-only frame only the control interrupt and other interrupts
run, and the lemmas about the strategies show that from an idle drive which does not modulate these lead to one
or, when they raise a fault, to that fault. It may ramp down and so modulate while the frame is handled
(section 5): the theorem excludes torque control and everything that modulated at the check,
and names the fault. `ImageWhole` follows from `MarkedAtReset`: the mark is written in the critical section that
has verified the area, and nothing runs after it but the reset. Theorems hold for every size of chunk,
stage, word, page, buffer and bucket, and for every host.

**CAN data** (`CanData_proofs`). `SetpointGuarded` compares a rolling counter with the numbers behind it, and
the fault bucket with a history of what came before. The invariant says that the number in flight is the
host's last (`SetpointsCurrent`: the host waits for one setpoint before it sends the next, and repetitions
repeat that one), that the remembered counter is the newest setpoint's (`Remembers`), and that the level of
the bucket is a function of how long ago the last bad setpoint was and whether it tripped (`Measures`). That
function is the one of the code's rates: `CodeBucket` (fill 2, drain 1, capacity 3, constants.rs:50) is the
theorem's hypothesis. With other rates "soon" is another number of good setpoints, and the reference in
`SoonAfterBad` is not what the bucket computes. The number of values of the counter stays free.
`DumpsOneCapture` holds because the buffer of a capture that is full holds that capture's records only
(`HoldsCapture`), and a dump is at rest until then (`DumpHonest`). For `TypeOK` a transfer in progress is
`Whole`: whole stages written, whole chunks staged, and no more than there is room for.

**Record store** (`RecordStore_proofs`) and **motor parameters** (`Parameters_proofs`). The theorems about one
page say what a store and a store that is cut short leave to load; `OldOrNew` is that for all pages and all
tasks. `RunsOneMotor` speaks of RAM, `LoadsOneMotor` of every combination of pages; neither is inductive, as
each is what the other becomes at a start or a store. `AllFit` states both and the mixed pairs at once: any
motor estimate that RAM or a page holds, with any measurement that RAM or a page holds. It is kept because
from the moment a calibration has cleared the pages until its last task has run, there is nothing but its
own session's values anywhere (`OfSession`), and this in turn because phases and tasks come in order
(`Ordered`): a queued task of a calibration carries what that session measured, it is the one the phase
waits for, and there are no gains before the tuning. All three conjuncts are
claimed unless `overtaken`; the theorems have no other hypothesis. That history variable has to be left again
for the invariant to be worth something, and `ClearedAgain` is the lemma: a `persist_config` that has written
cleared pages from cleared RAM re-establishes all of it, whatever mix it found.

**Commissioning** (`Commissioning_proofs`). `CalibrationKeepsProtocol` is the refinement: what the
estimator knows is measured before the stage that needs it (`Staged`), so that each step of a calibration,
and each acknowledgement, cancellation and failure, is a step of `CalibrationProtocol` or a stutter.
`LoopsStartUnwound`: the integrators belong to the loop of the stage that runs, or are clear, or a request to
unwind them stands (`Unwound`); which of the three follows from the stage. `InductanceUnbiased` is arithmetic
about a triangle wave. `Waves` ties the sums of the test to the current: with `T` the target and `S` the
slope, the current is the base plus `S` times the signs that were applied, and the base lies within `3 S` of
`T` from the first flip on, because a tick between two flips moves the current by `2 S` and is sampled, while a
tick that spans a flip does not move it and is not. A test ends on a flip from above, so the two signs were
sampled equally often, but for two.

`HallTablesAccurate` says of healthy sensors what the comment at the edge disagreement says of any: an
accepted table is right, to half a sector. The bound is attained, and `num_edges` plays no part in it: bounces
count as edges. The proof counts the sectors of a sweep on a line (`At`, `Placed`) and says of every entry how
it was made. `Good`: the rotor was dragged over the edge, so the target was the forward friction and at most
three half steps ahead. `Fine`: the rotor came to rest next to the edge, anywhere in the dead band. `Late`: an
edge flickered while the rotor rested beside it, and the entry is that of the sector before, a whole sector
late. On the way forward (`Forwards`) all entries after the first are good, the first may be fine, or one is late
and is not made again; the sweep ends when the first pattern comes up after a turn, or at once when it comes up
again. On the way back (`Backwards`) each entry meets the target at which the same edge is left, and three facts
carry the invariant `Table`: a late entry never agrees (`LateFails`), so a table with one is rejected before the
sweep is over; a good one agrees only if the dead band is less than half a sector (`GoodPasses`); a fine one that
agrees has its mean behind the edge by at most the reverse friction and ahead of it by a quarter of a sector at
most (`FinePasses`). At the end all six have been passed, at least one of them good, hence all within half a
sector (`AllPassed`). A locked rotor cannot get there (`Stuck`): it flickers at one edge only, and not on the way
back.

**Rotor feedback** (`Rotor_proofs`). `FeedbackTracks` speaks of one reading, and the invariant has two halves,
one per bench. On "edges" `Remembers` relates three memories: what the timer shows of the last step
(`Heading`), what the estimator kept of the step before, and the rotor's true path. A speed is reported
when two steps in a row went one way, and the invariant says which of them the rotor has really made. Under
it is the geometry of the tables: from six different edges on a circle follows that every sector has one
successor and one predecessor (`NextIsUnique`, `PreviousExists`), that no step is both forward and back
(`NoShortTurn`), and that an interpolated angle stays in the sector (`EstimateInSector`). On "speeds" three
conjuncts follow the drive. `Sourced` is what each source owes; `Unlocked` covers the ticks before the loop has
seen the rotor, when a reading exists that is not right and must not be used for torque; `Locked` says that
from then on each speed is the rotor's, that the angle is right as soon as the polarity is known, and that the
weight of the next blend is where the rotor's speed is (`Follows`) - the part that needs thresholds two units
apart. `TrackedBlend` and `LoneBlend` are the two cases of `FeedbackArbitrator::update`, with the weighted mean
rounded either way (`MeanBetween`), and `PullsAgree` is the polarity test: a sum of pulls has the sign of the
pole. Theorems hold for every such table, threshold, length and timeout.

**Model-checked only.** That a hall table which passes with a stuck sensor is right to less than a sector: the
geometry of the proof needs six patterns that differ, and with fewer an edge has no sector of its own. Liveness
(`RampDownEnds`, `WaitEnds`, `FirmwareRuns`, `CalibrationEnds`, `UpdateCompletes`, `PolarityTestEnds`):
fairness and ENABLED are outside of what TLAPS proves here. The claims that fail are counterexamples.

## 5. Where the repository and its code disagree

* `asc_claim`: safe_strategy.rs:288 says that an ASC refuses an STO downgrade until its exit conditions
  allow it. The first fault replaces the strategy of an idle drive without looking at it
  (modes.rs:68), so an active short on a high bus is opened by `Break1`.
* `pole_pairs_claim`: a calibration is cancelled and the pole pairs are changed in one backlog of frames.
  The calibration's task runs afterwards and puts values of the old motor back in use (tasks/foc.rs:286).
* `resume_claim`: loader.rs:67 logs steps "for resume bookkeeping". A power loss clears the watchdog flag
  that a revert depends on (bootloader main.rs:38), so an interrupted revert is not resumed and a mix of
  two images is booted; the run shows it with one of two pages restored. It is repaired if the mix hangs until the watchdog resets it, which the model
  assumes and nothing ensures.
* `trial_claim`: confirm_boot "marks that the currently active firmware boots normally (for the bootloader, so
  it does not revert to the previous firmware)" (bsp.rs:748). `write_status` erases before it writes (loader.rs:37).
  Power lost in between leaves no trial status, and the image just swapped in is not reverted although it has
  not been confirmed.

Met while modelling, and not asked by a run:

* can_rx.rs:27 says that idle-only frames are skipped, e.g. to keep updates away from torque control. The mode is
  checked under its lock and the frame handled after it (can_rx.rs:29). A fault in between, overspeed or
  overtemperature, starts a ramp-down, which modulates while a chunk is staged or written. `IdleOnlyHonoured`
  allows this case by name and no other.
* control.rs:167 says that defaulted rotor feedback is not used. A ramp-down without feedback modulates at
  angle zero.
* A flash error in the middle of a swap has the bootloader jump into what the failed step left (bootloader main.rs:33).
* `set_sensorless_1` accepts equal thresholds. The reciprocal of the width of the blend is then infinite,
  and the weight at exactly that speed, where `blend_omega` is held by its clamp, is not a number
  (arbitration.rs:88).
* The bandwidth test starts a capture from the FOC interrupt. Between the load and the store of the cursor
  of a dump this revives the dump (capture.rs:101); `DumpsOneCapture` leaves that step out by name. A test
  that is armed or aligning survives faults and idle requests and goes on in the next session.
* An image that ends within the last `FIRMWARE_SIZE % 6` bytes of the area is refused although it fits
  (update.rs:71). A repeated first chunk starts the transfer anew; a lost last chunk is found by
  the length at the end. Acknowledgements do not name their transfer. A host with more chunks on the way
  than the receive buffer holds may repeat the same losses for ever.
* A frame that arrives while `can_process` returns is left in the buffer, because the spawn fails. The next
  interrupt of the peripheral, a periodic transmission at the latest, picks it up.
* The hall estimator keeps its state while it has no table and while it reads an impossible pattern, and
  sees one capture per tick. After several edges between two estimates it may report the direction of
  motion that it had before; the next single edge sets it right (`doubt` in `RotorFeedback`).
* `blend_omega` is not updated while no estimate is accepted. It stays close enough because the injection
  follows the same reading.
* constants.rs:31 calls the ramp-down the stage "between torque control and idle/fault", it is also entered
  from idle and from calibration when a fault asks for it; a test of modes.rs says that an idle request is
  honoured from torque control only, it is from the polarity test as well.

## 6. What is not modelled

* One behaviour of `Drive` is one power cycle: reset, independent watchdog and flash contents are in
  `Bootloader` and `Parameters`, and `Drive` starts with whatever faults a boot can assert.
* Limits and timeouts do not change during a behaviour of `Drive`; that they stay in order is shown in
  `CanNode`, which has no calibrations and an ordinary bus voltage. Its behaviours end with the reset.
* Overspeed is a class of the reading; the code does not check it without pole pairs, which is the choice
  of a reading that is not in this class.
* Numbers: currents, gains, duty cycles, filters, the flux observer, the solvers of the motor estimator
  (except the inductance test, whose samples are modelled). Where they decide something (a fault, a
  verdict, no feedback) the model leaves the outcome open.
* The periodic telemetry frames are one kind of frame per host; their contents and exact periods are left
  out. Decoding errors and images larger than the area's counters cannot happen at these sizes.
* The time a flash operation takes, and that it stalls the processor.
* A page erase that is interrupted leaves a page torn or as it was, a status page as it was, empty or
  corrupt; in-between contents that decode to another valid status are excluded by its CRC, a log erased in
  part under a valid status is not considered.
* A mix of two images is assumed to hang before it confirms. `confirm_boot` itself confirms whatever runs: a mix
  that got that far in the middle of a revert would erase the log, and nothing would restore it.
* `Drive` is a build without the `bandwidth-test` feature. With it `shared_adc_isr` makes up the setpoint and
  the feedback of a test and commands Idle when the test ends, after the output is applied: for the mode this is
  `ReceiveIdle` right after the tick. `CanNode` has the test's states and its Idle.
* `Bootloader!StagePage` writes any page whose predecessor is in place, which allows more than the
  reception in `FirmwareUpdate` does; the two are not connected by a refinement.
* The hall sensors of the bench in `Commissioning` may be stuck in one sector only, and a table measured
  with them is accurate to one sector only.
* In `RotorFeedback` calibrations and an encoder are left out, and the physics of section 2 is assumed.
* Board drivers, build scripts, simulation and plots.

## 7. Plan

1. `FirmwareUpdate` as a refinement of `Bootloader!StagePage`, and an abstract `UpdatePromise` (the drive
   runs the confirmed or the trial image) that both implement.
2. The fault bucket for every rate: the number of good setpoints that it takes to forget a bad one, as a
   function of the rates and the capacity.

## 8. Running

    tlc -config MCDriveTorque.cfg MCDrive.tla
    tlc -config MCCan.cfg MCCan.tla
    tlapm Drive_proofs.tla
    tlapm Bootloader_proofs.tla
    tlapm Can_proofs.tla
    tlapm CanData_proofs.tla
    tlapm RecordStore_proofs.tla
    tlapm Parameters_proofs.tla
    tlapm Commissioning_proofs.tla
    tlapm Rotor_proofs.tla

`PROJECT.json` lists for each property a mutant: a definition changed as a plausible bug would change it,
for which TLC finds the property violated. The mutated forms stand in front of the definitions they
replace.
