-------------------------------- MODULE Drive --------------------------------
(***************************************************************************)
(* The drive core: the operating mode shared by every task, and all that   *)
(* changes it.                                                             *)
(*                                                                         *)
(*   FocTick        the FOC half of shared_adc_isr with foc_step           *)
(*   BoardStatus    the board-status half of shared_adc_isr                *)
(*   PwmBreak       pwm_break_isr                                          *)
(*   WatchdogExpire watchdog_isr                                           *)
(*   Receive...     the arms of can_process that touch the mode            *)
(*   StoreHallTable, TunePi, StoreMotorParams, PersistConfig               *)
(*                  the tasks that the two above spawn and do not await    *)
(*                                                                         *)
(* The interrupts all run at priority 6, and a priority 1 task holds the   *)
(* mode lock (ceiling 6) while it changes the mode, so each action below   *)
(* is atomic and any two of them may come in either order.  A task and     *)
(* can_process share priority 1 and run one after the other.               *)
(*                                                                         *)
(* Currents, angles and duty cycles are abstracted: the rotor feedback to  *)
(* the speed classes foc_step compares, the duty cycles to the source of   *)
(* the command and of the angle they were computed from.                   *)
(*                                                                         *)
(* The build is one without the bandwidth-test feature, whose test makes   *)
(* up the setpoint and the feedback and commands Idle at the end of a      *)
(* tick; CanNode models that test.                                         *)
(***************************************************************************)
EXTENDS OperatingMode

CONSTANTS
  SetpointTimeoutTicks,  \* setpoint_timeout_ms * TICKS_PER_MS
  BoardDebounceTicks,    \* BOARD_MEASUREMENT_DEBOUNCE_TICKS
  \* What the environment does, each a subset of what it could do:
  BoardSamples,          \* the board readings, <<DC bus level, over temperature>>
  Readings,              \* the rotor feedback the sensors and estimators give
  Diagnoses,             \* the current limits that can be exceeded
  Breaks,                \* the break inputs that can fire
  Requests,              \* the modes requested over CAN
  FocCauses,             \* the faults the current controller can return
  StageCauses,           \* the faults the calibration stages can report
  BootCauses,            \* the faults init can assert
  TaskCauses             \* the faults the priority 1 tasks can assert

\* The fault causes foc_step and the interrupts assert themselves.
OwnCauses ==
  {"RealtimeViolated", "Overcurrent", "RegenLimitExceeded", "SensorlessPolarityTestFault",
   "SetpointTimeout", "InvalidRotorFeedback", "Overspeed", "DcUnderVoltage",
   "DcOverVoltage", "Overtemperature", "Break1", "Break2", "MissingMotorParams",
   "CANMessageIntegrity"}

AllFocCauses == {"MissingMotorParams", "MissingControllerGains", "ControllerNumericalError"}

\* init: bootloader status, reset cause, stored records, boot confirmation
AllBootCauses ==
  {"FirmwareUpdateCrcMismatch", "FirmwareUpdateReverted", "WatchdogReboot",
   "MemoryFlashFault", "MemoryCorruptedData", "MissingControllerGains"}

\* A failed store, a failed tuning, a refused firmware update frame
MemoryCauses == {"MemoryFlashFault", "MemoryCorruptedData", "MemoryTooLarge"}
TuningCauses ==
  {"TuningInfeasibleParameters", "TuningInvalidTuningGoals", "TuningUnstable",
   "MissingMotorParams", "MissingControllerGains"}
UpdateCauses ==
  {"FirmwareUpdateTooLarge", "FirmwareUpdateLengthMismatch", "FirmwareUpdateCrcMismatch"}
AllTaskCauses == MemoryCauses \cup TuningCauses \cup UpdateCauses

AllRequests == {"Idle", "Calibration", "TorqueControl", "CancelCalibration", "FaultClear"}
AllBreaks == {"Break1", "Break2"}
BoardFlags == {"undervolt", "overvolt", "overtemp"}
DeferredFlags == {"overcurrent", "braking"}

Causes == OwnCauses \cup FocCauses \cup StageCauses \cup BootCauses \cup TaskCauses

(***************************************************************************)
(* Rotor feedback: none, or a speed below the HFI disable threshold, above *)
(* it, or above it and the mechanical overspeed limit.  Both sources the   *)
(* firmware feeds (hall, sensorless) give electrical angles.               *)
(***************************************************************************)
Feedbacks == {"none", "slow", "fast", "overspeed"}
FastFeedbacks == {"fast", "overspeed"}

ASSUME DriveAssumption ==
  /\ SetpointTimeoutTicks \in Nat \ {0}
  /\ BoardDebounceTicks \in Nat \ {0}
  /\ BoardSamples \subseteq BusLevels \X BOOLEAN
  /\ Readings \subseteq Feedbacks /\ "none" \in Readings
  /\ Diagnoses \subseteq DeferredFlags
  /\ Breaks \subseteq AllBreaks
  /\ Requests \subseteq AllRequests
  /\ FocCauses \subseteq AllFocCauses
  /\ StageCauses \subseteq CalibrationFailures
  /\ BootCauses \subseteq AllBootCauses
  /\ TaskCauses \subseteq AllTaskCauses

\* SensorlessEstimator::pole_polarity: None, Some(Ok), Some(Err)
Verdicts == {"open", "found", "failed"}

(***************************************************************************)
(* What the FOC interrupt last applied to the inverter: floating, shorted, *)
(* or duty cycles from the current controller, with the source of its      *)
(* command and whether its angle was a measured one or the default zero.   *)
(***************************************************************************)
Sources == {"safety", "calibration", "polarity", "torque"}
Still(out) == [out |-> out, source |-> "none", measured |-> FALSE]
Modulating(source, feedback) ==
  [out |-> "modulating", source |-> source, measured |-> feedback # "none"]

freewheel == Still("freewheel")
active_short == Still("active_short")

PwmOutputs ==
  {freewheel, active_short}
    \cup [out : {"modulating"}, source : Sources, measured : BOOLEAN]

VARIABLES
  mode,          \* the shared operating mode
  pwm,           \* what the last FOC tick applied
  dc_bus_v,      \* the last board reading, "none" before the first
  board,         \* the three board debouncers
  deferred,      \* diagnostics of the last tick, consumed by the next one
  rotor,         \* what the feedback arbitrator reads
  polarity,      \* the verdict of the saliency estimator's polarity test
  setpoint_age,  \* ticks since the setpoint was written, at the timeout it is stale
  watchdog,      \* the software watchdog of the FOC interrupt
  spawned        \* the deferred tasks that are queued or running

vars == <<mode, pwm, dc_bus_v, board, deferred, rotor, polarity, setpoint_age, watchdog, spawned>>

DeferredTasks == {"store_hall_table", "tune_pi", "store_motor_params", "persist_config"}

TypeOK ==
  /\ mode \in ModeOf(Causes)
  /\ pwm \in PwmOutputs
  /\ dc_bus_v \in BusLevels \cup {"none"}
  /\ board \in [BoardFlags -> DebouncedValues(BoardDebounceTicks)]
  /\ deferred \in SUBSET DeferredFlags
  /\ rotor \in Feedbacks
  /\ polarity \in Verdicts
  /\ setpoint_age \in 0 .. SetpointTimeoutTicks
  /\ watchdog \in [started : BOOLEAN, faulted : BOOLEAN, acknowledged : BOOLEAN]
  /\ spawned \in SUBSET DeferredTasks

(***************************************************************************)
(* init asserts what it finds, in this order: the bootloader status, the   *)
(* reset cause, the loads of the records, the gains that cannot be used,   *)
(* the confirmation of the boot.  Every load that fails asserts one of the *)
(* same two causes and a repeated cause is not recorded: two of the loads  *)
(* stand for all.                                                          *)
(***************************************************************************)
StatusCauses == {"FirmwareUpdateCrcMismatch", "FirmwareUpdateReverted"}
ResetCauses == {"WatchdogReboot"}
LoadCauses == {"MemoryFlashFault", "MemoryCorruptedData"}
GainCauses == {"MissingControllerGains"}
ConfirmCauses == {"MemoryFlashFault"}

Found(m, cause) == AssertFaultIf(m, cause # "None", cause)

Booted(status, reset, load1, load2, gains, confirm) ==
  LET loaded == Found(Found(Found(Found(Idle(sto), status), reset), load1), load2)
  IN  Found(Found(loaded, gains), confirm)

MayBoot(causes) == {"None"} \cup (BootCauses \cap causes)

BootModes ==
  {Booted(s, r, l, k, g, c) :
     s \in MayBoot(StatusCauses), r \in MayBoot(ResetCauses), l \in MayBoot(LoadCauses),
     k \in MayBoot(LoadCauses), g \in MayBoot(GainCauses), c \in MayBoot(ConfirmCauses)}

Init ==
  /\ mode \in BootModes
  /\ pwm = freewheel
  /\ dc_bus_v = "none"
  /\ board = [f \in BoardFlags |-> DebouncedNew(FALSE)]
  /\ deferred = {}
  /\ rotor = "none"
  /\ polarity = "open"
  /\ setpoint_age = SetpointTimeoutTicks
  /\ watchdog = [started |-> FALSE, faulted |-> FALSE, acknowledged |-> FALSE]
  /\ spawned = {}

-----------------------------------------------------------------------------
(***************************************************************************)
(* foc_step, stage by stage.  Each operator takes the mode the previous    *)
(* stage left and returns the mode after its own checks.                   *)
(***************************************************************************)

\* The watchdog is reported on the first tick after it expired.
WatchdogReported == watchdog.faulted /\ ~watchdog.acknowledged

\* A mutant of Diagnosed: only torque control is diagnosed.
DiagnosedInTorque(m) ==
  AssertFaultIf(AssertFaultIf(m, WatchdogReported, "RealtimeViolated"),
                m.tag = "TorqueControl" /\ "overcurrent" \in deferred, "Overcurrent")

\* control.rs, "Fault diagnostics"
Diagnosed(m) ==
  LET m1 == AssertFaultIf(m, WatchdogReported, "RealtimeViolated")
      m2 == AssertFaultIf(m1, "overcurrent" \in deferred, "Overcurrent")
  IN  AssertFaultIf(m2, "braking" \in deferred, "RegenLimitExceeded")

\* The polarity test is still open and no faster source can settle it.
TestOngoing(m) ==
  m.tag = "SaliencyPolarityTest" /\ polarity = "open" /\ rotor \notin FastFeedbacks

\* The outcome of the polarity test: pass, fail, or settled by fast feedback.
PolarityTested(m) ==
  IF m.tag # "SaliencyPolarityTest" \/ TestOngoing(m) THEN m
  ELSE IF polarity = "failed" THEN AssertFault(m, "SensorlessPolarityTestFault")
  ELSE EnableTorqueControl(m)

\* While the test runs FOC follows the saliency estimator's own reading.
FeedbackUsed(m, saliency) == IF TestOngoing(m) THEN saliency ELSE rotor

\* A mutant of SetpointChecked: the polarity test is left out.
SetpointCheckedInTorqueOnly(m, age) ==
  AssertFaultIf(m, m.tag = "TorqueControl" /\ age = SetpointTimeoutTicks, "SetpointTimeout")

\* A stale setpoint, as foc_step sees it in the two modes that use one.
SetpointChecked(m, age) ==
  AssertFaultIf(m, m.tag \in {"SaliencyPolarityTest", "TorqueControl"}
                     /\ age = SetpointTimeoutTicks, "SetpointTimeout")

FeedbackChecked(m, feedback) ==
  AssertFaultIf(m, feedback = "none" /\ ~FeedbackOptional(m), "InvalidRotorFeedback")

\* Only an active stage is stepped; a failed stage asserts its cause.
Steps(m) ==
  IF m.tag = "Calibration" /\ GateActive(m) THEN CalibrationStep(m.phase, StageCauses)
  ELSE {Outcome(m.phase, "None")}

CalibrationStepped(m, step) ==
  AssertFaultIf([m EXCEPT !.phase = step.phase],
                step.result \in CalibrationFailures, step.result)

\* A defaulted feedback has speed zero, so only a valid one can be too fast.
OverspeedChecked(m, feedback) ==
  AssertFaultIf(m, feedback = "overspeed", "Overspeed")

\* Everything foc_step does before it needs the DC bus voltage.
Prepared(m, saliency, age) ==
  FeedbackChecked(SetpointChecked(PolarityTested(Diagnosed(m)), age),
                  FeedbackUsed(Diagnosed(m), saliency))

\* The safe strategy of idle and fault advances one tick.
SafetyTicked(m, emf, feedback) ==
  IF UsesSafetyCommand(m)
  THEN [m EXCEPT !.strategy = StrategyTick(@, dc_bus_v, emf, feedback # "none")]
  ELSE m

\* Whether this tick runs the current controller, on the mode after SafetyTicked.
Computes(m) ==
  IF UsesSafetyCommand(m) THEN m.strategy.kind = "RampDown" ELSE GateActive(m)

Source(m) ==
  CASE UsesSafetyCommand(m) -> "safety"
    [] m.tag = "Calibration" -> "calibration"
    [] m.tag = "SaliencyPolarityTest" -> "polarity"
    [] m.tag = "TorqueControl" -> "torque"

\* A mutant of SafeOutput: the strategy is not consulted.
SafeOutputFloating(m) == freewheel

\* The output of a tick that does not modulate.
SafeOutput(m) ==
  IF UsesSafetyCommand(m) /\ m.strategy.kind = "ASC" THEN active_short ELSE freewheel

\* The inputs a stage distinguishes in this mode; the other stages see one value.
Saliencies(m) == IF TestOngoing(m) THEN Readings ELSE {rotor}
Emfs(m) == IF UsesSafetyCommand(m) THEN EmfClasses ELSE {"unknown"}
FocResults(m) == IF Computes(m) THEN {"Ok"} \cup FocCauses ELSE {"Ok"}

\* A mutant of TasksFor: the tuning request is not handed on.
TasksForStores(result) ==
  CASE result = "HallCalibration" -> {"store_hall_table"}
    [] result = "MotorParameters" -> {"store_motor_params"}
    [] OTHER -> {}

\* The task that the result of a stage is handed to; spawning it again has no effect.
TasksFor(result) ==
  CASE result = "HallCalibration" -> {"store_hall_table"}
    [] result = "TuningRequest" -> {"tune_pi"}
    [] result = "MotorParameters" -> {"store_motor_params"}
    [] OTHER -> {}

\* foc_step, from the mode of the last step to mode' and the outcome pwm'.
FocStep(age) ==
  \E saliency \in Saliencies(Diagnosed(mode)) :
    LET prepared == Prepared(mode, saliency, age)
        feedback == FeedbackUsed(Diagnosed(mode), saliency)
    IN  IF dc_bus_v = "none"
        THEN mode' = prepared /\ pwm' = freewheel /\ spawned' = spawned
        ELSE \E step \in Steps(prepared) :
               LET stepped == OverspeedChecked(CalibrationStepped(prepared, step), feedback)
               IN  \E emf \in Emfs(stepped) :
                     LET safe == SafetyTicked(stepped, emf, feedback)
                     IN  \E result \in FocResults(safe) :
                           /\ mode' = AssertFaultIf(safe, result # "Ok", result)
                           /\ pwm' = IF Computes(safe) /\ result = "Ok"
                                     THEN Modulating(Source(safe), feedback)
                                     ELSE SafeOutput(mode')
                           /\ spawned' = spawned \cup TasksFor(step.result)

\* A mutant of Seeded: the estimator is never seeded.
SeedingForgotten == FALSE

\* foc_step seeds the saliency estimator from feedback above the HFI threshold.
Seeded ==
  /\ Diagnosed(mode).tag = "SaliencyPolarityTest"
  /\ polarity = "open"
  /\ rotor \in FastFeedbacks

(***************************************************************************)
(* The estimators run on a modulating tick and are reset on any other,     *)
(* seeded with the hall feedback of the build that has it; the arbitrator  *)
(* then has the hall feedback only.                                        *)
(***************************************************************************)
FeedbackUpdated ==
  IF pwm'.out = "modulating"
  THEN /\ polarity' \in (IF Seeded THEN {"found"}
                         ELSE IF polarity = "open" THEN Verdicts ELSE {polarity})
       /\ rotor' \in Readings
  ELSE \E hall \in (IF HasHall THEN Readings ELSE {"none"}) :
         /\ polarity' = IF hall = "none" THEN "open" ELSE "found"
         /\ rotor' = hall

\* shared_adc_isr with phase currents: one tick of the current loop.
FocTick ==
  LET age == IF setpoint_age = SetpointTimeoutTicks THEN setpoint_age ELSE setpoint_age + 1
  IN  /\ FocStep(age)
      /\ setpoint_age' = age
      /\ watchdog' = IF WatchdogReported
                     THEN [watchdog EXCEPT !.acknowledged = TRUE]
                     ELSE [watchdog EXCEPT !.started = TRUE]
      /\ FeedbackUpdated
      /\ deferred' \in SUBSET Diagnoses
      /\ UNCHANGED <<dc_bus_v, board>>

-----------------------------------------------------------------------------
\* shared_adc_isr with a board reading: debounced DC bus and temperature limits.
BoardStatus ==
  \E sample \in BoardSamples :
    LET level == sample[1]
        hot == sample[2]
        b == [undervolt |-> DebouncedUpdate(board["undervolt"], level = "under",
                                            BoardDebounceTicks),
              overvolt |-> DebouncedUpdate(board["overvolt"], level \in {"over", "high"},
                                           BoardDebounceTicks),
              overtemp |-> DebouncedUpdate(board["overtemp"], hot, BoardDebounceTicks)]
        voltage == IF b.undervolt.state THEN AssertFault(mode, "DcUnderVoltage")
                   ELSE AssertFaultIf(mode, b.overvolt.state, "DcOverVoltage")
    IN  /\ dc_bus_v' = level
        /\ board' = b
        /\ mode' = AssertFaultIf(voltage, b.overtemp.state, "Overtemperature")
        /\ UNCHANGED <<pwm, deferred, rotor, polarity, setpoint_age, watchdog, spawned>>

\* A step that changes the mode and the spawned tasks, and nothing else of this module.
SetsMode(m, tasks) ==
  /\ mode' = m
  /\ spawned' = tasks
  /\ UNCHANGED <<pwm, dc_bus_v, board, deferred, rotor, polarity, setpoint_age, watchdog>>

\* pwm_break_isr: either or both break inputs of the PWM timer fired.
PwmBreak ==
  \E fired \in (SUBSET Breaks) \ {{}} :
    SetsMode(AssertFaultIf(AssertFaultIf(mode, "Break1" \in fired, "Break1"),
                           "Break2" \in fired, "Break2"), spawned)

\* watchdog_isr, SoftwareWatchdog::register_fault: only a started timer expires.
WatchdogExpire ==
  /\ watchdog.started
  /\ watchdog' = [started |-> FALSE, faulted |-> TRUE, acknowledged |-> FALSE]
  /\ UNCHANGED <<mode, pwm, dc_bus_v, board, deferred, rotor, polarity, setpoint_age, spawned>>

-----------------------------------------------------------------------------
\* OperatingModeRequest, by requested mode
ReceiveIdle == "Idle" \in Requests /\ SetsMode(RequestIdle(mode), spawned)

(***************************************************************************)
(* Without a configured pole pair count the request is answered with a     *)
(* fault.  One that starts the calibration has the parameters of the old   *)
(* motor cleared from flash.                                               *)
(***************************************************************************)
ReceiveCalibration ==
  /\ "Calibration" \in Requests
  /\ \/ SetsMode(StartCalibration(mode),
                 IF StartsCalibration(mode) THEN spawned \cup {"persist_config"} ELSE spawned)
     \/ SetsMode(AssertFault(mode, "MissingMotorParams"), spawned)

\* The setpoint restarts at zero unless torque control was requested already.
ReceiveTorqueControl ==
  /\ "TorqueControl" \in Requests
  /\ mode' = RequestTorqueControl(mode)
  /\ setpoint_age' = IF mode.tag \in {"SaliencyPolarityTest", "TorqueControl"}
                     THEN setpoint_age ELSE 0
  /\ UNCHANGED <<pwm, dc_bus_v, board, deferred, rotor, polarity, watchdog, spawned>>

ReceiveCancelCalibration ==
  "CancelCalibration" \in Requests /\ SetsMode(EndCalibration(mode), spawned)

ReceiveFaultClear == "FaultClear" \in Requests /\ SetsMode(ClearFault(mode), spawned)

\* Setpoint frame that passes its integrity check
ReceiveSetpoint ==
  /\ setpoint_age' = 0
  /\ UNCHANGED <<mode, pwm, dc_bus_v, board, deferred, rotor, polarity, watchdog, spawned>>

\* Setpoint frame that trips the integrity bucket
RejectSetpoint == SetsMode(AssertFault(mode, "CANMessageIntegrity"), spawned)

\* A configuration frame that changes the configuration
ReceiveConfig == SetsMode(mode, spawned \cup {"persist_config"})

(***************************************************************************)
(* A firmware update frame that cannot be honoured.  Update frames are     *)
(* dropped unless the mode is idle; an interrupt may assert another fault  *)
(* between that check and this one.                                        *)
(***************************************************************************)
RefuseUpdate ==
  /\ mode.tag \in {"Idle", "Fault"}
  /\ mode.tag = "Idle" => ~GateActive(mode)
  /\ \E cause \in TaskCauses \cap (UpdateCauses \cup MemoryCauses) :
       SetsMode(AssertFault(mode, cause), spawned)

-----------------------------------------------------------------------------
(***************************************************************************)
(* The deferred tasks.  Nothing ties a task to the calibration it was      *)
(* spawned by: it applies its command to whatever the mode is by then, and *)
(* returns.                                                                *)
(***************************************************************************)
TaskSucceeds(task, m) == task \in spawned /\ SetsMode(m, spawned \ {task})
TaskFails(task, causes) ==
  /\ task \in spawned
  /\ \E cause \in TaskCauses \cap causes :
       SetsMode(AssertFault(mode, cause), spawned \ {task})

StoreHallTable ==
  \/ TaskSucceeds("store_hall_table", ResumeCalibration(mode))
  \/ TaskFails("store_hall_table", MemoryCauses)

\* Gains that the controller refuses are stored all the same, which may fail as well.
TunePi ==
  \/ TaskSucceeds("tune_pi", ResumeCalibration(mode))
  \/ TaskFails("tune_pi", TuningCauses \cup MemoryCauses)
  \/ /\ "tune_pi" \in spawned
     /\ "MissingControllerGains" \in TaskCauses
     /\ \E cause \in TaskCauses \cap MemoryCauses :
          SetsMode(AssertFault(AssertFault(mode, "MissingControllerGains"), cause),
                   spawned \ {"tune_pi"})

StoreMotorParams ==
  \/ TaskSucceeds("store_motor_params", EndCalibration(mode))
  \/ TaskFails("store_motor_params", MemoryCauses)

\* Polls until the gate is not active; no interrupt activates a gate in the meantime.
PersistConfig ==
  /\ ~GateActive(mode)
  /\ \/ TaskSucceeds("persist_config",
                     IF mode.tag = "Calibration" /\ mode.phase = "ClearingExistingParameters"
                     THEN ResumeCalibration(mode) ELSE mode)
     \/ TaskFails("persist_config", MemoryCauses)

Next ==
  \/ FocTick
  \/ BoardStatus
  \/ PwmBreak
  \/ WatchdogExpire
  \/ ReceiveIdle
  \/ ReceiveCalibration
  \/ ReceiveTorqueControl
  \/ ReceiveCancelCalibration
  \/ ReceiveFaultClear
  \/ ReceiveSetpoint
  \/ RejectSetpoint
  \/ ReceiveConfig
  \/ RefuseUpdate
  \/ StoreHallTable
  \/ TunePi
  \/ StoreMotorParams
  \/ PersistConfig

Spec == Init /\ [][Next]_vars

(***************************************************************************)
(* The ADC is retriggered by every FOC interrupt ("keep the ADC EOC ISRs   *)
(* running") and samples the board in turn, so both halves of the          *)
(* interrupt keep running; a spawned task is run by its executor whenever  *)
(* the interrupts leave time for it, and PersistConfig polls.  No request, *)
(* setpoint or fault is assumed to arrive.                                 *)
(***************************************************************************)
FairSpec ==
  /\ Spec
  /\ WF_vars(FocTick)
  /\ WF_vars(BoardStatus)
  /\ WF_vars(StoreHallTable)
  /\ WF_vars(TunePi)
  /\ WF_vars(StoreMotorParams)
  /\ WF_vars(PersistConfig)
=============================================================================
