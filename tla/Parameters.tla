------------------------------ MODULE Parameters ------------------------------
(***************************************************************************)
(* What the drive knows about its motor, in RAM and in flash: the          *)
(* configuration, the motor parameters, the hall table and the current     *)
(* controller gains.  The CAN handlers change and invalidate them, a       *)
(* calibration measures them, four priority 1 tasks store them page by     *)
(* page, and a reset may come in the middle of a store.                    *)
(*                                                                         *)
(* A value is abstracted to where it comes from: a configuration to a name,*)
(* a measured value to the calibration that measured it: the pole pairs it *)
(* assumed and its number, its epoch.                                      *)
(*                                                                         *)
(* The operating mode is reduced to what decides here (Drive has the whole *)
(* of it): Idle, Torque for every state with an active gate outside a      *)
(* calibration, Fault, and the phases of a calibration.                    *)
(***************************************************************************)
EXTENDS RecordStore, CalibrationRunner

CONSTANTS
  Configs,     \* the configurations a host sets
  Default,     \* FirmwareConfig::default
  PolePairs,   \* the values of num_pole_pairs that are configured
  None,        \* an absent value
  Firmwares,   \* firmware images that may run
  Factory,     \* the image the board is delivered with
  Version,     \* Stored::VERSION, by firmware and page
  MaxEpoch, MaxMishaps  \* bounds: calibrations; failed stores, power losses and image swaps

\* Stored::PAGE, in the order persist_config stores them
Pages == {"config", "params", "gains", "hall"}
Before(p) == CASE p = "config" -> {}
               [] p = "params" -> {"config"}
               [] p = "gains" -> {"config", "params"}
               [] p = "hall" -> {"config", "params", "gains"}

ASSUME ParametersAssumption ==
  /\ None \notin PolePairs \cup Nat
  /\ Factory \in Firmwares
  /\ Version \in [Firmwares -> [Pages -> Nat \ {NoVersion}]]
  /\ MaxEpoch \in Nat
  /\ MaxMishaps \in Nat

VARIABLES
  mode,      \* Idle, Torque, Fault or the phase of the calibration
  stage,     \* what the motor estimator asks for next
  session,   \* the pole pairs and the epoch of the last calibration
  epoch,     \* how many calibrations were started (history)
  config,    \* FirmwareConfig in RAM
  motor,     \* motor_parameters: the pole pairs, and the epoch of the rest
  gains,     \* the gains FOC runs with, by session
  hall,      \* the hall table in use, by session
  spawned,   \* the tasks queued or sleeping, with the estimate they carry
  flash,     \* the pages of the configuration flash
  firmware,  \* the running image
  refused,   \* a store has failed since the pages were last all stored (history)
  overtaken, \* a frame dropped the values over a queued task (history, see Forgotten)
  mishaps    \* failed stores, power losses and image swaps so far

vars == <<mode, stage, session, epoch, config, motor, gains, hall,
          spawned, flash, firmware, refused, overtaken, mishaps>>

Unmeasured == 0
Estimates == [pairs : PolePairs \cup {None}, epoch : 0 .. MaxEpoch]
NoEstimate == [pairs |-> None, epoch |-> Unmeasured]
CalibrationTasks == {"store_hall_table", "tune_pi", "store_motor_params"}
Tasks == CalibrationTasks \cup {"persist_config"}
Stages == {"hall", "tuning", "done"}

Values(p) == IF p = "config" THEN Configs \cup {Default} ELSE Estimates
Nothing(p) == IF p = "config" THEN Default ELSE NoEstimate

\* memory.load with the caller's fallback
LoadPage(fl, fw, p) == Loaded(fl[p], Version[fw][p], Nothing(p))

TypeOK ==
  /\ mode \in {"Idle", "Torque", "Fault"} \cup Phases
  /\ stage \in Stages
  /\ session \in Estimates
  /\ epoch \in 0 .. MaxEpoch
  /\ config \in Configs \cup {Default}
  /\ motor \in Estimates
  /\ gains \in Estimates /\ hall \in Estimates
  /\ spawned \subseteq [task : Tasks, estimate : Estimates]
  /\ \A p \in Pages : flash[p] \in Seq([version : Nat, value : Values(p)]) /\ Len(flash[p]) <= Slots
  /\ firmware \in Firmwares
  /\ refused \in BOOLEAN /\ overtaken \in BOOLEAN
  /\ mishaps \in 0 .. MaxMishaps

Init ==
  /\ mode = "Idle" /\ stage = "hall" /\ session = NoEstimate
  /\ epoch = 0
  /\ config = Default /\ motor = NoEstimate /\ gains = NoEstimate /\ hall = NoEstimate
  /\ spawned = {}
  /\ flash = [p \in Pages |-> <<>>]
  /\ firmware = Factory
  /\ refused = FALSE /\ overtaken = FALSE
  /\ mishaps = 0

-----------------------------------------------------------------------------
Queued(task) == \E s \in spawned : s.task = task

\* spawn fails when the task is queued or running already.
Spawn(task, estimate) ==
  IF Queued(task) THEN spawned ELSE spawned \cup {[task |-> task, estimate |-> estimate]}

GateActive == mode \notin {"Idle", "Fault"} \cup WaitPhases
Calibrates == mode \in Phases

\* The configuration messages that are accepted in every mode.
ReceiveConfig ==
  /\ config' \in Configs
  /\ spawned' = Spawn("persist_config", NoEstimate)
  /\ UNCHANGED <<mode, stage, session, epoch, motor, gains, hall, flash, firmware, refused, overtaken, mishaps>>

\* A task of a calibration is queued, of the running one or of one that was cancelled or failed.
Pending == \E task \in CalibrationTasks : Queued(task)

\* A mutant of Forgotten: the values are dropped from RAM and left in flash.
ForgottenInRam(pairs) ==
  /\ motor' = [pairs |-> pairs, epoch |-> Unmeasured]
  /\ gains' = NoEstimate
  /\ hall' = NoEstimate
  /\ spawned' = spawned
  /\ overtaken' = (overtaken \/ Pending)

(***************************************************************************)
(* The motor might have changed: what was measured is invalidated and the  *)
(* pages cleared.  can_process has the priority of the tasks and does not  *)
(* yield before its frames are drained, so a task that the FOC interrupt   *)
(* spawned meanwhile is queued still, and a cancel and this frame overtake *)
(* it.  That task brings the dropped values back; overtaken says so, until *)
(* a store of all pages finds nothing measured and no such task.  No       *)
(* action reads it.                                                        *)
(***************************************************************************)
Forgotten(pairs) ==
  /\ motor' = [pairs |-> pairs, epoch |-> Unmeasured]
  /\ gains' = NoEstimate
  /\ hall' = NoEstimate
  /\ spawned' = Spawn("persist_config", NoEstimate)
  /\ overtaken' = (overtaken \/ Pending)

\* MotorConfig, an idle-only frame: the pole pairs make another motor.
ReceiveMotorConfig ==
  /\ mode = "Idle"
  /\ \E pairs \in PolePairs :
       IF pairs # motor.pairs THEN Forgotten(pairs)
       ELSE spawned' = Spawn("persist_config", NoEstimate) /\ UNCHANGED <<motor, gains, hall, overtaken>>
  /\ UNCHANGED <<mode, stage, session, epoch, config, flash, firmware, refused, mishaps>>

\* OperatingModeRequest Calibration; refused with a fault while the pole pairs are unknown.
ReceiveCalibration ==
  /\ mode = "Idle"
  /\ IF motor.pairs = None
     THEN mode' = "Fault" /\ UNCHANGED <<session, epoch, motor, gains, hall, spawned, overtaken>>
     ELSE /\ epoch < MaxEpoch
          /\ mode' = "ClearingExistingParameters"
          /\ epoch' = epoch + 1
          /\ session' = [pairs |-> motor.pairs, epoch |-> epoch + 1]
          /\ Forgotten(motor.pairs)
  /\ UNCHANGED <<stage, config, flash, firmware, refused, mishaps>>

ReceiveCancelCalibration ==
  /\ Calibrates
  /\ mode' = "Idle"
  /\ UNCHANGED <<stage, session, epoch, config, motor, gains, hall, spawned, flash, firmware, refused, overtaken, mishaps>>

\* The remaining mode requests: torque and back, a cleared fault.
ReceiveMode ==
  /\ \/ mode = "Idle" /\ mode' = "Torque"
     \/ mode \in {"Torque", "Fault"} /\ mode' = "Idle"
  /\ UNCHANGED <<stage, session, epoch, config, motor, gains, hall,
                 spawned, flash, firmware, refused, overtaken, mishaps>>

\* Any fault of Drive, a failed calibration stage included; a queued task is not called off.
Fault ==
  /\ mode # "Fault"
  /\ mode' = "Fault"
  /\ UNCHANGED <<stage, session, epoch, config, motor, gains, hall, spawned, flash, firmware, refused, overtaken, mishaps>>

(***************************************************************************)
(* The FOC interrupt steps the calibration runner; what the estimator asks *)
(* for is handed to a task (tasks/foc.rs, "Do flash writes and tuning      *)
(* outside this ISR").                                                     *)
(***************************************************************************)
Requests(phase, task) == mode' = phase /\ spawned' = Spawn(task, session)

CalibrationTick ==
  /\ \/ /\ mode = "MotorEstimation" /\ stage = "hall"
        /\ mode' = IF HasHall THEN "HallCalibration" ELSE mode
        /\ stage' = IF HasHall THEN stage ELSE "tuning"
        /\ spawned' = spawned
     \/ /\ mode = "HallCalibration"
        /\ Requests("WaitingHallCompletion", "store_hall_table") /\ stage' = stage
     \/ /\ mode = "MotorEstimation" /\ stage = "tuning"
        /\ Requests("WaitingTuning", "tune_pi") /\ stage' = stage
     \/ /\ mode = "MotorEstimation" /\ stage = "done"
        /\ Requests("Done", "store_motor_params") /\ stage' = stage
  /\ UNCHANGED <<session, epoch, config, motor, gains, hall, flash, firmware, refused, overtaken, mishaps>>

-----------------------------------------------------------------------------
(***************************************************************************)
(* The tasks.  Each is one action, as nothing else runs at their priority  *)
(* and the interrupts only change the mode to Fault meanwhile, which is    *)
(* the same as a fault just before.                                        *)
(***************************************************************************)

\* A mutant of Writes: persist_config leaves the motor parameters to their own task.
WritesButParams(s) ==
  CASE s.task = "persist_config" ->
         [p \in {"config", "gains", "hall"} |->
            CASE p = "config" -> config [] p = "gains" -> gains [] p = "hall" -> hall]
    [] s.task = "store_hall_table" -> [p \in {"hall"} |-> s.estimate]
    [] s.task = "tune_pi" -> [p \in {"gains"} |-> s.estimate]
    [] s.task = "store_motor_params" -> [p \in {"params"} |-> s.estimate]

\* What a task stores: the RAM state for persist_config, else what it carries.
Writes(s) ==
  CASE s.task = "persist_config" ->
         [p \in {"config", "params", "gains"} \cup (IF HasHall THEN {"hall"} ELSE {}) |->
            CASE p = "config" -> config [] p = "params" -> motor
              [] p = "gains" -> gains [] p = "hall" -> hall]
    [] s.task = "store_hall_table" -> [p \in {"hall"} |-> s.estimate]
    [] s.task = "tune_pi" -> [p \in {"gains"} |-> s.estimate]
    [] s.task = "store_motor_params" -> [p \in {"params"} |-> s.estimate]

RecordOf(writes, p) == Record(Version[firmware][p], writes[p])

\* What becomes of a page: stored, left as a refused store leaves it, or untouched.
PageAfter(writes, failed, p) ==
  IF p \in failed THEN CutShort(flash[p], RecordOf(writes, p))
  ELSE IF p \in DOMAIN writes THEN {Stored(flash[p], RecordOf(writes, p))}
  ELSE {flash[p]}

\* Every page is written, also after one whose store was refused.
WriteAll(writes, failed) ==
  \E c \in PageAfter(writes, failed, "config"), m \in PageAfter(writes, failed, "params"),
     g \in PageAfter(writes, failed, "gains"), h \in PageAfter(writes, failed, "hall") :
    flash' = [p \in Pages |-> CASE p = "config" -> c [] p = "params" -> m [] p = "gains" -> g [] p = "hall" -> h]

\* persist_config polls until the gate is inactive.
Runnable(s) == s.task = "persist_config" => ~GateActive

\* CalibrationRunner::resume, with the acknowledgement of the phase it leaves.
ResumesTo(phase) ==
  /\ mode' = Resumed(phase)
  /\ stage' = CASE phase = "ClearingExistingParameters" -> "hall"
                [] phase = "WaitingHallCompletion" -> "tuning"
                [] phase = "WaitingTuning" -> "done"
                [] OTHER -> stage

\* The command of a task that succeeded, applied to the mode it finds.
Completed(s) ==
  CASE s.task = "store_motor_params" ->
         mode' = (IF Calibrates THEN "Idle" ELSE mode) /\ stage' = stage
    [] s.task = "persist_config" /\ mode # "ClearingExistingParameters" -> UNCHANGED <<mode, stage>>
    [] OTHER -> IF Calibrates THEN ResumesTo(mode) ELSE UNCHANGED <<mode, stage>>

\* What a task puts into RAM before it stores.
Applied(s) ==
  /\ hall' = IF s.task = "store_hall_table" THEN s.estimate ELSE hall
  /\ gains' = IF s.task = "tune_pi" THEN s.estimate ELSE gains
  /\ motor' = IF s.task = "store_motor_params" THEN s.estimate ELSE motor

\* The store after which nothing that was measured is left, and nothing on its way.
AllCleared(s) ==
  /\ s.task = "persist_config" /\ ~Pending
  /\ motor.epoch = Unmeasured /\ gains = NoEstimate /\ hall = NoEstimate

TaskSucceeds(s) ==
  /\ Runnable(s)
  /\ Applied(s)
  /\ WriteAll(Writes(s), {})
  /\ Completed(s)
  /\ spawned' = spawned \ {s}
  /\ refused' = (refused /\ s.task # "persist_config")
  /\ overtaken' = (overtaken /\ ~AllCleared(s))
  /\ UNCHANGED <<session, epoch, config, firmware, mishaps>>

\* The other stores of persist_config are attempted all the same.
TaskFails(s) ==
  /\ Runnable(s) /\ mishaps < MaxMishaps
  /\ Applied(s)
  /\ \E failed \in (SUBSET DOMAIN Writes(s)) \ {{}} : WriteAll(Writes(s), failed)
  /\ mode' = "Fault" /\ stage' = stage
  /\ spawned' = spawned \ {s}
  /\ mishaps' = mishaps + 1
  /\ refused' = TRUE
  /\ UNCHANGED <<session, epoch, config, firmware, overtaken>>

\* tune_pi finds no gains: those in use are dropped, flash is left alone.
TuningFails(s) ==
  /\ s.task = "tune_pi"
  /\ mode' = "Fault" /\ gains' = NoEstimate
  /\ spawned' = spawned \ {s}
  /\ UNCHANGED <<stage, session, epoch, config, motor, hall, flash, firmware, refused, overtaken, mishaps>>

-----------------------------------------------------------------------------
\* init: every page is loaded; a corrupt one is a fault and counts as empty.
Boot(fl, fw) ==
  /\ flash' = fl /\ firmware' = fw
  /\ config' = LoadPage(fl, fw, "config")
  /\ motor' = LoadPage(fl, fw, "params")
  /\ gains' = LoadPage(fl, fw, "gains")
  /\ hall' = IF HasHall THEN LoadPage(fl, fw, "hall") ELSE NoEstimate
  /\ mode' = IF \E p \in Pages : IsCorrupt(fl[p]) THEN "Fault" ELSE "Idle"
  /\ stage' = "hall" /\ session' = NoEstimate
  /\ spawned' = {}
  /\ refused' = FALSE
  /\ UNCHANGED <<epoch, overtaken>>

\* Power is lost between two tasks, or a task's store of one page is cut short.
PowerLoss ==
  /\ mishaps < MaxMishaps /\ mishaps' = mishaps + 1
  /\ \/ Boot(flash, firmware)
     \/ \E s \in spawned :
          /\ Runnable(s)
          /\ \E p \in DOMAIN Writes(s) :
               \E cut \in CutShort(flash[p], RecordOf(Writes(s), p)) :
                 Boot([q \in Pages |->
                         IF q = p THEN cut
                         ELSE IF q \in Before(p) \cap DOMAIN Writes(s)
                              THEN Stored(flash[q], RecordOf(Writes(s), q))
                              ELSE flash[q]], firmware)

\* An update or a revert: the bootloader starts another image on the same pages.
ImageSwapped ==
  /\ mishaps < MaxMishaps /\ mishaps' = mishaps + 1
  /\ \E fw \in Firmwares \ {firmware} : Boot(flash, fw)

RunTask == \E s \in spawned : TaskSucceeds(s) \/ TaskFails(s) \/ TuningFails(s)

Next ==
  \/ ReceiveConfig
  \/ ReceiveMotorConfig
  \/ ReceiveCalibration
  \/ ReceiveCancelCalibration
  \/ ReceiveMode
  \/ Fault
  \/ CalibrationTick
  \/ RunTask
  \/ PowerLoss
  \/ ImageSwapped

Spec == Init /\ [][Next]_vars
=============================================================================
