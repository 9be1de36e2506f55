-------------------------- MODULE CalibrationRunner --------------------------
(***************************************************************************)
(* firmware-core/src/app/calibration.rs: the phases of the calibration     *)
(* runner.  The two stages it drives, the hall calibrator and the motor    *)
(* estimator, are traits of the source; here they answer anything their    *)
(* interface allows, so a step is a set of possible outcomes.              *)
(***************************************************************************)

CONSTANT HasHall  \* the build has the hall-feedback feature

ASSUME HasHallAssumption == HasHall \in BOOLEAN

\* CalibrationPhase
Phases == {"ClearingExistingParameters", "HallCalibration", "MotorEstimation",
           "WaitingHallCompletion", "WaitingTuning", "Done"}

\* The phases in which the runner waits for a deferred task and must not be stepped.
WaitPhases == {"ClearingExistingParameters", "WaitingHallCompletion", "WaitingTuning"}

\* The fault causes a StageResult::Failure converts to (faults.rs).
HallFailures == {"CalibrationTimeout", "HallEdgeDisagreement"}
EstimationFailures ==
  {"MissingMotorParams", "EstimationOverflow", "EstimationInsufficientSamples",
   "EstimationDegenSolution", "EstimationParameterOutOfBounds",
   "EstimationTargetCurrentUnreachable"}
CalibrationFailures == HallFailures \cup EstimationFailures

\* StageResult; a failure is named by its fault cause, "None" is no result.
StageResults ==
  {"None", "HallCalibration", "UnwindRequest", "TuningRequest", "MotorParameters"}
    \cup CalibrationFailures

Outcome(phase, result) == [phase |-> phase, result |-> result]

\* CalibrationRunner::step, for the failures a run lets the stages report.
CalibrationStep(phase, failures) ==
  CASE phase = "HallCalibration" ->
         {Outcome(phase, f) : f \in failures \cap HallFailures}
           \cup {Outcome("WaitingHallCompletion", "HallCalibration"), Outcome(phase, "None")}
    [] phase = "MotorEstimation" ->
         {Outcome("Done", f) : f \in failures \cap EstimationFailures}
           \cup {Outcome("Done", "MotorParameters"),
                 Outcome(phase, "UnwindRequest"),
                 Outcome("WaitingTuning", "TuningRequest"),
                 Outcome(phase, "None")}
           \* should_calibrate_hall: a build without hall feedback acknowledges at once
           \cup (IF HasHall THEN {Outcome("HallCalibration", "None")} ELSE {})
    [] OTHER -> {Outcome(phase, "None")}

\* A mutant of Resumed: the wait for tuning is forgotten.
ResumedHallOnly(phase) == IF phase \in WaitPhases \ {"WaitingTuning"} THEN "MotorEstimation" ELSE phase

\* CalibrationRunner::resume
Resumed(phase) == IF phase \in WaitPhases THEN "MotorEstimation" ELSE phase
=============================================================================
