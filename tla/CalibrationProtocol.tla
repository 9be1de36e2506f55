------------------------- MODULE CalibrationProtocol -------------------------
(***************************************************************************)
(* What a calibration promises to the rest of the drive: its stages come   *)
(* in order, each once, every wait is entered with what its task needs,    *)
(* and it is done only with a complete set of parameters.  Parameters      *)
(* relies on it, and Commissioning implements it.                          *)
(***************************************************************************)
EXTENDS CalibrationRunner

CONSTANT All  \* the parameters of a motor

VARIABLES
  phase,  \* the phase of the calibration, or NotCalibrating
  stage,  \* what the estimator works towards: hall, tuning, done, or failed
  known   \* the parameters measured

vars == <<phase, stage, known>>

NotCalibrating == "NotCalibrating"

Init == phase = NotCalibrating /\ stage = "hall" /\ known = {}

Start == phase = NotCalibrating /\ phase' = "ClearingExistingParameters" /\ stage' = "hall" /\ known' = {}

Abandon == phase # NotCalibrating /\ phase' = NotCalibrating /\ UNCHANGED <<stage, known>>

Cleared == phase = "ClearingExistingParameters" /\ phase' = "MotorEstimation" /\ UNCHANGED <<stage, known>>

\* More is known, or the stage has failed.
Measure ==
  /\ phase = "MotorEstimation" /\ phase' = phase
  /\ known \subseteq known' /\ known' \subseteq All
  /\ stage' \in {stage, "failed"}

HallStage ==
  \/ /\ phase = "MotorEstimation" /\ stage = "hall" /\ "stator_resistance" \in known
     /\ IF HasHall THEN phase' = "HallCalibration" /\ stage' = stage
        ELSE phase' = phase /\ stage' = "tuning"
     /\ known' = known
  \/ phase = "HallCalibration" /\ phase' = "WaitingHallCompletion" /\ UNCHANGED <<stage, known>>
  \/ phase = "WaitingHallCompletion" /\ phase' = "MotorEstimation" /\ stage' = "tuning" /\ known' = known

TuningStage ==
  \/ /\ phase = "MotorEstimation" /\ stage = "tuning"
     /\ {"stator_resistance", "d_inductance", "q_inductance"} \subseteq known
     /\ phase' = "WaitingTuning" /\ UNCHANGED <<stage, known>>
  \/ phase = "WaitingTuning" /\ phase' = "MotorEstimation" /\ stage' = "done" /\ known' = known

Complete ==
  /\ phase = "MotorEstimation" /\ stage = "done" /\ known = All
  /\ phase' = "Done" /\ UNCHANGED <<stage, known>>

Next == Start \/ Abandon \/ Cleared \/ Measure \/ HallStage \/ TuningStage \/ Complete

Spec == Init /\ [][Next]_vars
=============================================================================
