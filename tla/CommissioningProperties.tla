----------------------- MODULE CommissioningProperties -----------------------
(***************************************************************************)
(* What a calibration promises.                                            *)
(***************************************************************************)
EXTENDS Commissioning, Functions

(***************************************************************************)
(* A hall calibration that is accepted is right: for every edge that the   *)
(* sensors show, the table holds the angle of that edge to half a sector,  *)
(* whatever the friction is and however often edges bounce                 *)
(* (hall_calibration.rs, "If the forward and reverse values differ         *)
(* significantly, reject the calibration").  With a stuck sensor, which    *)
(* may pass, too, an edge is averaged more than once on the way back, and  *)
(* the angle is right to less than one sector.                             *)
(***************************************************************************)
Healthy(sensor) == Range(sensor) = 1 .. 6

HallTableAccurate ==
  result = "HallCalibration" =>
    \A k \in 0 .. 5 :
      LET pattern == motor.sensor[k]
          bound == IF Healthy(motor.sensor) THEN Sector \div 2 ELSE Sector - 1
      IN  motor.sensor[(k - 1) % 6] # pattern =>
            Size(WrappedDiff(hall.table[Entry(pattern)], EdgeOf(k))) <= bound

(***************************************************************************)
(* An inductance is computed from clean samples only: every one shows the  *)
(* full slope of the current, none spans a flip of the voltage, and both   *)
(* signs have as many but for two samples at the ends of the test, however *)
(* long it is, so that the resistance cancels (motor_estimation.rs, "The R *)
(* term will only cancel with data from symmetric excitation").            *)
(***************************************************************************)
InductanceUnbiased ==
  [][known' \cap {"d_inductance", "q_inductance"} \subseteq known \/
     LET s == Sampled(est, current)
     IN  mode = "Calibration" /\ starts' = starts =>
           /\ Size(s.plus - s.minus) <= 2
           /\ s.sum = 2 * motor.slope * (s.plus + s.minus)]_vars

(***************************************************************************)
(* A closed loop of the calibration never starts from the integrators of   *)
(* another stage: between two of them the controller was unwound, by the   *)
(* unwind request, a stage result, the wait for a task or the new gains.   *)
(***************************************************************************)
LoopsStartUnwound == [][law' \in Loops => loaded \in {"none", law'}]_vars

\* What the estimator works towards, for the protocol.
StageOf(e) ==
  CASE e.state = "Failure" -> "failed"
    [] e.state \in {"Off", "EstR", "HallCalibrationRequired"} -> "hall"
    [] e.state = "RotorLockWait" -> IF e.knows THEN "tuning" ELSE "hall"
    [] e.state \in {"EstL", "TuningRequired"} -> "tuning"
    [] OTHER -> "done"

Protocol == INSTANCE CalibrationProtocol WITH
  All <- Measured,
  phase <- IF mode = "Calibration" THEN phase ELSE "NotCalibrating",
  stage <- StageOf(est)

(***************************************************************************)
(* A calibration implements the protocol that the drive relies on: its     *)
(* stages in order, its waits with what their tasks need, and its end with *)
(* a complete motor only.                                                  *)
(***************************************************************************)
KeepsProtocol == Protocol!Spec

(***************************************************************************)
(* Every calibration ends: no test, sweep or wait lasts for ever, whatever *)
(* the motor and its sensors do (locked rotor, open phase, stuck sensor).  *)
(***************************************************************************)
CalibrationEnds == mode = "Calibration" ~> mode # "Calibration"
=============================================================================
