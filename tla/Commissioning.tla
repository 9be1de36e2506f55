---------------------------- MODULE Commissioning ----------------------------
(***************************************************************************)
(* A calibration from its request to its end: the runner of                *)
(* firmware-core/src/app/calibration.rs with the two stages it drives, the *)
(* FOC interrupt that steps them, the tasks that answer them, and the      *)
(* motor on the bench.                                                     *)
(*                                                                         *)
(* The motor, its load and its hall sensors are external: the rotor        *)
(* follows the commanded angle within a dead band of friction, a sensor    *)
(* may be stuck, and an edge may bounce.                                   *)
(***************************************************************************)
EXTENDS CalibrationRunner, HallCalibrator, MotorEstimator

CONSTANTS
  HallTimeout,  \* hall_timeout_s, in ticks
  Sensors,      \* the hall sensors: the pattern read in each sector
  Frictions,    \* by how many half steps the rotor lags behind, forward and in reverse
  HallOffset,   \* the angle of the first hall edge
  Slopes,       \* half the change of the current in one tick at full voltage
  MaxBounces,   \* bound: bounces of hall edges
  MaxStarts     \* bound: calibrations

(***************************************************************************)
(* The pull of a current on the rotor is the strongest a quarter of a turn *)
(* ahead of it: a rotor that this does not move is locked.                 *)
(***************************************************************************)
Moves(friction) == friction.forward <= Turn \div 4 /\ friction.reverse <= Turn \div 4
IsLocked(friction) == friction.forward >= Turn \div 2 /\ friction.reverse >= Turn \div 2

ASSUME CommissioningAssumption ==
  /\ HallTimeout \in Nat /\ MaxBounces \in Nat /\ MaxStarts \in Nat
  /\ Sensors \subseteq [0 .. 5 -> Patterns]
  /\ Frictions \subseteq [forward : Nat, reverse : Nat]
  /\ \A friction \in Frictions : Moves(friction) \/ IsLocked(friction)
  /\ HallOffset \in Angles
  /\ Slopes \subseteq Nat

VARIABLES
  mode,     \* Calibration, or Idle or Fault
  phase,    \* the phase of the runner
  waited,   \* time_passed_s of the hall calibration
  hall,     \* the hall calibrator
  est,      \* the state of the motor estimator
  known,    \* the parameters in its estimate
  unwind,   \* should_unwind_controller
  result,   \* what the last step reported
  law,      \* what the last tick commanded
  loaded,   \* the closed loop that the integrators of FOC were accumulated in
  rotor,    \* the electrical angle of the rotor
  motor,    \* the sensors, the friction and the slope of the current
  current, volts,    \* on the axis under test: the current, and the last two signs of the voltage
  bounces, starts    \* so far

control == <<mode, phase, waited, hall, est, known, unwind, result, law, loaded>>
bench == <<rotor, motor, current, volts, bounces>>
vars == <<control, bench, starts>>

(***************************************************************************)
(* The closed loops that hold integrators, by the stage that runs them: a  *)
(* rotor lock before or after the hall calibration, the sweep, the spin.   *)
(***************************************************************************)
Loops == {"lock", "relock", "sweep", "spin"}
Laws == Loops \cup {"voltage", "none"}

EstimatorLaw(e) ==
  CASE e.state = "RotorLockWait" -> IF e.knows THEN "relock" ELSE "lock"
    [] e.state = "EstR" -> "lock"
    [] e.state \in {"EstF", "RampDown"} -> "spin"
    [] OTHER -> "voltage"

\* StageResult::clears_windup
ClearsWindup == {"HallCalibration", "UnwindRequest", "MotorParameters"} \cup CalibrationFailures

TypeOK ==
  /\ mode \in {"Idle", "Calibration", "Fault"}
  /\ phase \in Phases
  /\ waited \in 0 .. HallTimeout + 1
  /\ hall.table \in [1 .. 6 -> Angles]
  /\ hall.at.target \in Angles
  /\ hall.at.sweep \in {"Forward", "Reverse"} =>
       /\ hall.at.prev \in Patterns /\ hall.at.first \in Patterns \cup {NoPattern}
       /\ hall.at.edges \in 0 .. EdgesNeeded
  /\ est.state = "EstR" => est.block \in 0 .. Blocks - 1 /\ est.ran \in 0 .. TestTime - 1
  /\ est.state = "EstL" => est.ran \in 0 .. 2 * TestTime - 1 /\ est.plus + est.minus <= est.ran
  /\ est.state = "EstF" => est.samples <= TestTime
  /\ est.state = "Failure" => est.fault \in EstimationFailures
  /\ known \subseteq Measured
  /\ unwind \in BOOLEAN
  /\ result \in StageResults
  /\ law \in Laws /\ loaded \in Loops \cup {"none"}
  /\ rotor \in Angles
  /\ bounces \in 0 .. MaxBounces /\ starts \in 0 .. MaxStarts

Init ==
  /\ mode = "Idle" /\ phase = "ClearingExistingParameters"
  /\ waited = 0 /\ hall = Started
  /\ est = Off /\ known = {} /\ unwind = FALSE
  /\ result = "None" /\ law = "none" /\ loaded = "none"
  /\ rotor \in {0, Turn \div 2}
  /\ motor \in [sensor : Sensors, friction : Frictions, slope : Slopes]
  /\ current = 0 /\ volts = <<0, 0>>
  /\ bounces = 0 /\ starts = 0

-----------------------------------------------------------------------------
\* The bench.
SectorAt(angle) == Wrapped(angle - HallOffset) \div Sector
EdgeOf(sector) == Wrapped(HallOffset + sector * Sector)

\* The rotor stays where it is until it is pulled out of its dead band.
Dragged(target) ==
  LET pull == WrappedDiff(target, rotor)
  IN  IF pull > motor.friction.forward THEN Wrapped(target - motor.friction.forward)
      ELSE IF -pull > motor.friction.reverse THEN Wrapped(target + motor.friction.reverse)
      ELSE rotor

\* At an edge the sector the rotor has just left may be read once more.
Pattern(bounce) ==
  LET left == Wrapped(rotor + (IF hall.at.sweep = "Reverse" THEN Step ELSE -Step))
  IN  motor.sensor[SectorAt(IF bounce THEN left ELSE rotor)]

Bounces(bounce) ==
  /\ bounces' = IF bounce THEN bounces + 1 ELSE bounces
  /\ bounce => bounces < MaxBounces /\ Pattern(TRUE) # Pattern(FALSE)

\* di/dt spans the voltages commanded one and two ticks ago.
CurrentFlows(sign) ==
  /\ volts' = <<volts[2], sign>>
  /\ current' = current + motor.slope * (volts[2] + sign)
CurrentDecays == volts' = <<0, 0>> /\ current' = 0

-----------------------------------------------------------------------------
\* OperatingModeRequest Calibration: a new runner, and set_pi_gains(None) clears the windup.
StartCalibration ==
  /\ mode # "Calibration" /\ starts < MaxStarts
  /\ mode' = "Calibration" /\ phase' = "ClearingExistingParameters"
  /\ waited' = 0 /\ hall' = Started
  /\ est' = Off /\ known' = {} /\ unwind' = FALSE
  /\ result' = "None" /\ law' = "none" /\ loaded' = "none"
  /\ starts' = starts + 1
  /\ UNCHANGED bench

\* A cancel request, or any fault of the drive that is not the calibration's.
Stop ==
  /\ mode = "Calibration"
  /\ mode' \in {"Idle", "Fault"}
  /\ UNCHANGED <<phase, waited, hall, est, known, unwind, result, law, loaded, bench, starts>>

\* The task that a wait is for has succeeded: its resume, with the acknowledgement.
Resume ==
  /\ mode = "Calibration" /\ phase \in WaitPhases
  /\ phase' = Resumed(phase)
  /\ est' = CASE phase = "ClearingExistingParameters" -> RotorLockWait(FALSE)
              [] phase = "WaitingHallCompletion" -> AcknowledgeHall(est)
              [] OTHER -> AcknowledgeTuning(est, known)
  \* set_pi_gains with the tuned gains clears the windup, too
  /\ loaded' = IF phase = "WaitingTuning" THEN "none" ELSE loaded
  /\ unwind' = (unwind /\ phase # "ClearingExistingParameters")
  /\ CurrentDecays
  /\ UNCHANGED <<mode, waited, hall, known, result, law, rotor, motor, bounces, starts>>

\* store_motor_params has succeeded.
FinishCalibration ==
  /\ mode = "Calibration" /\ phase = "Done"
  /\ mode' = "Idle"
  /\ UNCHANGED <<phase, waited, hall, est, known, unwind, result, law, loaded, bench, starts>>

-----------------------------------------------------------------------------
(***************************************************************************)
(* The FOC interrupt.  FOC computes the law, clears its windup if the      *)
(* result of the step says so, and the estimator is given the currents     *)
(* unless there was a result.                                              *)
(***************************************************************************)
\* StageResult::Failure, the only result that changes the mode in the tick itself
Faulted(res) == IF res \in CalibrationFailures THEN "Fault" ELSE "Calibration"

Commands(res, newLaw) ==
  /\ result' = res /\ law' = newLaw
  /\ mode' = Faulted(res)
  /\ loaded' = IF res \in ClearsWindup THEN "none" ELSE IF newLaw \in Loops THEN newLaw ELSE loaded
  /\ starts' = starts /\ motor' = motor

EstimatorSteps(e) ==
  \E r \in EstimatorStep(e, current) :
    /\ est' = r.next
    /\ known' = known \cup r.found
    /\ unwind' = (unwind \/ r.unwinds)
    /\ IF e.state = "EstL" /\ r.next.state = "EstL" /\ e.axis = r.next.axis THEN CurrentFlows(e.sign)
       ELSE IF e.state = "RotorLockWait" THEN current' = TargetCurrent /\ volts' = <<0, 0>>
       ELSE CurrentDecays

\* The step has ended with a result: neither stage moves on.
Reports(res, newPhase) ==
  /\ Commands(res, "voltage")
  /\ phase' = newPhase
  /\ CurrentDecays
  /\ UNCHANGED <<hall, est, known, rotor, bounces>>

\* A mutant of HallTimesOut: the sweep may take for ever.
HallNeverTimesOut == FALSE

HallTimesOut == waited + 1 > HallTimeout

HallTick ==
  /\ phase = "HallCalibration"
  /\ waited' = waited + 1 /\ unwind' = unwind
  /\ \/ /\ HallTimesOut
        /\ Reports("CalibrationTimeout", phase)
     \/ /\ ~HallTimesOut /\ HallDone(hall)
        /\ Reports("HallCalibration", "WaitingHallCompletion")
     \/ /\ ~HallTimesOut /\ ~HallDone(hall)
        /\ \E bounce \in BOOLEAN :
             LET pattern == Pattern(bounce)
             IN  IF Disagrees(hall, pattern)
                 THEN ~bounce /\ Reports("HallEdgeDisagreement", phase)
                 ELSE /\ Bounces(bounce)
                      /\ hall' = HallStep(hall, pattern)
                      /\ rotor' = Dragged(hall'.at.target)
                      /\ Commands("None", "sweep")
                      /\ CurrentDecays
                      /\ UNCHANGED <<phase, est, known>>

\* A mutant of Request: the hall sensors are calibrated before the controller is unwound.
RequestHallFirst ==
  IF est.state = "Failure" THEN "fault"
  ELSE IF est = Done THEN "done"
  ELSE IF est = HallCalibrationRequired THEN "hall"
  ELSE IF unwind THEN "unwind"
  ELSE IF est = TuningRequired THEN "tune"
  ELSE "none"

\* Which of its requests the estimator is asked for first.
Request ==
  IF est.state = "Failure" THEN "fault"
  ELSE IF est = Done THEN "done"
  ELSE IF unwind THEN "unwind"
  ELSE IF est = TuningRequired THEN "tune"
  ELSE IF est = HallCalibrationRequired THEN "hall"
  ELSE "none"

HallRequested ==
  /\ Commands("None", "voltage")
  /\ IF HasHall
     THEN phase' = "HallCalibration" /\ hall' = Started /\ waited' = 0 /\ UNCHANGED <<est, known, unwind>> /\ CurrentDecays
     ELSE EstimatorSteps(AcknowledgeHall(est)) /\ UNCHANGED <<phase, hall, waited>>
  /\ UNCHANGED <<rotor, bounces>>

Estimates ==
  /\ Commands("None", EstimatorLaw(est))
  /\ EstimatorSteps(est)
  /\ rotor' = IF law' \in {"lock", "relock"} THEN Dragged(0) ELSE rotor
  /\ UNCHANGED <<phase, hall, bounces>>

EstimationTick ==
  /\ phase = "MotorEstimation"
  /\ Request # "hall" => waited' = waited
  /\ CASE Request = "fault" -> Reports(est.fault, "Done") /\ unwind' = unwind
       [] Request = "done" -> Reports("MotorParameters", "Done") /\ unwind' = unwind
       [] Request = "unwind" -> Reports("UnwindRequest", phase) /\ unwind' = FALSE
       [] Request = "tune" -> Reports("TuningRequest", "WaitingTuning") /\ unwind' = unwind
       [] Request = "hall" -> HallRequested
       [] OTHER -> Estimates

\* In a wait phase the gate is closed and the outcome, not being Normal, clears the windup.
WaitingTick ==
  /\ phase \in WaitPhases
  /\ result' = "None" /\ law' = "none" /\ loaded' = "none"
  /\ CurrentDecays
  /\ UNCHANGED <<mode, phase, waited, hall, est, known, unwind, rotor, motor, bounces, starts>>

DoneTick ==
  /\ phase = "Done"
  /\ Commands("None", "voltage")
  /\ CurrentDecays
  /\ UNCHANGED <<phase, waited, hall, est, known, unwind, rotor, bounces>>

Tick == mode = "Calibration" /\ (HallTick \/ EstimationTick \/ WaitingTick \/ DoneTick)

Task == Resume \/ FinishCalibration

Next == StartCalibration \/ Stop \/ Task \/ Tick

Spec == Init /\ [][Next]_vars

\* The interrupt is periodic, and the executor runs the tasks that are spawned.
FairSpec == Spec /\ WF_vars(Tick) /\ WF_vars(Task)
=============================================================================
