--------------------------- MODULE MotorEstimator ---------------------------
(***************************************************************************)
(* field-oriented/src/commission/motor_estimation.rs: the tests that       *)
(* measure the motor.  Time is counted in ticks; what a test computes from *)
(* its samples is reduced to whether it has enough of them and to the      *)
(* verdict on the result, which is left open.                              *)
(*                                                                         *)
(* The inductance test alone keeps its currents: it flips a square wave by *)
(* the current it measures, and only samples between two flips are valid.  *)
(***************************************************************************)
EXTENDS Integers, Sequences

CONSTANTS
  SettleTime, TestTime, SpinTime,  \* settle_time_s, test_time_s, max_spin_time_s, in ticks
  TargetCurrent,                   \* calibration_current_a, in steps of the current
  MinSamples                       \* MIN_SOLVE_SAMPLES

ASSUME MotorEstimatorAssumption ==
  /\ {SettleTime, TestTime, SpinTime} \subseteq Nat \ {0}
  /\ TargetCurrent \in Nat \ {0} /\ MinSamples \in Nat

Blocks == 4  \* EST_R_BLOCKS
Measured == {"stator_resistance", "deadtime_ratio", "d_inductance", "q_inductance", "pm_flux_linkage"}

\* The states of the estimator.
Off == [state |-> "Off"]
RotorLockWait(knowsResistance) == [state |-> "RotorLockWait", ran |-> 0, knows |-> knowsResistance]
EstR == [state |-> "EstR", block |-> 0, ran |-> 0, reached |-> FALSE, levels |-> <<0, 0>>]
EstL(axis, current) ==
  [state |-> "EstL", axis |-> axis, ran |-> 0, sign |-> 1, flips |-> 0,
   applied |-> <<0, 0>>, prev |-> current, plus |-> 0, minus |-> 0, sum |-> 0]
HallCalibrationRequired == [state |-> "HallCalibrationRequired"]
TuningRequired == [state |-> "TuningRequired"]
EstF == [state |-> "EstF", ran |-> 0, samples |-> 0]
RampDown(pending) == [state |-> "RampDown", ran |-> 0, pending |-> pending]
Failure(fault) == [state |-> "Failure", fault |-> fault]
Done == [state |-> "Done"]

\* StepResult: the next state, what was measured, and whether the controller must be unwound.
StepResult(next, found, unwinds) == [next |-> next, found |-> found, unwinds |-> unwinds]
Goes(next) == StepResult(next, {}, FALSE)
Fails(fault) == StepResult(Failure(fault), {}, TRUE)

RotorLockWaitStep(e, current) ==
  IF e.ran + 1 < SettleTime THEN {Goes([e EXCEPT !.ran = @ + 1])}
  ELSE {Goes(IF e.knows THEN EstL("d", current) ELSE EstR)}

\* A mutant of EstRWaits: when the time is up the wait starts again.
EstRRetries(e) ==
  {Goes([e EXCEPT !.ran = 0, !.reached = TRUE]), Goes([e EXCEPT !.ran = (@ + 1) % TestTime])}

(***************************************************************************)
(* Each block first waits for the current to reach its target, then        *)
(* averages over a part of the test's time.                                *)
(***************************************************************************)
EstRWaits(e) ==
  {Goes([e EXCEPT !.ran = 0, !.reached = TRUE]),
   IF e.ran + 1 >= TestTime THEN Fails("EstimationTargetCurrentUnreachable")
   ELSE Goes([e EXCEPT !.ran = @ + 1])}

EstRSolved(levels) ==
  IF \E l \in DOMAIN levels : levels[l] < MinSamples
  THEN {Fails("EstimationInsufficientSamples")}
  ELSE {Fails("EstimationDegenSolution"), Fails("EstimationParameterOutOfBounds"),
        StepResult(HallCalibrationRequired, {"stator_resistance", "deadtime_ratio"}, TRUE)}

EstRStep(e) ==
  LET levels == [e.levels EXCEPT ![(e.block % 2) + 1] = @ + 1]
  IN  IF ~e.reached THEN EstRWaits(e)
      ELSE IF Blocks * (e.ran + 1) < TestTime
      THEN {Goes([e EXCEPT !.ran = @ + 1, !.levels = levels])}
      ELSE IF e.block + 1 < Blocks
      THEN {Goes([EstR EXCEPT !.block = e.block + 1, !.levels = levels])}
      ELSE EstRSolved(levels)

-----------------------------------------------------------------------------
\* A mutant of ValidSample: the sign commanded now is taken for the last one applied.
ValidSampleEarly(e) == e.flips > 0 /\ e.applied[2] = e.sign

\* A sample is valid between two flips of the voltage: di/dt spans the last two signs.
ValidSample(e) == e.flips > 0 /\ e.applied[1] # 0 /\ e.applied[1] = e.applied[2]

Sampled(e, current) ==
  LET late == e.applied[2]
  IN  IF ValidSample(e)
      THEN [e EXCEPT !.plus = IF late > 0 THEN @ + 1 ELSE @,
                     !.minus = IF late < 0 THEN @ + 1 ELSE @,
                     !.sum = @ + late * (current - e.prev)]
      ELSE e

\* The current, and the change predicted for the delay of the voltage, is beyond the target.
Flips(e, current) == e.sign * (2 * current + 3 * (current - e.prev)) >= 2 * TargetCurrent

\* A mutant of WholePeriods: the half periods need not come in pairs.
HalfPeriods(flips) == flips - 1 >= 2

\* The resistance cancels over whole periods only; the half before the first flip does not count.
WholePeriods(flips) == flips - 1 >= 2 /\ (flips - 1) % 2 = 0

EstLSolved(e) ==
  IF e.plus + e.minus < MinSamples THEN {Fails("EstimationInsufficientSamples")}
  ELSE {Fails("EstimationOverflow"), Fails("EstimationDegenSolution"),
        Fails("EstimationParameterOutOfBounds"),
        IF e.axis = "d" THEN StepResult(EstL("q", 0), {"d_inductance"}, FALSE)
        ELSE StepResult(TuningRequired, {"q_inductance"}, FALSE)}

EstLStep(e, current) ==
  LET ran == e.ran + 1
      sampled == [Sampled(e, current) EXCEPT
                    !.ran = ran, !.prev = current, !.applied = <<e.applied[2], e.sign>>]
      flipped == [sampled EXCEPT !.sign = -@, !.flips = @ + 1]
  IN  IF ran >= 2 * TestTime THEN {Fails("EstimationInsufficientSamples")}
      ELSE IF ~Flips(e, current) THEN {Goes(sampled)}
      ELSE IF ran >= TestTime /\ WholePeriods(flipped.flips) THEN EstLSolved(sampled)
      ELSE {Goes(flipped)}

\* The voltage is too low for the current, which shows before the first sample.
EstLRefuses(e) == IF e.ran = 0 THEN {Fails("EstimationTargetCurrentUnreachable")} ELSE {}

-----------------------------------------------------------------------------
NoFault == "None"

EstFStep(e) ==
  LET ran == e.ran + 1
      samples == IF e.ran < SpinTime THEN e.samples ELSE e.samples + 1
  IN  IF ran < SpinTime + TestTime THEN {Goes([e EXCEPT !.ran = ran, !.samples = samples])}
      ELSE IF samples < MinSamples THEN {Goes(RampDown("EstimationInsufficientSamples"))}
      ELSE {Goes(RampDown("EstimationDegenSolution")), Goes(RampDown(NoFault))}

\* A mutant of RampDownStep: the fault of the measurement is forgotten during the ramp.
RampDownForgets(e) ==
  IF e.ran + 1 < TestTime THEN {Goes([e EXCEPT !.ran = @ + 1])}
  ELSE {StepResult(Done, IF e.pending = NoFault THEN {"pm_flux_linkage"} ELSE {}, TRUE)}

RampDownStep(e) ==
  IF e.ran + 1 < TestTime THEN {Goes([e EXCEPT !.ran = @ + 1])}
  ELSE IF e.pending # NoFault THEN {Fails(e.pending)}
  ELSE {Fails("EstimationParameterOutOfBounds"), StepResult(Done, {"pm_flux_linkage"}, TRUE)}

\* after_foc_iteration
EstimatorStep(e, current) ==
  CASE e.state = "RotorLockWait" -> RotorLockWaitStep(e, current)
    [] e.state = "EstR" -> EstRStep(e)
    [] e.state = "EstL" -> EstLStep(e, current) \cup EstLRefuses(e)
    [] e.state = "EstF" -> EstFStep(e)
    [] e.state = "RampDown" -> RampDownStep(e)
    [] OTHER -> {Goes(e)}

AcknowledgeHall(e) == IF e = HallCalibrationRequired THEN RotorLockWait(TRUE) ELSE e

AcknowledgeTuning(e, known) ==
  IF e # TuningRequired THEN e
  ELSE IF {"d_inductance", "q_inductance"} \subseteq known THEN EstF
  ELSE Failure("MissingMotorParams")
=============================================================================
