------------------------- MODULE SaliencyEstimator -------------------------
(***************************************************************************)
(* The low speed estimator: the polarity test of                           *)
(* field-oriented/src/estimation/utils.rs and the estimator of             *)
(* field-oriented/src/estimation/sinusoidal_pulsing.rs around it.          *)
(*                                                                         *)
(* The signals are abstract: whether the loop is within its tolerance,     *)
(* and which way the saturation of the iron pulls.  The angle of the       *)
(* locked loop is right, or it is not (half a turn off).                   *)
(***************************************************************************)
EXTENDS Arbitration

CONSTANTS
  LockDwell,    \* lock_dwell_ticks
  TestTicks,    \* test_ticks
  TestTimeout   \* timeout_ticks

ASSUME SaliencyAssumption ==
  /\ LockDwell \in Nat \ {0}
  /\ TestTicks \in Nat \ {0}
  /\ TestTimeout \in Nat

\* PolarityTest::reset
ResetTest(polarity_known) ==
  [state |-> IF polarity_known THEN "Done" ELSE "Init", ticks |-> 0, sum |-> 0, elapsed |-> 0]

\* PolarityTest::verdict
Verdict(test) ==
  CASE test.state = "Done" -> "found"
    [] test.state = "Fault" -> "failed"
    [] OTHER -> "open"

AbortTest(test) == IF Verdict(test) = "open" THEN [test EXCEPT !.state = "Fault"] ELSE test

\* A mutant of TimedOut: a test has all the time it wants.
Patient(elapsed) == FALSE
TimedOut(elapsed) == elapsed > TestTimeout

\* A mutant of Elapsed: only the ticks that observe something are counted.
ObservedTicks(test, observed) == IF observed THEN test.elapsed + 1 ELSE test.elapsed
Elapsed(test, observed) == test.elapsed + 1

\* An unfinished state of the test waits on, until its time is up.
Wait(test, elapsed, state, ticks, sum) ==
  IF TimedOut(elapsed)
  THEN [test EXCEPT !.state = "Fault", !.ticks = 0, !.sum = 0, !.elapsed = elapsed]
  ELSE [state |-> state, ticks |-> ticks, sum |-> sum, elapsed |-> elapsed]

(***************************************************************************)
(* PolarityTest::step, of a test that is under way: observed is whether    *)
(* there is an error signal, locked whether it is within tolerance, pull   *)
(* what this tick adds to the sum.                                         *)
(***************************************************************************)
StepTest(test, observed, locked, pull) ==
  LET elapsed == Elapsed(test, observed)
      dwelt == IF observed /\ locked THEN test.ticks + 1 ELSE 0
      tested == IF observed THEN test.ticks + 1 ELSE 0
      sum == IF observed THEN test.sum + pull ELSE 0
      Begin(state) == [state |-> state, ticks |-> 0, sum |-> 0, elapsed |-> elapsed]
  IN CASE test.state = "Init" ->
            IF observed THEN Begin("Settling") ELSE Wait(test, elapsed, "Init", 0, 0)
       [] test.state = "Settling" ->
            IF dwelt >= LockDwell THEN Begin("Testing") ELSE Wait(test, elapsed, "Settling", dwelt, 0)
       [] test.state = "Testing" ->
            IF tested >= TestTicks THEN Begin(IF sum = 0 THEN "Fault" ELSE "Done")
            ELSE Wait(test, elapsed, "Testing", tested, sum)

\* The correction of the angle: half a turn when the iron pulled the other way.
TurnsOver(test, observed, pull) ==
  /\ test.state = "Testing"
  /\ observed /\ test.ticks + 1 >= TestTicks
  /\ test.sum + pull < 0

\* SinusoidalPulsingEstimator: fault, the loop (its speed and whether its angle is right), the test.
\* Its angle is anyone's guess when nothing seeds it.
ResetSaliency(seed, guess) ==
  [fault |-> FALSE,
   omega |-> IF IsOk(seed) THEN seed.omega ELSE 0,
   right |-> IF IsOk(seed) THEN seed.right ELSE guess,
   test |-> ResetTest(IsOk(seed))]

\* Locked onto the rotor: the speed is the one of the rotor, within what the loop is held to.
Injected(sal, speed, locked, pull) ==
  LET open == Verdict(sal.test) = "open"
      turn == open /\ TurnsOver(sal.test, TRUE, pull)
  IN [fault |-> FALSE, omega |-> Clamped(speed),
      right |-> IF turn THEN ~sal.right ELSE sal.right,
      test |-> IF open THEN StepTest(sal.test, TRUE, locked, pull) ELSE sal.test]

\* Without injection the loop is slaved to the feedback in use.
Slaved(sal, used) ==
  LET test == IF Verdict(sal.test) = "open" THEN StepTest(sal.test, FALSE, FALSE, 0) ELSE sal.test
  IN [fault |-> test.state # "Init", omega |-> used.omega, right |-> used.right, test |-> test]

MissingParameter(sal) == [sal EXCEPT !.fault = TRUE, !.test = AbortTest(@)]

ReadSaliency(sal) == IF sal.fault THEN Err ELSE Ok(sal.omega, sal.right)
=============================================================================
