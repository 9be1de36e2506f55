-------------------------- MODULE RotorProperties --------------------------
(***************************************************************************)
(* What the feedback path owes the current controller.                     *)
(***************************************************************************)
EXTENDS RotorFeedback

Reports == -TopSpeed .. TopSpeed
Results == {None, Err} \cup {Ok(w, right) : w \in Reports, right \in BOOLEAN}
Tests == [state : {"Init", "Settling", "Testing", "Done", "Fault"},
          ticks : 0 .. LockDwell + TestTicks, sum : -TestTicks .. TestTicks,
          elapsed : 0 .. TestTimeout + 3]

\* Every variable has its type.
TypeOK ==
  /\ bench \in {"edges", "speeds"}
  /\ rotor \in [pattern : Patterns, table : Tables]
  /\ timer \in [prev : Patterns \cup Glitches, pattern : Patterns \cup Glitches]
  /\ est \in [table : Tables \cup {NotCalibrated}, state : Modes,
              prev_pattern : Patterns \cup {0}, prev_dir : Directions]
  /\ truth \in [dir : Directions, run : 0 .. 2, gap : 0 .. 2, doubt : BOOLEAN]
  /\ speed \in Speeds
  /\ setup \in Setups
  /\ control \in Controls
  /\ injecting \in BOOLEAN
  /\ sal \in [fault : BOOLEAN, omega : Reports, right : BOOLEAN, test : Tests]
  /\ arb \in [hall : Results, sensorless : Results, hall_pattern : Patterns \cup {0},
              blend_omega : Reports]

\* On the first bench whatever the hall sensors report is right.
HallTracks == bench = "edges" /\ IsOk(Read(arb)) => Read(arb).right

\* While torque is controlled, the estimate in use is one that is right at the rotor's speed.
SensorlessTracks == control = "torque" /\ IsOk(Read(arb)) => Read(arb).right

(***************************************************************************)
(* The feedback that FeedbackArbitrator::read hands the current controller *)
(* follows the rotor.  From the hall sensors, through glitches, skipped    *)
(* edges, reversals and recalibrations: an angle in the sector they show,  *)
(* and a speed only of a rotor whose last two edges went that way.  In     *)
(* torque control, through speeds up and down, lost and regained hall      *)
(* feedback and every way to start and stop: no estimate has a weight      *)
(* where it is wrong, the poles included.                                  *)
(***************************************************************************)
FeedbackTracks == HallTracks /\ SensorlessTracks

(***************************************************************************)
(* The polarity test that a torque request starts with ends: in torque     *)
(* control, or with a fault (SaliencyPolarityTest in foc_step).  A loop    *)
(* that never locks, a rotor without saliency and missing parameters all   *)
(* run into the timeout of the test or abort it.                           *)
(***************************************************************************)
PolarityTestEnds == control = "testing" ~> control # "testing"
=============================================================================
