--------------------------- MODULE RotorFeedback ---------------------------
(***************************************************************************)
(* The feedback path of the FOC interrupt (firmware/src/tasks/foc.rs): the *)
(* arbitrator is read, foc_step settles the polarity test with it, the     *)
(* estimators run on the tick or are reset, and the arbitrator is updated  *)
(* for the next tick.                                                      *)
(*                                                                         *)
(* Two questions are asked of it, each on a bench of its own, chosen at    *)
(* the start.  On "edges" the drive is off and the rotor goes from hall    *)
(* edge to hall edge, any number of them between two ticks.  On "speeds"   *)
(* the drive starts, runs and stops while the rotor is faster or slower    *)
(* from tick to tick; its hall sensors, when it has them, are the right    *)
(* ones of the first bench or fail.                                        *)
(*                                                                         *)
(* External: the rotor, the hall timer, the flux estimator, and that a     *)
(* saliency loop under injection tracks the rotor.                         *)
(***************************************************************************)
EXTENDS HallEstimator, SaliencyEstimator

CONSTANTS
  Tables,    \* the calibration tables of the hall sensors
  TopSpeed,  \* bound: the fastest rotor
  Backward   \* bound: the fastest rotor in reverse; the two directions are alike

\* The six sectors of a rotor are not empty.  Two ticks do not take it across the blend.
ASSUME RotorFeedbackAssumption ==
  /\ TopSpeed \in Nat /\ TopSpeed > HighSpeed
  /\ HighSpeed >= LowSpeed + 2
  /\ Backward \in 0 .. TopSpeed
  /\ Turn \in Nat \ {0}
  /\ Tables \subseteq [Patterns -> Angles]
  /\ \A table \in Tables : \A p, q \in Patterns : table[p] = table[q] => p = q

VARIABLES
  bench,     \* which question is asked
  \* the hall sensors
  rotor,     \* the pattern of the sector that the rotor is in, and the true table
  timer,     \* HallSensor: the last two patterns it captured
  est,       \* HallEstimator
  truth,     \* the direction of the last edge, edges in a row with it, edges since the last estimate
  \* the drive
  speed,     \* of the rotor
  setup,     \* whether there are hall sensors and motor parameters, and the signal of the injection
  control,   \* off, testing the polarity, torque, or safety: a ramp down
  injecting, \* prev_foc_result.is_injecting
  sal,       \* SinusoidalPulsingEstimator
  arb        \* FeedbackArbitrator

hallVars == <<rotor, timer, est, truth>>
driveVars == <<speed, setup, control, injecting, sal>>
vars == <<bench, hallVars, driveVars, arb>>

Speeds == -Backward .. TopSpeed
\* The estimators are right a little beyond the thresholds that their weights end at.
TopTracked == HighSpeed + 1
LeastObserved == LowSpeed - 1
Controls == {"off", "testing", "torque", "safety"}
\* hfi_startup_amplitude_v and hfi_amplitude_v, and a rotor that shows them: when a signal is seen.
Signals == {"never", "testing", "always"}
Setups == [hall : BOOLEAN, parameters : BOOLEAN, signal : Signals]
Glitches == {0, 7}
\* As far as the timer may have the rotor go on after an edge: beyond any sector.
Travels == 0 .. Turn \div 3

Init ==
  /\ bench \in {"edges", "speeds"}
  /\ rotor \in [pattern : Patterns, table : Tables]
  /\ bench = "speeds" => rotor = [pattern |-> 1, table |-> CHOOSE t \in Tables : TRUE]
  /\ timer = [prev |-> 0, pattern |-> rotor.pattern]
  /\ est \in {NewHallEstimator, SetCalibration(NewHallEstimator, rotor.table)}
  /\ bench = "speeds" => est = NewHallEstimator
  /\ truth = [dir |-> 0, run |-> 0, gap |-> 0, doubt |-> FALSE]
  /\ speed = 0
  /\ setup \in Setups
  /\ bench = "edges" => setup = [hall |-> TRUE, parameters |-> TRUE, signal |-> "always"]
  /\ control = "off"
  /\ injecting = FALSE
  /\ sal = ResetSaliency(None, FALSE)
  /\ arb = NewArbitrator

-----------------------------------------------------------------------------
(***************************************************************************)
(* The rotor and the timer of the hall sensors, between two ticks.         *)
(***************************************************************************)
Neighbour(dir) ==
  IF dir = 1 THEN ForwardNext(rotor.table, rotor.pattern)
  ELSE CHOOSE p \in Patterns : ForwardNext(rotor.table, p) = rotor.pattern

AtMostTwo(n) == IF n > 2 THEN 2 ELSE n

Turned(dir) == [truth EXCEPT !.dir = dir, !.run = IF @ > 0 /\ truth.dir = dir THEN 2 ELSE 1,
                             !.gap = AtMostTwo(@ + 1)]

\* hall_isr: HallSensor::on_interrupt
Captured(pattern) == [prev |-> timer.pattern, pattern |-> pattern]

Edge(dir) ==
  /\ bench = "edges"
  /\ rotor' = [rotor EXCEPT !.pattern = Neighbour(dir)]
  /\ timer' = Captured(rotor'.pattern)
  /\ truth' = Turned(dir)
  /\ UNCHANGED <<bench, est, driveVars, arb>>

Forward == Edge(1)
Reverse == Edge(-1)

\* Two edges so close that the timer saw them as one.
SkippedEdge ==
  /\ bench = "edges"
  /\ rotor' = [rotor EXCEPT !.pattern = ForwardNext(rotor.table, Neighbour(1))]
  /\ timer' = Captured(rotor'.pattern)
  /\ truth' = [truth EXCEPT !.dir = 1, !.run = 2, !.gap = AtMostTwo(@ + 1)]
  /\ UNCHANGED <<bench, est, driveVars, arb>>

\* The lines disturbed for a while: a pattern that no sector has, and back.
Glitch ==
  /\ bench = "edges"
  /\ timer.pattern = rotor.pattern
  /\ \E p \in Glitches : timer' = Captured(p)
  /\ truth' = [truth EXCEPT !.gap = AtMostTwo(@ + 1)]
  /\ UNCHANGED <<bench, rotor, est, driveVars, arb>>

GlitchEnds ==
  /\ bench = "edges"
  /\ timer.pattern # rotor.pattern
  /\ timer' = Captured(rotor.pattern)
  /\ truth' = [truth EXCEPT !.gap = AtMostTwo(@ + 1)]
  /\ UNCHANGED <<bench, rotor, est, driveVars, arb>>

\* A hall calibration starts, and its table is stored.
CalibrationStarts ==
  /\ bench = "edges"
  /\ est.table # NotCalibrated
  /\ est' = Invalidate(est)
  /\ UNCHANGED <<bench, rotor, timer, truth, driveVars, arb>>

TableStored ==
  /\ bench = "edges"
  /\ est.table = NotCalibrated
  /\ est' = SetCalibration(est, rotor.table)
  /\ UNCHANGED <<bench, rotor, timer, truth, driveVars, arb>>

-----------------------------------------------------------------------------
\* What a correct estimate of the hall sensors is: in the sector they show, and a speed only of a
\* rotor whose last two edges went that way; except that one tick cannot tell several edges apart.
InSector(theta) ==
  (theta - rotor.table[timer.pattern]) % Turn <= SectorSpan(rotor.table, timer.pattern)
Proven(omega, seen) == \/ omega = 0
                       \/ seen.doubt
                       \/ (seen.run = 2 /\ seen.dir = omega)

\* The truth, once an estimate has seen the edges since the last one.
Seen == [truth EXCEPT !.gap = 0,
                      !.doubt = IF truth.gap = 2 THEN TRUE ELSE IF truth.gap = 1 THEN FALSE ELSE @]

\* Not conducting: the estimators are reset with the hall feedback, if any, as their seed.
Parked(hall, guess) ==
  /\ injecting' = FALSE
  /\ sal' = ResetSaliency(hall, guess)
  /\ arb' \in UpdateSensorless(UpdateHall(arb, hall, timer.pattern), Err, Err)

\* A tick on the first bench: the drive is off.
HallTick ==
  /\ bench = "edges"
  /\ IF Readable(est, timer.pattern)
     THEN \E travelled \in Travels :
            LET e == GetEstimate(est, timer.prev, timer.pattern, travelled)
            IN /\ est' = e.est
               /\ truth' = Seen
               /\ Parked(Ok(e.omega, InSector(e.theta) /\ Proven(e.omega, Seen)), FALSE)
     ELSE UNCHANGED <<est, truth>> /\ Parked(Err, FALSE)
  /\ UNCHANGED <<bench, rotor, timer, speed, setup, control>>

-----------------------------------------------------------------------------
\* A torque request, from a standstill or a ramp down that goes on; a sensorless drive is not
\* started on a rotor that turns.
Start ==
  /\ bench = "speeds"
  /\ control \in {"off", "safety"}
  /\ control = "off" /\ ~setup.hall => Size(speed) < LowSpeed
  /\ control' = "testing"
  /\ UNCHANGED <<bench, hallVars, speed, setup, injecting, sal, arb>>

\* The drive is idled, or some fault stops it.
Stop ==
  /\ bench = "speeds"
  /\ control \in {"testing", "torque", "safety"}
  /\ control' \in {"off", "safety"} \ {control}
  /\ UNCHANGED <<bench, hallVars, speed, setup, injecting, sal, arb>>

\* Above the injection threshold the test is not needed: another source seeds the estimator.
TooFast(r) == IsOk(r) /\ Size(r.omega) > HighSpeed

\* foc_step, on the arbitrator's reading: the mode it goes to, the estimator and the feedback it uses.
PolaritySettled(r) ==
  LET open == Verdict(sal.test) = "open"
      Settled(c, s, used) == [control |-> c, sal |-> s, used |-> used]
  IN CASE control # "testing" -> Settled(control, sal, r)
       [] control = "testing" /\ open /\ TooFast(r) -> Settled("torque", ResetSaliency(r, FALSE), r)
       [] control = "testing" /\ open /\ ~TooFast(r) -> Settled("testing", sal, ReadSaliency(sal))
       [] control = "testing" /\ Verdict(sal.test) = "found" -> Settled("torque", sal, r)
       [] OTHER -> Settled("safety", sal, r)

\* A drive in use stops without feedback; a ramp down may end at any tick.
Conducts(settled) ==
  IF settled.control = "off" \/ ~IsOk(settled.used) THEN {"off"}
  ELSE IF settled.control = "safety" THEN {"off", "safety"}
  ELSE {settled.control}

\* FOC::compute: raw voltages carry the injection, a torque does below its threshold.
Injects(c, used) ==
  CASE c = "testing" -> TRUE
    [] c \in {"torque", "safety"} -> Size(used.omega) < HighSpeed

\* SinusoidalPulsingEstimator::update: what it observes is the injection of the last tick, with the
\* amplitude of this one.
Normal(c) == setup.signal = "always" \/ (setup.signal = "testing" /\ c = "testing")
Estimated(s, c, used, v, locked, pull) ==
  IF ~setup.parameters THEN MissingParameter(s)
  ELSE IF injecting /\ Normal(c)
       THEN Injected([s EXCEPT !.right = @ /\ Size(v) <= TopTracked], v, locked, pull)
       ELSE Slaved(s, used)

\* The flux estimator is right at speed; below that it fails or drifts.
FluxReadings(v) ==
  IF ~setup.parameters THEN {Err}
  ELSE IF Size(v) >= LeastObserved THEN {Ok(v, TRUE)}
  ELSE {Err} \cup {Ok(w, FALSE) : w \in -LowSpeed .. LowSpeed}

HallReadings(v) == IF setup.hall THEN {Err, Ok(v, TRUE)} ELSE {Err}

\* Whether the loop is within its tolerance, and which way the iron pulls, if at all.
Locks(s) == IF s.test.state = "Settling" THEN BOOLEAN ELSE {FALSE}
Pulls(s) == IF s.test.state = "Testing" THEN {0, IF s.right THEN 1 ELSE -1} ELSE {0}

\* shared_adc_isr, while the rotor gains or loses one unit of speed at most.
Tick ==
  /\ bench = "speeds"
  /\ \E v \in Speeds \cap (speed - 1 .. speed + 1),
        settled \in {PolaritySettled(Read(arb))} :
     \E hall \in HallReadings(v), c \in Conducts(settled) :
       /\ speed' = v
       /\ control' = c
       /\ IF c = "off" THEN \E guess \in BOOLEAN : Parked(hall, guess)
          ELSE \E flux \in FluxReadings(v), locked \in Locks(settled.sal), pull \in Pulls(settled.sal) :
                 /\ injecting' = Injects(c, settled.used)
                 /\ sal' = Estimated(settled.sal, c, settled.used, v, locked, pull)
                 /\ arb' \in UpdateSensorless(UpdateHall(arb, hall, timer.pattern), ReadSaliency(sal'), flux)
  /\ UNCHANGED <<bench, hallVars, setup>>

-----------------------------------------------------------------------------
Next ==
  \/ Forward
  \/ Reverse
  \/ SkippedEdge
  \/ Glitch
  \/ GlitchEnds
  \/ CalibrationStarts
  \/ TableStored
  \/ HallTick
  \/ Start
  \/ Stop
  \/ Tick

Spec == Init /\ [][Next]_vars

\* The interrupt is periodic.
FairSpec == Spec /\ WF_vars(Tick)
=============================================================================
