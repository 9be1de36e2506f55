------------------------- MODULE Commissioning_proofs -------------------------
(***************************************************************************)
(* Proofs about a calibration, for every length of its tests, every target *)
(* current, every motor and any number of calibrations.                    *)
(***************************************************************************)
EXTENDS CommissioningProperties, FiniteSetTheorems, TLAPS

-----------------------------------------------------------------------------
\* The states of the motor estimator.

Signs == {-1, 1}
RotorLockWaits == [state : {"RotorLockWait"}, ran : 0 .. SettleTime - 1, knows : BOOLEAN]
EstRs == [state : {"EstR"}, block : 0 .. Blocks - 1, ran : 0 .. TestTime - 1, reached : BOOLEAN,
          levels : [1 .. 2 -> Nat]]
EstLs == [state : {"EstL"}, axis : {"d", "q"}, ran : 0 .. 2 * TestTime - 1, sign : Signs, flips : Nat,
          applied : {-1, 0, 1} \X {-1, 0, 1}, prev : Int, plus : Nat, minus : Nat, sum : Int]
EstFs == [state : {"EstF"}, ran : 0 .. SpinTime + TestTime - 1, samples : Nat]
RampDowns == [state : {"RampDown"}, ran : 0 .. TestTime - 1,
              pending : {NoFault, "EstimationInsufficientSamples", "EstimationDegenSolution"}]
Failures == [state : {"Failure"}, fault : EstimationFailures]
Pauses == {Off, HallCalibrationRequired, TuningRequired, Done}

EstimatorStates == RotorLockWaits \cup EstRs \cup EstLs \cup EstFs \cup RampDowns \cup Failures \cup Pauses

\* What the record sets do not say: how the counters of a test depend on each other.
Counts(e) ==
  /\ e.state = "EstL" => e.plus + e.minus <= e.ran
  /\ e.state = "EstF" => e.samples <= (IF e.ran < SpinTime THEN 0 ELSE e.ran - SpinTime)

LEMMA Times ==
  /\ SettleTime \in Nat \ {0} /\ TestTime \in Nat \ {0} /\ SpinTime \in Nat \ {0}
  /\ TargetCurrent \in Nat \ {0} /\ MinSamples \in Nat
BY MotorEstimatorAssumption

LEMMA Kinds ==
  ASSUME NEW e \in EstimatorStates
  PROVE  /\ e.state = "RotorLockWait" <=> e \in RotorLockWaits
         /\ e.state = "EstR" <=> e \in EstRs
         /\ e.state = "EstL" <=> e \in EstLs
         /\ e.state = "EstF" <=> e \in EstFs
         /\ e.state = "RampDown" <=> e \in RampDowns
         /\ e.state = "Failure" <=> e \in Failures
         /\ e.state = "Off" <=> e = Off
         /\ e.state = "HallCalibrationRequired" <=> e = HallCalibrationRequired
         /\ e.state = "TuningRequired" <=> e = TuningRequired
         /\ e.state = "Done" <=> e = Done
         /\ e.state \in {"RotorLockWait", "EstR", "EstL", "EstF", "RampDown", "Failure", "Off",
                         "HallCalibrationRequired", "TuningRequired", "Done"}
BY DEF EstimatorStates, RotorLockWaits, EstRs, EstLs, EstFs, RampDowns, Failures, Pauses,
       Off, HallCalibrationRequired, TuningRequired, Done

\* The states a stage of the estimation starts in.
LEMMA Starts ==
  /\ \A k \in BOOLEAN : RotorLockWait(k) \in RotorLockWaits
  /\ EstR \in EstRs
  /\ \A axis \in {"d", "q"}, c \in Int : EstL(axis, c) \in EstLs
  /\ EstF \in EstFs
  /\ \A f \in {NoFault, "EstimationInsufficientSamples", "EstimationDegenSolution"} : RampDown(f) \in RampDowns
  /\ \A f \in EstimationFailures : Failure(f) \in Failures
<1>1. EstR \in EstRs
  <2>1. <<0, 0>> \in [1 .. 2 -> Nat]
    OBVIOUS
  <2> QED BY <2>1, Times DEF EstR, EstRs, Blocks
<1>2. \A axis \in {"d", "q"}, c \in Int : EstL(axis, c) \in EstLs
  BY Times DEF EstL, EstLs, Signs
<1>3. \A k \in BOOLEAN : RotorLockWait(k) \in RotorLockWaits
  BY Times DEF RotorLockWait, RotorLockWaits
<1>4. EstF \in EstFs
  BY Times DEF EstF, EstFs
<1>5. \A f \in {NoFault, "EstimationInsufficientSamples", "EstimationDegenSolution"} : RampDown(f) \in RampDowns
  BY Times DEF RampDown, RampDowns
<1>6. \A f \in EstimationFailures : Failure(f) \in Failures
  BY DEF Failure, Failures
<1> QED BY <1>1, <1>2, <1>3, <1>4, <1>5, <1>6

\* A step result: its parts.
LEMMA StepResults ==
  /\ \A e : Goes(e).next = e /\ Goes(e).found = {} /\ Goes(e).unwinds = FALSE
  /\ \A f : Fails(f).next = Failure(f) /\ Fails(f).found = {} /\ Fails(f).unwinds = TRUE
  /\ \A e, k, u : /\ StepResult(e, k, u).next = e /\ StepResult(e, k, u).found = k
                  /\ StepResult(e, k, u).unwinds = u
BY DEF Goes, Fails, StepResult

-----------------------------------------------------------------------------
\* What a step of each state may lead to.

\* A step that failed: the fault is kept for the runner, and the controller unwound.
Failed(r) == \E f \in EstimationFailures : r = Fails(f)

LEMMA RotorLockWaitSteps ==
  ASSUME NEW e \in RotorLockWaits, NEW c \in Int, NEW r \in RotorLockWaitStep(e, c)
  PROVE  /\ r.found = {} /\ r.unwinds = FALSE
         /\ \/ r.next \in RotorLockWaits /\ r.next.knows = e.knows
            \/ e.knows /\ r.next = EstL("d", c)
            \/ ~e.knows /\ r.next = EstR
<1>1. CASE e.ran + 1 < SettleTime
  <2>1. r = Goes([e EXCEPT !.ran = @ + 1])
    BY <1>1 DEF RotorLockWaitStep
  <2>2. [e EXCEPT !.ran = @ + 1] \in RotorLockWaits /\ [e EXCEPT !.ran = @ + 1].knows = e.knows
    BY <1>1, Times DEF RotorLockWaits
  <2> QED BY <2>1, <2>2, StepResults
<1>2. CASE ~(e.ran + 1 < SettleTime)
  <2>1. r = Goes(IF e.knows THEN EstL("d", c) ELSE EstR)
    BY <1>2 DEF RotorLockWaitStep
  <2>2. e.knows \in BOOLEAN
    BY DEF RotorLockWaits
  <2> QED BY <2>1, <2>2, StepResults
<1> QED BY <1>1, <1>2

LEMMA EstRSteps ==
  ASSUME NEW e \in EstRs, NEW r \in EstRStep(e)
  PROVE  \/ r.found = {} /\ r.unwinds = FALSE /\ r.next \in EstRs
         \/ Failed(r)
         \/ r = StepResult(HallCalibrationRequired, {"stator_resistance", "deadtime_ratio"}, TRUE)
<1> DEFINE levels == [e.levels EXCEPT ![(e.block % 2) + 1] = @ + 1]
<1>1. /\ e.block \in 0 .. 3 /\ e.ran \in 0 .. TestTime - 1 /\ e.reached \in BOOLEAN
      /\ e.levels \in [1 .. 2 -> Nat] /\ e.state = "EstR"
      /\ e = [state |-> "EstR", block |-> e.block, ran |-> e.ran, reached |-> e.reached, levels |-> e.levels]
  BY DEF EstRs, Blocks
<1>2. levels \in [1 .. 2 -> Nat]
  <2>1. e.block % 2 \in {0, 1}
    BY <1>1
  <2> QED BY <1>1, <2>1
<1> HIDE DEF levels
<1>3. CASE ~e.reached
  <2>1. r \in EstRWaits(e)
    BY <1>3 DEF EstRStep
  <2>2. [e EXCEPT !.ran = 0, !.reached = TRUE] \in EstRs
    <3>1. 0 \in 0 .. TestTime - 1 /\ TRUE \in BOOLEAN
      BY Times
    <3> QED BY <3>1 DEF EstRs
  <2>3. e.ran + 1 < TestTime => [e EXCEPT !.ran = @ + 1] \in EstRs
    BY <1>1, Times DEF EstRs
  <2>4. "EstimationTargetCurrentUnreachable" \in EstimationFailures /\ TestTime \in Nat
    BY Times DEF EstimationFailures
  <2>5. \/ r = Goes([e EXCEPT !.ran = 0, !.reached = TRUE])
        \/ e.ran + 1 >= TestTime /\ r = Fails("EstimationTargetCurrentUnreachable")
        \/ ~(e.ran + 1 >= TestTime) /\ r = Goes([e EXCEPT !.ran = @ + 1])
    BY <2>1 DEF EstRWaits
  <2>6. ~(e.ran + 1 >= TestTime) => e.ran + 1 < TestTime
    BY <1>1, <2>4
  <2>7. CASE r = Goes([e EXCEPT !.ran = 0, !.reached = TRUE])
    BY <2>2, <2>7, StepResults
  <2>8. CASE r = Fails("EstimationTargetCurrentUnreachable")
    BY <2>4, <2>8 DEF Failed
  <2>9. CASE ~(e.ran + 1 >= TestTime) /\ r = Goes([e EXCEPT !.ran = @ + 1])
    BY <2>3, <2>6, <2>9, StepResults
  <2> QED BY <2>5, <2>7, <2>8, <2>9
<1>4. CASE e.reached /\ Blocks * (e.ran + 1) < TestTime
  <2>1. r = Goes([e EXCEPT !.ran = @ + 1, !.levels = levels])
    BY <1>4 DEF EstRStep, levels
  <2>2. e.ran + 1 \in 0 .. TestTime - 1
    BY <1>1, <1>4, Times DEF Blocks
  <2>3. [e EXCEPT !.ran = @ + 1, !.levels = levels] \in EstRs
    BY <1>1, <1>2, <2>2 DEF EstRs, Blocks
  <2> QED BY <2>1, <2>3, StepResults
<1>5. CASE e.reached /\ ~(Blocks * (e.ran + 1) < TestTime) /\ e.block + 1 < Blocks
  <2>1. r = Goes([EstR EXCEPT !.block = e.block + 1, !.levels = levels])
    BY <1>5 DEF EstRStep, levels
  <2>2. [EstR EXCEPT !.block = e.block + 1, !.levels = levels] \in EstRs
    <3>1. EstR \in EstRs /\ e.block + 1 \in 0 .. Blocks - 1
      BY <1>1, <1>5, Starts DEF Blocks
    <3> QED BY <1>2, <3>1 DEF EstRs
  <2> QED BY <2>1, <2>2, StepResults
<1>6. CASE e.reached /\ ~(Blocks * (e.ran + 1) < TestTime) /\ ~(e.block + 1 < Blocks)
  <2>1. r \in EstRSolved(levels)
    BY <1>6 DEF EstRStep, levels
  <2> QED BY <2>1 DEF EstRSolved, Failed, EstimationFailures
<1> QED BY <1>3, <1>4, <1>5, <1>6

\* The inductance test: it goes on, fails, or has measured its axis.
EstLSampled(e, c) ==
  [Sampled(e, c) EXCEPT !.ran = e.ran + 1, !.prev = c, !.applied = <<e.applied[2], e.sign>>]
EstLFlipped(e, c) == [EstLSampled(e, c) EXCEPT !.sign = -@, !.flips = @ + 1]

LEMMA SampledTyped ==
  ASSUME NEW e \in EstLs, NEW c \in Int
  PROVE  /\ Sampled(e, c) \in EstLs
         /\ \A f \in {"state", "axis", "ran", "sign", "flips", "applied", "prev"} : Sampled(e, c)[f] = e[f]
         /\ Sampled(e, c).plus + Sampled(e, c).minus <= e.plus + e.minus + 1
<1>1. /\ e.applied[1] \in {-1, 0, 1} /\ e.applied[2] \in {-1, 0, 1} /\ e.plus \in Nat /\ e.minus \in Nat
      /\ e.sum \in Int /\ e.prev \in Int
  BY DEF EstLs
<1> DEFINE late == e.applied[2]
           p == IF late > 0 THEN e.plus + 1 ELSE e.plus
           m == IF late < 0 THEN e.minus + 1 ELSE e.minus
           u == e.sum + late * (c - e.prev)
<1>2. CASE ValidSample(e)
  <2>1. Sampled(e, c) = [e EXCEPT !.plus = p, !.minus = m, !.sum = u]
    BY <1>2 DEF Sampled
  <2>2. p \in Nat /\ m \in Nat /\ u \in Int /\ p + m <= e.plus + e.minus + 1
    BY <1>1
  <2> HIDE DEF p, m, u
  <2>3. [e EXCEPT !.plus = p, !.minus = m, !.sum = u] \in EstLs
    BY <2>2 DEF EstLs
  <2>4. Sampled(e, c).plus = p /\ Sampled(e, c).minus = m
    BY <2>1 DEF EstLs
  <2>5. \A f \in {"state", "axis", "ran", "sign", "flips", "applied", "prev"} : Sampled(e, c)[f] = e[f]
    BY <2>1 DEF EstLs
  <2> QED BY <2>1, <2>2, <2>3, <2>4, <2>5
<1>3. CASE ~ValidSample(e)
  BY <1>1, <1>3 DEF Sampled
<1> QED BY <1>2, <1>3

LEMMA EstLNext ==
  ASSUME NEW e \in EstLs, NEW c \in Int
  PROVE  /\ \A n \in {EstLSampled(e, c), EstLFlipped(e, c)} :
              /\ n.state = "EstL" /\ n.axis = e.axis /\ n.ran = e.ran + 1 /\ n.prev = c
              /\ n.applied = <<e.applied[2], e.sign>>
              /\ n.plus = Sampled(e, c).plus /\ n.minus = Sampled(e, c).minus /\ n.sum = Sampled(e, c).sum
              /\ e.ran + 1 < 2 * TestTime => n \in EstLs
         /\ EstLSampled(e, c).sign = e.sign /\ EstLSampled(e, c).flips = e.flips
         /\ EstLFlipped(e, c).sign = -e.sign /\ EstLFlipped(e, c).flips = e.flips + 1
<1> DEFINE d == Sampled(e, c)
           a == <<e.applied[2], e.sign>>
           ran == e.ran + 1
           n1 == EstLSampled(e, c)
           n2 == EstLFlipped(e, c)
           sign == -e.sign
           flips == e.flips + 1
<1>1. /\ e.state = "EstL" /\ e.axis \in {"d", "q"} /\ e.ran \in 0 .. 2 * TestTime - 1
      /\ e.sign \in Signs /\ e.flips \in Nat /\ e.applied[2] \in {-1, 0, 1}
  BY DEF EstLs
<1>2. d \in EstLs /\ d.state = "EstL" /\ d.axis = e.axis /\ d.sign = e.sign /\ d.flips = e.flips
  BY <1>1, SampledTyped
<1>3. a \in {-1, 0, 1} \X {-1, 0, 1} /\ sign \in Signs /\ flips \in Nat
  BY <1>1 DEF Signs
<1>4. ran < 2 * TestTime => ran \in 0 .. 2 * TestTime - 1
  BY <1>1, Times
<1>5. n1 = [d EXCEPT !.ran = ran, !.prev = c, !.applied = a]
  BY DEF EstLSampled
<1> HIDE DEF d, a, ran, n1, sign, flips
<1>6. /\ n1.state = "EstL" /\ n1.axis = e.axis /\ n1.ran = ran /\ n1.prev = c /\ n1.applied = a
      /\ n1.plus = d.plus /\ n1.minus = d.minus /\ n1.sum = d.sum /\ n1.sign = e.sign /\ n1.flips = e.flips
  BY <1>2, <1>5 DEF EstLs
<1>7. ran < 2 * TestTime => n1 \in EstLs
  <2> SUFFICES ASSUME ran \in 0 .. 2 * TestTime - 1 PROVE n1 \in EstLs
    BY <1>4
  <2> QED BY <1>2, <1>3, <1>5 DEF EstLs
<1>8. n2 = [n1 EXCEPT !.sign = sign, !.flips = flips]
  <2>1. n2 = [n1 EXCEPT !.sign = -n1.sign, !.flips = n1.flips + 1]
    BY DEF EstLFlipped, n1
  <2> QED BY <1>6, <2>1 DEF sign, flips
<1> HIDE DEF n2
<1>9. /\ n2.state = "EstL" /\ n2.axis = e.axis /\ n2.ran = ran /\ n2.prev = c /\ n2.applied = a
      /\ n2.plus = d.plus /\ n2.minus = d.minus /\ n2.sum = d.sum /\ n2.sign = sign /\ n2.flips = flips
  BY <1>2, <1>3, <1>5, <1>6, <1>8 DEF EstLs
<1>10. ran < 2 * TestTime => n2 \in EstLs
  <2> SUFFICES ASSUME n1 \in EstLs PROVE n2 \in EstLs
    BY <1>7
  <2> QED BY <1>3, <1>8 DEF EstLs
<1> QED BY <1>6, <1>7, <1>9, <1>10 DEF d, a, ran, n1, n2, sign, flips

LEMMA EstLSteps ==
  ASSUME NEW e \in EstLs, NEW c \in Int, NEW r \in EstLStep(e, c) \cup EstLRefuses(e)
  PROVE  \/ r = Goes(EstLSampled(e, c)) /\ EstLSampled(e, c) \in EstLs /\ ~Flips(e, c)
         \/ r = Goes(EstLFlipped(e, c)) /\ EstLFlipped(e, c) \in EstLs /\ Flips(e, c)
         \/ Failed(r)
         \/ /\ Flips(e, c) /\ WholePeriods(e.flips + 1)
            /\ r = IF e.axis = "d" THEN StepResult(EstL("q", 0), {"d_inductance"}, FALSE)
                   ELSE StepResult(TuningRequired, {"q_inductance"}, FALSE)
<1> DEFINE faults == {"EstimationInsufficientSamples", "EstimationOverflow", "EstimationDegenSolution",
                      "EstimationParameterOutOfBounds", "EstimationTargetCurrentUnreachable"}
           n1 == EstLSampled(e, c)
           n2 == EstLFlipped(e, c)
<1>1. \A f \in faults : \A q : q = Fails(f) => Failed(q)
  BY DEF Failed, EstimationFailures
<1>2. /\ e.ran + 1 < 2 * TestTime => n1 \in EstLs /\ n2 \in EstLs
      /\ n1.axis = e.axis /\ n2.flips = e.flips + 1
  BY EstLNext
<1>3. e.ran + 1 \in Nat /\ 2 * TestTime \in Nat
  BY Times DEF EstLs
<1>4. CASE r \in EstLRefuses(e)
  BY <1>1, <1>4 DEF EstLRefuses
<1>5. CASE r \in EstLStep(e, c)
  <2>1. r \in IF e.ran + 1 >= 2 * TestTime THEN {Fails("EstimationInsufficientSamples")}
              ELSE IF ~Flips(e, c) THEN {Goes(n1)}
              ELSE IF e.ran + 1 >= TestTime /\ WholePeriods(n2.flips) THEN EstLSolved(n1)
              ELSE {Goes(n2)}
    BY <1>5 DEF EstLStep, EstLSampled, EstLFlipped
  <2> HIDE DEF n1, n2
  <2>2. CASE e.ran + 1 >= 2 * TestTime
    BY <1>1, <2>1, <2>2
  <2>3. CASE ~(e.ran + 1 >= 2 * TestTime)
    <3>1. n1 \in EstLs /\ n2 \in EstLs
      BY <1>2, <1>3, <2>3
    <3>2. CASE ~Flips(e, c)
      BY <2>1, <2>3, <3>1, <3>2 DEF n1
    <3>3. CASE Flips(e, c) /\ e.ran + 1 >= TestTime /\ WholePeriods(n2.flips)
      <4>1. r \in EstLSolved(n1)
        BY <2>1, <2>3, <3>3
      <4>2. \/ r \in {Fails(f) : f \in faults}
            \/ r = IF e.axis = "d" THEN StepResult(EstL("q", 0), {"d_inductance"}, FALSE)
                   ELSE StepResult(TuningRequired, {"q_inductance"}, FALSE)
        BY <1>2, <4>1 DEF EstLSolved
      <4> QED BY <1>1, <1>2, <3>3, <4>2
    <3>4. CASE Flips(e, c) /\ ~(e.ran + 1 >= TestTime /\ WholePeriods(n2.flips))
      BY <2>1, <2>3, <3>1, <3>4 DEF n2
    <3> QED BY <3>2, <3>3, <3>4
  <2> QED BY <2>2, <2>3
<1> QED BY <1>4, <1>5

LEMMA EstFSteps ==
  ASSUME NEW e \in EstFs, Counts(e), NEW r \in EstFStep(e)
  PROVE  /\ r.found = {} /\ r.unwinds = FALSE
         /\ r.next \in EstFs \cup RampDowns /\ Counts(r.next)
<1> DEFINE ran == e.ran + 1
           samples == IF e.ran < SpinTime THEN e.samples ELSE e.samples + 1
           n == [e EXCEPT !.ran = ran, !.samples = samples]
<1>1. e.ran \in 0 .. SpinTime + TestTime - 1 /\ e.samples \in Nat /\ e.state = "EstF"
      /\ e.samples <= (IF e.ran < SpinTime THEN 0 ELSE e.ran - SpinTime)
  BY DEF EstFs, Counts
<1>2. samples \in Nat /\ ran \in Nat /\ samples <= (IF ran < SpinTime THEN 0 ELSE ran - SpinTime)
      /\ (ran < SpinTime + TestTime => ran \in 0 .. SpinTime + TestTime - 1)
  BY <1>1, Times
<1>3. \/ r = Goes(n) /\ ran < SpinTime + TestTime
      \/ r = Goes(RampDown("EstimationInsufficientSamples"))
      \/ r = Goes(RampDown("EstimationDegenSolution"))
      \/ r = Goes(RampDown(NoFault))
  BY DEF EstFStep
<1> HIDE DEF ran, samples
<1>4. ran < SpinTime + TestTime => n \in EstFs /\ n.ran = ran /\ n.samples = samples /\ n.state = "EstF"
  <2> SUFFICES ASSUME ran \in 0 .. SpinTime + TestTime - 1
               PROVE  n \in EstFs /\ n.ran = ran /\ n.samples = samples /\ n.state = "EstF"
    BY <1>2
  <2>1. samples \in Nat
    BY <1>2
  <2> QED BY <2>1 DEF EstFs
<1> HIDE DEF n
<1>5. \A f : Counts(RampDown(f))
  BY DEF Counts, RampDown
<1>6. CASE r = Goes(n) /\ ran < SpinTime + TestTime
  BY <1>2, <1>4, <1>6, StepResults DEF Counts
<1>7. CASE r \in {Goes(RampDown(f)) : f \in {NoFault, "EstimationInsufficientSamples", "EstimationDegenSolution"}}
  BY <1>5, <1>7, Starts, StepResults
<1> QED BY <1>3, <1>6, <1>7

LEMMA RampDownSteps ==
  ASSUME NEW e \in RampDowns, NEW r \in RampDownStep(e)
  PROVE  \/ r.found = {} /\ r.unwinds = FALSE /\ r.next \in RampDowns
         \/ Failed(r)
         \/ r = StepResult(Done, {"pm_flux_linkage"}, TRUE)
<1>1. e.ran \in 0 .. TestTime - 1 /\ TestTime \in Nat
      /\ e.pending \in {NoFault, "EstimationInsufficientSamples", "EstimationDegenSolution"}
  BY Times DEF RampDowns
<1>2. CASE e.ran + 1 < TestTime
  <2>1. r = Goes([e EXCEPT !.ran = @ + 1])
    BY <1>2 DEF RampDownStep
  <2>2. [e EXCEPT !.ran = @ + 1] \in RampDowns
    BY <1>1, <1>2 DEF RampDowns
  <2> QED BY <2>1, <2>2, StepResults
<1>3. CASE ~(e.ran + 1 < TestTime) /\ e.pending # NoFault
  BY <1>1, <1>3 DEF RampDownStep, Failed, EstimationFailures
<1>4. CASE ~(e.ran + 1 < TestTime) /\ e.pending = NoFault
  BY <1>4 DEF RampDownStep, Failed, EstimationFailures
<1> QED BY <1>2, <1>3, <1>4

LEMMA PauseSteps ==
  ASSUME NEW e \in Failures \cup Pauses, NEW c, NEW r \in EstimatorStep(e, c)
  PROVE  r = Goes(e)
BY DEF EstimatorStep, Failures, Pauses, Off, HallCalibrationRequired, TuningRequired, Done

LEMMA ResultTyped ==
  ASSUME NEW n \in EstimatorStates, Counts(n), NEW k \in SUBSET Measured, NEW u \in BOOLEAN
  PROVE  /\ StepResult(n, k, u).next \in EstimatorStates /\ Counts(StepResult(n, k, u).next)
         /\ StepResult(n, k, u).found \subseteq Measured /\ StepResult(n, k, u).unwinds \in BOOLEAN
BY StepResults

\* after_foc_iteration keeps the estimator's state well formed.
LEMMA EstimatorTyped ==
  ASSUME NEW e \in EstimatorStates, Counts(e), NEW c \in Int, NEW r \in EstimatorStep(e, c)
  PROVE  r.next \in EstimatorStates /\ Counts(r.next) /\ r.found \subseteq Measured /\ r.unwinds \in BOOLEAN
<1>0. /\ \A n \in RotorLockWaits \cup EstRs \cup RampDowns \cup Failures \cup Pauses : Counts(n)
      /\ \A axis \in {"d", "q"} : \A p \in Int : Counts(EstL(axis, p)) /\ EstL(axis, p) \in EstimatorStates
  <2>1. \A n \in RotorLockWaits \cup EstRs \cup RampDowns \cup Failures \cup Pauses : n.state \notin {"EstL", "EstF"}
    BY DEF RotorLockWaits, EstRs, RampDowns, Failures, Pauses, Off, HallCalibrationRequired, TuningRequired, Done
  <2>2. \A axis \in {"d", "q"} : \A p \in Int : Counts(EstL(axis, p))
    BY DEF EstL, Counts
  <2> QED BY <2>1, <2>2, Starts DEF Counts, EstimatorStates
<1>1. ASSUME Failed(r)
      PROVE  r.next \in EstimatorStates /\ Counts(r.next) /\ r.found \subseteq Measured /\ r.unwinds \in BOOLEAN
  <2>1. PICK f \in EstimationFailures : r = StepResult(Failure(f), {}, TRUE)
    BY <1>1 DEF Failed, Fails
  <2>2. Failure(f) \in EstimatorStates /\ Counts(Failure(f)) /\ {} \subseteq Measured
    BY <1>0, Starts DEF EstimatorStates
  <2> QED BY <2>1, <2>2, ResultTyped
<1>a. /\ HallCalibrationRequired \in EstimatorStates /\ Counts(HallCalibrationRequired)
      /\ TuningRequired \in EstimatorStates /\ Counts(TuningRequired)
      /\ Done \in EstimatorStates /\ Counts(Done)
  BY <1>0 DEF EstimatorStates, Pauses
<1>b. /\ {"stator_resistance", "deadtime_ratio"} \subseteq Measured /\ {"d_inductance"} \subseteq Measured
      /\ {"q_inductance"} \subseteq Measured /\ {"pm_flux_linkage"} \subseteq Measured /\ 0 \in Int
  BY DEF Measured
<1>c. \A n : n \in EstimatorStates /\ Counts(n) /\ r = Goes(n) =>
               r.next \in EstimatorStates /\ Counts(r.next) /\ r.found \subseteq Measured /\ r.unwinds \in BOOLEAN
  BY ResultTyped DEF Goes
<1>2. CASE e.state = "RotorLockWait"
  <2>1. e \in RotorLockWaits /\ r \in RotorLockWaitStep(e, c)
    BY <1>2, Kinds DEF EstimatorStep
  <2> QED BY <1>0, <2>1, RotorLockWaitSteps, Starts DEF EstimatorStates
<1>3. CASE e.state = "EstR"
  <2>1. e \in EstRs /\ r \in EstRStep(e)
    BY <1>3, Kinds DEF EstimatorStep
  <2>2. CASE r = StepResult(HallCalibrationRequired, {"stator_resistance", "deadtime_ratio"}, TRUE)
    BY <1>a, <1>b, <2>2, ResultTyped
  <2> QED BY <1>0, <1>1, <2>1, <2>2, EstRSteps DEF EstimatorStates
<1>4. CASE e.state = "EstL"
  <2>1. e \in EstLs /\ r \in EstLStep(e, c) \cup EstLRefuses(e)
    BY <1>4, Kinds DEF EstimatorStep
  <2>2. ASSUME NEW n \in {EstLSampled(e, c), EstLFlipped(e, c)} PROVE Counts(n)
    <3>1. /\ n.state = "EstL" /\ n.ran = e.ran + 1
          /\ n.plus = Sampled(e, c).plus /\ n.minus = Sampled(e, c).minus
      BY <2>1, EstLNext
    <3>2. Sampled(e, c).plus + Sampled(e, c).minus <= e.plus + e.minus + 1 /\ e.plus + e.minus <= e.ran
      BY <1>4, <2>1, SampledTyped DEF Counts
    <3>3. Sampled(e, c) \in EstLs
      BY <2>1, SampledTyped
    <3> QED BY <2>1, <3>1, <3>2, <3>3 DEF Counts, EstLs
  <2>3. ASSUME NEW n \in {EstLSampled(e, c), EstLFlipped(e, c)}, r = Goes(n), n \in EstLs
        PROVE  r.next \in EstimatorStates /\ Counts(r.next) /\ r.found \subseteq Measured /\ r.unwinds \in BOOLEAN
    BY <1>c, <2>2, <2>3 DEF EstimatorStates
  <2>4. CASE r = StepResult(EstL("q", 0), {"d_inductance"}, FALSE)
    BY <1>0, <1>b, <2>4, ResultTyped
  <2>5. CASE r = StepResult(TuningRequired, {"q_inductance"}, FALSE)
    BY <1>a, <1>b, <2>5, ResultTyped
  <2>6. CASE Failed(r)
    BY <1>1, <2>6
  <2> QED BY <2>1, <2>3, <2>4, <2>5, <2>6, EstLSteps
<1>5. CASE e.state = "EstF"
  <2>1. e \in EstFs /\ r \in EstFStep(e)
    BY <1>5, Kinds DEF EstimatorStep
  <2> QED BY <2>1, EstFSteps DEF EstimatorStates
<1>6. CASE e.state = "RampDown"
  <2>1. e \in RampDowns /\ r \in RampDownStep(e)
    BY <1>6, Kinds DEF EstimatorStep
  <2>2. CASE r = StepResult(Done, {"pm_flux_linkage"}, TRUE)
    BY <1>a, <1>b, <2>2, ResultTyped
  <2> QED BY <1>0, <1>1, <2>1, <2>2, RampDownSteps DEF EstimatorStates
<1>7. CASE e.state \notin {"RotorLockWait", "EstR", "EstL", "EstF", "RampDown"}
  <2>1. e \in Failures \cup Pauses
    BY <1>7, Kinds DEF Pauses
  <2>2. r = Goes(e)
    BY <2>1, PauseSteps
  <2> QED BY <1>c, <2>2
<1> QED BY <1>2, <1>3, <1>4, <1>5, <1>6, <1>7

-----------------------------------------------------------------------------
\* The states of the hall calibrator.

Sweeps == [sweep : {"Forward", "Reverse"}, target : Angles, first : Patterns \cup {NoPattern},
           prev : Patterns, edges : 0 .. EdgesNeeded]
Settlings == [sweep : {"Settle"}, target : Angles, waited : 0 .. AlignTime - 1]
Finishes == [sweep : {"Done"}, target : Angles]
HallStates == [at : Sweeps \cup Settlings \cup Finishes, table : [1 .. 6 -> Angles]]

LEMMA AngleTyped ==
  /\ Turn \in Nat \ {0} /\ Sector \in Nat \ {0} /\ 0 \in Angles /\ HallOffset \in Angles
  /\ \A a \in Int : Wrapped(a) \in Angles
  /\ \A a \in Angles : a \in Int
<1>1. Sector \in Nat /\ Sector > 0
  BY HallCalibratorAssumption
<1>2. Turn \in Nat \ {0}
  BY <1>1 DEF Turn
<1>3. \A a \in Int : Wrapped(a) \in Angles
  BY <1>2 DEF Wrapped, Angles
<1> QED BY <1>1, <1>2, <1>3, CommissioningAssumption DEF Angles

LEMMA DiffTyped ==
  ASSUME NEW a \in Int, NEW b \in Int
  PROVE  WrappedDiff(a, b) \in Int
<1>1. a - b \in Int /\ Turn \in Nat \ {0}
  BY AngleTyped
<1>2. (a - b) % Turn \in Int
  BY <1>1
<1> QED BY <1>1, <1>2 DEF WrappedDiff

LEMMA PickedLeast ==
  ASSUME NEW a \in Int, NEW b \in Int
  PROVE  Min({a, b}) = IF a <= b THEN a ELSE b
<1> DEFINE S == {a, b}
           x == IF a <= b THEN a ELSE b
<1>1. x \in S /\ \A y \in S : x <= y
  OBVIOUS
<1>2. \A z \in S : (\A y \in S : z <= y) => z = x
  BY <1>1
<1> QED BY <1>1, <1>2 DEF Min

LEMMA PickedGreatest ==
  ASSUME NEW a \in Int, NEW b \in Int
  PROVE  Max({a, b}) = IF a >= b THEN a ELSE b
<1> DEFINE S == {a, b}
           x == IF a >= b THEN a ELSE b
<1>1. x \in S /\ \A y \in S : x >= y
  OBVIOUS
<1>2. \A z \in S : (\A y \in S : z >= y) => z = x
  BY <1>1
<1> QED BY <1>1, <1>2 DEF Max

LEMMA EntryTyped ==
  /\ \A p \in Patterns : Entry(p) \in 1 .. 6
  /\ \A n \in 0 .. EdgesNeeded : Counted(n) \in 0 .. EdgesNeeded
<1>1. ASSUME NEW p \in Patterns PROVE Entry(p) \in 1 .. 6
  <2>1. Min({p, 6}) \in 0 .. 6
    BY PickedLeast DEF Patterns
  <2> QED BY <2>1, PickedGreatest DEF Entry
<1>2. ASSUME NEW n \in 0 .. EdgesNeeded PROVE Counted(n) \in 0 .. EdgesNeeded
  BY PickedLeast DEF Counted, EdgesNeeded
<1> QED BY <1>1, <1>2

LEMMA StartedTyped == Started \in HallStates /\ Started.at.sweep = "Settle"
<1>1. 0 \in 0 .. AlignTime - 1
  BY HallCalibratorAssumption
<1>2. EmptyTable \in [1 .. 6 -> Angles]
  BY AngleTyped DEF EmptyTable
<1> QED BY <1>1, <1>2, AngleTyped DEF Started, Settling, HallStates, Settlings

LEMMA SweepTyped ==
  ASSUME NEW name \in {"Forward", "Reverse"}, NEW target \in Angles, NEW p \in Patterns
  PROVE  Sweep(name, target, p) \in Sweeps
<1>1. 0 \in 0 .. EdgesNeeded
  BY DEF EdgesNeeded
<1> QED BY <1>1 DEF Sweep, Sweeps

LEMMA SweptTyped ==
  ASSUME NEW at \in Sweeps, NEW p \in Patterns, NEW step \in Int
  PROVE  SweptOn(at, p, step) \in Sweeps
<1>1. at.target \in Angles
  BY DEF Sweeps
<1>2. Wrapped(at.target + step) \in Angles
  BY <1>1, AngleTyped
<1>3. SweptOn(at, p, step) = [at EXCEPT !.prev = p, !.target = Wrapped(at.target + step)]
  BY DEF SweptOn
<1> QED BY <1>2, <1>3 DEF Sweeps

LEMMA HallKinds ==
  ASSUME NEW h \in HallStates
  PROVE  /\ h = [at |-> h.at, table |-> h.table] /\ h.table \in [1 .. 6 -> Angles] /\ h.at.target \in Angles
         /\ h.at.sweep \in {"Forward", "Reverse"} <=> h.at \in Sweeps
         /\ h.at.sweep = "Settle" <=> h.at \in Settlings
         /\ h.at.sweep = "Done" <=> h.at \in Finishes
         /\ h.at.sweep \in {"Settle", "Forward", "Reverse", "Done"}
BY DEF HallStates, Sweeps, Settlings, Finishes

LEMMA HallTyped ==
  ASSUME NEW h \in HallStates, NEW p \in Patterns
  PROVE  HallStep(h, p) \in HallStates
<1>0. /\ \A at \in Sweeps \cup Settlings \cup Finishes : [h EXCEPT !.at = at] \in HallStates
      /\ \A t \in [1 .. 6 -> Angles] : \A at \in Sweeps \cup Settlings \cup Finishes :
           [at |-> at, table |-> t] \in HallStates
  BY DEF HallStates
<1>1. CASE h.at.sweep = "Settle"
  <2>1. h.at \in Settlings /\ HallStep(h, p) = SettleStep(h, p)
    BY <1>1, HallKinds DEF HallStep
  <2>2. CASE h.at.waited + 1 >= AlignTime
    BY <1>0, <2>1, <2>2, SweepTyped, AngleTyped DEF SettleStep
  <2>3. CASE ~(h.at.waited + 1 >= AlignTime)
    <3>1. h.at.waited + 1 \in 0 .. AlignTime - 1
      BY <2>1, <2>3, HallCalibratorAssumption DEF Settlings
    <3>2. Settling(h.at.waited + 1) \in Settlings
      BY <3>1, AngleTyped DEF Settling, Settlings
    <3> QED BY <1>0, <2>1, <2>3, <3>2 DEF SettleStep
  <2> QED BY <2>2, <2>3
<1>2. CASE h.at.sweep = "Forward"
  <2> DEFINE at == h.at
             edge == at.prev # p
             closes == edge /\ at.first = p /\ at.edges >= EdgesNeeded
             first == IF at.first = NoPattern THEN p ELSE at.first
             seen == [at EXCEPT !.first = first, !.edges = Counted(@)]
  <2>1. at \in Sweeps /\ at.target \in Angles /\ h.table \in [1 .. 6 -> Angles]
    BY <1>2, HallKinds
  <2>2. seen \in Sweeps
    <3>1. Counted(at.edges) \in 0 .. EdgesNeeded /\ first \in Patterns \cup {NoPattern}
      BY <2>1, EntryTyped DEF Sweeps
    <3> HIDE DEF first
    <3> QED BY <2>1, <3>1 DEF Sweeps
  <2>3. HallStep(h, p) = IF closes THEN [h EXCEPT !.at = Sweep("Reverse", at.target, p)]
                         ELSE IF edge
                         THEN [at |-> SweptOn(seen, p, Step), table |-> [h.table EXCEPT ![Entry(p)] = at.target]]
                         ELSE [h EXCEPT !.at = SweptOn(at, p, Step)]
    BY <1>2 DEF HallStep, ForwardStep
  <2>4. /\ Sweep("Reverse", at.target, p) \in Sweeps /\ SweptOn(seen, p, Step) \in Sweeps
        /\ SweptOn(at, p, Step) \in Sweeps
    BY <2>1, <2>2, SweepTyped, SweptTyped DEF Step
  <2>5. [h.table EXCEPT ![Entry(p)] = at.target] \in [1 .. 6 -> Angles]
    BY <2>1, EntryTyped
  <2> HIDE DEF at, edge, closes, first, seen
  <2> QED BY <1>0, <2>3, <2>4, <2>5
<1>3. CASE h.at.sweep = "Reverse"
  <2> DEFINE at == h.at
             edge == at.prev # p
             entry == Entry(at.prev)
             mean == Wrapped(h.table[entry] + Disagreement(h) \div 2)
             edges == Counted(at.edges)
             passed == [h EXCEPT !.table[entry] = mean]
  <2>1. at \in Sweeps /\ at.target \in Angles /\ h.table \in [1 .. 6 -> Angles] /\ at.prev \in Patterns
    BY <1>3, HallKinds DEF Sweeps
  <2>2. entry \in 1 .. 6 /\ edges \in 0 .. EdgesNeeded
    BY <2>1, EntryTyped DEF Sweeps
  <2>3. mean \in Angles
    <3>1. h.table[entry] \in Int /\ Disagreement(h) \in Int
      BY <2>1, <2>2, AngleTyped, DiffTyped DEF Disagreement
    <3>2. Disagreement(h) \div 2 \in Int
      BY <3>1
    <3> QED BY <3>1, <3>2, AngleTyped
  <2> HIDE DEF mean, entry, edges
  <2>4. /\ \A a \in Sweeps \cup Settlings \cup Finishes : [passed EXCEPT !.at = a] \in HallStates
    <3>1. passed = [h EXCEPT !.table = [h.table EXCEPT ![entry] = mean]]
      OBVIOUS
    <3>2. [h.table EXCEPT ![entry] = mean] \in [1 .. 6 -> Angles]
      BY <2>1, <2>2, <2>3
    <3>3. passed \in HallStates
      BY <3>1, <3>2 DEF HallStates
    <3> QED BY <3>3 DEF HallStates
  <2>5. HallStep(h, p) =
          IF edge /\ at.first # NoPattern
          THEN IF at.first = p /\ edges >= EdgesNeeded
               THEN [passed EXCEPT !.at = Finished(at.target)]
               ELSE [passed EXCEPT !.at = SweptOn([at EXCEPT !.edges = edges], p, -Step)]
          ELSE [h EXCEPT !.at = SweptOn([at EXCEPT !.first = IF edge THEN p ELSE @], p, -Step)]
    BY <1>3 DEF HallStep, ReverseStep, mean, entry, edges
  <2>6. Finished(at.target) \in Finishes
    BY <2>1 DEF Finished, Finishes
  <2>7. SweptOn([at EXCEPT !.edges = edges], p, -Step) \in Sweeps
    <3>1. [at EXCEPT !.edges = edges] \in Sweeps
      BY <2>1, <2>2 DEF Sweeps
    <3> QED BY <3>1, SweptTyped DEF Step
  <2>8. SweptOn([at EXCEPT !.first = IF edge THEN p ELSE @], p, -Step) \in Sweeps
    <3>1. [at EXCEPT !.first = IF edge THEN p ELSE @] \in Sweeps
      BY <2>1 DEF Sweeps
    <3> QED BY <3>1, SweptTyped DEF Step
  <2> HIDE DEF at, edge, passed
  <2> QED BY <1>0, <2>4, <2>5, <2>6, <2>7, <2>8
<1>4. CASE h.at.sweep = "Done"
  BY <1>4 DEF HallStep
<1> QED BY <1>1, <1>2, <1>3, <1>4, HallKinds

-----------------------------------------------------------------------------
(***************************************************************************)
(* The types of all variables.  TypeOK says of the records what a reader   *)
(* wants to know; the whole of their types is what is inductive.           *)
(***************************************************************************)
Volts == {-1, 0, 1} \X {-1, 0, 1}
Motors == [sensor : Sensors, friction : Frictions, slope : Slopes]

ControlTyped ==
  /\ mode \in {"Idle", "Calibration", "Fault"}
  /\ phase \in Phases
  /\ waited \in 0 .. HallTimeout + 1
  /\ mode = "Calibration" /\ phase = "HallCalibration" => waited <= HallTimeout
  /\ hall \in HallStates
  /\ est \in EstimatorStates /\ Counts(est)
  /\ known \subseteq Measured
  /\ unwind \in BOOLEAN
  /\ result \in StageResults
  /\ law \in Laws /\ loaded \in Loops \cup {"none"}

BenchTyped ==
  /\ rotor \in Angles /\ motor \in Motors
  /\ current \in Int /\ volts \in Volts
  /\ bounces \in 0 .. MaxBounces /\ starts \in 0 .. MaxStarts

WellTyped == ControlTyped /\ BenchTyped

LEMMA ImpliesTypeOK == WellTyped => TypeOK
<1> SUFFICES ASSUME WellTyped PROVE TypeOK
  OBVIOUS
<1>1. /\ hall.table \in [1 .. 6 -> Angles] /\ hall.at.target \in Angles
      /\ hall.at.sweep \in {"Forward", "Reverse"} =>
           /\ hall.at.prev \in Patterns /\ hall.at.first \in Patterns \cup {NoPattern}
           /\ hall.at.edges \in 0 .. EdgesNeeded
  BY HallKinds DEF WellTyped, ControlTyped, Sweeps
<1>2. /\ est.state = "EstR" => est.block \in 0 .. Blocks - 1 /\ est.ran \in 0 .. TestTime - 1
      /\ est.state = "EstL" => est.ran \in 0 .. 2 * TestTime - 1 /\ est.plus + est.minus <= est.ran
      /\ est.state = "Failure" => est.fault \in EstimationFailures
  BY Kinds DEF WellTyped, ControlTyped, Counts, EstRs, EstLs, Failures
<1>3. est.state = "EstF" => est.samples <= TestTime
  BY Kinds, Times DEF WellTyped, ControlTyped, Counts, EstFs
<1> QED BY <1>1, <1>2, <1>3 DEF WellTyped, ControlTyped, BenchTyped, TypeOK

\* The bench.
LEMMA SectorTyped == ASSUME NEW a \in Angles PROVE SectorAt(a) \in 0 .. 5
<1> DEFINE x == Wrapped(a - HallOffset)
           q == x \div Sector
<1>1. x \in Angles /\ Sector \in Nat \ {0} /\ Turn = 6 * Sector
  BY AngleTyped DEF Turn
<1>2. x \in Int /\ 0 <= x /\ x < 6 * Sector
  BY <1>1 DEF Angles
<1> HIDE DEF x
<1>3. q \in Int /\ q * Sector <= x /\ x < (q + 1) * Sector
  BY <1>1, <1>2
<1> HIDE DEF q
<1>4. q <= 5
  <2>1. q >= 6 => q * Sector >= 6 * Sector
    BY <1>1, <1>3
  <2> QED BY <1>1, <1>2, <1>3, <2>1
<1>5. q >= 0
  <2>1. q + 1 <= 0 => (q + 1) * Sector <= 0
    BY <1>1, <1>3
  <2> QED BY <1>1, <1>2, <1>3, <2>1
<1> QED BY <1>3, <1>4, <1>5 DEF SectorAt, q, x

LEMMA PatternTyped == ASSUME BenchTyped, NEW bounce \in BOOLEAN PROVE Pattern(bounce) \in Patterns
<1>1. motor.sensor \in [0 .. 5 -> Patterns] /\ rotor \in Angles /\ rotor \in Int
  BY CommissioningAssumption, AngleTyped DEF BenchTyped, Motors
<1>2. Wrapped(rotor + Step) \in Angles /\ Wrapped(rotor + -Step) \in Angles
  BY <1>1, AngleTyped DEF Step
<1>3. \A a \in Angles : motor.sensor[SectorAt(a)] \in Patterns
  BY <1>1, SectorTyped
<1> QED BY <1>1, <1>2, <1>3 DEF Pattern

LEMMA DraggedTyped == ASSUME BenchTyped, NEW target \in Angles PROVE Dragged(target) \in Angles
<1>1. motor.friction.forward \in Int /\ motor.friction.reverse \in Int /\ rotor \in Angles /\ target \in Int
  BY CommissioningAssumption, AngleTyped DEF BenchTyped, Motors
<1>2. Wrapped(target - motor.friction.forward) \in Angles /\ Wrapped(target + motor.friction.reverse) \in Angles
  BY <1>1, AngleTyped
<1> QED BY <1>1, <1>2 DEF Dragged

LEMMA SlopeTyped == ASSUME BenchTyped PROVE motor.slope \in Nat
<1>1. motor.slope \in Slopes
  BY DEF BenchTyped, Motors
<1>2. Slopes \subseteq Nat
  BY CommissioningAssumption
<1> QED BY <1>1, <1>2

LEMMA CurrentsTyped ==
  ASSUME BenchTyped
  PROVE  /\ CurrentDecays => current' \in Int /\ volts' \in Volts
         /\ \A sign \in Signs : CurrentFlows(sign) => current' \in Int /\ volts' \in Volts
<1>1. motor.slope \in Int /\ current \in Int /\ volts[2] \in {-1, 0, 1}
  <2>1. current \in Int /\ volts \in Volts
    BY DEF BenchTyped
  <2>2. volts[2] \in {-1, 0, 1}
    BY <2>1 DEF Volts
  <2> QED BY <2>1, <2>2, SlopeTyped
<1>2. CurrentDecays => current' \in Int /\ volts' \in Volts
  BY DEF CurrentDecays, Volts
<1>3. ASSUME NEW sign \in Signs, CurrentFlows(sign) PROVE current' \in Int /\ volts' \in Volts
  <2>1. sign \in {-1, 0, 1} /\ volts[2] + sign \in Int
    BY <1>1 DEF Signs
  <2>2. motor.slope * (volts[2] + sign) \in Int
    BY <1>1, <2>1
  <2>3. current' = current + motor.slope * (volts[2] + sign) /\ volts' = <<volts[2], sign>>
    BY <1>3 DEF CurrentFlows
  <2> QED BY <1>1, <2>1, <2>2, <2>3 DEF Volts
<1> QED BY <1>2, <1>3

LEMMA StepsTyped ==
  ASSUME WellTyped, NEW e \in EstimatorStates, Counts(e), EstimatorSteps(e)
  PROVE  /\ est' \in EstimatorStates /\ Counts(est')
         /\ known' \subseteq Measured /\ unwind' \in BOOLEAN
         /\ current' \in Int /\ volts' \in Volts
<1>1. PICK r \in EstimatorStep(e, current) :
        /\ est' = r.next /\ known' = known \cup r.found /\ unwind' = (unwind \/ r.unwinds)
        /\ IF e.state = "EstL" /\ r.next.state = "EstL" /\ e.axis = r.next.axis THEN CurrentFlows(e.sign)
           ELSE IF e.state = "RotorLockWait" THEN current' = TargetCurrent /\ volts' = <<0, 0>>
           ELSE CurrentDecays
  BY DEF EstimatorSteps
<1>2. current \in Int /\ known \subseteq Measured
  BY DEF WellTyped, ControlTyped, BenchTyped
<1>3. r.next \in EstimatorStates /\ Counts(r.next) /\ r.found \subseteq Measured
  BY <1>2, EstimatorTyped
<1>4. e.state = "EstL" => e.sign \in Signs
  BY Kinds DEF EstLs
<1>5. current' \in Int /\ volts' \in Volts
  <2>1. TargetCurrent \in Int /\ <<0, 0>> \in Volts /\ BenchTyped
    BY Times DEF WellTyped, Volts
  <2> QED BY <1>1, <1>4, <2>1, CurrentsTyped
<1> QED BY <1>1, <1>2, <1>3, <1>5

-----------------------------------------------------------------------------
\* Every action keeps the types.

LEMMA StepSets ==
  /\ Laws = {"lock", "relock", "sweep", "spin", "voltage", "none"} /\ Loops = {"lock", "relock", "sweep", "spin"}
  /\ Phases = {"ClearingExistingParameters", "HallCalibration", "MotorEstimation",
               "WaitingHallCompletion", "WaitingTuning", "Done"}
  /\ WaitPhases = {"ClearingExistingParameters", "WaitingHallCompletion", "WaitingTuning"}
  /\ {"None", "HallCalibration", "UnwindRequest", "TuningRequest", "MotorParameters"} \subseteq StageResults
  /\ CalibrationFailures \subseteq StageResults /\ EstimationFailures \subseteq CalibrationFailures
  /\ HallFailures \subseteq CalibrationFailures
  /\ {"CalibrationTimeout", "HallEdgeDisagreement"} \subseteq CalibrationFailures
  /\ {"None", "HallCalibration", "UnwindRequest", "TuningRequest", "MotorParameters"} \cap CalibrationFailures = {}
BY DEF Laws, Loops, Phases, WaitPhases, StageResults, CalibrationFailures, EstimationFailures, HallFailures

LEMMA CommandsTyped ==
  ASSUME WellTyped, NEW res \in StageResults, NEW newLaw \in Laws, Commands(res, newLaw)
  PROVE  /\ mode' \in {"Calibration", "Fault"} /\ result' \in StageResults /\ law' \in Laws
         /\ loaded' \in Loops \cup {"none"} /\ starts' \in 0 .. MaxStarts /\ motor' \in Motors
         /\ res \in CalibrationFailures => mode' = "Fault"
         /\ res \notin CalibrationFailures => mode' = "Calibration"
BY DEF WellTyped, ControlTyped, BenchTyped, Commands, Faulted

LEMMA ReportsTyped ==
  ASSUME WellTyped, NEW res \in StageResults, NEW newPhase \in Phases, Reports(res, newPhase),
         waited' \in 0 .. HallTimeout + 1, unwind' \in BOOLEAN,
         newPhase = "HallCalibration" => res \in CalibrationFailures
  PROVE  WellTyped'
<1>1. Commands(res, "voltage") /\ phase' = newPhase /\ CurrentDecays /\ UNCHANGED <<hall, est, known, rotor, bounces>>
  BY DEF Reports
<1>2. "voltage" \in Laws /\ BenchTyped
  BY StepSets DEF WellTyped
<1>3. current' \in Int /\ volts' \in Volts
  BY <1>1, <1>2, CurrentsTyped
<1>4. /\ mode' \in {"Calibration", "Fault"} /\ result' \in StageResults /\ law' \in Laws
      /\ loaded' \in Loops \cup {"none"} /\ starts' \in 0 .. MaxStarts /\ motor' \in Motors
      /\ res \in CalibrationFailures => mode' = "Fault"
  BY <1>1, <1>2, CommandsTyped
<1> QED BY <1>1, <1>3, <1>4 DEF WellTyped, ControlTyped, BenchTyped, Counts

LEMMA StartTyped == ASSUME WellTyped, StartCalibration PROVE WellTyped'
<1>1. Off \in EstimatorStates /\ Counts(Off)
  BY DEF EstimatorStates, Pauses, Off, Counts
<1>2. 0 \in 0 .. HallTimeout + 1 /\ starts' \in 0 .. MaxStarts
  BY CommissioningAssumption DEF StartCalibration, WellTyped, BenchTyped
<1>3. ControlTyped'
  BY <1>1, <1>2, StartedTyped, StepSets DEF StartCalibration, ControlTyped, Counts
<1>4. BenchTyped'
  BY <1>2 DEF StartCalibration, bench, WellTyped, BenchTyped
<1> QED BY <1>3, <1>4 DEF WellTyped

LEMMA StopTyped == ASSUME WellTyped, Stop \/ FinishCalibration PROVE WellTyped'
BY DEF Stop, FinishCalibration, bench, WellTyped, ControlTyped, BenchTyped, Counts

LEMMA ResumeTyped == ASSUME WellTyped, Resume PROVE WellTyped'
<1>0. est \in EstimatorStates /\ Counts(est) /\ BenchTyped
  BY DEF WellTyped, ControlTyped
<1>1. /\ \A k \in BOOLEAN : RotorLockWait(k) \in EstimatorStates /\ Counts(RotorLockWait(k))
      /\ EstF \in EstimatorStates /\ Counts(EstF)
      /\ Failure("MissingMotorParams") \in EstimatorStates /\ Counts(Failure("MissingMotorParams"))
  <2>1. Counts(EstF)
    BY Times DEF Counts, EstF
  <2>2. \A k : Counts(RotorLockWait(k)) /\ Counts(Failure("MissingMotorParams"))
    BY DEF Counts, RotorLockWait, Failure
  <2>3. "MissingMotorParams" \in EstimationFailures
    BY DEF EstimationFailures
  <2> QED BY <2>1, <2>2, <2>3, Starts DEF EstimatorStates
<1>2. est' \in EstimatorStates /\ Counts(est')
  <2>1. est' \in {RotorLockWait(FALSE), AcknowledgeHall(est), AcknowledgeTuning(est, known)}
    BY StepSets DEF Resume
  <2> QED BY <1>0, <1>1, <2>1 DEF AcknowledgeHall, AcknowledgeTuning
<1>3. phase' = "MotorEstimation" /\ mode' = mode
      /\ UNCHANGED <<waited, hall, known, result, law, rotor, motor, bounces, starts>>
  BY DEF Resume, Resumed
<1>4. unwind' \in BOOLEAN /\ loaded' \in Loops \cup {"none"}
  BY DEF Resume, WellTyped, ControlTyped
<1>5. current' \in Int /\ volts' \in Volts
  BY <1>0, CurrentsTyped DEF Resume
<1> QED BY <1>2, <1>3, <1>4, <1>5, StepSets DEF WellTyped, ControlTyped, BenchTyped, Counts

LEMMA HallTickTyped == ASSUME WellTyped, mode = "Calibration", HallTick PROVE WellTyped'
<1>1. phase = "HallCalibration" /\ waited' = waited + 1 /\ unwind' = unwind /\ waited \in 0 .. HallTimeout
      /\ HallTimeout \in Nat /\ hall \in HallStates /\ BenchTyped /\ unwind \in BOOLEAN
  BY CommissioningAssumption DEF HallTick, WellTyped, ControlTyped
<1>2. waited' \in 0 .. HallTimeout + 1
  BY <1>1
<1>3. CASE Reports("CalibrationTimeout", phase)
  BY <1>1, <1>2, <1>3, ReportsTyped, StepSets
<1>4. CASE Reports("HallCalibration", "WaitingHallCompletion")
  BY <1>1, <1>2, <1>4, ReportsTyped, StepSets
<1>5. CASE Reports("HallEdgeDisagreement", phase)
  BY <1>1, <1>2, <1>5, ReportsTyped, StepSets
<1>6. ASSUME NEW bounce \in BOOLEAN, ~HallTimesOut, Bounces(bounce), hall' = HallStep(hall, Pattern(bounce)),
             rotor' = Dragged(hall'.at.target), Commands("None", "sweep"), CurrentDecays, UNCHANGED <<phase, est, known>>
      PROVE  WellTyped'
  <2>1. hall' \in HallStates
    BY <1>1, <1>6, PatternTyped, HallTyped
  <2>2. rotor' \in Angles
    <3>1. hall'.at.target \in Angles
      BY <2>1, HallKinds
    <3> QED BY <1>1, <1>6, <3>1, DraggedTyped
  <2>3. waited' <= HallTimeout
    BY <1>1, <1>6 DEF HallTimesOut
  <2>4. bounces' \in 0 .. MaxBounces
    <3>1. bounces \in 0 .. MaxBounces
      BY <1>1 DEF WellTyped, BenchTyped
    <3>2. MaxBounces \in Nat
      BY CommissioningAssumption
    <3>3. bounces' = bounces \/ (bounces' = bounces + 1 /\ bounces < MaxBounces)
      BY <1>6, Zenon DEF Bounces
    <3> QED BY <3>1, <3>2, <3>3
  <2>5. current' \in Int /\ volts' \in Volts
    BY <1>1, <1>6, CurrentsTyped
  <2>6. /\ mode' \in {"Calibration", "Fault"} /\ result' \in StageResults /\ law' \in Laws
        /\ loaded' \in Loops \cup {"none"} /\ starts' \in 0 .. MaxStarts /\ motor' \in Motors
    BY <1>6, CommandsTyped, StepSets
  <2> QED BY <1>1, <1>2, <1>6, <2>1, <2>2, <2>3, <2>4, <2>5, <2>6 DEF WellTyped, ControlTyped, BenchTyped, Counts
<1> QED BY <1>3, <1>4, <1>5, <1>6 DEF HallTick

LEMMA EstimatesTyped ==
  ASSUME WellTyped, mode = "Calibration", phase = "MotorEstimation", waited' = waited,
         NEW e \in EstimatorStates, Counts(e), EstimatorSteps(e),
         NEW newLaw \in Laws, Commands("None", newLaw), rotor' \in Angles, UNCHANGED <<phase, hall, bounces>>
  PROVE  WellTyped'
<1>1. /\ est' \in EstimatorStates /\ Counts(est') /\ known' \subseteq Measured /\ unwind' \in BOOLEAN
      /\ current' \in Int /\ volts' \in Volts
  BY StepsTyped
<1>2. /\ mode' \in {"Calibration", "Fault"} /\ result' \in StageResults /\ law' \in Laws
      /\ loaded' \in Loops \cup {"none"} /\ starts' \in 0 .. MaxStarts /\ motor' \in Motors
  BY CommandsTyped, StepSets
<1> QED BY <1>1, <1>2 DEF WellTyped, ControlTyped, BenchTyped, Counts

LEMMA EstimationTickTyped == ASSUME WellTyped, mode = "Calibration", EstimationTick PROVE WellTyped'
<1>0. /\ phase = "MotorEstimation" /\ est \in EstimatorStates /\ Counts(est) /\ unwind \in BOOLEAN
      /\ BenchTyped /\ rotor \in Angles /\ hall \in HallStates /\ waited \in 0 .. HallTimeout + 1
      /\ (Request # "hall" => waited' = waited)
  BY DEF EstimationTick, WellTyped, ControlTyped, BenchTyped
<1>1. CASE Request = "fault"
  <2>1. est.state = "Failure" /\ Reports(est.fault, "Done") /\ unwind' = unwind
    BY <1>1 DEF EstimationTick, Request
  <2>2. est.fault \in EstimationFailures
    BY <1>0, <2>1, Kinds DEF Failures
  <2> QED BY <1>0, <1>1, <2>1, <2>2, ReportsTyped, StepSets
<1>2. CASE Request = "done"
  BY <1>0, <1>2, ReportsTyped, StepSets DEF EstimationTick
<1>3. CASE Request = "unwind"
  BY <1>0, <1>3, ReportsTyped, StepSets DEF EstimationTick
<1>4. CASE Request = "tune"
  BY <1>0, <1>4, ReportsTyped, StepSets DEF EstimationTick
<1>5. CASE Request = "hall"
  <2>1. HallRequested
    BY <1>5 DEF EstimationTick
  <2>2. CASE HasHall
    <3>1. /\ Commands("None", "voltage") /\ phase' = "HallCalibration" /\ hall' = Started /\ waited' = 0
          /\ UNCHANGED <<est, known, unwind>> /\ CurrentDecays /\ UNCHANGED <<rotor, bounces>>
      BY <2>1, <2>2 DEF HallRequested
    <3>2. current' \in Int /\ volts' \in Volts /\ 0 \in 0 .. HallTimeout + 1 /\ 0 <= HallTimeout
      BY <1>0, <3>1, CurrentsTyped, CommissioningAssumption
    <3>3. /\ mode' \in {"Calibration", "Fault"} /\ result' \in StageResults /\ law' \in Laws
          /\ loaded' \in Loops \cup {"none"} /\ starts' \in 0 .. MaxStarts /\ motor' \in Motors
      BY <3>1, CommandsTyped, StepSets
    <3> QED BY <3>1, <3>2, <3>3, StartedTyped, StepSets DEF WellTyped, ControlTyped, BenchTyped, Counts
  <2>3. CASE ~HasHall
    <3>1. /\ Commands("None", "voltage") /\ EstimatorSteps(AcknowledgeHall(est))
          /\ UNCHANGED <<phase, hall, waited>> /\ UNCHANGED <<rotor, bounces>>
      BY <2>1, <2>3 DEF HallRequested
    <3>2. AcknowledgeHall(est) \in EstimatorStates /\ Counts(AcknowledgeHall(est))
      <4>1. RotorLockWait(TRUE) \in EstimatorStates /\ Counts(RotorLockWait(TRUE))
        BY Starts DEF EstimatorStates, Counts, RotorLockWait
      <4> QED BY <1>0, <4>1 DEF AcknowledgeHall
    <3> QED BY <1>0, <3>1, <3>2, EstimatesTyped, StepSets
  <2> QED BY <2>2, <2>3
<1>6. CASE Request = "none"
  <2>1. Estimates
    BY <1>6 DEF EstimationTick
  <2>2. rotor' \in Angles
    BY <1>0, <2>1, DraggedTyped, AngleTyped DEF Estimates
  <2>3. EstimatorLaw(est) \in Laws
    BY StepSets DEF EstimatorLaw
  <2> QED BY <1>0, <1>6, <2>1, <2>2, <2>3, EstimatesTyped DEF Estimates
<1> QED BY <1>1, <1>2, <1>3, <1>4, <1>5, <1>6 DEF Request

LEMMA QuietTicksTyped == ASSUME WellTyped, mode = "Calibration", WaitingTick \/ DoneTick PROVE WellTyped'
<1>1. BenchTyped
  BY DEF WellTyped
<1>2. CASE WaitingTick
  <2>1. current' \in Int /\ volts' \in Volts
    BY <1>1, <1>2, CurrentsTyped DEF WaitingTick
  <2> QED BY <1>2, <2>1, StepSets DEF WaitingTick, WellTyped, ControlTyped, BenchTyped, Counts
<1>3. CASE DoneTick
  <2>1. current' \in Int /\ volts' \in Volts
    BY <1>1, <1>3, CurrentsTyped DEF DoneTick
  <2>2. /\ mode' \in {"Calibration", "Fault"} /\ result' \in StageResults /\ law' \in Laws
        /\ loaded' \in Loops \cup {"none"} /\ starts' \in 0 .. MaxStarts /\ motor' \in Motors
    BY <1>3, CommandsTyped, StepSets DEF DoneTick
  <2> QED BY <1>3, <2>1, <2>2 DEF DoneTick, WellTyped, ControlTyped, BenchTyped, Counts
<1> QED BY <1>2, <1>3

LEMMA InitWellTyped == Init => WellTyped
<1> SUFFICES ASSUME Init PROVE WellTyped
  OBVIOUS
<1>1. Off \in EstimatorStates /\ Counts(Off)
  BY DEF EstimatorStates, Pauses, Off, Counts
<1>2. 0 \in 0 .. HallTimeout + 1 /\ 0 \in 0 .. MaxStarts /\ 0 \in 0 .. MaxBounces
  BY CommissioningAssumption
<1>3. Turn \div 2 \in Angles
  BY AngleTyped DEF Angles
<1>4. ControlTyped
  BY <1>1, <1>2, StartedTyped, StepSets DEF Init, ControlTyped
<1>5. BenchTyped
  BY <1>2, <1>3, AngleTyped DEF Init, BenchTyped, Motors, Volts
<1> QED BY <1>4, <1>5 DEF WellTyped

LEMMA NextWellTyped == ASSUME WellTyped, [Next]_vars PROVE WellTyped'
<1>1. CASE UNCHANGED vars
  BY <1>1 DEF vars, control, bench, WellTyped, ControlTyped, BenchTyped, Counts
<1> QED BY <1>1, StartTyped, StopTyped, ResumeTyped, HallTickTyped, EstimationTickTyped, QuietTicksTyped DEF Next, Task, Tick

LEMMA AlwaysWellTyped == Spec => []WellTyped
BY InitWellTyped, NextWellTyped, PTL DEF Spec

(***************************************************************************)
(* Type correctness of a calibration: the counters of its tests and of the *)
(* hall sweep stay within their ends, whatever the motor does.             *)
(***************************************************************************)
THEOREM CommissioningTyped == Spec => []TypeOK
BY AlwaysWellTyped, ImpliesTypeOK, PTL

-----------------------------------------------------------------------------
(***************************************************************************)
(* The stages.  What the estimator knows is measured before the stage that *)
(* needs it, and a request to unwind is answered before the hall           *)
(* calibration that it precedes.                                           *)
(***************************************************************************)
Resistance == {"stator_resistance", "deadtime_ratio"}
Inductances == {"d_inductance", "q_inductance"}

PhaseOf ==
  /\ phase = "ClearingExistingParameters" => est = Off
  /\ phase \in {"HallCalibration", "WaitingHallCompletion"} => est = HallCalibrationRequired /\ ~unwind
  /\ phase = "WaitingTuning" => est = TuningRequired
  /\ phase = "Done" => est.state \in {"Failure", "Done"}
  /\ phase = "MotorEstimation" => est # Off

KnowsEnough(e, k) ==
  /\ e.state \in {"HallCalibrationRequired", "EstL", "TuningRequired", "EstF", "RampDown", "Done"} => Resistance \subseteq k
  /\ e.state = "RotorLockWait" /\ e.knows => Resistance \subseteq k
  /\ e.state = "EstL" /\ e.axis = "q" => "d_inductance" \in k
  /\ e.state \in {"TuningRequired", "EstF", "RampDown", "Done"} => Inductances \subseteq k
  /\ e.state = "Done" => k = Measured

UnwindOnly == unwind => est.state \in {"HallCalibrationRequired", "Failure", "Done"}

Staged == PhaseOf /\ KnowsEnough(est, known) /\ UnwindOnly

\* Where a step of the estimator leads: it stays in its state, fails, or comes to the next one.
Stays(e, r) ==
  /\ r.found = {} /\ r.unwinds = FALSE /\ r.next.state = e.state
  /\ e.state = "RotorLockWait" => r.next.knows = e.knows
  /\ e.state = "EstL" => r.next.axis = e.axis

GivesUp(r) == r.next.state = "Failure" /\ r.found = {} /\ r.unwinds = TRUE

Advances(e, r) ==
  \/ /\ e.state = "RotorLockWait" /\ r.found = {} /\ r.unwinds = FALSE
     /\ IF e.knows THEN r.next.state = "EstL" /\ r.next.axis = "d" ELSE r.next.state = "EstR"
  \/ /\ e.state = "EstR" /\ r.found = Resistance /\ r.unwinds = TRUE
     /\ r.next.state = "HallCalibrationRequired"
  \/ /\ e.state = "EstL" /\ r.unwinds = FALSE
     /\ IF e.axis = "d" THEN r.next.state = "EstL" /\ r.next.axis = "q" /\ r.found = {"d_inductance"}
        ELSE r.next.state = "TuningRequired" /\ r.found = {"q_inductance"}
  \/ e.state = "EstF" /\ r.found = {} /\ r.unwinds = FALSE /\ r.next.state = "RampDown"
  \/ e.state = "RampDown" /\ r.found = {"pm_flux_linkage"} /\ r.unwinds = TRUE /\ r.next.state = "Done"

LEMMA EstimatorMoves ==
  ASSUME NEW e \in EstimatorStates, Counts(e), NEW c \in Int, NEW r \in EstimatorStep(e, c)
  PROVE  Stays(e, r) \/ GivesUp(r) \/ Advances(e, r)
<1>1. ASSUME Failed(r) PROVE GivesUp(r)
  <2>1. PICK f \in EstimationFailures : r = Fails(f)
    BY <1>1 DEF Failed
  <2>2. r.next = Failure(f) /\ r.found = {} /\ r.unwinds = TRUE
    BY <2>1, StepResults
  <2> QED BY <2>2 DEF GivesUp, Failure
<1>2. CASE e.state = "RotorLockWait"
  <2>1. e \in RotorLockWaits /\ r \in RotorLockWaitStep(e, c)
    BY <1>2, Kinds DEF EstimatorStep
  <2>2. EstL("d", c).state = "EstL" /\ EstL("d", c).axis = "d" /\ EstR.state = "EstR"
    BY DEF EstL, EstR
  <2>3. \A n \in RotorLockWaits : n.state = "RotorLockWait"
    BY DEF RotorLockWaits
  <2> QED BY <1>2, <2>1, <2>2, <2>3, RotorLockWaitSteps DEF Stays, Advances
<1>3. CASE e.state = "EstR"
  <2>1. e \in EstRs /\ r \in EstRStep(e)
    BY <1>3, Kinds DEF EstimatorStep
  <2>2. \A n \in EstRs : n.state = "EstR"
    BY DEF EstRs
  <2>3. HallCalibrationRequired.state = "HallCalibrationRequired"
    BY DEF HallCalibrationRequired
  <2>4. ASSUME r = StepResult(HallCalibrationRequired, Resistance, TRUE) PROVE Advances(e, r)
    <3>1. r.next = HallCalibrationRequired /\ r.found = Resistance /\ r.unwinds = TRUE
      BY <2>4 DEF StepResult
    <3> QED BY <1>3, <2>3, <3>1 DEF Advances
  <2> QED BY <1>1, <1>3, <2>1, <2>2, <2>4, EstRSteps DEF Stays, Resistance
<1>4. CASE e.state = "EstL"
  <2>1. e \in EstLs /\ r \in EstLStep(e, c) \cup EstLRefuses(e)
    BY <1>4, Kinds DEF EstimatorStep
  <2>2. \A n \in {EstLSampled(e, c), EstLFlipped(e, c)} : n.state = "EstL" /\ n.axis = e.axis
    BY <2>1, EstLNext
  <2>3. ASSUME NEW n \in {EstLSampled(e, c), EstLFlipped(e, c)}, r = Goes(n) PROVE Stays(e, r)
    BY <1>4, <2>2, <2>3, StepResults DEF Stays
  <2>4. /\ EstL("q", 0).state = "EstL" /\ EstL("q", 0).axis = "q"
        /\ TuningRequired.state = "TuningRequired"
    BY DEF EstL, TuningRequired
  <2>5. CASE r = IF e.axis = "d" THEN StepResult(EstL("q", 0), {"d_inductance"}, FALSE)
                 ELSE StepResult(TuningRequired, {"q_inductance"}, FALSE)
    <3>1. /\ e.axis = "d" => r.next = EstL("q", 0) /\ r.found = {"d_inductance"}
          /\ e.axis # "d" => r.next = TuningRequired /\ r.found = {"q_inductance"}
          /\ r.unwinds = FALSE
      BY <2>5 DEF StepResult
    <3> QED BY <1>4, <2>4, <3>1 DEF Advances
  <2> QED BY <1>1, <2>1, <2>3, <2>5, EstLSteps
<1>5. CASE e.state = "EstF"
  <2>1. e \in EstFs /\ r \in EstFStep(e)
    BY <1>5, Kinds DEF EstimatorStep
  <2>2. r.next.state \in {"EstF", "RampDown"}
    BY <2>1, EstFSteps DEF EstFs, RampDowns
  <2> QED BY <1>5, <2>1, <2>2, EstFSteps DEF Stays, Advances
<1>6. CASE e.state = "RampDown"
  <2>1. e \in RampDowns /\ r \in RampDownStep(e)
    BY <1>6, Kinds DEF EstimatorStep
  <2>2. (\A n \in RampDowns : n.state = "RampDown") /\ Done.state = "Done"
    BY DEF RampDowns, Done
  <2>3. ASSUME r = StepResult(Done, {"pm_flux_linkage"}, TRUE) PROVE Advances(e, r)
    <3>1. r.next = Done /\ r.found = {"pm_flux_linkage"} /\ r.unwinds = TRUE
      BY <2>3 DEF StepResult
    <3> QED BY <1>6, <2>2, <3>1 DEF Advances
  <2> QED BY <1>1, <1>6, <2>1, <2>2, <2>3, RampDownSteps DEF Stays
<1>7. CASE e.state \notin {"RotorLockWait", "EstR", "EstL", "EstF", "RampDown"}
  <2>1. e \in Failures \cup Pauses
    BY <1>7, Kinds DEF EstimatorStates
  <2> QED BY <1>7, <2>1, PauseSteps, StepResults DEF Stays
<1> QED BY <1>2, <1>3, <1>4, <1>5, <1>6, <1>7

LEMMA MovesKnow ==
  ASSUME NEW e \in EstimatorStates, NEW r, NEW k \in SUBSET Measured, KnowsEnough(e, k),
         Stays(e, r) \/ GivesUp(r) \/ Advances(e, r)
  PROVE  /\ KnowsEnough(r.next, k \cup r.found)
         /\ e.state # "Off" => r.next.state # "Off"
         /\ r.unwinds = TRUE => r.next.state \in {"HallCalibrationRequired", "Failure", "Done"}
<1>1. CASE Stays(e, r)
  <2>1. r.found = {} /\ k \cup {} = k
    BY <1>1 DEF Stays
  <2>2. KnowsEnough(r.next, k)
    BY <1>1 DEF Stays, KnowsEnough
  <2> QED BY <1>1, <2>1, <2>2 DEF Stays
<1>2. CASE GivesUp(r)
  BY <1>2 DEF GivesUp, KnowsEnough
<1>3. CASE Advances(e, r)
  <2>1. CASE e.state = "RotorLockWait"
    BY <1>3, <2>1 DEF Advances, KnowsEnough
  <2>2. CASE e.state = "EstR"
    BY <1>3, <2>2 DEF Advances, KnowsEnough
  <2>3. CASE e.state = "EstL"
    <3>1. Resistance \subseteq k /\ (e.axis = "q" => "d_inductance" \in k)
      BY <2>3 DEF KnowsEnough
    <3>2. CASE e.axis = "d"
      <4>1. r.next.state = "EstL" /\ r.next.axis = "q" /\ r.found = {"d_inductance"} /\ r.unwinds = FALSE
        BY <1>3, <2>3, <3>2 DEF Advances
      <4> QED BY <3>1, <4>1 DEF KnowsEnough
    <3>3. CASE e.axis # "d"
      <4>1. e.axis = "q"
        BY <2>3, <3>3, Kinds DEF EstLs
      <4>2. r.next.state = "TuningRequired" /\ r.found = {"q_inductance"} /\ r.unwinds = FALSE
        BY <1>3, <2>3, <3>3 DEF Advances
      <4> QED BY <3>1, <4>1, <4>2 DEF KnowsEnough, Inductances
    <3> QED BY <3>2, <3>3
  <2>4. CASE e.state = "EstF"
    BY <1>3, <2>4 DEF Advances, KnowsEnough
  <2>5. CASE e.state = "RampDown"
    <3>1. r.next.state = "Done" /\ r.found = {"pm_flux_linkage"} /\ r.unwinds = TRUE
      BY <1>3, <2>5 DEF Advances
    <3>2. Resistance \subseteq k /\ Inductances \subseteq k
      BY <2>5 DEF KnowsEnough
    <3>3. k \cup {"pm_flux_linkage"} = Measured
      BY <3>2 DEF Measured, Resistance, Inductances
    <3> QED BY <3>1, <3>2, <3>3 DEF KnowsEnough
  <2> QED BY <1>3, <2>1, <2>2, <2>3, <2>4, <2>5 DEF Advances
<1> QED BY <1>1, <1>2, <1>3

\* The estimator's part of a tick, from the state it is in after an acknowledgement.
LEMMA StepsMove ==
  ASSUME WellTyped, NEW e \in EstimatorStates, Counts(e), EstimatorSteps(e)
  PROVE  \E r \in EstimatorStep(e, current) :
           /\ est' = r.next /\ known' = known \cup r.found /\ unwind' = (unwind \/ r.unwinds)
           /\ Stays(e, r) \/ GivesUp(r) \/ Advances(e, r)
<1>1. PICK r \in EstimatorStep(e, current) :
        est' = r.next /\ known' = known \cup r.found /\ unwind' = (unwind \/ r.unwinds)
  BY Zenon DEF EstimatorSteps
<1>2. current \in Int
  BY DEF WellTyped, BenchTyped
<1> QED BY <1>1, <1>2, EstimatorMoves

LEMMA StepsKnow ==
  ASSUME WellTyped, NEW e \in EstimatorStates, Counts(e), e.state # "Off", ~unwind, KnowsEnough(e, known), EstimatorSteps(e),
         phase = "MotorEstimation", phase' = phase
  PROVE  Staged'
<1>1. PICK r \in EstimatorStep(e, current) :
        /\ est' = r.next /\ known' = known \cup r.found /\ unwind' = (unwind \/ r.unwinds)
        /\ Stays(e, r) \/ GivesUp(r) \/ Advances(e, r)
  BY StepsMove
<1>2. known \in SUBSET Measured
  BY DEF WellTyped, ControlTyped
<1>3. /\ KnowsEnough(r.next, known \cup r.found) /\ r.next.state # "Off"
      /\ r.unwinds = TRUE => r.next.state \in {"HallCalibrationRequired", "Failure", "Done"}
  BY <1>1, <1>2, MovesKnow
<1>4. KnowsEnough(est', known') /\ est' # Off
  BY <1>1, <1>3 DEF Off
<1>5. UnwindOnly'
  <2>1. r.unwinds \in BOOLEAN
    BY <1>1, EstimatorTyped DEF WellTyped, BenchTyped
  <2> QED BY <1>1, <1>3, <2>1, Zenon DEF UnwindOnly
<1> QED BY <1>4, <1>5 DEF Staged, PhaseOf

LEMMA InitStaged == Init => Staged
BY DEF Init, Staged, PhaseOf, KnowsEnough, UnwindOnly, Off

LEMMA StartStaged == ASSUME StartCalibration PROVE Staged'
BY DEF StartCalibration, Staged, PhaseOf, KnowsEnough, UnwindOnly, Off

LEMMA ResumeStaged == ASSUME WellTyped, Staged, Resume PROVE Staged' /\ known' = known
<1>1. /\ phase \in WaitPhases /\ phase' = "MotorEstimation" /\ known' = known
      /\ unwind' = (unwind /\ phase # "ClearingExistingParameters")
  BY DEF Resume, Resumed
<1>2. CASE phase = "ClearingExistingParameters"
  <2>1. est' = RotorLockWait(FALSE) /\ unwind' = FALSE
    BY <1>1, <1>2 DEF Resume
  <2> QED BY <1>1, <2>1 DEF Staged, PhaseOf, KnowsEnough, UnwindOnly, RotorLockWait, Off
<1>3. CASE phase = "WaitingHallCompletion"
  <2>1. est = HallCalibrationRequired /\ ~unwind
    BY <1>3 DEF Staged, PhaseOf
  <2>2. est' = RotorLockWait(TRUE) /\ unwind' = FALSE
    BY <1>1, <1>3, <2>1 DEF Resume, AcknowledgeHall
  <2>3. Resistance \subseteq known
    BY <2>1 DEF Staged, KnowsEnough, HallCalibrationRequired
  <2> QED BY <1>1, <2>2, <2>3 DEF Staged, PhaseOf, KnowsEnough, UnwindOnly, RotorLockWait, Off
<1>4. CASE phase = "WaitingTuning"
  <2>1. est = TuningRequired /\ est.state = "TuningRequired"
    BY <1>4 DEF Staged, PhaseOf, TuningRequired
  <2>2. Resistance \subseteq known /\ Inductances \subseteq known /\ ~unwind
    BY <2>1 DEF Staged, KnowsEnough, UnwindOnly
  <2>3. est' = EstF
    <3>1. est' = AcknowledgeTuning(est, known)
      BY <1>4 DEF Resume
    <3> QED BY <2>1, <2>2, <3>1 DEF AcknowledgeTuning, Inductances
  <2>4. unwind' = FALSE
    BY <1>1, <2>2
  <2> QED BY <1>1, <2>2, <2>3, <2>4 DEF Staged, PhaseOf, KnowsEnough, UnwindOnly, EstF, Off
<1> QED BY <1>1, <1>2, <1>3, <1>4 DEF WaitPhases

\* A tick in which the stage does not move: it may report, and a failure ends the calibration.
LEMMA ReportStaged ==
  ASSUME Staged, UNCHANGED <<est, known>>, unwind' => unwind,
         \/ phase' = phase
         \/ phase' = "Done" /\ est.state \in {"Failure", "Done"}
         \/ phase = "HallCalibration" /\ phase' = "WaitingHallCompletion"
         \/ phase = "MotorEstimation" /\ est = TuningRequired /\ phase' = "WaitingTuning"
         \/ phase = "MotorEstimation" /\ est = HallCalibrationRequired /\ ~unwind /\ phase' = "HallCalibration"
  PROVE  Staged'
<1>1. KnowsEnough(est, known)' /\ UnwindOnly'
  BY DEF Staged, KnowsEnough, UnwindOnly
<1>2. PhaseOf'
  BY Zenon DEF Staged, PhaseOf
<1> QED BY <1>1, <1>2 DEF Staged

\* What a request says of the estimator.
LEMMA RequestSays ==
  /\ Request = "fault" => est.state = "Failure"
  /\ Request = "done" => est.state = "Done"
  /\ Request = "tune" => est = TuningRequired
  /\ Request = "hall" => est = HallCalibrationRequired /\ ~unwind
  /\ Request = "none" => est.state # "Failure" /\ est # Done /\ ~unwind
  /\ Request \in {"fault", "done", "unwind", "tune", "hall", "none"}
<1>1. CASE est.state = "Failure"
  <2>1. Request = "fault"
    BY <1>1 DEF Request
  <2> QED BY <1>1, <2>1
<1>2. CASE est = Done
  <2>1. est.state = "Done" /\ est.state # "Failure"
    BY <1>2 DEF Done
  <2>2. Request = "done"
    BY <1>2, <2>1 DEF Request
  <2> QED BY <2>1, <2>2
<1>3. CASE est.state # "Failure" /\ est # Done /\ unwind
  <2>1. Request = "unwind"
    BY <1>3 DEF Request
  <2> QED BY <2>1
<1>4. CASE est.state # "Failure" /\ est # Done /\ ~unwind
  <2>1. Request = IF est = TuningRequired THEN "tune" ELSE IF est = HallCalibrationRequired THEN "hall" ELSE "none"
    BY <1>4 DEF Request
  <2> QED BY <1>4, <2>1
<1> QED BY <1>1, <1>2, <1>3, <1>4

LEMMA StopStaged == ASSUME Staged, Stop \/ FinishCalibration PROVE Staged'
BY ReportStaged DEF Stop, FinishCalibration, bench

LEMMA HallTickStaged == ASSUME Staged, HallTick PROVE Staged'
<1>1. /\ phase = "HallCalibration" /\ unwind' = unwind /\ UNCHANGED <<est, known>>
      /\ phase' \in {phase, "WaitingHallCompletion"}
  BY DEF HallTick, Reports
<1> QED BY <1>1, ReportStaged

LEMMA EstimationTickStaged == ASSUME WellTyped, Staged, EstimationTick PROVE Staged'
<1>0. phase = "MotorEstimation" /\ est \in EstimatorStates /\ Counts(est) /\ est.state # "Off"
  BY Kinds DEF EstimationTick, WellTyped, ControlTyped, Staged, PhaseOf
<1>1. CASE Request \in {"fault", "done"}
  <2>1. est.state \in {"Failure", "Done"}
    BY <1>1, RequestSays
  <2>2. UNCHANGED <<est, known>> /\ unwind' = unwind /\ phase' = "Done"
    BY <1>1 DEF EstimationTick, Reports
  <2> QED BY <2>1, <2>2, ReportStaged
<1>2. CASE Request = "unwind"
  BY <1>2, ReportStaged DEF EstimationTick, Reports
<1>3. CASE Request = "tune"
  BY <1>0, <1>3, RequestSays, ReportStaged DEF EstimationTick, Reports
<1>4. CASE Request = "hall"
  <2>1. HallRequested /\ est = HallCalibrationRequired /\ ~unwind
    BY <1>4, RequestSays DEF EstimationTick
  <2>2. CASE HasHall
    BY <1>0, <2>1, <2>2, ReportStaged DEF HallRequested
  <2>3. CASE ~HasHall
    <3>1. EstimatorSteps(RotorLockWait(TRUE)) /\ phase' = phase
      BY <2>1, <2>3 DEF HallRequested, AcknowledgeHall
    <3>2. RotorLockWait(TRUE) \in EstimatorStates /\ Counts(RotorLockWait(TRUE))
      BY Starts DEF EstimatorStates, Counts, RotorLockWait
    <3>3. KnowsEnough(RotorLockWait(TRUE), known) /\ RotorLockWait(TRUE).state # "Off"
      BY <2>1 DEF Staged, KnowsEnough, HallCalibrationRequired, RotorLockWait
    <3> QED BY <1>0, <2>1, <3>1, <3>2, <3>3, StepsKnow
  <2> QED BY <2>2, <2>3
<1>5. CASE Request = "none"
  <2>1. EstimatorSteps(est) /\ phase' = phase
    BY <1>5 DEF EstimationTick, Estimates
  <2>2. ~unwind
    BY <1>5, RequestSays
  <2> QED BY <1>0, <2>1, <2>2, StepsKnow DEF Staged
<1> QED BY <1>1, <1>2, <1>3, <1>4, <1>5, RequestSays

LEMMA QuietTicksStaged == ASSUME Staged, WaitingTick \/ DoneTick PROVE Staged'
BY ReportStaged DEF WaitingTick, DoneTick

LEMMA NextStaged == ASSUME WellTyped, Staged, [Next]_vars PROVE Staged'
<1>1. CASE UNCHANGED vars
  BY <1>1, ReportStaged DEF vars, control
<1> QED BY <1>1, StartStaged, StopStaged, ResumeStaged, HallTickStaged, EstimationTickStaged, QuietTicksStaged
        DEF Next, Task, Tick

LEMMA AlwaysStaged == Spec => [](WellTyped /\ Staged)
<1>1. Init => WellTyped /\ Staged
  BY InitWellTyped, InitStaged
<1>2. WellTyped /\ Staged /\ [Next]_vars => (WellTyped /\ Staged)'
  BY NextWellTyped, NextStaged
<1> QED BY <1>1, <1>2, PTL DEF Spec

-----------------------------------------------------------------------------
\* The protocol: its steps, with the refinement mapping of KeepsProtocol.
ProtocolPhase == IF mode = "Calibration" THEN phase ELSE "NotCalibrating"
ProtocolStep == Protocol!Next \/ UNCHANGED <<ProtocolPhase, StageOf(est), known>>

LEMMA MovesMeasure ==
  ASSUME NEW e \in EstimatorStates, NEW r, Stays(e, r) \/ GivesUp(r) \/ Advances(e, r)
  PROVE  StageOf(r.next) \in {StageOf(e), "failed"}
<1>1. CASE Stays(e, r)
  BY <1>1 DEF Stays, StageOf
<1>2. CASE GivesUp(r)
  BY <1>2 DEF GivesUp, StageOf
<1>3. CASE Advances(e, r)
  BY <1>3 DEF Advances, StageOf
<1> QED BY <1>1, <1>2, <1>3

LEMMA StartKeeps == ASSUME StartCalibration PROVE ProtocolStep
BY DEF StartCalibration, ProtocolStep, ProtocolPhase, StageOf, Off, Protocol!Next, Protocol!Start, Protocol!NotCalibrating

\* Only the phases of the runner are phases of the protocol, so an end is not mistaken for one.
LEMMA EndKeeps ==
  ASSUME WellTyped, mode = "Calibration", mode' # "Calibration", UNCHANGED <<est, known>>
  PROVE  ProtocolStep
BY DEF WellTyped, ControlTyped, Phases, ProtocolStep, ProtocolPhase, Protocol!Next, Protocol!Abandon, Protocol!NotCalibrating

LEMMA StutterKeeps ==
  ASSUME mode' = mode, UNCHANGED <<phase, est, known>>
  PROVE  ProtocolStep
BY DEF ProtocolStep, ProtocolPhase

LEMMA ResumeKeeps == ASSUME WellTyped, Staged, Resume PROVE ProtocolStep
<1>1. mode = "Calibration" /\ mode' = mode /\ phase \in WaitPhases /\ phase' = "MotorEstimation" /\ known' = known
  BY DEF Resume, Resumed
<1>2. ProtocolPhase = phase /\ ProtocolPhase' = "MotorEstimation"
  BY <1>1 DEF ProtocolPhase
<1>3. CASE phase = "ClearingExistingParameters"
  <2>1. est = Off /\ est' = RotorLockWait(FALSE)
    BY <1>3 DEF Resume, Staged, PhaseOf
  <2>2. StageOf(est)' = StageOf(est)
    BY <2>1 DEF StageOf, Off, RotorLockWait
  <2> QED BY <1>1, <1>2, <1>3, <2>2 DEF ProtocolStep, ProtocolPhase, Protocol!Next, Protocol!Cleared
<1>4. CASE phase = "WaitingHallCompletion"
  <2>1. est' = RotorLockWait(TRUE)
    BY <1>4 DEF Resume, Staged, PhaseOf, AcknowledgeHall
  <2>2. StageOf(est)' = "tuning"
    BY <2>1 DEF StageOf, RotorLockWait
  <2> QED BY <1>1, <1>2, <1>4, <2>2 DEF ProtocolStep, ProtocolPhase, Protocol!Next, Protocol!HallStage
<1>5. CASE phase = "WaitingTuning"
  <2>1. est = TuningRequired /\ est' = AcknowledgeTuning(est, known)
    BY <1>5 DEF Resume, Staged, PhaseOf
  <2>2. Inductances \subseteq known
    BY <2>1 DEF Staged, KnowsEnough, TuningRequired
  <2>3. est' = EstF
    BY <2>1, <2>2 DEF AcknowledgeTuning, Inductances
  <2>4. StageOf(est)' = "done"
    BY <2>3 DEF StageOf, EstF
  <2> QED BY <1>1, <1>2, <1>5, <2>4 DEF ProtocolStep, ProtocolPhase, Protocol!Next, Protocol!TuningStage
<1> QED BY <1>1, <1>3, <1>4, <1>5 DEF WaitPhases

LEMMA HallTickKeeps == ASSUME WellTyped, mode = "Calibration", HallTick PROVE ProtocolStep
<1>1. phase = "HallCalibration" /\ UNCHANGED <<est, known>> /\ mode' \in {"Calibration", "Fault"}
  BY DEF HallTick, Reports, Commands, Faulted
<1>2. CASE mode' = "Fault"
  BY <1>1, <1>2, EndKeeps
<1>3. CASE mode' = "Calibration" /\ phase' = phase
  BY <1>1, <1>3, StutterKeeps
<1>4. CASE mode' = "Calibration" /\ phase' = "WaitingHallCompletion"
  BY <1>1, <1>4 DEF ProtocolStep, ProtocolPhase, Protocol!Next, Protocol!HallStage
<1>5. phase' \in {phase, "WaitingHallCompletion"}
  BY <1>1 DEF HallTick, Reports
<1> QED BY <1>1, <1>2, <1>3, <1>4, <1>5

LEMMA EstimationTickKeeps ==
  ASSUME WellTyped, Staged, mode = "Calibration", EstimationTick
  PROVE  ProtocolStep
<1>0. /\ phase = "MotorEstimation" /\ est \in EstimatorStates /\ Counts(est) /\ known \subseteq Measured
      /\ KnowsEnough(est, known) /\ ProtocolPhase = "MotorEstimation"
  BY DEF EstimationTick, WellTyped, ControlTyped, Staged, ProtocolPhase
<1>1. CASE Request = "fault"
  <2>1. Reports(est.fault, "Done") /\ est.fault \in EstimationFailures
    BY <1>0, <1>1, RequestSays, Kinds DEF EstimationTick, Failures
  <2>2. mode' = "Fault" /\ UNCHANGED <<est, known>>
    BY <2>1, StepSets DEF Reports, Commands, Faulted
  <2> QED BY <2>2, EndKeeps
<1>2. CASE Request = "done"
  <2>1. est.state = "Done" /\ Reports("MotorParameters", "Done")
    BY <1>2, RequestSays DEF EstimationTick
  <2>2. mode' = "Calibration" /\ phase' = "Done" /\ UNCHANGED <<est, known>>
    BY <2>1, StepSets DEF Reports, Commands, Faulted
  <2>3. StageOf(est) = "done" /\ known = Measured
    BY <1>0, <2>1 DEF StageOf, KnowsEnough
  <2> QED BY <1>0, <2>2, <2>3 DEF ProtocolStep, ProtocolPhase, Protocol!Next, Protocol!Complete
<1>3. CASE Request = "unwind"
  <2>1. Reports("UnwindRequest", phase)
    BY <1>3 DEF EstimationTick
  <2>2. mode' = mode /\ UNCHANGED <<phase, est, known>>
    BY <2>1, StepSets DEF Reports, Commands, Faulted
  <2> QED BY <2>2, StutterKeeps
<1>4. CASE Request = "tune"
  <2>1. est = TuningRequired /\ Reports("TuningRequest", "WaitingTuning")
    BY <1>4, RequestSays DEF EstimationTick
  <2>2. mode' = "Calibration" /\ phase' = "WaitingTuning" /\ UNCHANGED <<est, known>>
    BY <2>1, StepSets DEF Reports, Commands, Faulted
  <2>3. StageOf(est) = "tuning" /\ Resistance \subseteq known /\ Inductances \subseteq known
    BY <1>0, <2>1 DEF StageOf, KnowsEnough, TuningRequired
  <2> QED BY <1>0, <2>2, <2>3
          DEF ProtocolStep, ProtocolPhase, Protocol!Next, Protocol!TuningStage, Resistance, Inductances
<1>5. CASE Request = "hall"
  <2>1. HallRequested /\ est = HallCalibrationRequired
    BY <1>5, RequestSays DEF EstimationTick
  <2>2. mode' = "Calibration"
    BY <2>1, StepSets DEF HallRequested, Commands, Faulted
  <2>3. StageOf(est) = "hall" /\ "stator_resistance" \in known
    BY <1>0, <2>1 DEF StageOf, KnowsEnough, HallCalibrationRequired, Resistance
  <2>4. CASE HasHall
    <3>1. phase' = "HallCalibration" /\ UNCHANGED <<est, known>>
      BY <2>1, <2>4 DEF HallRequested
    <3> QED BY <1>0, <2>2, <2>3, <2>4, <3>1 DEF ProtocolStep, ProtocolPhase, Protocol!Next, Protocol!HallStage
  <2>5. CASE ~HasHall
    <3>1. EstimatorSteps(RotorLockWait(TRUE)) /\ phase' = phase
      BY <2>1, <2>5 DEF HallRequested, AcknowledgeHall
    <3>2. RotorLockWait(TRUE) \in EstimatorStates /\ Counts(RotorLockWait(TRUE))
          /\ RotorLockWait(TRUE).state = "RotorLockWait" /\ RotorLockWait(TRUE).knows = TRUE
      BY Starts DEF EstimatorStates, Counts, RotorLockWait
    <3>3. PICK r \in EstimatorStep(RotorLockWait(TRUE), current) :
            /\ est' = r.next /\ known' = known \cup r.found
            /\ Stays(RotorLockWait(TRUE), r) \/ GivesUp(r) \/ Advances(RotorLockWait(TRUE), r)
      BY <3>1, <3>2, StepsMove
    <3>4. RotorLockWait(TRUE) \in RotorLockWaits /\ r \in RotorLockWaitStep(RotorLockWait(TRUE), current) /\ current \in Int
      BY <3>2, <3>3, Kinds DEF EstimatorStep, WellTyped, BenchTyped
    <3>5. r.found = {} /\ r.unwinds = FALSE
      BY <3>4, RotorLockWaitSteps
    <3>6. StageOf(est)' = "tuning" /\ known' = known
      BY <3>2, <3>3, <3>5 DEF Stays, GivesUp, Advances, StageOf
    <3> QED BY <1>0, <2>2, <2>3, <2>5, <3>1, <3>6 DEF ProtocolStep, ProtocolPhase, Protocol!Next, Protocol!HallStage
  <2> QED BY <2>4, <2>5
<1>6. CASE Request = "none"
  <2>1. EstimatorSteps(est) /\ phase' = phase /\ mode' = "Calibration"
    BY <1>6, StepSets DEF EstimationTick, Estimates, Commands, Faulted
  <2>2. PICK r \in EstimatorStep(est, current) :
          est' = r.next /\ known' = known \cup r.found /\ (Stays(est, r) \/ GivesUp(r) \/ Advances(est, r))
    BY <1>0, <2>1, StepsMove
  <2>3. StageOf(est)' \in {StageOf(est), "failed"}
    BY <1>0, <2>2, MovesMeasure
  <2>4. known \subseteq known' /\ known' \subseteq Measured
    BY <1>0, <2>1, <2>2, StepsTyped
  <2> QED BY <1>0, <2>1, <2>3, <2>4 DEF ProtocolStep, ProtocolPhase, Protocol!Next, Protocol!Measure
<1> QED BY <1>1, <1>2, <1>3, <1>4, <1>5, <1>6, RequestSays

LEMMA NextKeeps == ASSUME WellTyped, Staged, [Next]_vars PROVE ProtocolStep
<1>1. CASE UNCHANGED vars
  BY <1>1, StutterKeeps DEF vars, control
<1>2. CASE Stop
  <2>1. mode = "Calibration" /\ mode' # "Calibration" /\ UNCHANGED <<est, known>>
    BY <1>2 DEF Stop
  <2> QED BY <2>1, EndKeeps
<1>3. CASE FinishCalibration
  <2>1. mode = "Calibration" /\ mode' # "Calibration" /\ UNCHANGED <<est, known>>
    BY <1>3 DEF FinishCalibration
  <2> QED BY <2>1, EndKeeps
<1>4. CASE mode = "Calibration" /\ WaitingTick
  <2>1. mode' = mode /\ UNCHANGED <<phase, est, known>>
    BY <1>4 DEF WaitingTick
  <2> QED BY <2>1, StutterKeeps
<1>5. CASE mode = "Calibration" /\ DoneTick
  <2>1. mode' = mode /\ UNCHANGED <<phase, est, known>>
    BY <1>5, StepSets DEF DoneTick, Commands, Faulted
  <2> QED BY <2>1, StutterKeeps
<1> QED BY <1>1, <1>2, <1>3, <1>4, <1>5, StartKeeps, ResumeKeeps, HallTickKeeps, EstimationTickKeeps
        DEF Next, Task, Tick

(***************************************************************************)
(* A calibration implements the protocol: the drive, its tasks and its     *)
(* parameter store see the stages in order, with what each of them needs   *)
(* measured before, for tests of any length and with hall sensors or not.  *)
(***************************************************************************)
THEOREM CalibrationKeepsProtocol == Spec => KeepsProtocol
<1>1. Init => Protocol!Init
  BY DEF Init, Protocol!Init, Protocol!NotCalibrating, StageOf, Off
<1>2. WellTyped /\ Staged /\ [Next]_vars => [Protocol!Next]_(Protocol!vars)
  BY NextKeeps DEF ProtocolStep, ProtocolPhase, Protocol!vars
<1> QED BY <1>1, <1>2, AlwaysStaged, PTL DEF Spec, KeepsProtocol, Protocol!Spec

-----------------------------------------------------------------------------
(***************************************************************************)
(* The integrators.  What they were accumulated in is the loop of the      *)
(* stage that runs, or they are clear; after the resistance test they may  *)
(* be another's only while the request to unwind them stands.              *)
(***************************************************************************)
LoadedFor(e, unwinding, load) ==
  /\ e.state = "HallCalibrationRequired" => unwinding \/ load = "none"
  /\ EstimatorLaw(e) \in Loops => load \in {"none", EstimatorLaw(e)}

Unwound ==
  /\ law \in Loops => loaded \in {"none", law}
  /\ mode = "Calibration" =>
       /\ phase \in {"ClearingExistingParameters", "WaitingHallCompletion"} => loaded = "none"
       /\ phase = "HallCalibration" => loaded \in {"none", "sweep"}
       /\ phase = "MotorEstimation" => LoadedFor(est, unwind, loaded)

LEMMA LawOf ==
  ASSUME NEW e
  PROVE  /\ e.state = "RotorLockWait" => EstimatorLaw(e) = IF e.knows THEN "relock" ELSE "lock"
         /\ e.state = "EstR" => EstimatorLaw(e) = "lock"
         /\ e.state \in {"EstF", "RampDown"} => EstimatorLaw(e) = "spin"
         /\ e.state \notin {"RotorLockWait", "EstR", "EstF", "RampDown"} => EstimatorLaw(e) = "voltage"
         /\ "voltage" \notin Loops /\ "none" \notin Loops
BY DEF EstimatorLaw, Loops

\* What the law of a tick leaves in the integrators.
LEMMA CommandsLoad ==
  ASSUME NEW res, NEW newLaw, Commands(res, newLaw)
  PROVE  /\ law' = newLaw /\ mode' = Faulted(res)
         /\ res \in ClearsWindup => loaded' = "none"
         /\ res \notin ClearsWindup => loaded' = IF newLaw \in Loops THEN newLaw ELSE loaded
         /\ newLaw \in Loops => loaded' \in {"none", newLaw}
BY DEF Commands

\* The stages that a stage comes to run in the same loop, or the controller is to be unwound.
LEMMA MovesLoad ==
  ASSUME NEW e, NEW r, NEW u, NEW load, Stays(e, r) \/ GivesUp(r) \/ Advances(e, r), LoadedFor(e, FALSE, load),
         e.state # "HallCalibrationRequired",
         e.state = "RotorLockWait" => e.knows \in BOOLEAN, r.unwinds = TRUE => u
  PROVE  LoadedFor(r.next, u, IF EstimatorLaw(e) \in Loops THEN EstimatorLaw(e) ELSE load)
<1> DEFINE kept == IF EstimatorLaw(e) \in Loops THEN EstimatorLaw(e) ELSE load
<1>1. CASE Stays(e, r)
  <2>1. EstimatorLaw(r.next) = EstimatorLaw(e) /\ r.next.state = e.state
    BY <1>1 DEF Stays, EstimatorLaw
  <2> QED BY <2>1 DEF LoadedFor
<1>2. CASE GivesUp(r)
  BY <1>2, LawOf DEF GivesUp, LoadedFor
<1>3. CASE Advances(e, r)
  <2>1. CASE e.state = "RotorLockWait"
    <3>1. CASE e.knows
      BY <1>3, <2>1, <3>1, LawOf DEF Advances, LoadedFor
    <3>2. CASE ~e.knows
      <4>1. r.next.state = "EstR" /\ EstimatorLaw(r.next) = "lock" /\ EstimatorLaw(e) = "lock"
        BY <1>3, <2>1, <3>2, LawOf DEF Advances
      <4> QED BY <4>1 DEF LoadedFor
    <3> QED BY <3>1, <3>2
  <2>2. CASE e.state = "EstR"
    <3>1. r.next.state = "HallCalibrationRequired" /\ u /\ EstimatorLaw(r.next) = "voltage"
      BY <1>3, <2>2, LawOf DEF Advances
    <3> QED BY <3>1, LawOf DEF LoadedFor
  <2>3. CASE e.state = "EstL"
    <3>1. r.next.state \in {"EstL", "TuningRequired"} /\ EstimatorLaw(r.next) = "voltage"
      BY <1>3, <2>3, LawOf DEF Advances
    <3> QED BY <3>1, LawOf DEF LoadedFor
  <2>4. CASE e.state = "EstF"
    <3>1. r.next.state = "RampDown" /\ EstimatorLaw(r.next) = "spin" /\ EstimatorLaw(e) = "spin"
      BY <1>3, <2>4, LawOf DEF Advances
    <3> QED BY <3>1 DEF LoadedFor
  <2>5. CASE e.state = "RampDown"
    <3>1. r.next.state = "Done" /\ EstimatorLaw(r.next) = "voltage"
      BY <1>3, <2>5, LawOf DEF Advances
    <3> QED BY <3>1, LawOf DEF LoadedFor
  <2> QED BY <1>3, <2>1, <2>2, <2>3, <2>4, <2>5 DEF Advances
<1> QED BY <1>1, <1>2, <1>3

LEMMA ResumeUnwound == ASSUME WellTyped, Staged, Unwound, Resume PROVE Unwound'
<1>1. /\ mode = "Calibration" /\ phase \in WaitPhases /\ phase' = "MotorEstimation" /\ law' = law
      /\ loaded' = IF phase = "WaitingTuning" THEN "none" ELSE loaded
  BY DEF Resume, Resumed
<1>2. loaded' = "none"
  BY <1>1 DEF Unwound, WaitPhases
<1> QED BY <1>1, <1>2 DEF Unwound, LoadedFor

LEMMA HallTickUnwound ==
  ASSUME Unwound, mode = "Calibration", HallTick
  PROVE  Unwound' /\ (law' \in Loops => loaded \in {"none", law'})
<1>1. phase = "HallCalibration" /\ loaded \in {"none", "sweep"}
  BY DEF HallTick, Unwound
<1>2. \/ Reports("CalibrationTimeout", phase) \/ Reports("HallEdgeDisagreement", phase)
      \/ Reports("HallCalibration", "WaitingHallCompletion")
      \/ Commands("None", "sweep") /\ phase' = phase
  BY DEF HallTick
<1>3. CASE Reports("CalibrationTimeout", phase) \/ Reports("HallEdgeDisagreement", phase)
  <2>1. law' = "voltage" /\ mode' = "Fault"
    BY <1>3, StepSets DEF Reports, Commands, Faulted
  <2> QED BY <2>1, LawOf DEF Unwound
<1>4. CASE Reports("HallCalibration", "WaitingHallCompletion")
  <2>1. law' = "voltage" /\ loaded' = "none" /\ phase' = "WaitingHallCompletion"
    BY <1>4 DEF Reports, Commands, ClearsWindup
  <2> QED BY <2>1, LawOf DEF Unwound
<1>5. CASE Commands("None", "sweep") /\ phase' = phase
  <2>1. law' = "sweep" /\ loaded' \in {"none", "sweep"}
    BY <1>5 DEF Commands, Loops
  <2> QED BY <1>1, <1>5, <2>1 DEF Unwound
<1> QED BY <1>2, <1>3, <1>4, <1>5

LEMMA EstimationTickUnwound ==
  ASSUME WellTyped, Staged, Unwound, mode = "Calibration", EstimationTick
  PROVE  Unwound' /\ (law' \in Loops => loaded \in {"none", law'})
<1>0. /\ phase = "MotorEstimation" /\ est \in EstimatorStates /\ Counts(est) /\ LoadedFor(est, unwind, loaded)
      /\ BenchTyped /\ unwind \in BOOLEAN
  BY DEF EstimationTick, Unwound, WellTyped, ControlTyped
<1>1. CASE Request = "fault"
  <2>1. Reports(est.fault, "Done") /\ est.fault \in EstimationFailures
    BY <1>0, <1>1, RequestSays, Kinds DEF EstimationTick, Failures
  <2>2. mode' = "Fault" /\ law' = "voltage"
    BY <2>1, StepSets DEF Reports, Commands, Faulted
  <2> QED BY <2>2, LawOf DEF Unwound
<1>2. CASE Request = "done"
  <2>1. law' = "voltage" /\ phase' = "Done"
    BY <1>2 DEF EstimationTick, Reports, Commands
  <2> QED BY <2>1, LawOf DEF Unwound
<1>3. CASE Request = "unwind"
  <2>1. law' = "voltage" /\ phase' = phase /\ loaded' = "none"
    BY <1>3 DEF EstimationTick, Reports, Commands, ClearsWindup
  <2> QED BY <1>0, <2>1, LawOf DEF Unwound, LoadedFor
<1>4. CASE Request = "tune"
  <2>1. law' = "voltage" /\ phase' = "WaitingTuning"
    BY <1>4 DEF EstimationTick, Reports, Commands
  <2> QED BY <2>1, LawOf DEF Unwound
<1>5. CASE Request = "hall"
  <2>1. HallRequested /\ est = HallCalibrationRequired /\ ~unwind
    BY <1>5, RequestSays DEF EstimationTick
  <2>2. loaded = "none"
    BY <1>0, <2>1 DEF LoadedFor, HallCalibrationRequired
  <2>3. "None" \notin ClearsWindup
    BY StepSets DEF ClearsWindup
  <2>4. law' = "voltage" /\ loaded' = "none"
    BY <2>1, <2>2, <2>3, LawOf DEF HallRequested, Commands
  <2> QED BY <2>4, LawOf DEF Unwound, LoadedFor
<1>6. CASE Request = "none"
  <2>1. Commands("None", EstimatorLaw(est)) /\ EstimatorSteps(est) /\ phase' = phase
    BY <1>6 DEF EstimationTick, Estimates
  <2>2. est.state \notin {"Failure", "Done"} /\ est # HallCalibrationRequired /\ ~unwind
    BY <1>0, <1>6, RequestSays, Kinds DEF EstimationTick, HallRequested, Request
  <2>3. PICK r \in EstimatorStep(est, current) :
          /\ est' = r.next /\ unwind' = (unwind \/ r.unwinds)
          /\ Stays(est, r) \/ GivesUp(r) \/ Advances(est, r)
    BY <1>0, <2>1, StepsMove
  <2>4. "None" \notin ClearsWindup
    BY StepSets DEF ClearsWindup
  <2>5. law' = EstimatorLaw(est) /\ loaded' = IF EstimatorLaw(est) \in Loops THEN EstimatorLaw(est) ELSE loaded
    BY <2>1, <2>4 DEF Commands
  <2>6. /\ est.state # "HallCalibrationRequired" /\ (est.state = "RotorLockWait" => est.knows \in BOOLEAN)
        /\ LoadedFor(est, FALSE, loaded)
    BY <1>0, <2>2, Kinds DEF RotorLockWaits, LoadedFor
  <2>7. r.unwinds = TRUE => unwind'
    BY <2>3
  <2>8. LoadedFor(est', unwind', loaded')
    BY <2>3, <2>5, <2>6, <2>7, MovesLoad
  <2>9. law' \in Loops => loaded \in {"none", law'} /\ loaded' \in {"none", law'}
    BY <1>0, <2>5 DEF LoadedFor
  <2> QED BY <1>0, <2>1, <2>8, <2>9 DEF Unwound
<1> QED BY <1>1, <1>2, <1>3, <1>4, <1>5, <1>6, RequestSays

LEMMA NextUnwound ==
  ASSUME WellTyped, Staged, Unwound, [Next]_vars
  PROVE  Unwound' /\ (law' \in Loops => loaded \in {"none", law'})
<1>1. CASE UNCHANGED vars
  BY <1>1 DEF vars, control, Unwound, LoadedFor
<1>2. CASE StartCalibration
  BY <1>2, LawOf DEF StartCalibration, Unwound
<1>3. CASE Stop \/ FinishCalibration
  BY <1>3 DEF Stop, FinishCalibration, Unwound
<1>4. CASE Resume
  <2>1. law' = law
    BY <1>4 DEF Resume
  <2> QED BY <1>4, <2>1, ResumeUnwound DEF Unwound
<1>5. CASE mode = "Calibration" /\ WaitingTick
  BY <1>5, LawOf, StepSets DEF WaitingTick, Unwound, LoadedFor
<1>6. CASE mode = "Calibration" /\ DoneTick
  <2>1. law' = "voltage" /\ phase' = "Done"
    BY <1>6 DEF DoneTick, Commands
  <2> QED BY <2>1, LawOf DEF Unwound
<1> QED BY <1>1, <1>2, <1>3, <1>4, <1>5, <1>6, HallTickUnwound, EstimationTickUnwound DEF Next, Task, Tick

(***************************************************************************)
(* A closed loop never starts from the integrators of another stage, in    *)
(* whatever order results, requests, acknowledgements and cancellations    *)
(* come.                                                                   *)
(***************************************************************************)
THEOREM LoopsNeverStartWound == Spec => LoopsStartUnwound
<1>1. Init => Unwound
  BY LawOf DEF Init, Unwound
<1>2. WellTyped /\ Staged /\ Unwound /\ [Next]_vars => Unwound' /\ [law' \in Loops => loaded \in {"none", law'}]_vars
  BY NextUnwound
<1> QED BY <1>1, <1>2, AlwaysStaged, PTL DEF Spec, LoopsStartUnwound

-----------------------------------------------------------------------------
(***************************************************************************)
(* The inductance test.  T is the target, S the slope of the current; with *)
(* two signs of the voltage applied, the current has changed by S times    *)
(* their sum.                                                              *)
(*                                                                         *)
(* The current the samples started from, Base, is within 3 S of T from the *)
(* first flip on: a tick between flips moves the current by 2 S and is     *)
(* sampled, a tick that spans a flip does not move it, and is not.  When   *)
(* the test ends, on a flip from above, the current is within 3 S of T,    *)
(* too, so the samples of the two signs differ by less than three.         *)
(***************************************************************************)
Base(e, S) == e.prev - 2 * (S * (e.plus - e.minus))

\* The state of a test at its first tick.
Fresh(e, c) ==
  /\ e.flips = 0 /\ e.sign = 1 /\ e.plus = 0 /\ e.minus = 0 /\ e.applied[1] = 0 /\ e.applied[2] = 0
  /\ \/ c = TargetCurrent /\ e.prev <= TargetCurrent
     \/ c = 0 /\ e.prev = 0

\* The tick after a flip: the current still goes where the old sign drives it.
Turning(e, S) ==
  /\ e.sign = -e.applied[2]
  /\ \/ e.applied[1] = e.applied[2] /\ 2 * (e.sign * e.prev) <= 6 * S - 2 * TargetCurrent
     \/ /\ e.applied[1] = 0 /\ e.prev = TargetCurrent /\ e.sign = -1
        /\ e.flips = 1 /\ e.plus = 0 /\ e.minus = 0

Driving(e, S) ==
  /\ e.sign = e.applied[2]
  /\ 2 * (e.sign * e.prev) < 2 * TargetCurrent + (IF e.applied[1] = -e.applied[2] THEN 6 * S ELSE 0)
  /\ e.applied[1] = 0 => e.flips = 0

Running(e, c, S) ==
  /\ e.applied[2] \in Signs /\ e.applied[1] \in {-1, 0, 1}
  /\ c = e.prev + S * (e.applied[1] + e.applied[2])
  /\ Turning(e, S) \/ Driving(e, S)
  /\ e.flips = 0 => /\ e.sign = 1 /\ e.applied[2] = 1 /\ e.applied[1] \in {0, 1}
                    /\ e.plus = 0 /\ e.minus = 0
  /\ e.flips > 0 => /\ 2 * TargetCurrent - 6 * S <= 2 * Base(e, S)
                    /\ S > 0 => 2 * Base(e, S) < 2 * TargetCurrent + 6 * S
  /\ S = 0 => e.flips <= 1

Waving(e, c, S) ==
  /\ e.sum = 2 * (S * (e.plus + e.minus))
  /\ e.sign = IF e.flips % 2 = 0 THEN 1 ELSE -1
  /\ IF e.ran = 0 THEN Fresh(e, c) ELSE Running(e, c, S)

LEMMA EstLFields ==
  ASSUME NEW e \in EstLs
  PROVE  /\ e.sign \in Signs /\ e.flips \in Nat /\ e.prev \in Int /\ e.plus \in Nat /\ e.minus \in Nat
         /\ e.sum \in Int /\ e.ran \in Nat /\ e.axis \in {"d", "q"}
         /\ e.applied[1] \in {-1, 0, 1} /\ e.applied[2] \in {-1, 0, 1}
BY Times DEF EstLs

\* A sample is taken of every tick that changes the current, from the first flip on.
LEMMA SamplesCount ==
  ASSUME NEW e \in EstLs, NEW c \in Int, NEW S \in Nat, Running(e, c, S),
         e.sum = 2 * (S * (e.plus + e.minus))
  PROVE  LET d == Sampled(e, c)
         IN  /\ d.sum = 2 * (S * (d.plus + d.minus))
             /\ e.flips = 0 => d.plus = 0 /\ d.minus = 0
             /\ e.flips > 0 /\ e.applied[1] # 0 => c - 2 * (S * (d.plus - d.minus)) = Base(e, S)
             /\ e.applied[1] = 0 => d.plus = e.plus /\ d.minus = e.minus
<1> DEFINE d == Sampled(e, c)
<1>1. /\ e.flips \in Nat /\ e.prev \in Int /\ e.plus \in Nat /\ e.minus \in Nat /\ e.sum \in Int
      /\ e.applied[1] \in {-1, 0, 1} /\ e.applied[2] \in {-1, 1}
  BY EstLFields DEF Running, Signs
<1>2. c = e.prev + S * (e.applied[1] + e.applied[2])
  BY DEF Running
<1>3. CASE ~ValidSample(e)
  <2>1. d = e
    BY <1>3 DEF Sampled
  <2>2. e.flips > 0 /\ e.applied[1] # 0 => e.applied[1] + e.applied[2] = 0
    BY <1>1, <1>3 DEF ValidSample
  <2>3. e.flips > 0 /\ e.applied[1] # 0 => c = e.prev
    BY <1>1, <1>2, <2>2
  <2>4. e.flips = 0 => e.plus = 0 /\ e.minus = 0
    BY DEF Running
  <2> QED BY <2>1, <2>3, <2>4 DEF Base
<1>4. CASE ValidSample(e) /\ e.applied[2] = 1
  <2>1. e.flips > 0 /\ e.applied[1] = 1
    BY <1>4 DEF ValidSample
  <2>2. d = [e EXCEPT !.plus = e.plus + 1, !.minus = e.minus, !.sum = e.sum + e.applied[2] * (c - e.prev)]
    BY <1>4 DEF Sampled
  <2>3. d.plus = e.plus + 1 /\ d.minus = e.minus /\ d.sum = e.sum + e.applied[2] * (c - e.prev)
    BY <2>2 DEF EstLs
  <2>4. c = e.prev + 2 * S
    BY <1>1, <1>2, <1>4, <2>1
  <2>5. e.applied[2] * (c - e.prev) = 2 * S
    BY <1>1, <1>4, <2>4
  <2> DEFINE x == e.plus + e.minus
             y == e.plus - e.minus
  <2>6. d.plus + d.minus = x + 1 /\ d.plus - d.minus = y + 1 /\ x \in Int /\ y \in Int
    <3>1. d.plus = e.plus + 1 /\ d.minus = e.minus /\ e.plus \in Int /\ e.minus \in Int
      BY <1>1, <2>3
    <3> QED BY <3>1 DEF x, y
  <2> HIDE DEF d, x, y
  <2>7. S * (x + 1) = S * x + S /\ S * (y + 1) = S * y + S /\ S * x \in Int /\ S * y \in Int
    BY <2>6
  <2>8. e.sum = 2 * (S * x) /\ Base(e, S) = e.prev - 2 * (S * y)
    BY DEF x, y, Base
  <2>9. d.sum = 2 * (S * (d.plus + d.minus))
    BY <1>1, <2>3, <2>5, <2>6, <2>7, <2>8
  <2>10. c - 2 * (S * (d.plus - d.minus)) = Base(e, S)
    BY <1>1, <2>4, <2>6, <2>7, <2>8
  <2> QED BY <2>1, <2>9, <2>10 DEF d
<1>5. CASE ValidSample(e) /\ e.applied[2] = -1
  <2>1. e.flips > 0 /\ e.applied[1] = -1
    BY <1>5 DEF ValidSample
  <2>2. d = [e EXCEPT !.plus = e.plus, !.minus = e.minus + 1, !.sum = e.sum + e.applied[2] * (c - e.prev)]
    BY <1>5 DEF Sampled
  <2>3. d.plus = e.plus /\ d.minus = e.minus + 1 /\ d.sum = e.sum + e.applied[2] * (c - e.prev)
    BY <2>2 DEF EstLs
  <2>4. c = e.prev - 2 * S
    BY <1>1, <1>2, <1>5, <2>1
  <2>5. e.applied[2] * (c - e.prev) = 2 * S
    BY <1>1, <1>5, <2>4
  <2> DEFINE x == e.plus + e.minus
             y == e.plus - e.minus
  <2>6. d.plus + d.minus = x + 1 /\ d.plus - d.minus = y - 1 /\ x \in Int /\ y \in Int
    <3>1. d.plus = e.plus /\ d.minus = e.minus + 1 /\ e.plus \in Int /\ e.minus \in Int
      BY <1>1, <2>3
    <3> QED BY <3>1 DEF x, y
  <2> HIDE DEF d, x, y
  <2>7. S * (x + 1) = S * x + S /\ S * (y - 1) = S * y - S /\ S * x \in Int /\ S * y \in Int
    BY <2>6
  <2>8. e.sum = 2 * (S * x) /\ Base(e, S) = e.prev - 2 * (S * y)
    BY DEF x, y, Base
  <2>9. d.sum = 2 * (S * (d.plus + d.minus))
    BY <1>1, <2>3, <2>5, <2>6, <2>7, <2>8
  <2>10. c - 2 * (S * (d.plus - d.minus)) = Base(e, S)
    BY <1>1, <2>4, <2>6, <2>7, <2>8
  <2> QED BY <2>1, <2>9, <2>10 DEF d
<1> QED BY <1>1, <1>3, <1>4, <1>5

\* Whether the wave flips, by its sign.
LEMMA FlipsBySign ==
  ASSUME NEW e \in EstLs, NEW c \in Int
  PROVE  /\ e.sign = 1 => (Flips(e, c) <=> 2 * c + 3 * (c - e.prev) >= 2 * TargetCurrent)
         /\ e.sign = -1 => (Flips(e, c) <=> -(2 * c + 3 * (c - e.prev)) >= 2 * TargetCurrent)
<1>1. c - e.prev \in Int /\ TargetCurrent \in Int
  BY Times, EstLFields
<1> QED BY <1>1 DEF Flips

\* The next state of a test that goes on, field by field.
Follows(n, e, c) ==
  /\ n.prev = c /\ n.applied[1] = e.applied[2] /\ n.applied[2] = e.sign /\ n.ran = e.ran + 1
  /\ n.plus = Sampled(e, c).plus /\ n.minus = Sampled(e, c).minus /\ n.sum = Sampled(e, c).sum
  /\ IF Flips(e, c) THEN n.sign = -e.sign /\ n.flips = e.flips + 1
     ELSE n.sign = e.sign /\ n.flips = e.flips

LEMMA FreshGoes ==
  ASSUME NEW e \in EstLs, NEW c \in Int, NEW S \in Nat, Fresh(e, c), e.sum = 0,
         NEW n \in EstLs, Follows(n, e, c)
  PROVE  n.sum = 0 /\ n.plus = 0 /\ n.minus = 0 /\ Running(n, c + S * (e.applied[2] + e.sign), S)
<1> DEFINE T == TargetCurrent
<1>1. /\ e.flips = 0 /\ e.sign = 1 /\ e.plus = 0 /\ e.minus = 0 /\ e.applied[1] = 0 /\ e.applied[2] = 0
      /\ (c = T /\ e.prev <= T) \/ (c = 0 /\ e.prev = 0)
  BY DEF Fresh
<1>2. T \in Nat /\ T > 0 /\ e.prev \in Int
  BY Times, EstLFields
<1>3. Sampled(e, c) = e
  BY <1>1 DEF Sampled, ValidSample
<1>4. /\ n.prev = c /\ n.applied[1] = 0 /\ n.applied[2] = 1
      /\ n.plus = 0 /\ n.minus = 0 /\ n.sum = 0
  BY <1>1, <1>3 DEF Follows
<1>5. Flips(e, c) <=> 2 * c + 3 * (c - e.prev) >= 2 * T
  BY <1>1, FlipsBySign
<1>6. c + S * (e.applied[2] + e.sign) = n.prev + S * (n.applied[1] + n.applied[2])
  BY <1>1, <1>4
<1>7. S * (n.plus - n.minus) = 0
  BY <1>4
<1> HIDE DEF T
<1>8. CASE Flips(e, c)
  <2>1. c = T
    BY <1>1, <1>2, <1>5, <1>8
  <2>2. n.sign = -1 /\ n.flips = 1
    BY <1>1, <1>8 DEF Follows
  <2>3. Turning(n, S)
    BY <1>4, <2>1, <2>2 DEF Turning, T
  <2>4. Base(n, S) = T
    BY <1>2, <1>4, <1>7, <2>1 DEF Base
  <2>5. 2 * T - 6 * S <= 2 * T /\ (S > 0 => 2 * T < 2 * T + 6 * S)
    BY <1>2
  <2> QED BY <1>4, <1>6, <2>2, <2>3, <2>4, <2>5 DEF Running, Signs, T
<1>9. CASE ~Flips(e, c)
  <2>1. c = 0
    BY <1>1, <1>2, <1>5, <1>9
  <2>2. n.sign = 1 /\ n.flips = 0
    BY <1>1, <1>9 DEF Follows
  <2>3. Driving(n, S)
    BY <1>2, <1>4, <2>1, <2>2 DEF Driving, T
  <2> QED BY <1>4, <1>6, <2>2, <2>3 DEF Running, Signs
<1> QED BY <1>8, <1>9

\* A wave that has just turned does not turn back at once.
LEMMA TurningGoes ==
  ASSUME NEW e \in EstLs, NEW c \in Int, NEW S \in Nat, Running(e, c, S), Turning(e, S)
  PROVE  /\ ~Flips(e, c) /\ e.flips > 0
         /\ 2 * (e.sign * c) < 2 * TargetCurrent + 6 * S
         /\ e.applied[1] = 0 => c = TargetCurrent + S
<1> DEFINE T == TargetCurrent
<1>1. T \in Nat /\ T > 0 /\ e.prev \in Int /\ e.sign \in {-1, 1} /\ e.flips \in Nat
  BY Times, EstLFields DEF Signs
<1>2. /\ e.applied[2] = -e.sign /\ e.applied[2] \in {-1, 1}
      /\ e.flips = 0 => e.sign = 1 /\ e.applied[2] = 1
      /\ c = e.prev + S * (e.applied[1] + e.applied[2])
  BY <1>1 DEF Running, Turning, Signs
<1>3. e.flips > 0
  BY <1>1, <1>2
<1> HIDE DEF T
<1>4. CASE e.applied[1] = e.applied[2] /\ 2 * (e.sign * e.prev) <= 6 * S - 2 * T
  <2>1. CASE e.sign = 1
    <3>1. e.applied[1] + e.applied[2] = -2
      BY <1>2, <1>4, <2>1
    <3>2. c = e.prev - 2 * S /\ 2 * e.prev <= 6 * S - 2 * T
      BY <1>1, <1>2, <1>4, <2>1, <3>1
    <3> QED BY <1>1, <1>2, <1>3, <1>4, <2>1, <3>2, FlipsBySign DEF T
  <2>2. CASE e.sign = -1
    <3>1. e.applied[1] + e.applied[2] = 2
      BY <1>2, <1>4, <2>2
    <3>2. c = e.prev + 2 * S /\ -2 * e.prev <= 6 * S - 2 * T
      BY <1>1, <1>2, <1>4, <2>2, <3>1
    <3> QED BY <1>1, <1>2, <1>3, <1>4, <2>2, <3>2, FlipsBySign DEF T
  <2> QED BY <1>1, <2>1, <2>2
<1>5. CASE e.applied[1] = 0 /\ e.prev = T /\ e.sign = -1
  <2>1. c = T + S
    BY <1>1, <1>2, <1>5
  <2> QED BY <1>1, <1>3, <1>5, <2>1, FlipsBySign DEF T
<1> QED BY <1>4, <1>5 DEF Turning, T

\* How far a wave that drives the current has come, and when it flips.
LEMMA DrivingGoes ==
  ASSUME NEW e \in EstLs, NEW c \in Int, NEW S \in Nat, Running(e, c, S), Driving(e, S)
  PROVE  /\ ~Flips(e, c) => 2 * (e.sign * c) < 2 * TargetCurrent
         /\ Flips(e, c) => /\ 2 * TargetCurrent - 6 * S <= 2 * (e.sign * c)
                           /\ S > 0 => 2 * (e.sign * c) < 2 * TargetCurrent + 6 * S
         /\ e.flips > 0 => e.applied[1] # 0
<1> DEFINE T == TargetCurrent
           D == c - e.prev
<1>1. T \in Nat /\ T > 0 /\ e.prev \in Int /\ e.sign \in {-1, 1} /\ e.flips \in Nat /\ D \in Int
  BY Times, EstLFields DEF Signs
<1>2. /\ e.applied[2] = e.sign /\ e.applied[1] \in {-1, 0, 1}
      /\ c = e.prev + S * (e.applied[1] + e.applied[2])
      /\ 2 * (e.sign * e.prev) < 2 * T + (IF e.applied[1] = -e.applied[2] THEN 6 * S ELSE 0)
      /\ e.applied[1] = 0 => e.flips = 0
  BY DEF Running, Driving
<1>3. c = e.prev + D
  BY <1>1
<1> HIDE DEF T
<1>4. CASE e.sign = 1
  <2>1. D \in {0, S, 2 * S} /\ (e.applied[1] = -1 <=> e.applied[1] = -e.applied[2])
        /\ (e.applied[1] = -1 => D = 0)
    <3>1. e.applied[1] + e.applied[2] \in {0, 1, 2} /\ (e.applied[1] = -1 => e.applied[1] + e.applied[2] = 0)
          /\ (e.applied[1] = -1 <=> e.applied[1] = -e.applied[2])
      BY <1>2, <1>4
    <3>2. D = S * (e.applied[1] + e.applied[2])
      BY <1>1, <1>2, <3>1
    <3>3. S * 0 = 0 /\ S * 1 = S /\ S * 2 = 2 * S
      OBVIOUS
    <3> HIDE DEF D
    <3> QED BY <3>1, <3>2, <3>3
  <2>2. 2 * e.prev < 2 * T + (IF e.applied[1] = -1 THEN 6 * S ELSE 0) /\ e.sign * c = c
    BY <1>1, <1>2, <1>4, <2>1
  <2>3. Flips(e, c) <=> 2 * c + 3 * D >= 2 * T
    BY <1>4, FlipsBySign DEF T
  <2> HIDE DEF D
  <2>4. 0 <= D /\ D <= 2 * S
    BY <1>1, <2>1
  <2>5. ~Flips(e, c) => 2 * (e.sign * c) < 2 * T
    BY <1>1, <2>2, <2>3, <2>4
  <2>6. Flips(e, c) => 2 * T - 6 * S <= 2 * (e.sign * c)
    BY <1>1, <2>2, <2>3, <2>4
  <2>7. S > 0 => 2 * (e.sign * c) < 2 * T + 6 * S
    <3>1. CASE e.applied[1] = -1
      BY <1>1, <1>3, <2>1, <2>2, <3>1
    <3>2. CASE e.applied[1] # -1
      <4>1. 2 * e.prev < 2 * T
        BY <1>1, <2>2, <3>2
      <4> QED BY <1>1, <1>3, <2>2, <2>4, <4>1
    <3> QED BY <3>1, <3>2
  <2> QED BY <1>1, <1>2, <2>5, <2>6, <2>7 DEF T
<1>5. CASE e.sign = -1
  <2>1. D \in {0, -S, -(2 * S)} /\ (e.applied[1] = 1 <=> e.applied[1] = -e.applied[2])
        /\ (e.applied[1] = 1 => D = 0)
    <3>1. e.applied[1] + e.applied[2] \in {0, -1, -2} /\ (e.applied[1] = 1 => e.applied[1] + e.applied[2] = 0)
          /\ (e.applied[1] = 1 <=> e.applied[1] = -e.applied[2])
      BY <1>2, <1>5
    <3>2. D = S * (e.applied[1] + e.applied[2])
      BY <1>1, <1>2, <3>1
    <3>3. S * 0 = 0 /\ S * (-1) = -S /\ S * (-2) = -(2 * S)
      OBVIOUS
    <3> HIDE DEF D
    <3> QED BY <3>1, <3>2, <3>3
  <2>2. 2 * (-e.prev) < 2 * T + (IF e.applied[1] = 1 THEN 6 * S ELSE 0) /\ e.sign * c = -c
    <3>1. e.sign * e.prev = -e.prev /\ e.sign * c = -c
      BY <1>1, <1>5
    <3>2. 2 * (e.sign * e.prev) < 2 * T + (IF e.applied[1] = 1 THEN 6 * S ELSE 0)
      BY <1>2, <2>1
    <3> QED BY <3>1, <3>2
  <2>3. Flips(e, c) <=> -(2 * c + 3 * D) >= 2 * T
    BY <1>5, FlipsBySign DEF T
  <2> HIDE DEF D
  <2>4. 0 <= -D /\ -D <= 2 * S
    BY <1>1, <2>1
  <2>5. ~Flips(e, c) => 2 * (e.sign * c) < 2 * T
    BY <1>1, <2>2, <2>3, <2>4
  <2>6. Flips(e, c) => 2 * T - 6 * S <= 2 * (e.sign * c)
    BY <1>1, <2>2, <2>3, <2>4
  <2>7. S > 0 => 2 * (e.sign * c) < 2 * T + 6 * S
    <3>1. CASE e.applied[1] = 1
      BY <1>1, <1>3, <2>1, <2>2, <3>1
    <3>2. CASE e.applied[1] # 1
      <4>1. 2 * (-e.prev) < 2 * T
        BY <1>1, <2>2, <3>2
      <4> QED BY <1>1, <1>3, <2>2, <2>4, <4>1
    <3> QED BY <3>1, <3>2
  <2> QED BY <1>1, <1>2, <2>5, <2>6, <2>7 DEF T
<1> QED BY <1>1, <1>4, <1>5

\* A test that goes on keeps its wave.
LEMMA WaveGoes ==
  ASSUME NEW e \in EstLs, NEW c \in Int, NEW S \in Nat, Waving(e, c, S), NEW n \in EstLs, Follows(n, e, c)
  PROVE  Waving(n, c + S * (e.applied[2] + e.sign), S)
<1> DEFINE T == TargetCurrent
           now == c + S * (e.applied[2] + e.sign)
<1>1. /\ T \in Nat /\ T > 0 /\ e.prev \in Int /\ e.sign \in {-1, 1} /\ e.flips \in Nat /\ e.ran \in Nat
      /\ n.flips \in Nat /\ n.ran = e.ran + 1 /\ n.ran # 0
  BY Times, EstLFields DEF Follows, Signs
<1>2. n.sign = IF n.flips % 2 = 0 THEN 1 ELSE -1
  <2>1. e.sign = IF e.flips % 2 = 0 THEN 1 ELSE -1
    BY DEF Waving
  <2>2. (n.sign = e.sign /\ n.flips = e.flips) \/ (n.sign = -e.sign /\ n.flips = e.flips + 1)
    BY DEF Follows
  <2>3. (e.flips + 1) % 2 = IF e.flips % 2 = 0 THEN 1 ELSE 0
    BY <1>1
  <2> QED BY <1>1, <2>1, <2>2, <2>3
<1>3. CASE e.ran = 0
  <2>1. Fresh(e, c) /\ e.sum = 2 * (S * (e.plus + e.minus))
    BY <1>3 DEF Waving
  <2>2. e.sum = 0
    BY <2>1 DEF Fresh
  <2>3. n.sum = 0 /\ n.plus = 0 /\ n.minus = 0 /\ Running(n, now, S)
    BY <2>1, <2>2, FreshGoes
  <2>4. n.sum = 2 * (S * (n.plus + n.minus))
    BY <2>3
  <2> QED BY <1>1, <1>2, <2>3, <2>4 DEF Waving
<1>4. CASE e.ran # 0
  <2>1. Running(e, c, S) /\ e.sum = 2 * (S * (e.plus + e.minus))
    BY <1>4 DEF Waving
  <2>2. /\ n.sum = 2 * (S * (n.plus + n.minus))
        /\ e.flips = 0 => n.plus = 0 /\ n.minus = 0
        /\ e.flips > 0 /\ e.applied[1] # 0 => Base(n, S) = Base(e, S)
        /\ e.applied[1] = 0 => n.plus = e.plus /\ n.minus = e.minus
    BY <2>1, SamplesCount DEF Follows, Base
  <2>3. now = n.prev + S * (n.applied[1] + n.applied[2])
    BY DEF Follows
  <2>4. n.prev = c /\ n.applied[1] = e.applied[2] /\ n.applied[2] = e.sign /\ e.applied[2] \in {-1, 1}
    BY <2>1 DEF Follows, Running, Signs
  <2>5. Base(n, S) \in Int /\ Base(e, S) \in Int
    BY EstLFields DEF Base
  <2> HIDE DEF now, T
  <2>6. CASE Turning(e, S)
    <3>1. /\ ~Flips(e, c) /\ e.flips > 0 /\ 2 * (e.sign * c) < 2 * T + 6 * S
          /\ e.applied[1] = 0 => c = T + S
      BY <2>1, <2>6, TurningGoes DEF T
    <3>2. n.sign = e.sign /\ n.flips = e.flips /\ n.applied[1] = -n.applied[2] /\ n.applied[2] = n.sign
      BY <1>1, <2>4, <2>6, <3>1 DEF Follows, Turning
    <3>3. Driving(n, S)
      <4>1. n.applied[1] # 0
        BY <2>4
      <4> QED BY <2>4, <3>1, <3>2, <4>1 DEF Driving, T
    <3>4. 2 * T - 6 * S <= 2 * Base(n, S) /\ (S > 0 => 2 * Base(n, S) < 2 * T + 6 * S)
      <4>1. CASE e.applied[1] # 0
        BY <2>1, <2>2, <3>1, <4>1 DEF Running, T
      <4>2. CASE e.applied[1] = 0
        <5>1. n.plus = 0 /\ n.minus = 0 /\ c = T + S
          BY <2>2, <2>4, <2>6, <3>1, <4>2 DEF Turning
        <5>2. Base(n, S) = T + S
          BY <1>1, <2>4, <5>1 DEF Base
        <5> QED BY <1>1, <5>2
      <4> QED BY <4>1, <4>2
    <3>5. n.applied[2] \in Signs /\ n.applied[1] \in {-1, 0, 1} /\ (S = 0 => n.flips <= 1) /\ n.flips > 0
      BY <1>1, <2>1, <2>4, <3>1, <3>2 DEF Running, Signs
    <3>6. Running(n, now, S)
      BY <2>3, <3>3, <3>4, <3>5 DEF Running, T
    <3> QED BY <1>1, <1>2, <2>2, <3>6 DEF Waving, now
  <2>7. CASE Driving(e, S)
    <3>1. /\ ~Flips(e, c) => 2 * (e.sign * c) < 2 * T
          /\ Flips(e, c) => /\ 2 * T - 6 * S <= 2 * (e.sign * c)
                            /\ S > 0 => 2 * (e.sign * c) < 2 * T + 6 * S
          /\ e.flips > 0 => e.applied[1] # 0
      BY <2>1, <2>7, DrivingGoes DEF T
    <3>2. n.applied[1] = e.sign /\ n.applied[2] = e.sign
      BY <2>4, <2>7 DEF Driving
    <3>3. n.applied[2] \in Signs /\ n.applied[1] \in {-1, 0, 1} /\ n.applied[1] # 0 /\ n.applied[1] # -n.applied[2]
      BY <1>1, <3>2 DEF Signs
    <3>4. Turning(n, S) \/ Driving(n, S)
      <4>1. CASE Flips(e, c)
        <5>1. n.sign = -e.sign
          BY <4>1 DEF Follows
        <5>2. n.sign * n.prev = -(e.sign * c) /\ e.sign * c \in Int
          BY <1>1, <2>4, <5>1
        <5>3. 2 * (n.sign * n.prev) <= 6 * S - 2 * T
          BY <1>1, <3>1, <4>1, <5>2
        <5> QED BY <3>2, <5>1, <5>3 DEF Turning, T
      <4>2. CASE ~Flips(e, c)
        <5>1. n.sign = e.sign
          BY <4>2 DEF Follows
        <5>2. 2 * (n.sign * n.prev) < 2 * T
          BY <2>4, <3>1, <4>2, <5>1
        <5> QED BY <1>1, <3>2, <3>3, <5>1, <5>2 DEF Driving, T
      <4> QED BY <4>1, <4>2
    <3>5. n.flips = 0 => /\ n.sign = 1 /\ n.applied[2] = 1 /\ n.applied[1] \in {0, 1}
                         /\ n.plus = 0 /\ n.minus = 0
      BY <1>1, <2>1, <2>2, <3>2 DEF Follows, Running
    <3>6. n.flips > 0 => 2 * T - 6 * S <= 2 * Base(n, S) /\ (S > 0 => 2 * Base(n, S) < 2 * T + 6 * S)
      <4>1. CASE e.flips > 0
        BY <2>1, <2>2, <3>1, <4>1 DEF Running, T
      <4>2. CASE e.flips = 0 /\ n.flips > 0
        <5>1. Flips(e, c) /\ e.sign = 1 /\ n.plus = 0 /\ n.minus = 0
          BY <2>1, <2>2, <4>2 DEF Follows, Running
        <5>2. Base(n, S) = c
          BY <2>4, <5>1 DEF Base
        <5> QED BY <3>1, <5>1, <5>2
      <4> QED BY <1>1, <4>1, <4>2
    <3>7. S = 0 => n.flips <= 1
      <4> SUFFICES ASSUME S = 0, n.flips > 1 PROVE FALSE
        BY <1>1
      <4>1. e.flips = 1 /\ Flips(e, c)
        BY <1>1, <2>1 DEF Follows, Running
      <4>2. e.sign = -1
        BY <4>1 DEF Waving
      <4>3. e.prev = Base(e, S) /\ c = e.prev
        <5>1. S * (e.plus - e.minus) = 0 /\ S * (e.applied[1] + e.applied[2]) = 0
          BY EstLFields
        <5>2. c = e.prev + S * (e.applied[1] + e.applied[2])
          BY <2>1 DEF Running
        <5> QED BY <1>1, <5>1, <5>2 DEF Base
      <4>4. 2 * T <= 2 * c
        <5>1. 2 * T - 6 * S <= 2 * Base(e, S)
          BY <2>1, <4>1 DEF Running, T
        <5> QED BY <1>1, <4>3, <5>1
      <4>5. -(2 * c + 3 * (c - e.prev)) >= 2 * T
        BY <4>1, <4>2, FlipsBySign DEF T
      <4> QED BY <1>1, <4>3, <4>4, <4>5
    <3>8. Running(n, now, S)
      BY <2>3, <3>3, <3>4, <3>5, <3>6, <3>7 DEF Running, T
    <3> QED BY <1>1, <1>2, <2>2, <3>8 DEF Waving, now
  <2> QED BY <2>1, <2>6, <2>7 DEF Running
<1> QED BY <1>3, <1>4

LEMMA Multiples ==
  ASSUME NEW S \in Nat, S > 0, NEW k \in Int
  PROVE  /\ 4 * (S * k) < 12 * S => k < 3
         /\ -(12 * S) < 4 * (S * k) => -3 < k
<1>1. k >= 3 => S * k >= S * 3
  BY Z3
<1>2. k <= -3 => S * k <= S * (-3)
  BY Z3
<1>3. S * 3 = 3 * S /\ S * (-3) = -(3 * S) /\ S * k \in Int
  OBVIOUS
<1> QED BY <1>1, <1>2, <1>3

Unbiased(d, S) == Size(d.plus - d.minus) <= 2 /\ d.sum = 2 * S * (d.plus + d.minus)

\* A test that ends has as many samples of either sign, but for two.
LEMMA WaveCompletes ==
  ASSUME NEW e \in EstLs, NEW c \in Int, NEW S \in Nat, Waving(e, c, S), Flips(e, c), WholePeriods(e.flips + 1)
  PROVE  Unbiased(Sampled(e, c), S)
<1> DEFINE T == TargetCurrent
           d == Sampled(e, c)
           k == d.plus - d.minus
<1>1. T \in Nat /\ e.flips \in Nat /\ e.sign \in {-1, 1} /\ k \in Int /\ d.plus \in Nat /\ d.minus \in Nat
  <2>1. d \in EstLs
    BY SampledTyped
  <2> HIDE DEF d
  <2>2. d.plus \in Nat /\ d.minus \in Nat
    BY <2>1, EstLFields
  <2>3. e.flips \in Nat /\ e.sign \in {-1, 1}
    BY EstLFields DEF Signs
  <2> QED BY <2>2, <2>3, Times
<1>2. e.flips >= 2 /\ e.flips % 2 = 0
  BY <1>1 DEF WholePeriods
<1>3. e.sign = 1 /\ e.ran # 0
  BY <1>2 DEF Waving, Fresh
<1>4. Running(e, c, S) /\ e.sum = 2 * (S * (e.plus + e.minus))
  BY <1>3 DEF Waving
<1>5. S > 0
  <2>1. S = 0 => e.flips <= 1
    BY <1>4 DEF Running
  <2> QED BY <1>1, <1>2, <2>1
<1>6. Driving(e, S)
  BY <1>4, TurningGoes DEF Running
<1>7. /\ 2 * T - 6 * S <= 2 * c /\ 2 * c < 2 * T + 6 * S /\ e.applied[1] # 0
  <2>1. e.sign * c = c
    BY <1>3
  <2> QED BY <1>1, <1>2, <1>4, <1>5, <1>6, <2>1, DrivingGoes
<1>8. d.sum = 2 * (S * (d.plus + d.minus)) /\ c - 2 * (S * k) = Base(e, S)
  BY <1>1, <1>2, <1>4, <1>7, SamplesCount
<1>9. 2 * T - 6 * S <= 2 * Base(e, S) /\ 2 * Base(e, S) < 2 * T + 6 * S
  BY <1>1, <1>2, <1>4, <1>5 DEF Running
<1>10. S * k \in Int /\ S * (d.plus + d.minus) = (d.plus + d.minus) * S
  BY <1>1
<1> HIDE DEF k
<1>11. 4 * (S * k) < 12 * S /\ -(12 * S) < 4 * (S * k)
  BY <1>1, <1>7, <1>8, <1>9, <1>10
<1>12. k < 3 /\ -3 < k
  BY <1>1, <1>5, <1>11, Multiples
<1>13. Size(k) <= 2
  BY <1>1, <1>12 DEF Size
<1>14. 2 * (S * (d.plus + d.minus)) = 2 * S * (d.plus + d.minus)
  BY <1>1
<1> QED BY <1>8, <1>13, <1>14 DEF Unbiased, k

-----------------------------------------------------------------------------
\* The wave on the bench: the voltages it applied are those that the test remembers.
Waves ==
  /\ est.state = "EstL" => Waving(est, current, motor.slope) /\ volts[2] = est.applied[2]
  /\ est.state \in {"RotorLockWait", "HallCalibrationRequired"} => current \in {0, TargetCurrent}

CleanSamples == known' \cap Inductances \subseteq known \/ Unbiased(Sampled(est, current), motor.slope)

LEMMA StartsFresh ==
  ASSUME NEW axis, NEW p \in Int, NEW c \in Int, NEW S \in Nat,
         (c = TargetCurrent /\ p <= TargetCurrent) \/ (c = 0 /\ p = 0)
  PROVE  Waving(EstL(axis, p), c, S) /\ EstL(axis, p).applied[2] = 0
<1>1. /\ EstL(axis, p).sum = 0 /\ EstL(axis, p).plus = 0 /\ EstL(axis, p).minus = 0 /\ EstL(axis, p).ran = 0
      /\ EstL(axis, p).flips = 0 /\ EstL(axis, p).sign = 1 /\ EstL(axis, p).prev = p
      /\ EstL(axis, p).applied[1] = 0 /\ EstL(axis, p).applied[2] = 0
  BY DEF EstL
<1>2. S * (0 + 0) = 0 /\ 0 % 2 = 0
  OBVIOUS
<1> QED BY <1>1, <1>2 DEF Waving, Fresh

LEMMA StepsWave ==
  ASSUME WellTyped, NEW e \in EstimatorStates, Counts(e), EstimatorSteps(e), motor' = motor,
         e.state = "EstL" => Waving(e, current, motor.slope) /\ volts[2] = e.applied[2],
         e.state = "RotorLockWait" => current \in {0, TargetCurrent}
  PROVE  /\ Waves'
         /\ \/ known' \cap Inductances \subseteq known
            \/ e.state = "EstL" /\ Unbiased(Sampled(e, current), motor.slope)
<1> DEFINE S == motor.slope
           c == current
<1>1. S \in Nat /\ c \in Int /\ known \subseteq Measured
  BY SlopeTyped DEF WellTyped, ControlTyped, BenchTyped
<1>2. PICK r \in EstimatorStep(e, current) :
        /\ est' = r.next /\ known' = known \cup r.found
        /\ IF e.state = "EstL" /\ r.next.state = "EstL" /\ e.axis = r.next.axis THEN CurrentFlows(e.sign)
           ELSE IF e.state = "RotorLockWait" THEN current' = TargetCurrent /\ volts' = <<0, 0>>
           ELSE CurrentDecays
  BY Zenon DEF EstimatorSteps
<1>3. Stays(e, r) \/ GivesUp(r) \/ Advances(e, r)
  BY <1>1, <1>2, EstimatorMoves
<1>4. CASE e.state = "EstL"
  <2>1. e \in EstLs /\ r \in EstLStep(e, c) \cup EstLRefuses(e)
    BY <1>2, <1>4, Kinds DEF EstimatorStep
  <2>2. ASSUME NEW n \in EstLs, r = Goes(n), Follows(n, e, c), n.state = "EstL", n.axis = e.axis
        PROVE  Waves' /\ known' = known
    <3>1. est' = n /\ known' = known
      BY <1>2, <2>2, StepResults
    <3>2. CurrentFlows(e.sign)
      BY <1>2, <1>4, <2>2, <3>1
    <3>3. /\ volts'[2] = n.applied[2]
          /\ current' = c + S * (e.applied[2] + e.sign)
      BY <1>4, <2>2, <3>2 DEF CurrentFlows, Follows
    <3>4. Waving(n, c + S * (e.applied[2] + e.sign), S)
      BY <1>1, <1>4, <2>1, <2>2, WaveGoes
    <3>5. motor'.slope = S
      OBVIOUS
    <3> HIDE DEF S, c
    <3> QED BY <2>2, <3>1, <3>3, <3>4, <3>5 DEF Waves
  <2>3. CASE r = Goes(EstLSampled(e, c)) /\ EstLSampled(e, c) \in EstLs /\ ~Flips(e, c)
    <3>1. /\ Follows(EstLSampled(e, c), e, c)
          /\ EstLSampled(e, c).state = "EstL" /\ EstLSampled(e, c).axis = e.axis
      BY <1>1, <2>1, <2>3, EstLNext DEF Follows
    <3>2. Waves' /\ known' = known
      BY <2>2, <2>3, <3>1
    <3> QED BY <3>2
  <2>4. CASE r = Goes(EstLFlipped(e, c)) /\ EstLFlipped(e, c) \in EstLs /\ Flips(e, c)
    <3>1. /\ Follows(EstLFlipped(e, c), e, c)
          /\ EstLFlipped(e, c).state = "EstL" /\ EstLFlipped(e, c).axis = e.axis
      BY <1>1, <2>1, <2>4, EstLNext DEF Follows
    <3>2. Waves' /\ known' = known
      BY <2>2, <2>4, <3>1
    <3> QED BY <3>2
  <2>5. CASE Failed(r)
    <3>1. PICK f \in EstimationFailures : r = Fails(f)
      BY <2>5 DEF Failed
    <3>2. est' = Failure(f) /\ known' = known
      BY <1>2, <3>1, StepResults
    <3> QED BY <3>2 DEF Waves, Failure
  <2>6. CASE Flips(e, c) /\ WholePeriods(e.flips + 1)
             /\ r = IF e.axis = "d" THEN StepResult(EstL("q", 0), {"d_inductance"}, FALSE)
                    ELSE StepResult(TuningRequired, {"q_inductance"}, FALSE)
    <3>1. Unbiased(Sampled(e, c), S)
      BY <1>1, <1>4, <2>1, <2>6, WaveCompletes
    <3>2. CASE e.axis = "d"
      <4>1. est' = EstL("q", 0) /\ EstL("q", 0).axis = "q" /\ EstL("q", 0).state = "EstL"
        BY <1>2, <2>6, <3>2 DEF EstL, StepResult
      <4>2. CurrentDecays
        BY <1>2, <1>4, <3>2, <4>1
      <4>3. Waving(EstL("q", 0), 0, S) /\ EstL("q", 0).applied[2] = 0
        BY <1>1, StartsFresh
      <4>4. current' = 0 /\ volts'[2] = 0 /\ motor'.slope = S
        BY <4>2 DEF CurrentDecays
      <4> HIDE DEF S
      <4> QED BY <1>4, <3>1, <4>1, <4>3, <4>4 DEF Waves, S
    <3>3. CASE e.axis # "d"
      <4>1. est' = TuningRequired
        BY <1>2, <2>6, <3>3 DEF StepResult
      <4> QED BY <1>4, <3>1, <4>1 DEF Waves, TuningRequired
    <3> QED BY <3>2, <3>3
  <2> QED BY <1>1, <2>1, <2>3, <2>4, <2>5, <2>6, EstLSteps
<1>5. CASE e.state # "EstL"
  <2>1. known' \cap Inductances \subseteq known
    <3>1. r.found \cap Inductances = {}
      BY <1>3, <1>5 DEF Stays, GivesUp, Advances, Resistance, Inductances
    <3> QED BY <1>2, <3>1
  <2>2. CASE e.state = "RotorLockWait"
    <3>1. e \in RotorLockWaits /\ r \in RotorLockWaitStep(e, c)
      BY <1>2, <2>2, Kinds DEF EstimatorStep
    <3>2. current' = TargetCurrent /\ volts' = <<0, 0>> /\ motor'.slope = S /\ current \in {0, TargetCurrent}
      BY <1>2, <2>2
    <3>3. \/ r.next \in RotorLockWaits
          \/ r.next = EstL("d", c)
          \/ r.next = EstR
      BY <1>1, <3>1, RotorLockWaitSteps
    <3>4. CASE r.next \in RotorLockWaits
      BY <1>2, <2>1, <3>2, <3>4 DEF Waves, RotorLockWaits
    <3>5. CASE r.next = EstL("d", c)
      <4>1. Waving(EstL("d", c), TargetCurrent, S) /\ EstL("d", c).applied[2] = 0 /\ EstL("d", c).state = "EstL"
        BY <1>1, <3>2, Times, StartsFresh DEF EstL
      <4>2. est' = EstL("d", c)
        BY <1>2, <3>5
      <4> HIDE DEF S, c
      <4> QED BY <2>1, <3>2, <4>1, <4>2 DEF Waves, S
    <3>6. CASE r.next = EstR
      BY <1>2, <2>1, <3>6 DEF Waves, EstR
    <3> QED BY <2>1, <3>3, <3>4, <3>5, <3>6
  <2>3. CASE e.state # "RotorLockWait"
    <3>1. current' = 0
      BY <1>2, <1>5, <2>3 DEF CurrentDecays
    <3>2. r.next.state # "EstL"
      BY <1>3, <1>5, <2>3 DEF Stays, GivesUp, Advances
    <3> QED BY <1>2, <2>1, <3>1, <3>2 DEF Waves
  <2> QED BY <2>2, <2>3
<1> QED BY <1>4, <1>5

LEMMA QuietWaves ==
  ASSUME est.state # "EstL", est' = est, known' = known, CurrentDecays
  PROVE  Waves' /\ CleanSamples
BY DEF CurrentDecays, Waves, CleanSamples

LEMMA ResumeWaves == ASSUME Staged, Resume PROVE Waves' /\ CleanSamples
<1>1. known' = known /\ current' = 0 /\ phase \in WaitPhases
  BY DEF Resume, CurrentDecays
<1>2. est'.state # "EstL"
  <2>1. CASE phase = "ClearingExistingParameters"
    BY <2>1 DEF Resume, RotorLockWait
  <2>2. CASE phase = "WaitingHallCompletion"
    <3>1. est' = RotorLockWait(TRUE)
      BY <2>2 DEF Resume, Staged, PhaseOf, AcknowledgeHall
    <3> QED BY <3>1 DEF RotorLockWait
  <2>3. CASE phase = "WaitingTuning"
    <3>1. est' \in {EstF, Failure("MissingMotorParams")}
      BY <2>3 DEF Resume, Staged, PhaseOf, AcknowledgeTuning
    <3> QED BY <3>1 DEF EstF, Failure
  <2> QED BY <1>1, <2>1, <2>2, <2>3 DEF WaitPhases
<1> QED BY <1>1, <1>2 DEF Waves, CleanSamples

LEMMA EstimationTickWaves ==
  ASSUME WellTyped, Staged, Waves, mode = "Calibration", EstimationTick
  PROVE  Waves' /\ CleanSamples
<1>0. est \in EstimatorStates /\ Counts(est)
  BY DEF WellTyped, ControlTyped
<1>1. ASSUME Request \in {"fault", "done", "unwind", "tune"} PROVE Waves' /\ CleanSamples
  <2>1. est.state # "EstL"
    <3>1. Request = "unwind" => unwind
      BY DEF Request
    <3>2. Request = "unwind" => est.state \in {"HallCalibrationRequired", "Failure", "Done"}
      BY <3>1 DEF Staged, UnwindOnly
    <3> QED BY <1>1, <3>2, RequestSays DEF TuningRequired
  <2>2. est' = est /\ known' = known /\ CurrentDecays
    BY <1>1 DEF EstimationTick, Reports
  <2> QED BY <2>1, <2>2, QuietWaves
<1>2. CASE Request = "hall"
  <2>1. HallRequested /\ est = HallCalibrationRequired
    BY <1>2, RequestSays DEF EstimationTick
  <2>2. CASE HasHall
    <3>1. est' = est /\ known' = known /\ CurrentDecays
      BY <2>1, <2>2 DEF HallRequested
    <3>2. est.state # "EstL"
      BY <2>1 DEF HallCalibrationRequired
    <3> QED BY <3>1, <3>2, QuietWaves
  <2>3. CASE ~HasHall
    <3>1. EstimatorSteps(RotorLockWait(TRUE)) /\ motor' = motor
      BY <2>1, <2>3 DEF HallRequested, AcknowledgeHall, Commands
    <3>2. RotorLockWait(TRUE) \in EstimatorStates /\ Counts(RotorLockWait(TRUE)) /\ RotorLockWait(TRUE).state = "RotorLockWait"
      BY Starts DEF EstimatorStates, Counts, RotorLockWait
    <3>3. current \in {0, TargetCurrent}
      BY <2>1 DEF Waves, HallCalibrationRequired
    <3> QED BY <3>1, <3>2, <3>3, StepsWave DEF CleanSamples
  <2> QED BY <2>2, <2>3
<1>3. CASE Request = "none"
  <2>1. EstimatorSteps(est) /\ motor' = motor
    BY <1>3 DEF EstimationTick, Estimates, Commands
  <2> QED BY <1>0, <2>1, StepsWave DEF Waves, CleanSamples
<1> QED BY <1>1, <1>2, <1>3, RequestSays

LEMMA NextWaves ==
  ASSUME WellTyped, Staged, Waves, [Next]_vars
  PROVE  Waves' /\ CleanSamples
<1>1. CASE UNCHANGED vars
  BY <1>1 DEF vars, control, bench, Waves, CleanSamples
<1>2. CASE StartCalibration
  BY <1>2 DEF StartCalibration, Waves, CleanSamples, Off
<1>3. CASE Stop \/ FinishCalibration
  BY <1>3 DEF Stop, FinishCalibration, bench, Waves, CleanSamples
<1>4. CASE HallTick
  <2>1. est' = est /\ known' = known /\ CurrentDecays
    BY <1>4 DEF HallTick, Reports
  <2>2. est.state # "EstL"
    BY <1>4 DEF HallTick, Staged, PhaseOf, HallCalibrationRequired
  <2> QED BY <2>1, <2>2, QuietWaves
<1>5. CASE WaitingTick \/ DoneTick
  <2>1. est' = est /\ known' = known /\ CurrentDecays
    BY <1>5 DEF WaitingTick, DoneTick
  <2>2. est.state # "EstL"
    BY <1>5 DEF WaitingTick, DoneTick, WaitPhases, Staged, PhaseOf, HallCalibrationRequired, TuningRequired, Off
  <2> QED BY <2>1, <2>2, QuietWaves
<1> QED BY <1>1, <1>2, <1>3, <1>4, <1>5, ResumeWaves, EstimationTickWaves DEF Next, Task, Tick

(***************************************************************************)
(* An inductance is computed from clean samples only, and from as many of  *)
(* either sign but for two: for every target current, slope of the current *)
(* and length of the test, and however often it was cancelled before.      *)
(***************************************************************************)
THEOREM InductancesUnbiased == Spec => InductanceUnbiased
<1>1. Init => Waves
  BY DEF Init, Waves, Off
<1>2. WellTyped /\ Staged /\ Waves /\ [Next]_vars =>
        /\ Waves'
        /\ [known' \cap {"d_inductance", "q_inductance"} \subseteq known \/
             LET s == Sampled(est, current)
             IN  mode = "Calibration" /\ starts' = starts =>
                   /\ Size(s.plus - s.minus) <= 2
                   /\ s.sum = 2 * motor.slope * (s.plus + s.minus)]_vars
  BY NextWaves DEF CleanSamples, Unbiased, Inductances
<1> QED BY <1>1, <1>2, AlwaysStaged, PTL DEF Spec, InductanceUnbiased
-----------------------------------------------------------------------------
(***************************************************************************)
(* Angles on the ring: a sweep passes the sectors in their order, so they  *)
(* are counted on a line and reduced to the six of a turn where a pattern  *)
(* is read.  At(j, o) is the angle o half steps after the edge of sector j.*)
(***************************************************************************)
At(j, o) == Wrapped(EdgeOf(j % 6) + o)

LEMMA TurnIs == Turn = 6 * Sector /\ Turn \in Nat \ {0} /\ Sector \in Nat /\ Sector >= 8 /\ Sector % 4 = 0
BY HallCalibratorAssumption DEF Turn

LEMMA ProductGrows ==
  ASSUME NEW k \in Nat, NEW x \in Int, NEW y \in Int, x <= y
  PROVE  k * x \in Int /\ k * y \in Int /\ k * x <= k * y
<1> DEFINE d == y - x
<1>1. d \in Nat /\ y = x + d
  OBVIOUS
<1> HIDE DEF d
<1>2. k * y = k * x + k * d
  BY <1>1
<1>3. k * d \in Nat /\ k * x \in Int /\ k * y \in Int
  BY <1>1
<1> QED BY <1>2, <1>3

\* Quotient and remainder are the only ones.
LEMMA OneRemainder ==
  ASSUME NEW w \in Nat \ {0}, NEW q \in Int, NEW r \in 0 .. w - 1
  PROVE  (w * q + r) % w = r /\ (w * q + r) \div w = q
<1> DEFINE s == w * q + r
           p == s \div w
           t == s % w
<1>1. s \in Int /\ p \in Int /\ t \in 0 .. w - 1 /\ s = w * p + t
  OBVIOUS
<1>2. s = w * q + r
  OBVIOUS
<1> HIDE DEF s, p, t
<1>3. p = q
  <2>1. CASE p + 1 <= q
    <3>1. w * (p + 1) <= w * q /\ w * (p + 1) = w * p + w /\ w * p \in Int /\ w * q \in Int
      BY <1>1, <2>1, ProductGrows
    <3> QED BY <1>1, <1>2, <3>1
  <2>2. CASE q + 1 <= p
    <3>1. w * (q + 1) <= w * p /\ w * (q + 1) = w * q + w /\ w * p \in Int /\ w * q \in Int
      BY <1>1, <2>2, ProductGrows
    <3> QED BY <1>1, <1>2, <3>1
  <2> QED BY <1>1, <2>1, <2>2
<1>4. t = r
  <2>1. w * q \in Int
    OBVIOUS
  <2> QED BY <1>1, <1>2, <1>3, <2>1
<1> QED BY <1>3, <1>4 DEF s, p, t

\* Whole turns do not matter.
LEMMA WholeTurns ==
  ASSUME NEW x \in Int, NEW k \in Int
  PROVE  Wrapped(x + Turn * k) = Wrapped(x)
<1> DEFINE w == Turn
           q == x \div w
           r == x % w
<1>1. w \in Nat \ {0}
  BY TurnIs
<1> HIDE DEF w
<1>2. q \in Int /\ r \in 0 .. w - 1 /\ x = w * q + r
  BY <1>1
<1> HIDE DEF q, r
<1>3. x + w * k = w * (q + k) + r /\ q + k \in Int
  BY <1>1, <1>2
<1>4. (x + w * k) % w = r
  BY <1>1, <1>2, <1>3, OneRemainder
<1>5. x % w = r
  BY <1>1, <1>2, OneRemainder
<1> QED BY <1>4, <1>5 DEF Wrapped, w

\* An angle differs from its number of half steps by whole turns.
LEMMA TurnsOff ==
  ASSUME NEW x \in Int
  PROVE  \E k \in Int : Wrapped(x) = x + Turn * k
<1> DEFINE w == Turn
           q == x \div w
           r == x % w
<1>1. w \in Nat \ {0}
  BY TurnIs
<1> HIDE DEF w
<1>2. q \in Int /\ r \in Int /\ x = w * q + r
  BY <1>1
<1>3. -q \in Int /\ r = x + w * (-q)
  <2> HIDE DEF q, r
  <2> QED BY <1>1, <1>2
<1> QED BY <1>3 DEF Wrapped, w

LEMMA WrappedTwice ==
  ASSUME NEW x \in Int, NEW y \in Int
  PROVE  Wrapped(Wrapped(x) + y) = Wrapped(x + y)
<1>1. PICK k \in Int : Wrapped(x) = x + Turn * k
  BY TurnsOff
<1>2. Turn * k \in Int
  BY TurnIs
<1>3. Wrapped(x) + y = (x + y) + Turn * k
  BY <1>1, <1>2
<1> QED BY <1>3, WholeTurns

LEMMA WrappedSmall ==
  ASSUME NEW d \in Int, -Turn <= d, d < Turn
  PROVE  Wrapped(d) = IF d < 0 THEN d + Turn ELSE d
<1> DEFINE w == Turn
<1>1. w \in Nat \ {0} /\ -w <= d /\ d < w
  BY TurnIs
<1> HIDE DEF w
<1>2. CASE d < 0
  <2>1. d + w \in 0 .. w - 1 /\ d = w * (-1) + (d + w)
    BY <1>1, <1>2
  <2> QED BY <1>1, <1>2, <2>1, OneRemainder DEF Wrapped, w
<1>3. CASE ~(d < 0)
  <2>1. d \in 0 .. w - 1 /\ d = w * 0 + d
    BY <1>1, <1>3
  <2> QED BY <1>1, <1>3, <2>1, OneRemainder DEF Wrapped, w
<1> QED BY <1>2, <1>3

LEMMA AtIs ==
  ASSUME NEW j \in Int, NEW o \in Int
  PROVE  /\ j % 6 \in 0 .. 5 /\ (j % 6) * Sector \in Int
         /\ At(j, o) = Wrapped(HallOffset + (j % 6) * Sector + o)
         /\ At(j, o) \in Angles /\ At(j, o) \in Int
<1> DEFINE x == HallOffset + (j % 6) * Sector
<1>1. j % 6 \in 0 .. 5 /\ (j % 6) * Sector \in Int /\ HallOffset \in Int /\ x \in Int
  BY AngleTyped
<1>2. At(j, o) = Wrapped(HallOffset + (j % 6) * Sector + o)
  <2>1. At(j, o) = Wrapped(Wrapped(x) + o)
    BY DEF At, EdgeOf
  <2> HIDE DEF x
  <2>2. Wrapped(Wrapped(x) + o) = Wrapped(x + o)
    BY <1>1, WrappedTwice
  <2> QED BY <2>1, <2>2 DEF x
<1>3. Wrapped(HallOffset + (j % 6) * Sector + o) \in Angles
  <2>1. HallOffset + (j % 6) * Sector + o \in Int
    BY <1>1
  <2> QED BY <2>1, AngleTyped
<1> QED BY <1>1, <1>2, <1>3, AngleTyped

LEMMA AtMoves ==
  ASSUME NEW j \in Int, NEW o \in Int, NEW d \in Int
  PROVE  Wrapped(At(j, o) + d) = At(j, o + d)
<1>1. EdgeOf(j % 6) \in Int
  BY AtIs, AngleTyped DEF EdgeOf
<1>2. Wrapped(Wrapped(EdgeOf(j % 6) + o) + d) = Wrapped(EdgeOf(j % 6) + o + d)
  BY <1>1, WrappedTwice
<1> QED BY <1>1, <1>2 DEF At

\* The edge of the next sector is one sector on, also from the last sector to the first.
LEMMA AtNext ==
  ASSUME NEW j \in Int, NEW o \in Int
  PROVE  At(j + 1, o) = At(j, Sector + o)
<1> DEFINE k == j % 6
           S == Sector
<1>1. k \in 0 .. 5 /\ (j + 1) % 6 = (IF k = 5 THEN 0 ELSE k + 1) /\ (j + 1) % 6 \in 0 .. 5
  OBVIOUS
<1>2. S \in Int /\ Turn = 6 * S /\ HallOffset \in Int /\ S \in Nat
  BY TurnIs, AngleTyped
<1>3. /\ At(j + 1, o) = Wrapped(HallOffset + ((j + 1) % 6) * S + o)
      /\ At(j, S + o) = Wrapped(HallOffset + k * S + (S + o))
  <2>1. j + 1 \in Int /\ Sector + o \in Int
    BY <1>2
  <2>2. At(j + 1, o) = Wrapped(HallOffset + ((j + 1) % 6) * Sector + o)
    BY <2>1, AtIs
  <2>3. At(j, Sector + o) = Wrapped(HallOffset + (j % 6) * Sector + (Sector + o))
    BY <2>1, AtIs
  <2> QED BY <2>2, <2>3
<1> DEFINE l == (j + 1) % 6
<1> HIDE DEF k, l, S
<1>4. CASE k # 5
  <2>1. l * S = k * S + S /\ k * S \in Int /\ l * S \in Int
    <3>1. l = k + 1
      BY <1>1, <1>4 DEF l
    <3> QED BY <1>1, <1>2, <3>1
  <2>2. HallOffset + l * S + o = HallOffset + k * S + (S + o)
    <3> DEFINE x == k * S
               y == l * S
    <3>1. x \in Int /\ y = x + S
      BY <2>1
    <3> HIDE DEF x, y
    <3>2. HallOffset + y + o = HallOffset + x + (S + o)
      BY <1>2, <3>1
    <3> QED BY <3>2 DEF x, y
  <2> QED BY <1>3, <2>2 DEF l, S
<1>5. CASE k = 5
  <2>1. HallOffset + l * S + o = HallOffset + o
    <3>1. l = 0
      BY <1>1, <1>5 DEF l
    <3> QED BY <1>2, <3>1
  <2>2. HallOffset + k * S + (S + o) = (HallOffset + o) + Turn * 1
    BY <1>2, <1>5
  <2>3. Wrapped((HallOffset + o) + Turn * 1) = Wrapped(HallOffset + o)
    <3>1. HallOffset + o \in Int
      BY <1>2
    <3> QED BY <3>1, WholeTurns
  <2> QED BY <1>3, <2>1, <2>2, <2>3 DEF l, S
<1> QED BY <1>4, <1>5 DEF S

\* The distance of two angles less than a turn apart
LEMMA DiffAt ==
  ASSUME NEW j \in Int, NEW o \in Int, NEW p \in Int, -Turn < p - o, 2 * (p - o) <= Turn
  PROVE  WrappedDiff(At(j, p), At(j, o)) = IF 2 * (p - o) > -Turn THEN p - o ELSE p - o + Turn
<1> DEFINE e == EdgeOf(j % 6)
           d == (At(j, p) - At(j, o)) % Turn
<1>1. e \in Int /\ Turn \in Int /\ Turn > 0
  BY AtIs, AngleTyped, TurnIs DEF EdgeOf
<1> HIDE DEF e
<1>0. At(j, p) = Wrapped(e + p) /\ At(j, o) = Wrapped(e + o) /\ e + p \in Int /\ e + o \in Int
  BY <1>1 DEF At, e
<1>2. PICK k1 \in Int : At(j, p) = e + p + Turn * k1
  BY <1>0, TurnsOff
<1>3. PICK k2 \in Int : At(j, o) = e + o + Turn * k2
  BY <1>0, TurnsOff
<1>4. At(j, p) - At(j, o) = (p - o) + Turn * (k1 - k2)
  <2>1. Turn * (k1 - k2) = Turn * k1 - Turn * k2 /\ Turn * k1 \in Int /\ Turn * k2 \in Int
    BY <1>1
  <2> QED BY <1>1, <1>2, <1>3, <2>1
<1>5. d = Wrapped(p - o)
  <2>1. Wrapped((p - o) + Turn * (k1 - k2)) = Wrapped(p - o)
    BY WholeTurns
  <2> QED BY <1>4, <2>1 DEF Wrapped
<1>6. d = IF p - o < 0 THEN p - o + Turn ELSE p - o
  BY <1>1, <1>5, WrappedSmall
<1> HIDE DEF d
<1>7. WrappedDiff(At(j, p), At(j, o)) = IF 2 * d > Turn THEN d - Turn ELSE d
  BY DEF WrappedDiff, d
<1> QED BY <1>1, <1>6, <1>7

LEMMA SectorOf ==
  ASSUME NEW j \in Int, NEW u \in 0 .. Sector - 1
  PROVE  SectorAt(At(j, u)) = j % 6
<1> DEFINE k == j % 6
           S == Sector
           H == HallOffset
<1>1. k \in 0 .. 5 /\ S \in Nat \ {0} /\ Turn = 6 * S /\ H \in Int /\ k * S \in Int /\ u \in 0 .. S - 1
  BY TurnIs, AngleTyped
<1>2. At(j, u) = Wrapped(H + k * S + u)
  <2>1. u \in Int
    BY <1>1
  <2> QED BY <2>1, AtIs
<1> HIDE DEF k, S, H
<1>3. Wrapped(At(j, u) - H) = Wrapped(k * S + u)
  <2>1. Wrapped(Wrapped(H + k * S + u) + -H) = Wrapped((H + k * S + u) + -H)
    BY <1>1, WrappedTwice
  <2>2. Wrapped(H + k * S + u) + -H = Wrapped(H + k * S + u) - H /\ (H + k * S + u) + -H = k * S + u
    BY <1>1, AngleTyped
  <2> QED BY <1>2, <2>1, <2>2
<1>4. Wrapped(k * S + u) = k * S + u
  <2>1. 0 <= k * S /\ k * S <= 5 * S
    BY <1>1
  <2> QED BY <1>1, <2>1, WrappedSmall
<1>5. (S * k + u) \div S = k /\ S * k = k * S
  BY <1>1, OneRemainder
<1> QED BY <1>3, <1>4, <1>5 DEF SectorAt, k, S, H

\* Every angle is in a sector.
LEMMA AngleAt ==
  ASSUME NEW a \in Angles
  PROVE  \E j \in Int, u \in 0 .. Sector - 1 : a = At(j, u)
<1> DEFINE S == Sector
           H == HallOffset
           x == Wrapped(a - H)
           j == x \div S
           u == x % S
<1>1. S \in Nat \ {0} /\ H \in Int /\ a \in Int /\ a >= 0 /\ a < Turn /\ Turn \in Int
  BY TurnIs, AngleTyped DEF Angles
<1>2. j \in 0 .. 5
  BY SectorTyped DEF SectorAt
<1>3. x \in Int
  <2>1. a - H \in Int
    BY <1>1
  <2> QED BY <2>1, AngleTyped
<1> HIDE DEF S, H, x
<1>4. u \in 0 .. S - 1 /\ x = S * j + u /\ j \in Int
  BY <1>1, <1>3
<1> HIDE DEF j, u
<1>5. j % 6 = j
  BY <1>2
<1>6. At(j, u) = Wrapped(H + j * S + u)
  <2>1. u \in Int
    BY <1>1, <1>4
  <2>2. At(j, u) = Wrapped(HallOffset + (j % 6) * Sector + u)
    BY <1>4, <2>1, AtIs
  <2> QED BY <1>5, <2>2 DEF S, H
<1>7. H + j * S + u = x + H
  BY <1>1, <1>3, <1>4
<1>8. Wrapped(x + H) = Wrapped((a - H) + H)
  BY <1>1, WrappedTwice DEF x
<1>9. (a - H) + H = a /\ Wrapped(a) = a
  BY <1>1, WrappedSmall
<1> QED BY <1>4, <1>6, <1>7, <1>8, <1>9 DEF S

\* The target starts at zero: an even number of half steps from the end of the ring.
LEMMA EvenAt ==
  ASSUME NEW j \in Int, NEW o \in Int, At(j, o) = 0
  PROVE  (HallOffset + o) % 2 = 0
<1> DEFINE k == j % 6
           S == Sector
           H == HallOffset
<1>1. k \in Int /\ S \in Int /\ Turn = 6 * S /\ H \in Int /\ k * S \in Int
  BY TurnIs, AngleTyped
<1>2. At(j, o) = Wrapped(H + k * S + o)
  BY AtIs
<1>3. S % 4 = 0
  BY TurnIs
<1> HIDE DEF k, S, H
<1>4. PICK t \in Int : 0 = H + k * S + o + Turn * t
  <2> DEFINE x == H + k * S + o
  <2>1. x \in Int /\ Wrapped(x) = 0
    BY <1>1, <1>2
  <2> HIDE DEF x
  <2>2. \E t \in Int : 0 = x + Turn * t
    BY <2>1, TurnsOff
  <2> QED BY <2>2 DEF x
<1>5. PICK h \in Int : S = 2 * h
  <2>1. S = 2 * (2 * (S \div 4)) /\ 2 * (S \div 4) \in Int
    BY <1>1, <1>3
  <2> QED BY <2>1
<1>6. k * S = 2 * (k * h) /\ Turn * t = 2 * (6 * (h * t)) /\ k * h \in Int /\ h * t \in Int
  BY <1>1, <1>5
<1>7. \E n \in Int : H + o = 2 * n
  <2>1. H + o = 2 * (-(k * h) - 6 * (h * t)) /\ -(k * h) - 6 * (h * t) \in Int
    BY <1>1, <1>4, <1>6
  <2> QED BY <2>1
<1> QED BY <1>7 DEF H
-----------------------------------------------------------------------------
(***************************************************************************)
(* A motor with healthy sensors, and its bench: the rotor is u half steps  *)
(* into sector q and the target lag half steps ahead of it.                *)
(***************************************************************************)
HealthyMotor(m) ==
  /\ m.friction.forward \in Nat /\ m.friction.reverse \in Nat
  /\ m.sensor \in [0 .. 5 -> 1 .. 6]
  /\ \A i, j \in 0 .. 5 : m.sensor[i] = m.sensor[j] => i = j

Seen(m, j) == m.sensor[j % 6]

LEMMA HealthyMotors ==
  ASSUME BenchTyped, Healthy(motor.sensor)
  PROVE  HealthyMotor(motor) /\ (Moves(motor.friction) \/ IsLocked(motor.friction))
<1> DEFINE s == motor.sensor
<1>1. /\ s \in [0 .. 5 -> Patterns] /\ motor.friction \in Frictions
      /\ motor.friction.forward \in Nat /\ motor.friction.reverse \in Nat
  BY CommissioningAssumption DEF BenchTyped, Motors
<1> HIDE DEF s
<1>2. {s[i] : i \in 0 .. 5} = 1 .. 6
  BY <1>1 DEF Healthy, Range, s
<1>3. s \in [0 .. 5 -> 1 .. 6]
  BY <1>1, <1>2
<1>4. \A i, j \in 0 .. 5 : s[i] = s[j] => i = j
  <2>1. \A v \in 1 .. 6 : \E i \in 0 .. 5 : s[i] = v
    BY <1>2
  <2>2. s \in Surjection(0 .. 5, 1 .. 6)
    BY <1>3, <2>1 DEF Surjection
  <2>3. /\ IsFiniteSet(0 .. 5) /\ IsFiniteSet(1 .. 6)
        /\ Cardinality(0 .. 5) = 6 /\ Cardinality(1 .. 6) = 6
    <3>1. \A n, k \in Int : n <= k => IsFiniteSet(n .. k) /\ Cardinality(n .. k) = k - n + 1
      BY FS_Interval
    <3>2. 0 \in Int /\ 1 \in Int /\ 5 \in Int /\ 6 \in Int /\ 0 <= 5 /\ 1 <= 6 /\ 5 - 0 + 1 = 6 /\ 6 - 1 + 1 = 6
      OBVIOUS
    <3> QED BY <3>1, <3>2, Zenon
  <2>4. s \in Injection(0 .. 5, 1 .. 6)
    BY <2>2, <2>3, FS_Surjection
  <2> QED BY <2>4 DEF Injection, IsInjective
<1> QED BY <1>1, <1>3, <1>4, CommissioningAssumption DEF HealthyMotor, s

\* A healthy sensor tells the sectors of a turn apart, and its patterns index the table.
LEMMA SeenIs ==
  ASSUME NEW m, HealthyMotor(m), NEW j \in Int
  PROVE  /\ Seen(m, j) \in 1 .. 6 /\ Seen(m, j) \in Patterns /\ Seen(m, j) # NoPattern
         /\ Entry(Seen(m, j)) = Seen(m, j)
<1>1. Seen(m, j) \in 1 .. 6
  BY DEF HealthyMotor, Seen
<1>2. ASSUME NEW p \in 1 .. 6 PROVE Entry(p) = p
  <2>1. Min({p, 6}) = p
    BY PickedLeast
  <2> QED BY <2>1, PickedGreatest DEF Entry
<1> QED BY <1>1, <1>2 DEF Patterns, NoPattern

LEMMA SeenApart ==
  ASSUME NEW m, HealthyMotor(m), NEW i \in Int, NEW j \in Int, Seen(m, i) = Seen(m, j)
  PROVE  i % 6 = j % 6 /\ (-6 < i - j /\ i - j < 6 => i = j)
<1>1. i % 6 \in 0 .. 5 /\ j % 6 \in 0 .. 5
  OBVIOUS
<1>2. i % 6 = j % 6
  BY <1>1 DEF HealthyMotor, Seen
<1> QED BY <1>2

LEMMA SeenAgain ==
  ASSUME NEW m, NEW j \in Int
  PROVE  Seen(m, j + 6) = Seen(m, j) /\ \A o : At(j + 6, o) = At(j, o)
<1>1. (j + 6) % 6 = j % 6
  OBVIOUS
<1> QED BY <1>1 DEF Seen, At

Placed(m, r, t, q, u, lag) ==
  /\ q \in Int /\ u \in 0 .. Sector - 1 /\ lag \in -m.friction.reverse .. m.friction.forward
  /\ r = At(q, u) /\ t = At(q, u + lag) /\ (HallOffset + u + lag) % 2 = 0

\* The difference of two angles is at most half a turn.
LEMMA DiffIs ==
  ASSUME NEW a \in Angles, NEW b \in Angles
  PROVE  /\ WrappedDiff(a, b) \in Int /\ -Turn < 2 * WrappedDiff(a, b) /\ 2 * WrappedDiff(a, b) <= Turn
         /\ a = Wrapped(b + WrappedDiff(a, b))
<1> DEFINE w == Turn
           e == a - b
<1>1. w \in Nat \ {0} /\ e \in Int /\ a \in Int /\ b \in Int /\ a >= 0 /\ a < w /\ b >= 0 /\ b < w
  BY TurnIs DEF Angles
<1>2. Wrapped(e) = IF e < 0 THEN e + w ELSE e
  BY <1>1, WrappedSmall
<1> DEFINE d == Wrapped(e)
<1>3. WrappedDiff(a, b) = IF 2 * d > w THEN d - w ELSE d
  BY DEF WrappedDiff, Wrapped
<1>4. e = a - b
  OBVIOUS
<1> HIDE DEF d, w, e
<1>5. d \in Int /\ 0 <= d /\ d < w /\ (d = e \/ d = e + w)
  BY <1>1, <1>2, <1>4 DEF d
<1>6. WrappedDiff(a, b) \in {e, e + w, e - w}
  BY <1>1, <1>3, <1>5
<1>7. a = Wrapped(b + WrappedDiff(a, b))
  <2>0. Wrapped(a) = a
    <3>1. -w <= a /\ a < w
      BY <1>1
    <3> QED BY <1>1, <3>1, WrappedSmall DEF w
  <2>1. Wrapped(a + Turn * 1) = Wrapped(a) /\ Wrapped(a + Turn * (-1)) = Wrapped(a)
    BY <1>1, WholeTurns
  <2>2. a + Turn * 1 = a + w /\ a + Turn * (-1) = a - w
    BY <1>1 DEF w
  <2>3. b + e = a /\ b + (e + w) = a + w /\ b + (e - w) = a - w
    BY <1>1, <1>4
  <2> QED BY <1>6, <2>0, <2>1, <2>2, <2>3
<1> QED BY <1>1, <1>3, <1>5, <1>7 DEF w

-----------------------------------------------------------------------------
\* How the rotor follows.

LEMMA DraggedIs ==
  ASSUME NEW q \in Int, NEW u \in Int, NEW l \in Int, rotor = At(q, u), HealthyMotor(motor),
         -Turn < 2 * l, 2 * l <= Turn
  PROVE  Dragged(At(q, u + l)) =
           IF l > motor.friction.forward THEN At(q, u + l - motor.friction.forward)
           ELSE IF -l > motor.friction.reverse THEN At(q, u + l + motor.friction.reverse)
           ELSE rotor
<1> DEFINE ff == motor.friction.forward
           fr == motor.friction.reverse
<1>1. ff \in Nat /\ fr \in Nat
  BY DEF HealthyMotor
<1>2. WrappedDiff(At(q, u + l), rotor) = l
  <2>1. u + l \in Int /\ (u + l) - u = l /\ Turn \in Int /\ -Turn < l
    BY TurnIs
  <2> HIDE DEF ff, fr
  <2>2. WrappedDiff(At(q, u + l), At(q, u)) = IF 2 * ((u + l) - u) > -Turn THEN (u + l) - u ELSE (u + l) - u + Turn
    BY <2>1, DiffAt
  <2> QED BY <2>1, <2>2
<1> HIDE DEF ff, fr
<1>3. Wrapped(At(q, u + l) - ff) = At(q, u + l - ff) /\ Wrapped(At(q, u + l) + fr) = At(q, u + l + fr)
  <2>1. u + l \in Int /\ -ff \in Int /\ At(q, u + l) \in Int
    BY <1>1, AtIs
  <2>2. Wrapped(At(q, u + l) + -ff) = At(q, u + l + -ff)
    BY <2>1, AtMoves
  <2>3. Wrapped(At(q, u + l) + fr) = At(q, u + l + fr)
    BY <1>1, <2>1, AtMoves
  <2>4. At(q, u + l) + -ff = At(q, u + l) - ff /\ u + l + -ff = u + l - ff
    BY <1>1, <2>1
  <2> QED BY <2>2, <2>3, <2>4
<1>4. Dragged(At(q, u + l)) =
        IF l > ff THEN Wrapped(At(q, u + l) - ff) ELSE IF -l > fr THEN Wrapped(At(q, u + l) + fr) ELSE rotor
  BY <1>2 DEF Dragged, ff, fr
<1> QED BY <1>3, <1>4 DEF ff, fr

\* How far a target and the rotor behind it have moved: n half steps, in the next sector or not.
MovedOn(m, q, u, lag, q2, u2, lag2) ==
  \E n \in 0 .. 2 :
    /\ lag = m.friction.forward => n = 2
    /\ lag2 < m.friction.forward => n = 0
    /\ \/ q2 = q /\ u2 = u + n
       \/ q2 = q + 1 /\ u2 = u + n - Sector

MovedBack(m, q, u, lag, q2, u2, lag2) ==
  \E n \in 0 .. 2 :
    /\ lag = -m.friction.reverse => n = 2
    /\ lag2 > -m.friction.reverse => n = 0
    /\ \/ q2 = q /\ u2 = u - n
       \/ q2 = q - 1 /\ u2 = u - n + Sector

LEMMA FrictionIs ==
  ASSUME NEW m, HealthyMotor(m), Moves(m.friction)
  PROVE  /\ m.friction.forward \in Nat /\ m.friction.reverse \in Nat
         /\ 2 * m.friction.forward <= 3 * Sector /\ 2 * m.friction.reverse <= 3 * Sector
<1> DEFINE T == Turn
           S == Sector
           k == T \div 4
<1>1. T = 6 * S /\ S \in Nat
  BY TurnIs
<1> HIDE DEF T, S
<1>2. k \in Int /\ 4 * k <= T
  BY <1>1
<1>3. m.friction.forward \in Nat /\ m.friction.reverse \in Nat
  BY DEF HealthyMotor
<1>4. m.friction.forward <= k /\ m.friction.reverse <= k
  BY DEF Moves, T
<1> HIDE DEF k
<1> QED BY <1>1, <1>2, <1>3, <1>4 DEF S

\* A position past the end of a sector, or before its beginning, is in the next one.
LEMMA PlacedIn ==
  ASSUME NEW m, NEW r, NEW t, NEW q \in Int, NEW x \in -2 .. Sector + 1,
         NEW lag \in -m.friction.reverse .. m.friction.forward, HealthyMotor(m),
         r = At(q, x), t = At(q, x + lag), (HallOffset + x + lag) % 2 = 0
  PROVE  \/ x \in 0 .. Sector - 1 /\ Placed(m, r, t, q, x, lag)
         \/ x >= Sector /\ Placed(m, r, t, q + 1, x - Sector, lag)
         \/ x < 0 /\ Placed(m, r, t, q - 1, x + Sector, lag)
<1>0. Sector \in Nat /\ Sector >= 8 /\ Sector % 4 = 0 /\ HallOffset \in Int /\ lag \in Int /\ x \in Int
  BY TurnIs, AngleTyped DEF HealthyMotor
<1>1. CASE x \in 0 .. Sector - 1
  BY <1>1 DEF Placed
<1>2. CASE x >= Sector
  <2>1. x - Sector \in 0 .. Sector - 1 /\ q + 1 \in Int /\ x - Sector \in Int /\ x - Sector + lag \in Int
    BY <1>0, <1>2
  <2>2. At(q + 1, x - Sector) = At(q, Sector + (x - Sector)) /\ Sector + (x - Sector) = x
    BY <1>0, <2>1, AtNext
  <2>3. At(q + 1, x - Sector + lag) = At(q, Sector + (x - Sector + lag)) /\ Sector + (x - Sector + lag) = x + lag
    BY <1>0, <2>1, AtNext
  <2>4. (HallOffset + (x - Sector) + lag) % 2 = 0
    BY <1>0
  <2> QED BY <1>2, <2>1, <2>2, <2>3, <2>4 DEF Placed
<1>3. CASE x < 0
  <2>1. x + Sector \in 0 .. Sector - 1 /\ q - 1 \in Int /\ x + Sector + lag \in Int /\ q - 1 + 1 = q
    BY <1>0, <1>3
  <2>2. At((q - 1) + 1, x) = At(q - 1, Sector + x) /\ Sector + x = x + Sector
    BY <1>0, <2>1, AtNext
  <2>3. At((q - 1) + 1, x + lag) = At(q - 1, Sector + (x + lag)) /\ Sector + (x + lag) = x + Sector + lag
    <3>1. x + lag \in Int
      BY <1>0
    <3> QED BY <1>0, <2>1, <3>1, AtNext
  <2>4. (HallOffset + (x + Sector) + lag) % 2 = 0
    BY <1>0
  <2> QED BY <1>3, <2>1, <2>2, <2>3, <2>4 DEF Placed
<1> QED BY <1>0, <1>1, <1>2, <1>3

LEMMA ForwardMoves ==
  ASSUME HealthyMotor(motor), Moves(motor.friction), NEW t, NEW q, NEW u, NEW lag, Placed(motor, rotor, t, q, u, lag)
  PROVE  \E q2, u2, lag2 :
           /\ Placed(motor, Dragged(Wrapped(t + Step)), Wrapped(t + Step), q2, u2, lag2)
           /\ MovedOn(motor, q, u, lag, q2, u2, lag2)
<1> DEFINE ff == motor.friction.forward
           fr == motor.friction.reverse
           t2 == Wrapped(t + Step)
           r2 == Dragged(t2)
           l == lag + 2
           n == IF l <= ff THEN 0 ELSE l - ff
           lag2 == IF l <= ff THEN l ELSE ff
<1>1. /\ q \in Int /\ u \in 0 .. Sector - 1 /\ lag \in -fr .. ff /\ rotor = At(q, u) /\ t = At(q, u + lag)
      /\ (HallOffset + u + lag) % 2 = 0
  BY DEF Placed
<1>2. /\ ff \in Nat /\ fr \in Nat /\ 2 * ff <= 3 * Sector /\ 2 * fr <= 3 * Sector /\ Turn = 6 * Sector
      /\ Sector \in Nat /\ Sector >= 8 /\ HallOffset \in Int
  BY FrictionIs, TurnIs, AngleTyped
<1> HIDE DEF ff, fr
<1>3. /\ l \in Int /\ u \in Int /\ -Turn < 2 * l /\ 2 * l <= Turn /\ ~(-l > fr)
      /\ n \in 0 .. 2 /\ lag2 \in -fr .. ff /\ l = n + lag2 /\ u + l = (u + n) + lag2
      /\ (lag = ff => n = 2) /\ (lag2 < ff => n = 0) /\ u + n \in -2 .. Sector + 1
      /\ (HallOffset + (u + n) + lag2) % 2 = 0
  BY <1>1, <1>2
<1>4. t2 = At(q, u + l)
  <2>1. u + lag \in Int /\ (u + lag) + 2 = u + l
    BY <1>1, <1>2
  <2>2. Wrapped(At(q, u + lag) + 2) = At(q, (u + lag) + 2)
    BY <1>1, <2>1, AtMoves
  <2> QED BY <1>1, <2>1, <2>2 DEF Step
<1> HIDE DEF l
<1>5. r2 = IF l > ff THEN At(q, u + l - ff) ELSE IF -l > fr THEN At(q, u + l + fr) ELSE rotor
  <2>1. Dragged(At(q, u + l)) =
          IF l > motor.friction.forward THEN At(q, u + l - motor.friction.forward)
          ELSE IF -l > motor.friction.reverse THEN At(q, u + l + motor.friction.reverse)
          ELSE rotor
    BY <1>1, <1>3, DraggedIs
  <2> QED BY <1>4, <2>1 DEF ff, fr
<1>6. r2 = At(q, u + n)
  <2>1. CASE l > ff
    <3>1. u + l - ff = u + n
      BY <1>2, <1>3, <2>1
    <3> QED BY <1>5, <2>1, <3>1
  <2>2. CASE ~(l > ff)
    <3>1. n = 0 /\ u + n = u
      BY <1>2, <1>3, <2>2
    <3> QED BY <1>1, <1>3, <1>5, <2>2, <3>1
  <2> QED BY <2>1, <2>2
<1> DEFINE x == u + n
<1> HIDE DEF n, lag2, r2, t2
<1>7. /\ x \in -2 .. Sector + 1 /\ r2 = At(q, x) /\ t2 = At(q, x + lag2) /\ (HallOffset + x + lag2) % 2 = 0 /\ ~(x < 0)
      /\ lag2 \in -motor.friction.reverse .. motor.friction.forward
  BY <1>1, <1>3, <1>4, <1>6 DEF ff, fr
<1> HIDE DEF x
<1>8. \/ x \in 0 .. Sector - 1 /\ Placed(motor, r2, t2, q, x, lag2)
      \/ x >= Sector /\ Placed(motor, r2, t2, q + 1, x - Sector, lag2)
  BY <1>1, <1>7, PlacedIn
<1>9. \A q2, u2 : (q2 = q /\ u2 = x) \/ (q2 = q + 1 /\ u2 = x - Sector) => MovedOn(motor, q, u, lag, q2, u2, lag2)
  <2>1. /\ n \in 0 .. 2 /\ x = u + n /\ (lag = motor.friction.forward => n = 2)
        /\ (lag2 < motor.friction.forward => n = 0)
    BY <1>3 DEF x, ff
  <2> SUFFICES ASSUME NEW q2, NEW u2, (q2 = q /\ u2 = x) \/ (q2 = q + 1 /\ u2 = x - Sector)
               PROVE  MovedOn(motor, q, u, lag, q2, u2, lag2)
    OBVIOUS
  <2>2. (q2 = q /\ u2 = u + n) \/ (q2 = q + 1 /\ u2 = u + n - Sector)
    BY <1>2, <1>3, <2>1
  <2> QED BY <2>1, <2>2, Zenon DEF MovedOn
<1> QED BY <1>8, <1>9 DEF t2, r2

LEMMA ReverseMoves ==
  ASSUME HealthyMotor(motor), Moves(motor.friction), NEW t, NEW q, NEW u, NEW lag, Placed(motor, rotor, t, q, u, lag)
  PROVE  \E q2, u2, lag2 :
           /\ Placed(motor, Dragged(Wrapped(t + -Step)), Wrapped(t + -Step), q2, u2, lag2)
           /\ MovedBack(motor, q, u, lag, q2, u2, lag2)
<1> DEFINE ff == motor.friction.forward
           fr == motor.friction.reverse
           t2 == Wrapped(t + -Step)
           r2 == Dragged(t2)
           l == lag - 2
           n == IF -l <= fr THEN 0 ELSE -l - fr
           lag2 == IF -l <= fr THEN l ELSE -fr
<1>1. /\ q \in Int /\ u \in 0 .. Sector - 1 /\ lag \in -fr .. ff /\ rotor = At(q, u) /\ t = At(q, u + lag)
      /\ (HallOffset + u + lag) % 2 = 0
  BY DEF Placed
<1>2. /\ ff \in Nat /\ fr \in Nat /\ 2 * ff <= 3 * Sector /\ 2 * fr <= 3 * Sector /\ Turn = 6 * Sector
      /\ Sector \in Nat /\ Sector >= 8 /\ HallOffset \in Int
  BY FrictionIs, TurnIs, AngleTyped
<1> HIDE DEF ff, fr
<1>3. /\ l \in Int /\ u \in Int /\ -Turn < 2 * l /\ 2 * l <= Turn /\ ~(l > ff)
      /\ n \in 0 .. 2 /\ lag2 \in -fr .. ff /\ l = lag2 - n /\ u + l = (u - n) + lag2
      /\ (lag = -fr => n = 2) /\ (lag2 > -fr => n = 0) /\ u - n \in -2 .. Sector + 1
      /\ (HallOffset + (u - n) + lag2) % 2 = 0
  BY <1>1, <1>2
<1>4. t2 = At(q, u + l)
  <2>1. u + lag \in Int /\ (u + lag) + -2 = u + l
    BY <1>1, <1>2
  <2>2. Wrapped(At(q, u + lag) + -2) = At(q, (u + lag) + -2)
    BY <1>1, <2>1, AtMoves
  <2> QED BY <1>1, <2>1, <2>2 DEF Step
<1> HIDE DEF l
<1>5. r2 = IF l > ff THEN At(q, u + l - ff) ELSE IF -l > fr THEN At(q, u + l + fr) ELSE rotor
  <2>1. Dragged(At(q, u + l)) =
          IF l > motor.friction.forward THEN At(q, u + l - motor.friction.forward)
          ELSE IF -l > motor.friction.reverse THEN At(q, u + l + motor.friction.reverse)
          ELSE rotor
    BY <1>1, <1>3, DraggedIs
  <2> QED BY <1>4, <2>1 DEF ff, fr
<1>6. r2 = At(q, u - n)
  <2>1. CASE -l > fr
    <3>1. u + l + fr = u - n
      BY <1>2, <1>3, <2>1
    <3> QED BY <1>3, <1>5, <2>1, <3>1
  <2>2. CASE ~(-l > fr)
    <3>1. n = 0 /\ u - n = u
      BY <1>2, <1>3, <2>2
    <3> QED BY <1>1, <1>3, <1>5, <2>2, <3>1
  <2> QED BY <2>1, <2>2
<1> DEFINE x == u - n
<1> HIDE DEF n, lag2, r2, t2
<1>7. /\ x \in -2 .. Sector + 1 /\ r2 = At(q, x) /\ t2 = At(q, x + lag2) /\ (HallOffset + x + lag2) % 2 = 0 /\ ~(x >= Sector)
      /\ lag2 \in -motor.friction.reverse .. motor.friction.forward
  BY <1>1, <1>2, <1>3, <1>4, <1>6 DEF ff, fr
<1> HIDE DEF x
<1>8. \/ x \in 0 .. Sector - 1 /\ Placed(motor, r2, t2, q, x, lag2)
      \/ x < 0 /\ Placed(motor, r2, t2, q - 1, x + Sector, lag2)
  BY <1>1, <1>7, PlacedIn
<1>9. \A q2, u2 : (q2 = q /\ u2 = x) \/ (q2 = q - 1 /\ u2 = x + Sector) => MovedBack(motor, q, u, lag, q2, u2, lag2)
  <2>1. /\ n \in 0 .. 2 /\ x = u - n /\ (lag = -motor.friction.reverse => n = 2)
        /\ (lag2 > -motor.friction.reverse => n = 0)
    BY <1>3 DEF x, fr
  <2> QED BY <2>1 DEF MovedBack
<1> QED BY <1>8, <1>9 DEF t2, r2

\* A rotor that was let go anywhere comes to rest within the friction of the target.
LEMMA ComesToRest ==
  ASSUME HealthyMotor(motor), rotor \in Angles, NEW t \in Angles
  PROVE  \E q \in Int, u \in 0 .. Sector - 1, lag \in -motor.friction.reverse .. motor.friction.forward :
           Dragged(t) = At(q, u) /\ t = At(q, u + lag)
<1> DEFINE ff == motor.friction.forward
           fr == motor.friction.reverse
           pull == WrappedDiff(t, rotor)
           r == Dragged(t)
<1>1. ff \in Nat /\ fr \in Nat /\ t \in Int /\ rotor \in Int /\ t >= 0 /\ t < Turn /\ Turn \in Nat
  BY AngleTyped, TurnIs DEF HealthyMotor, Angles
<1>2. pull \in Int /\ t = Wrapped(rotor + pull)
  BY DiffIs
<1>3. r = IF pull > ff THEN Wrapped(t - ff) ELSE IF -pull > fr THEN Wrapped(t + fr) ELSE rotor
  BY DEF Dragged
<1> HIDE DEF ff, fr, pull, r
<1>4. Wrapped(t) = t
  BY <1>1, WrappedSmall
<1>5. \E lag \in -fr .. ff : r \in Angles /\ t = Wrapped(r + lag)
  <2>1. CASE pull > ff
    <3>1. r = Wrapped(t - ff) /\ t - ff \in Int /\ (t - ff) + ff = t
      BY <1>1, <1>3, <2>1
    <3>2. Wrapped(Wrapped(t - ff) + ff) = Wrapped((t - ff) + ff)
      BY <1>1, <3>1, WrappedTwice
    <3>3. r \in Angles /\ ff \in -fr .. ff
      BY <1>1, <3>1, AngleTyped
    <3> QED BY <1>4, <3>1, <3>2, <3>3
  <2>2. CASE ~(pull > ff) /\ -pull > fr
    <3>1. r = Wrapped(t + fr) /\ t + fr \in Int /\ (t + fr) + -fr = t /\ -fr \in Int
      BY <1>1, <1>3, <2>2
    <3>2. Wrapped(Wrapped(t + fr) + -fr) = Wrapped((t + fr) + -fr)
      BY <1>1, <3>1, WrappedTwice
    <3>3. r \in Angles /\ -fr \in -fr .. ff
      BY <1>1, <3>1, AngleTyped
    <3> QED BY <1>4, <3>1, <3>2, <3>3
  <2>3. CASE ~(pull > ff) /\ ~(-pull > fr)
    <3>1. r = rotor /\ pull \in -fr .. ff
      BY <1>1, <1>2, <1>3, <2>3
    <3> QED BY <1>2, <3>1
  <2> QED BY <2>1, <2>2, <2>3
<1>6. PICK lag \in -fr .. ff : r \in Angles /\ t = Wrapped(r + lag)
  BY <1>5
<1>7. PICK q \in Int, u \in 0 .. Sector - 1 : r = At(q, u)
  BY <1>6, AngleAt
<1>8. Wrapped(At(q, u) + lag) = At(q, u + lag)
  <2>1. u \in Int /\ lag \in Int
    BY <1>1, <1>6, <1>7, TurnIs
  <2> QED BY <2>1, AtMoves
<1> QED BY <1>6, <1>7, <1>8 DEF ff, fr, r

LEMMA SettlesAt ==
  ASSUME HealthyMotor(motor), rotor \in Angles
  PROVE  \E q, u, lag : Placed(motor, Dragged(0), 0, q, u, lag)
<1>1. PICK q \in Int, u \in 0 .. Sector - 1, lag \in -motor.friction.reverse .. motor.friction.forward :
        Dragged(0) = At(q, u) /\ 0 = At(q, u + lag)
  BY AngleTyped, ComesToRest
<1>2. u \in Int /\ lag \in Int /\ u + lag \in Int /\ HallOffset \in Int
  BY TurnIs, AngleTyped DEF HealthyMotor
<1>3. (HallOffset + (u + lag)) % 2 = 0
  BY <1>1, <1>2, EvenAt
<1>4. (HallOffset + u + lag) % 2 = 0
  BY <1>2, <1>3
<1> QED BY <1>1, <1>4 DEF Placed

\* A target that stays does not move the rotor.
LEMMA RotorStays ==
  ASSUME HealthyMotor(motor), Moves(motor.friction), NEW t, NEW q, NEW u, NEW lag, Placed(motor, rotor, t, q, u, lag)
  PROVE  Dragged(t) = rotor
<1>1. /\ q \in Int /\ u \in 0 .. Sector - 1 /\ rotor = At(q, u) /\ t = At(q, u + lag)
      /\ lag \in -motor.friction.reverse .. motor.friction.forward
  BY DEF Placed
<1>2. /\ motor.friction.forward \in Nat /\ motor.friction.reverse \in Nat
      /\ 2 * motor.friction.forward <= 3 * Sector /\ 2 * motor.friction.reverse <= 3 * Sector
      /\ Turn = 6 * Sector /\ Sector \in Nat /\ Sector >= 8
  BY FrictionIs, TurnIs
<1>3. u \in Int /\ lag \in Int /\ -Turn < 2 * lag /\ 2 * lag <= Turn
      /\ ~(lag > motor.friction.forward) /\ ~(-lag > motor.friction.reverse)
  BY <1>1, <1>2
<1>4. Dragged(At(q, u + lag)) =
        IF lag > motor.friction.forward THEN At(q, u + lag - motor.friction.forward)
        ELSE IF -lag > motor.friction.reverse THEN At(q, u + lag + motor.friction.reverse)
        ELSE rotor
  BY <1>1, <1>3, DraggedIs
<1> QED BY <1>1, <1>3, <1>4

\* A locked rotor is never pulled far enough.
LEMMA LockedStays ==
  ASSUME HealthyMotor(motor), IsLocked(motor.friction), rotor \in Angles, NEW t \in Angles
  PROVE  Dragged(t) = rotor
<1> DEFINE ff == motor.friction.forward
           fr == motor.friction.reverse
           half == Turn \div 2
           pull == WrappedDiff(t, rotor)
<1>1. ff \in Nat /\ fr \in Nat /\ Turn = 6 * Sector /\ Sector \in Nat
  BY TurnIs DEF HealthyMotor
<1>2. ff >= half /\ fr >= half
  BY DEF IsLocked
<1>3. half = 3 * Sector
  BY <1>1
<1>4. pull \in Int /\ -Turn < 2 * pull /\ 2 * pull <= Turn
  BY DiffIs
<1>5. Dragged(t) = IF pull > ff THEN Wrapped(t - ff) ELSE IF -pull > fr THEN Wrapped(t + fr) ELSE rotor
  BY DEF Dragged
<1> HIDE DEF ff, fr, half, pull
<1>6. ~(pull > ff) /\ ~(-pull > fr)
  BY <1>1, <1>2, <1>3, <1>4
<1> QED BY <1>5, <1>6

-----------------------------------------------------------------------------
\* What is read: the sector of the rotor or, just past an edge, the one it has left.

LEMMA ForwardReads ==
  ASSUME NEW q \in Int, NEW u \in 0 .. Sector - 1, rotor = At(q, u), hall.at.sweep # "Reverse", NEW bounce \in BOOLEAN
  PROVE  \E d \in {q - 1, q} : Pattern(bounce) = Seen(motor, d) /\ (d = q - 1 => u <= 1)
<1>0. Sector \in Nat /\ Sector >= 8 /\ u \in Int
  BY TurnIs
<1>1. CASE bounce = FALSE
  <2>1. Pattern(bounce) = motor.sensor[SectorAt(rotor)]
    BY <1>1 DEF Pattern
  <2> QED BY <1>0, <2>1, SectorOf DEF Seen
<1>2. CASE bounce = TRUE
  <2>1. Pattern(bounce) = motor.sensor[SectorAt(Wrapped(rotor + -Step))]
    BY <1>2 DEF Pattern
  <2>2. Wrapped(At(q, u) + -2) = At(q, u + -2)
    BY <1>0, AtMoves
  <2>3. CASE u >= 2
    <3>1. u + -2 \in 0 .. Sector - 1
      BY <1>0, <2>3
    <3>2. SectorAt(At(q, u + -2)) = q % 6
      BY <3>1, SectorOf
    <3> QED BY <1>0, <2>1, <2>2, <3>2 DEF Seen, Step
  <2>4. CASE ~(u >= 2)
    <3>1. Sector + (u + -2) \in 0 .. Sector - 1 /\ u + -2 \in Int /\ q - 1 \in Int /\ (q - 1) + 1 = q
      BY <1>0, <2>4
    <3>2. At((q - 1) + 1, u + -2) = At(q - 1, Sector + (u + -2))
      BY <3>1, AtNext
    <3>3. SectorAt(At(q - 1, Sector + (u + -2))) = (q - 1) % 6
      BY <3>1, SectorOf
    <3>4. Pattern(bounce) = Seen(motor, q - 1)
      BY <2>1, <2>2, <3>1, <3>2, <3>3 DEF Seen, Step
    <3> QED BY <1>0, <2>4, <3>4
  <2> QED BY <2>3, <2>4
<1> QED BY <1>1, <1>2

LEMMA ReverseReads ==
  ASSUME NEW q \in Int, NEW u \in 0 .. Sector - 1, rotor = At(q, u), hall.at.sweep = "Reverse", NEW bounce \in BOOLEAN
  PROVE  \E d \in {q, q + 1} : Pattern(bounce) = Seen(motor, d) /\ (d = q + 1 => u >= Sector - 2)
<1>0. Sector \in Nat /\ Sector >= 8 /\ u \in Int
  BY TurnIs
<1>1. CASE bounce = FALSE
  <2>1. Pattern(bounce) = motor.sensor[SectorAt(rotor)]
    BY <1>1 DEF Pattern
  <2> QED BY <1>0, <2>1, SectorOf DEF Seen
<1>2. CASE bounce = TRUE
  <2>1. Pattern(bounce) = motor.sensor[SectorAt(Wrapped(rotor + Step))]
    BY <1>2 DEF Pattern
  <2>2. Wrapped(At(q, u) + 2) = At(q, u + 2)
    BY <1>0, AtMoves
  <2>3. CASE u + 2 < Sector
    <3>1. u + 2 \in 0 .. Sector - 1
      BY <1>0, <2>3
    <3>2. SectorAt(At(q, u + 2)) = q % 6
      BY <3>1, SectorOf
    <3> QED BY <1>0, <2>1, <2>2, <3>2 DEF Seen, Step
  <2>4. CASE ~(u + 2 < Sector)
    <3>1. u + 2 - Sector \in 0 .. Sector - 1 /\ u + 2 - Sector \in Int /\ Sector + (u + 2 - Sector) = u + 2 /\ q + 1 \in Int
      BY <1>0, <2>4
    <3>2. At(q + 1, u + 2 - Sector) = At(q, Sector + (u + 2 - Sector))
      BY <3>1, AtNext
    <3>3. SectorAt(At(q + 1, u + 2 - Sector)) = (q + 1) % 6
      BY <3>1, SectorOf
    <3>4. Pattern(bounce) = Seen(motor, q + 1)
      BY <2>1, <2>2, <3>1, <3>2, <3>3 DEF Seen, Step
    <3> QED BY <1>0, <2>4, <3>4
  <2> QED BY <2>3, <2>4
<1> QED BY <1>1, <1>2

-----------------------------------------------------------------------------
(***************************************************************************)
(* What the table holds of an edge: its angle but for lo to hi half steps. *)
(* An entry that the forward sweep has made is a target, which is an even  *)
(* number of half steps.  A good one was made when the rotor was being     *)
(* dragged over the edge, a fine one when it rested behind it or beyond    *)
(* it, and a late one when it flickered back to the sector before its own. *)
(***************************************************************************)
Near(h, m, j, lo, hi) == \E o \in lo .. hi : h.table[Seen(m, j)] = At(j, o)
Swept(h, m, j, lo, hi) == \E o \in lo .. hi : h.table[Seen(m, j)] = At(j, o) /\ (HallOffset + o) % 2 = 0

Good(h, m, j) == Swept(h, m, j, m.friction.forward, m.friction.forward + 3)
Fine(h, m, j) == Swept(h, m, j, -m.friction.reverse, Sector + 1 + m.friction.forward)
Late(h, m, j) == Swept(h, m, j, Sector - m.friction.reverse, Sector + 1 + m.friction.forward)

LEMMA FrictionTyped == ASSUME NEW m, HealthyMotor(m) PROVE m.friction.forward \in Nat /\ m.friction.reverse \in Nat
BY DEF HealthyMotor

LEMMA GoodIsFine == ASSUME NEW m, HealthyMotor(m), NEW h, NEW j, Good(h, m, j) PROVE Fine(h, m, j)
<1> DEFINE ff == m.friction.forward
           fr == m.friction.reverse
<1>1. ff \in Nat /\ fr \in Nat /\ Sector \in Nat /\ Sector >= 8
  BY FrictionTyped, TurnIs
<1>2. PICK o \in ff .. ff + 3 : h.table[Seen(m, j)] = At(j, o) /\ (HallOffset + o) % 2 = 0
  BY DEF Good, Swept
<1> HIDE DEF ff, fr
<1>3. o \in -fr .. Sector + 1 + ff
  BY <1>1
<1> QED BY <1>2, <1>3 DEF Fine, Swept, ff, fr

\* The entries are those of the six sectors of a turn.
LEMMA SweptAgain ==
  ASSUME NEW m, NEW h, NEW j \in Int, NEW lo, NEW hi
  PROVE  Swept(h, m, j + 6, lo, hi) <=> Swept(h, m, j, lo, hi)
BY SeenAgain DEF Swept

LEMMA SweptSame ==
  ASSUME NEW m, NEW h, NEW h2, h2.table = h.table, NEW j
  PROVE  (Good(h, m, j) => Good(h2, m, j)) /\ (Fine(h, m, j) => Fine(h2, m, j)) /\ (Late(h, m, j) => Late(h2, m, j))
BY DEF Good, Fine, Late, Swept

\* A forward entry: the sector that is read, that of the rotor or the one before.
Recorded(h, m, q, u, lag, d) ==
  /\ d = q => Fine(h, m, q)
  /\ d = q /\ u <= 3 /\ lag = m.friction.forward => Good(h, m, q)
  /\ d = q - 1 => Late(h, m, q - 1)

\* The sector that is read: at an edge, it may be the one before.
ReadAt(q, u, d) == d \in {q - 1, q} /\ (d = q - 1 => u <= 1)

LEMMA Records ==
  ASSUME NEW m, HealthyMotor(m), NEW h2, NEW r, NEW t, NEW q, NEW u, NEW lag,
         Placed(m, r, t, q, u, lag), NEW d, ReadAt(q, u, d),
         h2.table[Seen(m, d)] = t
  PROVE  Recorded(h2, m, q, u, lag, d)
<1> DEFINE ff == m.friction.forward
           fr == m.friction.reverse
           o == IF d = q THEN u + lag ELSE Sector + u + lag
<1>1. /\ q \in Int /\ u \in 0 .. Sector - 1 /\ lag \in -fr .. ff /\ t = At(q, u + lag)
      /\ (HallOffset + u + lag) % 2 = 0 /\ d \in {q - 1, q} /\ (d = q - 1 => u <= 1)
  BY DEF Placed, ReadAt
<1>2. ff \in Nat /\ fr \in Nat /\ Sector \in Nat /\ Sector >= 8 /\ Sector % 4 = 0 /\ HallOffset \in Int
  BY FrictionTyped, TurnIs, AngleTyped
<1> HIDE DEF ff, fr
<1>3. u \in Int /\ lag \in Int /\ o \in Int /\ (HallOffset + o) % 2 = 0 /\ d \in Int
  BY <1>1, <1>2
<1>4. h2.table[Seen(m, d)] = t
  OBVIOUS
<1>5. t = At(d, o)
  <2>1. CASE d = q
    BY <1>1, <2>1
  <2>2. CASE d # q
    <3>1. d = q - 1 /\ (q - 1) + 1 = q /\ q - 1 \in Int /\ u + lag \in Int /\ o = Sector + (u + lag)
      BY <1>1, <1>2, <1>3, <2>2
    <3>2. At((q - 1) + 1, u + lag) = At(q - 1, Sector + (u + lag))
      BY <3>1, AtNext
    <3> QED BY <1>1, <3>1, <3>2
  <2> QED BY <2>1, <2>2
<1>6. /\ d = q => o \in -fr .. Sector + 1 + ff
      /\ d = q /\ u <= 3 /\ lag = ff => o \in ff .. ff + 3
      /\ d = q - 1 => o \in Sector - fr .. Sector + 1 + ff
  BY <1>1, <1>2
<1> HIDE DEF o
<1> QED BY <1>3, <1>4, <1>5, <1>6 DEF Recorded, Fine, Good, Late, Swept, ff, fr

-----------------------------------------------------------------------------
(***************************************************************************)
(* The forward sweep.  a is the sector of the first edge, c the sector     *)
(* read last: that of the rotor or, for a tick, the one before.  A rotor   *)
(* at rest just past an edge may flicker back and forth over it, and only  *)
(* there: then its sector or the one before is the first.                  *)
(***************************************************************************)
Window(m, q, u, lag, c) ==
  c \in {q - 1, q} /\ (c = q - 1 => u <= 3 /\ (u >= 2 => lag = m.friction.forward))
Resting(m, q, u, lag, c) == lag < m.friction.forward \/ (c = q /\ u <= 1)

\* All edges so far are right, the first one as far as a rotor at rest allows it.
Clean(h, m, q, u, lag, a, c) ==
  /\ Fine(h, m, a) /\ \A j \in a + 1 .. c : Good(h, m, j)
  /\ Resting(m, q, u, lag, c) => a = q /\ c = q
\* The first edge was a flicker, and its entry will not be made again.
Stale(h, m, q, u, lag, a, c) == Late(h, m, a) /\ (Resting(m, q, u, lag, c) => q = a + 1)
Counts5(h, a, c) == h.at.edges >= 5 \/ h.at.edges >= c - a + 1

Passing(h, m, q, u, lag, a, c) ==
  /\ a <= c /\ c <= a + 5 /\ Counts5(h, a, c)
  /\ Clean(h, m, q, u, lag, a, c) \/ Stale(h, m, q, u, lag, a, c)
\* The rotor has flickered back over the first edge.
Flickered(h, m, q, a, c) == a = q /\ c = q - 1 /\ Late(h, m, q - 1) /\ h.at.edges >= 1

OnTheWay(h, m, q, u, lag, a, c) ==
  /\ h.at.first = Seen(m, a) /\ h.at.prev = Seen(m, c) /\ Window(m, q, u, lag, c)
  /\ Passing(h, m, q, u, lag, a, c) \/ Flickered(h, m, q, a, c)

NoEdgeYet(h) == h.at.first = NoPattern

Forwards(h, m, r) ==
  \E q, u, lag :
    /\ Placed(m, r, h.at.target, q, u, lag)
    /\ NoEdgeYet(h) \/ \E a, c \in Int : OnTheWay(h, m, q, u, lag, a, c)

(***************************************************************************)
(* The table at the end of the forward sweep, and while the edges after c  *)
(* up to f have been passed on the way back: either a late entry is still  *)
(* to be passed, or the entries are fine and one of them, passed or not,   *)
(* was made while the rotor was being dragged.                             *)
(***************************************************************************)
LateAhead(h, m, f, c) == \E j \in f - 5 .. c : Late(h, m, j)
GoodAhead(h, m, f, c) == (\A j \in f - 5 .. c : Fine(h, m, j)) /\ \E j \in f - 5 .. c : Good(h, m, j)

\* The rotor at the turn, just past an edge
Turned(h, m, r) ==
  \E q, u, lag, c :
    /\ Placed(m, r, h.at.target, q, u, lag) /\ h.at.prev = Seen(m, c)
    /\ (c = q /\ u <= 3) \/ (c = q - 1 /\ u <= 1)
    /\ LateAhead(h, m, c, c) \/ GoodAhead(h, m, c, c)

\* What a move leaves of the window and of the rest, after sector d was read.
Onward(m, q, lag, d, q2, u2, lag2) ==
  /\ q2 \in {q, q + 1} /\ Window(m, q2, u2, lag2, d)
  /\ Resting(m, q2, u2, lag2, d) => q2 = q /\ lag < m.friction.forward

LEMMA OnMoves ==
  ASSUME NEW m, HealthyMotor(m), NEW r, NEW t, NEW q, NEW u, NEW lag, Placed(m, r, t, q, u, lag),
         NEW d, ReadAt(q, u, d),
         NEW r2, NEW t2, NEW q2, NEW u2, NEW lag2, Placed(m, r2, t2, q2, u2, lag2), MovedOn(m, q, u, lag, q2, u2, lag2)
  PROVE  Onward(m, q, lag, d, q2, u2, lag2)
<1> DEFINE ff == m.friction.forward
           fr == m.friction.reverse
<1>1. /\ q \in Int /\ u \in 0 .. Sector - 1 /\ lag \in -fr .. ff
      /\ q2 \in Int /\ u2 \in 0 .. Sector - 1 /\ lag2 \in -fr .. ff
      /\ d \in {q - 1, q} /\ (d = q - 1 => u <= 1)
  BY DEF Placed, ReadAt
<1>2. ff \in Nat /\ fr \in Nat /\ Sector \in Nat /\ Sector >= 8
  BY FrictionTyped, TurnIs
<1>3. PICK n \in 0 .. 2 :
        /\ lag = ff => n = 2
        /\ lag2 < ff => n = 0
        /\ (q2 = q /\ u2 = u + n) \/ (q2 = q + 1 /\ u2 = u + n - Sector)
  BY DEF MovedOn
<1> HIDE DEF ff, fr
<1>4. q2 \in {q, q + 1} /\ d \in {q2 - 1, q2} /\ (d = q2 - 1 => u2 <= 3 /\ (u2 >= 2 => lag2 = ff))
  BY <1>1, <1>2, <1>3
<1>5. lag2 < ff \/ (d = q2 /\ u2 <= 1) => q2 = q /\ lag < ff
  BY <1>1, <1>2, <1>3
<1> QED BY <1>4, <1>5 DEF Onward, Window, Resting, ff

\* What an edit of a sweep leaves.
LEMMA EditedFirst ==
  ASSUME NEW at, NEW s, NEW t, NEW f, NEW p, NEW e,
         at = [sweep |-> s, target |-> t, first |-> f, prev |-> p, edges |-> e],
         NEW f2, NEW e2, NEW x, x = [at EXCEPT !.first = f2, !.edges = e2]
  PROVE  x = [sweep |-> s, target |-> t, first |-> f2, prev |-> p, edges |-> e2]
OBVIOUS

\* A tick of the forward sweep by its parts
ForwardTo(h, p, h2) ==
  /\ h.at.prev = p => /\ h2.at.sweep = "Forward" /\ h2.at.target = Wrapped(h.at.target + Step)
                      /\ h2.at.first = h.at.first /\ h2.at.prev = p /\ h2.at.edges = h.at.edges
                      /\ h2.table = h.table
  /\ h.at.prev # p /\ ~(h.at.first = p /\ h.at.edges >= 5) =>
       /\ h2.at.sweep = "Forward" /\ h2.at.target = Wrapped(h.at.target + Step)
       /\ h2.at.first = (IF h.at.first = NoPattern THEN p ELSE h.at.first) /\ h2.at.prev = p
       /\ h2.at.edges \in Nat /\ (h2.at.edges >= 5 \/ h2.at.edges = h.at.edges + 1)
       /\ h2.table = [h.table EXCEPT ![Entry(p)] = h.at.target]
  /\ h.at.prev # p /\ h.at.first = p /\ h.at.edges >= 5 =>
       /\ h2.at.sweep = "Reverse" /\ h2.at.target = h.at.target
       /\ h2.at.first = NoPattern /\ h2.at.prev = p /\ h2.table = h.table

LEMMA ForwardParts ==
  ASSUME NEW h \in HallStates, h.at.sweep = "Forward", NEW p \in Patterns, NEW h2, h2 = HallStep(h, p)
  PROVE  ForwardTo(h, p, h2)
<1> DEFINE at == h.at
           first == IF at.first = NoPattern THEN p ELSE at.first
           edges == Counted(at.edges)
           seen == [at EXCEPT !.first = first, !.edges = edges]
<1>1. /\ at \in Sweeps /\ h = [at |-> h.at, table |-> h.table]
      /\ at = [sweep |-> at.sweep, target |-> at.target, first |-> at.first, prev |-> at.prev, edges |-> at.edges]
      /\ at.edges \in 0 .. 5
  BY HallKinds DEF Sweeps, EdgesNeeded
<1>2. h2 = ForwardStep(h, p)
  BY DEF HallStep
<1>3. edges \in Nat /\ (edges >= 5 \/ edges = at.edges + 1)
  <2>1. Counted(at.edges) = IF at.edges + 1 <= 5 THEN at.edges + 1 ELSE 5
    BY <1>1, PickedLeast DEF Counted, EdgesNeeded
  <2> QED BY <1>1, <2>1
<1>4. seen = [sweep |-> at.sweep, target |-> at.target, first |-> first, prev |-> at.prev, edges |-> edges]
  <2> HIDE DEF first, edges, at
  <2>1. at = [sweep |-> at.sweep, target |-> at.target, first |-> at.first, prev |-> at.prev, edges |-> at.edges]
    BY <1>1
  <2>2. PICK s, t, f, p2, e : at = [sweep |-> s, target |-> t, first |-> f, prev |-> p2, edges |-> e]
    BY <2>1
  <2>3. at.sweep = s /\ at.target = t /\ at.prev = p2
    BY <2>2
  <2>4. PICK x : x = seen
    OBVIOUS
  <2>5. x = [at EXCEPT !.first = first, !.edges = edges]
    BY <2>4 DEF seen
  <2> HIDE DEF seen
  <2>6. x = [sweep |-> s, target |-> t, first |-> first, prev |-> p2, edges |-> edges]
    BY <2>2, <2>5, EditedFirst, Zenon
  <2> QED BY <2>3, <2>4, <2>6, Zenon
<1>5. h2 = IF at.prev # p /\ at.first = p /\ at.edges >= 5
           THEN [h EXCEPT !.at = Sweep("Reverse", at.target, p)]
           ELSE IF at.prev # p
           THEN [at |-> SweptOn(seen, p, Step), table |-> [h.table EXCEPT ![Entry(p)] = at.target]]
           ELSE [h EXCEPT !.at = SweptOn(at, p, Step)]
  BY <1>2 DEF ForwardStep, EdgesNeeded
<1> HIDE DEF first, edges, seen, at
<1>6. CASE at.prev = p
  <2>1. h2 = [h EXCEPT !.at = SweptOn(at, p, Step)]
    BY <1>5, <1>6
  <2>2. SweptOn(at, p, Step) = [at EXCEPT !.prev = p, !.target = Wrapped(at.target + Step)]
    BY DEF SweptOn
  <2>3. h2.at = SweptOn(at, p, Step) /\ h2.table = h.table
    BY <1>1, <2>1
  <2> QED BY <1>1, <1>6, <2>2, <2>3 DEF ForwardTo, at
<1>7. CASE at.prev # p /\ ~(at.first = p /\ at.edges >= 5)
  <2>1. h2 = [at |-> SweptOn(seen, p, Step), table |-> [h.table EXCEPT ![Entry(p)] = at.target]]
    BY <1>5, <1>7
  <2>2. SweptOn(seen, p, Step) = [seen EXCEPT !.prev = p, !.target = Wrapped(seen.target + Step)]
    BY DEF SweptOn
  <2> DEFINE target == Wrapped(at.target + Step)
  <2> HIDE DEF target
  <2>4. SweptOn(seen, p, Step) = [sweep |-> at.sweep, target |-> target, first |-> first, prev |-> p, edges |-> edges]
    <3>1. SweptOn(seen, p, Step) = [seen EXCEPT !.prev = p, !.target = target]
      <4>1. seen.target = at.target
        BY <1>4
      <4> QED BY <2>2, <4>1 DEF target
    <3> QED BY <1>4, <3>1
  <2>5. h2.at = SweptOn(seen, p, Step) /\ h2.table = [h.table EXCEPT ![Entry(p)] = at.target]
    BY <2>1
  <2>3. /\ h2.at.sweep = at.sweep /\ h2.at.target = Wrapped(at.target + Step) /\ h2.at.first = first
        /\ h2.at.prev = p /\ h2.at.edges = edges /\ h2.table = [h.table EXCEPT ![Entry(p)] = at.target]
    BY <2>4, <2>5 DEF target
  <2> QED BY <1>3, <1>7, <2>3 DEF ForwardTo, at, first
<1>8. CASE at.prev # p /\ at.first = p /\ at.edges >= 5
  <2>1. h2 = [h EXCEPT !.at = Sweep("Reverse", at.target, p)]
    BY <1>5, <1>8
  <2>2. h2.at = Sweep("Reverse", at.target, p) /\ h2.table = h.table
    BY <1>1, <2>1
  <2> QED BY <1>8, <2>2 DEF ForwardTo, at, Sweep
<1> QED BY <1>6, <1>7, <1>8 DEF at

-----------------------------------------------------------------------------
(***************************************************************************)
(* A tick of the forward sweep.  The rotor is in sector q, the last read   *)
(* is c and this one is d; the next tick finds the rotor in q2.            *)
(***************************************************************************)
LEMMA FirstEdge ==
  ASSUME NEW m, HealthyMotor(m), NEW h, h.table \in [1 .. 6 -> Angles], h.at.edges \in Nat, NEW h2,
         NEW r, NEW q, NEW u, NEW lag, Placed(m, r, h.at.target, q, u, lag),
         NEW d, ReadAt(q, u, d),
         h2.at.first = Seen(m, d), h2.at.prev = Seen(m, d), h2.at.edges >= 5 \/ h2.at.edges = h.at.edges + 1,
         h2.table = [h.table EXCEPT ![Seen(m, d)] = h.at.target],
         NEW q2, NEW u2, NEW lag2, Onward(m, q, lag, d, q2, u2, lag2)
  PROVE  OnTheWay(h2, m, q2, u2, lag2, d, d)
<1>1. q \in Int /\ d \in Int /\ d \in {q - 1, q}
  BY DEF Placed, ReadAt
<1> DEFINE t == h.at.target
<1>2. /\ Placed(m, r, t, q, u, lag) /\ h2.table = [h.table EXCEPT ![Seen(m, d)] = t]
      /\ h2.table[Seen(m, d)] = t
  BY <1>1, SeenIs
<1> HIDE DEF t
<1>3. (d = q => Fine(h2, m, q)) /\ (d = q - 1 => Late(h2, m, q - 1))
  <2>1. Recorded(h2, m, q, u, lag, d)
    BY <1>2, Records
  <2> QED BY <2>1 DEF Recorded
<1>4. Counts5(h2, d, d)
  <2>1. d - d + 1 = 1
    BY <1>1
  <2> QED BY <2>1 DEF Counts5
<1>5. CASE d = q
  <2>1. Fine(h2, m, d) /\ (Resting(m, q2, u2, lag2, d) => d = q2)
    BY <1>3, <1>5 DEF Onward
  <2>2. \A j \in d + 1 .. d : FALSE
    BY <1>1
  <2>3. Clean(h2, m, q2, u2, lag2, d, d)
    BY <2>1, <2>2 DEF Clean
  <2> QED BY <1>1, <1>4, <2>3 DEF OnTheWay, Passing, Onward
<1>6. CASE d = q - 1
  <2>1. Late(h2, m, d) /\ (Resting(m, q2, u2, lag2, d) => q2 = d + 1)
    BY <1>1, <1>3, <1>6 DEF Onward
  <2>2. Stale(h2, m, q2, u2, lag2, d, d)
    BY <2>1 DEF Stale
  <2> QED BY <1>1, <1>4, <2>2 DEF OnTheWay, Passing, Onward
<1> QED BY <1>1, <1>5, <1>6

LEMMA NoEdge ==
  ASSUME NEW m, HealthyMotor(m), NEW h, NEW h2,
         NEW q \in Int, NEW u, NEW lag, NEW d, ReadAt(q, u, d),
         NEW a \in Int, NEW c \in Int, OnTheWay(h, m, q, u, lag, a, c), h.at.prev = Seen(m, d),
         h2.at.first = h.at.first, h2.at.prev = Seen(m, d), h2.at.edges = h.at.edges, h2.table = h.table,
         NEW q2, NEW u2, NEW lag2, Onward(m, q, lag, d, q2, u2, lag2)
  PROVE  OnTheWay(h2, m, q2, u2, lag2, a, c)
<1>1. c = d
  <2>1. c \in {q - 1, q} /\ d \in {q - 1, q} /\ Seen(m, c) = Seen(m, d)
    BY DEF OnTheWay, Window, ReadAt
  <2>2. d \in Int /\ -6 < c - d /\ c - d < 6
    BY <2>1
  <2> QED BY <2>1, <2>2, SeenApart
<1>2. Window(m, q2, u2, lag2, c) /\ (Resting(m, q2, u2, lag2, c) => q2 = q /\ Resting(m, q, u, lag, c))
  BY <1>1 DEF Onward, Resting
<1>3. h2.at.first = Seen(m, a) /\ h2.at.prev = Seen(m, c)
  BY <1>1 DEF OnTheWay
<1>4. \A j : /\ Good(h, m, j) => Good(h2, m, j)
             /\ Fine(h, m, j) => Fine(h2, m, j)
             /\ Late(h, m, j) => Late(h2, m, j)
  BY SweptSame
<1>5. CASE Passing(h, m, q, u, lag, a, c)
  <2>1. a <= c /\ c <= a + 5 /\ Counts5(h2, a, c)
    BY <1>5 DEF Passing, Counts5
  <2>2. CASE Clean(h, m, q, u, lag, a, c)
    <3>1. Clean(h2, m, q2, u2, lag2, a, c)
      BY <1>2, <1>4, <2>2 DEF Clean
    <3> QED BY <1>2, <1>3, <2>1, <3>1 DEF OnTheWay, Passing
  <2>3. CASE Stale(h, m, q, u, lag, a, c)
    <3>1. Stale(h2, m, q2, u2, lag2, a, c)
      BY <1>2, <1>4, <2>3 DEF Stale
    <3> QED BY <1>2, <1>3, <2>1, <3>1 DEF OnTheWay, Passing
  <2> QED BY <1>5, <2>2, <2>3 DEF Passing
<1>6. CASE Flickered(h, m, q, a, c)
  <2>1. q2 = q
    BY <1>1, <1>6 DEF Flickered, Onward, Window
  <2>2. Flickered(h2, m, q2, a, c)
    BY <1>4, <1>6, <2>1 DEF Flickered
  <2> QED BY <1>2, <1>3, <2>2 DEF OnTheWay
<1> QED BY <1>5, <1>6 DEF OnTheWay

\* An edge before the sweep is over
LEMMA NextEdge ==
  ASSUME NEW m, HealthyMotor(m), NEW h, h.table \in [1 .. 6 -> Angles], h.at.edges \in Nat, NEW h2,
         NEW r, NEW q, NEW u, NEW lag, Placed(m, r, h.at.target, q, u, lag),
         NEW d, ReadAt(q, u, d),
         NEW a \in Int, NEW c \in Int, OnTheWay(h, m, q, u, lag, a, c),
         h.at.prev # Seen(m, d), ~(h.at.first = Seen(m, d) /\ h.at.edges >= 5),
         h2.at.first = h.at.first, h2.at.prev = Seen(m, d),
         h2.at.edges \in Nat, h2.at.edges >= 5 \/ h2.at.edges = h.at.edges + 1,
         h2.table = [h.table EXCEPT ![Seen(m, d)] = h.at.target],
         NEW q2, NEW u2, NEW lag2, Onward(m, q, lag, d, q2, u2, lag2)
  PROVE  OnTheWay(h2, m, q2, u2, lag2, a, d)
<1>1. q \in Int /\ d \in Int /\ c \in {q - 1, q} /\ c # d /\ u \in Nat
      /\ d \in {q - 1, q} /\ (d = q - 1 => u <= 1)
  BY TurnIs DEF Placed, OnTheWay, Window, ReadAt
<1> DEFINE t == h.at.target
           ff == m.friction.forward
<1>2. /\ Placed(m, r, t, q, u, lag) /\ h2.table = [h.table EXCEPT ![Seen(m, d)] = t]
      /\ h2.table[Seen(m, d)] = t
  BY <1>1, SeenIs
<1> HIDE DEF t
<1>3. /\ d = q => Fine(h2, m, q)
      /\ d = q /\ u <= 3 /\ lag = ff => Good(h2, m, q)
      /\ d = q - 1 => Late(h2, m, q - 1)
  <2>1. Recorded(h2, m, q, u, lag, d)
    BY <1>2, Records
  <2> QED BY <2>1 DEF Recorded, ff
<1>4. ASSUME NEW j \in Int, -6 < j - d, j - d < 6, j # d
      PROVE  /\ Good(h, m, j) => Good(h2, m, j)
             /\ Fine(h, m, j) => Fine(h2, m, j)
             /\ Late(h, m, j) => Late(h2, m, j)
  <2>1. Seen(m, j) # Seen(m, d) /\ Seen(m, j) \in 1 .. 6
    BY <1>1, <1>4, SeenApart, SeenIs
  <2>2. h2.table[Seen(m, j)] = h.table[Seen(m, j)]
    BY <1>2, <2>1
  <2> QED BY <2>2 DEF Good, Fine, Late, Swept
<1>5. Window(m, q2, u2, lag2, d) /\ (Resting(m, q2, u2, lag2, d) => q2 = q /\ lag < ff) /\ q2 \in {q, q + 1}
  BY DEF Onward
<1>6. h2.at.first = Seen(m, a) /\ h.at.first = Seen(m, a)
  BY DEF OnTheWay
<1>7. CASE Flickered(h, m, q, a, c)
  <2>1. a = q /\ d = q /\ h.at.edges < 5 /\ h.at.edges >= 1
    BY <1>1, <1>6, <1>7 DEF Flickered
  <2>2. Counts5(h2, a, d)
    <3>1. d - a + 1 = 1
      BY <1>1, <2>1
    <3> QED BY <2>1, <3>1 DEF Counts5
  <2>3. \A j \in a + 1 .. d : FALSE
    BY <1>1, <2>1
  <2>4. Clean(h2, m, q2, u2, lag2, a, d)
    BY <1>3, <1>5, <2>1, <2>3 DEF Clean
  <2> QED BY <1>1, <1>5, <1>6, <2>1, <2>2, <2>4 DEF OnTheWay, Passing
<1>8. CASE Passing(h, m, q, u, lag, a, c) /\ d = q
  <2>1. c = q - 1 /\ u <= 3 /\ (u >= 2 => lag = ff)
    BY <1>1, <1>8 DEF OnTheWay, Window
  <2>2. a <= c /\ c <= a + 5 /\ Counts5(h, a, c)
    BY <1>8 DEF Passing
  <2>3. d <= a + 5
    <3>1. SUFFICES ASSUME d = a + 6 PROVE FALSE
      BY <1>1, <1>8, <2>1, <2>2
    <3>2. Seen(m, d) = Seen(m, a)
      BY <3>1, SeenAgain
    <3>3. c - a + 1 = 6
      BY <1>8, <2>1, <3>1
    <3> QED BY <1>6, <2>2, <3>2, <3>3 DEF Counts5
  <2>4. a \in Int /\ -6 < a - d /\ a - d < 6 /\ a # d /\ a <= d
    BY <1>1, <1>8, <2>1, <2>2, <2>3
  <2>5. Counts5(h2, a, d)
    <3>1. c - a + 1 = d - a /\ d - a \in Int
      BY <1>1, <1>8, <2>1
    <3> QED BY <2>2, <3>1 DEF Counts5
  <2>6. CASE Clean(h, m, q, u, lag, a, c)
    <3>1. ~Resting(m, q, u, lag, c)
      BY <1>1, <2>1, <2>6 DEF Clean
    <3>2. ~(lag < ff) /\ lag \in -m.friction.reverse .. ff /\ ff \in Nat /\ m.friction.reverse \in Nat
      BY <3>1, FrictionTyped DEF Resting, Placed
    <3>3. lag = ff
      BY <3>2
    <3>4. Good(h2, m, d)
      BY <1>3, <1>8, <2>1, <3>3
    <3>5. ASSUME NEW j \in a + 1 .. d PROVE Good(h2, m, j)
      <4>1. CASE j = d
        BY <3>4, <4>1
      <4>2. CASE j # d
        <5>1. j \in a + 1 .. c /\ j \in Int /\ -6 < j - d /\ j - d < 6
          BY <1>1, <1>8, <2>1, <2>3, <4>2
        <5> QED BY <1>4, <2>6, <4>2, <5>1 DEF Clean
      <4> QED BY <4>1, <4>2
    <3>6. Fine(h2, m, a)
      BY <1>4, <2>4, <2>6 DEF Clean
    <3>7. Clean(h2, m, q2, u2, lag2, a, d)
      BY <1>5, <3>2, <3>5, <3>6 DEF Clean
    <3> QED BY <1>5, <1>6, <2>3, <2>4, <2>5, <3>7 DEF OnTheWay, Passing
  <2>7. CASE Stale(h, m, q, u, lag, a, c)
    <3>1. Late(h2, m, a)
      BY <1>4, <2>4, <2>7 DEF Stale
    <3>2. Stale(h2, m, q2, u2, lag2, a, d)
      BY <1>5, <2>7, <3>1 DEF Stale, Resting
    <3> QED BY <1>5, <1>6, <2>3, <2>4, <2>5, <3>2 DEF OnTheWay, Passing
  <2> QED BY <1>8, <2>6, <2>7 DEF Passing
<1>9. CASE Passing(h, m, q, u, lag, a, c) /\ d = q - 1
  <2>1. c = q /\ u <= 1 /\ Resting(m, q, u, lag, c)
    BY <1>1, <1>9 DEF Resting
  <2>2. CASE Clean(h, m, q, u, lag, a, c)
    <3>1. a = q
      BY <2>1, <2>2 DEF Clean
    <3>2. q2 = q
      BY <1>1, <1>5, <1>9 DEF Window
    <3>3. Flickered(h2, m, q2, a, d)
      BY <1>3, <1>9, <3>1, <3>2 DEF Flickered
    <3> QED BY <1>5, <1>6, <3>3 DEF OnTheWay
  <2>3. CASE Stale(h, m, q, u, lag, a, c)
    <3>1. q = a + 1 /\ d = a
      BY <1>1, <1>9, <2>1, <2>3 DEF Stale
    <3>2. Late(h2, m, a)
      BY <1>3, <1>9, <3>1
    <3>3. Stale(h2, m, q2, u2, lag2, a, d)
      BY <1>5, <3>1, <3>2 DEF Stale
    <3>4. Counts5(h2, a, d) /\ a <= d /\ d <= a + 5
      <4>1. d - a + 1 = 1
        BY <1>1, <3>1
      <4> QED BY <3>1, <4>1 DEF Counts5
    <3> QED BY <1>5, <1>6, <3>3, <3>4 DEF OnTheWay, Passing
  <2> QED BY <1>9, <2>2, <2>3 DEF Passing
<1> QED BY <1>1, <1>7, <1>8, <1>9 DEF OnTheWay

\* The edge that ends the sweep
LEMMA LastEdge ==
  ASSUME NEW m, HealthyMotor(m), NEW h, NEW h2,
         NEW r, NEW q, NEW u, NEW lag, Placed(m, r, h.at.target, q, u, lag),
         NEW d, ReadAt(q, u, d),
         NEW a \in Int, NEW c \in Int, OnTheWay(h, m, q, u, lag, a, c),
         h.at.prev # Seen(m, d), h.at.first = Seen(m, d),
         h2.at.prev = Seen(m, d), h2.at.target = h.at.target, h2.table = h.table
  PROVE  Turned(h2, m, r)
<1>1. q \in Int /\ d \in Int /\ c \in {q - 1, q} /\ c # d /\ u \in Nat
      /\ d \in {q - 1, q} /\ (d = q - 1 => u <= 1)
  BY TurnIs DEF Placed, OnTheWay, Window, ReadAt
<1>2. (d = q /\ u <= 3) \/ (d = q - 1 /\ u <= 1)
  BY <1>1 DEF OnTheWay, Window
<1>3. \A j : /\ Good(h, m, j) => Good(h2, m, j)
             /\ Fine(h, m, j) => Fine(h2, m, j)
             /\ Late(h, m, j) => Late(h2, m, j)
  BY SweptSame
<1>4. Seen(m, a) = Seen(m, d)
  BY DEF OnTheWay
<1>5. -6 < a - d /\ a - d < 6 => a = d
  BY <1>1, <1>4, SeenApart
<1>6. LateAhead(h2, m, d, d) \/ GoodAhead(h2, m, d, d)
  <2>1. CASE Flickered(h, m, q, a, c)
    <3>1. d = q /\ q - 1 \in d - 5 .. d /\ Late(h, m, q - 1)
      BY <1>1, <2>1 DEF Flickered
    <3> QED BY <1>3, <3>1 DEF LateAhead
  <2>2. CASE Passing(h, m, q, u, lag, a, c) /\ d = q
    <3>1. a <= c /\ c <= a + 5 /\ c = q - 1
      BY <1>1, <2>2 DEF Passing
    <3>2. d = a + 6 /\ c = a + 5
      BY <1>1, <1>5, <2>2, <3>1
    <3>3. CASE Clean(h, m, q, u, lag, a, c)
      <4>1. Fine(h2, m, d)
        BY <1>3, <3>2, <3>3, SweptAgain DEF Clean, Fine
      <4>2. ASSUME NEW j \in d - 5 .. d PROVE Fine(h2, m, j) /\ (j = d - 5 => Good(h2, m, j))
        <5>1. CASE j = d
          BY <1>1, <4>1, <5>1
        <5>2. CASE j # d
          <6>1. j \in a + 1 .. c
            BY <3>2, <5>2
          <6>2. Good(h2, m, j)
            BY <1>3, <3>3, <6>1 DEF Clean
          <6> QED BY <6>2, GoodIsFine
        <5> QED BY <5>1, <5>2
      <4>3. d - 5 \in d - 5 .. d
        BY <1>1
      <4> QED BY <4>2, <4>3 DEF GoodAhead
    <3>4. CASE Stale(h, m, q, u, lag, a, c)
      <4>1. Late(h2, m, d)
        BY <1>3, <3>2, <3>4, SweptAgain DEF Stale, Late
      <4>2. d \in d - 5 .. d
        BY <1>1
      <4> QED BY <4>1, <4>2 DEF LateAhead
    <3> QED BY <2>2, <3>3, <3>4 DEF Passing
  <2>3. CASE Passing(h, m, q, u, lag, a, c) /\ d = q - 1
    <3>1. c = q /\ Resting(m, q, u, lag, c)
      BY <1>1, <2>3 DEF Resting
    <3>2. CASE Clean(h, m, q, u, lag, a, c)
      <4>1. a = q
        BY <3>1, <3>2 DEF Clean
      <4> QED BY <1>1, <1>5, <2>3, <4>1
    <3>3. CASE Stale(h, m, q, u, lag, a, c)
      <4>1. d = a
        BY <1>1, <2>3, <3>1, <3>3 DEF Stale
      <4>2. Late(h2, m, d) /\ d \in d - 5 .. d
        BY <1>1, <1>3, <3>3, <4>1 DEF Stale
      <4> QED BY <4>2 DEF LateAhead
    <3> QED BY <2>3, <3>2, <3>3 DEF Passing
  <2> QED BY <1>1, <2>1, <2>2, <2>3 DEF OnTheWay
<1> QED BY <1>2, <1>6 DEF Turned

LEMMA SettleKeeps ==
  ASSUME HealthyMotor(motor), rotor \in Angles, hall \in HallStates, hall.at.sweep = "Settle", NEW p \in Patterns,
         NEW h2, h2 = HallStep(hall, p)
  PROVE  \/ h2.at.sweep = "Settle"
         \/ h2.at.sweep = "Forward" /\ Forwards(h2, motor, Dragged(h2.at.target))
<1>1. hall = [at |-> hall.at, table |-> hall.table] /\ h2 = SettleStep(hall, p)
  BY HallKinds DEF HallStep
<1>2. h2.at = IF hall.at.waited + 1 >= AlignTime THEN Sweep("Forward", 0, p) ELSE Settling(hall.at.waited + 1)
  BY <1>1 DEF SettleStep
<1>3. CASE hall.at.waited + 1 >= AlignTime
  <2>1. h2.at.sweep = "Forward" /\ h2.at.target = 0 /\ h2.at.first = NoPattern
    BY <1>2, <1>3 DEF Sweep
  <2>2. PICK q, u, lag : Placed(motor, Dragged(0), 0, q, u, lag)
    BY SettlesAt
  <2> QED BY <2>1, <2>2 DEF Forwards, NoEdgeYet
<1>4. CASE ~(hall.at.waited + 1 >= AlignTime)
  BY <1>2, <1>4 DEF Settling
<1> QED BY <1>3, <1>4

LEMMA ForwardKeeps ==
  ASSUME HealthyMotor(motor), Moves(motor.friction), hall \in HallStates, hall.at.sweep = "Forward",
         Forwards(hall, motor, rotor), NEW bounce \in BOOLEAN, NEW h2, h2 = HallStep(hall, Pattern(bounce))
  PROVE  \/ h2.at.sweep = "Forward" /\ Forwards(h2, motor, Dragged(h2.at.target))
         \/ h2.at.sweep = "Reverse" /\ h2.at.first = NoPattern /\ Turned(h2, motor, Dragged(h2.at.target))
<1> DEFINE m == motor
           t == hall.at.target
           r2 == Dragged(Wrapped(t + Step))
           p == Pattern(bounce)
<1>1. PICK q, u, lag :
        /\ Placed(m, rotor, t, q, u, lag)
        /\ NoEdgeYet(hall) \/ \E a, c \in Int : OnTheWay(hall, m, q, u, lag, a, c)
  BY DEF Forwards
<1>2. q \in Int /\ u \in 0 .. Sector - 1 /\ rotor = At(q, u)
  BY <1>1 DEF Placed
<1>3. PICK d \in {q - 1, q} : p = Seen(m, d) /\ (d = q - 1 => u <= 1)
  BY <1>2, ForwardReads
<1>4. ReadAt(q, u, d) /\ d \in Int
  BY <1>2, <1>3 DEF ReadAt
<1>5. p \in Patterns /\ p # NoPattern /\ Entry(p) = p
  BY <1>3, <1>4, SeenIs
<1>6. hall.table \in [1 .. 6 -> Angles] /\ hall.at.edges \in Nat
  BY HallKinds DEF Sweeps, EdgesNeeded
<1>7. ForwardTo(hall, p, h2)
  BY <1>5, ForwardParts
<1>8. PICK q2, u2, lag2 :
        /\ Placed(m, r2, Wrapped(t + Step), q2, u2, lag2)
        /\ MovedOn(m, q, u, lag, q2, u2, lag2)
  BY <1>1, ForwardMoves
<1> HIDE DEF r2, p
<1>9. Onward(m, q, lag, d, q2, u2, lag2)
  <2> DEFINE t2 == Wrapped(t + Step)
  <2>1. Placed(m, r2, t2, q2, u2, lag2) /\ Placed(m, rotor, t, q, u, lag)
    BY <1>1, <1>8
  <2> HIDE DEF t2, t, m
  <2>2. HealthyMotor(m)
    BY DEF m
  <2> QED BY <1>4, <1>8, <2>1, <2>2, OnMoves
<1>10. ASSUME NEW a \in Int, NEW c \in Int, OnTheWay(h2, m, q2, u2, lag2, a, c),
              h2.at.sweep = "Forward", h2.at.target = Wrapped(t + Step)
       PROVE  h2.at.sweep = "Forward" /\ Forwards(h2, m, Dragged(h2.at.target))
  <2>1. Placed(m, Dragged(h2.at.target), h2.at.target, q2, u2, lag2)
    BY <1>8, <1>10 DEF r2
  <2> QED BY <1>10, <2>1 DEF Forwards
<1>11. CASE hall.at.prev = p
  <2>1. /\ h2.at.sweep = "Forward" /\ h2.at.target = Wrapped(t + Step)
        /\ h2.at.first = hall.at.first /\ h2.at.prev = p /\ h2.at.edges = hall.at.edges
        /\ h2.table = hall.table
    BY <1>7, <1>11 DEF ForwardTo
  <2>2. CASE NoEdgeYet(hall)
    <3>1. NoEdgeYet(h2)
      BY <2>1, <2>2 DEF NoEdgeYet
    <3>2. Placed(m, Dragged(h2.at.target), h2.at.target, q2, u2, lag2)
      BY <1>8, <2>1 DEF r2
    <3> QED BY <2>1, <3>1, <3>2 DEF Forwards
  <2>3. ASSUME NEW a \in Int, NEW c \in Int, OnTheWay(hall, m, q, u, lag, a, c)
        PROVE  OnTheWay(h2, m, q2, u2, lag2, a, c)
    <3>1. hall.at.prev = Seen(m, d) /\ h2.at.prev = Seen(m, d)
      BY <1>3, <1>11, <2>1 DEF p
    <3> HIDE DEF m
    <3>2. HealthyMotor(m)
      BY DEF m
    <3> QED BY <1>2, <1>4, <1>9, <2>1, <2>3, <3>1, <3>2, NoEdge
  <2> QED BY <1>1, <1>10, <2>1, <2>2, <2>3
<1>12. CASE hall.at.prev # p /\ ~(hall.at.first = p /\ hall.at.edges >= 5)
  <2>1. /\ h2.at.sweep = "Forward" /\ h2.at.target = Wrapped(t + Step)
        /\ h2.at.first = (IF hall.at.first = NoPattern THEN p ELSE hall.at.first) /\ h2.at.prev = p
        /\ h2.at.edges \in Nat /\ (h2.at.edges >= 5 \/ h2.at.edges = hall.at.edges + 1)
        /\ h2.table = [hall.table EXCEPT ![p] = t]
    BY <1>5, <1>7, <1>12 DEF ForwardTo
  <2>2. p = Seen(m, d)
    BY <1>3 DEF p
  <2>3. CASE NoEdgeYet(hall)
    <3>1. h2.at.first = Seen(m, d) /\ h2.at.prev = Seen(m, d) /\ h2.table = [hall.table EXCEPT ![Seen(m, d)] = t]
      BY <2>1, <2>2, <2>3 DEF NoEdgeYet
    <3>2. OnTheWay(h2, m, q2, u2, lag2, d, d)
      <4> HIDE DEF m
      <4>1. HealthyMotor(m)
        BY DEF m
      <4> QED BY <1>1, <1>4, <1>6, <1>9, <2>1, <3>1, <4>1, FirstEdge
    <3> QED BY <1>4, <1>10, <2>1, <3>2
  <2>4. ASSUME NEW a \in Int, NEW c \in Int, OnTheWay(hall, m, q, u, lag, a, c)
        PROVE  OnTheWay(h2, m, q2, u2, lag2, a, d)
    <3>1. hall.at.first # NoPattern
      BY <2>4, SeenIs DEF OnTheWay
    <3>2. /\ h2.at.first = hall.at.first /\ h2.at.prev = Seen(m, d)
          /\ h2.table = [hall.table EXCEPT ![Seen(m, d)] = t]
          /\ hall.at.prev # Seen(m, d) /\ ~(hall.at.first = Seen(m, d) /\ hall.at.edges >= 5)
      BY <1>12, <2>1, <2>2, <3>1
    <3> HIDE DEF m
    <3>3. HealthyMotor(m)
      BY DEF m
    <3> QED BY <1>1, <1>4, <1>6, <1>9, <2>1, <2>4, <3>2, <3>3, NextEdge
  <2> QED BY <1>1, <1>4, <1>10, <2>1, <2>3, <2>4
<1>13. CASE hall.at.prev # p /\ hall.at.first = p /\ hall.at.edges >= 5
  <2>1. /\ h2.at.sweep = "Reverse" /\ h2.at.target = t
        /\ h2.at.first = NoPattern /\ h2.at.prev = p /\ h2.table = hall.table
    BY <1>7, <1>13 DEF ForwardTo
  <2>2. Dragged(t) = rotor
    BY <1>1, RotorStays
  <2>3. PICK a \in Int, c \in Int : OnTheWay(hall, m, q, u, lag, a, c)
    BY <1>1, <1>5, <1>13 DEF NoEdgeYet
  <2>4. /\ hall.at.prev # Seen(m, d) /\ hall.at.first = Seen(m, d)
        /\ h2.at.prev = Seen(m, d) /\ h2.at.target = hall.at.target /\ h2.table = hall.table
    BY <1>3, <1>13, <2>1 DEF p
  <2>5. Turned(h2, m, rotor)
    <3> HIDE DEF m
    <3>1. HealthyMotor(m)
      BY DEF m
    <3> QED BY <1>1, <1>4, <2>3, <2>4, <3>1, LastEdge
  <2> QED BY <2>1, <2>2, <2>5
<1> QED BY <1>11, <1>12, <1>13

-----------------------------------------------------------------------------
(***************************************************************************)
(* A tick of the way back by its parts.                                    *)
(***************************************************************************)
Mean(h) == Wrapped(h.table[Entry(h.at.prev)] + Disagreement(h) \div 2)

ReverseTo(h, p, h2) ==
  /\ h.at.prev = p \/ h.at.first = NoPattern =>
       /\ h2.at.sweep = "Reverse" /\ h2.at.target = Wrapped(h.at.target + -Step)
       /\ h2.at.first = (IF h.at.prev = p THEN h.at.first ELSE p) /\ h2.at.prev = p
       /\ h2.at.edges = h.at.edges /\ h2.table = h.table
  /\ h.at.prev # p /\ h.at.first # NoPattern =>
       /\ h2.table = [h.table EXCEPT ![Entry(h.at.prev)] = Mean(h)]
       /\ h.at.first = p /\ h.at.edges >= 4 => h2.at.sweep = "Done" /\ h2.at.target = h.at.target
       /\ ~(h.at.first = p /\ h.at.edges >= 4) =>
            /\ h2.at.sweep = "Reverse" /\ h2.at.target = Wrapped(h.at.target + -Step)
            /\ h2.at.first = h.at.first /\ h2.at.prev = p
            /\ h2.at.edges \in Nat /\ (h2.at.edges >= 5 \/ h2.at.edges = h.at.edges + 1)

FiveFields(x) ==
  x = [sweep |-> x.sweep, target |-> x.target, first |-> x.first, prev |-> x.prev, edges |-> x.edges]

LEMMA SweptBack ==
  ASSUME NEW x, FiveFields(x), NEW p2
  PROVE  SweptOn(x, p2, -Step) =
           [sweep |-> x.sweep, target |-> Wrapped(x.target + -Step), first |-> x.first, prev |-> p2, edges |-> x.edges]
<1> DEFINE t2 == Wrapped(x.target + -Step)
<1>1. SweptOn(x, p2, -Step) = [x EXCEPT !.prev = p2, !.target = t2]
  BY DEF SweptOn
<1>2. PICK s, t, f, p, e : x = [sweep |-> s, target |-> t, first |-> f, prev |-> p, edges |-> e]
  BY DEF FiveFields
<1> HIDE DEF t2
<1>3. PICK y : y = [x EXCEPT !.prev = p2, !.target = t2]
  OBVIOUS
<1>4. y = [sweep |-> s, target |-> t2, first |-> f, prev |-> p2, edges |-> e]
  BY <1>2, <1>3
<1>5. x.sweep = s /\ x.first = f /\ x.edges = e
  BY <1>2
<1> QED BY <1>1, <1>3, <1>4, <1>5 DEF t2

LEMMA ReverseParts ==
  ASSUME NEW h \in HallStates, h.at.sweep = "Reverse", NEW p \in Patterns, NEW h2, h2 = HallStep(h, p)
  PROVE  ReverseTo(h, p, h2)
<1> DEFINE at == h.at
           edge == at.prev # p
           edges == Counted(at.edges)
           first == IF edge THEN p ELSE at.first
           table == [h.table EXCEPT ![Entry(at.prev)] = Mean(h)]
           on == SweptOn([at EXCEPT !.edges = edges], p, -Step)
           back == SweptOn([at EXCEPT !.first = first], p, -Step)
<1>1. /\ at \in Sweeps /\ h = [at |-> h.at, table |-> h.table]
      /\ at = [sweep |-> at.sweep, target |-> at.target, first |-> at.first, prev |-> at.prev, edges |-> at.edges]
      /\ at.edges \in 0 .. 5
  BY HallKinds DEF Sweeps, EdgesNeeded
<1>2. edges \in Nat /\ (edges >= 5 \/ edges = at.edges + 1) /\ (edges >= 5 <=> at.edges >= 4)
  <2>1. Counted(at.edges) = IF at.edges + 1 <= 5 THEN at.edges + 1 ELSE 5
    BY <1>1, PickedLeast DEF Counted, EdgesNeeded
  <2> QED BY <1>1, <2>1
<1>3. h2 = IF edge /\ at.first # NoPattern
           THEN IF at.first = p /\ edges >= 5
                THEN [[h EXCEPT !.table[Entry(at.prev)] = Mean(h)] EXCEPT !.at = Finished(at.target)]
                ELSE [[h EXCEPT !.table[Entry(at.prev)] = Mean(h)] EXCEPT !.at = on]
           ELSE [h EXCEPT !.at = back]
  BY DEF HallStep, ReverseStep, Mean, EdgesNeeded
<1> HIDE DEF edges, first, on, back
<1>4. [h EXCEPT !.table[Entry(at.prev)] = Mean(h)] = [at |-> h.at, table |-> table]
  BY <1>1
<1> HIDE DEF table
<1>5. PICK s, t, f, p2, e : at = [sweep |-> s, target |-> t, first |-> f, prev |-> p2, edges |-> e]
  BY <1>1
<1>6. at.sweep = s /\ at.target = t /\ at.first = f /\ at.prev = p2 /\ at.edges = e
  BY <1>5
<1> HIDE DEF at
<1>7. on = [sweep |-> s, target |-> Wrapped(t + -Step), first |-> f, prev |-> p, edges |-> edges]
  <2>1. PICK x : x = [at EXCEPT !.edges = edges]
    OBVIOUS
  <2>2. x = [sweep |-> s, target |-> t, first |-> f, prev |-> p2, edges |-> edges]
    BY <1>5, <2>1
  <2>3. /\ x.sweep = s /\ x.target = t /\ x.first = f /\ x.edges = edges
        /\ FiveFields(x)
    BY <2>2 DEF FiveFields
  <2>4. SweptOn(x, p, -Step) =
          [sweep |-> x.sweep, target |-> Wrapped(x.target + -Step), first |-> x.first, prev |-> p, edges |-> x.edges]
    BY <2>3, SweptBack, Zenon
  <2> QED BY <2>1, <2>3, <2>4 DEF on
<1>8. back = [sweep |-> s, target |-> Wrapped(t + -Step), first |-> first, prev |-> p, edges |-> e]
  <2>1. PICK x : x = [at EXCEPT !.first = first]
    OBVIOUS
  <2>2. x = [sweep |-> s, target |-> t, first |-> first, prev |-> p2, edges |-> e]
    BY <1>5, <2>1
  <2>3. /\ x.sweep = s /\ x.target = t /\ x.first = first /\ x.edges = e
        /\ FiveFields(x)
    BY <2>2 DEF FiveFields
  <2>4. SweptOn(x, p, -Step) =
          [sweep |-> x.sweep, target |-> Wrapped(x.target + -Step), first |-> x.first, prev |-> p, edges |-> x.edges]
    BY <2>3, SweptBack, Zenon
  <2> QED BY <2>1, <2>3, <2>4 DEF back
<1>9. CASE ~(edge /\ at.first # NoPattern)
  <2>1. h2.at = back /\ h2.table = h.table
    BY <1>1, <1>3, <1>9
  <2>2. /\ h2.at.sweep = s /\ h2.at.target = Wrapped(t + -Step) /\ h2.at.first = first /\ h2.at.prev = p
        /\ h2.at.edges = e /\ h2.table = h.table
    BY <1>8, <2>1
  <2>3. first = IF at.prev = p THEN at.first ELSE p
    BY DEF first
  <2> QED BY <1>6, <1>9, <2>2, <2>3 DEF ReverseTo, at
<1>10. CASE edge /\ at.first # NoPattern /\ ~(at.first = p /\ edges >= 5)
  <2>1. h2 = [[at |-> h.at, table |-> table] EXCEPT !.at = on]
    BY <1>3, <1>4, <1>10
  <2>2. h2.at = on /\ h2.table = table
    BY <2>1
  <2>3. /\ h2.at.sweep = s /\ h2.at.target = Wrapped(t + -Step) /\ h2.at.first = f /\ h2.at.prev = p
        /\ h2.at.edges = edges /\ h2.table = table
    BY <1>7, <2>2
  <2> QED BY <1>2, <1>6, <1>10, <2>3 DEF ReverseTo, at, table
<1>11. CASE edge /\ at.first = p /\ at.first # NoPattern /\ edges >= 5
  <2>1. h2 = [[at |-> h.at, table |-> table] EXCEPT !.at = Finished(at.target)]
    BY <1>3, <1>4, <1>11
  <2>2. h2.at = Finished(at.target) /\ h2.table = table
    BY <2>1
  <2>3. h2.at.sweep = "Done" /\ h2.at.target = at.target /\ h2.table = table
    BY <2>2 DEF Finished
  <2> QED BY <1>2, <1>11, <2>3 DEF ReverseTo, at, table
<1> QED BY <1>9, <1>10, <1>11

-----------------------------------------------------------------------------
(***************************************************************************)
(* Where the two passes of an edge agree.  The rotor is dragged back over  *)
(* it with the target behind it, at an even number of half steps.          *)
(***************************************************************************)
Facing(h, m, c) ==
  /\ h.at.prev = Seen(m, c)
  /\ \E rt \in -m.friction.reverse - 4 .. -m.friction.reverse - 1 :
       h.at.target = At(c, rt) /\ (HallOffset + rt) % 2 = 0

Agrees(h) == ~(2 * Size(Disagreement(h)) > Sector)

\* The last even number of half steps at which an edge is seen on the way back
Rho(m) == IF (HallOffset + (-m.friction.reverse - 1)) % 2 = 0
          THEN -m.friction.reverse - 1 ELSE -m.friction.reverse - 2

Passed(h, m, j) == Near(h, m, j, Rho(m), Sector \div 4)
Small(m) == 2 * (m.friction.forward - Rho(m)) <= Sector

\* Two passes of an edge that agree
Meets(h, m, c, o) ==
  \E rt \in -m.friction.reverse - 4 .. -m.friction.reverse - 1 :
    /\ (HallOffset + rt) % 2 = 0 /\ 2 * (o - rt) <= Sector
    /\ Mean(h) = At(c, o + (rt - o) \div 2)

LEMMA AgreesWithin ==
  ASSUME NEW m, HealthyMotor(m), Moves(m.friction), NEW h, NEW c \in Int, Facing(h, m, c), Agrees(h),
         NEW o \in -m.friction.reverse .. Sector + 1 + m.friction.forward, h.table[Seen(m, c)] = At(c, o)
  PROVE  Meets(h, m, c, o)
<1> DEFINE ff == m.friction.forward
           fr == m.friction.reverse
           S == Sector
           d == Disagreement(h)
<1>1. ff \in Nat /\ fr \in Nat /\ 2 * ff <= 3 * S /\ 2 * fr <= 3 * S /\ S \in Nat /\ S >= 8 /\ Turn = 6 * S
  BY FrictionIs, TurnIs
<1>2. PICK rt \in -fr - 4 .. -fr - 1 : h.at.target = At(c, rt) /\ (HallOffset + rt) % 2 = 0
  BY DEF Facing
<1>3. Entry(h.at.prev) = Seen(m, c)
  BY SeenIs DEF Facing
<1>4. o \in Int /\ rt \in Int /\ -Turn < rt - o /\ rt - o < 0 /\ 2 * (rt - o) <= Turn
  <2> HIDE DEF ff, fr, S
  <2>1. o \in -fr .. S + 1 + ff
    BY DEF ff, fr, S
  <2> QED BY <1>1, <1>2, <2>1
<1>5. d = IF 2 * (rt - o) > -Turn THEN rt - o ELSE rt - o + Turn
  <2>1. d = WrappedDiff(At(c, rt), At(c, o))
    BY <1>2, <1>3 DEF Disagreement
  <2> QED BY <1>4, <2>1, DiffAt
<1>6. ~(2 * Size(d) > S)
  BY DEF Agrees
<1> HIDE DEF ff, fr, S, d
<1>7. d = rt - o /\ 2 * (o - rt) <= S
  <2>1. CASE 2 * (rt - o) > -Turn
    <3>1. Size(d) = o - rt
      BY <1>4, <1>5, <2>1 DEF Size
    <3> QED BY <1>1, <1>4, <1>5, <1>6, <2>1, <3>1
  <2>2. CASE ~(2 * (rt - o) > -Turn)
    <3>1. d = rt - o + Turn /\ d >= 0
      BY <1>1, <1>4, <1>5, <2>2
    <3>2. Size(d) = d
      BY <3>1, <1>1, <1>4 DEF Size
    <3>3. o <= S + 1 + ff /\ rt >= -fr - 4
      BY <1>1, <1>2 DEF ff, fr, S
    <3>4. 2 * d > S
      BY <1>1, <1>4, <3>1, <3>3
    <3> QED BY <1>1, <1>4, <1>6, <3>1, <3>2, <3>4
  <2> QED BY <2>1, <2>2
<1>8. Mean(h) = At(c, o + (rt - o) \div 2)
  <2>1. Mean(h) = Wrapped(At(c, o) + (rt - o) \div 2)
    BY <1>3, <1>7 DEF Mean, d
  <2>2. (rt - o) \div 2 \in Int
    BY <1>4
  <2> QED BY <1>4, <2>1, <2>2, AtMoves
<1> QED BY <1>2, <1>7, <1>8 DEF Meets, fr, S

LEMMA RhoIs ==
  ASSUME NEW m, HealthyMotor(m)
  PROVE  /\ Rho(m) \in {-m.friction.reverse - 1, -m.friction.reverse - 2} /\ Rho(m) \in Int
         /\ (HallOffset + Rho(m)) % 2 = 0
<1> DEFINE fr == m.friction.reverse
<1>1. fr \in Nat /\ HallOffset \in Int
  BY FrictionTyped, AngleTyped
<1> HIDE DEF fr
<1>2. Rho(m) = IF (HallOffset + (-fr - 1)) % 2 = 0 THEN -fr - 1 ELSE -fr - 2
  BY DEF Rho, fr
<1>3. CASE (HallOffset + (-fr - 1)) % 2 = 0
  BY <1>1, <1>2, <1>3 DEF fr
<1>4. CASE (HallOffset + (-fr - 1)) % 2 # 0
  BY <1>1, <1>2, <1>4 DEF fr
<1> QED BY <1>3, <1>4

\* Of the fine entries that agree, the mean is near the edge.
LEMMA FinePasses ==
  ASSUME NEW m, HealthyMotor(m), Moves(m.friction), NEW h, NEW c \in Int, Facing(h, m, c), Agrees(h),
         Fine(h, m, c), NEW h2, h2.table[Seen(m, c)] = Mean(h)
  PROVE  Passed(h2, m, c)
<1> DEFINE ff == m.friction.forward
           fr == m.friction.reverse
           S == Sector
           rho == Rho(m)
<1>1. ff \in Nat /\ fr \in Nat /\ S \in Nat /\ S >= 8 /\ S % 4 = 0 /\ HallOffset \in Int
  BY FrictionIs, TurnIs, AngleTyped
<1>2. PICK o \in -fr .. S + 1 + ff : h.table[Seen(m, c)] = At(c, o) /\ (HallOffset + o) % 2 = 0
  BY DEF Fine, Swept
<1>3. PICK rt \in -fr - 4 .. -fr - 1 :
        /\ (HallOffset + rt) % 2 = 0 /\ 2 * (o - rt) <= S
        /\ Mean(h) = At(c, o + (rt - o) \div 2)
  <2>1. Meets(h, m, c, o)
    BY <1>2, AgreesWithin
  <2> QED BY <2>1 DEF Meets
<1>4. rho \in {-fr - 1, -fr - 2} /\ (HallOffset + rho) % 2 = 0
  BY RhoIs
<1> HIDE DEF ff, fr, S, rho
<1>5. o \in Int /\ rt \in Int /\ rho \in Int
  BY <1>1, <1>2, <1>3, <1>4
<1>6. o >= rho + 2 /\ rt >= rho - 2 /\ rt <= -1
  BY <1>1, <1>2, <1>3, <1>4, <1>5
<1> DEFINE x == o + (rt - o) \div 2
           k == S \div 4
<1>7. x \in Int /\ k \in Int /\ 4 * k = S /\ 2 * x <= o + rt /\ 2 * x >= o + rt - 1
  BY <1>1, <1>5
<1> HIDE DEF x, k
<1>8. x \in rho .. k
  BY <1>3, <1>5, <1>6, <1>7
<1>9. h2.table[Seen(m, c)] = At(c, x)
  BY <1>3 DEF x
<1> QED BY <1>8, <1>9 DEF Passed, Near, rho, k, S

\* An edge that the rotor was dragged over agrees only where the friction is small.
LEMMA GoodPasses ==
  ASSUME NEW m, HealthyMotor(m), Moves(m.friction), NEW h, NEW c \in Int, Facing(h, m, c), Agrees(h), Good(h, m, c)
  PROVE  Small(m)
<1> DEFINE ff == m.friction.forward
           fr == m.friction.reverse
           S == Sector
           rho == Rho(m)
<1>1. ff \in Nat /\ fr \in Nat /\ S \in Nat /\ S >= 8 /\ HallOffset \in Int
  BY FrictionIs, TurnIs, AngleTyped
<1>2. PICK o \in ff .. ff + 3 : h.table[Seen(m, c)] = At(c, o) /\ (HallOffset + o) % 2 = 0
  BY DEF Good, Swept
<1>3. PICK rt \in -fr - 4 .. -fr - 1 : (HallOffset + rt) % 2 = 0 /\ 2 * (o - rt) <= S
  <2>1. o \in -m.friction.reverse .. Sector + 1 + m.friction.forward
    <3> HIDE DEF ff, fr, S
    <3>1. o \in -fr .. S + 1 + ff
      BY <1>1, <1>2
    <3> QED BY <3>1 DEF ff, fr, S
  <2>2. Meets(h, m, c, o)
    BY <1>2, <2>1, AgreesWithin
  <2> QED BY <2>2 DEF Meets
<1>4. rho \in {-fr - 1, -fr - 2} /\ (HallOffset + rho) % 2 = 0
  BY RhoIs
<1> HIDE DEF ff, fr, S, rho
<1>5. o \in Int /\ rt \in Int /\ rho \in Int
  BY <1>1, <1>2, <1>3, <1>4
<1>6. rt <= rho
  BY <1>1, <1>3, <1>4, <1>5
<1>7. 2 * (ff - rho) <= S
  BY <1>1, <1>2, <1>3, <1>5, <1>6
<1> QED BY <1>7 DEF Small, ff, rho, S

\* A late entry never agrees.
LEMMA LateFails ==
  ASSUME NEW m, HealthyMotor(m), Moves(m.friction), NEW h, NEW c \in Int, Facing(h, m, c), Agrees(h), Late(h, m, c)
  PROVE  FALSE
<1> DEFINE ff == m.friction.forward
           fr == m.friction.reverse
           S == Sector
<1>1. ff \in Nat /\ fr \in Nat /\ S \in Nat /\ S >= 8
  BY FrictionIs, TurnIs
<1>2. PICK o \in S - fr .. S + 1 + ff : h.table[Seen(m, c)] = At(c, o)
  BY DEF Late, Swept
<1>3. PICK rt \in -fr - 4 .. -fr - 1 : 2 * (o - rt) <= S
  <2>1. o \in -m.friction.reverse .. Sector + 1 + m.friction.forward
    <3> HIDE DEF ff, fr, S
    <3>1. o \in -fr .. S + 1 + ff
      BY <1>1, <1>2
    <3> QED BY <3>1 DEF ff, fr, S
  <2>2. Meets(h, m, c, o)
    BY <1>2, <2>1, AgreesWithin
  <2> QED BY <2>2 DEF Meets
<1> HIDE DEF ff, fr, S
<1>5. o \in Int /\ rt \in Int
  BY <1>1, <1>2, <1>3
<1> QED BY <1>1, <1>2, <1>3, <1>5

-----------------------------------------------------------------------------
(***************************************************************************)
(* The way back.  f is the sector of the first edge that was seen, before  *)
(* which no edge is passed, and c is read last: that of the rotor, or the  *)
(* one that it has just left.                                              *)
(***************************************************************************)
Seat(m, q, u, lag, c) ==
  \/ c = q /\ u <= Sector - 3
  \/ c = q + 1 /\ u >= Sector - 4 /\ lag = -m.friction.reverse
Where(h, m, q, u, lag, c) ==
  Seat(m, q, u, lag, c) \/ (c = q - 1 /\ u <= 1 /\ h.at.first = NoPattern)

\* The edges after c up to f have their means, the others still their first angles.
Averaged(h, m, f, c) ==
  /\ \A j \in c + 1 .. f : Passed(h, m, j)
  /\ \A j \in f - 5 .. c : Fine(h, m, j)
  /\ Small(m) \/ \E j \in f - 5 .. c : Good(h, m, j)
Table(h, m, f, c) == LateAhead(h, m, f, c) \/ Averaged(h, m, f, c)

Since(h, m, f, c) ==
  /\ f - 5 <= c /\ c <= f
  /\ \/ h.at.first = NoPattern /\ f = c
     \/ h.at.first = Seen(m, f) /\ (h.at.edges >= 5 \/ h.at.edges >= f - c)

Behind(h, m, q, u, lag, f, c) ==
  /\ h.at.prev = Seen(m, c)
  /\ Where(h, m, q, u, lag, c) /\ Since(h, m, f, c) /\ Table(h, m, f, c)

Backwards(h, m, r) ==
  \E q, u, lag :
    /\ Placed(m, r, h.at.target, q, u, lag)
    /\ \E c, f \in Int : Behind(h, m, q, u, lag, f, c)

AllNear(h, m) == \A k \in 0 .. 5 : Near(h, m, k, -(Sector \div 2), Sector \div 2)

ReadBack(q, u, d) == d \in {q, q + 1} /\ (d = q + 1 => u >= Sector - 2)

LEMMA TurnedBack ==
  ASSUME NEW m, NEW h, NEW r, h.at.first = NoPattern, Turned(h, m, r)
  PROVE  Backwards(h, m, r)
<1>1. PICK q, u, lag, c :
        /\ Placed(m, r, h.at.target, q, u, lag) /\ h.at.prev = Seen(m, c)
        /\ (c = q /\ u <= 3) \/ (c = q - 1 /\ u <= 1)
        /\ LateAhead(h, m, c, c) \/ GoodAhead(h, m, c, c)
  BY DEF Turned
<1>2. c \in Int /\ u \in Nat /\ Sector \in Nat /\ Sector >= 8
  BY <1>1, TurnIs DEF Placed
<1>3. Where(h, m, q, u, lag, c)
  BY <1>1, <1>2 DEF Where, Seat
<1>4. Since(h, m, c, c)
  BY <1>2 DEF Since
<1>5. \A j \in c + 1 .. c : FALSE
  BY <1>2
<1>6. Table(h, m, c, c)
  BY <1>1, <1>5 DEF Table, Averaged, GoodAhead
<1>7. Behind(h, m, q, u, lag, c, c)
  BY <1>1, <1>3, <1>4, <1>6 DEF Behind
<1> QED BY <1>1, <1>2, <1>7 DEF Backwards

\* Where a move back leaves the rotor, after sector d was read
LEMMA OnMovesBack ==
  ASSUME NEW m, HealthyMotor(m), NEW h, NEW r, NEW t, NEW q, NEW u, NEW lag, Placed(m, r, t, q, u, lag),
         NEW c, Where(h, m, q, u, lag, c), NEW d, ReadBack(q, u, d),
         NEW r2, NEW t2, NEW q2, NEW u2, NEW lag2, Placed(m, r2, t2, q2, u2, lag2), MovedBack(m, q, u, lag, q2, u2, lag2)
  PROVE  Seat(m, q2, u2, lag2, d)
<1> DEFINE ff == m.friction.forward
           fr == m.friction.reverse
<1>1. /\ q \in Int /\ u \in 0 .. Sector - 1 /\ lag \in -fr .. ff
      /\ q2 \in Int /\ u2 \in 0 .. Sector - 1 /\ lag2 \in -fr .. ff
      /\ d \in {q, q + 1} /\ (d = q + 1 => u >= Sector - 2)
  BY DEF Placed, ReadBack
<1>2. ff \in Nat /\ fr \in Nat /\ Sector \in Nat /\ Sector >= 8
  BY FrictionTyped, TurnIs
<1>3. PICK n \in 0 .. 2 :
        /\ lag = -fr => n = 2
        /\ lag2 > -fr => n = 0
        /\ (q2 = q /\ u2 = u - n) \/ (q2 = q - 1 /\ u2 = u - n + Sector)
  BY DEF MovedBack
<1>4. (c = q /\ u <= Sector - 3) \/ (c = q + 1 /\ u >= Sector - 4 /\ lag = -fr) \/ (c = q - 1 /\ u <= 1)
  BY DEF Where, Seat
<1> HIDE DEF ff, fr
<1>5. (d = q2 /\ u2 <= Sector - 3) \/ (d = q2 + 1 /\ u2 >= Sector - 4 /\ lag2 = -fr)
  BY <1>1, <1>2, <1>3, <1>4
<1> QED BY <1>5 DEF Seat, fr

LEMMA BackFaces ==
  ASSUME NEW m, HealthyMotor(m), NEW h, NEW r, NEW q, NEW u, NEW lag, Placed(m, r, h.at.target, q, u, lag),
         NEW c, c = q + 1, u >= Sector - 4, lag = -m.friction.reverse, h.at.prev = Seen(m, c)
  PROVE  Facing(h, m, c)
<1> DEFINE fr == m.friction.reverse
           rt == u - Sector - fr
<1>1. q \in Int /\ u \in 0 .. Sector - 1 /\ h.at.target = At(q, u + lag) /\ (HallOffset + u + lag) % 2 = 0
  BY DEF Placed
<1>2. fr \in Nat /\ Sector \in Nat /\ Sector >= 8 /\ Sector % 4 = 0 /\ HallOffset \in Int
  BY FrictionTyped, TurnIs, AngleTyped
<1>3. lag = -fr
  OBVIOUS
<1> HIDE DEF fr
<1>4. rt \in -fr - 4 .. -fr - 1 /\ rt \in Int /\ u + lag = Sector + rt /\ (HallOffset + rt) % 2 = 0
  BY <1>1, <1>2, <1>3
<1> HIDE DEF rt
<1>5. h.at.target = At(c, rt)
  BY <1>1, <1>4, AtNext
<1> QED BY <1>4, <1>5 DEF Facing, fr

\* Without a first edge, all of the table is still to be passed.
LEMMA TableAgain ==
  ASSUME NEW m, NEW h, NEW h2, h2.table = h.table, NEW c \in Int, NEW d \in Int, d = c - 1 \/ d = c + 1, Table(h, m, c, c)
  PROVE  Table(h2, m, d, d)
<1>1. \A j : /\ Good(h, m, j) => Good(h2, m, j)
             /\ Fine(h, m, j) => Fine(h2, m, j)
             /\ Late(h, m, j) => Late(h2, m, j)
  BY SweptSame
<1>2. ASSUME NEW j \in Int
      PROVE  /\ Good(h2, m, j + 6) <=> Good(h2, m, j)
             /\ Fine(h2, m, j + 6) <=> Fine(h2, m, j)
             /\ Late(h2, m, j + 6) <=> Late(h2, m, j)
  BY SweptAgain DEF Good, Fine, Late
<1>3. \A j \in d - 5 .. d : \E i \in c - 5 .. c : i = j \/ i = j + 6 \/ j = i + 6
  <2>1. CASE d = c - 1
    <3>1. ASSUME NEW j \in d - 5 .. d PROVE \E i \in c - 5 .. c : i = j \/ i = j + 6
      <4>1. CASE j = d - 5
        <5>1. c \in c - 5 .. c /\ c = j + 6
          BY <2>1, <4>1
        <5> QED BY <5>1
      <4>2. CASE j # d - 5
        <5>1. j \in c - 5 .. c
          BY <2>1, <4>2
        <5> QED BY <5>1
      <4> QED BY <4>1, <4>2
    <3> QED BY <3>1
  <2>2. CASE d = c + 1
    <3>1. ASSUME NEW j \in d - 5 .. d PROVE \E i \in c - 5 .. c : i = j \/ j = i + 6
      <4>1. CASE j = d
        <5>1. c - 5 \in c - 5 .. c /\ j = (c - 5) + 6
          BY <2>2, <4>1
        <5> QED BY <5>1
      <4>2. CASE j # d
        <5>1. j \in c - 5 .. c
          BY <2>2, <4>2
        <5> QED BY <5>1
      <4> QED BY <4>1, <4>2
    <3> QED BY <3>1
  <2> QED BY <2>1, <2>2
<1>4. \A i \in c - 5 .. c : \E j \in d - 5 .. d : i = j \/ i = j + 6 \/ j = i + 6
  <2>1. CASE d = c - 1
    <3>1. ASSUME NEW i \in c - 5 .. c PROVE \E j \in d - 5 .. d : i = j \/ i = j + 6
      <4>1. CASE i = c
        <5>1. d - 5 \in d - 5 .. d /\ i = (d - 5) + 6
          BY <2>1, <4>1
        <5> QED BY <5>1
      <4>2. CASE i # c
        <5>1. i \in d - 5 .. d
          BY <2>1, <4>2
        <5> QED BY <5>1
      <4> QED BY <4>1, <4>2
    <3> QED BY <3>1
  <2>2. CASE d = c + 1
    <3>1. ASSUME NEW i \in c - 5 .. c PROVE \E j \in d - 5 .. d : i = j \/ j = i + 6
      <4>1. CASE i = c - 5
        <5>1. d \in d - 5 .. d /\ d = i + 6
          BY <2>2, <4>1
        <5> QED BY <5>1
      <4>2. CASE i # c - 5
        <5>1. i \in d - 5 .. d
          BY <2>2, <4>2
        <5> QED BY <5>1
      <4> QED BY <4>1, <4>2
    <3> QED BY <3>1
  <2> QED BY <2>1, <2>2
<1>5. CASE LateAhead(h, m, c, c)
  <2>1. PICK i \in c - 5 .. c : Late(h, m, i)
    BY <1>5 DEF LateAhead
  <2>2. PICK j \in d - 5 .. d : i = j \/ i = j + 6 \/ j = i + 6
    BY <1>4
  <2>3. i \in Int /\ j \in Int
    OBVIOUS
  <2>4. Late(h2, m, j)
    BY <1>1, <1>2, <2>1, <2>2, <2>3
  <2> QED BY <2>4 DEF LateAhead, Table
<1>6. CASE Averaged(h, m, c, c)
  <2>1. ASSUME NEW j \in d - 5 .. d PROVE Fine(h2, m, j)
    <3>1. PICK i \in c - 5 .. c : i = j \/ i = j + 6 \/ j = i + 6
      BY <1>3
    <3>2. i \in Int /\ j \in Int
      OBVIOUS
    <3>3. Fine(h2, m, i)
      BY <1>1, <1>6 DEF Averaged
    <3> QED BY <1>2, <3>1, <3>2, <3>3
  <2>2. \A j \in d + 1 .. d : FALSE
    OBVIOUS
  <2>3. ASSUME ~Small(m) PROVE \E j \in d - 5 .. d : Good(h2, m, j)
    <3>1. PICK i \in c - 5 .. c : Good(h, m, i)
      BY <1>6, <2>3 DEF Averaged
    <3>2. PICK j \in d - 5 .. d : i = j \/ i = j + 6 \/ j = i + 6
      BY <1>4
    <3>3. i \in Int /\ j \in Int
      OBVIOUS
    <3>4. Good(h2, m, j)
      BY <1>1, <1>2, <3>1, <3>2, <3>3
    <3> QED BY <3>4
  <2> QED BY <2>1, <2>2, <2>3 DEF Averaged, Table
<1> QED BY <1>5, <1>6 DEF Table

\* An edge that is passed and agrees
LEMMA TablePassed ==
  ASSUME NEW m, HealthyMotor(m), Moves(m.friction), NEW h, h.table \in [1 .. 6 -> Angles], NEW h2,
         NEW f \in Int, NEW c \in Int, f - 5 <= c, c <= f, Facing(h, m, c), Agrees(h), Table(h, m, f, c),
         h2.table = [h.table EXCEPT ![Seen(m, c)] = Mean(h)]
  PROVE  Table(h2, m, f, c - 1)
<1>1. ASSUME NEW j \in f - 5 .. f, j # c
      PROVE  /\ Good(h, m, j) => Good(h2, m, j)
             /\ Fine(h, m, j) => Fine(h2, m, j)
             /\ Late(h, m, j) => Late(h2, m, j)
             /\ Passed(h, m, j) => Passed(h2, m, j)
  <2>1. j \in Int /\ -6 < j - c /\ j - c < 6
    OBVIOUS
  <2>2. Seen(m, j) # Seen(m, c) /\ Seen(m, j) \in 1 .. 6
    BY <1>1, <2>1, SeenApart, SeenIs
  <2>3. h2.table[Seen(m, j)] = h.table[Seen(m, j)]
    BY <2>2
  <2> QED BY <2>3 DEF Good, Fine, Late, Swept, Passed, Near
<1>2. h2.table[Seen(m, c)] = Mean(h)
  BY SeenIs
<1>3. CASE LateAhead(h, m, f, c)
  <2>1. PICK j \in f - 5 .. c : Late(h, m, j)
    BY <1>3 DEF LateAhead
  <2>2. j # c
    BY <2>1, LateFails
  <2>3. j \in f - 5 .. c - 1 /\ j \in f - 5 .. f
    BY <2>2
  <2> QED BY <1>1, <2>1, <2>2, <2>3 DEF Table, LateAhead
<1>4. CASE Averaged(h, m, f, c)
  <2>1. c \in f - 5 .. c /\ f - 5 \in Int
    OBVIOUS
  <2>2. Passed(h2, m, c)
    BY <1>2, <1>4, <2>1, FinePasses DEF Averaged
  <2>3. ASSUME NEW j \in (c - 1) + 1 .. f PROVE Passed(h2, m, j)
    <3>1. CASE j = c
      BY <2>2, <3>1
    <3>2. CASE j # c
      <4>1. j \in c + 1 .. f /\ j \in f - 5 .. f
        BY <3>2
      <4> QED BY <1>1, <1>4, <3>2, <4>1 DEF Averaged
    <3> QED BY <3>1, <3>2
  <2>4. ASSUME NEW j \in f - 5 .. c - 1 PROVE Fine(h2, m, j)
    <3>1. j \in f - 5 .. c /\ j \in f - 5 .. f /\ j # c
      OBVIOUS
    <3> QED BY <1>1, <1>4, <3>1 DEF Averaged
  <2>5. ASSUME ~Small(m) PROVE \E j \in f - 5 .. c - 1 : Good(h2, m, j)
    <3>1. PICK j \in f - 5 .. c : Good(h, m, j)
      BY <1>4, <2>5 DEF Averaged
    <3>2. j # c
      BY <2>5, <3>1, GoodPasses
    <3>3. j \in f - 5 .. c - 1 /\ j \in f - 5 .. f
      BY <3>2
    <3> QED BY <1>1, <3>1, <3>2, <3>3
  <2> QED BY <2>3, <2>4, <2>5 DEF Averaged, Table
<1> QED BY <1>3, <1>4 DEF Table

\* When all edges are passed, all are near.
LEMMA AllPassed ==
  ASSUME NEW m, HealthyMotor(m), NEW h, NEW f \in Int, Table(h, m, f, f - 6)
  PROVE  AllNear(h, m)
<1>1. \A j \in f - 5 .. f - 6 : FALSE
  OBVIOUS
<1>2. Small(m) /\ \A j \in (f - 6) + 1 .. f : Passed(h, m, j)
  BY <1>1 DEF Table, LateAhead, Averaged
<1>3. ASSUME NEW k \in 0 .. 5
      PROVE  Near(h, m, k, -(Sector \div 2), Sector \div 2)
  <2> DEFINE x == (f - k) % 6
             y == (f - k) \div 6
             j == 6 * y + k
             ff == m.friction.forward
             S == Sector
             rho == Rho(m)
  <2>1. x \in 0 .. 5 /\ y \in Int /\ f - k = 6 * y + x
    OBVIOUS
  <2> HIDE DEF x, y
  <2>2. j \in Int /\ j = f - x /\ j \in (f - 6) + 1 .. f
    BY <2>1
  <2>3. j % 6 = k /\ k % 6 = k
    BY <2>1, OneRemainder
  <2> HIDE DEF j
  <2>4. PICK o \in rho .. S \div 4 : h.table[Seen(m, j)] = At(j, o)
    BY <1>2, <2>2 DEF Passed, Near
  <2>5. h.table[Seen(m, k)] = At(k, o)
    BY <2>3, <2>4 DEF Seen, At
  <2>6. ff \in Nat /\ S \in Nat /\ S % 4 = 0 /\ rho \in Int /\ 2 * (ff - rho) <= S
    BY <1>2, FrictionTyped, TurnIs, RhoIs DEF Small
  <2> HIDE DEF ff, S, rho
  <2>7. o \in -(S \div 2) .. S \div 2
    BY <2>4, <2>6
  <2> QED BY <2>5, <2>7 DEF Near, S
<1> QED BY <1>3 DEF AllNear

LEMMA TableSame ==
  ASSUME NEW m, NEW h, NEW h2, h2.table = h.table, NEW f, NEW c, Table(h, m, f, c)
  PROVE  Table(h2, m, f, c)
<1>1. \A j : /\ Good(h, m, j) => Good(h2, m, j)
             /\ Fine(h, m, j) => Fine(h2, m, j)
             /\ Late(h, m, j) => Late(h2, m, j)
  BY SweptSame
<1>2. \A j : Passed(h, m, j) => Passed(h2, m, j)
  BY DEF Passed, Near
<1>3. CASE LateAhead(h, m, f, c)
  BY <1>1, <1>3 DEF LateAhead, Table
<1>4. CASE Averaged(h, m, f, c)
  BY <1>1, <1>2, <1>4 DEF Averaged, Table
<1> QED BY <1>3, <1>4 DEF Table

LEMMA ReverseKeeps ==
  ASSUME HealthyMotor(motor), Moves(motor.friction), hall \in HallStates, hall.at.sweep = "Reverse",
         Backwards(hall, motor, rotor), NEW bounce \in BOOLEAN, ~Disagrees(hall, Pattern(bounce)),
         NEW h2, h2 = HallStep(hall, Pattern(bounce))
  PROVE  \/ h2.at.sweep = "Reverse" /\ Backwards(h2, motor, Dragged(h2.at.target))
         \/ h2.at.sweep = "Done" /\ AllNear(h2, motor)
<1> DEFINE m == motor
           t == hall.at.target
           r2 == Dragged(Wrapped(t + -Step))
           p == Pattern(bounce)
<1>1. PICK q, u, lag :
        /\ Placed(m, rotor, t, q, u, lag)
        /\ \E c, f \in Int : Behind(hall, m, q, u, lag, f, c)
  BY DEF Backwards
<1>2. PICK c \in Int, f \in Int : Behind(hall, m, q, u, lag, f, c)
  BY <1>1
<1>3. q \in Int /\ u \in 0 .. Sector - 1 /\ rotor = At(q, u) /\ Sector \in Nat /\ Sector >= 8
  BY <1>1, TurnIs DEF Placed
<1>4. PICK d \in {q, q + 1} : p = Seen(m, d) /\ (d = q + 1 => u >= Sector - 2)
  BY <1>3, ReverseReads
<1>5. ReadBack(q, u, d) /\ d \in Int
  BY <1>3, <1>4 DEF ReadBack
<1>6. p \in Patterns /\ p # NoPattern
  BY <1>4, <1>5, SeenIs
<1>7. hall.table \in [1 .. 6 -> Angles] /\ hall.at.edges \in Nat
  BY HallKinds DEF Sweeps, EdgesNeeded
<1>8. ReverseTo(hall, p, h2)
  BY <1>6, ReverseParts
<1>9. PICK q2, u2, lag2 :
        /\ Placed(m, r2, Wrapped(t + -Step), q2, u2, lag2)
        /\ MovedBack(m, q, u, lag, q2, u2, lag2)
  BY <1>1, ReverseMoves
<1>10. /\ hall.at.prev = Seen(m, c)
       /\ Where(hall, m, q, u, lag, c) /\ Since(hall, m, f, c) /\ Table(hall, m, f, c)
  BY <1>2 DEF Behind
<1>11. \/ c = q /\ u <= Sector - 3
       \/ c = q + 1 /\ u >= Sector - 4 /\ lag = -m.friction.reverse
       \/ c = q - 1 /\ u <= 1 /\ hall.at.first = NoPattern
  BY <1>10 DEF Where, Seat
<1>12. HealthyMotor(m) /\ Moves(m.friction)
  OBVIOUS
<1>13. hall.at.prev # p /\ hall.at.first # NoPattern => Agrees(hall)
  BY DEF Disagrees, Agrees
<1> HIDE DEF r2, p
<1>14. Seat(m, q2, u2, lag2, d)
  <2> DEFINE t2 == Wrapped(t + -Step)
  <2>1. Placed(m, r2, t2, q2, u2, lag2) /\ Placed(m, rotor, t, q, u, lag)
    BY <1>1, <1>9
  <2> HIDE DEF t2, t, m
  <2> QED BY <1>5, <1>9, <1>10, <1>12, <2>1, OnMovesBack
<1>15. ASSUME NEW f2 \in Int, Since(h2, m, f2, d), Table(h2, m, f2, d), h2.at.prev = p,
              h2.at.sweep = "Reverse", h2.at.target = Wrapped(t + -Step)
       PROVE  h2.at.sweep = "Reverse" /\ Backwards(h2, m, Dragged(h2.at.target))
  <2>1. Placed(m, Dragged(h2.at.target), h2.at.target, q2, u2, lag2)
    BY <1>9, <1>15 DEF r2
  <2>2. Behind(h2, m, q2, u2, lag2, f2, d)
    BY <1>4, <1>14, <1>15 DEF Behind, Where, p
  <2> QED BY <1>5, <1>15, <2>1, <2>2 DEF Backwards
<1>16. hall.at.prev = p => c = d
  <2>1. ASSUME hall.at.prev = p PROVE Seen(m, c) = Seen(m, d)
    BY <1>4, <1>10, <2>1 DEF p
  <2>2. -6 < c - d /\ c - d < 6
    BY <1>3, <1>4, <1>11
  <2> HIDE DEF m
  <2> QED BY <1>5, <1>12, <2>1, <2>2, SeenApart
<1>17. hall.at.prev # p => c # d
  BY <1>4, <1>10 DEF p
<1>18. CASE hall.at.prev = p
  <2>1. /\ h2.at.sweep = "Reverse" /\ h2.at.target = Wrapped(t + -Step)
        /\ h2.at.first = hall.at.first /\ h2.at.prev = p
        /\ h2.at.edges = hall.at.edges /\ h2.table = hall.table
    BY <1>8, <1>18 DEF ReverseTo
  <2>2. Since(h2, m, f, d)
    BY <1>10, <1>16, <1>18, <2>1 DEF Since
  <2>3. Table(h2, m, f, d)
    BY <1>10, <1>16, <1>18, <2>1, TableSame
  <2> QED BY <1>15, <2>1, <2>2, <2>3
<1>19. CASE hall.at.prev # p /\ hall.at.first = NoPattern
  <2>1. /\ h2.at.sweep = "Reverse" /\ h2.at.target = Wrapped(t + -Step)
        /\ h2.at.first = p /\ h2.at.prev = p
        /\ h2.at.edges = hall.at.edges /\ h2.table = hall.table
    BY <1>8, <1>19 DEF ReverseTo
  <2>2. Since(h2, m, d, d)
    BY <1>4, <1>5, <1>7, <2>1 DEF Since, p
  <2>3. d = c - 1 \/ d = c + 1
    BY <1>3, <1>4, <1>11, <1>17, <1>19
  <2>4. Table(hall, m, c, c)
    <3>1. f = c
      <4>1. Seen(m, f) # NoPattern
        <5> HIDE DEF m
        <5> QED BY <1>12, SeenIs
      <4> QED BY <1>10, <1>19, <4>1 DEF Since
    <3> QED BY <1>10, <3>1
  <2>5. Table(h2, m, d, d)
    BY <1>5, <2>1, <2>3, <2>4, TableAgain
  <2> QED BY <1>5, <1>15, <2>1, <2>2, <2>5
<1>20. CASE hall.at.prev # p /\ hall.at.first # NoPattern
  <2>1. d = q /\ c = q + 1 /\ u >= Sector - 4 /\ lag = -m.friction.reverse /\ d = c - 1
    BY <1>3, <1>4, <1>11, <1>17, <1>20
  <2>2. /\ f - 5 <= c /\ c <= f /\ hall.at.first = Seen(m, f)
        /\ hall.at.edges >= 5 \/ hall.at.edges >= f - c
    BY <1>10, <1>20 DEF Since
  <2>3. h2.table = [hall.table EXCEPT ![Seen(m, c)] = Mean(hall)]
    <3>1. Entry(hall.at.prev) = Seen(m, c)
      <4> HIDE DEF m
      <4> QED BY <1>10, <1>12, SeenIs
    <3> QED BY <1>8, <1>20, <3>1 DEF ReverseTo
  <2>4. Facing(hall, m, c)
    <3> HIDE DEF m
    <3> QED BY <1>1, <1>10, <1>12, <2>1, BackFaces
  <2>5. Table(h2, m, f, d)
    <3>1. Table(h2, m, f, c - 1)
      <4> HIDE DEF m
      <4> QED BY <1>7, <1>10, <1>12, <1>13, <1>20, <2>2, <2>3, <2>4, TablePassed
    <3> QED BY <2>1, <3>1
  <2>6. p = Seen(m, d)
    BY <1>4 DEF p
  <2>7. CASE hall.at.first = p /\ hall.at.edges >= 4
    <3>1. h2.at.sweep = "Done"
      BY <1>8, <1>20, <2>7 DEF ReverseTo
    <3>2. d = f - 6
      <4>1. Seen(m, f) = Seen(m, d)
        BY <2>2, <2>6, <2>7
      <4>2. -6 < f - d /\ f - d < 6 => f = d
        <5> HIDE DEF m
        <5> QED BY <1>5, <1>12, <4>1, SeenApart
      <4> QED BY <1>5, <2>1, <2>2, <4>2
    <3>3. AllNear(h2, m)
      <4> HIDE DEF m
      <4> QED BY <1>12, <2>5, <3>2, AllPassed
    <3> QED BY <3>1, <3>3
  <2>8. CASE ~(hall.at.first = p /\ hall.at.edges >= 4)
    <3>1. /\ h2.at.sweep = "Reverse" /\ h2.at.target = Wrapped(t + -Step)
          /\ h2.at.first = hall.at.first /\ h2.at.prev = p
          /\ h2.at.edges \in Nat /\ (h2.at.edges >= 5 \/ h2.at.edges = hall.at.edges + 1)
      BY <1>8, <1>20, <2>8 DEF ReverseTo
    <3>2. f - 5 <= d /\ d <= f
      <4>1. SUFFICES ASSUME d = f - 6 PROVE FALSE
        BY <1>5, <2>1, <2>2
      <4>2. Seen(m, d + 6) = Seen(m, d) /\ d + 6 = f
        BY <1>5, <4>1, SeenAgain
      <4>3. hall.at.edges >= 4
        BY <1>7, <2>1, <2>2, <4>1
      <4> QED BY <2>2, <2>6, <2>8, <4>2, <4>3
    <3>3. Since(h2, m, f, d)
      <4>1. h2.at.edges >= 5 \/ h2.at.edges >= f - d
        BY <1>5, <1>7, <2>1, <2>2, <3>1
      <4> QED BY <2>2, <3>1, <3>2, <4>1 DEF Since
    <3> QED BY <1>15, <2>5, <3>1, <3>3
  <2> QED BY <2>7, <2>8
<1> QED BY <1>18, <1>19, <1>20

-----------------------------------------------------------------------------
(***************************************************************************)
(* A locked rotor shows no edges but those of its own bouncing, and these  *)
(* only on the way forward: it does not come to the end.                   *)
(***************************************************************************)
StuckAt(h, m, q, u) ==
  /\ h.at.sweep = "Forward" => u <= 1 \/ (NoEdgeYet(h) /\ h.at.prev = Seen(m, q))
  /\ h.at.sweep = "Reverse" => u <= 1 /\ (h.at.first = NoPattern \/ h.at.prev = Seen(m, q))
  /\ h.at.sweep # "Done"
Stuck(h, m, r) == \E q \in Int, u \in 0 .. Sector - 1 : r = At(q, u) /\ StuckAt(h, m, q, u)

LEMMA StuckKeeps ==
  ASSUME HealthyMotor(motor), IsLocked(motor.friction), rotor \in Angles, hall \in HallStates, Stuck(hall, motor, rotor),
         NEW bounce \in BOOLEAN, NEW h2, h2 = HallStep(hall, Pattern(bounce))
  PROVE  Stuck(h2, motor, Dragged(h2.at.target))
<1> DEFINE m == motor
           p == Pattern(bounce)
<1>1. PICK q \in Int, u \in 0 .. Sector - 1 : rotor = At(q, u) /\ StuckAt(hall, m, q, u)
  BY DEF Stuck
<1>2. Sector \in Nat /\ Sector >= 8 /\ HealthyMotor(m)
  BY TurnIs
<1>3. Seen(m, q) \in Patterns /\ Seen(m, q - 1) \in Patterns /\ Seen(m, q) # NoPattern
  <2> HIDE DEF m
  <2>1. q - 1 \in Int
    OBVIOUS
  <2> QED BY <1>2, <2>1, SeenIs
<1>4. hall.at.sweep # "Reverse" => p = Seen(m, q) \/ (p = Seen(m, q - 1) /\ u <= 1)
  <2>1. SUFFICES ASSUME hall.at.sweep # "Reverse" PROVE p = Seen(m, q) \/ (p = Seen(m, q - 1) /\ u <= 1)
    OBVIOUS
  <2>2. PICK d \in {q - 1, q} : p = Seen(m, d) /\ (d = q - 1 => u <= 1)
    BY <1>1, <2>1, ForwardReads
  <2> HIDE DEF p, m
  <2> QED BY <2>2
<1>5. hall.at.sweep = "Reverse" /\ u <= 1 => p = Seen(m, q)
  <2>1. SUFFICES ASSUME hall.at.sweep = "Reverse", u <= 1 PROVE p = Seen(m, q)
    OBVIOUS
  <2>2. PICK d \in {q, q + 1} : p = Seen(m, d) /\ (d = q + 1 => u >= Sector - 2)
    BY <1>1, <2>1, ReverseReads
  <2>3. d = q
    BY <1>2, <2>1, <2>2
  <2> QED BY <2>2, <2>3
<1>6. p \in Patterns
  <2>1. hall.at.sweep = "Reverse" => u <= 1
    BY <1>1 DEF StuckAt
  <2> HIDE DEF p, m
  <2> QED BY <1>3, <1>4, <1>5, <2>1
<1>7. h2.at.target \in Angles
  BY <1>6, HallTyped, HallKinds
<1>8. Dragged(h2.at.target) = rotor
  BY <1>7, LockedStays
<1> SUFFICES StuckAt(h2, m, q, u)
  BY <1>1, <1>8 DEF Stuck
<1>9. CASE hall.at.sweep = "Settle"
  <2>1. hall = [at |-> hall.at, table |-> hall.table] /\ h2 = SettleStep(hall, p)
    BY <1>9, HallKinds DEF HallStep
  <2>2. h2.at = IF hall.at.waited + 1 >= AlignTime THEN Sweep("Forward", 0, p) ELSE Settling(hall.at.waited + 1)
    BY <2>1 DEF SettleStep
  <2> HIDE DEF p, m
  <2>3. h2.at.sweep = "Settle" \/ (h2.at.sweep = "Forward" /\ h2.at.first = NoPattern /\ h2.at.prev = p)
    BY <2>2 DEF Sweep, Settling
  <2> QED BY <1>4, <1>9, <2>3 DEF StuckAt, NoEdgeYet
<1>10. CASE hall.at.sweep = "Forward"
  <2>1. ForwardTo(hall, p, h2)
    BY <1>6, <1>10, ForwardParts
  <2> HIDE DEF p, m
  <2>2. \/ h2.at.sweep = "Forward" /\ (hall.at.prev = p => h2.at.prev = p /\ h2.at.first = hall.at.first)
        \/ h2.at.sweep = "Reverse" /\ h2.at.first = NoPattern /\ hall.at.prev # p /\ hall.at.first = p
    BY <2>1 DEF ForwardTo
  <2>3. u <= 1 \/ (NoEdgeYet(hall) /\ hall.at.prev = Seen(m, q) /\ p = Seen(m, q))
    BY <1>1, <1>4, <1>10 DEF StuckAt
  <2> QED BY <2>2, <2>3 DEF StuckAt, NoEdgeYet
<1>11. CASE hall.at.sweep = "Reverse"
  <2>1. ReverseTo(hall, p, h2)
    BY <1>6, <1>11, ReverseParts
  <2>2. u <= 1 /\ (hall.at.first = NoPattern \/ hall.at.prev = Seen(m, q))
    BY <1>1, <1>11 DEF StuckAt
  <2>3. p = Seen(m, q)
    BY <1>5, <1>11, <2>2
  <2> HIDE DEF p, m
  <2>4. h2.at.sweep = "Reverse" /\ h2.at.prev = p
    BY <2>1, <2>2, <2>3 DEF ReverseTo
  <2> QED BY <2>2, <2>3, <2>4 DEF StuckAt
<1> QED BY <1>1, <1>9, <1>10, <1>11, HallKinds DEF StuckAt

-----------------------------------------------------------------------------
(***************************************************************************)
(* The hall calibration of a motor with healthy sensors.                   *)
(***************************************************************************)
OnCourse(h, m, r) ==
  IF Moves(m.friction)
  THEN /\ h.at.sweep = "Forward" => Forwards(h, m, r)
       /\ h.at.sweep = "Reverse" => Backwards(h, m, r)
       /\ h.at.sweep = "Done" => AllNear(h, m)
  ELSE Stuck(h, m, r)

HallRight ==
  Healthy(motor.sensor) =>
    /\ phase = "HallCalibration" => OnCourse(hall, motor, rotor)
    /\ result = "HallCalibration" => AllNear(hall, motor)

LEMMA StartsOnCourse == ASSUME NEW m, NEW r \in Angles PROVE OnCourse(Started, m, r)
<1>1. Started.at.sweep = "Settle"
  BY StartedTyped
<1>2. PICK j \in Int, u \in 0 .. Sector - 1 : r = At(j, u)
  BY AngleAt
<1> QED BY <1>1, <1>2 DEF OnCourse, Stuck, StuckAt

LEMMA StaysOnCourse ==
  ASSUME WellTyped, Healthy(motor.sensor), OnCourse(hall, motor, rotor), ~HallDone(hall),
         NEW bounce \in BOOLEAN, ~Disagrees(hall, Pattern(bounce)), NEW h2, h2 = HallStep(hall, Pattern(bounce))
  PROVE  OnCourse(h2, motor, Dragged(h2.at.target))
<1>1. HealthyMotor(motor) /\ (Moves(motor.friction) \/ IsLocked(motor.friction))
  BY HealthyMotors DEF WellTyped
<1>2. rotor \in Angles /\ hall \in HallStates /\ Pattern(bounce) \in Patterns
  BY PatternTyped DEF WellTyped, BenchTyped, ControlTyped
<1>3. CASE Moves(motor.friction)
  <2>1. CASE hall.at.sweep = "Settle"
    <3>1. \/ h2.at.sweep = "Settle"
          \/ h2.at.sweep = "Forward" /\ Forwards(h2, motor, Dragged(h2.at.target))
      BY <1>1, <1>2, <2>1, SettleKeeps
    <3> QED BY <1>3, <3>1 DEF OnCourse
  <2>2. CASE hall.at.sweep = "Forward"
    <3>1. Forwards(hall, motor, rotor)
      BY <1>3, <2>2 DEF OnCourse
    <3>2. \/ h2.at.sweep = "Forward" /\ Forwards(h2, motor, Dragged(h2.at.target))
          \/ h2.at.sweep = "Reverse" /\ h2.at.first = NoPattern /\ Turned(h2, motor, Dragged(h2.at.target))
      BY <1>1, <1>2, <1>3, <2>2, <3>1, ForwardKeeps
    <3>3. h2.at.sweep = "Reverse" => Backwards(h2, motor, Dragged(h2.at.target))
      BY <3>2, TurnedBack
    <3> QED BY <1>3, <3>2, <3>3 DEF OnCourse
  <2>3. CASE hall.at.sweep = "Reverse"
    <3>1. Backwards(hall, motor, rotor)
      BY <1>3, <2>3 DEF OnCourse
    <3>2. \/ h2.at.sweep = "Reverse" /\ Backwards(h2, motor, Dragged(h2.at.target))
          \/ h2.at.sweep = "Done" /\ AllNear(h2, motor)
      BY <1>1, <1>2, <1>3, <2>3, <3>1, ReverseKeeps
    <3> QED BY <1>3, <3>2 DEF OnCourse
  <2> QED BY <1>2, <2>1, <2>2, <2>3, HallKinds DEF HallDone
<1>4. CASE ~Moves(motor.friction)
  <2>1. Stuck(hall, motor, rotor)
    BY <1>4 DEF OnCourse
  <2>2. Stuck(h2, motor, Dragged(h2.at.target))
    BY <1>1, <1>2, <1>4, <2>1, StuckKeeps
  <2> QED BY <1>4, <2>2 DEF OnCourse
<1> QED BY <1>3, <1>4

LEMMA HallTickRight == ASSUME WellTyped, HallRight, HallTick PROVE HallRight'
<1>0. phase = "HallCalibration"
  BY DEF HallTick
<1>1. CASE Reports("CalibrationTimeout", phase)
  BY <1>1 DEF Reports, Commands, HallRight
<1>2. CASE HallDone(hall) /\ Reports("HallCalibration", "WaitingHallCompletion")
  <2>1. Healthy(motor.sensor) => AllNear(hall, motor)
    BY <1>0, <1>2 DEF HallRight, OnCourse, HallDone, Stuck, StuckAt
  <2> QED BY <1>2, <2>1 DEF Reports, Commands, HallRight
<1>3. ASSUME NEW bounce \in BOOLEAN, ~HallDone(hall), ~Disagrees(hall, Pattern(bounce)), motor' = motor,
             hall' = HallStep(hall, Pattern(bounce)), rotor' = Dragged(hall'.at.target), result' = "None"
      PROVE  HallRight'
  <2>1. SUFFICES ASSUME Healthy(motor.sensor) PROVE OnCourse(hall', motor, rotor')
    BY <1>3 DEF HallRight
  <2>2. OnCourse(hall, motor, rotor)
    BY <1>0, <2>1 DEF HallRight
  <2> DEFINE h2 == hall'
  <2>3. h2 = HallStep(hall, Pattern(bounce)) /\ rotor' = Dragged(h2.at.target)
    BY <1>3
  <2> HIDE DEF h2
  <2>4. OnCourse(h2, motor, Dragged(h2.at.target))
    BY <1>3, <2>1, <2>2, <2>3, StaysOnCourse
  <2> QED BY <2>3, <2>4 DEF h2
<1>4. CASE Reports("HallEdgeDisagreement", phase)
  BY <1>4 DEF Reports, Commands, HallRight
<1> QED BY <1>1, <1>2, <1>3, <1>4 DEF HallTick, Commands

LEMMA EstimationTickRight == ASSUME WellTyped, HallRight, EstimationTick PROVE HallRight'
<1>0. phase = "MotorEstimation" /\ rotor \in Angles
  BY DEF EstimationTick, WellTyped, BenchTyped
<1>1. CASE Request = "fault"
  <2>1. est.fault \in EstimationFailures
    <3>1. est.state = "Failure"
      BY <1>1 DEF Request
    <3> QED BY <3>1, ImpliesTypeOK DEF TypeOK
  <2>2. est.fault # "HallCalibration"
    BY <2>1 DEF EstimationFailures
  <2>3. Reports(est.fault, "Done")
    BY <1>1 DEF EstimationTick
  <2> QED BY <2>2, <2>3 DEF Reports, Commands, HallRight
<1>2. CASE Request = "done"
  <2>1. Reports("MotorParameters", "Done")
    BY <1>2 DEF EstimationTick
  <2> QED BY <2>1 DEF Reports, Commands, HallRight
<1>3. CASE Request = "unwind"
  <2>1. Reports("UnwindRequest", phase)
    BY <1>3 DEF EstimationTick
  <2> QED BY <1>0, <2>1 DEF Reports, Commands, HallRight
<1>4. CASE Request = "tune"
  <2>1. Reports("TuningRequest", "WaitingTuning")
    BY <1>4 DEF EstimationTick
  <2> QED BY <2>1 DEF Reports, Commands, HallRight
<1>5. CASE Request = "hall"
  <2>1. HallRequested
    BY <1>5 DEF EstimationTick
  <2>2. result' = "None" /\ motor' = motor /\ rotor' = rotor
    BY <2>1 DEF HallRequested, Commands
  <2>3. CASE HasHall
    <3>1. hall' = Started
      BY <2>1, <2>3 DEF HallRequested
    <3>2. OnCourse(hall', motor', rotor')
      BY <1>0, <2>2, <3>1, StartsOnCourse
    <3> QED BY <2>2, <3>2 DEF HallRight
  <2>4. CASE ~HasHall
    <3>1. phase' = phase
      BY <2>1, <2>4 DEF HallRequested
    <3> QED BY <1>0, <2>2, <3>1 DEF HallRight
  <2> QED BY <2>3, <2>4
<1>6. CASE Request = "none"
  <2>1. Estimates
    BY <1>6 DEF EstimationTick
  <2>2. result' = "None" /\ phase' = phase
    BY <2>1 DEF Estimates, Commands
  <2> QED BY <1>0, <2>2 DEF HallRight
<1>7. Request \in {"fault", "done", "unwind", "tune", "hall", "none"}
  BY DEF Request
<1> QED BY <1>1, <1>2, <1>3, <1>4, <1>5, <1>6, <1>7

LEMMA NextRight == ASSUME WellTyped, HallRight, [Next]_vars PROVE HallRight'
<1>1. CASE UNCHANGED vars
  BY <1>1 DEF vars, control, bench, HallRight
<1>2. CASE StartCalibration
  BY <1>2 DEF StartCalibration, HallRight
<1>3. CASE Stop \/ FinishCalibration
  BY <1>3 DEF Stop, FinishCalibration, bench, HallRight
<1>4. CASE Resume
  <2>1. phase' = "MotorEstimation"
    BY <1>4 DEF Resume, Resumed
  <2> QED BY <1>4, <2>1 DEF Resume, HallRight
<1>5. CASE WaitingTick \/ DoneTick
  BY <1>5 DEF WaitingTick, DoneTick, Commands, WaitPhases, HallRight
<1> QED BY <1>1, <1>2, <1>3, <1>4, <1>5, HallTickRight, EstimationTickRight DEF Next, Task, Tick

\* A table that is near is accurate.
LEMMA NearIsAccurate ==
  ASSUME WellTyped, HallRight, Healthy(motor.sensor)
  PROVE  HallTableAccurate
<1> SUFFICES ASSUME result = "HallCalibration", NEW k \in 0 .. 5
             PROVE  Size(WrappedDiff(hall.table[Entry(motor.sensor[k])], EdgeOf(k))) <= Sector \div 2
  BY DEF HallTableAccurate
<1>1. HealthyMotor(motor)
  BY HealthyMotors DEF WellTyped
<1> DEFINE half == Sector \div 2
<1>2. half \in Nat /\ 2 * half <= Sector /\ Turn = 6 * Sector /\ Sector \in Nat /\ Sector >= 8
  BY TurnIs
<1> HIDE DEF half
<1>3. PICK o \in -half .. half : hall.table[Seen(motor, k)] = At(k, o)
  BY DEF HallRight, AllNear, Near, half
<1>4. k % 6 = k /\ k \in Int /\ o \in Int
  BY <1>2
<1>5. EdgeOf(k) = At(k, 0)
  <2>1. EdgeOf(k) \in Angles
    <3>1. k * Sector \in Int /\ HallOffset \in Int
      BY <1>2, AngleTyped
    <3> QED BY <3>1, AngleTyped DEF EdgeOf
  <2>2. EdgeOf(k) \in Int /\ -Turn <= EdgeOf(k) /\ EdgeOf(k) < Turn /\ EdgeOf(k) >= 0
    BY <2>1, <1>2 DEF Angles
  <2>3. Wrapped(EdgeOf(k)) = EdgeOf(k) /\ EdgeOf(k) + 0 = EdgeOf(k)
    BY <2>2, WrappedSmall
  <2> QED BY <1>4, <2>3 DEF At
<1>6. Entry(motor.sensor[k]) = Seen(motor, k)
  <2>1. Seen(motor, k) = motor.sensor[k]
    BY <1>4 DEF Seen
  <2> QED BY <1>1, <1>4, <2>1, SeenIs
<1>7. WrappedDiff(At(k, o), At(k, 0)) = o
  <2>1. -Turn < o - 0 /\ 2 * (o - 0) <= Turn /\ 2 * (o - 0) > -Turn /\ o - 0 = o /\ 0 \in Int
    BY <1>2, <1>3, <1>4
  <2>2. WrappedDiff(At(k, o), At(k, 0)) = IF 2 * (o - 0) > -Turn THEN o - 0 ELSE o - 0 + Turn
    BY <1>4, <2>1, DiffAt
  <2> QED BY <2>1, <2>2
<1>8. Size(o) <= half
  BY <1>2, <1>3, <1>4 DEF Size
<1> QED BY <1>3, <1>5, <1>6, <1>7, <1>8 DEF half

(***************************************************************************)
(* A hall calibration that is accepted is right: with healthy sensors, for *)
(* every sector length, hall offset, friction that moves or locks the      *)
(* rotor and pattern of bounces, each entry is within half a sector of its *)
(* edge.                                                                   *)
(***************************************************************************)
THEOREM HallTablesAccurate == Spec => [](Healthy(motor.sensor) => HallTableAccurate)
<1>1. Init => HallRight
  BY DEF Init, HallRight
<1>2. WellTyped /\ HallRight /\ [Next]_vars => HallRight'
  BY NextRight
<1>3. WellTyped /\ HallRight => (Healthy(motor.sensor) => HallTableAccurate)
  BY NearIsAccurate
<1> QED BY <1>1, <1>2, <1>3, AlwaysWellTyped, PTL DEF Spec
===============================================================================
