----------------------------- MODULE Drive_proofs -----------------------------
(***************************************************************************)
(* Proofs about the drive core, for every value of its constants.          *)
(***************************************************************************)
EXTENDS DriveRefinement, TLAPS

ModeOK(m) == m \in ModeOf(Causes) /\ WellFormed(m)

Reacts(s, t) ==
  /\ s.kind = "STOf" => t.kind = "STOf"
  /\ t.kind = "RampDown" => s = t
  /\ s.kind = "ASC" => t.kind # "STO"

TraceType(t) == t \in Seq(Causes) /\ Len(t) \in 1 .. TraceCapacity /\ IsInjective(t)

\* A strategy whose fields its variant does not have rest at their defaults.
Canonical(s) ==
  /\ s \in Strategies
  /\ s.should_switch.state = FALSE
  /\ s.kind \in {"RampDown", "STOf"} => s.should_switch.count = 0
  /\ s.kind # "RampDown" => s.waited = 0

LEMMA CanonicalStrategies ==
  /\ \A s \in {sto, asc, stof, ramp_down} :
       Canonical(s) /\ s.should_switch.count = 0 /\ s.waited = 0
  /\ sto.kind = "STO" /\ asc.kind = "ASC" /\ stof.kind = "STOf" /\ ramp_down.kind = "RampDown"
BY SafeStrategyAssumption
   DEF sto, asc, stof, ramp_down, Canonical, Strategies, Strategy, Kinds, DebouncedValues, DebouncedNew

LEMMA ReactionIsCanonical ==
  ASSUME NEW c PROVE Reaction(c) \in {sto, asc, stof, ramp_down}
BY DEF Reaction

LEMMA RecordedKeeps ==
  ASSUME NEW t, TraceType(t), NEW c \in Causes
  PROVE  TraceType(Recorded(t, c)) /\ IsPrefix(t, Recorded(t, c))
<1>0. t \in Seq(Causes) /\ Len(t) \in Nat /\ Len(t) >= 1 /\ Len(t) <= TraceCapacity
  BY TraceCapacityAssumption DEF TraceType
<1>1. CASE Len(t) < TraceCapacity /\ c \notin ToSet(t)
  <2> DEFINE u == Append(t, c)
  <2>1. Recorded(t, c) = u
    BY <1>1 DEF Recorded
  <2>2. u \in Seq(Causes) /\ Len(u) = Len(t) + 1 /\ DOMAIN u = 1 .. Len(t) + 1
        /\ (\A i \in 1 .. Len(t) : u[i] = t[i]) /\ u[Len(t) + 1] = c
    BY <1>0
  <2>3. Len(u) \in 1 .. TraceCapacity
    BY <1>0, <1>1, <2>2, TraceCapacityAssumption
  <2>4. \A i \in 1 .. Len(t) : t[i] # c
    BY <1>1, <1>0 DEF ToSet
  <2>5. IsInjective(u)
    <3>1. \A i, j \in 1 .. Len(t) : t[i] = t[j] => i = j
      BY <1>0 DEF TraceType, IsInjective
    <3> HIDE DEF u
    <3> QED BY <1>0, <2>2, <2>4, <3>1 DEF IsInjective
  <2>6. IsPrefix(t, u)
    <3>1. Len(t) <= Len(u) /\ SubSeq(t, 1, Len(t)) = SubSeq(u, 1, Len(t))
      BY <1>0, <2>2
    <3> QED BY <3>1 DEF IsPrefix
  <2> QED BY <2>1, <2>2, <2>3, <2>5, <2>6 DEF TraceType
<1>2. CASE ~(Len(t) < TraceCapacity /\ c \notin ToSet(t))
  <2>1. Recorded(t, c) = t
    BY <1>2 DEF Recorded
  <2> QED BY <2>1, <1>0 DEF IsPrefix
<1> QED BY <1>1, <1>2

LEMMA ModeFields ==
  ASSUME NEW m, ModeOK(m)
  PROVE  /\ m.tag \in Tags /\ Canonical(m.strategy) /\ m.phase \in Phases
         /\ m.tag = "Fault" => TraceType(m.trace)
BY DEF ModeOK, ModeOf, WellFormed, Canonical, TraceOK, TraceType

LEMMA FaultedIsOK ==
  ASSUME NEW s, Canonical(s), NEW t, TraceType(t)
  PROVE  /\ ModeOK(Faulted(s, t))
         /\ Faulted(s, t).tag = "Fault" /\ Faulted(s, t).strategy = s /\ Faulted(s, t).trace = t
BY DEF Canonical, ModeOK, ModeOf, Faulted, Mode, Tags, Phases, WellFormed, Safe, TraceOK, TraceType

LEMMA IdleIsOK ==
  ASSUME NEW s, Canonical(s), s.kind # "STOf"
  PROVE  ModeOK(Idle(s)) /\ Idle(s).tag = "Idle" /\ Idle(s).strategy = s
<1>1. <<>> \in Seq(Causes)
  OBVIOUS
<1> QED BY <1>1 DEF Canonical, ModeOK, ModeOf, Idle, Mode, Tags, Phases, WellFormed, Safe, TraceOK

LEMMA ArmedIsOK ==
  /\ \A tag \in {"SaliencyPolarityTest", "TorqueControl"} :
       ModeOK(Mode(tag)) /\ Mode(tag).tag = tag
  /\ \A phase \in Phases : ModeOK(Calibrating(phase)) /\ Calibrating(phase).tag = "Calibration"
<1>1. <<>> \in Seq(Causes)
  OBVIOUS
<1>2. Canonical(sto) /\ sto.kind = "STO" /\ sto.should_switch.count = 0
  BY CanonicalStrategies
<1>3. ASSUME NEW tag \in {"SaliencyPolarityTest", "TorqueControl"}
      PROVE  ModeOK(Mode(tag)) /\ Mode(tag).tag = tag
  BY <1>1, <1>2 DEF Canonical, ModeOK, ModeOf, Mode, Tags, Phases, WellFormed, Safe, TraceOK
<1>4. ASSUME NEW phase \in Phases
      PROVE  ModeOK(Calibrating(phase)) /\ Calibrating(phase).tag = "Calibration"
  BY <1>1, <1>2 DEF Canonical, ModeOK, ModeOf, Calibrating, Mode, Tags, WellFormed, Safe, TraceOK
<1> QED BY <1>3, <1>4

LEMMA FaultEvolveReacts ==
  ASSUME NEW s, Canonical(s), NEW n \in {sto, asc, stof, ramp_down}
  PROVE  Canonical(FaultEvolve(s, n)) /\ Reacts(s, FaultEvolve(s, n))
<1>1. s.kind \in Kinds
  BY DEF Canonical, Strategies
<1>2. FaultEvolve(s, n) \in {s, sto, asc, stof, ramp_down}
  BY DEF FaultEvolve
<1>3. Reacts(s, FaultEvolve(s, n))
  BY <1>1, CanonicalStrategies DEF Canonical, Reacts, FaultEvolve, Kinds
<1> QED BY <1>2, <1>3, CanonicalStrategies

LEMMA AssertFaultEscalates ==
  ASSUME NEW m, ModeOK(m), NEW c \in Causes
  PROVE  /\ ModeOK(AssertFault(m, c)) /\ AssertFault(m, c).tag = "Fault"
         /\ m.tag = "Fault" => /\ IsPrefix(m.trace, AssertFault(m, c).trace)
                              /\ Reacts(m.strategy, AssertFault(m, c).strategy)
<1>1. Reaction(c) \in {sto, asc, stof, ramp_down}
  BY ReactionIsCanonical
<1>2. CASE m.tag = "Fault"
  <2> DEFINE s == FaultEvolve(m.strategy, Reaction(c))
             t == Recorded(m.trace, c)
  <2>1. TraceType(m.trace) /\ Canonical(m.strategy)
    BY <1>2, ModeFields
  <2>2. TraceType(t) /\ IsPrefix(m.trace, t)
    BY <2>1, RecordedKeeps
  <2>3. Canonical(s) /\ Reacts(m.strategy, s)
    BY <2>1, <1>1, FaultEvolveReacts
  <2>4. AssertFault(m, c) = Faulted(s, t)
    BY <1>2 DEF AssertFault
  <2> QED BY <2>2, <2>3, <2>4, FaultedIsOK
<1>3. CASE m.tag # "Fault"
  <2>1. TraceType(<<c>>)
    BY TraceCapacityAssumption DEF TraceType, IsInjective
  <2>2. Canonical(Reaction(c))
    BY <1>1, CanonicalStrategies
  <2>3. AssertFault(m, c) = Faulted(Reaction(c), <<c>>)
    BY <1>3 DEF AssertFault
  <2> QED BY <1>3, <2>1, <2>2, <2>3, FaultedIsOK
<1> QED BY <1>2, <1>3

-----------------------------------------------------------------------------
(***************************************************************************)
(* What the checks of an interrupt may do to the mode, taken together: the *)
(* drive stays in its mode, goes from the polarity test to torque control, *)
(* or faults; an idle strategy is left alone, and the trace and reaction   *)
(* of an earlier fault only escalate.                                      *)
(***************************************************************************)
Armed == {"SaliencyPolarityTest", "TorqueControl"}

Escalates(m, n) ==
  /\ ModeOK(n)
  /\ \/ n.tag \in {m.tag, "Fault"}
     \/ m.tag = "SaliencyPolarityTest" /\ n.tag = "TorqueControl"
  /\ n.tag = "Idle" => n.strategy = m.strategy
  /\ m.tag = "Fault" => IsPrefix(m.trace, n.trace) /\ Reacts(m.strategy, n.strategy)
  /\ m.tag # "Fault" /\ n.tag = "Fault" => n.strategy.waited = 0

LEMMA PrefixReflexive ==
  ASSUME NEW s \in Seq(Causes) PROVE IsPrefix(s, s)
BY DEF IsPrefix

LEMMA PrefixTransitive ==
  ASSUME NEW s \in Seq(Causes), NEW t \in Seq(Causes), NEW u \in Seq(Causes),
         IsPrefix(s, t), IsPrefix(t, u)
  PROVE  IsPrefix(s, u)
<1>1. Len(s) <= Len(t) /\ Len(t) <= Len(u) /\ Len(s) \in Nat /\ Len(t) \in Nat /\ Len(u) \in Nat
  BY DEF IsPrefix
<1>2. \A i \in 1 .. Len(s) : s[i] = t[i]
  <2>1. ASSUME NEW i \in 1 .. Len(s) PROVE s[i] = t[i]
    <3>1. SubSeq(s, 1, Len(s))[i] = s[i] /\ SubSeq(t, 1, Len(s))[i] = t[i]
      BY <1>1
    <3> QED BY <3>1 DEF IsPrefix
  <2> QED BY <2>1
<1>3. \A i \in 1 .. Len(t) : t[i] = u[i]
  <2>1. ASSUME NEW i \in 1 .. Len(t) PROVE t[i] = u[i]
    <3>1. SubSeq(t, 1, Len(t))[i] = t[i] /\ SubSeq(u, 1, Len(t))[i] = u[i]
      BY <1>1
    <3> QED BY <3>1 DEF IsPrefix
  <2> QED BY <2>1
<1>4. \A i \in 1 .. Len(s) : s[i] = u[i]
  BY <1>1, <1>2, <1>3
<1>5. SubSeq(s, 1, Len(s)) = SubSeq(u, 1, Len(s))
  BY <1>1, <1>4
<1> QED BY <1>1, <1>5 DEF IsPrefix

LEMMA EscalatesReflexive ==
  ASSUME NEW m, ModeOK(m) PROVE Escalates(m, m)
BY PrefixReflexive, ModeFields DEF Escalates, Reacts, TraceType

LEMMA EscalatesTransitive ==
  ASSUME NEW m, ModeOK(m), NEW n, Escalates(m, n), NEW k, Escalates(n, k)
  PROVE  Escalates(m, k)
<1>1. ModeOK(n) /\ ModeOK(k)
  BY DEF Escalates
<1>2. CASE m.tag = "Fault"
  <2>1. n.tag = "Fault" /\ k.tag = "Fault"
    BY <1>2 DEF Escalates
  <2>2. m.trace \in Seq(Causes) /\ n.trace \in Seq(Causes) /\ k.trace \in Seq(Causes)
    BY <1>1, <1>2, <2>1, ModeFields DEF TraceType
  <2>3. IsPrefix(m.trace, k.trace)
    BY <1>2, <2>1, <2>2, PrefixTransitive DEF Escalates
  <2>4. Reacts(m.strategy, k.strategy)
    <3>1. Reacts(m.strategy, n.strategy) /\ Reacts(n.strategy, k.strategy)
      BY <1>2, <2>1 DEF Escalates
    <3>2. n.strategy.kind \in Kinds
      BY <1>1, ModeFields DEF Canonical, Strategies
    <3> QED BY <3>1, <3>2 DEF Reacts, Kinds
  <2> QED BY <1>1, <1>2, <2>1, <2>3, <2>4 DEF Escalates
<1>3. CASE m.tag # "Fault"
  <2>1. k.tag = "Fault" => k.strategy.waited = 0
    <3>1. CASE n.tag = "Fault"
      <4>1. n.strategy.waited = 0 /\ Reacts(n.strategy, k.strategy)
        BY <1>3, <3>1 DEF Escalates
      <4>2. k.strategy.kind # "RampDown" => k.strategy.waited = 0
        BY <1>1, ModeFields DEF Canonical
      <4> QED BY <4>1, <4>2 DEF Reacts
    <3>2. CASE n.tag # "Fault"
      BY <3>2 DEF Escalates
    <3> QED BY <3>1, <3>2
  <2> QED BY <1>1, <1>3, <2>1 DEF Escalates
<1> QED BY <1>2, <1>3

LEMMA AssertFaultWaited ==
  ASSUME NEW m, ModeOK(m), m.tag # "Fault", NEW c \in Causes
  PROVE  AssertFault(m, c).strategy.waited = 0
<1>1. AssertFault(m, c).strategy = Reaction(c)
  BY DEF AssertFault, Faulted, Mode
<1> QED BY <1>1, ReactionIsCanonical, CanonicalStrategies

LEMMA AssertFaultIfEscalates ==
  ASSUME NEW m, ModeOK(m), NEW condition, NEW c, condition => c \in Causes
  PROVE  /\ ModeOK(AssertFaultIf(m, condition, c))
         /\ Escalates(m, AssertFaultIf(m, condition, c))
         /\ condition => AssertFaultIf(m, condition, c).tag = "Fault"
<1>1. CASE condition
  <2>1. AssertFaultIf(m, condition, c) = AssertFault(m, c)
    BY <1>1 DEF AssertFaultIf
  <2> QED BY <1>1, <2>1, AssertFaultEscalates, AssertFaultWaited DEF Escalates
<1>2. CASE ~condition
  <2>1. AssertFaultIf(m, condition, c) = m
    BY <1>2 DEF AssertFaultIf
  <2> QED BY <1>2, <2>1, EscalatesReflexive
<1> QED BY <1>1, <1>2

-----------------------------------------------------------------------------
(***************************************************************************)
(* The stages of foc_step, one lemma each: every check escalates, and says *)
(* what the mode it leaves can no longer be.                               *)
(***************************************************************************)
LEMMA DiagnosedEscalates ==
  ASSUME NEW m, ModeOK(m)
  PROVE  /\ Escalates(m, Diagnosed(m))
         /\ WatchdogReported \/ "overcurrent" \in deferred \/ "braking" \in deferred
              => Diagnosed(m).tag = "Fault"
<1> DEFINE m1 == AssertFaultIf(m, WatchdogReported, "RealtimeViolated")
           m2 == AssertFaultIf(m1, "overcurrent" \in deferred, "Overcurrent")
           m3 == AssertFaultIf(m2, "braking" \in deferred, "RegenLimitExceeded")
<1>1. {"RealtimeViolated", "Overcurrent", "RegenLimitExceeded"} \subseteq Causes
  BY DEF Causes, OwnCauses
<1>2. ModeOK(m1) /\ Escalates(m, m1) /\ (WatchdogReported => m1.tag = "Fault")
  BY <1>1, AssertFaultIfEscalates
<1>3. ModeOK(m2) /\ Escalates(m1, m2) /\ ("overcurrent" \in deferred => m2.tag = "Fault")
  BY <1>1, <1>2, AssertFaultIfEscalates
<1>4. ModeOK(m3) /\ Escalates(m2, m3) /\ ("braking" \in deferred => m3.tag = "Fault")
  BY <1>1, <1>3, AssertFaultIfEscalates
<1>5. Diagnosed(m) = m3
  BY DEF Diagnosed
<1>6. Escalates(m, m3)
  BY <1>2, <1>3, <1>4, EscalatesTransitive
<1>7. (m1.tag = "Fault" => m2.tag = "Fault") /\ (m2.tag = "Fault" => m3.tag = "Fault")
  BY <1>3, <1>4 DEF Escalates
<1> HIDE DEF m1, m2, m3
<1> QED BY <1>2, <1>3, <1>4, <1>5, <1>6, <1>7

LEMMA EnableTorqueControlEscalates ==
  ASSUME NEW m, ModeOK(m), m.tag = "SaliencyPolarityTest"
  PROVE  Escalates(m, EnableTorqueControl(m)) /\ EnableTorqueControl(m).tag = "TorqueControl"
<1>1. EnableTorqueControl(m) = Mode("TorqueControl")
  BY DEF EnableTorqueControl
<1> QED BY <1>1, ArmedIsOK DEF Escalates

LEMMA PolarityTestedEscalates ==
  ASSUME NEW m, ModeOK(m)
  PROVE  Escalates(m, PolarityTested(m))
<1>1. CASE m.tag # "SaliencyPolarityTest" \/ TestOngoing(m)
  BY <1>1, EscalatesReflexive DEF PolarityTested
<1>2. CASE m.tag = "SaliencyPolarityTest" /\ ~TestOngoing(m) /\ polarity = "failed"
  <2>1. "SensorlessPolarityTestFault" \in Causes
    BY DEF Causes, OwnCauses
  <2>2. PolarityTested(m) = AssertFault(m, "SensorlessPolarityTestFault")
    BY <1>2 DEF PolarityTested
  <2> QED BY <1>2, <2>1, <2>2, AssertFaultEscalates, AssertFaultWaited DEF Escalates
<1>3. CASE m.tag = "SaliencyPolarityTest" /\ ~TestOngoing(m) /\ polarity # "failed"
  <2>1. PolarityTested(m) = EnableTorqueControl(m)
    BY <1>3 DEF PolarityTested
  <2> QED BY <1>3, <2>1, EnableTorqueControlEscalates
<1> QED BY <1>1, <1>2, <1>3

LEMMA SetpointCheckedEscalates ==
  ASSUME NEW m, ModeOK(m), NEW age
  PROVE  /\ Escalates(m, SetpointChecked(m, age))
         /\ SetpointChecked(m, age).tag \in Armed => age # SetpointTimeoutTicks
<1> DEFINE stale == m.tag \in Armed /\ age = SetpointTimeoutTicks
           n == AssertFaultIf(m, stale, "SetpointTimeout")
<1>1. "SetpointTimeout" \in Causes
  BY DEF Causes, OwnCauses
<1>2. Escalates(m, n) /\ (stale => n.tag = "Fault") /\ (~stale => n = m)
  BY <1>1, AssertFaultIfEscalates DEF AssertFaultIf
<1>3. SetpointChecked(m, age) = n
  BY DEF SetpointChecked, Armed
<1> HIDE DEF n
<1> QED BY <1>2, <1>3 DEF Armed

LEMMA FeedbackCheckedEscalates ==
  ASSUME NEW m, ModeOK(m), NEW feedback
  PROVE  /\ Escalates(m, FeedbackChecked(m, feedback))
         /\ FeedbackChecked(m, feedback).tag \in Armed => feedback # "none"
<1> DEFINE lost == feedback = "none" /\ ~FeedbackOptional(m)
           n == AssertFaultIf(m, lost, "InvalidRotorFeedback")
<1>1. "InvalidRotorFeedback" \in Causes
  BY DEF Causes, OwnCauses
<1>2. Escalates(m, n) /\ (lost => n.tag = "Fault") /\ (~lost => n = m)
  BY <1>1, AssertFaultIfEscalates DEF AssertFaultIf
<1>3. FeedbackChecked(m, feedback) = n
  BY DEF FeedbackChecked
<1>4. m.tag \in Armed => ~FeedbackOptional(m)
  BY DEF Armed, FeedbackOptional
<1> HIDE DEF n
<1> QED BY <1>2, <1>3, <1>4 DEF Armed

LEMMA PreparedEscalates ==
  ASSUME ModeOK(mode), NEW saliency, NEW age
  PROVE  LET prepared == Prepared(mode, saliency, age)
         IN  /\ Escalates(mode, prepared)
             /\ prepared.tag \in Armed =>
                  age # SetpointTimeoutTicks /\ FeedbackUsed(Diagnosed(mode), saliency) # "none"
<1> DEFINE feedback == FeedbackUsed(Diagnosed(mode), saliency)
           d == Diagnosed(mode)
           p == PolarityTested(d)
           s == SetpointChecked(p, age)
           f == FeedbackChecked(s, feedback)
<1>1. Escalates(mode, d) /\ ModeOK(d)
  BY DiagnosedEscalates DEF Escalates
<1>2. Escalates(d, p) /\ ModeOK(p)
  BY <1>1, PolarityTestedEscalates DEF Escalates
<1>3. Escalates(p, s) /\ ModeOK(s) /\ (s.tag \in Armed => age # SetpointTimeoutTicks)
  BY <1>2, SetpointCheckedEscalates DEF Escalates
<1>4. Escalates(s, f) /\ (f.tag \in Armed => feedback # "none")
  BY <1>3, FeedbackCheckedEscalates
<1>5. Escalates(mode, f)
  BY <1>1, <1>2, <1>3, <1>4, EscalatesTransitive
<1>6. f.tag \in Armed => s.tag \in Armed
  BY <1>4 DEF Escalates, Armed
<1>7. Prepared(mode, saliency, age) = f
  BY DEF Prepared
<1> HIDE DEF f, s, feedback
<1> QED BY <1>3, <1>4, <1>5, <1>6, <1>7 DEF feedback

LEMMA StepsOutcome ==
  ASSUME NEW m, ModeOK(m), NEW step \in Steps(m)
  PROVE  /\ step.phase \in Phases
         /\ step.result \in CalibrationFailures => step.result \in Causes
         /\ m.tag # "Calibration" => step.phase = m.phase
<1>1. m.phase \in Phases
  BY ModeFields
<1>2. CASE m.tag = "Calibration" /\ GateActive(m)
  <2>1. step \in CalibrationStep(m.phase, StageCauses)
    BY <1>2 DEF Steps
  <2>2. step.phase \in Phases /\ (step.result \in CalibrationFailures => step.result \in StageCauses)
    BY <1>1, <2>1 DEF CalibrationStep, Outcome, Phases, CalibrationFailures, HallFailures, EstimationFailures
  <2> QED BY <1>2, <2>2 DEF Causes
<1>3. CASE ~(m.tag = "Calibration" /\ GateActive(m))
  BY <1>1, <1>3 DEF Steps, Outcome, CalibrationFailures, HallFailures, EstimationFailures
<1> QED BY <1>2, <1>3

LEMMA CalibrationSteppedEscalates ==
  ASSUME NEW m, ModeOK(m), NEW step \in Steps(m)
  PROVE  Escalates(m, CalibrationStepped(m, step))
<1> DEFINE n == [m EXCEPT !.phase = step.phase]
           failed == step.result \in CalibrationFailures
<1>1. m \in ModeOf(Causes)
  BY DEF ModeOK
<1>2. ModeOK(n) /\ n.tag = m.tag /\ n.strategy = m.strategy /\ n.trace = m.trace
  BY <1>1, StepsOutcome DEF ModeOK, ModeOf, WellFormed, Safe, TraceOK
<1>3. Escalates(m, n)
  BY <1>2, EscalatesReflexive DEF Escalates
<1>4. Escalates(n, AssertFaultIf(n, failed, step.result))
  BY <1>2, StepsOutcome, AssertFaultIfEscalates
<1>5. CalibrationStepped(m, step) = AssertFaultIf(n, failed, step.result)
  BY DEF CalibrationStepped
<1> QED BY <1>3, <1>4, <1>5, EscalatesTransitive

LEMMA OverspeedCheckedEscalates ==
  ASSUME NEW m, ModeOK(m), NEW feedback
  PROVE  Escalates(m, OverspeedChecked(m, feedback))
<1>1. "Overspeed" \in Causes
  BY DEF Causes, OwnCauses
<1> QED BY <1>1, AssertFaultIfEscalates DEF OverspeedChecked

-----------------------------------------------------------------------------
(***************************************************************************)
(* The tick of the safe strategy: STOf stays and comes from nothing else,  *)
(* a ramp-down only goes on, ASC is released on a low bus only.            *)
(***************************************************************************)
StrategyTicks(s, t, bus) ==
  /\ Canonical(t)
  /\ s.kind = "STOf" <=> t.kind = "STOf"
  /\ t.kind = "RampDown" => s.kind = "RampDown" /\ t.waited = s.waited + 1
  /\ s.kind = "ASC" /\ t.kind = "STO" => bus \in {"under", "ordinary"}

LEMMA SwitchWhenOutcome ==
  ASSUME NEW s, Canonical(s), s.kind \in {"STO", "ASC"}, NEW condition \in BOOLEAN, NEW next
  PROVE  LET t == SwitchWhen(s, condition, next)
         IN  \/ t = next /\ condition
             \/ Canonical(t) /\ t.kind = s.kind
<1> DEFINE d == DebouncedUpdate(s.should_switch, condition, SwitchDebounceTicks)
<1>1. /\ s \in [kind : Kinds, waited : 0 .. RampDownTicks - 1,
                should_switch : [state : BOOLEAN, count : 0 .. SwitchDebounceTicks - 1]]
      /\ s.should_switch.state = FALSE
  BY DEF Canonical, Strategies, DebouncedValues
<1>2. \/ d.state = TRUE /\ condition
      \/ d.state = FALSE /\ d \in [state : BOOLEAN, count : 0 .. SwitchDebounceTicks - 1]
  BY <1>1, SafeStrategyAssumption DEF DebouncedUpdate, DebouncedNew
<1>3. SwitchWhen(s, condition, next) = IF d.state THEN next ELSE [s EXCEPT !.should_switch = d]
  BY DEF SwitchWhen
<1> HIDE DEF d
<1>4. CASE d.state = TRUE
  BY <1>2, <1>3, <1>4
<1>5. CASE d.state = FALSE
  BY <1>1, <1>2, <1>3, <1>5 DEF Canonical, Strategies, DebouncedValues
<1> QED BY <1>2, <1>4, <1>5

LEMMA StrategyTickOutcome ==
  ASSUME NEW s, Canonical(s), NEW bus, NEW emf, NEW valid
  PROVE  StrategyTicks(s, StrategyTick(s, bus, emf, valid), bus)
<1> DEFINE t == StrategyTick(s, bus, emf, valid)
<1>1. s.kind \in Kinds /\ s.waited \in 0 .. RampDownTicks - 1
  BY DEF Canonical, Strategies
<1>2. CASE s.kind = "RampDown" /\ s.waited + 1 >= RampDownTicks
  <2>1. t \in {asc, sto}
    BY <1>2 DEF StrategyTick
  <2> QED BY <1>2, <2>1, CanonicalStrategies DEF StrategyTicks
<1>3. CASE s.kind = "RampDown" /\ ~(s.waited + 1 >= RampDownTicks)
  <2>1. t = [s EXCEPT !.waited = s.waited + 1]
    BY <1>3 DEF StrategyTick
  <2>2. s.waited + 1 \in 0 .. RampDownTicks - 1
    BY <1>1, <1>3, SafeStrategyAssumption
  <2>3. Canonical(t) /\ t.kind = "RampDown" /\ t.waited = s.waited + 1
    BY <1>3, <2>1, <2>2 DEF Canonical, Strategies
  <2> QED BY <1>3, <2>3 DEF StrategyTicks
<1>4. CASE s.kind = "STO"
  <2>1. t = SwitchWhen(s, AscNeeded(bus, emf, valid), asc)
    BY <1>4 DEF StrategyTick
  <2>2. AscNeeded(bus, emf, valid) \in BOOLEAN
    BY DEF AscNeeded
  <2>3. t = asc \/ (Canonical(t) /\ t.kind = "STO")
    BY <1>4, <2>1, <2>2, SwitchWhenOutcome
  <2> QED BY <1>4, <2>3, CanonicalStrategies DEF StrategyTicks
<1>5. CASE s.kind = "ASC"
  <2>1. t = SwitchWhen(s, AscReleasable(bus, emf, valid), sto)
    BY <1>5 DEF StrategyTick
  <2>2. AscReleasable(bus, emf, valid) \in BOOLEAN
    BY DEF AscReleasable
  <2>3. (t = sto /\ AscReleasable(bus, emf, valid)) \/ (Canonical(t) /\ t.kind = "ASC")
    BY <1>5, <2>1, <2>2, SwitchWhenOutcome
  <2> QED BY <1>5, <2>3, CanonicalStrategies DEF StrategyTicks, AscReleasable
<1>6. CASE s.kind = "STOf"
  BY <1>6 DEF StrategyTick, StrategyTicks
<1> QED BY <1>1, <1>2, <1>3, <1>4, <1>5, <1>6 DEF Kinds

\* The tick of the safe strategy, seen on the mode.
Ticks(m, n) ==
  /\ ModeOK(n) /\ n.tag = m.tag /\ n.trace = m.trace
  /\ ~Safe(m) => n = m
  /\ Safe(m) => StrategyTicks(m.strategy, n.strategy, dc_bus_v)

LEMMA SafetyTickedTicks ==
  ASSUME NEW m, ModeOK(m), NEW emf, NEW feedback
  PROVE  Ticks(m, SafetyTicked(m, emf, feedback))
<1> DEFINE t == StrategyTick(m.strategy, dc_bus_v, emf, feedback # "none")
<1>1. CASE Safe(m)
  <2>1. StrategyTicks(m.strategy, t, dc_bus_v)
    BY ModeFields, StrategyTickOutcome
  <2>2. SafetyTicked(m, emf, feedback) = [m EXCEPT !.strategy = t]
    BY <1>1 DEF SafetyTicked, UsesSafetyCommand, Safe
  <2> HIDE DEF t
  <2>3. m \in ModeOf(Causes) /\ t \in Strategies
    BY <2>1 DEF ModeOK, StrategyTicks, Canonical
  <2>4. ModeOK([m EXCEPT !.strategy = t])
    BY <1>1, <2>1, <2>3 DEF ModeOK, ModeOf, WellFormed, Safe, TraceOK, StrategyTicks, Canonical
  <2> QED BY <1>1, <2>1, <2>2, <2>3, <2>4 DEF Ticks, ModeOf
<1>2. CASE ~Safe(m)
  BY <1>2 DEF SafetyTicked, UsesSafetyCommand, Safe, Ticks
<1> QED BY <1>1, <1>2

-----------------------------------------------------------------------------
(***************************************************************************)
(* All checks of one FOC tick taken together: n is the mode that the       *)
(* output of the tick is computed in, "feedback" the rotor feedback used   *)
(* and "tasks" the tasks spawned.                                          *)
(***************************************************************************)
Flagged == WatchdogReported \/ "overcurrent" \in deferred \/ "braking" \in deferred

Checked(age, feedback, tasks, n) ==
  /\ Escalates(mode, n)
  /\ n.tag \in Armed => age # SetpointTimeoutTicks /\ feedback # "none"
  /\ Flagged => n.tag = "Fault"
  /\ n.tag = "TorqueControl" =>
       \/ mode.tag = "TorqueControl" /\ feedback = rotor
       \/ polarity = "found"
       \/ Seeded
  /\ n.tag = "Calibration" =>
       /\ mode.tag = "Calibration"
       /\ n.phase \in WaitPhases => n.phase = mode.phase \/ AwaitedTask(n.phase) \in tasks

LEMMA AssertFaultIfKeeps ==
  ASSUME NEW m, NEW condition, NEW c, AssertFaultIf(m, condition, c).tag # "Fault"
  PROVE  AssertFaultIf(m, condition, c) = m /\ ~condition
BY DEF AssertFaultIf, AssertFault, Faulted, Mode

LEMMA FaultStays ==
  ASSUME NEW m, NEW condition, NEW c, m.tag = "Fault"
  PROVE  AssertFaultIf(m, condition, c).tag = "Fault"
BY DEF AssertFaultIf, AssertFault, Faulted, Mode

LEMMA PreparedUnfaulted ==
  ASSUME NEW saliency, NEW age, Prepared(mode, saliency, age).tag # "Fault"
  PROVE  /\ Diagnosed(mode) = mode
         /\ Prepared(mode, saliency, age) = PolarityTested(mode)
<1> DEFINE d == Diagnosed(mode)
           p == PolarityTested(d)
           s == SetpointChecked(p, age)
<1>1. Prepared(mode, saliency, age) = s /\ s.tag # "Fault"
  BY AssertFaultIfKeeps DEF Prepared, FeedbackChecked
<1>2. s = p /\ p.tag # "Fault"
  BY <1>1, AssertFaultIfKeeps DEF SetpointChecked
<1>3. d.tag # "Fault"
  BY <1>2 DEF PolarityTested
<1>4. d = mode
  <2> DEFINE m1 == AssertFaultIf(mode, WatchdogReported, "RealtimeViolated")
             m2 == AssertFaultIf(m1, "overcurrent" \in deferred, "Overcurrent")
  <2>1. d = AssertFaultIf(m2, "braking" \in deferred, "RegenLimitExceeded")
    BY DEF Diagnosed
  <2>2. d = m2 /\ m2.tag # "Fault"
    BY <1>3, <2>1, AssertFaultIfKeeps
  <2>3. m2 = m1 /\ m1.tag # "Fault"
    BY <2>2, AssertFaultIfKeeps
  <2>4. m1 = mode
    BY <2>3, AssertFaultIfKeeps
  <2> QED BY <2>2, <2>3, <2>4
<1> QED BY <1>1, <1>2, <1>4

LEMMA PreparedChecked ==
  ASSUME ModeOK(mode), polarity \in Verdicts, NEW saliency, NEW age
  PROVE  Checked(age, FeedbackUsed(Diagnosed(mode), saliency), {}, Prepared(mode, saliency, age))
<1> DEFINE n == Prepared(mode, saliency, age)
           feedback == FeedbackUsed(Diagnosed(mode), saliency)
<1>1. Escalates(mode, n) /\ (n.tag \in Armed => age # SetpointTimeoutTicks /\ feedback # "none")
  BY PreparedEscalates
<1>2. n.tag # "Fault" => Diagnosed(mode) = mode /\ n = PolarityTested(mode)
  BY PreparedUnfaulted
<1>3. Flagged => n.tag = "Fault"
  <2>1. Flagged => Diagnosed(mode).tag = "Fault"
    BY DiagnosedEscalates DEF Flagged
  <2>2. PolarityTested(mode) = mode \/ mode.tag = "SaliencyPolarityTest"
    BY DEF PolarityTested
  <2> QED BY <1>2, <2>1, <2>2
<1>4. n.tag = "TorqueControl" =>
        (mode.tag = "TorqueControl" /\ feedback = rotor) \/ polarity = "found" \/ Seeded
  <2>1. SUFFICES ASSUME n.tag = "TorqueControl"
                 PROVE (mode.tag = "TorqueControl" /\ feedback = rotor) \/ polarity = "found" \/ Seeded
    OBVIOUS
  <2>2. Diagnosed(mode) = mode /\ PolarityTested(mode).tag = "TorqueControl"
    BY <1>2, <2>1
  <2>3. CASE mode.tag = "TorqueControl"
    BY <2>2, <2>3 DEF FeedbackUsed, TestOngoing
  <2>4. CASE mode.tag # "TorqueControl"
    <3>1. mode.tag = "SaliencyPolarityTest" /\ ~TestOngoing(mode)
      BY <2>2, <2>4 DEF PolarityTested
    <3>2. polarity # "failed"
      BY <2>2, <3>1 DEF PolarityTested, AssertFault, Faulted, Mode
    <3> QED BY <2>2, <3>1, <3>2 DEF TestOngoing, Seeded, Verdicts
  <2> QED BY <2>3, <2>4
<1>5. n.tag = "Calibration" => mode.tag = "Calibration" /\ n.phase = mode.phase
  <2>1. SUFFICES ASSUME n.tag = "Calibration" PROVE mode.tag = "Calibration" /\ n.phase = mode.phase
    OBVIOUS
  <2>2. PolarityTested(mode) = mode
    <3>1. PolarityTested(mode).tag = "Calibration"
      BY <1>2, <2>1
    <3>2. AssertFault(mode, "SensorlessPolarityTestFault").tag = "Fault"
      BY DEF AssertFault, Faulted, Mode
    <3>3. mode.tag = "SaliencyPolarityTest" => EnableTorqueControl(mode).tag = "TorqueControl"
      BY EnableTorqueControlEscalates
    <3> QED BY <3>1, <3>2, <3>3 DEF PolarityTested
  <2> QED BY <1>2, <2>1, <2>2
<1> HIDE DEF n, feedback
<1>6. Checked(age, feedback, {}, n)
  BY <1>1, <1>3, <1>4, <1>5 DEF Checked
<1> QED BY <1>6 DEF n, feedback

LEMMA SteppedChecked ==
  ASSUME ModeOK(mode), NEW age, NEW feedback,
         NEW p, Checked(age, feedback, {}, p), NEW step \in Steps(p)
  PROVE  Checked(age, feedback, TasksFor(step.result),
                 OverspeedChecked(CalibrationStepped(p, step), feedback))
<1> DEFINE c == CalibrationStepped(p, step)
           n == OverspeedChecked(c, feedback)
<1>1. ModeOK(p) /\ Escalates(mode, p)
  BY DEF Checked, Escalates
<1>2. Escalates(p, c) /\ ModeOK(c)
  BY <1>1, CalibrationSteppedEscalates DEF Escalates
<1>3. Escalates(c, n)
  BY <1>2, OverspeedCheckedEscalates
<1>4. Escalates(mode, n)
  BY <1>1, <1>2, <1>3, EscalatesTransitive
<1>5. n.tag # "Fault" => n = [p EXCEPT !.phase = step.phase]
  BY AssertFaultIfKeeps DEF OverspeedChecked, CalibrationStepped
<1>6. p \in ModeOf(Causes)
  BY <1>1 DEF ModeOK
<1>7. n.tag # "Fault" => n.tag = p.tag /\ n.phase = step.phase
  BY <1>5, <1>6 DEF ModeOf
<1>8. n.tag = "Calibration" =>
        /\ mode.tag = "Calibration"
        /\ n.phase \in WaitPhases => n.phase = mode.phase \/ AwaitedTask(n.phase) \in TasksFor(step.result)
  <2>1. SUFFICES ASSUME n.tag = "Calibration", n.phase \in WaitPhases
                 PROVE  n.phase = mode.phase \/ AwaitedTask(n.phase) \in TasksFor(step.result)
    BY <1>4 DEF Escalates
  <2>2. p.tag = "Calibration" /\ n.phase = step.phase
    BY <1>7, <2>1
  <2>3. p.phase \in WaitPhases => p.phase = mode.phase
    BY <2>2 DEF Checked
  <2>4. CASE step = Outcome(p.phase, "None")
    BY <2>1, <2>2, <2>3, <2>4 DEF Outcome
  <2>5. CASE GateActive(p) /\ step \in CalibrationStep(p.phase, StageCauses)
    <3>1. p.phase \in Phases \ WaitPhases
      BY <1>1, <2>2, <2>5, ModeFields DEF GateActive
    <3>2. \/ step = Outcome("WaitingHallCompletion", "HallCalibration")
          \/ step = Outcome("WaitingTuning", "TuningRequest")
          \/ step.phase \in {p.phase, "Done", "HallCalibration"}
      BY <2>5, <3>1 DEF CalibrationStep, Outcome, Phases, WaitPhases
    <3>3. step.phase \notin {p.phase, "Done", "HallCalibration"}
      BY <2>1, <2>2, <3>1 DEF WaitPhases
    <3> QED BY <2>2, <3>2, <3>3 DEF Outcome, AwaitedTask, TasksFor
  <2> QED BY <2>2, <2>4, <2>5 DEF Steps
<1>9. p.tag = "Fault" => n.tag = "Fault"
  BY <1>2, <1>3 DEF Escalates
<1> HIDE DEF n
<1>10. Checked(age, feedback, TasksFor(step.result), n)
  BY <1>4, <1>7, <1>8, <1>9 DEF Checked, Armed
<1> QED BY <1>10 DEF n

(***************************************************************************)
(* One tick of foc_step: its checks, then - once the bus is measured - the *)
(* tick of the safe strategy and the current controller.                   *)
(***************************************************************************)
TickParts(age, feedback, tasks, n, safe, result) ==
  /\ Checked(age, feedback, tasks, n)
  /\ tasks \subseteq DeferredTasks
  /\ spawned' = spawned \cup tasks
  /\ IF dc_bus_v = "none"
     THEN mode' = n /\ pwm' = freewheel
     ELSE /\ Ticks(n, safe)
          /\ result \in {"Ok"} \cup FocCauses
          /\ ~Computes(safe) => result = "Ok"
          /\ mode' = AssertFaultIf(safe, result # "Ok", result)
          /\ pwm' = IF Computes(safe) /\ result = "Ok"
                    THEN Modulating(Source(safe), feedback)
                    ELSE SafeOutput(mode')

LEMMA FocStepParts ==
  ASSUME ModeOK(mode), polarity \in Verdicts, NEW age, FocStep(age)
  PROVE  \E feedback, tasks, n, safe, result : TickParts(age, feedback, tasks, n, safe, result)
<1>1. PICK saliency \in Saliencies(Diagnosed(mode)) :
        LET prepared == Prepared(mode, saliency, age)
            feedback == FeedbackUsed(Diagnosed(mode), saliency)
        IN  IF dc_bus_v = "none"
            THEN mode' = prepared /\ pwm' = freewheel /\ spawned' = spawned
            ELSE \E step \in Steps(prepared) :
                   LET stepped == OverspeedChecked(CalibrationStepped(prepared, step), feedback)
                   IN  \E emf \in Emfs(stepped) :
                         LET safe == SafetyTicked(stepped, emf, feedback)
                         IN  \E result \in FocResults(safe) :
                               /\ mode' = AssertFaultIf(safe, result # "Ok", result)
                               /\ pwm' = IF Computes(safe) /\ result = "Ok"
                                         THEN Modulating(Source(safe), feedback)
                                         ELSE SafeOutput(mode')
                               /\ spawned' = spawned \cup TasksFor(step.result)
  BY DEF FocStep
<1> DEFINE prepared == Prepared(mode, saliency, age)
           feedback == FeedbackUsed(Diagnosed(mode), saliency)
<1>2. Checked(age, feedback, {}, prepared)
  BY PreparedChecked
<1>3. CASE dc_bus_v = "none"
  <2>1. mode' = prepared /\ pwm' = freewheel /\ spawned' = spawned
    BY <1>1, <1>3
  <2> HIDE DEF prepared, feedback
  <2>2. TickParts(age, feedback, {}, prepared, prepared, "Ok")
    BY <1>2, <1>3, <2>1 DEF TickParts
  <2> QED BY <2>2
<1>4. CASE dc_bus_v # "none"
  <2>1. PICK step \in Steps(prepared) :
          LET stepped == OverspeedChecked(CalibrationStepped(prepared, step), feedback)
          IN  \E emf \in Emfs(stepped) :
                LET safe == SafetyTicked(stepped, emf, feedback)
                IN  \E result \in FocResults(safe) :
                      /\ mode' = AssertFaultIf(safe, result # "Ok", result)
                      /\ pwm' = IF Computes(safe) /\ result = "Ok"
                                THEN Modulating(Source(safe), feedback)
                                ELSE SafeOutput(mode')
                      /\ spawned' = spawned \cup TasksFor(step.result)
    BY <1>1, <1>4
  <2> DEFINE stepped == OverspeedChecked(CalibrationStepped(prepared, step), feedback)
             tasks == TasksFor(step.result)
  <2> HIDE DEF prepared, feedback
  <2>2. Checked(age, feedback, tasks, stepped)
    BY <1>2, SteppedChecked
  <2>3. PICK emf \in Emfs(stepped) :
          LET safe == SafetyTicked(stepped, emf, feedback)
          IN  \E result \in FocResults(safe) :
                /\ mode' = AssertFaultIf(safe, result # "Ok", result)
                /\ pwm' = IF Computes(safe) /\ result = "Ok"
                          THEN Modulating(Source(safe), feedback)
                          ELSE SafeOutput(mode')
                /\ spawned' = spawned \cup tasks
    BY <2>1
  <2> DEFINE safe == SafetyTicked(stepped, emf, feedback)
  <2> HIDE DEF stepped, tasks
  <2>4. Ticks(stepped, safe)
    BY <2>2, SafetyTickedTicks DEF Checked, Escalates
  <2>5. PICK result \in FocResults(safe) :
          /\ mode' = AssertFaultIf(safe, result # "Ok", result)
          /\ pwm' = IF Computes(safe) /\ result = "Ok"
                    THEN Modulating(Source(safe), feedback)
                    ELSE SafeOutput(mode')
          /\ spawned' = spawned \cup tasks
    BY <2>3
  <2>6. result \in {"Ok"} \cup FocCauses /\ (~Computes(safe) => result = "Ok")
    BY DEF FocResults
  <2>7. tasks \subseteq DeferredTasks
    BY DEF tasks, TasksFor, DeferredTasks
  <2> HIDE DEF safe
  <2>8. TickParts(age, feedback, tasks, stepped, safe, result)
    BY <1>4, <2>2, <2>4, <2>5, <2>6, <2>7 DEF TickParts
  <2> QED BY <2>8
<1> QED BY <1>3, <1>4

\* A fault of the current controller switches the inverter off at once.
LEMMA FocCausesReact ==
  ASSUME NEW c \in FocCauses
  PROVE  c \in Causes /\ c # "Ok" /\ Reaction(c) = sto
BY DriveAssumption DEF Causes, AllFocCauses, Reaction, RampDownCauses

LEMMA ControllerFault ==
  ASSUME NEW m, ModeOK(m), NEW c \in FocCauses
  PROVE  /\ Escalates(m, AssertFault(m, c)) /\ AssertFault(m, c).tag = "Fault"
         /\ AssertFault(m, c).strategy.kind # "RampDown"
<1>1. c \in Causes /\ Reaction(c) = sto /\ sto.kind = "STO"
  BY FocCausesReact, CanonicalStrategies
<1>2. Escalates(m, AssertFault(m, c)) /\ AssertFault(m, c).tag = "Fault"
  BY <1>1, AssertFaultEscalates, AssertFaultWaited DEF Escalates
<1>3. AssertFault(m, c).strategy \in {FaultEvolve(m.strategy, sto), sto}
  BY <1>1 DEF AssertFault, Faulted, Mode
<1>4. FaultEvolve(m.strategy, sto).kind # "RampDown"
  <2>1. m.strategy.kind \in Kinds
    BY ModeFields DEF Canonical, Strategies
  <2> QED BY <1>1, <2>1, CanonicalStrategies DEF FaultEvolve, Kinds
<1> QED BY <1>1, <1>2, <1>3, <1>4

\* What a tick on a measured bus leaves: its last mode, and the output that belongs to it.
LEMMA TickEnds ==
  ASSUME NEW age, NEW feedback, NEW tasks, NEW n, NEW safe, NEW result,
         TickParts(age, feedback, tasks, n, safe, result), dc_bus_v # "none"
  PROVE  /\ ModeOK(n) /\ Ticks(n, safe)
         /\ \/ mode' = safe /\ pwm' = IF Computes(safe) THEN Modulating(Source(safe), feedback)
                                      ELSE SafeOutput(safe)
            \/ /\ Computes(safe) /\ Escalates(safe, mode') /\ mode'.tag = "Fault"
               /\ mode'.strategy.kind # "RampDown" /\ pwm' = SafeOutput(mode')
<1>1. ModeOK(n) /\ Ticks(n, safe) /\ ModeOK(safe)
  BY DEF TickParts, Checked, Escalates, Ticks
<1>2. CASE result = "Ok"
  BY <1>1, <1>2 DEF TickParts, AssertFaultIf
<1>3. CASE result # "Ok"
  <2>1. result \in FocCauses /\ mode' = AssertFault(safe, result) /\ pwm' = SafeOutput(mode') /\ Computes(safe)
    BY <1>3 DEF TickParts, AssertFaultIf
  <2> QED BY <1>1, <2>1, ControllerFault
<1> QED BY <1>2, <1>3

-----------------------------------------------------------------------------
(***************************************************************************)
(* The commands, and the steps between two ticks: such a step faults, or   *)
(* applies one command of on_command, and leaves the output and the rotor  *)
(* estimation alone.                                                       *)
(***************************************************************************)
Faults(m, n) == Escalates(m, n) /\ (n.tag # "Fault" => n = m)

Commanded(m) ==
  {StartCalibration(m), ResumeCalibration(m), EndCalibration(m), RequestIdle(m)}

BetweenTicks ==
  /\ UNCHANGED <<pwm, rotor, polarity>>
  /\ setpoint_age' \in {setpoint_age, 0}
  /\ \/ Faults(mode, mode')
     \/ ReceiveFaultClear /\ mode' = ClearFault(mode)
     \/ mode' \in Commanded(mode)
     \/ mode' = RequestTorqueControl(mode) /\ (mode.tag \in Armed \/ setpoint_age' = 0)

LEMMA AssertFaultFaults ==
  ASSUME NEW m, ModeOK(m), NEW c \in Causes
  PROVE  Faults(m, AssertFault(m, c))
BY AssertFaultEscalates, AssertFaultWaited DEF Faults, Escalates

LEMMA AssertFaultIfFaults ==
  ASSUME NEW m, ModeOK(m), NEW condition, NEW c \in Causes
  PROVE  Faults(m, AssertFaultIf(m, condition, c))
BY AssertFaultIfEscalates, AssertFaultIfKeeps DEF Faults

LEMMA FaultsTransitive ==
  ASSUME NEW m, ModeOK(m), NEW n, Faults(m, n), NEW k, Faults(n, k)
  PROVE  Faults(m, k)
<1>1. Escalates(m, k)
  BY EscalatesTransitive DEF Faults
<1>2. n.tag = "Fault" => k.tag = "Fault"
  BY DEF Faults, Escalates
<1> QED BY <1>1, <1>2 DEF Faults

LEMMA CommandsOK ==
  ASSUME NEW m, ModeOK(m)
  PROVE  /\ ModeOK(ClearFault(m)) /\ ModeOK(RequestTorqueControl(m))
         /\ \A n \in Commanded(m) : ModeOK(n)
<1>1. Canonical(m.strategy) /\ m.phase \in Phases
  BY ModeFields
<1>2. /\ Canonical(sto) /\ sto.kind = "STO"
      /\ Canonical(ramp_down) /\ ramp_down.kind = "RampDown"
  BY CanonicalStrategies
<1>3. ModeOK(Idle(sto)) /\ ModeOK(Idle(ramp_down))
  BY <1>2, IdleIsOK
<1>4. ModeOK(ClearFault(m))
  <2>1. m.strategy.kind # "STOf" => ModeOK(Idle(m.strategy))
    BY <1>1, IdleIsOK
  <2> QED BY <1>3, <2>1 DEF ClearFault
<1>5. ModeOK(RequestTorqueControl(m))
  BY ArmedIsOK DEF RequestTorqueControl
<1>6. ModeOK(StartCalibration(m)) /\ ModeOK(ResumeCalibration(m))
  <2>1. Resumed(m.phase) \in Phases /\ "ClearingExistingParameters" \in Phases
    BY <1>1 DEF Resumed, Phases
  <2> QED BY <2>1, ArmedIsOK DEF StartCalibration, ResumeCalibration
<1>7. ModeOK(EndCalibration(m)) /\ ModeOK(RequestIdle(m))
  BY <1>3 DEF EndCalibration, RequestIdle
<1> QED BY <1>4, <1>5, <1>6, <1>7 DEF Commanded

LEMMA BetweenTicksOK ==
  ASSUME ModeOK(mode), BetweenTicks PROVE ModeOK(mode')
BY CommandsOK DEF BetweenTicks, Faults, Escalates

\* A priority 1 task that is done, or that fails with one of the given faults.
LEMMA TaskBetweenTicks ==
  ASSUME ModeOK(mode), NEW task, NEW m, NEW causes,
         TaskSucceeds(task, m) \/ TaskFails(task, causes),
         m = mode \/ m \in Commanded(mode)
  PROVE  BetweenTicks
<1>1. CASE TaskSucceeds(task, m)
  BY <1>1, EscalatesReflexive DEF TaskSucceeds, SetsMode, BetweenTicks, Faults
<1>2. CASE TaskFails(task, causes)
  <2>1. PICK cause \in TaskCauses : SetsMode(AssertFault(mode, cause), spawned \ {task})
    BY <1>2 DEF TaskFails
  <2>2. Faults(mode, AssertFault(mode, cause))
    BY AssertFaultFaults DEF Causes
  <2> QED BY <2>1, <2>2 DEF SetsMode, BetweenTicks
<1> QED BY <1>1, <1>2

LEMMA BoardBetweenTicks ==
  ASSUME ModeOK(mode), BoardStatus PROVE BetweenTicks
<1>1. {"DcUnderVoltage", "DcOverVoltage", "Overtemperature"} \subseteq Causes
  BY DEF Causes, OwnCauses
<1>2. PICK under, over, hot :
        /\ mode' = AssertFaultIf(IF under THEN AssertFault(mode, "DcUnderVoltage")
                                 ELSE AssertFaultIf(mode, over, "DcOverVoltage"),
                                 hot, "Overtemperature")
        /\ UNCHANGED <<pwm, rotor, polarity, setpoint_age>>
  BY DEF BoardStatus
<1> DEFINE voltage == IF under THEN AssertFault(mode, "DcUnderVoltage")
                      ELSE AssertFaultIf(mode, over, "DcOverVoltage")
<1>3. Faults(mode, voltage)
  BY <1>1, AssertFaultFaults, AssertFaultIfFaults
<1>4. Faults(voltage, AssertFaultIf(voltage, hot, "Overtemperature"))
  BY <1>1, <1>3, AssertFaultIfFaults DEF Faults, Escalates
<1>5. Faults(mode, mode')
  BY <1>2, <1>3, <1>4, FaultsTransitive
<1> QED BY <1>2, <1>5 DEF BetweenTicks

LEMMA BreakBetweenTicks ==
  ASSUME ModeOK(mode), PwmBreak PROVE BetweenTicks
<1>1. PICK fired : SetsMode(AssertFaultIf(AssertFaultIf(mode, "Break1" \in fired, "Break1"),
                                          "Break2" \in fired, "Break2"), spawned)
  BY DEF PwmBreak
<1> DEFINE first == AssertFaultIf(mode, "Break1" \in fired, "Break1")
<1>2. {"Break1", "Break2"} \subseteq Causes
  BY DEF Causes, OwnCauses
<1>3. Faults(mode, first)
  BY <1>2, AssertFaultIfFaults
<1>4. Faults(first, AssertFaultIf(first, "Break2" \in fired, "Break2"))
  BY <1>2, <1>3, AssertFaultIfFaults DEF Faults, Escalates
<1>5. Faults(mode, mode')
  BY <1>1, <1>3, <1>4, FaultsTransitive DEF SetsMode
<1> QED BY <1>1, <1>5 DEF BetweenTicks, SetsMode

LEMMA ReceiveBetweenTicks ==
  ASSUME ModeOK(mode),
         \/ ReceiveIdle \/ ReceiveCalibration \/ ReceiveTorqueControl
         \/ ReceiveCancelCalibration \/ ReceiveFaultClear \/ ReceiveSetpoint
         \/ RejectSetpoint \/ ReceiveConfig \/ RefuseUpdate
  PROVE  BetweenTicks
<1>1. {"MissingMotorParams", "CANMessageIntegrity"} \cup TaskCauses \subseteq Causes
  BY DEF Causes, OwnCauses
<1>2. CASE ReceiveIdle
  BY <1>2 DEF ReceiveIdle, SetsMode, BetweenTicks, Commanded
<1>3. CASE ReceiveCalibration
  BY <1>1, <1>3, AssertFaultFaults DEF ReceiveCalibration, SetsMode, BetweenTicks, Commanded
<1>4. CASE ReceiveTorqueControl
  BY <1>4 DEF ReceiveTorqueControl, BetweenTicks, Armed
<1>5. CASE ReceiveCancelCalibration
  BY <1>5 DEF ReceiveCancelCalibration, SetsMode, BetweenTicks, Commanded
<1>6. CASE ReceiveFaultClear
  BY <1>6 DEF ReceiveFaultClear, SetsMode, BetweenTicks
<1>7. CASE ReceiveSetpoint \/ ReceiveConfig
  BY <1>7, EscalatesReflexive DEF ReceiveSetpoint, ReceiveConfig, SetsMode, BetweenTicks, Faults
<1>8. CASE RejectSetpoint
  BY <1>1, <1>8, AssertFaultFaults DEF RejectSetpoint, SetsMode, BetweenTicks
<1>9. CASE RefuseUpdate
  BY <1>1, <1>9, AssertFaultFaults DEF RefuseUpdate, SetsMode, BetweenTicks
<1> QED BY <1>2, <1>3, <1>4, <1>5, <1>6, <1>7, <1>8, <1>9

LEMMA NextBetweenTicks ==
  ASSUME ModeOK(mode), [Next]_vars, ~FocTick PROVE BetweenTicks
<1>1. CASE UNCHANGED vars
  BY <1>1, EscalatesReflexive DEF vars, BetweenTicks, Faults
<1>2. CASE BoardStatus \/ PwmBreak
  BY <1>2, BoardBetweenTicks, BreakBetweenTicks
<1>3. CASE WatchdogExpire
  BY <1>3, EscalatesReflexive DEF WatchdogExpire, BetweenTicks, Faults
<1>4. CASE StoreHallTable \/ TunePi
  <2>1. ResumeCalibration(mode) \in Commanded(mode)
    BY DEF Commanded
  <2>2. ASSUME NEW cause \in TaskCauses, "MissingControllerGains" \in TaskCauses,
               SetsMode(AssertFault(AssertFault(mode, "MissingControllerGains"), cause),
                        spawned \ {"tune_pi"})
        PROVE  BetweenTicks
    <3> DEFINE first == AssertFault(mode, "MissingControllerGains")
    <3>1. Faults(mode, first) /\ ModeOK(first)
      BY <2>2, AssertFaultFaults, AssertFaultEscalates DEF Causes
    <3>2. Faults(mode, AssertFault(first, cause))
      BY <3>1, AssertFaultFaults, FaultsTransitive DEF Causes
    <3> QED BY <2>2, <3>2 DEF SetsMode, BetweenTicks
  <2> QED BY <1>4, <2>1, <2>2, TaskBetweenTicks DEF StoreHallTable, TunePi
<1>5. CASE StoreMotorParams
  <2>1. EndCalibration(mode) \in Commanded(mode)
    BY DEF Commanded
  <2> QED BY <1>5, <2>1, TaskBetweenTicks DEF StoreMotorParams
<1>6. CASE PersistConfig
  <2> DEFINE m == IF mode.tag = "Calibration" /\ mode.phase = "ClearingExistingParameters"
                  THEN ResumeCalibration(mode) ELSE mode
  <2>1. m = mode \/ m \in Commanded(mode)
    BY DEF Commanded
  <2>2. TaskSucceeds("persist_config", m) \/ TaskFails("persist_config", MemoryCauses)
    BY <1>6 DEF PersistConfig
  <2> HIDE DEF m
  <2> QED BY <2>1, <2>2, TaskBetweenTicks
<1> QED BY <1>1, <1>2, <1>3, <1>4, <1>5, <1>6, ReceiveBetweenTicks DEF Next

-----------------------------------------------------------------------------
(***************************************************************************)
(* The inductive invariant.  The typing and the shape of the mode carry    *)
(* each other; torque on a known polarity needs to know that a drive in    *)
(* torque control whose polarity is open again (its estimators were reset  *)
(* by a tick that did not modulate) has no feedback either, so that the    *)
(* next tick faults before it computes a duty cycle.                       *)
(***************************************************************************)
PolarityKept ==
  mode.tag = "TorqueControl" => polarity = "found" \/ (polarity = "open" /\ rotor = "none")

TypeInv == TypeOK /\ ModeWellFormed

IInv ==
  /\ TypeInv
  /\ SetpointFresh
  /\ PolarityKept
  /\ TorqueOnKnownPolarity
  /\ WaitHasTask

LEMMA TypeInvModeOK == TypeInv => ModeOK(mode) /\ polarity \in Verdicts /\ rotor \in Feedbacks
BY DEF TypeInv, TypeOK, ModeWellFormed, ModeOK

LEMMA BootedIsOK ==
  ASSUME NEW m \in BootModes
  PROVE  ModeOK(m) /\ Safe(m) /\ (Safe(m) => m.strategy.kind # "RampDown")
<1>1. PICK s \in MayBoot(StatusCauses), r \in MayBoot(ResetCauses),
           l \in MayBoot(LoadCauses), k \in MayBoot(LoadCauses),
           g \in MayBoot(GainCauses), c \in MayBoot(ConfirmCauses) :
             m = Booted(s, r, l, k, g, c)
  BY DEF BootModes
<1> DEFINE Quiet(n) == ModeOK(n) /\ Safe(n) /\ n.strategy = sto
           Known == StatusCauses \cup ResetCauses \cup LoadCauses \cup GainCauses \cup ConfirmCauses
<1>2. BootCauses \subseteq Causes
  BY DEF Causes
<1>3. \A x \in Known : Reaction(x) = sto
  BY DEF Reaction, StatusCauses, ResetCauses, LoadCauses, GainCauses, ConfirmCauses,
         RampDownCauses
<1>4. sto.kind = "STO" /\ FaultEvolve(sto, sto) = sto /\ Canonical(sto)
  BY CanonicalStrategies DEF FaultEvolve
<1>5. ASSUME NEW n, Quiet(n), NEW x \in MayBoot(Known)
      PROVE  Quiet(Found(n, x))
  <2>1. x # "None" => x \in Causes /\ Reaction(x) = sto
    BY <1>2, <1>3 DEF MayBoot
  <2>2. ModeOK(Found(n, x))
    BY <1>5, <2>1, AssertFaultIfEscalates DEF Found
  <2>3. x # "None" => AssertFault(n, x).tag = "Fault" /\ AssertFault(n, x).strategy = sto
    BY <1>4, <1>5, <2>1 DEF AssertFault, Faulted, Mode
  <2> QED BY <1>5, <2>2, <2>3 DEF Found, AssertFaultIf, Safe
<1>6. Quiet(Idle(sto))
  BY <1>4, IdleIsOK DEF Safe
<1>7. {s, r, l, k, g, c} \subseteq MayBoot(Known)
  BY <1>1 DEF MayBoot
<1> HIDE DEF Quiet, Known
<1>8. Quiet(Booted(s, r, l, k, g, c))
  BY <1>5, <1>6, <1>7 DEF Booted
<1> QED BY <1>1, <1>4, <1>8 DEF Quiet

LEMMA InitInv == Init => IInv
<1>1. SUFFICES ASSUME Init PROVE IInv
  OBVIOUS
<1>2. ModeOK(mode) /\ Safe(mode)
  BY <1>1, BootedIsOK DEF Init
<1>3. /\ pwm \in PwmOutputs /\ pwm.source = "none"
      /\ board \in [BoardFlags -> DebouncedValues(BoardDebounceTicks)]
      /\ watchdog \in [started : BOOLEAN, faulted : BOOLEAN, acknowledged : BOOLEAN]
      /\ setpoint_age \in 0 .. SetpointTimeoutTicks
  BY <1>1, DriveAssumption
     DEF Init, PwmOutputs, freewheel, Still, DebouncedValues, DebouncedNew
<1>4. TypeInv
  BY <1>1, <1>2, <1>3
     DEF Init, TypeInv, TypeOK, ModeWellFormed, ModeOK, Feedbacks, Verdicts
<1>5. mode.tag \in {"Idle", "Fault"}
  BY <1>2 DEF Safe
<1> QED BY <1>3, <1>4, <1>5
        DEF IInv, SetpointFresh, PolarityKept, TorqueOnKnownPolarity, WaitHasTask

LEMMA DebouncedUpdateType ==
  ASSUME NEW period \in Nat \ {0}, NEW d \in DebouncedValues(period), NEW raw \in BOOLEAN
  PROVE  DebouncedUpdate(d, raw, period) \in DebouncedValues(period)
BY DEF DebouncedValues, DebouncedUpdate, DebouncedNew

LEMMA TickOutputType ==
  ASSUME NEW m, ModeOK(m), NEW feedback
  PROVE  Modulating(Source(m), feedback) \in PwmOutputs /\ SafeOutput(m) \in PwmOutputs
<1>1. Source(m) \in Sources
  BY ModeFields DEF Source, Sources, UsesSafetyCommand, Tags
<1> QED BY <1>1 DEF Modulating, SafeOutput, PwmOutputs

LEMMA FocTickType ==
  ASSUME TypeInv, FocTick PROVE TypeInv'
<1> DEFINE age == IF setpoint_age = SetpointTimeoutTicks THEN setpoint_age ELSE setpoint_age + 1
<1>1. ModeOK(mode) /\ polarity \in Verdicts /\ FocStep(age)
  BY TypeInvModeOK DEF FocTick
<1>2. PICK feedback, tasks, n, safe, result : TickParts(age, feedback, tasks, n, safe, result)
  BY <1>1, FocStepParts
<1>3. ModeOK(mode') /\ pwm' \in PwmOutputs
  <2>1. CASE dc_bus_v = "none"
    BY <1>2, <2>1 DEF TickParts, Checked, Escalates, PwmOutputs
  <2>2. CASE dc_bus_v # "none"
    <3>1. ModeOK(safe)
      BY <1>2, <2>2, TickEnds DEF Ticks
    <3>2. ModeOK(mode')
      BY <1>2, <2>2, <3>1, TickEnds DEF Escalates
    <3> QED BY <1>2, <2>2, <3>1, <3>2, TickOutputType DEF TickParts
  <2> QED BY <2>1, <2>2
<1>4. spawned' \in SUBSET DeferredTasks
  BY <1>2 DEF TickParts, TypeInv, TypeOK
<1>5. setpoint_age' \in 0 .. SetpointTimeoutTicks
  BY DriveAssumption DEF FocTick, TypeInv, TypeOK
<1>6. /\ watchdog' \in [started : BOOLEAN, faulted : BOOLEAN, acknowledged : BOOLEAN]
      /\ deferred' \in SUBSET DeferredFlags
      /\ dc_bus_v' = dc_bus_v /\ board' = board
  BY DriveAssumption DEF FocTick, TypeInv, TypeOK
<1>7. polarity' \in Verdicts /\ rotor' \in Feedbacks
  BY DriveAssumption, TypeInvModeOK DEF FocTick, FeedbackUpdated, Verdicts, Feedbacks
<1> QED BY <1>3, <1>4, <1>5, <1>6, <1>7 DEF TypeInv, TypeOK, ModeWellFormed, ModeOK

LEMMA OtherTypes ==
  ASSUME TypeInv, [Next]_vars, ~FocTick
  PROVE  /\ dc_bus_v' \in BusLevels \cup {"none"}
         /\ board' \in [BoardFlags -> DebouncedValues(BoardDebounceTicks)]
         /\ deferred' \in SUBSET DeferredFlags
         /\ watchdog' \in [started : BOOLEAN, faulted : BOOLEAN, acknowledged : BOOLEAN]
         /\ spawned' \in SUBSET DeferredTasks
<1>1. CASE BoardStatus
  <2>1. PICK sample \in BoardSamples :
          /\ dc_bus_v' = sample[1]
          /\ board' = [undervolt |-> DebouncedUpdate(board["undervolt"], sample[1] = "under",
                                                     BoardDebounceTicks),
                       overvolt |-> DebouncedUpdate(board["overvolt"], sample[1] \in {"over", "high"},
                                                    BoardDebounceTicks),
                       overtemp |-> DebouncedUpdate(board["overtemp"], sample[2], BoardDebounceTicks)]
          /\ UNCHANGED <<deferred, watchdog, spawned>>
    BY <1>1 DEF BoardStatus
  <2>2. sample[1] \in BusLevels /\ sample[2] \in BOOLEAN
    BY DriveAssumption
  <2>3. \A f \in BoardFlags : board[f] \in DebouncedValues(BoardDebounceTicks)
    BY DEF TypeInv, TypeOK
  <2>4. BoardDebounceTicks \in Nat \ {0}
    BY DriveAssumption
  <2>5. \A f \in BoardFlags, raw \in BOOLEAN :
          DebouncedUpdate(board[f], raw, BoardDebounceTicks) \in DebouncedValues(BoardDebounceTicks)
    BY <2>3, <2>4, DebouncedUpdateType
  <2> DEFINE under == sample[1] = "under"
             over == sample[1] \in {"over", "high"}
             hot == sample[2]
             u == DebouncedUpdate(board["undervolt"], under, BoardDebounceTicks)
             o == DebouncedUpdate(board["overvolt"], over, BoardDebounceTicks)
             h == DebouncedUpdate(board["overtemp"], hot, BoardDebounceTicks)
  <2>6. under \in BOOLEAN /\ over \in BOOLEAN /\ hot \in BOOLEAN
    BY <2>2
  <2>7. board' = [undervolt |-> u, overvolt |-> o, overtemp |-> h]
    BY <2>1
  <2> HIDE DEF under, over, hot
  <2>8. {u, o, h} \subseteq DebouncedValues(BoardDebounceTicks)
    BY <2>5, <2>6 DEF BoardFlags
  <2> HIDE DEF u, o, h
  <2>9. board' \in [BoardFlags -> DebouncedValues(BoardDebounceTicks)]
    BY <2>7, <2>8 DEF BoardFlags
  <2> QED BY <2>1, <2>2, <2>9 DEF TypeInv, TypeOK
<1>2. CASE WatchdogExpire
  BY <1>2 DEF WatchdogExpire, TypeInv, TypeOK
<1>3. CASE \/ PwmBreak \/ ReceiveIdle \/ ReceiveCalibration \/ ReceiveTorqueControl
           \/ ReceiveCancelCalibration \/ ReceiveFaultClear \/ ReceiveSetpoint
           \/ RejectSetpoint \/ ReceiveConfig \/ RefuseUpdate
  BY <1>3 DEF PwmBreak, ReceiveIdle, ReceiveCalibration, ReceiveTorqueControl,
              ReceiveCancelCalibration, ReceiveFaultClear, ReceiveSetpoint, RejectSetpoint,
              ReceiveConfig, RefuseUpdate, SetsMode, TypeInv, TypeOK, DeferredTasks
<1>4. CASE StoreHallTable \/ TunePi \/ StoreMotorParams \/ PersistConfig
  BY <1>4 DEF StoreHallTable, TunePi, StoreMotorParams, PersistConfig, TaskSucceeds, TaskFails,
              SetsMode, TypeInv, TypeOK, DeferredTasks
<1>5. CASE UNCHANGED vars
  BY <1>5 DEF vars, TypeInv, TypeOK
<1> QED BY <1>1, <1>2, <1>3, <1>4, <1>5 DEF Next

LEMMA NextType ==
  ASSUME TypeInv, [Next]_vars PROVE TypeInv'
<1>1. CASE FocTick
  BY <1>1, FocTickType
<1>2. CASE ~FocTick
  <2>1. BetweenTicks
    BY <1>2, TypeInvModeOK, NextBetweenTicks
  <2>2. ModeOK(mode')
    BY <2>1, TypeInvModeOK, BetweenTicksOK
  <2>3. /\ pwm' \in PwmOutputs /\ rotor' \in Feedbacks /\ polarity' \in Verdicts
        /\ setpoint_age' \in 0 .. SetpointTimeoutTicks
    BY <2>1, DriveAssumption DEF BetweenTicks, TypeInv, TypeOK
  <2> QED BY <1>2, <2>2, <2>3, OtherTypes DEF TypeInv, TypeOK, ModeWellFormed, ModeOK
<1> QED BY <1>1, <1>2

-----------------------------------------------------------------------------
\* A tick that does not fault ends in the mode its checks left.
LEMMA TickMode ==
  ASSUME NEW age, NEW feedback, NEW tasks, NEW n, NEW safe, NEW result,
         TickParts(age, feedback, tasks, n, safe, result), mode'.tag # "Fault"
  PROVE  /\ mode'.tag = n.tag
         /\ ~Safe(mode') => mode' = n
<1>1. CASE dc_bus_v = "none"
  BY <1>1 DEF TickParts
<1>2. CASE dc_bus_v # "none"
  BY <1>2, TickEnds DEF Ticks, Safe
<1> QED BY <1>1, <1>2

\* Between two ticks torque control is only requested, with a setpoint that starts afresh.
LEMMA BetweenTicksArmed ==
  ASSUME ModeOK(mode), BetweenTicks, mode'.tag \in Armed
  PROVE  mode' = mode \/ (mode'.tag = "SaliencyPolarityTest" /\ setpoint_age' = 0)
<1>1. CASE Faults(mode, mode')
  BY <1>1 DEF Faults, Armed
<1>2. CASE mode' = ClearFault(mode)
  BY <1>2 DEF ClearFault, Idle, Mode, Armed
<1>3. CASE mode' \in Commanded(mode)
  <2>1. mode' \in {mode, Idle(sto), Idle(ramp_down)} \/ mode'.tag = "Calibration"
    BY <1>3 DEF Commanded, StartCalibration, ResumeCalibration, EndCalibration,
                RequestIdle, Calibrating, Mode
  <2> QED BY <2>1 DEF Idle, Mode, Armed
<1>4. CASE mode' = RequestTorqueControl(mode) /\ (mode.tag \in Armed \/ setpoint_age' = 0)
  BY <1>4 DEF RequestTorqueControl, Mode, Armed
<1> QED BY <1>1, <1>2, <1>3, <1>4 DEF BetweenTicks

LEMMA NextSetpointFresh ==
  ASSUME TypeInv, SetpointFresh, [Next]_vars PROVE SetpointFresh'
<1>1. CASE FocTick
  <2> DEFINE age == IF setpoint_age = SetpointTimeoutTicks THEN setpoint_age ELSE setpoint_age + 1
  <2>1. setpoint_age' = age /\ age \in 0 .. SetpointTimeoutTicks /\ FocStep(age)
    BY <1>1, DriveAssumption DEF FocTick, TypeInv, TypeOK
  <2>2. PICK feedback, tasks, n, safe, result : TickParts(age, feedback, tasks, n, safe, result)
    BY <2>1, TypeInvModeOK, FocStepParts
  <2> HIDE DEF age
  <2>3. mode'.tag \in Armed => n.tag \in Armed
    BY <2>2, TickMode DEF Armed
  <2>4. mode'.tag \in Armed => age # SetpointTimeoutTicks
    BY <2>2, <2>3 DEF TickParts, Checked
  <2> QED BY <2>1, <2>4, DriveAssumption DEF SetpointFresh, Armed
<1>2. CASE ~FocTick
  <2>1. BetweenTicks /\ ModeOK(mode)
    BY <1>2, TypeInvModeOK, NextBetweenTicks
  <2>2. mode'.tag \in Armed => mode' = mode \/ setpoint_age' = 0
    BY <2>1, BetweenTicksArmed
  <2>3. setpoint_age' \in {setpoint_age, 0}
    BY <2>1 DEF BetweenTicks
  <2> QED BY <2>2, <2>3, DriveAssumption DEF SetpointFresh, Armed
<1> QED BY <1>1, <1>2

\* A tick that stays in torque control: either its estimators were reset, or they know the polarity.
LEMMA TickPolarity ==
  ASSUME TypeInv, PolarityKept, FocTick, mode'.tag = "TorqueControl"
  PROVE  /\ pwm'.out = "modulating" => polarity' = "found"
         /\ pwm'.out # "modulating" => polarity' = "found" \/ (polarity' = "open" /\ rotor' = "none")
<1> DEFINE age == IF setpoint_age = SetpointTimeoutTicks THEN setpoint_age ELSE setpoint_age + 1
<1>1. FeedbackUpdated /\ FocStep(age)
  BY DEF FocTick
<1>2. PICK feedback, tasks, n, safe, result : TickParts(age, feedback, tasks, n, safe, result)
  BY <1>1, TypeInvModeOK, FocStepParts
<1>3. n.tag = "TorqueControl"
  BY <1>2, TickMode
<1>4. /\ feedback # "none"
      /\ (mode.tag = "TorqueControl" /\ feedback = rotor) \/ polarity = "found" \/ Seeded
  BY <1>2, <1>3 DEF TickParts, Checked, Armed
<1>5. polarity = "found" \/ Seeded
  BY <1>4 DEF PolarityKept
<1>6. CASE pwm'.out = "modulating"
  BY <1>1, <1>5, <1>6 DEF FeedbackUpdated
<1>7. CASE pwm'.out # "modulating"
  BY <1>1, <1>7 DEF FeedbackUpdated
<1> QED BY <1>6, <1>7

\* A torque command is applied only by a tick that ends in torque control with feedback.
LEMMA TickTorque ==
  ASSUME TypeInv, FocTick, pwm'.source = "torque"
  PROVE  mode'.tag = "TorqueControl" /\ pwm'.out = "modulating" /\ pwm'.measured
<1> DEFINE age == IF setpoint_age = SetpointTimeoutTicks THEN setpoint_age ELSE setpoint_age + 1
<1>1. PICK feedback, tasks, n, safe, result : TickParts(age, feedback, tasks, n, safe, result)
  BY TypeInvModeOK, FocStepParts DEF FocTick
<1> HIDE DEF age
<1>2. \A m : SafeOutput(m).source = "none"
  BY DEF SafeOutput, active_short, freewheel, Still
<1>3. dc_bus_v # "none"
  BY <1>1 DEF TickParts, freewheel, Still
<1>4. mode' = safe /\ pwm' = Modulating(Source(safe), feedback) /\ Ticks(n, safe)
  BY <1>1, <1>2, <1>3, TickEnds
<1>5. Source(safe) = "torque" /\ pwm'.out = "modulating" /\ pwm'.measured = (feedback # "none")
  BY <1>4 DEF Modulating
<1>6. safe.tag = "TorqueControl" /\ n.tag = "TorqueControl"
  BY <1>4, <1>5, ModeFields DEF Source, UsesSafetyCommand, Tags, Ticks
<1>7. feedback # "none"
  BY <1>1, <1>6 DEF TickParts, Checked, Armed
<1> QED BY <1>4, <1>5, <1>6, <1>7

LEMMA NextPolarity ==
  ASSUME TypeInv, PolarityKept, TorqueOnKnownPolarity, [Next]_vars
  PROVE  PolarityKept' /\ TorqueOnKnownPolarity'
<1>1. CASE FocTick
  <2>1. PolarityKept'
    BY <1>1, TickPolarity DEF PolarityKept
  <2>2. TorqueOnKnownPolarity'
    BY <1>1, TickPolarity, TickTorque DEF TorqueOnKnownPolarity
  <2> QED BY <2>1, <2>2
<1>2. CASE ~FocTick
  <2>1. BetweenTicks /\ ModeOK(mode)
    BY <1>2, TypeInvModeOK, NextBetweenTicks
  <2>2. mode'.tag = "TorqueControl" => mode' = mode
    BY <2>1, BetweenTicksArmed DEF Armed
  <2> QED BY <2>1, <2>2 DEF BetweenTicks, PolarityKept, TorqueOnKnownPolarity
<1> QED BY <1>1, <1>2

LEMMA AssertFaultNotCalibration ==
  ASSUME NEW m, NEW condition, NEW c
  PROVE  /\ AssertFault(m, c).tag # "Calibration"
         /\ AssertFaultIf(m, condition, c) = m \/ AssertFaultIf(m, condition, c).tag = "Fault"
BY DEF AssertFaultIf, AssertFault, Faulted, Mode

\* Resuming ends the wait, whichever task it is that resumes.
LEMMA ResumedDoesNotWait ==
  ASSUME NEW m PROVE LET n == ResumeCalibration(m)
                     IN  n.tag = "Calibration" => n.phase \notin WaitPhases
BY DEF ResumeCalibration, Resumed, Calibrating, Mode, WaitPhases

LEMMA NextWaitHasTask ==
  ASSUME TypeInv, WaitHasTask, [Next]_vars PROVE WaitHasTask'
<1>1. SUFFICES ASSUME mode'.tag = "Calibration", mode'.phase \in WaitPhases
               PROVE  AwaitedTask(mode'.phase) \in spawned'
  BY DEF WaitHasTask
<1>2. ASSUME mode' = mode, spawned \subseteq spawned'
      PROVE  AwaitedTask(mode'.phase) \in spawned'
  BY <1>1, <1>2 DEF WaitHasTask
<1>3. CASE FocTick
  <2> DEFINE age == IF setpoint_age = SetpointTimeoutTicks THEN setpoint_age ELSE setpoint_age + 1
  <2>1. PICK feedback, tasks, n, safe, result : TickParts(age, feedback, tasks, n, safe, result)
    BY <1>3, TypeInvModeOK, FocStepParts DEF FocTick
  <2> HIDE DEF age
  <2>2. mode' = n
    BY <1>1, <2>1, TickMode DEF Safe
  <2>3. mode.tag = "Calibration" /\ (n.phase = mode.phase \/ AwaitedTask(n.phase) \in tasks)
    BY <1>1, <2>1, <2>2 DEF TickParts, Checked
  <2>4. spawned' = spawned \cup tasks
    BY <2>1 DEF TickParts
  <2> QED BY <1>1, <2>2, <2>3, <2>4 DEF WaitHasTask
<1>4. CASE BoardStatus
  <2>1. PICK voltage, hot :
          /\ voltage = mode \/ voltage.tag = "Fault"
          /\ mode' = AssertFaultIf(voltage, hot, "Overtemperature")
          /\ spawned' = spawned
    BY <1>4, AssertFaultNotCalibration DEF BoardStatus, AssertFaultIf, AssertFault, Faulted, Mode
  <2>2. mode' = voltage \/ mode'.tag = "Fault"
    BY <2>1, AssertFaultNotCalibration
  <2> QED BY <1>1, <1>2, <2>1, <2>2
<1>5. CASE PwmBreak
  <2>1. PICK fired :
          /\ mode' = AssertFaultIf(AssertFaultIf(mode, "Break1" \in fired, "Break1"),
                                   "Break2" \in fired, "Break2")
          /\ spawned' = spawned
    BY <1>5 DEF PwmBreak, SetsMode
  <2>2. mode' = mode
    BY <1>1, <2>1, AssertFaultNotCalibration
  <2> QED BY <1>2, <2>1, <2>2
<1>6. CASE WatchdogExpire \/ ReceiveSetpoint \/ ReceiveConfig \/ UNCHANGED vars
  BY <1>2, <1>6 DEF WatchdogExpire, ReceiveSetpoint, ReceiveConfig, SetsMode, vars
<1>7. CASE ReceiveIdle \/ ReceiveTorqueControl \/ ReceiveCancelCalibration \/ ReceiveFaultClear
  <2>1. mode' = mode /\ spawned' = spawned
    BY <1>1, <1>7 DEF ReceiveIdle, ReceiveTorqueControl, ReceiveCancelCalibration,
                      ReceiveFaultClear, SetsMode, RequestIdle, RequestTorqueControl,
                      EndCalibration, ClearFault, Idle, Mode
  <2> QED BY <1>2, <2>1
<1>8. CASE ReceiveCalibration
  <2>1. mode' = StartCalibration(mode)
        /\ spawned' = IF StartsCalibration(mode) THEN spawned \cup {"persist_config"} ELSE spawned
    BY <1>1, <1>8, AssertFaultNotCalibration DEF ReceiveCalibration, SetsMode
  <2>2. CASE StartsCalibration(mode)
    <3>1. mode'.phase = "ClearingExistingParameters" /\ "persist_config" \in spawned'
      BY <2>1, <2>2 DEF StartCalibration, Calibrating, Mode
    <3> QED BY <3>1 DEF AwaitedTask
  <2>3. CASE ~StartsCalibration(mode)
    BY <1>2, <2>1, <2>3 DEF StartCalibration
  <2> QED BY <2>2, <2>3
<1>9. CASE RejectSetpoint \/ RefuseUpdate
  BY <1>1, <1>9, AssertFaultNotCalibration DEF RejectSetpoint, RefuseUpdate, SetsMode
<1>10. CASE StoreHallTable \/ TunePi
  BY <1>1, <1>10, AssertFaultNotCalibration, ResumedDoesNotWait
     DEF StoreHallTable, TunePi, TaskSucceeds, TaskFails, SetsMode
<1>11. CASE StoreMotorParams
  <2>1. EndCalibration(mode) = mode \/ EndCalibration(mode).tag = "Idle"
    BY DEF EndCalibration, Idle, Mode
  <2>2. mode' = mode /\ spawned' = spawned \ {"store_motor_params"}
    BY <1>1, <1>11, <2>1, AssertFaultNotCalibration
       DEF StoreMotorParams, TaskSucceeds, TaskFails, SetsMode
  <2>3. AwaitedTask(mode.phase) # "store_motor_params"
    BY <1>1, <2>2 DEF AwaitedTask, WaitPhases
  <2> QED BY <1>1, <2>2, <2>3 DEF WaitHasTask
<1>12. CASE PersistConfig
  <2>1. mode' = mode /\ spawned' = spawned \ {"persist_config"}
        /\ mode.phase # "ClearingExistingParameters"
    BY <1>1, <1>12, AssertFaultNotCalibration, ResumedDoesNotWait
       DEF PersistConfig, TaskSucceeds, TaskFails, SetsMode
  <2>2. AwaitedTask(mode.phase) # "persist_config"
    BY <1>1, <2>1 DEF AwaitedTask, WaitPhases
  <2> QED BY <1>1, <2>1, <2>2 DEF WaitHasTask
<1> QED BY <1>3, <1>4, <1>5, <1>6, <1>7, <1>8, <1>9, <1>10, <1>11, <1>12 DEF Next

-----------------------------------------------------------------------------
(***************************************************************************)
(* The drive core always satisfies its inductive invariant, for every      *)
(* value of the timing constants and every environment: the steps of its   *)
(* interrupts, tasks and CAN handlers preserve it in whatever order.       *)
(***************************************************************************)
THEOREM InductiveInvariant == Spec => []IInv
<1>1. Init => IInv
  BY InitInv
<1>2. IInv /\ [Next]_vars => IInv'
  BY NextType, NextSetpointFresh, NextPolarity, NextWaitHasTask DEF IInv
<1> QED BY <1>1, <1>2, PTL DEF Spec

\* Every variable keeps the type that modes.rs, bsp.rs and control.rs give it.
THEOREM TypeCorrect == Spec => []TypeOK
<1>1. IInv => TypeOK
  BY DEF IInv, TypeInv
<1> QED BY <1>1, InductiveInvariant, PTL

(***************************************************************************)
(* The operating mode is well formed after every command and tick; in      *)
(* particular the fault trace of modes.rs records the first causes, each   *)
(* once.                                                                   *)
(***************************************************************************)
THEOREM ModeAlwaysWellFormed == Spec => []ModeWellFormed
<1>1. IInv => ModeWellFormed
  BY DEF IInv, TypeInv
<1> QED BY <1>1, InductiveInvariant, PTL

\* foc_step and can_process never let torque follow a setpoint older than its timeout.
THEOREM SetpointAlwaysFresh == Spec => []SetpointFresh
<1>1. IInv => SetpointFresh
  BY DEF IInv
<1> QED BY <1>1, InductiveInvariant, PTL

(***************************************************************************)
(* The duty cycles of a torque demand are always computed from a measured  *)
(* angle of known polarity, through the resets and reseeding of foc.rs.    *)
(***************************************************************************)
THEOREM TorqueAlwaysOnKnownPolarity == Spec => []TorqueOnKnownPolarity
<1>1. IInv => TorqueOnKnownPolarity
  BY DEF IInv
<1> QED BY <1>1, InductiveInvariant, PTL

\* A calibration that waits always has the task it waits for spawned.
THEOREM WaitAlwaysHasTask == Spec => []WaitHasTask
<1>1. IInv => WaitHasTask
  BY DEF IInv
<1> QED BY <1>1, InductiveInvariant, PTL

-----------------------------------------------------------------------------
(***************************************************************************)
(* Action properties: each follows from the typing of the state before the *)
(* step, split into the tick of foc_step and the steps between two ticks.  *)
(***************************************************************************)
LEMMA TickFrom ==
  ASSUME TypeInv, FocTick
  PROVE  \E age, feedback, tasks, n, safe, result : TickParts(age, feedback, tasks, n, safe, result)
BY TypeInvModeOK, FocStepParts DEF FocTick

LEMMA StrategyFields ==
  ASSUME NEW m, ModeOK(m)
  PROVE  m.strategy.kind \in Kinds /\ m.strategy.waited \in 0 .. RampDownTicks - 1
<1>1. m.strategy \in Strategies
  BY ModeFields DEF Canonical
<1> QED BY <1>1 DEF Strategies

\* From a fault, a step between two ticks raises a further one, clears it or does nothing.
LEMMA BetweenTicksFaulted ==
  ASSUME ModeOK(mode), BetweenTicks, mode.tag = "Fault"
  PROVE  \/ mode' = mode
         \/ Faults(mode, mode') /\ mode'.tag = "Fault"
         \/ /\ ReceiveFaultClear /\ mode'.tag = "Idle"
            /\ ~RampingDown(mode) /\ ~RampingDown(mode')
<1>1. CASE Faults(mode, mode')
  BY <1>1 DEF Faults
<1>2. CASE ReceiveFaultClear /\ mode' = ClearFault(mode)
  BY <1>2, CanonicalStrategies DEF ClearFault, Idle, Mode, RampingDown, Safe
<1>3. CASE mode' \in Commanded(mode) \/ mode' = RequestTorqueControl(mode)
  BY <1>3 DEF Commanded, StartCalibration, StartsCalibration, ResumeCalibration, EndCalibration,
              RequestIdle, RequestTorqueControl
<1> QED BY <1>1, <1>2, <1>3 DEF BetweenTicks

\* A fault is left through a fault clear of the CAN handler only, once it does not modulate.
THEOREM FaultsAreLatched == Spec => FaultLatched
<1>1. ASSUME TypeInv, [Next]_vars, mode.tag = "Fault", mode'.tag # "Fault"
      PROVE  mode'.tag = "Idle" /\ ~RampingDown(mode') /\ ~RampingDown(mode) /\ ReceiveFaultClear
  <2>1. CASE FocTick
    <3>1. PICK age, feedback, tasks, n, safe, result : TickParts(age, feedback, tasks, n, safe, result)
      BY <1>1, <2>1, TickFrom
    <3>2. n.tag = "Fault"
      BY <1>1, <3>1 DEF TickParts, Checked, Escalates
    <3>3. mode'.tag = n.tag
      BY <1>1, <3>1, TickMode
    <3> QED BY <1>1, <3>2, <3>3
  <2>2. CASE ~FocTick
    BY <1>1, <2>2, TypeInvModeOK, NextBetweenTicks, BetweenTicksFaulted
  <2> QED BY <2>1, <2>2
<1>2. IInv /\ [Next]_vars => [mode.tag = "Fault" /\ mode'.tag # "Fault" =>
        mode'.tag = "Idle" /\ ~RampingDown(mode') /\ ~RampingDown(mode) /\ ReceiveFaultClear]_vars
  BY <1>1 DEF IInv
<1> QED BY <1>2, InductiveInvariant, PTL DEF Spec, FaultLatched

(***************************************************************************)
(* fault_evolve and the tick of the safe strategy together never replace   *)
(* the reaction to a fault by a lesser one.                                *)
(***************************************************************************)
THEOREM ReactionsNeverDowngrade == Spec => ReactionNeverDowngrades
<1> DEFINE Kept ==
      /\ mode.strategy.kind = "STOf" => mode'.strategy.kind = "STOf"
      /\ mode'.strategy.kind = "RampDown" =>
           mode.strategy.kind = "RampDown" /\ mode'.strategy.waited >= mode.strategy.waited
      /\ mode.strategy.kind = "ASC" /\ mode'.strategy.kind = "STO" =>
           FocTick /\ dc_bus_v \in {"under", "ordinary"}
<1>1. ASSUME TypeInv, [Next]_vars, mode.tag = "Fault", mode'.tag = "Fault"
      PROVE  Kept
  <2>1. /\ ModeOK(mode) /\ mode.strategy.kind \in Kinds /\ mode.strategy.waited \in Nat
    BY <1>1, TypeInvModeOK, StrategyFields
  <2>2. CASE FocTick
    <3>1. PICK age, feedback, tasks, n, safe, result : TickParts(age, feedback, tasks, n, safe, result)
      BY <1>1, <2>2, TickFrom
    <3>2. n.tag = "Fault" /\ ModeOK(n) /\ Reacts(mode.strategy, n.strategy)
      BY <1>1, <3>1 DEF TickParts, Checked, Escalates
    <3>3. n.strategy.kind \in Kinds /\ n.strategy.waited \in Nat
      BY <3>2, StrategyFields
    <3>4. CASE dc_bus_v = "none"
      <4>1. mode' = n
        BY <3>1, <3>4 DEF TickParts
      <4> QED BY <2>1, <3>2, <3>3, <4>1 DEF Reacts
    <3>5. CASE dc_bus_v # "none"
      <4>1. /\ Ticks(n, safe)
            /\ mode' = safe \/ (Escalates(safe, mode') /\ mode'.strategy.kind # "RampDown")
        BY <3>1, <3>5, TickEnds
      <4>2. StrategyTicks(n.strategy, safe.strategy, dc_bus_v) /\ safe.tag = "Fault" /\ ModeOK(safe)
        BY <3>2, <4>1 DEF Ticks, Safe
      <4>3. safe.strategy.kind \in Kinds
        BY <4>2, ModeFields DEF Canonical, Strategies
      <4>4. CASE mode' = safe
        BY <2>1, <2>2, <3>2, <3>3, <4>2, <4>4 DEF Reacts, StrategyTicks, Kinds
      <4>5. CASE Escalates(safe, mode') /\ mode'.strategy.kind # "RampDown"
        <5>1. Reacts(safe.strategy, mode'.strategy)
          BY <4>2, <4>5 DEF Escalates
        <5> QED BY <2>1, <2>2, <3>2, <3>3, <4>2, <4>3, <4>5, <5>1 DEF Reacts, StrategyTicks, Kinds
      <4> QED BY <4>1, <4>4, <4>5
    <3> QED BY <3>4, <3>5
  <2>3. CASE ~FocTick
    <3>1. mode' = mode \/ Reacts(mode.strategy, mode'.strategy)
      BY <1>1, <2>1, <2>3, NextBetweenTicks, BetweenTicksFaulted DEF Faults, Escalates
    <3> QED BY <2>1, <3>1 DEF Reacts
  <2> QED BY <2>2, <2>3
<1>2. IInv /\ [Next]_vars => [mode.tag = "Fault" /\ mode'.tag = "Fault" => Kept]_vars
  BY <1>1 DEF IInv
<1> QED BY <1>2, InductiveInvariant, PTL DEF Spec, ReactionNeverDowngrades

\* The fault trace only grows while the drive stays faulted.
THEOREM TraceOnlyGrows == Spec => TraceAppendOnly
<1>1. ASSUME TypeInv, [Next]_vars, mode.tag = "Fault", mode'.tag = "Fault"
      PROVE  IsPrefix(mode.trace, mode'.trace)
  <2>1. ModeOK(mode) /\ mode.trace \in Seq(Causes)
    BY <1>1, TypeInvModeOK, ModeFields DEF TraceType
  <2>2. CASE FocTick
    <3>1. PICK age, feedback, tasks, n, safe, result : TickParts(age, feedback, tasks, n, safe, result)
      BY <1>1, <2>2, TickFrom
    <3>2. n.tag = "Fault" /\ ModeOK(n) /\ IsPrefix(mode.trace, n.trace)
      BY <1>1, <3>1 DEF TickParts, Checked, Escalates
    <3>3. CASE dc_bus_v = "none"
      BY <3>1, <3>2, <3>3 DEF TickParts
    <3>4. CASE dc_bus_v # "none"
      <4>1. Ticks(n, safe) /\ (mode' = safe \/ Escalates(safe, mode'))
        BY <3>1, <3>4, TickEnds
      <4>2. safe.trace = n.trace /\ safe.tag = "Fault" /\ ModeOK(safe)
        BY <3>2, <4>1 DEF Ticks
      <4>3. CASE mode' = safe
        BY <3>2, <4>2, <4>3
      <4>4. CASE Escalates(safe, mode')
        <5>1. IsPrefix(safe.trace, mode'.trace) /\ ModeOK(mode')
          BY <4>2, <4>4 DEF Escalates
        <5>2. safe.trace \in Seq(Causes) /\ mode'.trace \in Seq(Causes)
          BY <1>1, <4>2, <5>1, ModeFields DEF TraceType
        <5> QED BY <2>1, <3>2, <4>2, <5>1, <5>2, PrefixTransitive
      <4> QED BY <4>1, <4>3, <4>4
    <3> QED BY <3>3, <3>4
  <2>3. CASE ~FocTick
    BY <1>1, <2>1, <2>3, NextBetweenTicks, BetweenTicksFaulted, PrefixReflexive DEF Faults, Escalates
  <2> QED BY <2>2, <2>3
<1>2. IInv /\ [Next]_vars =>
        [mode.tag = "Fault" /\ mode'.tag = "Fault" => IsPrefix(mode.trace, mode'.trace)]_vars
  BY <1>1 DEF IInv
<1> QED BY <1>2, InductiveInvariant, PTL DEF Spec, TraceAppendOnly

(***************************************************************************)
(* A deferred current diagnosis or an expired watchdog faults the next     *)
(* tick of foc_step, which applies no torque any more.                     *)
(***************************************************************************)
THEOREM FlagsAlwaysLatch == Spec => FlagsLatch
<1>1. ASSUME TypeInv, FocTick, deferred # {} \/ WatchdogReported
      PROVE  mode'.tag = "Fault" /\ pwm'.source \in {"none", "safety"}
  <2>1. Flagged
    BY <1>1 DEF Flagged, TypeInv, TypeOK, DeferredFlags
  <2>2. PICK age, feedback, tasks, n, safe, result : TickParts(age, feedback, tasks, n, safe, result)
    BY <1>1, TickFrom
  <2>3. n.tag = "Fault"
    BY <2>1, <2>2 DEF TickParts, Checked
  <2>4. \A m : SafeOutput(m).source = "none"
    BY DEF SafeOutput, active_short, freewheel, Still
  <2>5. CASE dc_bus_v = "none"
    BY <2>2, <2>3, <2>5 DEF TickParts, freewheel, Still
  <2>6. CASE dc_bus_v # "none"
    <3>1. /\ Ticks(n, safe)
          /\ \/ mode' = safe /\ pwm' = IF Computes(safe) THEN Modulating(Source(safe), feedback)
                                       ELSE SafeOutput(safe)
             \/ mode'.tag = "Fault" /\ pwm' = SafeOutput(mode')
      BY <2>2, <2>6, TickEnds
    <3>2. safe.tag = "Fault" /\ Source(safe) = "safety"
      BY <2>3, <3>1 DEF Ticks, Source, UsesSafetyCommand
    <3>3. Modulating(Source(safe), feedback).source = "safety"
      BY <3>2 DEF Modulating
    <3> QED BY <2>4, <3>1, <3>2, <3>3
  <2> QED BY <2>5, <2>6
<1>2. IInv /\ [Next]_vars => [FocTick /\ (deferred # {} \/ WatchdogReported) =>
        mode'.tag = "Fault" /\ pwm'.source \in {"none", "safety"}]_vars
  BY <1>1 DEF IInv
<1> QED BY <1>2, InductiveInvariant, PTL DEF Spec, FlagsLatch

(***************************************************************************)
(* The output that apply_output puts on the inverter belongs to the mode   *)
(* that the same tick ends in.                                             *)
(***************************************************************************)
THEOREM OutputAlwaysFollowsMode == Spec => OutputFollowsMode
<1>1. ASSUME TypeInv, FocTick PROVE OutputAgrees
  <2>1. PICK age, feedback, tasks, n, safe, result : TickParts(age, feedback, tasks, n, safe, result)
    BY <1>1, TickFrom
  <2>2. CASE dc_bus_v = "none"
    BY <2>1, <2>2 DEF TickParts, OutputAgrees, freewheel, Still
  <2>3. CASE dc_bus_v # "none"
    <3>1. \/ mode' = safe /\ pwm' = IF Computes(safe) THEN Modulating(Source(safe), feedback)
                                    ELSE SafeOutput(safe)
          \/ mode'.tag = "Fault" /\ pwm' = SafeOutput(mode')
      BY <2>1, <2>3, TickEnds
    <3>2. CASE mode' = safe /\ Computes(safe) /\ pwm' = Modulating(Source(safe), feedback)
      BY <2>3, <3>2 DEF OutputAgrees, Modulating, Computes, UsesSafetyCommand, Safe, RampingDown
    <3>3. CASE pwm' = SafeOutput(mode')
      <4>1. pwm' = IF UsesSafetyCommand(mode') /\ mode'.strategy.kind = "ASC"
                   THEN active_short ELSE freewheel
        BY <3>3 DEF SafeOutput
      <4> QED BY <2>3, <4>1 DEF OutputAgrees, UsesSafetyCommand, Safe, active_short, freewheel, Still
    <3> QED BY <3>1, <3>2, <3>3
  <2> QED BY <2>2, <2>3
<1>2. IInv /\ [Next]_vars => [FocTick => OutputAgrees]_vars
  BY <1>1 DEF IInv
<1> QED BY <1>2, InductiveInvariant, PTL DEF Spec, OutputFollowsMode

-----------------------------------------------------------------------------
(***************************************************************************)
(* The drive core implements DrivePromise.  A step between two ticks maps  *)
(* to Command; a tick maps to Tick, whose choice of stance and budget is   *)
(* the mode its checks left, from which the safe strategy then spends.     *)
(***************************************************************************)
LEMMA BudgetBounds ==
  ASSUME NEW m, ModeOK(m)
  PROVE  /\ BudgetOf(m) \in 0 .. RampDownTicks
         /\ BudgetOf(m) = IF RampingDown(m) THEN RampDownTicks - m.strategy.waited ELSE 0
         /\ RampingDown(m) => BudgetOf(m) > 0
BY StrategyFields, SafeStrategyAssumption DEF BudgetOf

LEMMA EscalatesMoves ==
  ASSUME NEW m, ModeOK(m), NEW n, Escalates(m, n)
  PROVE  /\ <<StanceOf(n), BudgetOf(n)>> \in Promise!Moves(StanceOf(m), BudgetOf(m))
         /\ n.tag # "Fault" => StanceOf(n) = StanceOf(m) /\ BudgetOf(n) = BudgetOf(m)
<1>1. m.tag \in Tags /\ ModeOK(n)
  BY ModeFields DEF Escalates
<1>2. CASE n.tag # "Fault"
  <2>1. StanceOf(n) = StanceOf(m) /\ BudgetOf(n) = BudgetOf(m)
    BY <1>1, <1>2 DEF Escalates, StanceOf, BudgetOf, RampingDown, Safe, Tags
  <2> QED BY <2>1 DEF Promise!Moves
<1>3. CASE n.tag = "Fault" /\ m.tag = "Fault"
  <2>1. StanceOf(n) = "faulted" /\ StanceOf(m) = "faulted"
    BY <1>3 DEF StanceOf
  <2>2. BudgetOf(n) \in {0, BudgetOf(m)}
    BY <1>3 DEF Escalates, Reacts, BudgetOf, RampingDown, Safe
  <2> QED BY <1>3, <2>1, <2>2 DEF Promise!Moves
<1>4. CASE n.tag = "Fault" /\ m.tag # "Fault"
  <2>1. StanceOf(n) = "faulted" /\ StanceOf(m) # "faulted"
    BY <1>1, <1>4 DEF StanceOf
  <2>2. BudgetOf(n) \in {0, RampDownTicks}
    BY <1>1, <1>4, BudgetBounds, SafeStrategyAssumption DEF Escalates
  <2> QED BY <1>4, <2>1, <2>2 DEF Promise!Moves
<1> QED BY <1>2, <1>3, <1>4

LEMMA CommandMoves ==
  ASSUME NEW m, ModeOK(m), NEW n \in Commanded(m) \cup {ClearFault(m), RequestTorqueControl(m)}
  PROVE  <<StanceOf(n), BudgetOf(n)>> \in Promise!Moves(StanceOf(m), BudgetOf(m))
<1>1. CASE n = m
  BY <1>1 DEF Promise!Moves
<1>2. CASE n # m
  <2>1. /\ sto.kind = "STO" /\ ramp_down.kind = "RampDown" /\ ramp_down.waited = 0
        /\ RampDownTicks - 0 = RampDownTicks
    BY CanonicalStrategies, SafeStrategyAssumption
  <2>2. CASE n = ClearFault(m)
    <3>1. m.tag = "Fault" /\ m.strategy.kind # "RampDown" /\ n.tag = "Idle" /\ n.strategy.kind # "RampDown"
      BY <1>2, <2>1, <2>2 DEF ClearFault, Idle, Mode
    <3>2. StanceOf(m) = "faulted" /\ BudgetOf(m) = 0 /\ StanceOf(n) = "idle" /\ BudgetOf(n) = 0
      BY <3>1 DEF StanceOf, BudgetOf, RampingDown
    <3> QED BY <3>2 DEF Promise!Moves
  <2>3. CASE n = RequestTorqueControl(m) \/ n = StartCalibration(m)
    <3>1. m.tag = "Idle" /\ n.tag \in {"SaliencyPolarityTest", "Calibration"}
      BY <1>2, <2>3 DEF RequestTorqueControl, StartCalibration, StartsCalibration, Calibrating, Mode
    <3>2. StanceOf(m) = "idle" /\ StanceOf(n) = "armed" /\ BudgetOf(n) = 0
      BY <3>1 DEF StanceOf, BudgetOf, RampingDown, Safe
    <3> QED BY <3>2 DEF Promise!Moves
  <2>4. CASE n = ResumeCalibration(m)
    <3>1. m.tag = "Calibration" /\ n.tag = "Calibration"
      BY <1>2, <2>4 DEF ResumeCalibration, Calibrating, Mode
    <3>2. StanceOf(m) = StanceOf(n) /\ BudgetOf(m) = BudgetOf(n)
      BY <3>1 DEF StanceOf, BudgetOf, RampingDown, Safe
    <3> QED BY <3>2 DEF Promise!Moves
  <2>5. CASE n = EndCalibration(m) \/ n = RequestIdle(m)
    <3>1. /\ m.tag \in {"Calibration", "SaliencyPolarityTest", "TorqueControl"}
          /\ n.tag = "Idle" /\ n.strategy \in {sto, ramp_down}
      BY <1>2, <2>5 DEF EndCalibration, RequestIdle, Idle, Mode
    <3>2. StanceOf(m) = "armed" /\ StanceOf(n) = "idle" /\ BudgetOf(n) \in {0, RampDownTicks}
      BY <2>1, <3>1 DEF StanceOf, BudgetOf, RampingDown
    <3> QED BY <3>2 DEF Promise!Moves
  <2> QED BY <2>2, <2>3, <2>4, <2>5 DEF Commanded
<1> QED BY <1>1, <1>2

\* The tick of the safe strategy spends from the budget or gives it up.
LEMMA TicksSpend ==
  ASSUME NEW n, ModeOK(n), NEW m, Ticks(n, m)
  PROVE  /\ StanceOf(m) = StanceOf(n)
         /\ StanceOf(m) = "armed" <=> ~Safe(m)
         /\ RampingDown(m) => BudgetOf(n) > 0 /\ BudgetOf(m) = BudgetOf(n) - 1
         /\ ~RampingDown(m) => BudgetOf(m) = 0
<1>1. n.tag \in Tags /\ m.tag = n.tag /\ n.strategy.waited \in Int /\ ModeOK(m)
  BY ModeFields, StrategyFields DEF Ticks
<1>2. StanceOf(m) = StanceOf(n) /\ (StanceOf(m) = "armed" <=> ~Safe(m))
  BY <1>1 DEF StanceOf, Safe, Tags
<1>3. ASSUME RampingDown(m) PROVE BudgetOf(n) > 0 /\ BudgetOf(m) = BudgetOf(n) - 1
  <2>1. RampingDown(n) /\ m.strategy.waited = n.strategy.waited + 1
    BY <1>1, <1>3 DEF RampingDown, Ticks, StrategyTicks, Safe
  <2> QED BY <1>1, <1>3, <2>1, BudgetBounds, SafeStrategyAssumption
<1>4. ~RampingDown(m) => BudgetOf(m) = 0
  BY DEF BudgetOf
<1> QED BY <1>2, <1>3, <1>4

LEMMA StanceType ==
  ASSUME NEW m PROVE StanceOf(m) \in Promise!Stances
BY DEF StanceOf, Promise!Stances

LEMMA TickKeepsPromise ==
  ASSUME TypeInv, FocTick PROVE Promise!Tick
<1>1. PICK age, feedback, tasks, n, safe, result : TickParts(age, feedback, tasks, n, safe, result)
  BY TickFrom
<1>2. ModeOK(mode) /\ ModeOK(n) /\ Escalates(mode, n)
  BY <1>1, TypeInvModeOK DEF TickParts, Checked, Escalates
<1>3. /\ BudgetOf(n) \in 0 .. RampDownTicks /\ StanceOf(n) \in Promise!Stances
      /\ \/ StanceOf(n) = StanceOf(mode) /\ BudgetOf(n) = BudgetOf(mode)
         \/ /\ StanceOf(n) = "faulted"
            /\ <<StanceOf(n), BudgetOf(n)>> \in Promise!Moves(StanceOf(mode), BudgetOf(mode))
  BY <1>2, BudgetBounds, StanceType, EscalatesMoves DEF StanceOf
<1>4. /\ \A m : OutputOf(SafeOutput(m)) \in {"floating", "shorted"}
      /\ \A m, f : OutputOf(Modulating(Source(m), f)) = "modulating"
      /\ OutputOf(freewheel) = "floating"
  BY DEF OutputOf, SafeOutput, Modulating, freewheel, active_short, Still
<1>5. CASE dc_bus_v = "none"
  <2>1. mode' = n /\ pwm' = freewheel
    BY <1>1, <1>5 DEF TickParts
  <2> QED BY <1>3, <1>4, <2>1 DEF Promise!Tick
<1>6. CASE dc_bus_v # "none"
  <2>1. /\ Ticks(n, safe)
        /\ \/ mode' = safe /\ pwm' = IF Computes(safe) THEN Modulating(Source(safe), feedback)
                                     ELSE SafeOutput(safe)
           \/ mode'.tag = "Fault" /\ mode'.strategy.kind # "RampDown" /\ pwm' = SafeOutput(mode')
    BY <1>1, <1>6, TickEnds
  <2>2. /\ StanceOf(safe) = StanceOf(n)
        /\ StanceOf(safe) = "armed" <=> ~Safe(safe)
        /\ RampingDown(safe) => BudgetOf(n) > 0 /\ BudgetOf(safe) = BudgetOf(n) - 1
        /\ ~RampingDown(safe) => BudgetOf(safe) = 0
    BY <1>2, <2>1, TicksSpend
  <2>3. CASE mode' = safe /\ Computes(safe) /\ pwm' = Modulating(Source(safe), feedback)
    <3>1. Safe(safe) => RampingDown(safe)
      BY <2>3 DEF Computes, UsesSafetyCommand, Safe, RampingDown
    <3>2. ~Safe(safe) => BudgetOf(n) = 0 /\ BudgetOf(safe) = 0
      BY <2>1 DEF Ticks, BudgetOf, RampingDown, Safe
    <3> QED BY <1>3, <1>4, <2>2, <2>3, <3>1, <3>2 DEF Promise!Tick
  <2>4. CASE mode' = safe /\ ~Computes(safe) /\ pwm' = SafeOutput(safe)
    <3>1. ~RampingDown(safe)
      BY <2>4 DEF Computes, UsesSafetyCommand, Safe, RampingDown
    <3> QED BY <1>3, <1>4, <2>2, <2>4, <3>1 DEF Promise!Tick
  <2>5. CASE mode'.tag = "Fault" /\ mode'.strategy.kind # "RampDown" /\ pwm' = SafeOutput(mode')
    <3>1. StanceOf(mode') = "faulted" /\ BudgetOf(mode') = 0
      BY <2>5 DEF StanceOf, BudgetOf, RampingDown
    <3>2. <<"faulted", 0>> \in Promise!Moves(StanceOf(mode), BudgetOf(mode))
      BY DEF Promise!Moves
    <3>3. 0 \in 0 .. RampDownTicks /\ "faulted" \in Promise!Stances
      BY SafeStrategyAssumption DEF Promise!Stances
    <3> QED BY <1>4, <2>5, <3>1, <3>2, <3>3 DEF Promise!Tick
  <2> QED BY <2>1, <2>3, <2>4, <2>5
<1> QED BY <1>5, <1>6

LEMMA BetweenTicksKeepsPromise ==
  ASSUME ModeOK(mode), BetweenTicks PROVE Promise!Command
<1>1. <<StanceOf(mode'), BudgetOf(mode')>> \in Promise!Moves(StanceOf(mode), BudgetOf(mode))
  BY EscalatesMoves, CommandMoves DEF BetweenTicks, Faults
<1> QED BY <1>1 DEF Promise!Command, BetweenTicks

(***************************************************************************)
(* The drive core implements its promise: a disarmed drive modulates for   *)
(* at most RampDownTicks ticks of the current loop, and a fault is cleared *)
(* no earlier than that - for every ramp-down duration, every number of    *)
(* fault causes and every interleaving.                                    *)
(***************************************************************************)
THEOREM DriveKeepsPromise == Spec => KeepsPromise
<1>1. Init => Promise!Init
  <2>1. SUFFICES ASSUME Init PROVE Promise!Init
    OBVIOUS
  <2>2. Safe(mode) /\ ~RampingDown(mode)
    BY <2>1, BootedIsOK DEF Init, RampingDown
  <2>3. StanceOf(mode) \in {"idle", "faulted"} /\ BudgetOf(mode) = 0
    BY <2>2 DEF StanceOf, BudgetOf, Safe
  <2>4. OutputOf(pwm) = "floating"
    BY <2>1 DEF Init, OutputOf, freewheel, Still
  <2> QED BY <2>3, <2>4 DEF Promise!Init
<1>2. IInv /\ [Next]_vars => [Promise!Next]_(Promise!vars)
  BY TickKeepsPromise, BetweenTicksKeepsPromise, NextBetweenTicks, TypeInvModeOK
     DEF IInv, Promise!Next
<1> QED BY <1>1, <1>2, InductiveInvariant, PTL DEF Spec, KeepsPromise, Promise!Spec
=============================================================================
