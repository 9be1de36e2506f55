---------------------------- MODULE OperatingMode ----------------------------
(***************************************************************************)
(* firmware-core/src/app/modes.rs: the operating mode of the controller    *)
(* and the commands that change it.  Each operator is one arm of           *)
(* on_command and returns the mode after the command; a command that the   *)
(* mode does not accept returns the mode unchanged.                        *)
(***************************************************************************)
EXTENDS SafeStrategy, CalibrationRunner, Sequences, SequencesExt

CONSTANT TraceCapacity  \* length of the fault trace array

ASSUME TraceCapacityAssumption == TraceCapacity \in Nat \ {0}

Tags == {"Idle", "Calibration", "SaliencyPolarityTest", "TorqueControl", "Fault"}

(***************************************************************************)
(* A mode is one record for all five variants.  "trace" holds the causes   *)
(* recorded so far (the first write_index entries of the array); a field   *)
(* that a variant does not have keeps the value it has in Mode below.      *)
(***************************************************************************)
Mode(tag) == [tag |-> tag, strategy |-> sto, trace |-> <<>>, phase |-> "Done"]

Idle(strategy) == [Mode("Idle") EXCEPT !.strategy = strategy]
Calibrating(phase) == [Mode("Calibration") EXCEPT !.phase = phase]
Faulted(strategy, trace) == [Mode("Fault") EXCEPT !.strategy = strategy, !.trace = trace]

\* Mutants of Recorded: repeats are recorded; the oldest cause is dropped when full.
RecordedAgain(trace, cause) ==
  IF Len(trace) < TraceCapacity THEN Append(trace, cause) ELSE trace
RecordedRing(trace, cause) ==
  IF cause \in ToSet(trace) THEN trace
  ELSE IF Len(trace) < TraceCapacity THEN Append(trace, cause)
  ELSE Append(Tail(trace), cause)

\* (Fault, AssertFault): the first causes are kept, repeats are not recorded.
Recorded(trace, cause) ==
  IF Len(trace) < TraceCapacity /\ cause \notin ToSet(trace)
  THEN Append(trace, cause)
  ELSE trace

\* Command::AssertFault, accepted in every mode
AssertFault(m, cause) ==
  IF m.tag = "Fault"
  THEN Faulted(FaultEvolve(m.strategy, Reaction(cause)), Recorded(m.trace, cause))
  ELSE Faulted(Reaction(cause), <<cause>>)

AssertFaultIf(m, condition, cause) == IF condition THEN AssertFault(m, cause) ELSE m

\* A mutant of ClearFault: the running ramp-down is not waited for.
ClearFaultMidRampDown(m) ==
  IF m.tag = "Fault"
  THEN Idle(IF m.strategy.kind = "STOf" THEN sto ELSE m.strategy)
  ELSE m

\* Command::ClearFault: refused while the ramp-down is still running
ClearFault(m) ==
  IF m.tag = "Fault" /\ m.strategy.kind # "RampDown"
  THEN Idle(IF m.strategy.kind = "STOf" THEN sto ELSE m.strategy)
  ELSE m

\* Command::StartCalibration
StartsCalibration(m) == m.tag = "Idle" /\ m.strategy.kind # "RampDown"
StartCalibration(m) ==
  IF StartsCalibration(m) THEN Calibrating("ClearingExistingParameters") ELSE m

\* Command::RequestTorqueControl
RequestTorqueControl(m) == IF m.tag = "Idle" THEN Mode("SaliencyPolarityTest") ELSE m

\* Command::ResumeCalibration
ResumeCalibration(m) == IF m.tag = "Calibration" THEN Calibrating(Resumed(m.phase)) ELSE m

\* Command::FinishCalibration and Command::CancelCalibration
EndCalibration(m) == IF m.tag = "Calibration" THEN Idle(sto) ELSE m

\* Command::Idle, which the CAN handler always sends with a fresh ramp-down
RequestIdle(m) ==
  IF m.tag \in {"SaliencyPolarityTest", "TorqueControl"} THEN Idle(ramp_down) ELSE m

\* Command::EnableTorqueControl
EnableTorqueControl(m) ==
  IF m.tag = "SaliencyPolarityTest" THEN Mode("TorqueControl") ELSE m

\* OperatingMode::foc_gate, field by field
GateActive(m) ==
  CASE m.tag = "Idle" -> m.strategy.kind = "RampDown"
    [] m.tag = "Calibration" -> m.phase \notin WaitPhases
    [] OTHER -> m.tag # "Fault"
UsesSafetyCommand(m) == m.tag \in {"Idle", "Fault"}
FeedbackOptional(m) == m.tag \in {"Idle", "Calibration", "Fault"}

\* What every reachable mode looks like, for causes drawn from a set.
ModeOf(causes) ==
  [tag : Tags, strategy : Strategies, trace : Seq(causes), phase : Phases]
=============================================================================
