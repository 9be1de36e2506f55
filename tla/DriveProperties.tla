--------------------------- MODULE DriveProperties ---------------------------
(***************************************************************************)
(* What the drive core guarantees, whatever order its interrupts, its      *)
(* tasks and the CAN frames come in.                                       *)
(***************************************************************************)
EXTENDS Drive

Safe(m) == m.tag \in {"Idle", "Fault"}
RampingDown(m) == Safe(m) /\ m.strategy.kind = "RampDown"

(***************************************************************************)
(* The shape of the mode: a field that a variant of the enum does not have *)
(* holds its default, a debouncer never rests at TRUE (the tick that       *)
(* commits it replaces the strategy), and the fault trace holds the first  *)
(* causes, each once, with no gap.                                         *)
(***************************************************************************)
TraceOK(m) ==
  IF m.tag = "Fault"
  THEN Len(m.trace) \in 1 .. TraceCapacity /\ IsInjective(m.trace)
  ELSE m.trace = <<>>

WellFormed(m) ==
  /\ m.strategy.should_switch.state = FALSE
  /\ m.strategy.kind \in {"RampDown", "STOf"} => m.strategy.should_switch.count = 0
  /\ m.strategy.kind # "RampDown" => m.strategy.waited = 0
  /\ m.tag = "Idle" => m.strategy.kind # "STOf"
  /\ ~Safe(m) => m.strategy = sto
  /\ m.tag # "Calibration" => m.phase = "Done"
  /\ TraceOK(m)

ModeWellFormed == WellFormed(mode)

(***************************************************************************)
(* Torque control never follows an old setpoint, nor one left over from an *)
(* earlier session: whenever the drive is on its way to torque or in it,   *)
(* the setpoint was written within the timeout (foc_step faults on the     *)
(* tick it becomes stale, can_process restarts it at zero on entry).       *)
(***************************************************************************)
SetpointFresh ==
  mode.tag \in {"SaliencyPolarityTest", "TorqueControl"} => setpoint_age < SetpointTimeoutTicks

(***************************************************************************)
(* Torque is only produced with a measured rotor angle whose magnetic      *)
(* polarity is settled: through the estimators' resets and reseeding, the  *)
(* tick that applies a torque demand had feedback and left the polarity    *)
(* found.  A wrong polarity turns a torque demand into its opposite.       *)
(***************************************************************************)
TorqueOnKnownPolarity ==
  pwm.source = "torque" => pwm.measured /\ polarity = "found"

(***************************************************************************)
(* A calibration that waits for a deferred task has that task queued, so   *)
(* it cannot be stranded: neither by a spawn that found the task already   *)
(* running for an earlier calibration, nor by a task of an earlier         *)
(* calibration that resumed this one.                                      *)
(***************************************************************************)
AwaitedTask(phase) ==
  CASE phase = "ClearingExistingParameters" -> "persist_config"
    [] phase = "WaitingHallCompletion" -> "store_hall_table"
    [] phase = "WaitingTuning" -> "tune_pi"

WaitHasTask ==
  mode.tag = "Calibration" /\ mode.phase \in WaitPhases => AwaitedTask(mode.phase) \in spawned

-----------------------------------------------------------------------------
(***************************************************************************)
(* What a FOC tick applies agrees with the mode it ends in: it modulates   *)
(* on behalf of that mode only, and an idle or faulted drive whose bus is  *)
(* measured floats, shorts or ramps down as its strategy says - also on    *)
(* the tick that entered the mode.                                         *)
(***************************************************************************)
OutputAgrees ==
  /\ pwm'.out = "modulating" => pwm'.source = Source(mode') /\ (Safe(mode') => RampingDown(mode'))
  /\ Safe(mode') /\ dc_bus_v # "none" =>
       /\ mode'.strategy.kind \in {"STO", "STOf"} => pwm' = freewheel
       /\ mode'.strategy.kind = "ASC" => pwm' = active_short
  /\ dc_bus_v = "none" => pwm' = freewheel

OutputFollowsMode == [][FocTick => OutputAgrees]_vars

(***************************************************************************)
(* A fault is left through a fault clear only, to an idle that does not    *)
(* conduct, and never while the ramp-down of its reaction runs.            *)
(***************************************************************************)
FaultLatched ==
  [][mode.tag = "Fault" /\ mode'.tag # "Fault" =>
       mode'.tag = "Idle" /\ ~RampingDown(mode') /\ ~RampingDown(mode) /\ ReceiveFaultClear]_vars

(***************************************************************************)
(* While faulted the reaction never becomes a lesser one: STOf stays, a    *)
(* ramp-down is not restarted nor returned to, and ASC is not given up for *)
(* STO but by a FOC tick that sees its exit conditions hold.               *)
(***************************************************************************)
ReactionNeverDowngrades ==
  [][mode.tag = "Fault" /\ mode'.tag = "Fault" =>
       LET from == mode.strategy
           to == mode'.strategy
       IN  /\ from.kind = "STOf" => to.kind = "STOf"
           /\ to.kind = "RampDown" => from.kind = "RampDown" /\ to.waited >= from.waited
           /\ from.kind = "ASC" /\ to.kind = "STO" =>
                FocTick /\ dc_bus_v \in {"under", "ordinary"}]_vars

\* While faulted the trace only grows: the first causes are never lost or reordered.
TraceAppendOnly ==
  [][mode.tag = "Fault" /\ mode'.tag = "Fault" => IsPrefix(mode.trace, mode'.trace)]_vars

(***************************************************************************)
(* Whatever the checks of one interrupt flagged latches a fault in the     *)
(* next FOC tick and stops torque in that same tick, also when the mode    *)
(* was changed by a task or a fault clear in between.                      *)
(***************************************************************************)
FlagsLatch ==
  [][FocTick /\ (deferred # {} \/ WatchdogReported) =>
       mode'.tag = "Fault" /\ pwm'.source \in {"none", "safety"}]_vars

-----------------------------------------------------------------------------
(***************************************************************************)
(* Liveness.  A ramp-down hands over, whichever faults arrive meanwhile,   *)
(* and a calibration does not wait for ever.                               *)
(***************************************************************************)
RampDownEnds == RampingDown(mode) ~> ~RampingDown(mode)

Waiting == mode.tag = "Calibration" /\ mode.phase \in WaitPhases
WaitEnds == Waiting ~> ~Waiting
=============================================================================
