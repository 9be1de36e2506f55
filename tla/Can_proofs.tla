------------------------------ MODULE Can_proofs ------------------------------
(***************************************************************************)
(* Proofs about the CAN node, for every configuration a host can send and  *)
(* every value of the other constants.                                     *)
(***************************************************************************)
EXTENDS CanProperties, TLAPS

(***************************************************************************)
(* The inductive invariant.  A configuration frame in flight is one of the *)
(* host's; the configuration is in order; an idle-only frame that was      *)
(* taken is still handled at rest; nothing happens after the reset.        *)
(***************************************************************************)
Honest(f) == f # NoFrame /\ f.id \in ConfigIds => f \in ConfigFrames

FramesHonest ==
  /\ Honest(wire) /\ Honest(handling)
  /\ \E S : rx \in Seq(S) /\ \A f \in S : Honest(f)

ConfigInOrder == config \in ConfigType /\ LimitsOrdered

StrategyShape == [kind : Kinds, waited : Int, should_switch : [state : BOOLEAN, count : Int]]
Shape(m) == \E S : m \in [tag : Tags, strategy : StrategyShape, trace : S, phase : Phases]

Resting(m) == m.tag = "Idle" /\ ~Modulates(m)
TakenAtRest == handling # NoFrame /\ IdleOnly(handling) => Resting(mode) \/ (mode.tag = "Fault" /\ interrupted)

MarkedAtReset == status # NoImage => running = "reset" /\ Holds(flash, status)

IInv ==
  /\ FramesHonest
  /\ ConfigInOrder
  /\ Shape(mode) /\ TakenAtRest
  /\ MarkedAtReset

-----------------------------------------------------------------------------
(***************************************************************************)
(* What keeps the order of the limits: every setter an accepted message    *)
(* calls, on whatever configuration the messages before it left.           *)
(***************************************************************************)
LEMMA LesserBounds ==
  ASSUME NEW a \in Int, NEW b \in Int
  PROVE  Lesser(a, b) \in {a, b} /\ Lesser(a, b) <= a /\ Lesser(a, b) <= b
BY DEF Lesser

LEMMA CurrentSetters ==
  ASSUME NEW c \in ConfigType, Ordered(c), NEW v \in Int, NEW w \in Int
  PROVE  /\ SetOvercurrentLimit(c, v) \in ConfigType /\ Ordered(SetOvercurrentLimit(c, v))
         /\ v <= w => SetCurrentLimits(c, v, w) \in ConfigType /\ Ordered(SetCurrentLimits(c, v, w))
         /\ SetCalibrationCurrent(c, v) \in ConfigType /\ Ordered(SetCalibrationCurrent(c, v))
<1>0. /\ c.rated \in Int /\ c.momentary \in Int /\ c.overcurrent \in Int /\ c.calibration_current \in Int
      /\ c.rated <= c.momentary /\ c.momentary <= c.overcurrent /\ c.calibration_current <= c.rated
  BY DEF ConfigType, Ordered
<1>1. SetOvercurrentLimit(c, v) \in ConfigType /\ Ordered(SetOvercurrentLimit(c, v))
  <2> DEFINE rated == Lesser(c.rated, v)
             momentary == Lesser(c.momentary, v)
             calibration == Lesser(c.calibration_current, rated)
  <2>1. rated \in Int /\ rated <= c.rated /\ rated <= v
    BY <1>0, LesserBounds
  <2>2. momentary \in Int /\ rated <= momentary /\ momentary <= v
    BY <1>0 DEF Lesser
  <2>3. calibration \in Int /\ calibration <= rated
    BY <1>0, <2>1, LesserBounds
  <2>4. SetOvercurrentLimit(c, v) =
          [c EXCEPT !.overcurrent = v, !.rated = rated, !.momentary = momentary,
                    !.calibration_current = calibration]
    BY DEF SetOvercurrentLimit, ConfigType
  <2> HIDE DEF rated, momentary, calibration
  <2>5. SetOvercurrentLimit(c, v) \in ConfigType
    <3> DEFINE one == [c EXCEPT !.overcurrent = v, !.rated = rated]
               two == [one EXCEPT !.momentary = momentary, !.calibration_current = calibration]
    <3>1. one \in ConfigType
      BY <2>1 DEF ConfigType
    <3>2. SetOvercurrentLimit(c, v) = two
      BY <2>4 DEF ConfigType
    <3> HIDE DEF one
    <3> QED BY <2>2, <2>3, <3>1, <3>2 DEF ConfigType
  <2> QED BY <2>1, <2>2, <2>3, <2>4, <2>5 DEF ConfigType, Ordered
<1>2. ASSUME v <= w
      PROVE  SetCurrentLimits(c, v, w) \in ConfigType /\ Ordered(SetCurrentLimits(c, v, w))
  <2> DEFINE rated == Lesser(v, c.overcurrent)
             momentary == Lesser(w, c.overcurrent)
             calibration == Lesser(c.calibration_current, rated)
  <2>1. rated \in Int /\ rated <= c.overcurrent
    BY <1>0, LesserBounds
  <2>2. momentary \in Int /\ rated <= momentary /\ momentary <= c.overcurrent
    BY <1>0, <1>2 DEF Lesser
  <2>3. calibration \in Int /\ calibration <= rated
    BY <1>0, <2>1, LesserBounds
  <2>4. SetCurrentLimits(c, v, w) =
          [c EXCEPT !.rated = rated, !.momentary = momentary, !.calibration_current = calibration]
    BY DEF SetCurrentLimits, ConfigType
  <2> HIDE DEF rated, momentary, calibration
  <2>5. SetCurrentLimits(c, v, w) \in ConfigType
    <3> DEFINE one == [c EXCEPT !.rated = rated, !.momentary = momentary]
    <3>1. one \in ConfigType
      BY <2>1, <2>2 DEF ConfigType
    <3>2. SetCurrentLimits(c, v, w) = [one EXCEPT !.calibration_current = calibration]
      BY <2>4 DEF ConfigType
    <3> HIDE DEF one
    <3> QED BY <2>3, <3>1, <3>2 DEF ConfigType
  <2> QED BY <2>1, <2>2, <2>3, <2>4, <2>5 DEF ConfigType, Ordered
<1>3. SetCalibrationCurrent(c, v) \in ConfigType /\ Ordered(SetCalibrationCurrent(c, v))
  <2> DEFINE calibration == Lesser(v, c.rated)
  <2>1. calibration \in Int /\ calibration <= c.rated
    BY <1>0, LesserBounds
  <2>2. SetCalibrationCurrent(c, v) = [c EXCEPT !.calibration_current = calibration]
    BY DEF SetCalibrationCurrent
  <2> HIDE DEF calibration
  <2> QED BY <2>1, <2>2 DEF ConfigType, Ordered
<1> QED BY <1>1, <1>2, <1>3

LEMMA SpeedSetters ==
  ASSUME NEW c \in ConfigType, Ordered(c), NEW v \in Nat
  PROVE  /\ SetRotorSpeedLimit(c, v) \in ConfigType /\ Ordered(SetRotorSpeedLimit(c, v))
         /\ SetRotorOverspeedLimit(c, v) \in ConfigType /\ Ordered(SetRotorOverspeedLimit(c, v))
<1>0. c.speed \in Nat /\ c.overspeed \in Nat
  BY DEF ConfigType
<1>1. SetRotorSpeedLimit(c, v) \in ConfigType /\ Ordered(SetRotorSpeedLimit(c, v))
  <2> DEFINE speed == Lesser(v, c.overspeed)
  <2>1. speed \in Nat /\ speed <= c.overspeed
    BY <1>0, LesserBounds
  <2>2. SetRotorSpeedLimit(c, v) = [c EXCEPT !.speed = speed]
    BY DEF SetRotorSpeedLimit
  <2> HIDE DEF speed
  <2> QED BY <2>1, <2>2 DEF ConfigType, Ordered
<1>2. SetRotorOverspeedLimit(c, v) \in ConfigType /\ Ordered(SetRotorOverspeedLimit(c, v))
  <2> DEFINE speed == Lesser(c.speed, v)
  <2>1. speed \in Nat /\ speed <= v
    BY <1>0, LesserBounds
  <2>2. SetRotorOverspeedLimit(c, v) = [c EXCEPT !.overspeed = v, !.speed = speed]
    BY DEF SetRotorOverspeedLimit, ConfigType
  <2> HIDE DEF speed
  <2> QED BY <2>1, <2>2 DEF ConfigType, Ordered
<1> QED BY <1>1, <1>2

LEMMA RangeSetters ==
  ASSUME NEW c \in ConfigType, Ordered(c), NEW v \in Int, NEW w \in Int
  PROVE  /\ v < w => SetDcBusLimits(c, v, w) \in ConfigType /\ Ordered(SetDcBusLimits(c, v, w))
         /\ v <= w => SetBraking(c, v, w) \in ConfigType /\ Ordered(SetBraking(c, v, w))
<1>1. ASSUME v < w PROVE SetDcBusLimits(c, v, w) \in ConfigType /\ Ordered(SetDcBusLimits(c, v, w))
  BY <1>1 DEF ConfigType, Ordered, SetDcBusLimits
<1>2. ASSUME v <= w PROVE SetBraking(c, v, w) \in ConfigType /\ Ordered(SetBraking(c, v, w))
  BY <1>2 DEF ConfigType, Ordered, SetBraking
<1> QED BY <1>1, <1>2

(***************************************************************************)
(* An accepted message leaves a configuration in order.  Its setters run   *)
(* one after another: the second sees what the first has left.             *)
(***************************************************************************)
LEMMA CandidateKeepsOrder ==
  ASSUME NEW c \in ConfigType, Ordered(c), NEW f \in ConfigFrameType, Accepts(f)
  PROVE  Candidate(c, f) \in ConfigType /\ Ordered(Candidate(c, f))
<1>1. f.id \in ConfigIds
  BY DEF ConfigFrameType, ConfigIds
<1>2. CASE f.id = "ProtectionLimits1"
  <2>1. f \in [id : {"ProtectionLimits1"}, dc_min : Int, dc_max : Int, braking : Int, braking_fault : Int]
    BY <1>2 DEF ConfigFrameType
  <2>2. f.dc_min < f.dc_max /\ f.braking <= f.braking_fault
    BY <1>2 DEF Accepts, DcBusLimitsValid, BrakingValid
  <2> DEFINE d == SetDcBusLimits(c, f.dc_min, f.dc_max)
  <2>3. d \in ConfigType /\ Ordered(d)
    BY <2>1, <2>2, RangeSetters
  <2>4. Candidate(c, f) = SetBraking(d, f.braking, f.braking_fault)
    BY <1>2 DEF Candidate
  <2> HIDE DEF d
  <2> QED BY <2>1, <2>2, <2>3, <2>4, RangeSetters
<1>3. CASE f.id = "ProtectionLimits2"
  <2>1. f.timeout \in Nat /\ f.temp_max \in Int
    BY <1>3 DEF ConfigFrameType
  <2>2. Candidate(c, f) = [c EXCEPT !.timeout = f.timeout, !.temp_max = f.temp_max]
    BY <1>3 DEF Candidate
  <2> QED BY <2>1, <2>2 DEF ConfigType, Ordered
<1>4. CASE f.id = "MotorConfig"
  <2>1. f.overcurrent \in Int /\ f.overspeed \in Nat
    BY <1>4 DEF ConfigFrameType
  <2> DEFINE d == SetOvercurrentLimit(c, f.overcurrent)
  <2>2. d \in ConfigType /\ Ordered(d)
    BY <2>1, CurrentSetters
  <2>3. Candidate(c, f) = SetRotorOverspeedLimit(d, f.overspeed)
    BY <1>4 DEF Candidate
  <2> HIDE DEF d
  <2> QED BY <2>1, <2>2, <2>3, SpeedSetters
<1>5. CASE f.id = "MotorLimits"
  <2>1. f.rated \in Int /\ f.momentary \in Int /\ f.speed \in Nat
    BY <1>5 DEF ConfigFrameType
  <2>2. f.rated <= f.momentary
    BY <1>5 DEF Accepts, CurrentLimitsValid
  <2> DEFINE d == SetCurrentLimits(c, f.rated, f.momentary)
  <2>3. d \in ConfigType /\ Ordered(d)
    BY <2>1, <2>2, CurrentSetters
  <2>4. Candidate(c, f) = SetRotorSpeedLimit(d, f.speed)
    BY <1>5 DEF Candidate
  <2> HIDE DEF d
  <2> QED BY <2>1, <2>3, <2>4, SpeedSetters
<1>6. CASE f.id = "CalibrationTargets"
  <2>1. f.calibration_voltage \in Int /\ f.calibration_current \in Int /\ f.sweep \in Int /\ f.spin \in Int
    BY <1>6 DEF ConfigFrameType
  <2> DEFINE d == SetCalibrationCurrent(c, f.calibration_current)
  <2>2. d \in ConfigType /\ Ordered(d)
    BY <2>1, CurrentSetters
  <2>3. Candidate(c, f) = [d EXCEPT !.calibration_voltage = f.calibration_voltage,
                                    !.sweep = f.sweep, !.spin = f.spin]
    BY <1>6 DEF Candidate
  <2> HIDE DEF d
  <2> QED BY <2>1, <2>2, <2>3 DEF ConfigType, Ordered
<1>7. CASE f.id = "SensorlessConfig1"
  <2>1. /\ f.hfi \in Int /\ f.hfi_startup \in Int /\ f.low_threshold \in Int
        /\ f.high_threshold \in Int /\ f.low_pll \in Int /\ f.high_pll \in Int
    BY <1>7 DEF ConfigFrameType
  <2>2. f.low_threshold <= f.high_threshold
    BY <1>7 DEF Accepts, SensorlessValid
  <2>3. Candidate(c, f) = SetSensorless(c, f)
    BY <1>7 DEF Candidate
  <2> DEFINE one == [c EXCEPT !.hfi = f.hfi, !.hfi_startup = f.hfi_startup]
             two == [one EXCEPT !.low_pll = f.low_pll, !.high_pll = f.high_pll]
             three == [two EXCEPT !.low_threshold = f.low_threshold, !.high_threshold = f.high_threshold]
  <2>4. one \in ConfigType /\ Ordered(one)
    BY <2>1 DEF ConfigType, Ordered
  <2>5. SetSensorless(c, f) = three
    BY DEF SetSensorless, ConfigType
  <2> HIDE DEF one
  <2>6. two \in ConfigType /\ Ordered(two)
    BY <2>1, <2>4 DEF ConfigType, Ordered
  <2> HIDE DEF two
  <2>7. three \in ConfigType /\ Ordered(three)
    BY <2>1, <2>2, <2>6 DEF ConfigType, Ordered
  <2> QED BY <2>3, <2>5, <2>7
<1>8. CASE f.id = "SensorlessConfig2"
  <2>1. f.gamma \in Int /\ f.alpha \in Int
    BY <1>8 DEF ConfigFrameType
  <2>2. Candidate(c, f) = [c EXCEPT !.gamma = f.gamma, !.alpha = f.alpha]
    BY <1>8 DEF Candidate
  <2> QED BY <2>1, <2>2 DEF ConfigType, Ordered
<1> QED BY <1>1, <1>2, <1>3, <1>4, <1>5, <1>6, <1>7, <1>8 DEF ConfigIds

-----------------------------------------------------------------------------
\* What every handler does with the frame it handles.

LEMMA HandlerTakesFrame ==
  ASSUME Handlers
  PROVE  /\ running = "can_process" /\ handling # NoFrame /\ handling' = NoFrame
         /\ wire' = wire /\ rx' = rx /\ interrupted' = FALSE
<1>1. ASSUME NEW ids, Handles(ids)
      PROVE  /\ running = "can_process" /\ handling # NoFrame /\ handling' = NoFrame
             /\ wire' = wire /\ rx' = rx /\ interrupted' = FALSE
  BY <1>1 DEF Handles, hostVars
<1>2. HandleModeRequest \/ AcceptSetpoint \/ RejectSetpoint \/ HandleConfig \/ HandleQuery \/ HandleCapture
      => \E ids : Handles(ids)
  BY DEF HandleModeRequest, AcceptSetpoint, RejectSetpoint, HandleConfig, HandleQuery, HandleCapture
<1>3. ChunkOutOfSequence \/ ChunkTooMuch \/ ChunkStaged \/ StageWritten \/ StageFails => \E ids : Handles(ids)
  BY DEF ChunkOutOfSequence, ChunkTooMuch, ChunkStaged, StageWritten, StageFails, FullStage
<1>4. ApplyIncomplete \/ FlushFails \/ ApplyMismatched \/ MarkFails \/ ApplyUpdate => \E ids : Handles(ids)
  BY DEF ApplyIncomplete, FlushFails, ApplyMismatched, MarkFails, ApplyUpdate, Applies
<1> QED BY <1>1, <1>2, <1>3, <1>4 DEF Handlers

(***************************************************************************)
(* The frames in flight stay the host's: the bus delivers, loses, repeats  *)
(* or corrupts what is on the wire, and the host puts its own frames on it.*)
(***************************************************************************)
LEMMA InterruptKeepsHonest ==
  ASSUME FramesHonest, NEW frame, Honest(frame), CanInterrupt(frame)
  PROVE  \E S : rx' \in Seq(S) /\ \A f \in S : Honest(f)
<1>1. PICK S : rx \in Seq(S) /\ \A f \in S : Honest(f)
  BY DEF FramesHonest
<1> DEFINE T == S \cup {frame}
<1>2. rx \in Seq(T)
  BY <1>1
<1>3. rx' \in Seq(T)
  <2>1. Append(rx, frame) \in Seq(T)
    BY <1>2
  <2> QED BY <1>2, <2>1 DEF CanInterrupt
<1>4. \A f \in T : Honest(f)
  BY <1>1
<1> HIDE DEF T
<1> QED BY <1>3, <1>4

LEMMA NextFrames ==
  ASSUME FramesHonest, Next PROVE FramesHonest'
<1>0. Honest(wire) /\ Honest(handling) /\ Honest(NoFrame)
  BY DEF FramesHonest, Honest
<1>1. CASE UNCHANGED <<wire, rx, handling>>
  BY <1>1 DEF FramesHonest, Honest
<1>2. CASE Bus
  <2>1. CASE FrameArrives
    <3>1. \E S : rx' \in Seq(S) /\ \A f \in S : Honest(f)
      BY <1>0, <2>1, InterruptKeepsHonest DEF FrameArrives
    <3>2. wire' = NoFrame /\ handling' = handling
      BY <2>1 DEF FrameArrives, taskVars
    <3> QED BY <1>0, <3>1, <3>2 DEF FramesHonest, Honest
  <2>2. CASE FrameIsLost
    <3>1. wire' = NoFrame /\ handling' = handling /\ rx' = rx
      BY <2>2 DEF FrameIsLost, taskVars
    <3> QED BY <1>0, <3>1 DEF FramesHonest, Honest
  <2>3. CASE FrameIsRepeated
    <3>1. \E S : rx' \in Seq(S) /\ \A f \in S : Honest(f)
      BY <1>0, <2>3, InterruptKeepsHonest DEF FrameIsRepeated
    <3>2. wire' = wire /\ handling' = handling
      BY <2>3 DEF FrameIsRepeated, taskVars
    <3> QED BY <1>0, <3>1, <3>2 DEF FramesHonest, Honest
  <2>4. CASE SetpointIsCorrupted
    <3> DEFINE frame == [id |-> "Setpoint", number |-> wire.number, intact |-> FALSE]
    <3>1. Honest(frame)
      BY DEF Honest, ConfigIds
    <3>2. CanInterrupt(frame) /\ wire' = NoFrame /\ handling' = handling
      BY <2>4 DEF SetpointIsCorrupted, taskVars
    <3>3. \E S : rx' \in Seq(S) /\ \A f \in S : Honest(f)
      BY <3>1, <3>2, InterruptKeepsHonest
    <3> QED BY <1>0, <3>2, <3>3 DEF FramesHonest, Honest
  <2>5. CASE FrameIsSent
    BY <1>1, <2>5 DEF FrameIsSent, taskVars
  <2> QED BY <1>2, <2>1, <2>2, <2>3, <2>4, <2>5 DEF Bus
<1>3. CASE Telemetry \/ DumpFrameIsQueued \/ ControlTick \/ PersistConfig \/ Rebooting
  <2>1. UNCHANGED <<wire, rx, handling>>
    BY <1>3 DEF Telemetry, DumpFrameIsQueued, ControlTick, Control, PersistConfig, Rebooting, vars, hostVars, taskVars
  <2> QED BY <1>1, <2>1
<1>4. CASE Runs \/ FindsNone \/ Ends
  BY <1>1, <1>4 DEF Runs, FindsNone, Ends, hostVars
<1>5. CASE Takes
  <2>1. PICK S : rx \in Seq(S) /\ \A f \in S : Honest(f)
    BY DEF FramesHonest
  <2>2. rx # <<>> /\ rx' = Tail(rx) /\ handling' \in {Head(rx), NoFrame} /\ wire' = wire
    BY <1>5 DEF Takes, hostVars
  <2>3. Head(rx) \in S /\ Tail(rx) \in Seq(S)
    BY <2>1, <2>2
  <2> QED BY <1>0, <2>1, <2>2, <2>3 DEF FramesHonest, Honest
<1>6. CASE Handlers
  <2>1. handling' = NoFrame /\ wire' = wire /\ rx' = rx
    BY <1>6, HandlerTakesFrame
  <2> QED BY <1>0, <2>1 DEF FramesHonest, Honest
<1>7. CASE Host
  <2>1. ASSUME NEW f, Puts(f), Honest(f) PROVE FramesHonest'
    <3>1. wire' = f /\ rx' = rx /\ handling' = handling
      BY <2>1 DEF Puts, taskVars
    <3> QED BY <2>1, <3>1 DEF FramesHonest, Honest
  <2>2. \A f : f \in ConfigFrames \/ f.id \notin ConfigIds => Honest(f)
    BY DEF Honest
  <2>3. CASE HostRequests
    BY <2>1, <2>2, <2>3 DEF HostRequests, ConfigIds
  <2>4. CASE HostConfigures
    BY <2>1, <2>2, <2>4 DEF HostConfigures
  <2>5. CASE HostDemandsTorque
    BY <2>1, <2>2, <2>5 DEF HostDemandsTorque, ConfigIds
  <2>6. CASE HostQueries
    BY <2>1, <2>2, <2>6 DEF HostQueries, ConfigIds
  <2>7. CASE HostCaptures
    BY <2>1, <2>2, <2>7 DEF HostCaptures, ConfigIds
  <2>8. CASE HostSendsChunk
    BY <2>1, <2>2, <2>8 DEF HostSendsChunk, ConfigIds
  <2>9. CASE HostApplies
    BY <2>1, <2>2, <2>9 DEF HostApplies, ConfigIds
  <2>10. CASE HostRecovers
    BY <2>1, <2>2, <2>10 DEF HostRecovers, ConfigIds
  <2>11. CASE HostTimesOut \/ HostSwitches
    BY <1>1, <2>11 DEF HostTimesOut, HostSwitches, busVars, taskVars
  <2> QED BY <1>7, <2>3, <2>4, <2>5, <2>6, <2>7, <2>8, <2>9, <2>10, <2>11 DEF Host
<1> QED BY <1>2, <1>3, <1>4, <1>5, <1>6, <1>7 DEF Next, ReceiveTask

-----------------------------------------------------------------------------
\* Only an accepted configuration frame changes the configuration.

LEMMA OthersKeepConfig ==
  ASSUME Next, ~HandleConfig PROVE config' = config
<1>1. CASE Bus
  BY <1>1 DEF Bus, FrameArrives, FrameIsLost, FrameIsRepeated, SetpointIsCorrupted, FrameIsSent, configVars
<1>2. CASE Telemetry \/ DumpFrameIsQueued \/ ControlTick \/ PersistConfig \/ Rebooting
  BY <1>2 DEF Telemetry, DumpFrameIsQueued, ControlTick, Control, PersistConfig, Rebooting, configVars, vars
<1>3. CASE Runs \/ Takes \/ FindsNone \/ Ends
  BY <1>3 DEF Runs, Takes, FindsNone, Ends, configVars
<1>4. CASE Handlers
  <2>1. CASE HandleModeRequest \/ AcceptSetpoint \/ RejectSetpoint \/ HandleQuery \/ HandleCapture
    BY <2>1 DEF HandleModeRequest, AcceptSetpoint, RejectSetpoint, HandleQuery, HandleCapture, configVars
  <2>2. CASE ChunkOutOfSequence \/ ChunkTooMuch \/ ChunkStaged \/ StageWritten \/ StageFails
    BY <2>2 DEF ChunkOutOfSequence, ChunkTooMuch, ChunkStaged, StageWritten, StageFails, FullStage, configVars
  <2>3. CASE ApplyIncomplete \/ FlushFails \/ ApplyMismatched \/ MarkFails \/ ApplyUpdate
    BY <2>3 DEF ApplyIncomplete, FlushFails, ApplyMismatched, MarkFails, ApplyUpdate, Applies, configVars
  <2> QED BY <1>4, <2>1, <2>2, <2>3 DEF Handlers
<1>5. CASE Host
  BY <1>5 DEF Host, HostRequests, HostConfigures, HostDemandsTorque, HostQueries, HostCaptures,
     HostSendsChunk, HostTimesOut, HostApplies, HostRecovers, HostSwitches, Puts, configVars
<1> QED BY <1>1, <1>2, <1>3, <1>4, <1>5 DEF Next, ReceiveTask

LEMMA NextConfig ==
  ASSUME FramesHonest, ConfigInOrder, Next PROVE ConfigInOrder'
<1>1. CASE HandleConfig /\ Accepts(handling)
  <2>1. handling # NoFrame /\ handling.id \in ConfigIds /\ config' = Candidate(config, handling)
    BY <1>1 DEF HandleConfig, Handles
  <2>2. handling \in ConfigFrameType
    BY <2>1, CanNodeAssumption DEF FramesHonest, Honest
  <2> QED BY <1>1, <2>1, <2>2, CandidateKeepsOrder DEF ConfigInOrder, LimitsOrdered
<1>2. CASE HandleConfig /\ ~Accepts(handling)
  BY <1>2 DEF HandleConfig, configVars, ConfigInOrder, LimitsOrdered
<1>3. CASE ~HandleConfig
  BY <1>3, OthersKeepConfig DEF ConfigInOrder, LimitsOrdered
<1> QED BY <1>1, <1>2, <1>3

-----------------------------------------------------------------------------
(***************************************************************************)
(* A control tick that comes between the check and the handling of an      *)
(* idle-only frame leaves an idle drive at rest, or raises a fault.        *)
(***************************************************************************)
LEMMA StrategiesShaped ==
  ASSUME NEW s \in {sto, asc, stof, ramp_down}
  PROVE  s \in StrategyShape
<1>1. ASSUME NEW kind \in Kinds PROVE Strategy(kind) \in StrategyShape
  BY <1>1 DEF Strategy, StrategyShape, DebouncedNew
<1>2. {"STO", "ASC", "STOf", "RampDown"} \subseteq Kinds
  BY DEF Kinds
<1> QED BY <1>1, <1>2 DEF sto, asc, stof, ramp_down

LEMMA ReactionShaped ==
  ASSUME NEW cause
  PROVE  Reaction(cause) \in {sto, asc, stof, ramp_down}
BY DEF Reaction

LEMMA FaultShaped ==
  ASSUME NEW m, Shape(m), NEW cause
  PROVE  Shape(AssertFault(m, cause)) /\ AssertFault(m, cause).tag = "Fault"
<1>1. Reaction(cause) \in {sto, asc, stof, ramp_down}
  BY ReactionShaped
<1>2. m.strategy \in StrategyShape
  BY DEF Shape
<1>3. FaultEvolve(m.strategy, Reaction(cause)) \in StrategyShape
  BY <1>1, <1>2, StrategiesShaped DEF FaultEvolve
<1>4. ASSUME NEW s \in StrategyShape, NEW t
      PROVE  Shape(Faulted(s, t)) /\ Faulted(s, t).tag = "Fault"
  <2>1. Faulted(s, t) \in [tag : Tags, strategy : StrategyShape, trace : {t}, phase : Phases]
    BY <1>4 DEF Faulted, Mode, Tags, Phases
  <2>2. Faulted(s, t).tag = "Fault"
    BY DEF Faulted, Mode
  <2> QED BY <2>1, <2>2 DEF Shape
<1> QED BY <1>1, <1>3, <1>4, StrategiesShaped DEF AssertFault

LEMMA StrategyTickShaped ==
  ASSUME NEW s \in StrategyShape
  PROVE  LET t == StrategyTick(s, "ordinary", "below", TRUE)
         IN  /\ t \in StrategyShape
             /\ t.kind = "RampDown" => s.kind = "RampDown"
<1>1. sto.kind = "STO" /\ asc.kind = "ASC"
  BY DEF sto, asc, Strategy
<1>2. CASE s.kind = "RampDown"
  <2>1. StrategyTick(s, "ordinary", "below", TRUE) \in {sto, asc, [s EXCEPT !.waited = @ + 1]}
    BY <1>2 DEF StrategyTick
  <2>2. [s EXCEPT !.waited = @ + 1] \in StrategyShape
    BY DEF StrategyShape
  <2> QED BY <1>2, <2>1, <2>2, StrategiesShaped
<1>3. ASSUME NEW condition \in BOOLEAN, NEW next \in {sto, asc}
      PROVE  LET t == SwitchWhen(s, condition, next)
             IN  /\ t \in StrategyShape
                 /\ t.kind = "RampDown" => s.kind = "RampDown"
  <2> DEFINE d == DebouncedUpdate(s.should_switch, condition, SwitchDebounceTicks)
  <2>1. d \in [state : BOOLEAN, count : Int]
    BY SafeStrategyAssumption DEF DebouncedUpdate, DebouncedNew, StrategyShape
  <2>2. SwitchWhen(s, condition, next) \in {next, [s EXCEPT !.should_switch = d]}
    BY DEF SwitchWhen
  <2> HIDE DEF d
  <2>3. [s EXCEPT !.should_switch = d] \in StrategyShape /\ [s EXCEPT !.should_switch = d].kind = s.kind
    BY <2>1 DEF StrategyShape
  <2> QED BY <1>1, <1>3, <2>2, <2>3, StrategiesShaped
<1>4. CASE s.kind \in {"STO", "ASC"}
  <2>1. /\ AscNeeded("ordinary", "below", TRUE) \in BOOLEAN
        /\ AscReleasable("ordinary", "below", TRUE) \in BOOLEAN
    BY DEF AscNeeded, AscReleasable
  <2> QED BY <1>3, <1>4, <2>1 DEF StrategyTick
<1>5. CASE s.kind \notin {"RampDown", "STO", "ASC"}
  BY <1>5 DEF StrategyTick
<1> QED BY <1>2, <1>4, <1>5

LEMMA TickShaped ==
  ASSUME NEW m, Shape(m), NEW polarity_known \in BOOLEAN
  PROVE  LET n == ModeTicks(m, polarity_known)
         IN  /\ Shape(n) /\ (Resting(m) => Resting(n))
             /\ m.tag = "Fault" => n.tag = "Fault"
<1> DEFINE t == StrategyTick(m.strategy, "ordinary", "below", TRUE)
<1>1. CASE m.tag \in {"Idle", "Fault"}
  <2>1. /\ t \in StrategyShape
        /\ t.kind = "RampDown" => m.strategy.kind = "RampDown"
    BY StrategyTickShaped DEF Shape
  <2>2. ModeTicks(m, polarity_known) = [m EXCEPT !.strategy = t]
    BY <1>1 DEF ModeTicks
  <2>3. PICK S : m \in [tag : Tags, strategy : StrategyShape, trace : S, phase : Phases]
    BY DEF Shape
  <2> HIDE DEF t
  <2>4. /\ [m EXCEPT !.strategy = t] \in [tag : Tags, strategy : StrategyShape, trace : S, phase : Phases]
        /\ [m EXCEPT !.strategy = t].tag = m.tag /\ [m EXCEPT !.strategy = t].strategy = t
    BY <2>1, <2>3
  <2> QED BY <2>1, <2>2, <2>4 DEF Shape, Resting, Modulates, GateActive
<1>2. CASE m.tag \notin {"Idle", "Fault"}
  <2>1. Shape(Mode("TorqueControl"))
    <3>1. Mode("TorqueControl") \in [tag : Tags, strategy : StrategyShape, trace : {<<>>}, phase : Phases]
      BY StrategiesShaped DEF Mode, Tags, Phases
    <3> QED BY <3>1 DEF Shape
  <2> QED BY <1>2, <2>1 DEF ModeTicks, EnableTorqueControl, Resting
<1> QED BY <1>1, <1>2

LEMMA CommandsShaped ==
  ASSUME NEW m, Shape(m)
  PROVE  Shape(RequestTorqueControl(m)) /\ Shape(RequestIdle(m)) /\ Shape(ClearFault(m))
<1>1. ASSUME NEW tag \in Tags PROVE Shape(Mode(tag))
  <2>1. Mode(tag) \in [tag : Tags, strategy : StrategyShape, trace : {<<>>}, phase : Phases]
    BY StrategiesShaped DEF Mode, Phases
  <2> QED BY <2>1 DEF Shape
<1>2. ASSUME NEW s \in StrategyShape PROVE Shape(Idle(s))
  <2>1. Idle(s) \in [tag : Tags, strategy : StrategyShape, trace : {<<>>}, phase : Phases]
    BY StrategiesShaped DEF Idle, Mode, Tags, Phases
  <2> QED BY <2>1 DEF Shape
<1>3. m.strategy \in StrategyShape /\ "SaliencyPolarityTest" \in Tags
  BY DEF Shape, Tags
<1> QED BY <1>1, <1>2, <1>3, StrategiesShaped DEF RequestTorqueControl, RequestIdle, ClearFault

\* The control interrupt: an idle drive at rest stays at rest, and only a fault ends that.
LEMMA ControlKeepsRest ==
  ASSUME Shape(mode), ControlTick
  PROVE  /\ Shape(mode') /\ handling' = handling
         /\ Resting(mode) => Resting(mode') \/ (mode'.tag = "Fault" /\ (handling # NoFrame => interrupted'))
         /\ mode.tag = "Fault" => mode'.tag = "Fault"
         /\ handling # NoFrame /\ interrupted => interrupted'
<1>1. PICK live \in BOOLEAN, polarity_known \in BOOLEAN,
           causes \in {{}} \cup {{c} : c \in InterruptCauses} : Control(live, polarity_known, causes)
  BY DEF ControlTick
<1> DEFINE m == IF causes = {} THEN mode ELSE AssertFault(mode, CHOOSE c \in causes : TRUE)
           ticked == ModeTicks(m, polarity_known)
<1>2. Shape(m) /\ (causes = {} => m = mode) /\ (causes # {} \/ mode.tag = "Fault" => m.tag = "Fault")
  BY FaultShaped
<1> HIDE DEF m
<1>3. /\ Shape(ticked) /\ (Resting(m) => Resting(ticked))
      /\ m.tag = "Fault" => ticked.tag = "Fault"
  BY <1>2, TickShaped
<1>4. mode' \in {ticked, RequestIdle(ticked)}
  BY <1>1 DEF Control, m
<1> HIDE DEF ticked
<1>5. /\ Shape(RequestIdle(ticked))
      /\ ticked.tag \in {"Idle", "Fault"} => RequestIdle(ticked) = ticked
  BY <1>3, CommandsShaped DEF RequestIdle
<1>6. /\ Shape(mode')
      /\ Resting(m) => Resting(mode')
      /\ m.tag = "Fault" => mode'.tag = "Fault"
  BY <1>3, <1>4, <1>5 DEF Resting
<1>7. handling' = handling /\ interrupted' = (handling # NoFrame /\ (interrupted \/ causes # {}))
  BY <1>1 DEF Control
<1> QED BY <1>2, <1>6, <1>7

LEMMA HandlersShape ==
  ASSUME Shape(mode), Handlers PROVE Shape(mode')
<1>1. CASE HandleModeRequest
  <2>1. mode' = CASE handling.requested = "TorqueControl" -> RequestTorqueControl(mode)
                  [] handling.requested = "Idle" -> RequestIdle(mode)
                  [] OTHER -> ClearFault(mode)
    BY <1>1 DEF HandleModeRequest
  <2> QED BY <2>1, CommandsShaped
<1>2. ASSUME NEW cause, Asserts(cause) PROVE Shape(mode')
  BY <1>2, FaultShaped DEF Asserts
<1>3. CASE AcceptSetpoint \/ HandleConfig \/ HandleQuery \/ HandleCapture
  BY <1>3 DEF AcceptSetpoint, HandleConfig, HandleQuery, HandleCapture
<1>4. CASE RejectSetpoint
  BY <1>2, <1>4 DEF RejectSetpoint
<1>5. CASE ChunkOutOfSequence \/ ChunkTooMuch \/ ChunkStaged \/ StageWritten \/ StageFails
  BY <1>2, <1>5 DEF ChunkOutOfSequence, ChunkTooMuch, ChunkStaged, StageWritten, StageFails, WriteFails
<1>6. CASE ApplyIncomplete \/ FlushFails \/ ApplyMismatched \/ MarkFails \/ ApplyUpdate
  BY <1>2, <1>6 DEF ApplyIncomplete, FlushFails, ApplyMismatched, MarkFails, ApplyUpdate, WriteFails
<1> QED BY <1>1, <1>3, <1>4, <1>5, <1>6 DEF Handlers

LEMMA NextMode ==
  ASSUME Shape(mode), TakenAtRest, Next PROVE Shape(mode') /\ TakenAtRest'
<1>1. CASE UNCHANGED <<mode, handling, interrupted>>
  BY <1>1 DEF TakenAtRest, Resting, Modulates, GateActive, IdleOnly
<1>2. CASE ControlTick
  BY <1>2, ControlKeepsRest DEF TakenAtRest, IdleOnly
<1>3. CASE Handlers
  BY <1>3, HandlersShape, HandlerTakesFrame DEF TakenAtRest
<1>4. CASE Takes
  <2>1. mode' = mode /\ handling' = IF Admitted(Head(rx)) THEN Head(rx) ELSE NoFrame
    BY <1>4 DEF Takes
  <2>2. Admitted(Head(rx)) /\ IdleOnly(Head(rx)) => Resting(mode)
    BY DEF Admitted, GateActive, Modulates, Resting
  <2> QED BY <2>1, <2>2 DEF TakenAtRest, IdleOnly, Resting, Modulates, GateActive
<1>5. CASE Bus
  BY <1>1, <1>5 DEF Bus, FrameArrives, FrameIsLost, FrameIsRepeated, SetpointIsCorrupted, FrameIsSent, taskVars
<1>6. CASE Telemetry \/ DumpFrameIsQueued \/ PersistConfig \/ Rebooting
  BY <1>1, <1>6 DEF Telemetry, DumpFrameIsQueued, PersistConfig, Rebooting, taskVars, vars
<1>7. CASE Runs \/ FindsNone \/ Ends
  BY <1>1, <1>7 DEF Runs, FindsNone, Ends
<1>8. CASE Host
  BY <1>1, <1>8 DEF Host, HostRequests, HostConfigures, HostDemandsTorque, HostQueries, HostCaptures,
     HostSendsChunk, HostTimesOut, HostApplies, HostRecovers, HostSwitches, Puts, taskVars
<1> QED BY <1>2, <1>3, <1>4, <1>5, <1>6, <1>7, <1>8 DEF Next, ReceiveTask

-----------------------------------------------------------------------------
\* Only a handler touches the update, and nothing does after the reset.

LEMMA OthersKeepUpdate ==
  ASSUME Next, ~Handlers PROVE UNCHANGED updateVars
<1>1. CASE Bus
  BY <1>1 DEF Bus, FrameArrives, FrameIsLost, FrameIsRepeated, SetpointIsCorrupted, FrameIsSent
<1>2. CASE Telemetry \/ DumpFrameIsQueued \/ ControlTick \/ PersistConfig \/ Rebooting
  BY <1>2 DEF Telemetry, DumpFrameIsQueued, ControlTick, Control, PersistConfig, Rebooting, updateVars, vars
<1>3. CASE Runs \/ Takes \/ FindsNone \/ Ends
  BY <1>3 DEF Runs, Takes, FindsNone, Ends
<1>4. CASE Host
  BY <1>4 DEF Host, HostRequests, HostConfigures, HostDemandsTorque, HostQueries, HostCaptures,
     HostSendsChunk, HostTimesOut, HostApplies, HostRecovers, HostSwitches, Puts
<1> QED BY <1>1, <1>2, <1>3, <1>4 DEF Next, ReceiveTask

LEMMA OnlyApplyMarks ==
  ASSUME Handlers, ~ApplyUpdate PROVE status' = status
<1>1. CASE HandleModeRequest \/ AcceptSetpoint \/ RejectSetpoint \/ HandleConfig \/ HandleQuery \/ HandleCapture
  BY <1>1 DEF HandleModeRequest, AcceptSetpoint, RejectSetpoint, HandleConfig, HandleQuery, HandleCapture, updateVars
<1>2. CASE ChunkOutOfSequence \/ ChunkTooMuch \/ ChunkStaged \/ StageWritten \/ StageFails
  BY <1>2 DEF ChunkOutOfSequence, ChunkTooMuch, ChunkStaged, StageWritten, StageFails, FullStage, updateVars
<1>3. CASE ApplyIncomplete \/ FlushFails \/ ApplyMismatched \/ MarkFails
  BY <1>3 DEF ApplyIncomplete, FlushFails, ApplyMismatched, MarkFails
<1> QED BY <1>1, <1>2, <1>3 DEF Handlers

LEMMA NothingAfterReset ==
  ASSUME Next, running = "reset" PROVE UNCHANGED vars
<1>1. ~Bus
  BY DEF Bus, FrameArrives, FrameIsLost, FrameIsRepeated, SetpointIsCorrupted, FrameIsSent, Mishap, Up
<1>2. ~Telemetry /\ ~DumpFrameIsQueued /\ ~ControlTick /\ ~PersistConfig
  BY DEF Telemetry, DumpFrameIsQueued, ControlTick, Control, PersistConfig, Up
<1>3. ~ReceiveTask
  BY HandlerTakesFrame DEF ReceiveTask, Runs, Takes, FindsNone, Ends
<1>4. ~Host
  BY DEF Host, HostRequests, HostConfigures, HostDemandsTorque, HostQueries, HostCaptures,
     HostSendsChunk, HostTimesOut, HostApplies, HostRecovers, HostSwitches, Puts, Quiet, Up
<1> QED BY <1>1, <1>2, <1>3, <1>4 DEF Next, Rebooting

LEMMA NextMarked ==
  ASSUME MarkedAtReset, Next PROVE MarkedAtReset'
<1>1. CASE running = "reset"
  <2>1. UNCHANGED <<running, status, flash>>
    BY <1>1, NothingAfterReset DEF vars
  <2> QED BY <2>1 DEF MarkedAtReset, Holds
<1>2. CASE running # "reset" /\ ~ApplyUpdate
  <2>1. status = NoImage
    BY <1>2 DEF MarkedAtReset
  <2>2. status' = status
    BY <1>2, OnlyApplyMarks, OthersKeepUpdate DEF updateVars
  <2> QED BY <2>1, <2>2 DEF MarkedAtReset, NoImage
<1>3. CASE ApplyUpdate
  <2>1. Holds(flash', handling.image) /\ status' = handling.image /\ running' = "reset"
    BY <1>3 DEF ApplyUpdate, Verified
  <2> QED BY <2>1 DEF MarkedAtReset, Holds
<1> QED BY <1>1, <1>2, <1>3

-----------------------------------------------------------------------------
LEMMA InitInv == Init => IInv
<1> SUFFICES ASSUME Init PROVE IInv
  OBVIOUS
<1>1. FramesHonest
  <2>1. <<>> \in Seq({})
    OBVIOUS
  <2>2. wire = NoFrame /\ handling = NoFrame /\ rx = <<>>
    BY DEF Init
  <2> QED BY <2>1, <2>2 DEF FramesHonest, Honest
<1>2. ConfigInOrder
  BY FirmwareConfigAssumption DEF Init, ConfigInOrder, LimitsOrdered
<1>3. Shape(mode) /\ TakenAtRest
  <2>1. Idle(sto) \in [tag : Tags, strategy : StrategyShape, trace : {<<>>}, phase : Phases]
    BY StrategiesShaped DEF Idle, Mode, Tags, Phases
  <2>2. mode = Idle(sto) /\ handling = NoFrame
    BY DEF Init
  <2> QED BY <2>1, <2>2 DEF Shape, TakenAtRest
<1>4. MarkedAtReset
  BY DEF Init, MarkedAtReset
<1> QED BY <1>1, <1>2, <1>3, <1>4 DEF IInv

LEMMA NextInv == IInv /\ [Next]_vars => IInv'
<1> SUFFICES ASSUME IInv, [Next]_vars PROVE IInv'
  OBVIOUS
<1>1. CASE Next
  BY <1>1, NextFrames, NextConfig, NextMode, NextMarked DEF IInv
<1>2. CASE UNCHANGED vars
  BY <1>2 DEF IInv, vars, FramesHonest, Honest, ConfigInOrder, LimitsOrdered, TakenAtRest, IdleOnly, Resting,
     Modulates, GateActive, MarkedAtReset, Holds
<1> QED BY <1>1, <1>2

(***************************************************************************)
(* The inductive invariant of the node.                                    *)
(***************************************************************************)
THEOREM InductiveInvariant == Spec => []IInv
<1>1. Init => IInv
  BY InitInv
<1>2. IInv /\ [Next]_vars => IInv'
  BY NextInv
<1> QED BY <1>1, <1>2, PTL DEF Spec

(***************************************************************************)
(* The limits in force keep their order, whatever configuration messages   *)
(* arrive (types.rs: the setters, each on what earlier messages left).     *)
(***************************************************************************)
THEOREM LimitsAlwaysOrdered == Spec => []LimitsOrdered
<1>1. IInv => LimitsOrdered
  BY DEF IInv, ConfigInOrder
<1> QED BY <1>1, InductiveInvariant, PTL

(***************************************************************************)
(* A marked image is in the DFU area byte for byte (can_rx.rs: the apply   *)
(* arm verifies after the flush and before the mark).                      *)
(***************************************************************************)
THEOREM ImageAlwaysWhole == Spec => []ImageWhole
<1>1. IInv => ImageWhole
  BY DEF IInv, MarkedAtReset, ImageWhole
<1> QED BY <1>1, InductiveInvariant, PTL

-----------------------------------------------------------------------------
LEMMA OthersKeepMotorLimits ==
  ASSUME NEW c \in ConfigType, NEW f \in ConfigFrameType, f.id # "MotorConfig"
  PROVE  Candidate(c, f).overcurrent = c.overcurrent /\ Candidate(c, f).overspeed = c.overspeed
<1>1. f.id \in ConfigIds
  BY DEF ConfigFrameType, ConfigIds
<1>2. CASE f.id \in {"ProtectionLimits1", "ProtectionLimits2"}
  BY <1>2 DEF Candidate, SetBraking, SetDcBusLimits, ConfigType
<1>3. CASE f.id \in {"MotorLimits", "CalibrationTargets"}
  BY <1>3 DEF Candidate, SetRotorSpeedLimit, SetCurrentLimits, SetCalibrationCurrent, ConfigType
<1>4. CASE f.id \in {"SensorlessConfig1", "SensorlessConfig2"}
  BY <1>4 DEF Candidate, SetSensorless, ConfigType
<1> QED BY <1>1, <1>2, <1>3, <1>4 DEF ConfigIds

LEMMA UpdateHandlersTakeUpdates ==
  ASSUME Handlers, ~UNCHANGED <<update, flash>>
  PROVE  handling # NoFrame /\ handling.id \in {"FirmwareUpdateData", "FirmwareUpdateApply"}
<1>1. ASSUME NEW ids, Handles(ids) PROVE handling # NoFrame /\ handling.id \in ids
  BY <1>1 DEF Handles
<1>2. CASE HandleModeRequest \/ AcceptSetpoint \/ RejectSetpoint \/ HandleConfig \/ HandleQuery \/ HandleCapture
  BY <1>2 DEF HandleModeRequest, AcceptSetpoint, RejectSetpoint, HandleConfig, HandleQuery, HandleCapture, updateVars
<1>3. CASE ChunkOutOfSequence \/ ChunkTooMuch \/ ChunkStaged \/ StageWritten \/ StageFails
  <2>1. Handles({"FirmwareUpdateData"})
    BY <1>3 DEF ChunkOutOfSequence, ChunkTooMuch, ChunkStaged, StageWritten, StageFails, FullStage
  <2> QED BY <1>1, <2>1
<1>4. CASE ApplyIncomplete \/ FlushFails \/ ApplyMismatched \/ MarkFails \/ ApplyUpdate
  <2>1. Handles({"FirmwareUpdateApply"})
    BY <1>4 DEF ApplyIncomplete, FlushFails, ApplyMismatched, MarkFails, ApplyUpdate, Applies
  <2> QED BY <1>1, <2>1
<1> QED BY <1>2, <1>3, <1>4 DEF Handlers

(***************************************************************************)
(* An idle-only message takes effect in an idle drive that modulates       *)
(* nothing, or in a fault that was raised after its frame was taken and    *)
(* checked (can_rx.rs: the mode is not locked while the frame is handled). *)
(***************************************************************************)
THEOREM IdleOnlyAlwaysHonoured == Spec => IdleOnlyHonoured
<1> DEFINE AtRest == \/ mode.tag = "Idle" /\ ~Modulates(mode)
                     \/ mode.tag = "Fault" /\ interrupted
<1>1. IInv /\ [Next]_vars => [IdleOnlyEffect => AtRest]_vars
  <2> SUFFICES ASSUME IInv, Next, IdleOnlyEffect PROVE AtRest
    BY DEF vars, IdleOnlyEffect
  <2>1. handling # NoFrame /\ IdleOnly(handling)
    <3>1. CASE update' # update \/ flash' # flash
      <4>1. Handlers
        BY <3>1, OthersKeepUpdate DEF updateVars
      <4> QED BY <3>1, <4>1, UpdateHandlersTakeUpdates DEF IdleOnly
    <3>2. CASE config'.overcurrent # config.overcurrent \/ config'.overspeed # config.overspeed
      <4>1. HandleConfig
        BY <3>2, OthersKeepConfig
      <4>2. Accepts(handling) /\ config' = Candidate(config, handling)
        BY <3>2, <4>1 DEF HandleConfig, configVars
      <4>3. handling # NoFrame /\ handling.id \in ConfigIds
        BY <4>1 DEF HandleConfig, Handles
      <4>4. handling \in ConfigFrameType /\ config \in ConfigType
        BY <4>3, CanNodeAssumption DEF IInv, FramesHonest, Honest, ConfigInOrder
      <4>5. handling.id = "MotorConfig"
        BY <3>2, <4>2, <4>4, OthersKeepMotorLimits
      <4> QED BY <4>3, <4>5 DEF IdleOnly
    <3> QED BY <3>1, <3>2 DEF IdleOnlyEffect
  <2>2. Resting(mode) \/ (mode.tag = "Fault" /\ interrupted)
    BY <2>1 DEF IInv, TakenAtRest
  <2> QED BY <2>2 DEF Resting
<1> HIDE DEF AtRest
<1>2. Spec => [][IdleOnlyEffect => AtRest]_vars
  BY <1>1, InductiveInvariant, PTL DEF Spec
<1> QED BY <1>2 DEF IdleOnlyHonoured, AtRest
=============================================================================
