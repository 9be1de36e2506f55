---------------------------- MODULE FirmwareConfig ----------------------------
(***************************************************************************)
(* firmware/src/types.rs: the limits and targets a host configures.  Every *)
(* setter has the arguments it accepts and the configuration it leaves;    *)
(* one that refuses leaves no trace, because a CAN handler applies its     *)
(* setters to a copy and keeps the copy only when all of them accept.      *)
(*                                                                         *)
(* Quantities are integers on one scale per unit; the CAN messages carry   *)
(* scaled integers, so no value is a NaN.                                  *)
(***************************************************************************)
EXTENDS Integers

CONSTANTS
  VoltageMax,    \* BOARD.dc_voltage_limit_v
  CurrentMax,    \* BOARD.current_limit_a
  AmplitudeMax,  \* the upper end of HFI_AMPLITUDE_RANGE
  TempRange,     \* TEMP_MAX_RANGE
  TimeoutMax,    \* SETPOINT_TIMEOUT_MAX_MS
  Default        \* FirmwareConfig::default

\* The order that the limits keep among themselves.
Ordered(c) ==
  /\ c.rated <= c.momentary /\ c.momentary <= c.overcurrent
  /\ c.calibration_current <= c.rated
  /\ c.speed <= c.overspeed
  /\ c.dc_min < c.dc_max
  /\ c.braking <= c.braking_fault
  /\ c.low_threshold <= c.high_threshold

ConfigType ==
  [dc_min : Int, dc_max : Int, calibration_voltage : Int, calibration_current : Int,
   sweep : Int, spin : Int, rated : Int, momentary : Int, overcurrent : Int,
   speed : Nat, overspeed : Nat, timeout : Nat, temp_max : Int, braking : Int, braking_fault : Int,
   hfi : Int, hfi_startup : Int, gamma : Int, alpha : Int,
   low_threshold : Int, high_threshold : Int, low_pll : Int, high_pll : Int]

ASSUME FirmwareConfigAssumption ==
  /\ {VoltageMax, CurrentMax, AmplitudeMax, TimeoutMax} \subseteq Nat
  /\ TempRange \in [min : Int, max : Int]
  /\ Default \in ConfigType /\ Ordered(Default)

Lesser(a, b) == IF a <= b THEN a ELSE b
InRange(v, low, high) == ~(v < low \/ v > high)

-----------------------------------------------------------------------------
\* The setters: what they accept, and the configuration after them.

DcBusLimitsValid(min, max) ==
  InRange(min, 0, VoltageMax) /\ InRange(max, 0, VoltageMax) /\ min < max
SetDcBusLimits(c, min, max) == [c EXCEPT !.dc_min = min, !.dc_max = max]

CurrentValid(v) == InRange(v, 0, CurrentMax)

SetCalibrationCurrent(c, v) == [c EXCEPT !.calibration_current = Lesser(v, c.rated)]

CurrentLimitsValid(rated, momentary) ==
  CurrentValid(rated) /\ CurrentValid(momentary) /\ rated <= momentary
SetCurrentLimits(c, rated, momentary) ==
  LET limited == Lesser(rated, c.overcurrent)
  IN  [c EXCEPT !.rated = limited,
                !.momentary = Lesser(momentary, c.overcurrent),
                !.calibration_current = Lesser(@, limited)]

\* A mutant of SetOvercurrentLimit: the limits below it stay.
SetOvercurrentLimitOnly(c, v) == [c EXCEPT !.overcurrent = v]

SetOvercurrentLimit(c, v) ==
  LET limited == Lesser(c.rated, v)
  IN  [c EXCEPT !.overcurrent = v,
                !.rated = limited,
                !.momentary = Lesser(@, v),
                !.calibration_current = Lesser(@, limited)]

SetRotorSpeedLimit(c, v) == [c EXCEPT !.speed = Lesser(v, c.overspeed)]
SetRotorOverspeedLimit(c, v) == [c EXCEPT !.overspeed = v, !.speed = Lesser(@, v)]

SensorlessValid(f) ==
  /\ InRange(f.hfi, 0, AmplitudeMax) /\ InRange(f.hfi_startup, 0, AmplitudeMax)
  /\ 0 <= f.low_threshold /\ 0 <= f.high_threshold
  /\ f.low_threshold <= f.high_threshold
  /\ 0 < f.low_pll /\ 0 < f.high_pll
SetSensorless(c, f) ==
  [c EXCEPT !.hfi = f.hfi, !.hfi_startup = f.hfi_startup,
            !.low_threshold = f.low_threshold, !.high_threshold = f.high_threshold,
            !.low_pll = f.low_pll, !.high_pll = f.high_pll]

BrakingValid(limit, fault) == CurrentValid(limit) /\ CurrentValid(fault) /\ limit <= fault
SetBraking(c, limit, fault) == [c EXCEPT !.braking = limit, !.braking_fault = fault]

-----------------------------------------------------------------------------
\* The configuration messages: the candidate each of them makes, kept when all setters accept.

Accepts(f) ==
  CASE f.id = "ProtectionLimits1" ->
         DcBusLimitsValid(f.dc_min, f.dc_max) /\ BrakingValid(f.braking, f.braking_fault)
    [] f.id = "ProtectionLimits2" ->
         f.timeout <= TimeoutMax /\ InRange(f.temp_max, TempRange.min, TempRange.max)
    [] f.id = "MotorConfig" -> CurrentValid(f.overcurrent) /\ f.overspeed # 0
    [] f.id = "MotorLimits" -> CurrentLimitsValid(f.rated, f.momentary) /\ f.speed # 0
    [] f.id = "CalibrationTargets" ->
         /\ InRange(f.calibration_voltage, 0, VoltageMax)
         /\ CurrentValid(f.calibration_current) /\ 0 < f.sweep /\ 0 < f.spin
    [] f.id = "SensorlessConfig1" -> SensorlessValid(f)
    [] f.id = "SensorlessConfig2" -> 0 < f.gamma /\ 0 < f.alpha

Candidate(c, f) ==
  CASE f.id = "ProtectionLimits1" ->
         SetBraking(SetDcBusLimits(c, f.dc_min, f.dc_max), f.braking, f.braking_fault)
    [] f.id = "ProtectionLimits2" -> [c EXCEPT !.timeout = f.timeout, !.temp_max = f.temp_max]
    [] f.id = "MotorConfig" ->
         SetRotorOverspeedLimit(SetOvercurrentLimit(c, f.overcurrent), f.overspeed)
    [] f.id = "MotorLimits" -> SetRotorSpeedLimit(SetCurrentLimits(c, f.rated, f.momentary), f.speed)
    [] f.id = "CalibrationTargets" ->
         [SetCalibrationCurrent(c, f.calibration_current) EXCEPT
            !.calibration_voltage = f.calibration_voltage, !.sweep = f.sweep, !.spin = f.spin]
    [] f.id = "SensorlessConfig1" -> SetSensorless(c, f)
    [] f.id = "SensorlessConfig2" -> [c EXCEPT !.gamma = f.gamma, !.alpha = f.alpha]

ConfigIds ==
  {"ProtectionLimits1", "ProtectionLimits2", "MotorConfig", "MotorLimits",
   "CalibrationTargets", "SensorlessConfig1", "SensorlessConfig2"}

ConfigFrameType ==
  [id : {"ProtectionLimits1"}, dc_min : Int, dc_max : Int, braking : Int, braking_fault : Int]
  \cup [id : {"ProtectionLimits2"}, timeout : Nat, temp_max : Int]
  \cup [id : {"MotorConfig"}, overcurrent : Int, overspeed : Nat]
  \cup [id : {"MotorLimits"}, rated : Int, momentary : Int, speed : Nat]
  \cup [id : {"CalibrationTargets"}, calibration_voltage : Int, calibration_current : Int,
        sweep : Int, spin : Int]
  \cup [id : {"SensorlessConfig1"}, hfi : Int, hfi_startup : Int, low_threshold : Int,
        high_threshold : Int, low_pll : Int, high_pll : Int]
  \cup [id : {"SensorlessConfig2"}, gamma : Int, alpha : Int]

\* What the estimators and the arbitrator are tuned with.
Tuning(c) ==
  [saliency_pll |-> c.low_pll, flux |-> <<c.gamma, c.alpha, c.high_pll>>,
   thresholds |-> <<c.low_threshold, c.high_threshold>>]

\* The estimators that a message retunes: both messages the flux estimator, the first the others.
Retuned(t, c, f) ==
  CASE f.id = "SensorlessConfig1" -> Tuning(c)
    [] f.id = "SensorlessConfig2" -> [t EXCEPT !.flux = Tuning(c).flux]
    [] OTHER -> t
=============================================================================
