--------------------------------- MODULE MCCan ---------------------------------
(***************************************************************************)
(* The instance of the CAN node for TLC: one host for each group of        *)
(* messages, values around every limit, an image that fits and one that does not.          *)
(***************************************************************************)
EXTENDS CanProperties, TLC

CONSTANTS image, image_large

MCHosts ==
  {{"TorqueControl", "Idle", "MotorConfig", "MotorLimits", "CalibrationTargets"},
   {"ProtectionLimits1", "ProtectionLimits2"},
   {"SensorlessConfig1", "SensorlessConfig2"},
   {"TorqueControl", "FaultClear", "Setpoint"},
   {"ConfigQuery"},
   {"TorqueControl", "CaptureControl"},
   {"FirmwareUpdateData", "FirmwareUpdateApply"}}

MCDefault ==
  [dc_min |-> 0, dc_max |-> 2, calibration_voltage |-> 1, calibration_current |-> 1,
   sweep |-> 1, spin |-> 1, rated |-> 1, momentary |-> 1, overcurrent |-> 2,
   speed |-> 1, overspeed |-> 1, timeout |-> 1, temp_max |-> 0, braking |-> 0, braking_fault |-> 1,
   hfi |-> 0, hfi_startup |-> 0, gamma |-> 1, alpha |-> 1,
   low_threshold |-> 1, high_threshold |-> 2, low_pll |-> 1, high_pll |-> 1]

MCConfigFrames ==
  [id : {"ProtectionLimits1"}, dc_min : 0 .. 2, dc_max : 1 .. 3, braking : {0}, braking_fault : {1}]
  \cup [id : {"ProtectionLimits1"}, dc_min : {0}, dc_max : {2}, braking : 0 .. 2, braking_fault : 1 .. 3]
  \cup [id : {"ProtectionLimits2"}, timeout : {1, 3}, temp_max : {0, 2}]
  \cup [id : {"MotorConfig"}, overcurrent : 1 .. 2, overspeed : 1 .. 2]
  \cup [id : {"MotorLimits"}, rated : 1 .. 2, momentary : 1 .. 2, speed : {1}]
  \cup [id : {"MotorLimits"}, rated : {1}, momentary : {2}, speed : {0, 2}]
  \cup [id : {"CalibrationTargets"}, calibration_voltage : {1}, calibration_current : 1 .. 2, sweep : {1}, spin : {1}]
  \cup [id : {"SensorlessConfig1"}, hfi : {0}, hfi_startup : {0}, low_threshold : 0 .. 2,
        high_threshold : 1 .. 2, low_pll : {1}, high_pll : {1}]
  \cup [id : {"SensorlessConfig2"}, gamma : 1 .. 2, alpha : {1}]

MCMishaps == [h \in MCHosts |-> IF h \cap {"Setpoint", "FirmwareUpdateData"} = {} THEN 1 ELSE 2]
MCPeriodic == [h \in MCHosts |-> IF "CaptureControl" \in h THEN {"CaptureDump"} ELSE {"Heartbeat"}]
MCTempRange == [min |-> 0, max |-> 1]
MCLength == [i \in Images |-> IF i = image THEN 7 ELSE 13]
=============================================================================
