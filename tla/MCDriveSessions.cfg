\* Torque and calibration sessions alternate; hall feedback seeds the estimators.
SPECIFICATION Spec
CONSTANTS
  SwitchDebounceTicks = 2
  RampDownTicks = 3
  HasHall = TRUE
  TraceCapacity = 1
  SetpointTimeoutTicks = 2
  BoardDebounceTicks = 1
  BoardSamples <- OrdinaryBoard
  Readings = {"none", "slow", "fast"}
  Diagnoses = {}
  Breaks = {}
  Requests = {"Idle", "Calibration", "TorqueControl", "CancelCalibration", "FaultClear"}
  FocCauses = {"ControllerNumericalError"}
  StageCauses = {"CalibrationTimeout", "EstimationOverflow"}
  BootCauses = {}
  TaskCauses = {"MissingControllerGains", "MemoryFlashFault"}
INVARIANTS
  TorqueOnKnownPolarity
  WaitHasTask
PROPERTIES
  KeepsPromise
