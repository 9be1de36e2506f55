\* Progress of the ramp-down and of the calibration's waits under fair scheduling.
SPECIFICATION FairSpec
CONSTANTS
  SwitchDebounceTicks = 1
  RampDownTicks = 2
  HasHall = TRUE
  TraceCapacity = 1
  SetpointTimeoutTicks = 1
  BoardDebounceTicks = 1
  BoardSamples <- OrdinaryBoard
  Readings = {"none", "fast"}
  Diagnoses = {}
  Breaks = {}
  Requests = {"Calibration", "TorqueControl", "Idle", "CancelCalibration"}
  FocCauses = {}
  StageCauses = {}
  BootCauses = {}
  TaskCauses = {}
PROPERTIES
  RampDownEnds
  WaitEnds
