\* Torque sessions of a sensorless build, and faults of every reaction asserted, evolved and cleared.
SPECIFICATION Spec
CONSTANTS
  SwitchDebounceTicks = 2
  RampDownTicks = 2
  HasHall = FALSE
  TraceCapacity = 2
  SetpointTimeoutTicks = 2
  BoardDebounceTicks = 1
  BoardSamples <- CoolBoard
  Readings = {"none", "slow", "fast", "overspeed"}
  Diagnoses = {"overcurrent"}
  Breaks = {"Break2"}
  Requests = {"Idle", "TorqueControl", "FaultClear"}
  FocCauses = {"ControllerNumericalError"}
  StageCauses = {}
  BootCauses = {"WatchdogReboot", "MemoryFlashFault", "MissingControllerGains"}
  TaskCauses = {}
INVARIANTS
  TypeOK
  SetpointFresh
  ModeWellFormed
PROPERTIES
  OutputFollowsMode
  FaultLatched
  ReactionNeverDowngrades
  TraceAppendOnly
  FlagsLatch
