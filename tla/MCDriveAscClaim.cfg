\* An idle drive shorts its phases on a high bus; then the gate driver reports a break.
SPECIFICATION Spec
CONSTANTS
  SwitchDebounceTicks = 2
  RampDownTicks = 2
  HasHall = FALSE
  TraceCapacity = 1
  SetpointTimeoutTicks = 2
  BoardDebounceTicks = 3
  BoardSamples <- CoolBoard
  Readings = {"none"}
  Diagnoses = {}
  Breaks = {"Break1"}
  Requests = {}
  FocCauses = {}
  StageCauses = {}
  BootCauses = {}
  TaskCauses = {}
PROPERTIES
  AscHeldOnHighBus
