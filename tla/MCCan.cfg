SPECIFICATION FairSpec
CONSTANTS
  HasHall = TRUE
  SwitchDebounceTicks = 1
  RampDownTicks = 2
  TraceCapacity = 1
  VoltageMax = 2
  CurrentMax = 2
  AmplitudeMax = 1
  TempRange <- MCTempRange
  TimeoutMax = 2
  Default <- MCDefault
  Counters = 3
  FillRate = 2
  DrainRate = 1
  Capacity = 3
  ChunkBytes = 3
  StageBytes = 6
  WordBytes = 2
  PageBytes = 4
  FirmwareBytes = 12
  image = image
  image_large = image_large
  Images = {image, image_large}
  Length <- MCLength
  CaptureLen = 2
  WordsPerRecord = 2
  WordsPerFrame = 3
  AlignTicks = 1
  NoFrame = NoFrame
  Hosts <- MCHosts
  ConfigFrames <- MCConfigFrames
  RxSize = 2
  TxSize = 2
  Periodic <- MCPeriodic
  Backlog = 0
  Window = 2
  InterruptCauses = {"Overspeed"}
  MaxMishaps <- MCMishaps
  MaxSetpoints = 5
  MaxCaptures = 2
INVARIANTS
  TypeOK
  LimitsOrdered
  ImageWhole
  DumpsOneCapture
PROPERTIES
  IdleOnlyHonoured
  SetpointGuarded
  UpdateCompletes
