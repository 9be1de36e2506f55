SPECIFICATION FairSpec
CONSTANTS
  HasHall = TRUE
  Sector = 8
  AlignTime = 2
  SettleTime = 2
  TestTime = 24
  SpinTime = 2
  TargetCurrent = 8
  MinSamples = 3
  HallTimeout = 180
  Sensors <- MCSensors
  Frictions <- MCFrictions
  HallOffset = 2
  Slopes = {0, 1}
  MaxBounces = 2
  MaxStarts = 2
CHECK_DEADLOCK FALSE
INVARIANTS
  TypeOK
  HallTableAccurate
PROPERTIES
  InductanceUnbiased
  LoopsStartUnwound
  KeepsProtocol
  CalibrationEnds
