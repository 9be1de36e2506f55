SPECIFICATION FairSpec
CONSTANTS
  Turn = 16
  LowSpeed = 2
  HighSpeed = 4
  LockDwell = 1
  TestTicks = 2
  TestTimeout = 4
  TopSpeed = 6
  Backward = 1
  Tables <- MCTables
INVARIANTS
  TypeOK
  FeedbackTracks
PROPERTIES
  PolarityTestEnds
