\* Updates to good and bad images, interrupted anywhere.
SPECIFICATION FairSpec
CONSTANTS
  Images = {a, b, bad}
  BadImages = {bad}
  Factory = a
  ImagePages = 3
  MaxMishaps = 2
INVARIANTS
  TypeOK
  GoodImageKept
  RevertRestores
  MixedOnlyMidRevert
PROPERTIES
  TrialDecided
  FirmwareRuns
