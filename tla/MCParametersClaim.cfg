SPECIFICATION Spec
SYMMETRY Symmetry
CONSTANTS
  Slots = 2
  HasHall = TRUE
  Configs = {c1}
  Default = c0
  PolePairs = {p1, p2}
  None = None
  Factory = older
  older = older
  newer = newer
  Firmwares <- MCFirmwares
  Version <- MCVersion
  MaxEpoch = 2
  MaxMishaps = 0
INVARIANTS
  UsesConfiguredMotor
