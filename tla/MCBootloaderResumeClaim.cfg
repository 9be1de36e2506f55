\* Power is lost in the middle of a revert.
SPECIFICATION Spec
CONSTANTS
  Images = {a, bad}
  BadImages = {bad}
  Factory = a
  ImagePages = 2
  MaxMishaps = 1
PROPERTIES
  LoggedStepsResume
