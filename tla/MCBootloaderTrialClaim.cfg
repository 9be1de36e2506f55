\* Power is lost while the bootloader records the trial of a swapped image.
SPECIFICATION Spec
CONSTANTS
  Images = {a, bad}
  BadImages = {bad}
  Factory = a
  ImagePages = 1
  MaxMishaps = 1
INVARIANTS
  UnconfirmedOnTrial
