SPECIFICATION Spec
CONSTANTS
  NumPins = 4
  ModesPerRegister = 2
  Modes = {0, 1, 4}
  Output = 1
  MaxServos = 2
  Frequencies = {400000000, 500000000, 749999999}
  Garbage = {0, 500000000, 751000000}
  MayFail = TRUE
INVARIANTS TypeOK OnlyServoPinsSet Microseconds PaceBounded
PROPERTIES GlitchFree SetupEnds
