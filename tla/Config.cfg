SPECIFICATION Spec
CONSTANTS
  Pins = {4, 17, 18}
  ChannelNumbers = {5, 6, 7, 15}
  MaxChannel = 14
  NumSlots = 2
  MaxServos = 3
  PERIOD = 12
  MinOn = 2
  MaxOn = 6
  Malformed <- Garbage
  Garbage = Garbage
  MaxLines = 4
INVARIANTS TypeOK EveryServoDriven RefusesUnacceptable NumberedByLine SharedPace
