SPECIFICATION Spec
CONSTANTS
  Servos = {0, 1}
  Channels = {5}
  ChannelOf <- OneChannel
  SwapOrder <- Order5
  MinOn = 1
  MaxOn = 3
  Lines <- GoodLines
  Malformed <- Garbage
  Garbage = Garbage
  BuffLines = 2
  Clients = {1, 2}
  MaxWrites = 2
  MaxSignals = 1
INVARIANTS WritesSpareBank RequestedPulses
PROPERTIES NoSpin StopEnds
