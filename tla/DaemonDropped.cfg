SPECIFICATION Spec
CONSTANTS
  Servos = {0, 1}
  Channels = {5}
  ChannelOf <- OneChannel
  SwapOrder <- Order5
  MinOn = 1
  MaxOn = 3
  Lines <- OneMove
  Malformed <- Garbage
  Garbage = Garbage
  BuffLines = 2
  Clients = {1, 2}
  MaxWrites = 1
  MaxSignals = 0
PROPERTY NothingDropped
