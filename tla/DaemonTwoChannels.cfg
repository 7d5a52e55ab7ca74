SPECIFICATION Spec
CONSTANTS
  Servos = {0, 1}
  Channels = {5, 6}
  ChannelOf <- TwoChannels
  SwapOrder <- Order56
  MinOn = 1
  MaxOn = 3
  Lines <- FewLines
  Malformed <- Garbage
  Garbage = Garbage
  BuffLines = 2
  Clients = {1, 2}
  MaxWrites = 2
  MaxSignals = 1
INVARIANTS TypeOK Lockstep
