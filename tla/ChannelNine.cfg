SPECIFICATION Spec
CONSTANTS
  NumSlots = 3
  PERIOD = 9
  MinOn = 2
  MaxOn = 3
  NumServos = 2
  EndSleep = 10
  MaxSignals = 1
  BlindSwaps = FALSE
INVARIANTS TypeOK OnlyInactiveWritten SlotTiming PlaysLocations
           OnePinAtATime PinsLowAtEnd
PROPERTIES NeverOnAgain ServoMoves StopEnds DoubleBuffered
