SPECIFICATION Spec
CONSTANTS
  NumSlots = 2
  PERIOD = 8
  MinOn = 2
  MaxOn = 4
  NumServos = 2
  EndSleep = 9
  MaxSignals = 0
  BlindSwaps = FALSE
INVARIANT SlotTiming
