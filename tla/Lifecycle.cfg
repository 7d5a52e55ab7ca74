SPECIFICATION Spec
CONSTANTS
  Channels = {ch5, ch6}
  MaxRuns = 3
  MaxFaults = 1
  MaxKills = 1
INVARIANTS TypeOK EngineMemory UnderControl Serves CleanReturn LeftoversHarmless
PROPERTY StopEnds
