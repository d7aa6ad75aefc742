CONSTANTS
  Configs <- MCConfigs
  Pins <- MCPins
  Indices = {0, 6, 13}
  MaxRuns = 2
  MaxResets = 1
  Pads = {0, 1}
  MaxFailed = 2
  MaxSingles = 2
  LinePins <- MCLinePins
  MaxUses = 2
SPECIFICATION SocSpec
CHECK_DEADLOCK FALSE
INVARIANTS
  MemoryReady
  ClocksAsConfigured
  XbPinsKept
  StartedInMemory
  PinsAsAsked
  ClockCallsIndependent
