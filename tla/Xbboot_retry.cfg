CONSTANTS
  Configs <- MCConfigs
  Pins <- MCPins
  Indices = {0}
  MaxRuns = 0
  MaxResets = 0
  Pads = {0}
  MaxFailed = 1
  LinePins = {}
  MaxUses = 0
  MaxSingles = 0
SPECIFICATION SocSpec
CHECK_DEADLOCK FALSE
INVARIANT UploadStartsProgram
