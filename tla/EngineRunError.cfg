SPECIFICATION FairSpec
CONSTANTS
  Length = 2
  Limit = "none"
  OutputErrors = TRUE
  DeviceBlocks = FALSE
  Signals = FALSE
  Calls = {"run", "disconnect"}
  MaxQueue = 2
INVARIANT RunReportsErrors
