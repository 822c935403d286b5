SPECIFICATION FairSpec
CONSTANTS
  Length = 2
  Limit = "none"
  OutputErrors = TRUE
  DeviceBlocks = FALSE
  Signals = TRUE
  Calls = {"run", "launch", "stop", "disconnect"}
  MaxQueue = 1
PROPERTY CallsEnd
