SPECIFICATION FairSpec
CONSTANTS
  Length = 2
  Limit = "none"
  OutputErrors = FALSE
  DeviceBlocks = FALSE
  Signals = FALSE
  Calls = {"start", "stop", "stopsync", "setpos", "forward", "halt", "disconnect"}
  MaxQueue = 2
PROPERTIES
  StopObeyed
  FinishedStops
  CallsEnd
