SPECIFICATION Spec
CONSTANTS
  Length = 2
  Limit = "stop"
  OutputErrors = TRUE
  DeviceBlocks = FALSE
  Signals = TRUE
  Calls = {"start", "run", "launch", "stopsync", "setpos", "forward", "edit", "disconnect"}
  MaxQueue = 2
INVARIANTS
  TypeOK
  EngineAlive
  RunningPrepared
  ExitStopped
