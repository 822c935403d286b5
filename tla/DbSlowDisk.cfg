SPECIFICATION FairSpec
CONSTANTS
  Buffers = 2
  NClients = 1
  Readers = {1}
  Seekable = {1}
  Length = 1
  SlowIO = TRUE
  LiveSeek = TRUE
  WriteErrors = FALSE
PROPERTIES
  OperationsEnd
