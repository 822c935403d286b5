SPECIFICATION FairSpec
CONSTANTS
  Buffers = 3
  NClients = 1
  Readers = {}
  Seekable = {1}
  Length = 3
  SlowIO = FALSE
  LiveSeek = FALSE
  WriteErrors = TRUE
PROPERTIES
  StreamsInOrder
