SPECIFICATION FairSpec
CONSTANTS
  Buffers = 3
  NClients = 1
  Readers = {1}
  Seekable = {1}
  Length = 4
  SlowIO = FALSE
  LiveSeek = FALSE
  WriteErrors = FALSE
INVARIANTS
  EndOfStreamReal
PROPERTIES
  StreamsInOrder
  StopObeyed
