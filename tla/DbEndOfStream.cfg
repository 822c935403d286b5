SPECIFICATION Spec
CONSTANTS
  Buffers = 2
  NClients = 1
  Readers = {1}
  Seekable = {1}
  Length = 3
  SlowIO = FALSE
  LiveSeek = FALSE
  WriteErrors = FALSE
INVARIANTS
  EndOfStreamDelivered
