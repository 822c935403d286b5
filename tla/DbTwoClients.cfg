SPECIFICATION FairSpec
CONSTANTS
  Buffers = 2
  NClients = 2
  Readers = {1}
  Seekable = {2}
  Length = 2
  SlowIO = FALSE
  LiveSeek = FALSE
  WriteErrors = FALSE
INVARIANTS
  TypeOK
  SlotExclusion
  ServerPaused
  RingsSound
PROPERTIES
  EveryClientServed
