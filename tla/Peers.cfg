SPECIFICATION Spec
CONSTANTS
  JackModes = {"", "none", "recv", "sendrecv"}
  JackLength = 2
  JackMaxPos = 2
  JackAhead = 1
  JackAheadLimit = 2
  JackQueue = 2
  JackCommands = {"start", "stop", "exit", "setpos"}
  JackUserTurns = 1
  JackOtherTurns = 2
  JackShutdowns = {"gone", "changed"}
  JackBatch = FALSE
  JackErrors = {FALSE}
  JackActivate = {TRUE}
  JackRuns = 1
  MidiChannels = {0, 1}
  MidiData = {0, 1}
  MidiLine = 5
  MidiMessages = 2
  MidiForeign = {}
  MidiErrors = {FALSE}
  MidiTurns = 3
  NetClients = {"c1", "c2"}
  NetLines <- Lines
  NetTurns = 2
  NetChunk = 4
  NetFirstBuffer = 2
  NetMaxBuffer = 4
  NetWrites = 2
  NetAfterQuit = FALSE
  EciTypes = {"s", "e"}
  EciCommands = 2
  EciLogs = 1
  EciReads = 3
  EciTimeouts = 1
  EciDeath = {TRUE}
  FeCommandLines <- Arguments
  FeCommands = {"start", "run", "q"}
  FeNetCommands = {"start", "stop", "run"}
  FePaths <- Messages
  FeChains = {"c1"}
  FeKinds = {"TERM", "INT"}
  FeSignals = 2
  FeLines = 1
  FeCalls = 1
INVARIANTS TypeOK LeavesClean TraceExact AnswersMatch
PROPERTIES FollowsStop WaitsAnswered
CHECK_DEADLOCK FALSE
