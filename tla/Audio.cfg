SPECIFICATION Spec
CONSTANTS
  ForkKinds = {"mp3", "fifo", "flac", "mikmod", "timidity"} \* "flac" stands for "ogg" and "aac", which are of the same class
  ForkFrames = 2
  ForkPcm = 2
  ForkMax = 2
  ForkCrash = TRUE
  ForkFast = FALSE
  ForkKills = FALSE
  StKinds = {"loop", "select", "playat", "ewf", "reverse", "resample", "tone"}
  StFile = 10
  StBlock = 3
  StTimes = {0, 2, 3, 5}
  StSeeks = {0, 4, 8}
  StRatios <- Ratios
  StPhases = 5
  StSteps = 6
  AfKinds = {"wave", "raw", "cdr"}
  AfFrames = 8
  AfBlock = 2
  AfSector = 3
  AfMax = 6
  AfSeeks = {0, 3}
  AfSteps = 7
  LfKinds = {"wav", "flac", "pipe", "raw", "aiff"}
  LfFormats = {"s16", "u8"}
  LfFiles <- Contents
  LfFrames = 7
  LfBlock = 2
  LfSeeks = {0, 3, 5}
  LfSteps = 6
  EpKinds = {"ea", "eadb", "eac", "eaw", "eal", "ec", "enm", "epp", "eca", "efb", "efr", "efh", "efl", "efs1", "efa", "efc", "efi", "ef1", "ef3", "efs", "ef4", "etd", "etm", "ete", "etf", "etr", "etl", "eemt", "ei", "chcopy", "chmute", "chmix", "eS", "el:", "kos", "kl2", "kl", "km", "kv"}
  EpVals = {0, 2, 4, 5}
  EpRates = {1, 2}
  EpSteps = 3
  DlKinds = {"etf", "etr", "efa", "efc", "efi", "etm", "etd", "etl"}
  DlTimes = {1, 3}
  DlCounts = {1, 2}
  DlVariance = 1
  DlSamples = 10
  DlSteps = 4
  DyKinds = {"enm", "ge", "gc", "gm", "evp", "ev", "klg", "kl", "kog"}
  NgTimes = {1, 2}
  ThReopens <- Reopens
  GateLen = 2
  CropTimes = {0, 2, 3}
  EnvPoints <- Envelopes
  EnvPositions = {0, 1, 2, 3, 4, 5}
  OscPresets <- Presets
  OscUnit = 4
  DySteps = 12
  CeFirst <- Routers
  CeSecond <- SecondOps
  CeInputs = {1, 2}
  CeChannels = {1, 3}
  CeSteps = 4
  SbChannels = {0, 1, 2}
  SbLengths = {0, 1, 3}
  SbSteps = 5
  SbPairs <- Pairs
  SbMargin = 1
  SbRanges <- SilentRanges
  SbNarrowInit = FALSE
  SbInitAgain = FALSE
  SbEmptyResample = FALSE
  SfSetups <- FlowSetups
  SfBlock = 2
  SfSeeks = {0, 3}
  SfPrefill = 2
  SfSteps = 7
  DvKinds = {"alsa", "oss", "arts", "rtnull"}
  DvPrefill = 2
  DvSpace = 3
  DvSuspends = {FALSE}
  DvLateStop = FALSE
  DvRunsOver = {"alsa"}
  DvRestarts = {"alsa", "rtnull"}
  DvDrains = {"alsa"}
  DvOpens = {TRUE}
  DvSteps = 14
  JpObjects <- JackObjects
  JpForeign <- Soundcard
  JpSizes = {1, 2}
  JpDies = {"idle", "active"}
  JpResizes = {"closed"}
  JpSteps = 9
INVARIANTS TypeOK ForksSound StreamsExact FilesSound EffectsExact RealtimeSound
PROPERTIES WaitsEnd IsMatrix FlowMixes
CHECK_DEADLOCK FALSE
