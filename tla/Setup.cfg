SPECIFICATION Spec
CONSTANTS
  Chains = {1, 2}
  MaxIds = 3
  MaxEdits = 2
  Names = {na, nb}
  na = na
  nb = nb
  Files = {2}
  Devices = {3}
  Loops = {4}
  Lock <- Rates
  Unopenable = {2}
  LoopTwice = FALSE
  MaxChains = 2
  MaxInputs = 2
  MaxOutputs = 1
  SetupNames = {"a", "b"}
  TempName = "cs-edit-temp"
  MaxSetups = 2
  EcSetups = {1, 2}
  EcObjects = {1, 2, 3}
  EcNames = {"a", "b"}
  EcLoose = {}
  EcSteps = 4
  OptThemes = {"buffering", "flags", "objects", "chains", "controllers"}
  OptLoose = {}
  OptSteps = 4
INVARIANTS TypeOK OperatorsSound SetupSound UserServed
PROPERTIES ControllersGoWithOperator RemovalsExact SessionSound
CHECK_DEADLOCK FALSE
