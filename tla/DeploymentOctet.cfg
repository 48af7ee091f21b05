SPECIFICATION LiveSpec
CONSTANTS
  Nodes <- SharedNodes
  Gateway <- G
  Queue <- OneShared
  Messages <- MeshOfShared
  Slots = 2
  Prompt = TRUE
  MayAbort = FALSE
  MaxGeneration = 1
  MaxLosses = 0
  Rebooting <- Nobody
  MaxReboots = 0
  MaxInFlight = 0
PROPERTIES DeploymentEnds
CHECK_DEADLOCK FALSE
