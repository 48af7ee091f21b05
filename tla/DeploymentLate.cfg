SPECIFICATION Spec
CONSTANTS
  Nodes <- ThreeNodes
  Gateway <- G
  Queue <- AandB
  Messages <- MeshOfThree
  Slots = 2
  Prompt = FALSE
  MayAbort = FALSE
  MaxGeneration = 1
  MaxLosses = 1
  Rebooting <- Nobody
  MaxReboots = 0
  MaxInFlight = 3
INVARIANTS ServedComplete
CHECK_DEADLOCK FALSE
