SPECIFICATION LiveSpec
CONSTANTS
  MaxKeys = 18
  Drawing <- Chain
  Nodes <- ThreeNodes
  Gateway <- G
  Queue <- AllThree
  Messages <- ChainMessages
  Slots = 2
  Prompt = TRUE
  MayAbort = FALSE
  MaxGeneration = 2
  MaxLosses = 3
  Rebooting <- AandB
  MaxReboots = 1
  MaxInFlight = 0
INVARIANTS
  TypeOK ServedComplete DroppedMessagesArrived MaskIsCurrent RoundInOrder
  SharedKeysFit ClusterKeysAgree SplitIsExact HeadersTellApart
PROPERTIES PromiseKept DeploymentEnds
CHECK_DEADLOCK FALSE
