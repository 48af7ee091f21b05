SPECIFICATION Spec
CONSTANTS
  Nodes <- TwoNodes
  Gateway <- G
  Queue <- OneNode
  Messages <- MeshOfTwo
  Slots = 2
  Prompt = FALSE
  MayAbort = TRUE
  MaxGeneration = 2
  MaxLosses = 1
  Rebooting <- OnlyA
  MaxReboots = 1
  MaxInFlight = 1
INVARIANTS AcksWhoSentKeys
PROPERTIES StoredKeysStay
CHECK_DEADLOCK FALSE
