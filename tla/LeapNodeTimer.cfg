SPECIFICATION TimerSpec
CONSTANTS
  Nodes <- Network
  Source <- G
  Names <- MoteNames
  Neighbours <- InAnyOrder
  Slots = 5
  KeyLen = 1
  OwnKeys <- KeysOfNode
  KeyOf <- KeysForOthers
  Places <- FirstBurstAndAlone
  Arriving <- AllSent
  MaxHeard = 3
PROPERTIES PartialBurstAnswered
CHECK_DEADLOCK FALSE
