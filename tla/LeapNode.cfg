SPECIFICATION Spec
CONSTANTS
  Nodes <- Network
  Source <- G
  Names <- MoteNames
  Neighbours <- InAnyOrder
  Slots = 5
  KeyLen = 1
  OwnKeys <- KeysOfNode
  KeyOf <- KeysForOthers
  Places <- FirstBurstAndAlone
  Arriving <- AllSent
  MaxHeard = 3
INVARIANTS TypeOK NackProcessIdle AnswerTruthful HeardIsStored
INVARIANTS ChecksumIsCcitt FramesUnderstood AnswersUnderstood DamageIsSeen KeysFoundByAddress
CHECK_DEADLOCK FALSE
