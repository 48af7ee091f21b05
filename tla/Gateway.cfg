SPECIFICATION LiveSpec
CONSTANTS
  a = a
  b = b
  Peers <- TwoPeers
  Lines <- ThreeLines
  Pieces = 3
  RingSize = 3
  NumEvents = 3
  MaxNeighbors = 1
  MaxPackets = 2
  MaxTransmissions = 2
  SeqSpace = 3
  MaxSeqnos = 2
  Remembered <- OldNumbers
  MaxErrors = 1
  MaxSetbacks = 1
INVARIANTS TypeOK SleepsOnlyWhenDone BufferHeld PostsSucceed NoMixture QueueHasTimer
PROPERTIES RelayKept ComesToRest
CHECK_DEADLOCK FALSE
