SPECIFICATION LiveSpec
CONSTANTS
  Destinations = 2
  MaxRounds = 3
  MaxOutput = 3
INVARIANTS TypeOK DeliveryWithinRound
PROPERTIES AnswersOnlyInWait ReaderEnds
CHECK_DEADLOCK FALSE
