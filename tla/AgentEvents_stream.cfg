SPECIFICATION FairSpec
CONSTANTS
  Instances = {a, b}
  BufferLimit = 2
  MaxTurns = 2
  MaxThinking = 1
  MaxStreams = 2
  MaxPolls = 1
INVARIANTS TypeOK ReceivedOnceInOrder OtherInstanceMissesNothing DoneIsLast SubscriberIsReached
CHECK_DEADLOCK FALSE
PROPERTIES StreamCatchesUp GoneStreamStops
CONSTRAINT FirstStreamFixed
