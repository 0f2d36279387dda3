SPECIFICATION FairSpec
CONSTANTS
  MaxBev = 2
  MaxDepth = 5
  HeadLen = 2
  MaxLen = 2
  Streams <- MCStreams
  Programs <- MCAll
INVARIANTS FramingOwn NoUseAfterFree OwnedBev
PROPERTIES ToldOnce RecvWhileConnected ErrorClosesOwn Answered Delivered
CHECK_DEADLOCK FALSE
