SPECIFICATION Spec
CONSTANTS
  MaxBev = 1
  MaxDepth = 5
  HeadLen = 1
  MaxLen = 2
  Streams <- MCStreams
  Programs <- MCConnecting
INVARIANTS FailedIsClosed
