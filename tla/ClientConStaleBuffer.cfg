SPECIFICATION Spec
CONSTANTS
  MaxBev = 2
  MaxDepth = 5
  HeadLen = 1
  MaxLen = 2
  Streams <- MCStreams
  Programs <- MCSwitching
PROPERTIES BufferDropped
