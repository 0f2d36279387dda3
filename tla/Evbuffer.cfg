SPECIFICATION Spec
CONSTANTS
  one = one
  two = two
  Buffers = {one, two}
  Programs <- MCPrograms
  MinBuffer = 3
  ChainSize = 1
  MaxAuto = 4
  MaxRealign = 1
  MaxCopy = 2
  Waste = 2
  PrintfSpace = 1
  ReadVecs = 2
  WriteVecs = 2
  MaxOp = 3
INVARIANTS ChainsOk PulledUp WriteScheduled
PROPERTIES CallsImplement
CHECK_DEADLOCK FALSE
