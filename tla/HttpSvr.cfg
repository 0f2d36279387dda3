SPECIFICATION FairSpec
CONSTANTS
  Conns = {1, 2}
  Streams <- MCStreams
  SvrPrograms <- MCSvr
INVARIANTS AnswersInTurn CurReqIsTrue ReadsInTurn NoUseAfterFree
PROPERTIES Served
CHECK_DEADLOCK FALSE
