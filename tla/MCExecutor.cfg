SPECIFICATION FairSpec
CONSTANTS
  Streams = {"stdout", "stderr"}
  Commands <- MCCommands
  PipeCap = 1
  MaxLines = 4
INVARIANTS TypeOK DoneIsLast ErrorIsTold StreamInOrder NothingLost
PROPERTIES CancelReturns EndsByItself
CHECK_DEADLOCK FALSE
