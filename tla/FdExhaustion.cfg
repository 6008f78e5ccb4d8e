\* The system really stops: the child has exited, or it waits for its client.
SPECIFICATION Spec
CONSTANTS
  BSIZE = 20
  WORD = 3
  PATH = 2
  Requests <- OneGet
  Files <- OneFile
  Directories <- OneDirectory
  Leftovers <- AnyMemory
  FdLimit = 2
  MaxRequests = 3
  Split = FALSE
  Pipelined = FALSE
  ResetOutcomes <- Harmless
INVARIANT AnswersMatch
CHECK_DEADLOCK FALSE
