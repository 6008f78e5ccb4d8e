\* The system really stops: the child has exited, or it waits for its client.
SPECIFICATION Spec
CONSTANTS
  BSIZE = 32
  WORD = 3
  PATH = 2
  Requests <- Asking
  Files <- OneFile
  Directories <- OneDirectory
  Leftovers <- AnyMemory
  FdLimit = 2
  MaxRequests = 1
  Split = TRUE
  Pipelined = FALSE
  ResetOutcomes <- Harmless
INVARIANT AnswersMatch
CHECK_DEADLOCK FALSE
