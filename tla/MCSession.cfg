\* The system really stops: the child has exited, or it waits for its client.
SPECIFICATION SessionFairSpec
CONSTANTS
  BSIZE = 13
  WORD = 3
  PATH = 2
  Requests <- Gets
  Files <- OneFile
  Directories <- OneDirectory
  Leftovers <- Zeroed
  FdLimit = 2
  MaxRequests = 2
  Split = TRUE
  Pipelined = TRUE
  ResetOutcomes <- AllOutcomes
  Chunk = 2
  Sizes <- FewSizes
  MaxRewrites = 1
INVARIANT BodiesComplete
PROPERTIES
  ImplementsConnection
  ChildEnds
CHECK_DEADLOCK FALSE
