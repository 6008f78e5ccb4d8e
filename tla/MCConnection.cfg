\* The system really stops: the child has exited, or it waits for its client.
SPECIFICATION FairSpec
CONSTANTS
  BSIZE = 20
  WORD = 3
  PATH = 2
  Requests <- GetsAndOthers
  Files <- OneFile
  Directories <- OneDirectory
  Leftovers <- AnyMemory
  FdLimit = 3
  MaxRequests = 3
  Split = FALSE
  Pipelined = FALSE
  ResetOutcomes <- Harmless
INVARIANTS
  TypeOK
  AnswersMatch
  GivesUpOnlyOnOversize
  InStep
PROPERTY RequestsAnswered
CHECK_DEADLOCK FALSE
