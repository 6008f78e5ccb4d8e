\* The parse ends.
SPECIFICATION FairSpec
CONSTANTS
  BSIZE = 32
  WORD = 3
  PATH = 2
  CAP = 8
  HEADERS = 3
  Memory <- TheMemory
  Sources <- AllSources
INVARIANTS
  TypeOK
  OverrunsOnlyOnSize
  AcceptsHeaderBlocks
  HeadersReadBack
  LookupRight
PROPERTY Stops
CHECK_DEADLOCK FALSE
