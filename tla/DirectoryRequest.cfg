\* A path that names a directory.
SPECIFICATION FairSpec
CONSTANTS
  BSIZE = 3
  Kinds <- OnlyDirectory
  Sizes <- SmallSizes
  MaxRewrites = 0
PROPERTY ServeReturns
CHECK_DEADLOCK FALSE
