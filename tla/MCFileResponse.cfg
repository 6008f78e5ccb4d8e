\* The system really stops: the response is complete or the child has ended.
SPECIFICATION FairSpec
CONSTANTS
  BSIZE = 3
  Kinds <- Regular
  Sizes <- SmallSizes
  MaxRewrites = 2
INVARIANTS
  TypeOK
  BodyAsAnnounced
  NeverAhead
PROPERTY ServeReturns
CHECK_DEADLOCK FALSE
