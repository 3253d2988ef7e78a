SPECIFICATION FairSpec
CONSTANTS
  BufSize = 6
  Streams <- TwoPieces
INVARIANT InputFaithful
PROPERTY AllRead
CHECK_DEADLOCK FALSE
