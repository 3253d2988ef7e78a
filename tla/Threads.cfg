CONSTANTS
  t1 = t1
  t2 = t2
  Threads <- MCThreads
  QueueLen = 2
  NodeReused = FALSE
SPECIFICATION FairSpec
INVARIANTS
  RootsComplete
  EntryKept
  ResetClean
PROPERTIES
  QueuedDeleteDone
  ResetEnds
