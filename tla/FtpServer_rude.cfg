SPECIFICATION Spec
CONSTANTS
  DataCycles = 0
  CmdCycles = 0
  TxRetriesMax = 1
  FifoMax = 5
  DirLen = 2
  BufEntries = 1
  FileBlocks = 2
  Polite = FALSE
  Aborts = TRUE
  FsErrors = TRUE
  NoMem = TRUE
INVARIANTS QueuedDataIntact RepliesFit SocketsTracked
