SPECIFICATION FairSpec
CONSTANTS
  DataCycles = 0
  CmdCycles = 0
  TxRetriesMax = 1
  FifoMax = 5
  DirLen = 2
  BufEntries = 1
  FileBlocks = 2
  Polite = TRUE
  Aborts = TRUE
  FsErrors = TRUE
  NoMem = FALSE
INVARIANTS HandlesTracked SoftwareUpdateOnly
PROPERTIES FreshSession TransferAnswered TransferEnds IdleClientDropped
