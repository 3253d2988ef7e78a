SPECIFICATION Spec
CONSTANTS
  NChunks = 2
  Versions = {"v1", "v2"}
  Overlap = FALSE
  Repartition = FALSE
  FlashErrors = FALSE
  SafebootArgs = {255, 0, 1, 2}
INVARIANT Bootable
PROPERTIES BootSucceeds SelectsWritten
