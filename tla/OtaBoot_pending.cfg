SPECIFICATION Spec
CONSTANTS
  NChunks = 2
  Versions = {"v1"}
  Overlap = FALSE
  Repartition = FALSE
  FlashErrors = FALSE
  SafebootArgs = {255}
INVARIANT PendingOverwritten
