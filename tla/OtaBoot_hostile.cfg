SPECIFICATION Spec
CONSTANTS
  NChunks = 1
  Versions = {"v1"}
  Overlap = TRUE
  Repartition = TRUE
  FlashErrors = TRUE
  SafebootArgs = {255}
PROPERTY SafeBootOnRequest
