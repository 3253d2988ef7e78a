SPECIFICATION PartsSpec
CONSTANTS
  Values = {"a", "b", "c"}
  NoValue = "none"
  ElementsMax = 3
  MaxParam = 4
  MaxPath = 8
  SecSize = 2
  SlotSectors = 3
  MaxWrite = 3
  MaxOffset = 6
  PerBlock = 2
  BlockCount = 2
  Contents = {"x", "erased"}
INVARIANTS ErasedInSlot PathRestored
PROPERTIES ImplementsQueue ImplementsDisk
