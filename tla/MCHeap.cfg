CONSTANTS
  KERNEL_HEAP_START = 16
  KERNEL_HEAP_INITIAL_SIZE = 80
  SIZE_MOD = 256
  Sizes <- MCSizes
  StrayPtrs <- MCStrayPtrs
SPECIFICATION Spec
INVARIANTS FreeListMerged LiveApart NoLeak RoomUnlessWrap RefusedOnlyWhenFull
