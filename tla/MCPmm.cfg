CONSTANTS
  PAGE_SIZE = 4
  PMM_BITMAP_SIZE = 1
  LOW_LIMIT = 8
  Boots <- MCBoots
SPECIFICATION Spec
INVARIANTS FreeExact CountsExact OwnedSafe
PROPERTIES AllocFresh ImplementsPool
