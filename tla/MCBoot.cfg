CONSTANTS
  Panickers = {"pmm_init", "vmm_init", "heap_init", "module_init", "devfs_init"}
  Lines = {0, 1, 7}
  Symbols <- MCSymbols
  Traces <- MCTraces
SPECIFICATION FairSpec
INVARIANTS TypeOK StopsExplained TraceRight
PROPERTIES BootEnds
CHECK_DEADLOCK FALSE
