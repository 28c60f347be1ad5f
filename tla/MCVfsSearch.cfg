CONSTANTS
  TAR_BLOCK_SIZE = 4
  MAX_TAR_FILES = 3
  Blocks = {1, 2, 3, 4, 5, 6, 7}
  Procs = {p1, p2}
  Archives <- MCArchives
  Paths <- MCPaths
  ReadSizes <- MCReadSizes
  Entries <- MCEntries
  MaxCalls = 1
SPECIFICATION Spec
INVARIANT LastResortSearchesAll
CHECK_DEADLOCK FALSE
