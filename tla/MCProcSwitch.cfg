CONSTANTS
  MAX_PROC = 3
  s1 = s1
  s2 = s2
  s3 = s3
  Stacks = {s1, s2, s3}
  KernelStack = KernelStack
  NULL = NULL
  MaxDestroys = 1
SPECIFICATION Spec
INVARIANTS LeavesFreedStack
