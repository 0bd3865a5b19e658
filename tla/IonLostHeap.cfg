SPECIFICATION Spec
CONSTANTS
  Threads = {t1, t2}
  Allocators = {a1}
  Buffers = {b1, b2}
  Handles = {}
  Fds = {0, 1, 2}
  FlagChoices = {}
  HeapLists <- ThreeDmaHeaps
  LegacyKernels <- Current
  Faults = {}
  DestroyEarly = FALSE
SYMMETRY Symmetric
INVARIANT
  MaskIsComplete
