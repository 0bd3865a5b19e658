SPECIFICATION Spec
CONSTANTS
  Threads = {t1, t2}
  Allocators = {a1, a2}
  Buffers = {b1, b2}
  Handles = {h1, h2}
  Fds = {0, 1, 2}
  FlagChoices <- SomeFlags
  HeapLists <- OneDmaHeap
  LegacyKernels <- Either
  Faults = {"open", "query", "alloc", "export", "export_no_fd", "phys", "phys_zero", "mmap"}
  DestroyEarly = FALSE
SYMMETRY Symmetric
INVARIANTS
  TypeOK
  KernelObjectsOwned
  AssertionsHold
  MappingsMatchHolders
PROPERTY
  ImplementsContract
