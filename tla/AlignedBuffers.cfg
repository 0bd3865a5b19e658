SPECIFICATION Spec
CONSTANTS
  Kinds = {"IPU", "PXP", "DWL", "G2D"}
  Allocators = {a1}
  Buffers = {b1, b2}
  Handles = {h1, h2}
  Fds = {0}
  FlagChoices <- SomeRights
  Sizes = {1, 2}
  Alignments = {0, 3}
  MemorySize = 8
  Virtuals = {1, 3}
  Faults = {"open", "alloc", "mmap"}
  DestroyEarly = FALSE
SYMMETRY Symmetric
INVARIANTS
  TypeOK
  DeviceRangesUsable
  CpuRangesGranted
  ResourcesOwned
  MappingsMatchHolders
  HoldersCanAccess
  AssertionsHold
PROPERTY
  ImplementsContract
