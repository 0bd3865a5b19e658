SPECIFICATION Spec
CONSTANTS
  Allocators = {a1}
  Buffers = {b1}
  Handles = {h1, h2}
  Fds = {1, 2}
  Addrs = {p1}
  Values = {v1, v2}
  FlagChoices <- AllFlags
  Faults = {"mmap"}
  BuildIsCached = TRUE
  DestroyEarly = FALSE
  Null = Null
SYMMETRY Symmetric
INVARIANT
  CpuSeesDeviceWrites
