SPECIFICATION Spec
CONSTANTS
  Allocators = {a1}
  Buffers = {b1, b2}
  Handles = {h1, h2}
  Fds = {1, 2, 3}
  Addrs = {p1, p2}
  Values = {v1, v2}
  FlagChoices <- AllFlags
  Faults = {"open", "alloc", "phys"}
  BuildIsCached = TRUE
  DestroyEarly = FALSE
  Null = Null
SYMMETRY Symmetric
INVARIANTS
  DeviceSeesCpuWrites
  CpuSeesDeviceWrites
PROPERTY
  ImplementsContract
