SPECIFICATION WrappedSpec
CONSTANTS
  Allocators = {a1, a2}
  Buffers = {b1, b2}
  Handles = {h1, h2}
  Fds = {1, 2, 3}
  Addrs = {p1, p2}
  Values = {v1, v2}
  FlagChoices <- AutomaticFlags
  Faults = {"open", "alloc", "phys", "mmap"}
  BuildIsCached = TRUE
  DestroyEarly = FALSE
  Null = Null
  Wrappers = {w1}
SYMMETRY Symmetric
INVARIANTS
  TypeOK
  RefcountCountsHolders
  HoldersCanAccess
  NoMappingLeaked
  DescriptorsOwned
  AssertionsHold
  DeviceSeesCpuWrites
  CpuSeesDeviceWrites
