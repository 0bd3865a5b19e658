SPECIFICATION Spec
CONSTANTS
  Allocators = {a1}
  Buffers = {b1}
  Handles = {h1, h2}
  Fds = {1, 2}
  Addrs = {p1}
  Values = {v1, v2}
  FlagChoices <- AllFlags
  Faults = {}
  BuildIsCached = TRUE
  DestroyEarly = TRUE
  Null = Null
SYMMETRY Symmetric
INVARIANT
  DestroyedBuffersDeallocated
