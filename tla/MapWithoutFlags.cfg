SPECIFICATION Spec
CONSTANTS
  Kinds = {"IPU", "PXP"}
  Allocators = {a1}
  Buffers = {b1, b2}
  Handles = {h1, h2}
  Fds = {0, 1}
  FlagChoices <- AllRights
  Sizes = {1, 2}
  Alignments = {0, 3}
  MemorySize = 8
  Virtuals = {1, 3}
  Faults = {}
  DestroyEarly = FALSE
SYMMETRY Symmetric
INVARIANT
  HoldersCanAccess
