\* Every call at any time.  Three classes as in the repository, each the base
\* of the next, and a container on either side of "GClassSystem".
CONSTANTS
  Blocks = {b1, b2, b3}
  Sizes = {0, 1, 3}
  Limits = {0, 4}
  MaxAllocated = 7
  Containers = {1, 2, 3}
  ClassSystem = 2
  Depth = 3
  Client = Client
  MaxObjects = 3
  AllocMayFail = TRUE
SPECIFICATION MemorySpec
INVARIANTS
  Balanced
  LeaksExact
  ClassesOutliveObjects
  HeldOrFreedOnce
CHECK_DEADLOCK FALSE
