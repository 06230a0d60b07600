\* Five items through a channel of two; the sender fails at one of them or not.
\* The callbacks of the test only count what passes, and it does not limit the
\* memory; the sender writes at most DataCount + 2 times.
CONSTANTS
  Capacity = 2
  MaxWrites = 7
  OnWriteOps = {}
  OnReadOps = {}
  AllocMayFail = FALSE
  DataCount = 5
  ErrorIndices = {0, 3, 4, 5}
  MaxSleep = 2
SPECIFICATION PSpec
INVARIANTS
  AllTransferred
PROPERTY
  Terminates
CHECK_DEADLOCK FALSE
