\* Callbacks of both events make every call, and memory may run out.
CONSTANTS
  Capacity = 2
  MaxWrites = 5
  OnWriteOps = {"write", "error", "close", "read"}
  OnReadOps = {"write", "error", "close", "read"}
  AllocMayFail = TRUE
SPECIFICATION Spec
INVARIANTS
  TypeOK
  ClosedIsLast
  DataNeverLost
  AnnouncedInOrder
PROPERTY
  ImplementsFifo
CHECK_DEADLOCK FALSE
