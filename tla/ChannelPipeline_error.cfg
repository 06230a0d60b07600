\* tests/test_channel.c:127 "assert(read_write_counter.closed);", on the call
\* channel_test(100, 10, 8)
CONSTANTS
  Capacity = 100
  MaxWrites = 10
  OnWriteOps = {}
  OnReadOps = {}
  AllocMayFail = FALSE
  DataCount = 10
  ErrorIndices = {8}
  MaxSleep = 2
SPECIFICATION PSpec
INVARIANT CloseIsRead
CHECK_DEADLOCK FALSE
