\* tests/test_channel.c:157 "assert(allocated == freed);"
CONSTANTS
  Cells = {w, r, q1}
  Slots = {q1}
  MaxPayloads = 1
  AllocMayFail = FALSE
SPECIFICATION CSpec
INVARIANT AllocatedIsFreed
CHECK_DEADLOCK FALSE
