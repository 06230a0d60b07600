\* Clients write plain values, payloads they share or hold alone, and errors.
CONSTANTS
  Cells = {w, r, s, q1, q2}
  Slots = {q1, q2}
  MaxPayloads = 2
  AllocMayFail = TRUE
SPECIFICATION CSpec
VIEW InUse
SYMMETRY Symmetry
INVARIANTS
  SharedTravelsSafely
  NothingLeaked
CHECK_DEADLOCK FALSE
