\* Bytes of four bits with groups of three, an int of two bytes and a long of
\* four: a varint is cut, wraps and is overlong within seven bytes.
CONSTANTS
  GroupBits = 3
  IntBits = 8
  LongBits = 16
  Types <- Schema
  BufferSize = 12
  DefaultPrecision = 3
  MaxPrecision = 4
  IntWidth = 8
  Octets = {0, 1, 3, 4, 7, 8, 9, 11, 12, 15}
  MaxVarint = 7
  MaxParts = 3
  MaxText = 5
  Characters <- Typed
  Codes = {0, 1, 97, 200, 255}
  Subs <- Sought
  Reps <- Added
  MaxCalls = 38
SPECIFICATION Spec
INVARIANTS
  WireFormatExact
  MessagesAccounted
  MessagesMeanTheSame
  StringsExact
  PrintfExact
CHECK_DEADLOCK FALSE
