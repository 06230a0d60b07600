\* Sequences of four items and batches of two: calls fit the block, just miss
\* it, and move slots in front of, inside and behind what is in use.  Three
\* keys: the search halves, ends left, right and between.  Files of four
\* bytes: a write doubles the block, finds that too little, or no longer doubles.
CONSTANTS
  ItemLen = 2
  Width = 16
  Zero = Zero
  PointerSize = 8
  Nil = Nil
  Garbage = Garbage
  Things = {x, y}
  MaxSize = 4
  MaxNodes = 6
  MaxBatch = 2
  Keys = {1, 2, 3}
  MaxSets = 4
  Chars = {a, b}
  Nul = Nul
  DoubleUpTo = 2
  ChunkSize = 2
  MaxBytes = 4
  MaxWrite = 2
SPECIFICATION Spec
SYMMETRY Symmetry
INVARIANTS
  TypeOK
  NothingLost
  BuffersSound
PROPERTIES
  ImplementsList
  ImplementsMap
  ImplementsFile
CHECK_DEADLOCK FALSE
