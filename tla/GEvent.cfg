\* Callbacks add, remove and fire, and the allocator may fail.
CONSTANTS
  MaxToken = 5
  MaxFires = 3
SPECIFICATION Spec
INVARIANTS
  TypeOK
  FiringIndexSound
  UserDataReleasedOnce
  NoneSkipped
  NoRefireUndisturbed
  ExactlyOnceInOrder
PROPERTY
  FireTerminates
CHECK_DEADLOCK FALSE
