\* Handlers return in every way, stop and start each other, and share a lock.
CONSTANTS
  MaxCoroutines = 3
  Lines = {1}
  SemaphoreLine = 2
  Permits = 1
  SelfStop = FALSE
SPECIFICATION Spec
INVARIANTS
  TypeOK
  StopIsObeyed
  EachOncePerLoop
  ResumePoint
PROPERTY
  AliveIsCalled
CHECK_DEADLOCK FALSE
