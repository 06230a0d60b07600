\* tests/test_event.c:15 "can not refire an event during firing, no effects"
CONSTANTS
  MaxToken = 3
  MaxFires = 2
SPECIFICATION Spec
INVARIANT NoRefire
CHECK_DEADLOCK FALSE
