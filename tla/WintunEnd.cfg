\* A stop with the worker on its way to the session's ring.
SPECIFICATION Spec
CONSTANTS
  MaxPackets = 1
  MaxSent = 1
INVARIANTS EndedSessionIsUnused
CHECK_DEADLOCK FALSE
