\* A guest that sends and closes, and a host that reads slowly.
SPECIFICATION Spec
CONSTANTS
  MaxSent = 4
  MaxHost = 2
  MaxConns = 1
  MaxFull = 2
  Cap = 2
  Chunk = 2
  Ring = 2
INVARIANTS CleanCloseIsWhole
CHECK_DEADLOCK FALSE
