\* A vector moved to another CPU while its device raises it.
SPECIFICATION Spec
CONSTANTS
  Vectors = {v1}
  Threads = {t1}
  MaxRaises = 1
  MaxWrites = 1
  MaxControls = 0
INVARIANTS NoTornMessage
CHECK_DEADLOCK FALSE
