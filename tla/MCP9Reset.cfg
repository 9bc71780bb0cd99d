\* A driver that resets the device with a request in flight.
SPECIFICATION Spec
CONSTANTS
  Slots = {s1, s2}
  Workers = {w1}
  MaxPosts = 3
  MaxIndex = 4
  MaxResets = 1
  Patient = TRUE
INVARIANTS ResetIsFull
CHECK_DEADLOCK FALSE
