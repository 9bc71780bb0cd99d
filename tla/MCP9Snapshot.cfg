\* A guest that kicks just before the machine is captured.
SPECIFICATION Spec
CONSTANTS
  Slots = {s1, s2}
  Workers = {w1}
  MaxPosts = 3
  MaxIndex = 4
  MaxResets = 0
  Patient = TRUE
PROPERTIES CapturedIsStill
CHECK_DEADLOCK FALSE
