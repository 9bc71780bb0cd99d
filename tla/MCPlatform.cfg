SPECIFICATION PlatformSpec
CONSTANTS
  Vectors = {v1, v2}
  Threads = {t1, t2}
  MaxRaises = 3
  MaxWrites = 1
  MaxControls = 2
INVARIANTS TypeOK NeverForgotten PendingIsReplayed P9Safe NothingStrands
           FidsCorrect InputCorrect SoundCorrect DisplayCorrect RecordingInSync LegacyCorrect
PROPERTY OthersAreUntouched
CHECK_DEADLOCK FALSE
