CONSTANTS
  W = 4
  Size = 2
  Threads = {t1, t2}
  MaxUnsignaled = 2
  NoThread = NoThread
  Pump = Pump
SPECIFICATION Spec
SYMMETRY ThreadSymmetry
INVARIANTS TypeOK NoLostKick NoLostInterrupt
PROPERTY ChannelSafety
