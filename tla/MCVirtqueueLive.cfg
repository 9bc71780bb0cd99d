CONSTANTS
  W = 4
  Size = 1
  Threads = {t1, t2}
  MaxUnsignaled = 2
  NoThread = NoThread
  Pump = Pump
SPECIFICATION FairSpec
PROPERTY ImplementsChannel
