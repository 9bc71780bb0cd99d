CONSTANTS
  Heads = {h1, h2}
  Reqs = {r1, r2}
  Slots = {p1}
  SegSlots = {s1}
  BounceSlots = {b1}
  Drainers = {Pump}
  VcpuDrainers = {}
  Main = Main
  Worker = Worker
  MaxSegs = 1
  MaxEpoch = 1
  None = None
SPECIFICATION FairSpec
CHECK_DEADLOCK FALSE
PROPERTIES BlkCompletes
