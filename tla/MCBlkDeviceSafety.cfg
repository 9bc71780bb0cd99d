CONSTANTS
  Heads = {h1, h2}
  Reqs = {r1, r2, r3}
  Slots = {p1, p2}
  SegSlots = {s1, s2}
  BounceSlots = {b1}
  Drainers = {Pump, Vcpu}
  VcpuDrainers = {Vcpu}
  Main = Main
  Worker = Worker
  MaxSegs = 2
  MaxEpoch = 2
  None = None
SPECIFICATION Spec
SYMMETRY SlotSymmetry
INVARIANTS NoTouchAfterReset OneOwner NoSlotAliased QuiescedIsStill
CHECK_DEADLOCK FALSE
