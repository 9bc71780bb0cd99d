SPECIFICATION ServicesSpec
CONSTANTS
  Devices = {"d1", "d2"}
  ConfigVcpus = {"c1"}
  Gpas = {16, 32, 48}
  Outside = 64
  Parts = 2
  MaxWrites = 4
  Serialised = TRUE
INVARIANTS BusFollowsConfig StopSafe NetCorrect NatFlowCorrect NatTablesCorrect BackendsCorrect VmbusCorrect SnapshotsReturn
           MemoryCorrect
PROPERTY OthersStayWired
CHECK_DEADLOCK FALSE
