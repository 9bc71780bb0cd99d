SPECIFICATION HostIoSpec
CONSTANTS
  Ops = {o1, o2, o3}
  NoOp = NoOp
INVARIANTS TypeOK StopMeansStopped NeverOrphaned TransportSafe GuestCorrect
PROPERTIES RequestsAreServed StopsComplete NothingHangs
CHECK_DEADLOCK FALSE
