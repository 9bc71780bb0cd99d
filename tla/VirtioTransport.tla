--------------------------- MODULE VirtioTransport ---------------------------
(***************************************************************************)
(* The virtio-PCI transport of one device with one queue                    *)
(* (src/virtio/transport.rs): the common configuration and its lock, the    *)
(* device status and a reset that settles later, queue enable, the doorbell *)
(* with its pump thread and the MMIO fallback, the interrupt path, and      *)
(* stop at VM teardown.                                                     *)
(*                                                                         *)
(* Register accesses hold the common lock and call into the device, which   *)
(* takes its queue lock; a drain holds the queue lock and raises its        *)
(* interrupt, which takes the common lock, after releasing it.  The device  *)
(* is what every device does through the VirtioDevice trait: it takes       *)
(* requests under its queue lock, finishes some at once and the others on a *)
(* thread of its own.  The rings are in Virtqueue, the device's request     *)
(* life in BlkDevice, MSI-X in Msix.                                        *)
(***************************************************************************)
EXTENDS Integers

CONSTANT MaxRequests    \* bound on requests posted and not finished

\* What the constant stands for.
TransportAssumption == MaxRequests \in Nat \ {0}

NoOne == "none"
\* device_status: 0, the driver bits up to FEATURES_OK, DRIVER_OK, NEEDS_RESET.
Statuses == {"0", "features_ok", "driver_ok", "needs_reset"}

VARIABLES
  common, qlock,        \* who holds the common lock and the queue lock
  status, reset_from,
  size, enable,         \* queue_size and queue_enable are set
  ready,                \* the device's queue is ready
  avail, live, stale,   \* requests posted, taken, and taken before the last reset
  drv,                  \* the driver: how far its initialisation is
  acc,                  \* the vCPU: what its access still has to do
  bar, doorbell,        \* the BAR is mapped; doorbells "none", "pumped" or "orphaned"
  event, stop_event,    \* the doorbell's auto-reset event and the pump's stop event
  pump, worker,         \* the pump thread and the device's own thread
  vm                    \* VM teardown

regs == <<status, reset_from, size, enable>>
dev == <<ready, avail, live, stale>>
bell == <<bar, doorbell, event, stop_event>>
vars == <<common, qlock, regs, dev, drv, acc, bell, pump, worker, vm>>

Init ==
  /\ common = NoOne /\ qlock = NoOne
  /\ status = "0" /\ reset_from = "0"
  /\ size = FALSE /\ enable = FALSE /\ ready = FALSE
  /\ avail = 0 /\ live = 0 /\ stale = 0
  /\ drv = "reset" /\ acc = "none"
  /\ bar = FALSE /\ doorbell = "none" /\ event = FALSE /\ stop_event = FALSE
  /\ pump = "none" /\ worker = "idle" /\ vm = "runs"

\* The vCPU starts an access; a common-cfg one needs the common lock.
Free == vm = "runs" /\ acc = "none"
Access == Free /\ bar /\ common = NoOne

-----------------------------------------------------------------------------
(* Common configuration                                                    *)

\* A status write of 0.  One that changes nothing is ignored (write_cc32).
WriteReset ==
  /\ Access
  /\ drv' = "reset"
  /\ IF status = "0" THEN UNCHANGED <<common, regs, acc>>
     ELSE /\ common' = "vcpu" /\ acc' = "reset"
          /\ reset_from' = status /\ status' = "0"
          /\ size' = FALSE /\ enable' = FALSE
  /\ UNCHANGED <<qlock, dev, bell, pump, worker, vm>>

\* Faulty: the queue stays ready across a reset.
DeviceResetKeeps ==
  /\ acc = "reset" /\ qlock = NoOne
  /\ avail' = 0 /\ live' = 0 /\ stale' = stale + live
  /\ common' = NoOne /\ acc' = "none"
  /\ UNCHANGED <<qlock, regs, ready, drv, bell, pump, worker, vm>>

\* device.reset(), still under the common lock: requests taken before it keep
\* running and are settled later.
DeviceReset ==
  /\ acc = "reset" /\ qlock = NoOne
  /\ ready' = FALSE /\ avail' = 0
  /\ live' = 0 /\ stale' = stale + live
  /\ common' = NoOne /\ acc' = "none"
  /\ UNCHANGED <<qlock, regs, drv, bell, pump, worker, vm>>

\* Faulty: the status reads as it is while a reset settles.
ReadStatusTrue ==
  /\ Access /\ drv = "reset"
  /\ drv' = IF status = "0" THEN "fresh" ELSE drv
  /\ UNCHANGED <<common, qlock, regs, dev, acc, bell, pump, worker, vm>>

\* The driver polls for 0, which guest_read_cc32 withholds while the device
\* settles a reset.
ReadStatus ==
  LET seen == IF status = "0" /\ stale > 0 THEN reset_from ELSE status
  IN /\ Access /\ drv = "reset"
     /\ drv' = IF seen = "0" THEN "fresh" ELSE drv
     /\ UNCHANGED <<common, qlock, regs, dev, acc, bell, pump, worker, vm>>

\* FEATURES_OK; the device may refuse the features the driver took.
WriteFeaturesOk ==
  /\ Access /\ drv = "fresh"
  /\ \E ok \in BOOLEAN:
       /\ status' = IF ok THEN "features_ok" ELSE "needs_reset"
       /\ drv' = IF ok THEN "features" ELSE "failed"
  /\ UNCHANGED <<common, qlock, reset_from, size, enable, dev, acc, bell, pump, worker, vm>>

\* queue_size, or queue_msix_vector alone: they share a dword, whose other half
\* reads as queue_max while no size is set and is written back with the vector.
WriteSize ==
  /\ Access /\ drv = "features" /\ ~size
  /\ size' = TRUE
  /\ UNCHANGED <<common, qlock, status, reset_from, enable, dev, drv, acc, bell, pump, worker, vm>>

\* queue_enable: recorded in the register even where the device is not told,
\* because the ring addresses are misaligned or no size was set.
WriteEnable ==
  /\ Access /\ drv = "features" /\ ~enable
  /\ enable' = TRUE
  /\ \E aligned \in BOOLEAN:
       IF size /\ aligned THEN common' = "vcpu" /\ acc' = "enable"
                          ELSE UNCHANGED <<common, acc>>
  /\ UNCHANGED <<qlock, status, reset_from, size, dev, drv, bell, pump, worker, vm>>

DeviceEnable ==
  /\ acc = "enable" /\ qlock = NoOne
  /\ ready' = TRUE
  /\ common' = NoOne /\ acc' = "none"
  /\ UNCHANGED <<qlock, regs, avail, live, stale, drv, bell, pump, worker, vm>>

\* A queue_enable of 0 disables the queue under the same two locks.
WriteDisable ==
  /\ Access /\ drv = "features" /\ enable
  /\ enable' = FALSE /\ common' = "vcpu" /\ acc' = "disable"
  /\ UNCHANGED <<qlock, status, reset_from, size, dev, drv, bell, pump, worker, vm>>

DeviceDisable ==
  /\ acc = "disable" /\ qlock = NoOne
  /\ ready' = FALSE
  /\ common' = NoOne /\ acc' = "none"
  /\ UNCHANGED <<qlock, regs, avail, live, stale, drv, bell, pump, worker, vm>>

WriteDriverOk ==
  /\ Access /\ drv = "features" /\ enable
  /\ status' = "driver_ok" /\ drv' = "ok"
  /\ UNCHANGED <<common, qlock, reset_from, size, enable, dev, acc, bell, pump, worker, vm>>

-----------------------------------------------------------------------------
(* Kicks and drains                                                        *)

\* The driver posts a request and kicks.  A registered doorbell swallows the
\* write and signals its event; otherwise handle_notify drains on the vCPU.
Kick ==
  /\ Free /\ bar /\ drv = "ok" /\ avail + live + stale < MaxRequests
  /\ avail' = avail + 1
  /\ IF doorbell = "none" THEN acc' = "drain" /\ UNCHANGED event
                          ELSE event' = TRUE /\ UNCHANGED acc
  /\ UNCHANGED <<common, qlock, regs, ready, live, stale, drv, bar, doorbell, stop_event, pump, worker, vm>>

\* The pump waits for its stop event and the doorbell; the stop event, the
\* first handle, wins.
PumpWake ==
  /\ pump = "wait" /\ (stop_event \/ event)
  /\ IF stop_event THEN pump' = "ended" /\ UNCHANGED event
                   ELSE pump' = "drain" /\ event' = FALSE
  /\ UNCHANGED <<common, qlock, regs, dev, drv, acc, bar, doorbell, stop_event, worker, vm>>

\* notify_queue on the pump or on the vCPU: the queue lock, the requests, the
\* interrupt once the lock is free again.
DrainLock(p) ==
  /\ IF p = "pump" THEN pump = "drain" ELSE acc = "drain"
  /\ qlock = NoOne
  /\ qlock' = p
  /\ UNCHANGED <<common, regs, dev, drv, acc, bell, pump, worker, vm>>

Continue(p, step) ==
  IF p = "pump" THEN pump' = step /\ UNCHANGED acc ELSE acc' = step /\ UNCHANGED pump
Done(p) == IF p = "pump" THEN "wait" ELSE "none"

\* Faulty: the interrupt is raised, and the common lock taken, under the queue lock.
DrainPopRaises(p) ==
  /\ qlock = p /\ (ready /\ avail > 0 => common = NoOne)
  /\ qlock' = NoOne
  /\ avail' = IF ready THEN 0 ELSE avail
  /\ live' = IF ready THEN live + avail ELSE live
  /\ Continue(p, Done(p))
  /\ UNCHANGED <<common, regs, ready, stale, drv, bell, worker, vm>>

DrainPop(p) ==
  /\ qlock = p
  /\ qlock' = NoOne
  /\ IF ready /\ avail > 0
     THEN \E now \in 0..avail:
            /\ avail' = 0 /\ live' = live + (avail - now)
            /\ Continue(p, IF now > 0 THEN "raise" ELSE Done(p))
     ELSE Continue(p, Done(p)) /\ UNCHANGED <<avail, live>>
  /\ UNCHANGED <<common, regs, ready, stale, drv, bell, worker, vm>>

\* raise_queue_interrupt holds the common lock to look its vector up.
Raise(p) ==
  /\ IF p = "pump" THEN pump = "raise" ELSE acc = "raise"
  /\ common = NoOne
  /\ Continue(p, Done(p))
  /\ UNCHANGED <<common, qlock, regs, dev, drv, bell, worker, vm>>

\* Faulty: a request from before the reset is retired as a new one too.
FinishBoth ==
  /\ worker = "idle" /\ qlock = NoOne /\ live + stale > 0
  /\ stale' = IF stale > 0 THEN stale - 1 ELSE 0
  /\ live' = live - 1 /\ worker' = "raise"
  /\ UNCHANGED <<common, qlock, regs, ready, avail, drv, acc, bell, pump, vm>>

\* The device's own thread settles a request: one from before a reset is
\* dropped, another goes to the used ring under the queue lock and is raised.
Finish ==
  /\ worker = "idle"
  /\ \/ stale > 0 /\ stale' = stale - 1 /\ UNCHANGED <<live, worker>>
     \/ live > 0 /\ qlock = NoOne /\ live' = live - 1 /\ worker' = "raise" /\ UNCHANGED stale
  /\ UNCHANGED <<common, qlock, regs, ready, avail, drv, acc, bell, pump, vm>>

WorkerRaise ==
  /\ worker = "raise" /\ common = NoOne
  /\ worker' = "idle"
  /\ UNCHANGED <<common, qlock, regs, dev, drv, acc, bell, pump, vm>>

-----------------------------------------------------------------------------
(* The BAR, its doorbells, and teardown                                    *)

\* Faulty: the stop event of the pump before is not replaced by a new one.
MapBarKeepsStop ==
  /\ Free /\ ~bar
  /\ bar' = TRUE /\ event' = FALSE
  /\ \/ doorbell' = "pumped" /\ pump' = "wait"
     \/ doorbell' = "none" /\ pump' = "none"
     \/ doorbell' = "orphaned" /\ pump' = "none"
  /\ UNCHANGED <<common, qlock, regs, dev, drv, acc, stop_event, worker, vm>>

\* on_bar_mapped and install_doorbells.  A registration that fails leaves kicks
\* to the MMIO handler; a thread that does not start leaves the doorbells
\* registered.
MapBar ==
  /\ Free /\ ~bar
  /\ bar' = TRUE /\ event' = FALSE /\ stop_event' = FALSE
  /\ \/ doorbell' = "pumped" /\ pump' = "wait"
     \/ doorbell' = "none" /\ pump' = "none"
     \/ doorbell' = "orphaned" /\ pump' = "none"
  /\ UNCHANGED <<common, qlock, regs, dev, drv, acc, worker, vm>>

\* on_bar_unmapped, once the driver has let go of the device: teardown_doorbells
\* signals the pump and joins it.
UnmapBar ==
  /\ Free /\ bar /\ status = "0" /\ drv = "reset"
  /\ bar' = FALSE /\ stop_event' = TRUE /\ acc' = "join"
  /\ UNCHANGED <<common, qlock, regs, dev, drv, doorbell, event, pump, worker, vm>>

JoinPump ==
  /\ acc = "join" /\ pump \in {"ended", "none"}
  /\ doorbell' = "none" /\ pump' = "none" /\ acc' = "none"
  /\ UNCHANGED <<common, qlock, regs, dev, drv, bar, event, stop_event, worker, vm>>

\* VM teardown: the vCPUs have been joined.
StopBegin ==
  /\ vm = "runs" /\ acc = "none"
  /\ vm' = "stop" /\ stop_event' = TRUE
  /\ UNCHANGED <<common, qlock, regs, dev, drv, acc, bar, doorbell, event, pump, worker>>

\* Faulty: the queues are disabled without waiting for the pump.
StopDisableNow ==
  /\ vm = "stop" /\ qlock \in {NoOne, "pump"}
  /\ vm' = "stopped" /\ ready' = FALSE
  /\ UNCHANGED <<common, qlock, regs, avail, live, stale, drv, acc, bell, pump, worker>>

\* PciTransport::stop joins the pump, then disables the queues.
StopDisable ==
  /\ vm = "stop" /\ pump \in {"ended", "none"} /\ qlock = NoOne
  /\ vm' = "stopped" /\ ready' = FALSE
  /\ UNCHANGED <<common, qlock, regs, avail, live, stale, drv, acc, bell, pump, worker>>

-----------------------------------------------------------------------------
Driver == \/ WriteReset \/ ReadStatus \/ WriteFeaturesOk \/ WriteSize \/ WriteEnable
          \/ WriteDisable \/ WriteDriverOk \/ Kick \/ MapBar \/ UnmapBar
Vcpu == \/ DeviceReset \/ DeviceEnable \/ DeviceDisable \/ JoinPump
        \/ DrainLock("vcpu") \/ DrainPop("vcpu") \/ Raise("vcpu")
Pump == PumpWake \/ DrainLock("pump") \/ DrainPop("pump") \/ Raise("pump")

Next == Driver \/ Vcpu \/ Pump \/ Finish \/ WorkerRaise \/ StopBegin \/ StopDisable

Spec == Init /\ [][Next]_vars

\* A thread that can go on does, and the host finishes I/O; no lock needs to be
\* granted in turn.  The driver polls a reset to its
\* end and owes nothing else.
Fairness ==
  /\ WF_vars(Vcpu) /\ WF_vars(Pump) /\ WF_vars(WorkerRaise) /\ WF_vars(Finish)
  /\ WF_vars(StopDisable)
LiveSpec == Spec /\ Fairness

-----------------------------------------------------------------------------
(* Properties                                                              *)

TypeOK ==
  /\ common \in {NoOne, "vcpu"} /\ qlock \in {NoOne, "vcpu", "pump"}
  /\ status \in Statuses /\ reset_from \in Statuses
  /\ {size, enable, ready, bar, event, stop_event} \subseteq BOOLEAN
  /\ avail \in 0..MaxRequests /\ live \in 0..MaxRequests /\ stale \in 0..MaxRequests
  /\ drv \in {"reset", "fresh", "features", "failed", "ok"}
  /\ acc \in {"none", "reset", "enable", "disable", "drain", "raise", "join"}
  /\ doorbell \in {"none", "pumped", "orphaned"}
  /\ pump \in {"none", "wait", "drain", "raise", "ended"} /\ worker \in {"idle", "raise"}
  /\ vm \in {"runs", "stop", "stopped"}

\* A driver that has seen its reset through, by reading 0, never meets a
\* request from before it (the reset_pending contract of VirtioDevice).
ResetIsHonest == drv # "reset" => stale = 0

\* Whenever no access is in progress, a queue the device serves is one the
\* registers call enabled, under a driver that has got that far.
RegistersMatchDevice == ready /\ common = NoOne => enable /\ drv \notin {"fresh", "failed"}

\* After PciTransport::stop nothing the transport drives reads guest RAM: the
\* pump is gone and a late drain finds the queue not ready.
StopIsFinal == vm = "stopped" => pump \in {"none", "ended"} /\ qlock = NoOne /\ ~ready

\* The three together: what a reset, a queue's registers and stop promise.
TransportSafe == TypeOK /\ ResetIsHonest /\ RegistersMatchDevice /\ StopIsFinal

\* Every register access returns to the guest: no lock order and no join of the
\* pump can hold a vCPU for ever.
InAccess == acc # "none"
AccessesReturn == InAccess ~> ~InAccess

\* A request kicked for is taken, though nothing polls ("no periodic safety
\* sweep is needed", doorbell_pump): by the pump, or by the MMIO fallback when
\* the doorbells could not be registered.  The exception is a pump whose thread
\* did not start: its doorbells stay registered and swallow the kicks.
Kicked == avail > 0 /\ ready /\ drv = "ok"
Served == avail = 0 \/ vm # "runs" \/ doorbell = "orphaned"
KicksAreServed == Kicked ~> Served
=============================================================================
