------------------------------ MODULE MCServices -----------------------------
(***************************************************************************)
(* What is around the devices, one component at a time: the bus and its     *)
(* BARs, teardown, networks, VMBus, snapshots, guest RAM and boot layout.   *)
(***************************************************************************)
EXTENDS BarMapping, MCFocus

\* A mebibyte, in BootLayout's units.
Mb == 4096

Vm == INSTANCE VmStop WITH
    N <- 2, MaxAsks <- 1, Save <- TRUE, Stoppers <- {"watchdog"},
    flag <- x1, cancel <- x2, vcpu <- x3, reason <- x4, walk <- x5, main <- x6, armed <- x7,
    holder <- x8, begun <- x9, graceful <- x10, asks <- x11, asker <- x12, watchdog <- x13,
    sentinel <- x14, saved <- x15
Vs == INSTANCE VmStop WITH
    N <- 1, MaxAsks <- 1, Save <- TRUE, Stoppers <- {"sentinel"},
    flag <- x1, cancel <- x2, vcpu <- x3, reason <- x4, walk <- x5, main <- x6, armed <- x7,
    holder <- x8, begun <- x9, graceful <- x10, asks <- x11, asker <- x12, watchdog <- x13,
    sentinel <- x14, saved <- x15
Vb == INSTANCE VmStop WITH
    N <- 1, MaxAsks <- 2, Save <- TRUE, Stoppers <- {"watchdog", "sentinel"},
    flag <- x1, cancel <- x2, vcpu <- x3, reason <- x4, walk <- x5, main <- x6, armed <- x7,
    holder <- x8, begun <- x9, graceful <- x10, asks <- x11, asker <- x12, watchdog <- x13,
    sentinel <- x14, saved <- x15
Net == INSTANCE NetDevice WITH
    Size <- 2, Pool <- 1, High <- 1, Low <- 0, Batch <- 2, Tries <- 2, MaxFrame <- 2,
    MaxInjects <- 2, MaxPosts <- 3, MaxResets <- 0,
    avail <- x1, reaped <- x2, asleep <- x3, due <- x4, driver <- x5, availEvent <- x6,
    used <- x7, ready <- x8, lastAvail <- x9, signaled <- x10, kick <- x11, irq <- x12,
    lock <- x13, backlog <- x14, rxBacklog <- x15, rxWake <- x16, unsignaled <- x17, pc <- x18,
    loc <- x19, paused <- x20, woken <- x21, burst <- x22, injects <- x23, resets <- x24
Nr == INSTANCE NetDevice WITH
    Size <- 2, Pool <- 2, High <- 2, Low <- 0, Batch <- 1, Tries <- 2, MaxFrame <- 1,
    MaxInjects <- 2, MaxPosts <- 2, MaxResets <- 1,
    avail <- x1, reaped <- x2, asleep <- x3, due <- x4, driver <- x5, availEvent <- x6,
    used <- x7, ready <- x8, lastAvail <- x9, signaled <- x10, kick <- x11, irq <- x12,
    lock <- x13, backlog <- x14, rxBacklog <- x15, rxWake <- x16, unsignaled <- x17, pc <- x18,
    loc <- x19, paused <- x20, woken <- x21, burst <- x22, injects <- x23, resets <- x24
Flow == INSTANCE NatFlow WITH
    MaxSent <- 4, MaxHost <- 2, MaxConns <- 2, MaxFull <- 2, Cap <- 2, Chunk <- 2, Ring <- 2,
    flow <- x1, tcb <- x2, boxes <- x3, kernel <- x4, host <- x5, guest <- x6, nic <- x7,
    stopped <- x8
Router == INSTANCE NatRouter WITH
    Shards <- {"w1", "w2"}, Keys <- {"k1", "k2"}, Hash <- [k \in {"k1", "k2"} |-> "w1"],
    Slots <- 2, MaxFrames <- 2,
    owner <- x1, load <- x2, table <- x3, queue <- x4, head <- x5, next <- x6, pc <- x7,
    reg <- x8, sent <- x9
Frames == INSTANCE NatRouter WITH
    Shards <- {"w1", "w2"}, Keys <- {"k1"}, Hash <- [k \in {"k1"} |-> "w1"], Slots <- 2,
    MaxFrames <- 3,
    owner <- x1, load <- x2, table <- x3, queue <- x4, head <- x5, next <- x6, pc <- x7,
    reg <- x8, sent <- x9
Udp == INSTANCE NatUdp WITH
    Keys <- {"k1", "k2", "k3"}, MaxUdp <- 2, MaxSends <- 4,
    flow <- x1, used <- x2, op <- x3, io <- x4, skip <- x5, count <- x6, clock <- x7
Fragments == INSTANCE Reassembly WITH
    Ids <- {"a", "b"}, Units <- 6, MaxPending <- 2, MaxFrags <- 4,
    pending <- x1, out <- x2, seen <- x3
Slirp == INSTANCE SlirpBackend WITH
    Senders <- {"s1", "s2"}, QueueMax <- 2, HoldMax <- 2, High <- 2, Low <- 0, MaxFrames <- 3,
    MaxBuilt <- 4,
    up <- x1, frames <- x2, armed <- x3, sock <- x4, sender <- x5, stop <- x6, stopper <- x7,
    worker <- x8, idle <- x9, batch <- x10, held <- x11, backlog <- x12, rxWake <- x13,
    got <- x14, built <- x15, sent <- x16
Gvisor == INSTANCE GvisorBackend WITH
    Gos <- {"g1", "g2"}, HoldMax <- 2, High <- 2, Low <- 0, MaxSegs <- 2, MaxSends <- 3,
    MaxInputs <- 2,
    handle <- x1, closed <- x2, ctx <- x3, thread <- x4, held <- x5, backlog <- x6, rxWake <- x7,
    drain <- x8, poke <- x9, flusher <- x10, stop <- x11, stopper <- x12, sends <- x13,
    inputs <- x14
Wintun == INSTANCE WintunBackend WITH
    MaxPackets <- 3, MaxSent <- 2,
    running <- x1, stopEvt <- x2, session <- x3, adapter <- x4, ring <- x5, worker <- x6,
    pump <- x7, detached <- x8, stopper <- x9, injected <- x10, packets <- x11, sent <- x12
Vmbus == INSTANCE VmbusHost WITH
    Vps <- {"v0", "v1"}, Targets <- {"v0"}, Gpadls <- {"g1"}, MaxOutbox <- 2, MaxGpadls <- 1,
    MaxPosts <- 4, MaxSaves <- 1,
    connected <- x1, target <- x2, outbox <- x3, slotBusy <- x4, gpadls <- x5, open <- x6,
    outboxReady <- x7, slot <- x8, notify <- x9, due <- x10, kicked <- x11, vcpu <- x12,
    aim <- x13, asked <- x14, posts <- x15, saves <- x16
Restored == INSTANCE SaveRestore WITH
    Vcpus <- 2, MaxNics <- 1, MaxDrives <- 1, MaxShares <- 1, MaxTime <- 1,
    cfg <- x1, phase <- x2, at <- x3, part <- x4, caps <- x5, file <- x6, found <- x7,
    machine <- x8, rx <- x9, irr <- x10, rxVcpu <- x11
Image == INSTANCE SnapshotFile WITH
    Chunk <- 2, Slice <- 4, Run <- 2, MaxImage <- 9, Width <- 12, Poly <- {11, 8, 7, 3, 0},
    MaxBytes <- 2, MaxText <- 3,
    input <- x1
Ram == INSTANCE GuestRam WITH
    Page <- 2, Large <- 4, Chunk <- 3, Workers <- {"p1", "p2"}, LowLimit <- 8, HighGpa <- 12,
    Totals <- {1, 5, 8, 9, 13},
    pc <- x1, alloc <- x2, size <- x3, low <- x4, split <- x5, mapped <- x6, chunks <- x7,
    next <- x8, failed <- x9, worker <- x10, populating <- x11
Boot == INSTANCE BootLayout WITH
    Rams <- {128 * Mb, 256 * Mb, 3583 * Mb, 3584 * Mb, 3585 * Mb, 5000 * Mb},
    Kernels <- {Mb + 1, 2 * Mb - 1, 2 * Mb, 2 * Mb + 1, 30 * Mb, 127 * Mb + 1, 128 * Mb, 3300 * Mb, 3583 * Mb, 4097 * Mb},
    Inits <- {0, 1, 17, Mb, 98 * Mb, 126 * Mb, 300 * Mb},
    AddrMaxes <- {64 * Mb - 1, 2048 * Mb - 1, 4096 * Mb - 1},
    Bodies <- 0..70 \cup 250..260 \cup 4085..4100 \cup 1048568..1048580, MaxVcpus <- 40,
    input <- x1

ASSUME ServicesAssumption ==
    /\ BarAssumption
    /\ Vm!VmAssumption
    /\ Vs!VmAssumption
    /\ Vb!VmAssumption
    /\ Net!NetAssumption
    /\ Nr!NetAssumption
    /\ Flow!NatFlowAssumption
    /\ Router!NatRouterAssumption
    /\ Frames!NatRouterAssumption
    /\ Udp!NatUdpAssumption
    /\ Fragments!ReassemblyAssumption
    /\ Slirp!SlirpAssumption
    /\ Gvisor!GvisorAssumption
    /\ Wintun!WintunAssumption
    /\ Vmbus!VmbusHostAssumption
    /\ Restored!SaveRestoreAssumption
    /\ Image!SnapshotFileAssumption
    /\ Ram!RamAssumption
    /\ Boot!BootAssumption

\* While another component is in focus the BARs stay at one choice of bases.
Parked == bar = CHOOSE b \in [Devices -> Gpas] : \A d, e \in Devices : d # e => b[d] # b[e]

ServicesInit ==
    /\ Init
    /\ \/ focus = "bar" /\ x1 = 0 /\ Blank2
       \/ /\ Parked
          /\ \/ focus = "watchdog" /\ Vm!Init /\ Blank16
             \/ focus = "sentinel" /\ Vs!Init /\ Blank16
             \/ focus = "stoppers" /\ Vb!Init /\ Blank16
             \/ focus = "net" /\ Net!Init
             \/ focus = "netreset" /\ Nr!Init
             \/ focus = "flow" /\ Flow!Init /\ Blank9
             \/ focus = "router" /\ Router!Init /\ Blank10
             \/ focus = "pool" /\ Frames!Init /\ Blank10
             \/ focus = "udp" /\ Udp!Init /\ Blank8
             \/ focus = "fragments" /\ Fragments!Init /\ Blank4
             \/ focus = "slirp" /\ Slirp!Init /\ Blank17
             \/ focus = "gvisor" /\ Gvisor!Init /\ Blank15
             \/ focus = "wintun" /\ Wintun!Init /\ Blank13
             \/ focus = "vmbus" /\ Vmbus!Init /\ Blank17
             \/ focus = "restore" /\ Restored!Init /\ Blank12
             \/ focus = "file" /\ Image!Init /\ Blank2
             \/ focus = "ram" /\ Ram!Init /\ Blank12
             \/ focus = "boot" /\ Boot!Init /\ Blank2

ServicesNext ==
    \/ focus = "bar" /\ Next /\ UNCHANGED all
    \/ focus = "watchdog" /\ Vm!Next /\ UNCHANGED <<focus, vars, From16>>
    \/ focus = "sentinel" /\ Vs!Next /\ UNCHANGED <<focus, vars, From16>>
    \/ focus = "stoppers" /\ Vb!Next /\ UNCHANGED <<focus, vars, From16>>
    \/ focus = "net" /\ Net!Next /\ UNCHANGED <<focus, vars>>
    \/ focus = "netreset" /\ Nr!Next /\ UNCHANGED <<focus, vars>>
    \/ focus = "flow" /\ Flow!Next /\ UNCHANGED <<focus, vars, From9>>
    \/ focus = "router" /\ Router!Next /\ UNCHANGED <<focus, vars, From10>>
    \/ focus = "pool" /\ Frames!Next /\ UNCHANGED <<focus, vars, From10>>
    \/ focus = "udp" /\ Udp!Next /\ UNCHANGED <<focus, vars, From8>>
    \/ focus = "fragments" /\ Fragments!Next /\ UNCHANGED <<focus, vars, From4>>
    \/ focus = "slirp" /\ Slirp!Next /\ UNCHANGED <<focus, vars, From17>>
    \/ focus = "gvisor" /\ Gvisor!Next /\ UNCHANGED <<focus, vars, From15>>
    \/ focus = "wintun" /\ Wintun!Next /\ UNCHANGED <<focus, vars, From13>>
    \/ focus = "vmbus" /\ Vmbus!Next /\ UNCHANGED <<focus, vars, From17>>
    \/ focus = "restore" /\ Restored!Next /\ UNCHANGED <<focus, vars, From12>>
    \/ focus = "file" /\ Image!Next /\ UNCHANGED <<focus, vars, From2>>
    \/ focus = "ram" /\ Ram!Next /\ UNCHANGED <<focus, vars, From12>>
    \/ focus = "boot" /\ Boot!Next /\ UNCHANGED <<focus, vars, From2>>

ServicesSpec == ServicesInit /\ [][ServicesNext]_<<vars, all>>

-----------------------------------------------------------------------------
(* The components' properties; each module states them.  BarMapping's are   *)
(* checked as they stand.                                                  *)

\* Teardown: no one is inside stop_all once the partition is deleted, and the
\* vCPUs are still when the machine is captured.
StopSafe ==
    /\ focus = "watchdog" => Vm!StopSafe
    /\ focus = "sentinel" => Vs!StopSafe
    /\ focus = "stoppers" => Vb!StopSafe

\* virtio-net: no frame waits for buffers the guest has posted, and a backend
\* that was told to hold back is woken.
NetCorrect ==
    /\ focus = "net" => Net!TypeOK /\ Net!RxNothingStrands /\ Net!SenderIsWoken
    /\ focus = "netreset" => Nr!TypeOK /\ Nr!RxNothingStrands /\ Nr!SenderIsWoken

\* A NAT flow: the host's socket is given the guest's stream, the guest is told
\* what the host sent, no operation outlives the buffers it writes to, and a
\* paused flow is woken.
NatFlowCorrect ==
    focus = "flow" => /\ Flow!TypeOK /\ Flow!OpsKeepTheirBoxes /\ Flow!HostSeesTheStream
                      /\ Flow!GuestIsTold /\ Flow!PausedIsWoken

\* The NAT's tables: one worker per flow, a slot holds one frame at a time, a UDP
\* flow's operations end before it goes, and a reassembled datagram is whole.
NatTablesCorrect ==
    /\ focus = "router" => Router!TypeOK /\ Router!OneShardPerFlow /\ Router!SlotHasOneOwner
    /\ focus = "pool" => Frames!TypeOK /\ Frames!OneShardPerFlow /\ Frames!SlotHasOneOwner
    /\ focus = "udp" => Udp!TypeOK /\ Udp!UdpOpsDrain
    /\ focus = "fragments" => Fragments!TypeOK /\ Fragments!WholeDatagram

\* The other network backends: a sleeping worker has been woken for every frame,
\* frames keep their order, and nothing runs on the libslirp, gVisor, adapter or event
\* handle that a stop closed. WinTun's session is let go of too early: wintun_end.
BackendsCorrect ==
    /\ focus = "slirp" => Slirp!TypeOK /\ Slirp!SleepIsSafe /\ Slirp!FramesInOrder
    /\ focus = "gvisor" => Gvisor!TypeOK /\ Gvisor!FlusherIsWoken /\ Gvisor!QuietAfterClose
    /\ focus = "wintun" => Wintun!TypeOK /\ Wintun!HandlesOutliveWorker

\* VMBus: an answer the host owes is in the guest's slot or will be moved there,
\* and an open channel keeps the pages it was given.
VmbusCorrect ==
    focus = "vmbus" => Vmbus!TypeOK /\ Vmbus!AnswersAreOnTheirWay /\ Vmbus!OpenIsBacked

\* Snapshots: what resumes is what was saved, its clocks agree, and its file reads
\* back as it was written.
SnapshotsReturn ==
    /\ focus = "restore" => Restored!TypeOK /\ Restored!ResumedAsSaved /\ Restored!ClocksAgree
    /\ focus = "file" => Image!ImageReturns /\ Image!CombineIsWhole /\ Image!HeaderReturns

\* Guest RAM and what boot puts in it: host and guest see the same bytes, no
\* mapping dangles, every page is populated once; kernel, initramfs, tables and
\* memory map agree.
MemoryCorrect ==
    /\ focus = "ram" => Ram!TypeOK /\ Ram!SameViewAsGuest /\ Ram!NeverDangling /\ Ram!PopulatedOnce
    /\ focus = "boot" => /\ Boot!LoadIsSound /\ Boot!FitsMeansLoads /\ Boot!TablesApart
                         /\ Boot!PkgLengthsRead /\ Boot!NoteIsFound
==============================================================================
