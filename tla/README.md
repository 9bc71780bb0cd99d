# TLA+ models of tinyvmm

tinyvmm is a microVM monitor for Windows: a process that creates a Windows
Hypervisor Platform (WHP) partition, boots Linux in it and serves it paravirtual
devices. This directory holds TLA+ modules that model the parts of it where
threads, guest and host meet, TLC configurations that model-check them on small
instances, and TLAPS proofs of the properties that matter most.

## The system

| Part | State it keeps | Operations | Threads it meets |
|---|---|---|---|
| Split virtqueue (`src/virtio/queue.rs`) | `last_avail`, `last_used_idx`, `last_used_signaled`; rings in guest RAM | `pop_into`, `add_used`, `publish_used`, `should_interrupt_driver`, `rewind_avail`, `reset` | doorbell pump, device workers, guest driver |
| Doorbell pump (`src/virtio/transport.rs`) | poll window, wait handles | wait, `notify_queue`, poll | guest kicks, BAR unmap, teardown |
| virtio PCI transport (`src/virtio/transport.rs`) | common configuration, ISR, BAR mapping | MMIO handlers, status and reset, interrupts, `stop` | every vCPU, every device thread |
| PCI configuration space and bus (`src/pci/`, `src/devices/mmio_bus.rs`) | COMMAND, BARs, registered ranges | config writes, (un)mapping of BARs | vCPUs |
| MSI-X (`src/pci/msix.rs`) | vector table, pending bits, control | `trigger`, table and control writes | device threads against vCPUs |
| virtio-blk (`src/virtio/blk.rs`) | pools of requests, segments and bounce buffers; `epoch`, `active` | `drain`, `submit_request`, `on_seg_complete`, `finish_request`, `reset`, `quiesce` | pump, vCPUs, IOCP worker, main thread |
| Block backend (`crates/winsys/src/host/block_file.rs`) | `closed`, `inflight`, worker | `start`, `stop`, `submit`, `submit_sync` | any submitter, IOCP worker |
| virtio-net (`src/virtio/net.rs`) | receive backlog, wake flag, deferred interrupts | `inject`, `deliver_frame`, `drain_rx`, `rx_congested`, reset | backend's owner, pump, vCPUs |
| virtio-9p (`src/virtio/p9.rs`) | slots, fids, open handles, listings | requests, handlers, reset, `quiesce` | pump, pool of workers, main |
| virtio-console, virtio-input (`src/virtio/`, `src/main.rs`) | bytes and events not yet delivered, keys held | host input, drains, snapshot | host readers, window, pump |
| virtio-gpu, scanout, window (`src/virtio/gpu.rs`, `src/scanout.rs`, `src/display.rs`) | resources, latest picture, spare buffers, damage | commands, flush, repaint, resize | vCPU, window thread, encoder |
| virtio-snd (`src/virtio/snd.rs`) | streams, period in hand, pace | PCM control, ticks, flush, reset | vCPU, a worker per stream |
| Recording (`src/record.rs`) | PCM queue, two tracks, cuts | tap, tick, catch-up, finish | sound worker, encoder, main |
| User-mode NAT (`src/net/nat.rs`) | flows, boxes, frame slots, ownership table, fragments | frames in and out, completions, timers, eviction | workers, guest transmit, kernel |
| Other backends (`src/net/slirp.rs`, `gvisor.rs`, `wintun.rs`) | queues, held frames, wake flags, handles | send, deliver, flush, stop | vCPUs, worker, Go threads, DLL |
| VMBus (`src/vmbus/`) | outbox, GPADLs, channel, generation, shutdown request | messages, open/close, negotiate, request | vCPUs, runner threads, graceful stop |
| Run loop, stop and teardown (`src/whp/run_loop.rs`, `src/stop.rs`, `src/main.rs`) | stop flags, `begun`, the armed `stop_all` | `run`, `stop_all`, graceful stop, disarm, join, capture, release | vCPU threads, main, watchdog, console, user |
| Snapshot (`src/whp/snapshot_file.rs`, `src/whp/vcpu_state.rs`, `src/main.rs`) | device sections, vCPU state, sparse RAM image | save, restore | everything that has not been stopped |
| Legacy devices (`src/devices/`) | 8259 pair, PIT, UART, CMOS, PM1, port bus | port I/O, interrupt delivery | vCPUs |
| Guest RAM (`crates/whpsys/src/memory.rs`) | allocation, mappings, populate cursor | map, translate, populate, release | main, populate threads |
| Boot (`src/boot/`, `src/mem_layout.rs`) | layout of guest memory | load, place, e820, ACPI | sequential |
| Guest init (`tinyinit/`) | stages, mounts, services, logs, SSH sessions | unpack, mount, spawn, reap, shut down | extraction workers, children, signals, SSH tasks |
| VHDX/ISO, passthrough, CPUID, image parsers, command line | -- | -- | -- |

What is hard here is concurrency with the guest as one of the parties. A device
thread and a guest CPU talk through shared memory with no lock between them; a
guest may reset a device while host I/O is in flight; a stop may come from five
places at once; a network thread that is told to hold back must be told to go on;
and a snapshot needs a machine in which nothing moves. The `hazards` list of
`PROJECT.json` names each such place by its line and the property that covers it.

What makes each part correct:

* the virtqueue loses no kick and no interrupt, and hands requests over in order,
  once each;
* after the driver has seen a reset complete, the block device touches none of
  the memory it was given before; no pool slot is shared; `quiesce` leaves it
  still; neither a reset nor `quiesce` hangs;
* a stopped block backend runs nothing, and nothing it accepted is lost;
* whoever stops the VM, all of it stops; nothing stops a deleted partition; the
  vCPUs are still when the machine is captured; a fired snapshot trigger is
  honoured;
* MSI-X forgets no interrupt a device raised; the bus serves exactly the BARs
  config space has mapped, and one device's BAR never takes another's ranges;
* a driver that has seen a reset through meets no older request; the transport's
  registers and the device agree; no lock order or join holds a vCPU for ever;
* a 9p slot has one owner, every request is answered once, a file operation hits
  the file its fid named when it was taken, and guest RAM is freed only when no
  request can write to it;
* a frame for the guest waits only for buffers, and a backend told to hold back
  is woken; the NAT's host sockets see the guest's stream and no kernel operation
  writes to a buffer given to another flow; every segment of a flow reaches the
  worker that has it; a sleeping backend thread has nothing to do;
* what is typed arrives, the guest's keys are the host's, a period of sound is
  answered, the window ends up showing the last picture flushed and never half of
  one, a recording's tracks stay together;
* every VMBus answer is on its way to the guest, and an answer is credited to the
  request it belongs to;
* a legacy interrupt request is noticed; counters, dates and power requests are
  those of one moment;
* what resumes from a snapshot is what was saved, or nothing resumes;
* host and guest see the same RAM; what boot puts into it does not overlap;
* PID 1 runs services only on a whole root, misses no exit, and an SSH session's
  processes end with it.

## The modules

| Module | Models | Runs |
|---|---|---|
| `RequestChannel` | what a virtqueue promises: a FIFO of requests, a set being worked on, a FIFO of completions | target of the refinement |
| `Virtqueue`, `VirtqueueProofs` | `queue.rs`, the doorbell pump, and a Linux-style driver (external) | `vq_*`; TLAPS |
| `BlkDevice`, `BlkDeviceProofs` | `blk.rs` | `blk_*`; TLAPS |
| `BlockFile`, `BlockFileProofs` | `block_file.rs` | `host_io`; TLAPS |
| `VirtioTransport` | register file, status and reset protocol, doorbells and `stop` of `transport.rs` | `host_io`; TLAPS |
| `VmStop` | `run_loop.rs`, `stop.rs` and the stop and teardown sequence of `main.rs` | `host_io`, `services`; TLAPS |
| `VmbusIc` | `vmbus/ic.rs`, `vmbus/shutdown.rs` | `host_io` |
| `TinyInit`, `SshSession` | `tinyinit/src/` (`boot.rs`, `rootfs.rs` and what they call; `ssh.rs`) | `host_io`; TLAPS |
| `Msix` | `msix.rs` and the way of a queue interrupt to it, with its proofs | `platform`, `msix_torn`; TLAPS |
| `BarMapping`, `BarMappingProofs` | `pci/config.rs`, `config_write` and BAR wiring in `transport.rs`, `mmio_bus.rs`, `pci/bus.rs` | `services`; TLAPS |
| `P9Device` | the request path, reset and `quiesce` of `p9.rs`, with the capture and teardown of `main.rs` | `platform`, `p9_*`; TLAPS |
| `P9Fids` | the fid table and the handlers of `p9.rs` | `platform` |
| `ConsoleDevice`, `HostInput` | `console.rs`, `input.rs` and their host sources in `main.rs` | `platform`; `ConsoleDevice` TLAPS |
| `SndDevice` | `snd.rs` | `platform`; TLAPS |
| `GpuDisplay` | `gpu.rs`, `scanout.rs`, `display.rs` | `platform` |
| `Recorder` | `record.rs` | `platform` |
| `NetDevice` | the receive path of `net.rs` | `services`; TLAPS |
| `NatFlow`, `NatRouter`, `NatUdp`, `Reassembly` | `nat.rs`: a TCP flow; ownership of flows and the frame pool; UDP flows; fragments | `services`, `nat_close`; TLAPS |
| `SlirpBackend`, `GvisorBackend`, `WintunBackend` | `slirp.rs`, `gvisor.rs`, `wintun.rs` | `services`; TLAPS |
| `VmbusHost` | `vmbus/mod.rs` and its service in the run loop | `services`; TLAPS |
| `SaveRestore`, `SnapshotFile` | save and restore in `main.rs`, `snapshot_file.rs`, `vcpu_state.rs`; the file's algorithms | `services` |
| `LegacyIrq`, `Pit`, `PortDevices`, `CmosClock` | `pic.rs` with `serial.rs` and the run loop; `pit.rs`; `io_bus.rs` and `power.rs`; `legacy.rs` | `platform`; `LegacyIrq` TLAPS |
| `GuestRam` | `whpsys/src/memory.rs` | `services` |
| `BootLayout` | `loader.rs`, `bzimage.rs`, `acpi.rs`, `mem_layout.rs` | `services` |
| `DeviceProofs`, `NetworkProofs`, `ServicesProofs` | proofs about the components above, a section each | -- |
| `MCFocus` | the variables of the three models below | -- |
| `MCPlatform`, `MCServices`, `MCHostIo` | the devices; what is around them; what must eventually happen | as named |

The last three check many components that share no state. The initial state
picks in `focus` the one that moves; `x1`, `x2`, ... stand for the variables of
that component and those it does not need stay blank. The states are the sum of
the components', not the product, and each component's behaviours are exactly
those of its own specification: an `INSTANCE` names the component's constants and
variables, `Init` and `Next` are used as they stand. Every property reads
`focus = "c" => C!Property`. Each of the three extends one component (`Msix`,
`BarMapping`, `BlockFile`), whose properties it checks as they stand. Fairness is stated of `In("c", C!Action)`, which is
never enabled under another focus.

Where components do interact, the seam is one module's action or a module's own
abstraction of its neighbour. `Virtqueue` is the ring every device uses; the
devices keep of it the positions and the arming of kicks and interrupts.
`BlkDevice` submits to what `BlockFile` models, and takes from it only that an
operation completes once. `VirtioTransport` keeps of a device what the
`VirtioDevice` trait shows (a reset that settles later is `BlkDevice`'s, a drain
is `Virtqueue`'s pump) and of an interrupt that it takes the common lock, which is
where `Msix` begins. `BarMapping` decides when `VirtioTransport`'s `MapBar` and
`UnmapBar` happen. `NetDevice`'s backlog, wake flag and marks appear in
`NatFlow`, `SlirpBackend` and `GvisorBackend` as the NIC they hold back for.
`VmStop`'s graceful stop asks through what `VmbusIc` models, and the guest's end
of it is `TinyInit`. `VmStop` ends with the teardown whose device half is
`StopBegin`, `StopDisable` and `quiesce`; `P9Device` follows one device through
that teardown and the capture before it, and `SaveRestore` takes over where the
machine is still. `GpuDisplay`'s pictures and `SndDevice`'s frames are what
`Recorder` takes.

A definition whose comment begins "Faulty" is a variant of the definition after
it with one plausible mistake. The specifications do not use it; `PROJECT.json`
lists, for every checked property, a variant under which TLC finds that property
violated. Where a property joins several components' properties, the variants of
the others were tried in the same way: each is caught by the same property of the
same run.

### Virtqueue

State: guest memory (`availIdx`, `availRing`, `usedIdx`, `usedRing`,
`availEvent`, `usedEvent`, the NO_INTERRUPT flag), the fields of
`struct Virtqueue` under their own names, and the program counters of the pump,
of the retiring threads and of the driver's interrupt side. Indices wrap at `W`
(2^16 in the code); the slot of an index is taken modulo `Size`.

x86 lets a load overtake an earlier store. A store of the device to `avail_event`
or `used.idx` therefore first reaches `storedEvent` or `storedUsed`, and
`DrainEvent` and `DrainUsed` make it visible at any later time; `fence(SeqCst)`
is the guard `Fenced`. The driver's stores are visible at once because Linux
executes a full barrier between its store and the load that pairs with it.
Removing either of the device's fences is a variant that loses a notification.

Actions: `Wake`, `PopTake`, `PopEmpty`, `Recheck` (the two halves of an empty
`pop_into` around `arm_kick_and_recheck`), `PollHit` and `PollExpire` (the
adaptive poll, whose length is left open), `AddUsed`, `PublishUsed`,
`ShouldInterruptDriver`; the driver's `AddBuf`, `KickPrepare`, `TakeIrq`,
`GetBuf`, `EnableCb` and `PollUsed`. `event_idx` is chosen at the start, so both
negotiations are covered. The driver is correct: it never publishes a head out
of range, so the two early returns of `pop_into` for such rings do not appear.

`MaxUnsignaled` bounds the elements pushed between two calls of
`should_interrupt_driver`. It is a bound of the model with a meaning in the code:
see the known limits.

### BlkDevice

A request is known by the head of its chain; a member of `Reqs` is one request
that has been taken and not settled. Pool slots (`pool`, `bounce_pool`, the
states of `seg`) are kept apart from requests so that sharing one would show. A
thread (pump, vCPU, IOCP worker, main) has a program counter whose labels are
the points of `blk.rs` between which another thread can get in: the epoch check
and the status byte are two steps, so are the interrupt decision and the
interrupt. `Parse` leaves open what a chain contains; every way out of
`drain_ring`'s loop body is one of its three targets. The guest posts, reaps,
resets at any time, waits for the reset or re-enables early, and its vCPUs are
joined at some point, after which `quiesce` runs.

### BlockFile

An operation's life from `begin` to the uncount in `finish`, for operations that
complete synchronously, through the port, or not at all; `start` and `stop` hold
the `worker` mutex from end to end, so `ctl` is both the mutex and the worker's
handle.

### VmStop

`walk[c]` is caller c's progress through `stop_all`: vCPU by vCPU, the flag and
then the cancel. A cancel of `WHvRunVirtualProcessor` is sticky (external).
`GracefulStop`'s mutex around `stop_all` is `holder`, and `armed` says whether
teardown has taken `stop_all` out. The minute of patience, the watchdog's
seconds and the disks' settling time may end at any moment.

### Msix

Per vector the mask, the pending bit and the two halves of the message; per
device thread its place between `raise_queue_interrupt` and `do_inject`. Each
block under the `tables` lock is a step, and each of the two loads of Message
Control that `trigger` does without it. The guest follows Linux: it enables
MSI-X with the entries masked, gives the queues their vectors, and rewrites a
message only while its entry is masked. `owed` is a history variable: vectors
triggered and not injected since. `NeverForgotten` holds whatever the guest does
to Message Control, `PendingIsReplayed` while it leaves it alone (known limits).

### BarMapping

What config space believes (`mapped`, `mapped_gpa`), what the transport has
wired (`bar_mapped`, `bar_gpa`, `pump`) and what the bus serves (`entries`) are
three records of one fact, brought together by the events a COMMAND write
computes under the config lock and handles after it. Each call on the bus is a
step. A BAR may be put outside the window or onto another device, where
`on_bar_mapped` leaves it unwired while config space still calls it mapped; the
unmap that follows must then do nothing. BARs are naturally aligned, so ranges
overlap only at equal bases; the six ranges of a BAR are `Parts`. A restore from
a snapshot is a COMMAND write before any vCPU runs.

### VirtioTransport

One device with one queue. `common` and `qlock` are the two locks that meet in
opposite orders: a register access holds `common` and calls into the device,
which takes its queue lock; a drain holds the queue lock and raises an interrupt,
which takes `common`, after letting go. `stale` counts requests taken before the
last reset: while there are any, the status register reads as it was before the
reset (`reset_from`). `doorbell` is "none" where registration failed and kicks
trap to the MMIO handler, "pumped" where the pump serves them, and "orphaned"
where the thread did not start. `UnmapBar` is the guest disabling memory decoding
of a device it has reset. The queue's size and vector share a dword, which is why
writing the vector alone sets the size; the vector itself is `Msix`'s.

### P9Device

A slot is free, in the completion port or a thread's (`free`, `port`, `at`), and
holds the request it was filled with. The pump takes a request, finds a slot, and
either runs it or posts it: the code runs a lone request and one that cannot be
posted, the model leaves the choice open. Used ring, slot release and interrupt
are three steps, in the code's order. Ring positions are kept as plain numbers,
because the module asks what `reset` and a snapshot do to them; suppression of
kicks and interrupts is `Virtqueue`'s. A request carries the number of resets
before it, so that one of an earlier life is told from one of this. `vm` is the
main thread's progress: join, `quiesce`, the three parts of the capture in
`write_snapshot`'s order, and `ReleaseBeforeTeardown`. With `Patient = FALSE`
`quiesce` may give up after its five seconds with requests in flight; the
`p9_*` runs use `TRUE`, so that what they show does not rest on a slow host.

### P9Fids

The share is one directory of numbered files; a host handle has one file open and
its value is handed out again once closed, which is what makes use after close
visible. A handler is three steps, as in the code: look the fid up under the
`fids` lock, act on the host's file system without it, take it again to store what
came back (or throw it away, if the fid went or was opened meanwhile). `Arc`
clones of a handle are the fid's and the handlers' references; the last one to go
closes it. `MAX_FIDS`, the listing cache and its budget, walk in place and to a
new fid, clunk, remove, rename and reset are there; attributes, links, locks and
the message formats are not.

### ConsoleDevice and HostInput

Typed bytes are numbered, so that loss and reordering show; the reader's thread
and the pump drain `rx_pending` under the ring's lock, and the look at the flag,
the drain and the interrupt are steps. In `HostInput` a frame of events is one
step, because the event queue's lock is held for all of it; the source is the
console's record reader or the window, with held keys, buttons, focus loss, the
tablet's axis scaled to the client width, LEDs, and a snapshot of the device.
`GuestMirrorsHost` allows for what the code drops knowingly.

### SndDevice

A stream's worker looks at the running flag, waits for its endpoint or its clock,
and ticks; a tick holds the stream's lock and may take a part of a period. START,
STOP, RELEASE and the device's reset come from a vCPU at any of these points, a
stop of the VM from the main thread. Samples, jacks and the audio engine are left
out.

### GpuDisplay and Recorder

A resource is a row of pixels and a pixel the number of the transfer that wrote
it, so that "the picture is the whole scanout" compares numbers. The picture
buffers, their age, the damage accumulated since each was current, the readers
that hold one (window and encoder), the coalesced `WM_APP_PAINT` and the window's
own size are kept; `redrawn` is a history variable, the whole scanout as the last
present saw it. The module is run three times: a guest that does everything, from
boot (`display`); one that has bound its scanout and only draws, long enough that
a flush draws on a spare that missed other damage, while the damage remembered
reaches back to it and when it no longer does (`spares`, with two flushes
remembered); and one that also changes the scanout's size, so that spares of
another size come up (`modes`). `InitBound` is where the second and the third
begin. `Recorder` counts time in audio frames and names a PCM frame by
the moment it was played, so that a track position tells whether it is where it
belongs; stalls, cuts past `MAX_BACKLOG`, padding and `finish` follow `record.rs`.

### NetDevice

A frame is the number of buffers it needs. The backend's owner and the pump each
go through `inject`, `deliver_frame` (with its attempts, and `rewind_avail` when
the buffers do not reach), the parking in the backlog, and the interrupt that a
burst puts off. `rx_congested` arms the wake flag and looks at the depth again, and
the drain stores the lower depth and looks at the flag: each is a step. Reset and
restart of the driver come in between.

### NatFlow, NatRouter, NatUdp, Reassembly

`NatFlow` is one 4-tuple through its incarnations. A worker owns a flow, so a
dequeued completion is one action; connect, receive and send are operations the
kernel holds, each with the box it writes to, and `boxes` says where each box is:
with the flow, with the kernel, in its pool. The guest's TCP is external: its
state, the bytes it holds, and the segments it has staged. `NatRouter` splits the
handling of a frame where another thread can see the difference: the ownership
table under its lock, and each atomic access of the lock-free free list, whose
head carries a tag. `NatUdp` is a table at its cap, with receives that complete
inline and a yield through the port. `Reassembly` counts in half blocks so that
an odd end is representable.

### SlirpBackend, GvisorBackend, WintunBackend

Each has the worker, the threads that bring guest frames, the frames held while
the guest's backlog is deep, and the stop. What sends and what sleeps is kept
step by step, since the wake-up flags are looked at without a lock. libslirp, the
Go stack and `wintun.dll` are external: they may build a frame or call back
whenever they are running.

### VmbusHost and VmbusIc

`VmbusHost` has one channel and its GPADLs: the guest posts messages on any vCPU;
answers go to the outbox; the target vCPU's loop moves one at a time to the
message slot and asks WHP for a deliverability exit while the slot is full. A
save and a restore may come at any point. `VmbusIc` is the runner's thread, which
works on the copy of the channel it took last, the host's closing and reopening
under it, and a `request` that waits with a timeout. The guest may refuse a
request, offer no version the runner speaks, or break its ring at any time.

### VmStop, with the graceful stop

The thread a graceful stop needs may fail to start: `Ask` leaves `begun` set and
goes on as if it had. `StopsComplete` then rests on a second request, a fatal
error or the guest, which is what `MustStop` says.

### SaveRestore and SnapshotFile

`SaveRestore` writes a file item by item in `write_snapshot`'s order; a write may
fail, the process may be killed, the file may be damaged at rest. A restore reads
the header, builds the machine from it in its own order, applies sections by
position and starts the clocks. The checksum is taken as collision-free here;
`SnapshotFile` checks its arithmetic (`crc32_combine`, over a shorter polynomial),
the sparse image with its chunks, runs and slices, and the header's escapes,
against reference definitions, for every input up to a size.

### LegacyIrq, Pit, PortDevices, CmosClock

`LegacyIrq` follows a line from the UART through the pair to the BSP, which polls
the output, injects, or asks for an interrupt window; a raise from any thread
kicks the BSP. `Pit` computes counts from the host's clock on demand, as the code
does, with a clock that wraps and starts again after a restore. `PortDevices`
registers the machine's ranges and follows power requests of several vCPUs.
`CmosClock` checks the date arithmetic against the calendar and the protocol of a
guest that reads until the seconds agree.

### GuestRam and BootLayout

`GuestRam` has the two mappings around the PCI hole, their failures, translation
of every range, the threads that populate and the release. `BootLayout` is pure:
every combination of RAM size, kernel, initramfs and limit from sets chosen around
the layout's edges, with `LoadIsSound` and its companions as the reference.

### TinyInit and SshSession

PID 1 unpacks on several threads, goes through the boot stages, mounts shares
parents first, starts services and reaps; signals are pending bits, discarded
while PID 1 neither blocks nor handles them. A service's output goes through a
log that rotates. `SshSession` has a connection's channels, their terminals and
shells, jobs in the shell's group and outside it, and the task that serves each.

## The runs

| Run | Bounds | Shows |
|---|---|---|
| `vq_safety` | W = 4, ring of 2, 2 retiring threads, 2 pushes per decision | no lost kick, no lost interrupt, each step is a step of `RequestChannel` |
| `vq_live` | W = 4, ring of 1, 2 threads, fair | the refinement with `RequestChannel`'s fairness |
| `blk_safety` | 2 heads, 3 requests, 2 slots, 2 segments, 1 bounce buffer, 2 resets, pump + vCPU + worker + main | the four block invariants |
| `blk_live` | 2 heads, 2 requests, 1 of each slot, 1 reset, fair | resets and `quiesce` end |
| `platform` | 12 components, some in two or three sizes; 1.8 million states | the devices |
| `services` | 15 components, `VmStop`, `NatRouter` and `NetDevice` in several sizes; 1.4 million states | what is around the devices |
| `host_io` | 6 components; 175 thousand states; fair | what must eventually happen, and the safety of the same components |
| `msix_torn` | 1 vector, 1 thread, 1 interrupt, 1 rewrite | a torn message is sent (finding) |
| `p9_reset` | 2 slots, 1 worker, 3 requests, 1 reset | a reset read as done is not (finding) |
| `p9_snapshot` | 2 slots, 1 worker, 3 requests | the ring moves after it was captured (finding) |
| `nat_close` | 4 bytes of the guest's over a queue of 2, 1 connection | data cut off by a clean close (finding) |
| `wintun_end` | 1 packet from the host, 1 frame from the guest | the session ends under its worker (finding) |

The properties of the three large runs, and the components' properties they join
(each stated and explained in its module):

| Property | Of |
|---|---|
| `TypeOK`, `NeverForgotten`, `PendingIsReplayed` | `Msix` (in `platform`) |
| `BusFollowsConfig`, `OthersStayWired` | `BarMapping` (in `services`) |
| `P9Safe`, `NothingStrands` | `P9Device`: `LinearOwnership`, `EachAnsweredOnce`, `ReleasedIsUntouched`; `NothingStrands` |
| `FidsCorrect` | `P9Fids`: `IoHitsItsFile`, `TableBounded` |
| `InputCorrect` | `ConsoleDevice`: `TypedArrives`; `HostInput`: `GuestMirrorsHost` |
| `SoundCorrect`, `DisplayCorrect`, `OthersAreUntouched` | `SndDevice`: `StreamsAnswer`, `OffStep`; `GpuDisplay`: `PictureIsWhole`, `WindowCatchesUp`, `HeldStep` |
| `RecordingInSync` | `Recorder`: `AVInSync`, `EndsTogether` |
| `StopSafe` | `VmStop`: `NoStopAfterDelete`, `VcpusStillAtCapture` |
| `NetCorrect` | `NetDevice`: `RxNothingStrands`, `SenderIsWoken` |
| `NatFlowCorrect` | `NatFlow`: `OpsKeepTheirBoxes`, `HostSeesTheStream`, `GuestIsTold`, `PausedIsWoken` |
| `NatTablesCorrect` | `NatRouter`: `OneShardPerFlow`, `SlotHasOneOwner`; `NatUdp`: `UdpOpsDrain`; `Reassembly`: `WholeDatagram` |
| `BackendsCorrect` | `SlirpBackend`: `SleepIsSafe`, `FramesInOrder`; `GvisorBackend`: `FlusherIsWoken`, `QuietAfterClose`; `WintunBackend`: `HandlesOutliveWorker` |
| `VmbusCorrect` | `VmbusHost`: `AnswersAreOnTheirWay`, `OpenIsBacked` |
| `SnapshotsReturn` | `SaveRestore`: `ResumedAsSaved`, `ClocksAgree`; `SnapshotFile`: `ImageReturns`, `CombineIsWhole`, `HeaderReturns` |
| `LegacyCorrect` | `LegacyIrq`: `RequestIsNoticed`, `TxIrqIsHeld`; `Pit`: `LatchIsOneCount`, `CountsGuestTime`; `PortDevices`: `PortsAreApart`, `PowerIsKnown`; `CmosClock`: `DateIsAMoment` |
| `MemoryCorrect` | `GuestRam`: `SameViewAsGuest`, `NeverDangling`, `PopulatedOnce`; `BootLayout`: `LoadIsSound`, `FitsMeansLoads`, `TablesApart`, `PkgLengthsRead`, `NoteIsFound` |
| `TypeOK`, `StopMeansStopped`, `NeverOrphaned` | `BlockFile` (in `host_io`) |
| `TransportSafe` | `VirtioTransport`: `ResetIsHonest`, `RegistersMatchDevice`, `StopIsFinal` |
| `GuestCorrect` | `VmbusIc`: `TookIsThisOne`; `TinyInit`: `RootIsWhole`, `SharesAreSeen`, `NoExitMissed`, `LogsKeepTheTail`; `SshSession`: `SessionsEnd`, `EofIsReached` |
| `RequestsAreServed` | leads-to: an accepted block operation completes, a kick is served, a shutdown request returns |
| `StopsComplete` | leads-to: the block backend's `stop` ends, the VM is deleted, PID 1 powers off, an SSH session ends |
| `NothingHangs` | leads-to: a register access returns, a trigger saves, PID 1 boots or gives up |

Bounds. W = 4 with a ring of 2 makes indices wrap twice as often as slots, the
relation that 2^16 has to any power-of-two ring; the proofs cover every W and Size
with 2 * Size <= W and, for the refinement, Size a divisor of W. Three requests over two heads let a stale request of each of
two epochs coexist with a new one. Two vCPUs are a BSP and an AP; all APs behave
alike. Two vectors tell a vector that is rewritten from one that is replayed.
Four config writes are enough to enable one device, move another's BAR onto it,
enable it there, and move or disable either. The stop is run with two vCPUs under
the watchdog, and with one vCPU under the sentinel and under both; `StopSafe` is
proved for any number. `NetDevice` is run with a backlog of one frame and
frames of two buffers, and with a backlog of two frames and a reset. `NatRouter` is
run with two tuples, and with one tuple and a third frame, which the free list
needs to come back to the head a thread has read. 9p is run with two slots and one
worker, and with one slot and two workers. The fid table is run with two
handlers over two names, and with one handler and longer sequences over its
listings. In the network modules the marks (`High`, `Low`), the pool and the hold
limit are small enough for a burst of two to four frames to pass them in both
directions, and each bound on frames lets a second burst follow. NAT tables have
one tuple more than they hold. `Reassembly` sends four fragments over datagrams of
up to three blocks, which covers every order, overlap and contradiction of three.
Two connections of `NatFlow` share a tuple, so a late completion can meet the next
one. `Pit` bytes hold 2 values and counts 4; `CmosClock` reads around midnight on
13 days that end months, leap years and centuries. `GuestRam`'s sizes lie below,
at and above the hole, on and off a page; `BootLayout`'s sets are named in
`MCServices`. `MaxRequests` bounds what the transport's driver has posted and not
seen finished; its resets, kicks and remaps are not bounded at all. Symmetry sets
permute identities that no action tells apart, and only safety runs use them.
`CHECK_DEADLOCK FALSE` is set where the VM ends or a bound is used up; that
nothing waits for ever is stated as a property instead.

Fairness. Host threads keep running: weak fairness of each thread's steps. A step
of `Virtqueue` that has to acquire the queue mutex gets strong fairness: Windows'
SRW locks are not fair, but no thread takes this one in a loop without doing I/O
or waiting in between. A completion that `BlockFile`'s worker could take is not
passed over for ever, though it has others to take: strong fairness of `Dequeue`,
since a port is a queue. Everything else is weak. Store buffers drain. Host I/O completes. The guest owes nothing except
what a property's antecedent needs: `vq_live` needs a driver that goes on after it
has begun, `BlkCompletes` one that polls its reset, and `RequestsAreServed` one
that answers the shutdown requests it reads while it keeps the channel open (the
timeout of `request` would do as well, and is not relied on). In the transport's half of `host_io`, fairness is on the host's side alone: the vCPU's
half of an access that has begun, the pump, the device's thread. `TinyInit`'s
fairness is PID 1's own and its extraction workers'; children and signals owe
nothing.

## Proofs

The theorems hold for every value of the constants that satisfies the named
assumptions. Each invariant below was checked by TLC before it was proved. The
proof of an invariant has one lemma or step per action; `Invariance` joins them,
and the theorems about single properties follow from it.

| Theorem | Property | From |
|---|---|---|
| `VirtqueueProofs`: `TypeCorrect`, `KickNeverLost`, `InterruptNeverLost` | `TypeOK`, `NoLostKick`, `NoLostInterrupt` | `KickInv`, `SignalInv` |
| `VirtqueueProofs`: `RingsAreAChannel` | `ChannelSafety`: `Virtqueue` implements `RequestChannel`'s safety part | `RingInv` |
| `BlkDeviceProofs`: `TypeCorrect`, `ResetIsClean`, `HeadHasOneOwner`, `SlotsNotAliased`, `QuiesceStills` | `TypeOK`, `NoTouchAfterReset`, `OneOwner`, `NoSlotAliased`, `QuiescedIsStill` | `IInv` |
| `BlockFileProofs`: `TypeCorrect`, `StoppedRunsNothing`, `PendingHasWorker` | `TypeOK`, `StopMeansStopped`, `NeverOrphaned` | `StopInv` |
| `Msix`: `TypeCorrect`, `InterruptsAreNeverForgotten`, `SettledControlReplays` | `TypeOK`, `NeverForgotten`, `PendingIsReplayed` | itself; `SettledInv` |
| `BarMappingProofs`: `BusIsConfig`, `NoDeviceLosesARange` | `BusFollowsConfig`, `OthersStayWired` | `IInv` |
| `DeviceProofs`: `P9IsSafe`, `P9NothingStrands` | `P9Device`'s `P9Safe`, `NothingStrands` | `P9Inv` |
| `DeviceProofs`: `TransportKeepsItsWord` | `VirtioTransport`'s `TransportSafe` | `TransportInv` |
| `DeviceProofs`: `TypedBytesArrive` | `ConsoleDevice`'s `TypedArrives` | `ConsoleInv` |
| `DeviceProofs`: `StreamsAreAnswered`, `SoundLeavesRamAlone` | `SndDevice`'s `StreamsAnswer`, and the action property `OffIsUntouched` | `SndInv` |
| `DeviceProofs`: `PicRequestsAreNoticed` | `LegacyIrq`'s `RequestIsNoticed`, `TxIrqIsHeld` | `IrqInv` |
| `NetworkProofs`: `FlowsKeepTheirShard`, `FrameSlotsHaveOneOwner` | `NatRouter`'s `OneShardPerFlow`, `SlotHasOneOwner` | `RouterInv` |
| `NetworkProofs`: `NetStrandsNothing` | `NetDevice`'s `RxNothingStrands`, `SenderIsWoken` | `NetInv` |
| `ServicesProofs`: `TeardownIsSafe` | `VmStop`'s `StopSafe` | `VmInv` |
| `ServicesProofs`: `FlowsAreSound` | `NatFlow`'s `OpsKeepTheirBoxes`, `HostSeesTheStream`, `GuestIsTold`, `PausedIsWoken` | `FlowInv` |
| `ServicesProofs`: `UdpOpsAreNeverLost` | `NatUdp`'s `UdpOpsDrain` | `UdpInv` |
| `ServicesProofs`: `DatagramsAreWhole` | `Reassembly`'s `WholeDatagram` | `PendingInv` |
| `ServicesProofs`: `SlirpSleepsSafelyInOrder` | `SlirpBackend`'s `SleepIsSafe`, `FramesInOrder` | `SlirpInv` |
| `ServicesProofs`: `GvisorSleepsAndClosesSafely` | `GvisorBackend`'s `FlusherIsWoken`, `QuietAfterClose` | `GvisorInv` |
| `ServicesProofs`: `WintunHandlesOutliveWorker` | `WintunBackend`'s `HandlesOutliveWorker` | `WintunInv` |
| `ServicesProofs`: `OpenChannelsAreBacked`, `GuestIsAnswered` | `VmbusHost`'s `OpenIsBacked`, `AnswersAreOnTheirWay` | `VmbusInv`; `TurnInv` |
| `ServicesProofs`: `GuestInitIsSafe` | `TinyInit`'s `RootIsWhole`, `SharesAreSeen`, `NoExitMissed`, `LogsKeepTheTail` | `TinyInv` |
| `ServicesProofs`: `SshSessionsEnd` | `SshSession`'s `SessionsEnd`, `EofIsReached` | `SshInv` |

`DeviceProofs`, `NetworkProofs` and `ServicesProofs` are about several components
each. They take a component as an instance whose constants and variables are
parameters (`P9`, `Pci`, `Con`, `Snd`, `Pic`; `Nic`; `Vm`, `Udp`, `Slirp`, `Gvisor`,
`Wintun`, `Vmbus`, `Frag`, `Guest`, `Ssh`, `Tcp`); a name that two components use is
declared once, and each theorem is about one of them alone.

### Virtqueue

For every modulus W, ring size with 2 * Size <= W, and any set of retiring
threads.

* `KickNeverLost`. The invariant is `KickInv`: while the pump is not looking at the
  ring, `avail_event` is the index where the ring ran dry, and the entries
  published since are among those the driver has still to decide about (a
  comparison of two distances, so that it survives wrapping). `NoLostKick` alone
  says nothing about `avail_event`, so it is not inductive. `NeedEventExact` is the
  arithmetic heart: `vring_need_event(e, n, o)` holds exactly when e lies in the
  half-open window from o to n.
* `InterruptNeverLost`, if `MaxUnsignaled < W`, from `SignalInv` in the same way: a
  sleeping driver has asked to be told of the next element, and the elements it has
  not seen are among those some thread has still to decide about. `SubInc`,
  `SubZero` and `PushGrows` are the facts about distances modulo W.
* `RingsAreAChannel`: every step of the rings is a step of `RequestChannel`, or
  leaves it alone. `RingInv` says that a head is in one place at a time (free, in
  the window of published entries, in flight, in the window of retired ones), and
  that `usedIdx` lies between what was reaped and what was retired. Since there are
  Size heads, a head outside a window leaves room in it (`Room`, by the pigeonhole
  principle), so the slot a producer writes is not that of a live entry and the
  push appends to the window (`WindowPush`). That slots of an index and of the
  index one turn later agree needs Size to divide W (`RingAssumption`; the transport
  takes powers of two only, `transport.rs` 794), which gives `Turn`. The push lemmas,
  the pop lemmas and `RingInv` for the steps that move no ring make `RingStep`.

### BlkDevice

For any number of draining threads, requests, pool slots, segments, bounce buffers
and resets. The argument is one of ownership. A request that is being taken apart
or finished belongs to one thread; in between, `outstanding` is the number of its
busy segments and of the submission guard (`OutstandingInv`), so whoever takes it
to zero has the request alone (`SoleInv`), and `active` is the number of live
requests (`ActiveInv`). `SlotInv` and `BounceInv` then follow requests and slots,
`HeadInv` the heads of the current epoch: a live request that has not pushed holds
its head, no two hold the same, and after a reset was read as done every live
request is of the current epoch. `QuiesceInv` is what the main thread knows when
it starts to wait. None of the four properties is inductive alone: each needs the
counts to be exact. The counts are cardinalities, so the requests and the segment
pool are taken to be finite.

### VmStop

For any number of vCPUs, with or without a watchdog and a sentinel, and a user who
asks any number of times. `NoStopAfterDelete` needs that every thread which can be
inside `stop_all` is accounted for: a vCPU's thread only before it has ended
(`VcpuInv`), the graceful stop and the user only under the mutex and while
`stop_all` is armed (`UserInv`), the watchdog and the sentinel only until they
are joined.

### VirtioTransport

For any number of requests. `ResetInv`: while a reset is in progress or something
old is left to settle, `reset_from` keeps the status from reading 0. `QueueInv`: a
ready queue is enabled, unless the access that takes it down is under way; under a
status of 0 that access is the reset itself. `LockInv` and `DriverInv` tie these
to who holds which lock and to how far the driver's initialisation is.

### P9Device

For any pool, workers, requests and resets. `OwnInv` gives every slot one owner;
`AnswerInv` says that before the first reset the requests held and the answered
ones are all of those taken, each once, and the two ring positions differ by the
slots that hold an unanswered request; RAM is released only with the pump gone and
every slot free; `NothingStrands` needs the polling pump included. The pool's size
enters only through the number of unanswered requests.

### ConsoleDevice, SndDevice, LegacyIrq

`ConsoleDevice`, for any number of bytes and buffers: what was read, what lies in
filled buffers and what is pending are consecutive numbers up to the last byte
forwarded (`ByteInv`), until a driver that gave up its buffers loses those;
`BufferInv` counts buffers; `DrainInv` says that a thread with bytes pending beside
a free buffer is at work, kicked or about to look; `ConsoleIrqInv` follows an
interrupt from the filled buffer to the driver.

`SndDevice`, for any streams: `PeriodInv` balances what was taken against what is
in hand, completed, or lost to a snapshot; `WakeInv` says that the worker of a
running stream is awake or has its event set; `OffInv` that once the queues are
disabled no worker is past the look at `ready`, which gives the action property.

`LegacyIrq`: a vector not yet delivered is in the pair, in the BSP's hand or in
service (`VectorInv`), and the BSP was canceled, waits for a window it armed, or is
about to look.

### NetDevice

For any ring, pool, batch, number of attempts and frame sizes. `NicLockInv` gives
the receive lock its holder; `HandInv` says what a thread has in hand: the buffers
past those published, the frame it is about. The two half-fences, the
driver's against `avail_event` and the worker's against the wake flag, are
`NicStrandInv` (the frame at the head of the backlog has a drain at work, a kick to come,
or an `avail_event` where the last look found too few buffers), `NicIrqInv` (a
used buffer beside a sleeping driver has its interrupt on the way or counts as new
at the next decision) and `PauseInv` (a backend told to hold back has its flag set
over a deep backlog, or a drain has still to compare). None is inductive alone: a
frame left by one thread becomes another's to deliver.

### NatRouter

For any workers, tuples, slots and threads. For the table: an entry is the flow's
worker's, or its SYN is queued there, or is in the hands of the thread that made
the entry (`OwnedIsUsed`), and a thread about to give an entry back is the only
trace of it. For the free list: the head's tag grows with every change, so a
thread's copy of the head is of an older tag, or the head is what it read
(`TagInv`); a swap that succeeds therefore links or unlinks what is there now. The
slots reached from the head are numbered in list order by an invariant instead of
being computed by recursion, and none of them is held by a thread or a queued frame.
The tag is a number without bound here; the code's is 32 bits wide and wraps.

### NatFlow

For any chunks, caps, rings, streams and connections. The handlers are written as
functions of the worker's state, as `nat.rs` calls them, and so is the proof: a
lemma per function says what it keeps of a state s. `Sound` (boxes, the stream,
FINs and lists) survives every call inside a handler; `Whole` adds what holds where
a handler drives the flow; `Settled` is what it leaves behind. The guest's bytes
are 1, 2, ...: the host has a prefix, the send in flight the next, then the queue,
then the TCB's ring, without gap (`Held`, `Covered`). `OpsKeepTheirBoxes` and
`HostSeesTheStream` follow from `Sound`, `GuestIsTold` and `PausedIsWoken` from
`Settled` and what is said of the NIC's list.

### NatUdp, Reassembly, SlirpBackend, GvisorBackend, WintunBackend

`NatUdp`: an op is in the pool, in the kernel, completed and queued, or the one
its worker serves now; the state between two inline completions is the same
invariant with that op left out. `Reassembly`: every byte of a pending datagram's
blocks came in a fragment of that datagram; a set of blocks as long as the
datagram is all of it. `SlirpBackend`: queue, batch, held frames and backlog
concatenate to the order of production; the worker's disarm is followed by a look
(`WakeInv`). `GvisorBackend`: segments with Go threads plus those held are counted
in the backlog's bound; the flusher waits only over an empty hold or with somebody
to poke it; a thread inside a callback keeps `close` from returning (`CloseInv`).
`WintunBackend`: adapter and event are closed by the step after the join; the
session, which is not, is `wintun_end`'s.

### VmbusHost

`OpenChannelsAreBacked` for any GPADLs, vCPUs and order of messages, new kernels
and restores. `GuestIsAnswered` is for a guest that takes its messages on one vCPU
(`Targets` a singleton; for two it is false, see the known limits): an answer in
the outbox or the slot has the target's vCPU in its loop, owed an exit or kicked
(`TurnInv`).

### TinyInit, SshSession

`TinyInit`, for any workers, frames, shares and services: a service runs only after
every frame was extracted by a worker that reported no failure (`UnpackInv`); a
share is hidden only by a mount above it that came later, and mounts go parents
first (`ShareInv`); an exited child is a zombie with SIGCHLD pending, or PID 1 is
about to reap (`ReapInv`); a log and its predecessor hold the last bytes (`LogInv`).
`SshSession`, for any sessions: what ends a session's task kills its shell's group
first, and the last holder of the pty's slave is gone before the task waits for
the end of its output.

### BarMapping

For any devices, bases and number of ranges per BAR, under `Serialised`: the guest
writes config space one vCPU at a time, as Linux's `pci_lock` makes it (without
it `OthersStayWired` fails, see the known limits). `SettledInv` says for a device
nobody is at work on that config space, transport and bus agree. For the one device
a `config_write` is at work on, `CallInv` says which events are left and how far the
event in hand is: which ranges are already on, or already off the bus (`Progress`),
and that the events left end where config space already is (`Ahead`).

### BlockFile

For any finite set of operations, from `StopInv`, which ties the count to the set of
operations that are not idle by its cardinality.

### Msix

For any vectors, threads and bounds.

* `TypeCorrect`: a thread holds a vector exactly while it is inside `trigger`.
* `InterruptsAreNeverForgotten` is inductive on top of `TypeOK`: a step that takes
  a vector out of a thread's hands either sets its pending bit under the lock or
  injects it, and a step that clears a pending bit puts the vector into `replay`.
* `SettledControlReplays` is not inductive: a thread on its way to latch a vector
  because Message Control forbade it would break it once Message Control allows it.
  `SettledInv` adds that, before a late change of Message Control, no thread is on
  that path, no thread is inside `trigger` before vectors are assigned, and every
  pending entry is masked.

### Only model-checked

* All liveness, the fairness half of `ImplementsChannel` included (TLAPS does not do
  fairness or `ENABLED`).
* What folds and recursive functions compute, for which TLAPS has no induction over
  data here: `GpuDisplay`'s damage and pictures (`DisplayCorrect`, and `HeldStep` in
  `OthersAreUntouched`), `HostInput`'s frames of events in `InputCorrect`,
  `Recorder`'s tracks (`RecordingInSync`), `SnapshotFile`'s checksum and image and
  `SaveRestore`'s file (`SnapshotsReturn`), `CmosClock`'s calendar.
* `P9Fids` (`FidsCorrect`), `VmbusIc`'s `TookIsThisOne`, `GuestRam` and `BootLayout`
  (`MemoryCorrect`), `Pit` and `PortDevices` in `LegacyCorrect`: within reach, not
  done. `BootLayout`, `Pit` and `CmosClock` are arithmetic over chosen inputs, where
  the runs are exhaustive around every edge of the layout.

## Findings

`trigger` looks at an entry's mask under the `tables` lock, lets go of it, and
`do_inject` takes it again to read the message. A guest that masks the entry in
between and begins to rewrite it, which is how Linux moves an interrupt to
another CPU, gets an interrupt from a masked entry, made of halves of two
messages. `msix.rs` and INTERNALS.md say a masked vector is latched; `msix_torn`
is the counterexample.

`P9Device::reset` does not reset the queue, and `reset_pending` is the default
`false` although workers may be writing replies. INTERNALS.md promises a full
reset whose completion the driver can wait for. In `p9_reset` the driver reads 0
with a request running and the ring position kept.

`quiesce` waits for the slots and not for the pump. A doorbell rung as the vCPUs
stop may be served at any time later; in `p9_snapshot` it is served between the
capture of the device's queue and that of RAM. The saved device has not taken a
request that the saved RAM shows answered, which INTERNALS.md and the comment at
the call rule out. The block device does not have this: `QuiescedIsStill`.

A NAT flow is closed gracefully when the guest's TCP has no error. A host that
half-closes first and reads on lets the guest finish: its last data is
acknowledged and queued for the host, its FIN is acknowledged, its TCP is closed
without an error, and `tcp_drive` tears the flow down with the queue still full.
The host reads a clean end of a stream that was cut short, which the comment in
`begin_teardown` says must not happen (`nat_close`).

`WintunBackend::stop` ends the session (`wintun.rs` 296) and joins the worker
after that (297). The worker may have looked at `running` and be about to receive
on the session, or hold a packet that it will release to it; a pump inside
`send_ip` is waited for by nobody. The comments at lines 54-55 and 62-64, the
second of them the argument for `Send` and `Sync`, say that the session is torn
down after the worker was joined; `wintun_end` is the counterexample. Adapter and
event do outlive the worker (`HandlesOutliveWorker`, proved).

Three more disagreements were met and have a property, but no run of their own:

* `SaveRestore`'s `NewFlowsWork`: a restore starts the network backends
  (`main.rs` 3989-3999) before it applies the vCPUs' APIC state (4009,
  `vcpu_state.rs` 242), so the interrupt of a frame that arrives in between is
  overwritten and the driver learns of the frame with the next one only.
* `P9Device`'s `AcquireNeverFails`: the pool has a slot per ring entry "so an
  acquire can never fail" (`p9.rs` 781). `complete_slot` publishes the reply before
  it releases the slot, so a guest that reaps it (told by another reply's interrupt)
  can fill the ring again first, and the request that finds no slot is retired with
  length 0. TLC refutes it under `p9_snapshot`'s constants with `MaxPosts = 4`.
  Releasing before the push would be worse, as the variant for `LinearOwnership`
  shows; one slot more per thread is enough.
* `TinyInit`'s `PoweroffIsHeeded`: the kernel is told of tinyinit's `poweroff`
  (`boot.rs` 133) before PID 1 blocks the signal that `poweroff` sends it
  (239-250); a signal in between is discarded and `poweroff` reports success. The
  repository's README, lines 637-638, says it "has PID 1 stop every process, sync
  and power off".

## Known limits

Things the modules know of and no run calls an error. Where a property is named,
it is stated in the module and TLC refutes it under the condition given.

Rings, transport and PCI:

* `should_interrupt_driver` compares 16-bit distances from `last_used_signaled`.
  net's `pump_tx` and console's `drain_tx` push for as long as the driver
  publishes and decide once at the end. After exactly a whole cycle of 65536
  pushes the distance reads as zero, and the decision is "no" with a driver
  asleep. With `MaxUnsignaled = W` in `MCVirtqueueSafety.cfg` TLC refutes
  `NoLostInterrupt`; `InterruptNeverLost` proves that W - 1 pushes are safe.
* Two vCPUs in config space at once. `on_bar_mapped` asks the bus whether the
  range is free and then registers, in separate calls and outside the config
  lock. With `Serialised = FALSE` and two vCPUs, TLC refutes `OthersStayWired`.
  Linux serialises config accesses, so `services` does, and the theorems
  assume it.
* A pump thread that cannot be created (`spawn(...).ok()` in
  `install_doorbells`) leaves its doorbells registered: they swallow kicks that
  the MMIO handler would have served. `RequestsAreServed` excludes it.
* `set_control` replays nothing. A vector latched while the function is masked
  or MSI-X is off stays pending when the function mask is lifted, until its entry
  is masked and unmasked. `PendingIsReplayed` is stated for `controls = 0`.

Devices:

* `NetDevice`'s reset stores `rx_backlog = 0` outside the receive lock; an
  injection between the two makes the count low until the next drain stores it.
* `P9Fids`' `RelIsThePath`: a fid keeps the path it was walked to, and a rename or
  a remove through another fid, or one that races a walk, leaves it behind.
* The PIT's latch in the LSB-only and MSB-only modes is not released by a read,
  and a reload of 0 in mode 0 reads as expired in the tick it is loaded.
* `HostInput`'s `FocusLossReleases` (`main.rs:4427`): the releases of a focus loss
  are dropped like any frame when the guest has no buffers, and a key stays down.
* The sound device's section has neither the running flags nor the period in hand:
  that period is never answered after a restore.
* The recorder reads the clock and takes the picture afterwards; a flush in between
  is shown in a tick that may have ended before it (`record.rs:20-23` says no frame
  is shown before it was presented).

Network:

* `IcmpPool::stop` clears `running` without the queue's lock; a worker between its
  look at the flag and its wait sleeps through the stop.
* The gVisor flusher and a direct delivery may swap two frames: both let go of the
  held queue before they inject.
* When the post of a SYN's frame to its worker fails, the key's entry is dropped.
  `NatRouter` takes it that no older SYN of the same key is then on its way to
  becoming a flow at that worker, which would lose its entry with it.

VMBus and stop:

* `AnswersAreOnTheirWay` holds while the guest's kernels take messages on one
  vCPU. With `Targets` of two, `slot_busy` set for the old target's slot is cleared
  only by an exit on the new one, and the answers wait (`vmbus/mod.rs:16` says it
  always answers).
* The answer to one REQUESTOFFERS is several messages, so an outbox just under
  `MAX_OUTBOX` may end above it. Such a machine can be saved, and the restore refuses
  the section (`vmbus/mod.rs:642`); `SaveRestore` of `VmbusHost` does not happen then.
* `PagesLetGo`: the runner may still read a ring whose pages the guest has been
  told are its own again (`vmbus/mod.rs:365-366`); the read is of the guest's own
  memory.
* An answer that comes after its request timed out may be credited to the next
  request; `TookIsThisOne` says so in its `late`.
* `File::create` truncates an earlier snapshot of the same name before the new one
  is written, so a save that fails loses both.

Boot and guest:

* The PVH loader does not check a kernel's segments against the boot data below
  64 KiB, nor that its BSS stays out of the MMIO window; `BootLayout` takes
  kernels that begin at 1 MiB.
* tinyinit kills the remaining processes and syncs at once, without waiting for
  them; an SSH session's kill may meet a process id that was used again.

## Not modelled

Left out: VHDX and ISO files and PCI passthrough (the state is the operating
system's), CPUID tables, the parsers of the convenience boot (sequential functions
of on-disk bytes, tested over images), diagnostics and the command line. Within
modelled parts: walking a descriptor chain, offload headers and checksums, wire
formats, ICMP, DHCP and forwarded ports of the NAT, the time-sync service, the
contents of ACPI tables, pixel formats and cursors, samples, the audio engine, the
network configuration of the guest, and the bindings of `whpsys` and `winsys`
except where their behaviour is named above.
