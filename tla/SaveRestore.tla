---------------------------- MODULE SaveRestore ----------------------------
(***************************************************************************)
(* One virtual machine saved to a file and restored from it                *)
(* (write_snapshot, run_restore and run_pvh_run in src/main.rs, the file   *)
(* writer and reader in src/whp/snapshot_file.rs, src/whp/vcpu_state.rs    *)
(* and hv::PartitionState in src/whp/hv.rs).                               *)
(*                                                                         *)
(* The machine is saved once, quiesced: its vCPUs are joined and its       *)
(* devices still (VmStop and P9Device say how far that holds). A write may *)
(* fail, the process may be killed, and the file may be damaged at rest.   *)
(* The checksum is modelled as collision-free: a trailer holds for exactly *)
(* the items it was computed over, undamaged. SnapshotFile has the sparse  *)
(* RAM image and the checksum's arithmetic.                                *)
(***************************************************************************)
EXTENDS Integers, Sequences

CONSTANTS Vcpus,   \* 0..n, the first the BSP
          MaxNics, MaxDrives, MaxShares,
          MaxTime  \* clock ticks in one life of the machine

SaveRestoreAssumption ==
    /\ Vcpus \in Nat \ {0}
    /\ {MaxNics, MaxDrives, MaxShares, MaxTime} \subseteq Nat

VARIABLES
    cfg,     \* PvhArgs: which devices the machine has
    phase,   \* run (of the saving process), gone, then the restoring one's
    at,      \* the next vCPU, item or device of a phase that loops
    part,    \* the partition's clocks: [on, ref, tsc]
    caps,    \* CapturedVcpuState and PartitionState, per vCPU and "hv"
    file,    \* on disk: [there, items, trailer (over how many items), synced]
    found,   \* the items the reader got
    machine, \* what the restore has applied
    rx,      \* frames a fresh net backend has put in the RX ring
    irr,     \* the vCPU whose APIC holds the RX interrupt, or -1
    rxVcpu   \* the vCPU the guest routed it to

vars == <<cfg, phase, at, part, caps, file, found, machine, rx, irr, rxVcpu>>
Cpus == 0..(Vcpus - 1)
None == "none"

---------------------------------------------------------------------------
\* The device model: one transport per device, in PCI-add order, its MSI-X
\* vectors and whether its queues have doorbells. `bells` is the process's
\* --no-doorbells flag.
Configs == [nics : 0..MaxNics, rng : BOOLEAN, sound : BOOLEAN, drives : 0..MaxDrives,
            input : BOOLEAN, shares : 0..MaxShares, gpu : BOOLEAN]
Dev(kind, vectors, bells) == [kind |-> kind, vectors |-> vectors, bells |-> bells]
Times(n, d) == [i \in 1..n |-> d]
If(b, s) == IF b THEN s ELSE <<>>

RunConsole(bells) == <<Dev("console", 3, bells)>>
RunNets(c, bells) == Times(c.nics, Dev("net", 3, bells))
RunRng(c) == If(c.rng, <<Dev("rng", 2, FALSE)>>)
RunSnd(c) == If(c.sound, <<Dev("snd", 5, FALSE)>>)
RunBlks(c, bells) == Times(c.drives, Dev("blk", 2, bells))
AddInput(c) == If(c.input, <<Dev("keyboard", 3, FALSE), Dev("tablet", 3, FALSE)>>)
RunP9s(c, bells) == Times(c.shares, Dev("9p", 2, bells))
RunGpu(c) == If(c.gpu, <<Dev("gpu", 3, FALSE)>>)
RunTree(c, bells) ==
    RunConsole(bells) \o RunNets(c, bells) \o RunRng(c) \o RunSnd(c) \o RunBlks(c, bells)
    \o AddInput(c) \o RunP9s(c, bells) \o RunGpu(c)

\* The restore builds the same list from the header.
RestoreConsole(bells) == <<Dev("console", 3, bells)>>
RestoreNets(c, bells) == Times(c.nics, Dev("net", 3, bells))
RestoreRng(c) == If(c.rng, <<Dev("rng", 2, FALSE)>>)
RestoreSnd(c) == If(c.sound, <<Dev("snd", 5, FALSE)>>)
RestoreBlks(c, bells) == Times(c.drives, Dev("blk", 2, bells))
RestoreP9s(c, bells) == Times(c.shares, Dev("9p", 2, bells))
RestoreGpu(c) == If(c.gpu, <<Dev("gpu", 3, FALSE)>>)

\* Faulty: the input devices after 9p, unlike run_pvh_run.
RestoreTreeInputLast(c, bells) ==
    RestoreConsole(bells) \o RestoreNets(c, bells) \o RestoreRng(c) \o RestoreSnd(c)
    \o RestoreBlks(c, bells) \o RestoreP9s(c, bells) \o AddInput(c) \o RestoreGpu(c)

RestoreTree(c, bells) ==
    RestoreConsole(bells) \o RestoreNets(c, bells) \o RestoreRng(c) \o RestoreSnd(c)
    \o RestoreBlks(c, bells) \o AddInput(c) \o RestoreP9s(c, bells) \o RestoreGpu(c)

---------------------------------------------------------------------------
\* The file's items, in write_snapshot's order: RAM last.
Item(ty, idx, val) == [ty |-> ty, idx |-> idx, val |-> val, bad |-> FALSE]
VcpuItems(v) == <<Item("VcpuRegs", v, caps.vcpu[v].regs), Item("VcpuApic", v, caps.vcpu[v].irr),
                  Item("VcpuTiming", v, caps.vcpu[v].tsc)>>
AllVcpuItems[n \in 0..Vcpus] == IF n = 0 THEN <<>> ELSE AllVcpuItems[n - 1] \o VcpuItems(n - 1)
PciItems(tree) == [i \in 1..Len(tree) |-> Item("PciDevice", i, tree[i].kind)]
Items ==
    <<Item("Header", 0, cfg)>> \o AllVcpuItems[Vcpus]
    \o <<Item("HvPartition", 0, caps.hv), Item("Legacy", 0, "legacy")>>
    \o PciItems(RunTree(cfg, TRUE)) \o <<Item("RamSparse", 0, "ram")>>
Spoil(item) == [item EXCEPT !.bad = TRUE]
NoFile == [there |-> FALSE, items |-> <<>>, trailer |-> 0, synced |-> FALSE]

Blank == [regs |-> [v \in Cpus |-> -1], tree |-> <<>>, dev |-> <<>>, ram |-> None]

Init ==
    /\ cfg \in Configs
    /\ phase = "run" /\ at = 0
    /\ part = [on |-> TRUE, ref |-> 0, tsc |-> [v \in Cpus |-> v]]
    /\ caps = [vcpu |-> [v \in Cpus |-> [regs |-> -1, irr |-> FALSE, tsc |-> -1]], hv |-> -1]
    /\ file = NoFile /\ found = <<>> /\ machine = Blank
    /\ rx = 0 /\ irr = -1 /\ rxVcpu \in Cpus

\* Every clock of a partition counts together, until suspend_time.
Tick ==
    /\ part.on /\ part.ref < MaxTime /\ phase \notin {"gone", "refused"}
    /\ part' = [part EXCEPT !.ref = @ + 1, !.tsc = [v \in Cpus |-> @[v] + 1]]
    /\ UNCHANGED <<cfg, phase, at, caps, file, found, machine, rx, irr, rxVcpu>>

---------------------------------------------------------------------------
\* Faulty: the partition's time runs on during the save.
SuspendNever(p) == p

\* write_snapshot.
SuspendTime(p) == [p EXCEPT !.on = FALSE]

Save ==
    /\ phase = "run"
    /\ part' = SuspendTime(part) /\ phase' = "capture" /\ at' = 0
    /\ UNCHANGED <<cfg, caps, file, found, machine, rx, irr, rxVcpu>>

\* vs::capture, one vCPU after the other. The guest issued the trigger: its RX
\* interrupt is not pending.
Capture ==
    /\ phase = "capture" /\ at < Vcpus
    /\ caps' = [caps EXCEPT !.vcpu[at] = [regs |-> at, irr |-> FALSE, tsc |-> part.tsc[at]]]
    /\ at' = at + 1
    /\ UNCHANGED <<cfg, phase, part, file, found, machine, rx, irr, rxVcpu>>

\* PartitionState::capture.
CaptureHv ==
    /\ phase = "capture" /\ at = Vcpus
    /\ caps' = [caps EXCEPT !.hv = part.ref]
    /\ phase' = "create"
    /\ UNCHANGED <<cfg, at, part, file, found, machine, rx, irr, rxVcpu>>

\* SnapshotWriter::create truncates what the path held.
Create ==
    /\ phase = "create"
    /\ file' = [NoFile EXCEPT !.there = TRUE]
    /\ phase' = "write"
    /\ UNCHANGED <<cfg, at, part, caps, found, machine, rx, irr, rxVcpu>>

\* write_header, write_section and write_ram_sparse, one item a step.
Write ==
    /\ phase = "write" /\ Len(file.items) < Len(Items)
    /\ file' = [file EXCEPT !.items = Append(@, Items[Len(@) + 1])]
    /\ UNCHANGED <<cfg, phase, at, part, caps, found, machine, rx, irr, rxVcpu>>

\* finalize: the trailer, flush and sync_all; the process then exits.
Finalize ==
    /\ phase = "write" /\ Len(file.items) = Len(Items)
    /\ file' = [file EXCEPT !.trailer = Len(file.items), !.synced = TRUE]
    /\ phase' = "gone"
    /\ UNCHANGED <<cfg, at, part, caps, found, machine, rx, irr, rxVcpu>>

\* A failed create or write returns early: the writer's drop removes the file.
WriteFails ==
    /\ phase \in {"create", "write"}
    /\ file' = NoFile /\ phase' = "gone"
    /\ UNCHANGED <<cfg, at, part, caps, found, machine, rx, irr, rxVcpu>>

\* The process is killed, or the host loses power, before the sync: any prefix
\* of what was written is on disk, its last item perhaps torn.
Killed ==
    /\ phase \in {"capture", "create", "write"}
    /\ \E n \in 0..Len(file.items), torn \in BOOLEAN :
          file' = [file EXCEPT !.items =
                     [i \in 1..n |-> IF torn /\ i = n THEN Spoil(@[i]) ELSE @[i]]]
    /\ phase' = "gone"
    /\ UNCHANGED <<cfg, at, part, caps, found, machine, rx, irr, rxVcpu>>

\* At rest, an item is damaged or the tail lost.
Damage ==
    /\ phase = "gone" /\ file.synced
    /\ \E n \in 1..Len(file.items) :
          \/ file' = [file EXCEPT !.items[n] = Spoil(@), !.synced = FALSE]
          \/ file' = [file EXCEPT !.items = SubSeq(@, 1, n), !.trailer = 0, !.synced = FALSE]
    /\ UNCHANGED <<cfg, phase, at, part, caps, found, machine, rx, irr, rxVcpu>>

---------------------------------------------------------------------------
\* run_restore. Any error before the vCPUs run ends the process.
Refuse ==
    /\ phase' = "refused"
    /\ UNCHANGED <<cfg, at, part, caps, file, found, machine, rx, irr, rxVcpu>>

\* SnapshotReader::open and read_header: all but the RAM payload is read. A cut
\* file's last bytes are taken for its trailer.
Readable(f) == f.there /\ f.items # <<>> /\ ~f.items[1].bad
Open ==
    /\ phase = "gone"
    /\ IF ~Readable(file) THEN Refuse
       ELSE /\ found' = file.items
            /\ phase' = "build" /\ at' = 0
            /\ part' = SuspendTime([on |-> TRUE, ref |-> 0, tsc |-> [v \in Cpus |-> 0]])
            /\ irr' = -1
            /\ UNCHANGED <<cfg, caps, file, machine, rx, rxVcpu>>

\* The partition (its clocks suspended above), RAM zero-filled, the devices in
\* the header's order; blk and sound threads start but no queue is on.
BuildDevices ==
    /\ phase = "build"
    /\ \E bells \in BOOLEAN :
          LET tree == RestoreTree(found[1].val, bells)
          IN machine' = [machine EXCEPT !.tree = tree, !.dev = [i \in 1..Len(tree) |-> None]]
    /\ phase' = "load"
    /\ UNCHANGED <<cfg, at, part, caps, file, found, rx, irr, rxVcpu>>

\* hv::offload and the drives' checks: this host lacks an enlightenment the
\* guest booted with or VMBus, or a drive is missing, resized or of another
\* access mode.
HostDiffers == phase = "build" /\ Refuse

\* Faulty: the checksum is not looked at.
VerifiesAnything(f) == TRUE

\* The section loop, then load_ram_and_verify.
Verifies(f) == f.trailer = Len(f.items) /\ \A i \in DOMAIN f.items : ~f.items[i].bad
LoadRam ==
    /\ phase = "load"
    /\ IF ~Verifies(file) THEN Refuse
       ELSE /\ machine' = [machine EXCEPT !.ram = IF \E i \in DOMAIN found : found[i].ty = "RamSparse"
                                                  THEN "ram" ELSE None]
            /\ phase' = "count"
            /\ UNCHANGED <<cfg, at, part, caps, file, found, rx, irr, rxVcpu>>

\* Section cardinality.
Count(ty) == Len(SelectSeq(found, LAMBDA i : i.ty = ty))
Cardinality ==
    /\ Count("RamSparse") = 1 /\ Count("VcpuRegs") = Vcpus
    /\ Count("HvPartition") = 1 /\ Count("Legacy") = 1
    /\ Count("PciDevice") = Len(machine.tree)
CheckCounts ==
    /\ phase = "count"
    /\ IF Cardinality THEN /\ phase' = "devices"
                           /\ UNCHANGED <<cfg, at, part, caps, file, found, machine, rx, irr, rxVcpu>>
       ELSE Refuse

\* The legacy singletons, then every PciDevice section at its index.
ApplyDevices ==
    /\ phase = "devices"
    /\ machine' = [machine EXCEPT !.dev = [i \in DOMAIN @ |->
                     LET s == SelectSeq(found, LAMBDA d : d.ty = "PciDevice" /\ d.idx = i)
                     IN IF s = <<>> THEN None ELSE s[Len(s)].val]]
    /\ phase' = "wire"
    /\ UNCHANGED <<cfg, at, part, caps, file, found, rx, irr, rxVcpu>>

\* wire_net_backend: a fresh backend per NIC; its listeners are up at once. It
\* may fail (a missing library, no adapter).
Wire ==
    /\ phase = "wire"
    /\ \/ /\ phase' = "hv" /\ at' = 0
          /\ UNCHANGED <<cfg, part, caps, file, found, machine, rx, irr, rxVcpu>>
       \/ cfg.nics > 0 /\ Refuse

\* A host connection to a forwarded port: the backend's first frame into the RX
\* ring passes the guest's used_event, and the MSI sets a vCPU's IRR.
HostFrame ==
    /\ phase \in {"hv", "vcpus", "timing", "resumed"} /\ cfg.nics > 0 /\ rx = 0
    /\ rx' = 1 /\ irr' = rxVcpu
    /\ UNCHANGED <<cfg, phase, at, part, caps, file, found, machine, rxVcpu>>

\* PartitionState::apply.
ApplyHv ==
    /\ phase = "hv"
    /\ part' = [part EXCEPT !.ref = SelectSeq(found, LAMBDA i : i.ty = "HvPartition")[1].val]
    /\ phase' = "vcpus" /\ at' = 0
    /\ UNCHANGED <<cfg, caps, file, found, machine, rx, irr, rxVcpu>>

Section(ty, v) == SelectSeq(found, LAMBDA i : i.ty = ty /\ i.idx = v)

\* apply_non_timing: the registers, then the whole APIC state, its IRR
\* included. After the last vCPU VMBus is put back.
ApplyVcpu ==
    /\ phase = "vcpus"
    /\ LET regs == Section("VcpuRegs", at) apic == Section("VcpuApic", at)
       IN IF regs = <<>> THEN Refuse
          ELSE /\ machine' = [machine EXCEPT !.regs[at] = regs[1].val]
               /\ irr' = IF apic # <<>> /\ irr = at THEN (IF apic[1].val THEN at ELSE -1) ELSE irr
               /\ at' = IF at + 1 < Vcpus THEN at + 1 ELSE 0
               /\ phase' = IF at + 1 < Vcpus THEN phase ELSE "timing"
               /\ UNCHANGED <<cfg, part, caps, file, found, rx, rxVcpu>>

\* apply_timing for every vCPU, then resume_time, and the run loops start.
ApplyTiming ==
    /\ phase = "timing" /\ at < Vcpus
    /\ LET t == Section("VcpuTiming", at)
       IN IF t = <<>> THEN Refuse
          ELSE /\ part' = [part EXCEPT !.tsc[at] = t[1].val]
               /\ at' = at + 1
               /\ UNCHANGED <<cfg, phase, caps, file, found, machine, rx, irr, rxVcpu>>

Resume ==
    /\ phase = "timing" /\ at = Vcpus
    /\ part' = [part EXCEPT !.on = TRUE] /\ phase' = "resumed"
    /\ UNCHANGED <<cfg, at, caps, file, found, machine, rx, irr, rxVcpu>>

\* The guest takes the interrupt and polls the ring.
GuestRx ==
    /\ phase = "resumed" /\ irr # -1
    /\ irr' = -1 /\ rx' = 0
    /\ UNCHANGED <<cfg, phase, at, part, caps, file, found, machine, rxVcpu>>

Next ==
    \/ Tick \/ Save \/ Capture \/ CaptureHv \/ Create \/ Write \/ Finalize
    \/ WriteFails \/ Killed \/ Damage
    \/ Open \/ BuildDevices \/ HostDiffers \/ LoadRam \/ CheckCounts \/ ApplyDevices \/ Wire
    \/ HostFrame \/ ApplyHv \/ ApplyVcpu \/ ApplyTiming \/ Resume \/ GuestRx

Spec == Init /\ [][Next]_vars
---------------------------------------------------------------------------
Phases == {"run", "capture", "create", "write", "gone", "refused", "build", "load", "count",
           "devices", "wire", "hv", "vcpus", "timing", "resumed"}
TypeOK ==
    /\ cfg \in Configs /\ phase \in Phases /\ at \in 0..Vcpus
    /\ part.on \in BOOLEAN /\ part.ref \in 0..MaxTime /\ part.tsc \in [Cpus -> Nat]
    /\ rx \in 0..1 /\ irr \in Cpus \cup {-1} /\ rxVcpu \in Cpus

\* A machine that runs again is the one that was saved, whatever happened to
\* the save or the file: every device carries the state of the device that had
\* its place, every vCPU its own registers, and RAM came from the file. A file
\* cut short or damaged is refused before anything of it is applied ("Until
\* this returns Ok, nothing parsed from the file may be applied").
ResumedAsSaved ==
    /\ phase = "resumed" =>
        /\ [i \in DOMAIN machine.tree |-> machine.tree[i].kind] = machine.dev
        /\ machine.dev = [i \in DOMAIN RunTree(cfg, TRUE) |-> RunTree(cfg, TRUE)[i].kind]
        /\ machine.regs = [v \in Cpus |-> v] /\ machine.ram = "ram"
    /\ ((\E v \in Cpus : machine.regs[v] # -1) \/ \E i \in DOMAIN machine.dev : machine.dev[i] # None)
         => /\ file.trailer = Len(file.items)
            /\ \A i \in DOMAIN file.items : ~file.items[i].bad

\* The TSCs and the reference time resume together from one instant: every
\* vCPU's TSC stays as far from the reference time as it was before the save,
\* however long the save and the restore took.
ClocksAgree ==
    phase \in {"run", "resumed"} => \A v \in Cpus : part.tsc[v] - part.ref = v

\* "(live external flows reset, but new flows + the device work)": after a
\* restore, a frame that a fresh backend put in the RX ring has an interrupt on
\* its way to the guest.
NewFlowsWork == phase = "resumed" /\ rx > 0 => irr # -1
=============================================================================
