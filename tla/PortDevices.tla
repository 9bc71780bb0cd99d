------------------------------ MODULE PortDevices ------------------------------
(***************************************************************************)
(* The port bus (src/devices/io_bus.rs) and power control on it            *)
(* (src/devices/power.rs).  The devices register their ranges before any   *)
(* vCPU runs; vCPU threads then run the handlers.  A power request is      *)
(* recorded under its lock and the VM stopped afterwards, so other vCPUs   *)
(* run in between, and a save may come before a request but not after one. *)
(***************************************************************************)
EXTENDS Naturals, FiniteSets, Sequences

CONSTANTS
    Vcpus,          \* vCPU threads
    MaxWrites       \* bound: writes to the power registers

PortAssumption == MaxWrites \in Nat

VARIABLES
    entries,        \* IoBus.entries, in the order they were registered
    panicked,       \* register() met an overlap
    cnt,            \* the PM1 block, by byte; a byte is the set of its 1 bits
    request,        \* PowerDevice.request
    vcpu,           \* what each vCPU is in the middle of
    stopped,        \* stop_all ran
    asked,          \* history: the requests in the order they were raised
    wrote,          \* history: the last byte the guest wrote to each register byte
    writes

vars == <<entries, panicked, cnt, request, vcpu, stopped, asked, wrote, writes>>
powerVars == <<cnt, request, vcpu, stopped, asked, wrote, writes>>
bus == <<entries, panicked>>

Bytes == {{}, {0, 2}, {2, 4}, {5}, {2, 4, 5}}   \* the bytes a guest writes

TypeOK ==
    /\ entries \in Seq([base : Nat, size : Nat])
    /\ panicked \in BOOLEAN /\ stopped \in BOOLEAN
    /\ cnt \in [0 .. 5 -> SUBSET (0 .. 7)]
    /\ wrote \in [0 .. 5 -> SUBSET (0 .. 7)]
    /\ request \in {"none", "off", "acpi", "kbd"}
    /\ vcpu \in [Vcpus -> {"guest", "off", "acpi", "kbd", "notify"}]
    /\ asked \in Seq({"off", "acpi", "kbd"})
    /\ writes \in 0 .. MaxWrites

-----------------------------------------------------------------------------
(* What the machine registers, device by device.                             *)
SerialPorts == {[base |-> 1016, size |-> 8]}                        \* 0x3f8
PitPorts == {[base |-> p, size |-> 1] : p \in {64, 65, 66, 67, 97}} \* 0x40, 0x61
IsaPorts == {[base |-> p, size |-> 1] : p \in {112, 113, 128, 146}} \* 0x70 ..
PicPorts == {[base |-> p, size |-> 2] : p \in {32, 160}}            \* 0x20, 0xa0
PciPorts == {[base |-> p, size |-> 4] : p \in {3320, 3324}}         \* 0xcf8

\* Faulty: the PM1 block covers the reset port.
PowerPortsWide == {[base |-> 1536, size |-> 16], [base |-> 1548, size |-> 1],
                   [base |-> 100, size |-> 1]}

(* PowerDevice::attach: the PM1 block 0x600, the reset port, the i8042's.    *)
PowerPorts == {[base |-> 1536, size |-> 6], [base |-> 1548, size |-> 1],
               [base |-> 100, size |-> 1]}

Machine == SerialPorts \cup PitPorts \cup IsaPorts \cup PicPorts \cup PciPorts
               \cup PowerPorts

Overlap(a, b) == a.base < b.base + b.size /\ b.base < a.base + a.size

(* IoBus::register.  A panic ends the set-up.                                *)
Register(e) ==
    /\ ~panicked
    /\ \A i \in 1 .. Len(entries) : entries[i] # e
    /\ panicked' = \E i \in 1 .. Len(entries) : Overlap(entries[i], e)
    /\ entries' = Append(entries, e)
    /\ UNCHANGED powerVars

(* The devices are attached in one order, before any vCPU runs.              *)
NextToAttach == CHOOSE e \in Machine : \A i \in 1 .. Len(entries) : entries[i] # e

Attach == Len(entries) < Cardinality(Machine) /\ Register(NextToAttach)

Running == ~panicked /\ Len(entries) = Cardinality(Machine)

(* IoBus::dispatch: the entry the access's first port lies in.               *)
Claims(e, port) == e.base <= port /\ port < e.base + e.size

Claimed(port) == \E i \in 1 .. Len(entries) : Claims(entries[i], port)

-----------------------------------------------------------------------------
(* PowerDevice::pm1, a read: PM1_STS is 0, SCI_EN is 1, and past the block   *)
(* the bus floats.                                                           *)
Pm1Read(at) ==
    CASE at < 2 -> {}
      [] at = 4 -> cnt[at] \cup {0}
      [] at \in {2, 3, 5} -> cnt[at]
      [] at > 5 -> 0 .. 7

WriteOnly(at) == CASE at = 4 -> {2} [] at = 5 -> {5} [] OTHER -> {}

(* One byte of a write: STS is not kept, and of CNT not the write-only bits. *)
Kept(at, byte) == IF at < 2 THEN {} ELSE byte \ WriteOnly(at)

(* \_S5_ is SLP_TYP 5: bits 10 and 12 of PM1_CNT.                            *)
SoftOff(c) == c[5] \cap {2, 3, 4} = {2, 4}

(* PowerDevice::pm1, a write of the bytes data from off: sleep is asked for  *)
(* by SLP_EN in this access, its type read once every byte is in.            *)
Pm1Write(v, off, data) ==
    LET written == {at \in 0 .. 5 : at >= off /\ at < off + Len(data)}
        byte(at) == data[at - off + 1]
        sleep == 5 \in written /\ 5 \in byte(5)
        c == [at \in 0 .. 5 |-> IF at \in written THEN Kept(at, byte(at)) ELSE cnt[at]]
    IN  /\ Running /\ vcpu[v] = "guest" /\ Claimed(1536 + off)
        /\ writes < MaxWrites /\ writes' = writes + 1
        /\ cnt' = c
        /\ wrote' = [at \in 0 .. 5 |-> IF at \in written THEN byte(at) ELSE wrote[at]]
        /\ vcpu' = IF sleep /\ SoftOff(c) THEN [vcpu EXCEPT ![v] = "off"] ELSE vcpu
        /\ UNCHANGED <<bus, request, stopped, asked>>

(* PowerDevice::reset and kbd: the value the port resets on.                 *)
ResetWrite(v, how) ==
    /\ Running /\ vcpu[v] = "guest" /\ Claimed(IF how = "acpi" THEN 1548 ELSE 100)
    /\ writes < MaxWrites /\ writes' = writes + 1
    /\ vcpu' = [vcpu EXCEPT ![v] = how]
    /\ UNCHANGED <<bus, cnt, request, stopped, asked, wrote>>

\* Faulty: the last request wins.
RaiseLast(v) ==
    /\ vcpu[v] \in {"off", "acpi", "kbd"}
    /\ request' = vcpu[v]
    /\ asked' = Append(asked, vcpu[v])
    /\ vcpu' = [vcpu EXCEPT ![v] = "notify"]
    /\ UNCHANGED <<bus, cnt, stopped, wrote, writes>>

(* PowerDevice::raise, its first step: the first request stays.              *)
Raise(v) ==
    /\ vcpu[v] \in {"off", "acpi", "kbd"}
    /\ request' = IF request = "none" THEN vcpu[v] ELSE request
    /\ asked' = Append(asked, vcpu[v])
    /\ vcpu' = [vcpu EXCEPT ![v] = "notify"]
    /\ UNCHANGED <<bus, cnt, stopped, wrote, writes>>

(* raise, its second: on_request, which main() sets to stop the VM.          *)
OnRequest(v) ==
    /\ vcpu[v] = "notify"
    /\ stopped' = TRUE
    /\ vcpu' = [vcpu EXCEPT ![v] = "guest"]
    /\ UNCHANGED <<bus, cnt, request, asked, wrote, writes>>

\* Faulty: PM1_CNT is not carried over.
SaveRestoreAlike ==
    /\ Running /\ ~stopped /\ \A v \in Vcpus : vcpu[v] = "guest"
    /\ request = "none"
    /\ cnt' = [at \in 0 .. 5 |-> IF at < 4 THEN cnt[at] ELSE {}]
    /\ UNCHANGED <<bus, request, vcpu, stopped, asked, wrote, writes>>

(* snapshot_capture and snapshot_apply, with the vCPUs stopped in between:   *)
(* PM1_EN and PM1_CNT are carried over.  A VM that stops on a request is not *)
(* saved.                                                                    *)
SaveRestore ==
    /\ Running /\ ~stopped /\ \A v \in Vcpus : vcpu[v] = "guest"
    /\ request = "none"
    /\ cnt' = [at \in 0 .. 5 |-> IF at \in 2 .. 5 THEN cnt[at] ELSE {}]
    /\ UNCHANGED <<bus, request, vcpu, stopped, asked, wrote, writes>>

Init ==
    /\ entries = <<>> /\ panicked = FALSE
    /\ cnt = [at \in 0 .. 5 |-> {}] /\ wrote = [at \in 0 .. 5 |-> {}]
    /\ request = "none" /\ vcpu = [v \in Vcpus |-> "guest"]
    /\ stopped = FALSE /\ asked = <<>> /\ writes = 0

Next ==
    \/ Attach
    \/ \E v \in Vcpus :
           \/ \E off \in {2, 4, 5}, b \in Bytes : Pm1Write(v, off, <<b>>)
           \/ \E b1, b2 \in Bytes : Pm1Write(v, 4, <<b1, b2>>)
           \/ \E how \in {"acpi", "kbd"} : ResetWrite(v, how)
           \/ Raise(v) \/ OnRequest(v)
    \/ SaveRestore

Spec == Init /\ [][Next]_vars

-----------------------------------------------------------------------------
(* The machine's port ranges never overlap: no registration of the set-up    *)
(* panics, so once the vCPUs run a port has at most one handler.             *)
PortsAreApart == ~panicked

(* When the VM has stopped for the guest, why is known, and it is the first  *)
(* thing the guest recorded: vCPUs that power off and reset at once cannot   *)
(* leave a stopped VM with no reason, nor change the reason main() reports.  *)
(* And the registers read back what the guest wrote to them, byte by byte    *)
(* and in any width, but for the write-only bits, before and after a save.   *)
PowerIsKnown ==
    /\ stopped => request # "none"
    /\ request # "none" => request = Head(asked)
    /\ \A at \in 0 .. 7 :
           Pm1Read(at) = CASE at < 2 -> {}
                           [] at > 5 -> 0 .. 7
                           [] at \in 2 .. 3 -> wrote[at]
                           [] at = 4 -> (wrote[at] \ {2}) \cup {0}
                           [] at = 5 -> wrote[at] \ {5}

=============================================================================
