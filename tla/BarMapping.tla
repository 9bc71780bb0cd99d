----------------------------- MODULE BarMapping ------------------------------
(***************************************************************************)
(* How a virtio function's BAR follows its config space: PciConfigSpace     *)
(* (src/pci/config.rs), PciTransport::config_write with on_bar_mapped and   *)
(* on_bar_unmapped (src/virtio/transport.rs), the MMIO bus they register    *)
(* with (src/devices/mmio_bus.rs) and the pre-assigned bases                *)
(* (src/pci/bus.rs).                                                        *)
(*                                                                         *)
(* A COMMAND write computes BAR events under the config lock and acts on    *)
(* them after releasing it: several calls on the shared bus, each atomic by *)
(* itself.  vCPUs may be inside config_write together; Serialised says the  *)
(* guest does not let them, as Linux's pci_config_lock ensures.             *)
(*                                                                         *)
(* BARs are naturally aligned, so two of them overlap only at one base.     *)
(***************************************************************************)
EXTENDS Integers, Sequences, FiniteSets

CONSTANTS Devices,
          ConfigVcpus, \* vCPUs that write config space
          Gpas,        \* BAR bases inside the PCI MMIO window
          Outside,     \* a base outside it
          Parts,       \* number of ranges a BAR registers (six in the code)
          MaxWrites,   \* bound on config writes
          Serialised   \* the guest writes config space one vCPU at a time

\* What the constants stand for.
BarAssumption ==
  /\ Outside \notin Gpas /\ 0 \notin Gpas /\ "none" \notin Devices /\ Parts \in Nat \ {0} /\ MaxWrites \in Nat
  /\ Serialised \in BOOLEAN /\ Cardinality(Devices) <= Cardinality(Gpas)

Unset == 0
NoDevice == "none"
Bases == Gpas \cup {Outside, Unset}

VARIABLES
  bar, mem, master,      \* per device: BAR value, COMMAND's memory and bus-master bits
  mapped, mapped_gpa,    \* per device: what PciConfigSpace thinks is mapped
  bar_gpa, bar_mapped,   \* per device: what the transport has wired
  pump,                  \* per device: its doorbells are registered, its pump runs
  entries,               \* the MMIO bus: base and part to the device serving it
  call,                  \* per vCPU: the config_write it is in
  writes

config == <<bar, mem, master, mapped, mapped_gpa>>
vars == <<config, bar_gpa, bar_mapped, pump, entries, call, writes>>

Mapped(g) == [kind |-> "mapped", gpa |-> g]
Unmapped == [kind |-> "unmapped", gpa |-> Unset]
CallOn(d, events) == [dev |-> d, events |-> events, step |-> "event", part |-> 1]
NoCall == CallOn(NoDevice, <<>>)

\* assign_bars gives every device a base of its own.
Init ==
  /\ bar \in [Devices -> Gpas]
  /\ \A d, e \in Devices: d # e => bar[d] # bar[e]
  /\ mem = [d \in Devices |-> FALSE] /\ master = [d \in Devices |-> FALSE]
  /\ mapped = [d \in Devices |-> FALSE] /\ mapped_gpa = [d \in Devices |-> Unset]
  /\ bar_gpa = [d \in Devices |-> Unset] /\ bar_mapped = [d \in Devices |-> FALSE]
  /\ pump = [d \in Devices |-> FALSE]
  /\ entries = [s \in Gpas \X (1..Parts) |-> NoDevice]
  /\ call = [c \in ConfigVcpus |-> NoCall]
  /\ writes = 0

Idle(c) == call[c].events = <<>>
MayWrite(c) == /\ Idle(c) /\ writes < MaxWrites
               /\ Serialised => \A o \in ConfigVcpus: Idle(o)

-----------------------------------------------------------------------------
(* PciConfigSpace                                                          *)

\* Faulty: a BAR that moves while it is mapped is only mapped again.
RecomputeMoves(d, on) ==
  LET want == on /\ bar[d] # Unset
  IN CASE want /\ (~mapped[d] \/ mapped_gpa[d] # bar[d]) -> <<Mapped(bar[d])>>
       [] ~want /\ mapped[d] -> <<Unmapped>>
       [] OTHER -> <<>>

\* The events recompute_mappings emits for BAR 0.
Recompute(d, on) ==
  LET want == on /\ bar[d] # Unset
  IN CASE want /\ ~mapped[d] -> <<Mapped(bar[d])>>
       [] ~want /\ mapped[d] -> <<Unmapped>>
       [] want /\ mapped[d] /\ mapped_gpa[d] # bar[d] -> <<Unmapped, Mapped(bar[d])>>
       [] OTHER -> <<>>

\* The bookkeeping that goes with them.
Remap(d, on) ==
  /\ mapped' = [mapped EXCEPT ![d] = on /\ bar[d] # Unset]
  /\ mapped_gpa' = [mapped_gpa EXCEPT ![d] = IF on /\ bar[d] # Unset THEN bar[d] ELSE @]

\* Faulty: a write without events is left open.
BeginOpen(c, d, events) ==
  call' = [call EXCEPT ![c] = CallOn(d, events)]

\* config_write collects the events under the config lock.
Begin(c, d, events) ==
  call' = [call EXCEPT ![c] = IF events = <<>> THEN NoCall
                              ELSE CallOn(d, events)]

\* A BAR write changes nothing but the register: only COMMAND moves mappings.
WriteBar(c, d, g) ==
  /\ MayWrite(c) /\ g # bar[d]
  /\ bar' = [bar EXCEPT ![d] = g]
  /\ writes' = writes + 1
  /\ UNCHANGED <<mem, master, mapped, mapped_gpa, bar_gpa, bar_mapped, pump, entries, call>>

WriteCommand(c, d, m, b) ==
  /\ MayWrite(c) /\ <<m, b>> # <<mem[d], master[d]>>
  /\ mem' = [mem EXCEPT ![d] = m] /\ master' = [master EXCEPT ![d] = b]
  /\ Begin(c, d, Recompute(d, m))
  /\ Remap(d, m)
  /\ writes' = writes + 1
  /\ UNCHANGED <<bar, bar_gpa, bar_mapped, pump, entries>>

\* snapshot_apply, before any vCPU runs: the captured COMMAND and BAR (set in
\* the same call) against a config space with nothing mapped.
Restore(c, d) ==
  /\ writes = 0 /\ \A o \in ConfigVcpus: Idle(o)
  /\ ~mapped[d] /\ ~mem[d]
  /\ mem' = [mem EXCEPT ![d] = TRUE]
  /\ Begin(c, d, Recompute(d, TRUE))
  /\ Remap(d, TRUE)
  /\ UNCHANGED <<bar, master, bar_gpa, bar_mapped, pump, entries, writes>>

-----------------------------------------------------------------------------
(* The transport acts on one event after the other.                        *)

Dev(c) == call[c].dev
On(c, kind, step) == ~Idle(c) /\ Head(call[c].events).kind = kind /\ call[c].step = step
Move(c, step, part) ==
  call' = [call EXCEPT ![c] = [call[c] EXCEPT !.step = step, !.part = part]]
Goto(c, step) == Move(c, step, 1)
NextPart(c) == Move(c, call[c].step, call[c].part + 1)
EventDone(c) ==
  call' = [call EXCEPT ![c] =
    IF Len(call[c].events) = 1 THEN NoCall
    ELSE CallOn(Dev(c), Tail(call[c].events))]

\* on_bar_mapped: inside the window and free of other ranges.
Free(g) == \A p \in 1..Parts: entries[g, p] = NoDevice

MapCheck(c) ==
  LET g == Head(call[c].events).gpa
  IN /\ On(c, "mapped", "event")
     /\ IF g \in Gpas /\ Free(g) THEN Goto(c, "record") ELSE EventDone(c)
     /\ UNCHANGED <<config, bar_gpa, bar_mapped, pump, entries, writes>>

MapRecord(c) ==
  /\ On(c, "mapped", "record")
  /\ bar_gpa' = [bar_gpa EXCEPT ![Dev(c)] = Head(call[c].events).gpa]
  /\ bar_mapped' = [bar_mapped EXCEPT ![Dev(c)] = TRUE]
  /\ Goto(c, "register")
  /\ UNCHANGED <<config, pump, entries, writes>>

\* install_bar_handlers and MsiX::install: MmioBus::register refuses a range
\* that is taken, and its result is dropped.
Register(c) ==
  LET slot == <<Head(call[c].events).gpa, call[c].part>>
  IN /\ On(c, "mapped", "register")
     /\ entries' = IF entries[slot] = NoDevice
                   THEN [entries EXCEPT ![slot] = Dev(c)] ELSE entries
     /\ IF call[c].part < Parts
        THEN NextPart(c)
        ELSE Goto(c, "doorbells")
     /\ UNCHANGED <<config, bar_gpa, bar_mapped, pump, writes>>

\* install_doorbells: nothing if they are installed; it may fail, and kicks then
\* go through the bus.
InstallDoorbells(c) ==
  /\ On(c, "mapped", "doorbells")
  /\ \E ok \in BOOLEAN: pump' = [pump EXCEPT ![Dev(c)] = @ \/ ok]
  /\ EventDone(c)
  /\ UNCHANGED <<config, bar_gpa, bar_mapped, entries, writes>>

\* on_bar_unmapped: nothing to do for a BAR that was never wired.
Unmap(c) ==
  /\ On(c, "unmapped", "event")
  /\ bar_mapped' = [bar_mapped EXCEPT ![Dev(c)] = FALSE]
  /\ IF bar_mapped[Dev(c)] THEN Goto(c, "teardown") ELSE EventDone(c)
  /\ UNCHANGED <<config, bar_gpa, pump, entries, writes>>

\* Faulty: the pump of an unmapped BAR keeps running.
TeardownNothing(c) ==
  /\ On(c, "unmapped", "teardown")
  /\ Goto(c, "unregister")
  /\ UNCHANGED <<config, bar_gpa, bar_mapped, pump, entries, writes>>

Teardown(c) ==
  /\ On(c, "unmapped", "teardown")
  /\ pump' = [pump EXCEPT ![Dev(c)] = FALSE]
  /\ Goto(c, "unregister")
  /\ UNCHANGED <<config, bar_gpa, bar_mapped, entries, writes>>

\* Faulty: the base is taken from config space, where the guest may have moved it.
UnregisterAtBar(c) ==
  LET slot == <<bar[Dev(c)], call[c].part>>
  IN /\ On(c, "unmapped", "unregister")
     /\ entries' = [s \in DOMAIN entries |-> IF s = slot THEN NoDevice ELSE entries[s]]
     /\ IF call[c].part < Parts
        THEN NextPart(c)
        ELSE EventDone(c)
     /\ UNCHANGED <<config, bar_gpa, bar_mapped, pump, writes>>

\* MmioBus::unregister takes a base: it removes whatever is registered there.
Unregister(c) ==
  LET slot == <<bar_gpa[Dev(c)], call[c].part>>
  IN /\ On(c, "unmapped", "unregister")
     /\ entries' = [s \in DOMAIN entries |-> IF s = slot THEN NoDevice ELSE entries[s]]
     /\ IF call[c].part < Parts
        THEN NextPart(c)
        ELSE EventDone(c)
     /\ UNCHANGED <<config, bar_gpa, bar_mapped, pump, writes>>

-----------------------------------------------------------------------------
ConfigWrite(c, d) ==
  \/ \E g \in Bases: WriteBar(c, d, g)
  \/ \E m, b \in BOOLEAN: WriteCommand(c, d, m, b)
  \/ Restore(c, d)

Handle(c) == \/ MapCheck(c) \/ MapRecord(c) \/ Register(c) \/ InstallDoorbells(c)
             \/ Unmap(c) \/ Teardown(c) \/ Unregister(c)

Next == \E c \in ConfigVcpus: (\E d \in Devices: ConfigWrite(c, d)) \/ Handle(c)

Spec == Init /\ [][Next]_vars

-----------------------------------------------------------------------------
(* Properties                                                              *)

TypeOK ==
  /\ bar \in [Devices -> Bases] /\ mem \in [Devices -> BOOLEAN]
  /\ master \in [Devices -> BOOLEAN] /\ mapped \in [Devices -> BOOLEAN]
  /\ mapped_gpa \in [Devices -> Bases]
  /\ bar_gpa \in [Devices -> Gpas \cup {Unset}] /\ bar_mapped \in [Devices -> BOOLEAN]
  /\ pump \in [Devices -> BOOLEAN]
  /\ entries \in [Gpas \X (1..Parts) -> Devices \cup {NoDevice}]
  /\ \A c \in ConfigVcpus: /\ call[c].dev \in Devices \cup {NoDevice}
                     /\ Len(call[c].events) \in 0..2 /\ call[c].part \in 1..Parts
                     /\ Idle(c) <=> call[c] = NoCall
  /\ writes \in 0..MaxWrites

Quiet == \A c \in ConfigVcpus: Idle(c)
Served(d) == {s \in DOMAIN entries: entries[s] = d}

\* Between config writes the bus serves exactly the BARs that are wired, every
\* part of them, at the base config space has mapped; and no pump outlives its
\* BAR.
BusFollowsConfig ==
  /\ TypeOK
  /\ Quiet => \A d \in Devices:
       IF bar_mapped[d]
       THEN /\ mapped[d] /\ bar_gpa[d] = mapped_gpa[d]
            /\ Served(d) = {bar_gpa[d]} \X (1..Parts)
       ELSE Served(d) = {} /\ ~pump[d]

\* A mis-programmed BAR "just leaves this device's MMIO unwired"
\* (on_bar_mapped): no step of one device's config_write takes a range away
\* from another device.
StaysWired ==
  \A s \in DOMAIN entries:
    \/ entries[s] \in {NoDevice, entries'[s]}
    \/ \E c \in ConfigVcpus: Dev(c) = entries[s] /\ On(c, "unmapped", "unregister")
OthersStayWired == [][StaysWired]_vars
=============================================================================
