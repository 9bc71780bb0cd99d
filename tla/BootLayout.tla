----------------------------- MODULE BootLayout -----------------------------
(***************************************************************************)
(* Where the boot loaders put things (src/boot/loader.rs, bzimage.rs,      *)
(* acpi.rs, src/mem_layout.rs): a PVH or bzImage kernel, its initramfs and *)
(* the boot data in guest RAM, the e820 map that describes it, the ACPI    *)
(* tables in their page, AML package lengths, and the search for the PVH   *)
(* note. Each is checked on every input of sets chosen around the layout's *)
(* edges.                                                                  *)
(*                                                                         *)
(* Addresses and sizes of guest memory are in units of 256 bytes; what is  *)
(* smaller than a unit takes one. ACPI offsets are in bytes.               *)
(***************************************************************************)
EXTENDS Integers, Sequences, FiniteSets

CONSTANTS Rams,      \* sizes of guest RAM
          Kernels,   \* where kernels end: PVH's kernel_phys_max, bzImage's init_size
          Inits,     \* sizes of initramfs images (0: none)
          AddrMaxes, \* bzImage's initrd_addr_max
          Bodies,    \* lengths of AML bodies
          MaxVcpus   \* vCPUs asked for

BootAssumption ==
    /\ \A s \in {Rams, Kernels, Inits, AddrMaxes, Bodies} : s \subseteq Nat
    /\ MaxVcpus \in Nat

VARIABLE input
vars == <<input>>

MMIO_WINDOW_BASE == \hE00000
HIGH_RAM_BASE == \h1000000
ISA_HOLE_START == \hA00
ISA_HOLE_END == \h1000
BOOT_ARTIFACT_END == \h100
LEGACY_LOAD_ADDR == \h1000
TWO_MIB == \h2000
PAGE == \h10

Lesser(a, b) == IF a <= b THEN a ELSE b
Greater(a, b) == IF a >= b THEN a ELSE b
AlignUp(v, a) == ((v + a - 1) \div a) * a
AlignDown(v, a) == (v \div a) * a

Span(lo, n) == [lo |-> lo, hi |-> lo + n]
Apart(s, t) == s.hi <= t.lo \/ t.hi <= s.lo
Within(s, t) == t.lo <= s.lo /\ s.hi <= t.hi

---------------------------------------------------------------------------
\* Low-memory staging: PVH's start info, memory map and module list, or the
\* zero page; the GDT, command line and ACPI tables of both.
Shared == {Span(\h10, 1), Span(\h28, 8), Span(\h30, \h10)}
Staged(pvh) ==
    Shared \cup IF pvh THEN {Span(\h20, 1), Span(\h21, 1), Span(\h24, 1)}
                ELSE {Span(\h40, \h10)}

\* Faulty: the map ignores the MMIO window.
E820MapFlat(ram) ==
    {[s |-> Span(0, BOOT_ARTIFACT_END), ram |-> FALSE],
     [s |-> Span(BOOT_ARTIFACT_END, ISA_HOLE_START - BOOT_ARTIFACT_END), ram |-> TRUE],
     [s |-> Span(ISA_HOLE_START, ISA_HOLE_END - ISA_HOLE_START), ram |-> FALSE],
     [s |-> Span(ISA_HOLE_END, ram - ISA_HOLE_END), ram |-> TRUE]}

\* e820_map: [at, size, ram].
E820Map(ram) ==
    LET low == Lesser(ram, MMIO_WINDOW_BASE)
    IN {[s |-> Span(0, BOOT_ARTIFACT_END), ram |-> FALSE],
        [s |-> Span(BOOT_ARTIFACT_END, ISA_HOLE_START - BOOT_ARTIFACT_END), ram |-> TRUE],
        [s |-> Span(ISA_HOLE_START, ISA_HOLE_END - ISA_HOLE_START), ram |-> FALSE]}
       \cup (IF low > ISA_HOLE_END
             THEN {[s |-> Span(ISA_HOLE_END, low - ISA_HOLE_END), ram |-> TRUE]} ELSE {})
       \cup (IF ram > MMIO_WINDOW_BASE
             THEN {[s |-> Span(HIGH_RAM_BASE, ram - MMIO_WINDOW_BASE), ram |-> TRUE]} ELSE {})

\* The regions guest RAM is mapped at; a copy must lie in one of them.
Regions(ram) ==
    {Span(0, Lesser(ram, MMIO_WINDOW_BASE))}
    \cup (IF ram > MMIO_WINDOW_BASE THEN {Span(HIGH_RAM_BASE, ram - MMIO_WINDOW_BASE)} ELSE {})
Backed(s, ram) == \E r \in Regions(ram) : Within(s, r)

Refused == [ok |-> FALSE]
Placed(kernel, init, at) ==
    [ok |-> TRUE, kernel |-> kernel, init |-> IF init = 0 THEN {} ELSE {Span(at, init)}]

\* Faulty: the initramfs is placed at the 2 MiB below the kernel's end.
InitAfterDown(top) == Greater(AlignDown(top, TWO_MIB), ISA_HOLE_END)

\* load_pvh: the kernel's segments end at `top`, from 1 MiB as Linux links
\* them, with file bytes up to the end (copy_to_guest refuses a copy outside
\* RAM, a BSS is not copied); the initramfs follows at the next 2 MiB.
InitAfter(top) == Greater(AlignUp(top, TWO_MIB), ISA_HOLE_END)
LoadPvh(ram, top, init) ==
    LET kernel == Span(ISA_HOLE_END, top - ISA_HOLE_END)
        at == InitAfter(top)
    IN IF top > ram \/ ~Backed(kernel, ram) THEN Refused
       ELSE IF init # 0 /\ (at > ram \/ init > ram - at \/ ~Backed(Span(at, init), ram))
            THEN Refused
       ELSE Placed(kernel, init, at)

\* Faulty: the initramfs may reach into the MMIO window.
LimitHigh(ram, max) == Lesser(ram, max + 1)

\* bzimage::load: the initramfs as high as the kernel allows, clear of what
\* the decompressor uses.
Limit(ram, max) == Lesser(Lesser(ram, MMIO_WINDOW_BASE), max + 1)
LoadBz(ram, load, size, init, max) ==
    LET end == load + size
        at == AlignDown(Limit(ram, max) - init, PAGE)
    IN IF load < LEGACY_LOAD_ADDR \/ end > Lesser(ram, MMIO_WINDOW_BASE) THEN Refused
       ELSE IF init # 0 /\ (Limit(ram, max) < init \/ at < end \/ ~Backed(Span(at, init), ram))
            THEN Refused
       ELSE Placed(Span(load, size), init, at)

---------------------------------------------------------------------------
\* acpi::build: the tables' spans in their page. The DSDT's length follows
\* from the AML of its objects.
MAX_VCPUS == 32
FOOTPRINT == 4096
HEADER_LEN == 36

\* Faulty: the number of vCPUs is not clamped.
MadtLenUnclamped(vcpus) == 44 + 16 * Greater(1, vcpus)

MadtLen(vcpus) == 44 + 16 * Greater(1, Lesser(vcpus, MAX_VCPUS))

\* aml::pkg_length: one byte under 63, else two to four, the first holding
\* their count and the low four bits.
PkgBytes(body) == IF body < 63 THEN 1
                  ELSE CHOOSE n \in 2..4 :
                          /\ body + n < 2^(4 + 8 * (n - 1))
                          /\ \A k \in 2..(n - 1) : body + k >= 2^(4 + 8 * (k - 1))

\* Faulty: the length leaves out its own bytes.
PkgLengthBare(body) ==
    LET n == PkgBytes(body)
    IN IF n = 1 THEN <<body + 1>>
       ELSE <<(n - 1) * 64 + (body % 16)>>
            \o [i \in 1..(n - 1) |-> (body \div 2^(4 + 8 * (i - 1))) % 256]

PkgLength(body) ==
    LET n == PkgBytes(body)
        total == body + n
    IN IF n = 1 THEN <<total>>
       ELSE <<(n - 1) * 64 + (total % 16)>>
            \o [i \in 1..(n - 1) |-> (total \div 2^(4 + 8 * (i - 1))) % 256]
\* What ACPI reads: the top two bits count the bytes that follow.
PkgRead(b) ==
    LET more == b[1] \div 64
        high[i \in 0..more] == IF i = 0 THEN 0 ELSE high[i - 1] + b[i + 1] * 2^(4 + 8 * (i - 1))
    IN IF more = 0 THEN b[1] % 64 ELSE (b[1] % 16) + high[more]

Packed(op, body) == op + PkgBytes(body) + body
IntLen(v) == IF v <= 1 THEN 1 ELSE IF v <= 255 THEN 2 ELSE 3
NameLen(value) == 5 + value
BufferLen(n) == Packed(1, IntLen(n) + n)
PciRootLen == 16 + 8 + 16 + 16 + 26 + 2
DsdtLen(vmbus) ==
    LET pci0 == 4 + NameLen(5) + NameLen(1) + NameLen(BufferLen(PciRootLen))
        vmbs == 4 + NameLen(7) + NameLen(1) + NameLen(BufferLen(2))
        sb == 5 + Packed(2, pci0) + IF vmbus THEN Packed(2, vmbs) ELSE 0
    IN HEADER_LEN + NameLen(Packed(1, 1 + 2 + 2 + 1 + 1)) + Packed(1, sb)
Tables(vcpus, vmbus) ==
    {Span(0, 36), Span(\h40, HEADER_LEN + 16), Span(\h80, 64), Span(\hC0, 276),
     Span(\h200, MadtLen(vcpus)), Span(\h440, DsdtLen(vmbus))}

---------------------------------------------------------------------------
\* find_pvh_note over a blob of ELF notes: [name, desc, pvh], sizes in bytes.
Padded(n) == AlignUp(n, 4)
NoteLen(note) == 12 + Padded(note.name) + Padded(note.desc)

\* Faulty: the scan steps over unpadded sizes.
NoteStepUnpadded(note) == 12 + note.name + note.desc

NoteStep(note) == NoteLen(note)
IsPvh(note) == note.pvh /\ note.name = 4 /\ note.desc \in {4, 8}
StartOf(notes) ==
    LET s[i \in 1..(Len(notes) + 1)] == IF i = 1 THEN 0 ELSE s[i - 1] + NoteLen(notes[i - 1]) IN s
\* The note the scan stops at, 0 for none: it reads whatever lies at its offset.
FindPvhNote(notes) ==
    LET start == StartOf(notes)
        scan[off \in 0..start[Len(notes) + 1]] ==
            LET here == {i \in 1..Len(notes) : start[i] = off}
            IN IF here = {} THEN 0
               ELSE LET i == CHOOSE i \in here : TRUE
                    IN IF IsPvh(notes[i]) THEN i ELSE scan[off + NoteStep(notes[i])]
    IN scan[0]

Notes == {[name |-> n, desc |-> d, pvh |-> p] : n \in {0, 4, 5}, d \in {3, 4, 8}, p \in BOOLEAN}

---------------------------------------------------------------------------
TakePvh == \E ram \in Rams, top \in Kernels, init \in Inits :
    input' = [kind |-> "pvh", ram |-> ram, top |-> top, init |-> init]
TakeBz == \E ram \in Rams, top \in Kernels, init \in Inits, max \in AddrMaxes,
             load \in {0, LEGACY_LOAD_ADDR, \h10000} :
    input' = [kind |-> "bz", ram |-> ram, load |-> load, size |-> top, init |-> init, max |-> max]
TakeTables == \E v \in 0..MaxVcpus, b \in BOOLEAN :
    input' = [kind |-> "acpi", vcpus |-> v, vmbus |-> b]
TakeBody == \E n \in Bodies : input' = [kind |-> "aml", body |-> n]
TakeNotes == \E a \in Notes, b \in Notes : input' = [kind |-> "notes", notes |-> <<a, b>>]

Init == input = [kind |-> "none"]
Next == input.kind = "none" /\ (TakePvh \/ TakeBz \/ TakeTables \/ TakeBody \/ TakeNotes)
Spec == Init /\ [][Next]_vars

Loaded == IF input.kind = "pvh" THEN LoadPvh(input.ram, input.top, input.init)
          ELSE LoadBz(input.ram, input.load, input.size, input.init, input.max)

\* A kernel that loads finds its world as the map says: it, the initramfs and
\* the boot data never overlap; each lies in mapped RAM, the first two in what
\* e820 calls RAM and the boot data in what it reserves, the initramfs no
\* higher than the kernel can reach; and e820 lists no byte twice and, with
\* the boot data and the ISA hole, all of the RAM and nothing else.
LoadIsSound ==
    input.kind \in {"pvh", "bz"} /\ Loaded.ok =>
        LET map == E820Map(input.ram)
            ramSpans == {e.s : e \in {e \in map : e.ram}}
            kept == {e.s : e \in {e \in map : ~e.ram}}
            loads == {Loaded.kernel} \cup Loaded.init
            all == loads \cup Staged(input.kind = "pvh")
        IN /\ \A s, t \in all : s = t \/ Apart(s, t)
           /\ \A s \in all : Backed(s, input.ram)
           /\ \A s \in loads : \E r \in ramSpans : Within(s, r)
           /\ \A s \in all \ loads : \E r \in kept : Within(s, r)
           /\ input.kind = "bz" => \A s \in Loaded.init : s.hi <= input.max + 1
           /\ \A d, e \in map : d = e \/ Apart(d.s, e.s)
           /\ \A s \in ramSpans : Backed(s, input.ram)
           /\ \A r \in Regions(input.ram) : \E s \in ramSpans \cup kept : s.hi = r.hi

\* A bzImage is refused only when it does not fit: whenever some page-aligned
\* place below the kernel's limit holds the initramfs, one is found.
FitsMeansLoads ==
    input.kind = "bz" /\ input.load >= LEGACY_LOAD_ADDR =>
        LET low == Lesser(input.ram, MMIO_WINDOW_BASE)
            end == input.load + input.size
        IN Loaded.ok <=>
             /\ end <= low
             /\ input.init = 0
                \/ AlignUp(end, PAGE) + input.init <= Lesser(low, input.max + 1)

\* The ACPI tables never run into each other or out of their page, however
\* many vCPUs were asked for.
TablesApart ==
    input.kind = "acpi" =>
        LET ts == Tables(input.vcpus, input.vmbus)
        IN \A s \in ts : s.hi <= FOOTPRINT /\ \A t \in ts : s = t \/ Apart(s, t)

\* The guest reads back the length of every AML object, its own bytes included.
PkgLengthsRead ==
    input.kind = "aml" => PkgRead(PkgLength(input.body)) = input.body + Len(PkgLength(input.body))

\* The first PVH note is found whatever notes come before it.
NoteIsFound ==
    input.kind = "notes" =>
        FindPvhNote(input.notes) =
            LET is == {i \in 1..Len(input.notes) : IsPvh(input.notes[i])}
            IN IF is = {} THEN 0 ELSE CHOOSE i \in is : \A j \in is : i <= j
=============================================================================
