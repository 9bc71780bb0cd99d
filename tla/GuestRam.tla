-------------------------------- MODULE GuestRam --------------------------------
(***************************************************************************)
(* Guest RAM (crates/whpsys/src/memory.rs): one host allocation, mapped    *)
(* into the partition in one range or, when it is larger than what fits    *)
(* below the PCI hole, in two; the translation that every device's access  *)
(* goes through; the background workers that populate the hypervisor's     *)
(* tables; and the release at teardown.                                    *)
(*                                                                         *)
(* The partition's own map and VirtualAlloc are external.  Addresses and   *)
(* sizes are in units of which a page holds Page and a large page Large.   *)
(***************************************************************************)
EXTENDS Integers, Sequences, FiniteSets

CONSTANTS
    Page, Large,    \* granules of an allocation
    Chunk,          \* populate's CHUNK
    Workers,        \* populate's threads
    LowLimit,       \* where the PCI hole begins
    HighGpa,        \* where RAM goes on above it
    Totals          \* sizes a VM may be given

RamAssumption ==
    /\ Page \in Nat \ {0} /\ Large \in Nat \ {0} /\ Chunk \in Nat \ {0}
    /\ LowLimit \in Nat \ {0} /\ HighGpa \in Nat /\ LowLimit < HighGpa
    /\ LowLimit % Page = 0 /\ HighGpa % Page = 0
    /\ Totals \subseteq Nat \ {0}

VARIABLES
    pc,             \* where construction or release has got to
    alloc,          \* size of the host allocation, 0 when there is none
    size,           \* GuestMemory.size
    low,            \* the low region's size
    split,          \* GuestMemory.split is Some
    mapped,         \* the partition's map: <<guest address, host offset>>
    chunks,         \* populate's chunks, in the order they are taken
    next,           \* the index the next worker takes
    failed,         \* an advice failed
    worker,         \* the chunk each worker is advising, <<>> for none
    populating      \* the populate thread has not ended

vars == <<pc, alloc, size, low, split, mapped, chunks, next, failed, worker,
          populating>>
popVars == <<chunks, next, failed, worker, populating>>

Range(gpa, len, off) == {<<gpa + i, off + i>> : i \in 0 .. len - 1}

TypeOK ==
    /\ pc \in {"start", "low", "high", "spawn", "live", "join", "unmap", "free",
               "gone", "error"}
    /\ alloc \in Nat /\ size \in Nat /\ low \in Nat /\ split \in BOOLEAN
    /\ mapped \subseteq (Nat \X Nat)
    /\ next \in Nat /\ failed \in BOOLEAN /\ populating \in BOOLEAN
    /\ chunks \in Seq(Nat \X Nat)
    /\ DOMAIN worker = Workers

Init ==
    /\ pc = "start" /\ alloc = 0 /\ size = 0 /\ low = 0 /\ split = FALSE
    /\ mapped = {} /\ chunks = <<>> /\ next = 1 /\ failed = FALSE
    /\ worker = [w \in Workers |-> <<>>] /\ populating = FALSE

-----------------------------------------------------------------------------
AlignUp(v, a) == ((v + a - 1) \div a) * a

(* new and new_split up to the allocation: one range when it all fits below  *)
(* the hole, two otherwise, in large pages only where both keep to them.     *)
(* alloc_host falls back to small pages but keeps the size it asked for.     *)
New(total, large) ==
    LET two  == total > LowLimit
        big  == large /\ (two => LowLimit % Large = 0)
        n    == AlignUp(total, IF big THEN Large ELSE Page)
    IN  /\ pc = "start"
        /\ alloc' = n /\ size' = n
        /\ split' = two
        /\ low' = IF two THEN LowLimit ELSE n
        /\ pc' = "low"
        /\ UNCHANGED <<mapped, popVars>>

(* VirtualAlloc gives nothing.                                               *)
AllocFails == pc = "start" /\ pc' = "error"
              /\ UNCHANGED <<alloc, size, low, split, mapped, popVars>>

(* The low region, or all of it.                                             *)
MapLow ==
    /\ pc = "low"
    /\ mapped' = mapped \cup Range(0, low, 0)
    /\ pc' = IF split THEN "high" ELSE "spawn"
    /\ UNCHANGED <<alloc, size, low, split, popVars>>

MapHigh ==
    /\ pc = "high"
    /\ mapped' = mapped \cup Range(HighGpa, size - low, low)
    /\ pc' = "spawn"
    /\ UNCHANGED <<alloc, size, low, split, popVars>>

\* Faulty: what was mapped stays mapped.
MapFailsLeaving ==
    /\ pc \in {"low", "high"}
    /\ alloc' = 0
    /\ pc' = "error"
    /\ UNCHANGED <<size, low, split, mapped, popVars>>

(* WHvMapGpaRange fails: what was mapped is unmapped, then it is freed.      *)
MapFails ==
    /\ pc \in {"low", "high"}
    /\ mapped' = {}
    /\ alloc' = 0
    /\ pc' = "error"
    /\ UNCHANGED <<size, low, split, popVars>>

(* populate's list: each range in chunks, the lowest first, the rest from    *)
(* the top down.                                                             *)
Chunks(gpa, len) ==
    [i \in 1 .. (len + Chunk - 1) \div Chunk |->
        <<gpa + (i - 1) * Chunk,
          IF len - (i - 1) * Chunk < Chunk THEN len - (i - 1) * Chunk ELSE Chunk>>]

RestReversed(s) ==
    IF Len(s) <= 2 THEN s
    ELSE [i \in 1 .. Len(s) |-> IF i = 1 THEN s[1] ELSE s[Len(s) + 2 - i]]

(* populate_async.  A thread that cannot be spawned is done without.         *)
PopulateAsync(spawned) ==
    /\ pc = "spawn" /\ pc' = "live"
    /\ populating' = spawned
    /\ chunks' = IF ~spawned THEN <<>>
                 ELSE RestReversed(IF split
                                   THEN Chunks(0, low) \o Chunks(HighGpa, size - low)
                                   ELSE Chunks(0, size))
    /\ UNCHANGED <<alloc, size, low, split, mapped, next, failed, worker>>

Take(w) ==
    /\ populating /\ worker[w] = <<>> /\ ~failed /\ next <= Len(chunks)
    /\ worker' = [worker EXCEPT ![w] = chunks[next]]
    /\ next' = next + 1
    /\ UNCHANGED <<pc, alloc, size, low, split, mapped, chunks, failed, populating>>

(* advise_populate.  A failure stops the workers.                            *)
Advise(w, ok) ==
    /\ worker[w] # <<>>
    /\ worker' = [worker EXCEPT ![w] = <<>>]
    /\ failed' = (failed \/ ~ok)
    /\ UNCHANGED <<pc, alloc, size, low, split, mapped, chunks, next, populating>>

(* The scope ends when every worker has found nothing more to do.            *)
PopulateEnds ==
    /\ populating /\ \A w \in Workers : worker[w] = <<>>
    /\ failed \/ next > Len(chunks)
    /\ populating' = FALSE
    /\ UNCHANGED <<pc, alloc, size, low, split, mapped, chunks, next, failed, worker>>

-----------------------------------------------------------------------------
\* Faulty: a range may end one past the low region.
RegionOffLong(gpa, len) ==
    IF gpa < low
    THEN IF gpa + len <= low + 1 THEN gpa ELSE -1
    ELSE IF split /\ gpa >= HighGpa /\ gpa - HighGpa < size - low
               /\ len <= size - low - (gpa - HighGpa)
         THEN low + (gpa - HighGpa) ELSE -1

(* region_off: the host offset of [gpa, gpa + len), or -1.                   *)
RegionOff(gpa, len) ==
    IF gpa < low
    THEN IF len <= low - gpa THEN gpa ELSE -1
    ELSE IF split /\ gpa >= HighGpa /\ gpa - HighGpa < size - low
               /\ len <= size - low - (gpa - HighGpa)
         THEN low + (gpa - HighGpa) ELSE -1

(* read_into, write_bytes and the other accessors: a copy of len bytes of    *)
(* the allocation, or nothing.                                               *)
Touches(gpa, len) ==
    IF RegionOff(gpa, len) = -1 THEN {}
    ELSE {RegionOff(gpa, len) + i : i \in 0 .. len - 1}

(* read_image: a copy of the image at a host offset, across the hole.        *)
ReadImage(off, len) ==
    IF off > size \/ len > size - off THEN {} ELSE off .. off + len - 1

(* release, its first steps: once only, and not before populate has ended.   *)
Release ==
    /\ pc = "live" /\ pc' = "join"
    /\ UNCHANGED <<alloc, size, low, split, mapped, popVars>>

\* Faulty: RAM is unmapped under the populate threads.
JoinNot ==
    /\ pc = "join" /\ pc' = "unmap"
    /\ UNCHANGED <<alloc, size, low, split, mapped, popVars>>

Join ==
    /\ pc = "join" /\ ~populating /\ pc' = "unmap"
    /\ UNCHANGED <<alloc, size, low, split, mapped, popVars>>

(* WHvUnmapGpaRange of each region, then VirtualFree.                        *)
Unmap ==
    /\ pc = "unmap" /\ pc' = "free"
    /\ mapped' = mapped \ (Range(0, low, 0)
                     \cup (IF split THEN Range(HighGpa, size - low, low) ELSE {}))
    /\ UNCHANGED <<alloc, size, low, split, popVars>>

Free ==
    /\ pc = "free" /\ pc' = "gone" /\ alloc' = 0
    /\ UNCHANGED <<size, low, split, mapped, popVars>>

(* Drop after release, or twice: `released` was set, so nothing happens.     *)
Next ==
    \/ \E total \in Totals, large \in BOOLEAN : New(total, large)
    \/ AllocFails \/ MapLow \/ MapHigh \/ MapFails
    \/ \E spawned \in BOOLEAN : PopulateAsync(spawned)
    \/ \E w \in Workers : Take(w) \/ \E ok \in BOOLEAN : Advise(w, ok)
    \/ PopulateEnds \/ Release \/ Join \/ Unmap \/ Free

Spec == Init /\ [][Next]_vars

-----------------------------------------------------------------------------
(* The translation a device's access goes through and the map the guest's    *)
(* own accesses go through are the same: a range is given a host offset      *)
(* exactly when the guest sees all of it, at one run of host bytes, and that *)
(* run is what the guest sees there.  A range that reaches into the hole, or *)
(* past the end, is refused.  And every byte of the image is at some guest   *)
(* address, so an image saved by host offset is all of RAM.                  *)
SameViewAsGuest ==
    pc = "live" =>
        /\ \A gpa \in 0 .. HighGpa + size, len \in 1 .. size + 1 :
               LET off == RegionOff(gpa, len)
                   seen(o) == Range(gpa, len, o) \subseteq mapped
               IN  IF off = -1 THEN ~\E o \in 0 .. size : seen(o)
                               ELSE seen(off) /\ Touches(gpa, len) \subseteq 0 .. alloc - 1
        /\ {m[2] : m \in mapped} = ReadImage(0, size)
        /\ Cardinality(mapped) = size

(* The hypervisor never maps, and is never asked to populate, memory that is *)
(* not there: what is mapped lies in the allocation until the allocation     *)
(* goes, on the error paths too, and a worker's range is mapped while it is  *)
(* being advised, also when the VM is torn down while RAM is populated.      *)
NeverDangling ==
    /\ \A m \in mapped : m[2] < alloc
    /\ \A w \in Workers : worker[w] # <<>> =>
           \A i \in 0 .. worker[w][2] - 1 : \E m \in mapped : m[1] = worker[w][1] + i
    /\ pc = "error" => alloc = 0 /\ mapped = {}

(* Every mapped page is populated once, unless an advice failed.             *)
PopulatedOnce ==
    ~populating /\ chunks # <<>> =>
        /\ \A i, j \in 1 .. Len(chunks) : i # j =>
               chunks[i][1] + chunks[i][2] <= chunks[j][1] \/ chunks[j][1] + chunks[j][2] <= chunks[i][1]
        /\ pc = "live" => \A m \in mapped : \E i \in 1 .. Len(chunks) :
               chunks[i][1] <= m[1] /\ m[1] < chunks[i][1] + chunks[i][2]
        /\ ~failed => next = Len(chunks) + 1
=============================================================================
