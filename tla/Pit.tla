--------------------------------- MODULE Pit ---------------------------------
(***************************************************************************)
(* The 8254 timer and system control port B (src/devices/pit.rs).  No      *)
(* interrupt is wired: a channel is its reload value, the tick it was      *)
(* anchored at and the byte sequencing of its port.  A count is computed   *)
(* when it is asked for, from the host's clock, so nothing here counts.    *)
(* A byte holds Byte values and a count two of them; the host's tick       *)
(* counter wraps at Wrap, where the code's u64 does, and a restored        *)
(* process has a clock of its own that starts again from 0.                *)
(***************************************************************************)
EXTENDS Naturals, FiniteSets

CONSTANTS
    Channels,       \* the counters; 8254 channels 0, 1 and 2
    Gated,          \* the channel whose gate port 0x61 drives (channel 2)
    Byte,           \* values a byte holds (256)
    Wrap,           \* the tick counter's modulus (2^64)
    MaxWrites,      \* bound: accesses that change a channel
    MaxTime,        \* bound: ticks that pass in one process
    MaxRestores     \* bound: times the VM is saved and restored

PitAssumption ==
    /\ Gated \in Channels
    /\ Byte \in Nat \ {0, 1} /\ MaxTime \in Nat
    /\ Wrap \in Nat \ {0}
    /\ Wrap > Byte * Byte + (MaxRestores + 1) * MaxTime
    /\ MaxWrites \in Nat /\ MaxRestores \in Nat

VARIABLES
    ch,             \* Inner.ch
    gate,           \* Channel.gate of each channel
    now,            \* now_ticks()
    ran,            \* history: the guest's own ticks since each anchor
    heard,          \* history: the latched count's bytes as the guest reads them
    writes,
    restores

vars == <<ch, gate, now, ran, heard, writes, restores>>

Count == 0 .. Byte * Byte - 1
Bytes == 0 .. Byte - 1
Access == {"LsbOnly", "MsbOnly", "LsbThenMsb"}
Modes == {0, 2}                     \* one-shot, and any mode that reloads

Lsb(v) == v % Byte
Msb(v) == v \div Byte
Minus(a, b) == (a + Wrap - b) % Wrap            \* wrapping_sub

FreshChannel ==
    [access |-> "LsbThenMsb", mode |-> 0, reload |-> 0, haveLsb |-> FALSE,
     lsb |-> 0, msbNext |-> FALSE, latchValid |-> FALSE, latched |-> 0,
     latchedMsbNext |-> FALSE, start |-> 0, running |-> FALSE]

Unheard == [lsb |-> Byte, msb |-> Byte, want |-> 0]

TypeOK ==
    /\ ch \in [Channels ->
           [access : Access, mode : Modes, reload : Count, haveLsb : BOOLEAN,
            lsb : Bytes, msbNext : BOOLEAN, latchValid : BOOLEAN,
            latched : Count, latchedMsbNext : BOOLEAN, start : 0 .. Wrap - 1,
            running : BOOLEAN]]
    /\ gate \in [Channels -> BOOLEAN]
    /\ now \in 0 .. MaxTime
    /\ ran \in [Channels -> Nat]
    /\ heard \in [Channels -> [lsb : 0 .. Byte, msb : 0 .. Byte, want : Count]]
    /\ writes \in 0 .. MaxWrites /\ restores \in 0 .. MaxRestores

Init ==
    /\ ch = [c \in Channels |-> FreshChannel]
    /\ gate = [c \in Channels |-> c # Gated]
    /\ now = 0
    /\ ran = [c \in Channels |-> 0]
    /\ heard = [c \in Channels |-> Unheard]
    /\ writes = 0 /\ restores = 0

-----------------------------------------------------------------------------
(* Pit8254::read_count: what a channel's counter shows `elapsed` ticks after *)
(* it was loaded.  A stopped or ungated channel shows its reload value.      *)
Shows(c, elapsed) ==
    LET reload == IF ch[c].reload = 0 THEN Byte * Byte ELSE ch[c].reload
    IN  IF ~ch[c].running \/ ~gate[c]
        THEN ch[c].reload
        ELSE IF ch[c].mode = 0
             THEN IF elapsed >= reload THEN 0
                                       ELSE (reload - elapsed) % (Byte * Byte)
             ELSE (reload - (elapsed % reload)) % (Byte * Byte)

ReadCount(c) == Shows(c, Minus(now, ch[c].start))

(* A latch command, alone or one of a read-back's.                          *)
Latched(c) == [ch[c] EXCEPT !.latched = ReadCount(c), !.latchValid = TRUE,
                            !.latchedMsbNext = FALSE]

Loaded(c, reload) == [ch[c] EXCEPT !.reload = reload, !.haveLsb = FALSE,
                                   !.start = now, !.running = TRUE]

Write == writes < MaxWrites /\ writes' = writes + 1

(* program_channel with the access bits of a latch command.                 *)
LatchCommand(c) ==
    /\ Write
    /\ ch' = [ch EXCEPT ![c] = Latched(c)]
    /\ heard' = [heard EXCEPT ![c] = [Unheard EXCEPT !.want = ReadCount(c)]]
    /\ UNCHANGED <<gate, now, ran, restores>>

(* handle_control's read-back command: every selected channel at one tick.  *)
ReadBack(some) ==
    /\ Write
    /\ ch' = [c \in Channels |-> IF c \in some THEN Latched(c) ELSE ch[c]]
    /\ heard' = [c \in Channels |-> IF c \in some
                                    THEN [Unheard EXCEPT !.want = ReadCount(c)]
                                    ELSE heard[c]]
    /\ UNCHANGED <<gate, now, ran, restores>>

(* program_channel: the channel stops and its byte sequencing starts over.  *)
ProgramChannel(c, access, mode) ==
    /\ Write
    /\ ch' = [ch EXCEPT ![c].access = access, ![c].mode = mode,
                        ![c].haveLsb = FALSE, ![c].lsb = 0,
                        ![c].msbNext = FALSE, ![c].latchValid = FALSE,
                        ![c].running = FALSE]
    /\ heard' = [heard EXCEPT ![c] = Unheard]
    /\ UNCHANGED <<gate, now, ran, restores>>

(* handle_counter, a write: the channel starts once its whole value is in.  *)
WriteCounter(c, b) ==
    LET first == ch[c].access = "LsbThenMsb" /\ ~ch[c].haveLsb
        value == CASE ch[c].access = "LsbOnly" -> Msb(ch[c].reload) * Byte + b
                   [] ch[c].access = "MsbOnly" -> b * Byte + Lsb(ch[c].reload)
                   [] ch[c].access = "LsbThenMsb" -> b * Byte + ch[c].lsb
    IN  /\ Write
        /\ ch' = IF first
                 THEN [ch EXCEPT ![c].lsb = b, ![c].haveLsb = TRUE]
                 ELSE [ch EXCEPT ![c] = Loaded(c, value)]
        /\ ran' = IF first THEN ran ELSE [ran EXCEPT ![c] = 0]
        /\ UNCHANGED <<gate, now, heard, restores>>

\* Faulty: a latched and a running count share one byte toggle.
ReadCounterOneToggle(c) ==
    LET latched == ch[c].latchValid
        val     == IF latched THEN ch[c].latched ELSE ReadCount(c)
        second  == ch[c].msbNext
    IN  /\ ch[c].access = "LsbThenMsb"
        /\ ch' = [ch EXCEPT ![c].msbNext = ~second,
                            ![c].latchValid = latched /\ ~second]
        /\ heard' = IF latched
                    THEN [heard EXCEPT ![c] = IF second THEN [@ EXCEPT !.msb = Msb(val)]
                                                        ELSE [@ EXCEPT !.lsb = Lsb(val)]]
                    ELSE heard
        /\ UNCHANGED <<gate, now, ran, writes, restores>>

(* handle_counter, a read.  A latched count and the running one are each     *)
(* read with a byte toggle of their own; the second byte of a latched count  *)
(* releases it.  In a one-byte mode nothing releases it.                     *)
ReadCounter(c) ==
    LET latched == ch[c].latchValid
        val     == IF latched THEN ch[c].latched ELSE ReadCount(c)
        second  == IF latched THEN ch[c].latchedMsbNext ELSE ch[c].msbNext
    IN  /\ ch' = IF ch[c].access # "LsbThenMsb"
                 THEN ch
                 ELSE IF latched
                      THEN [ch EXCEPT ![c].latchedMsbNext = ~second,
                                      ![c].latchValid = ~second]
                      ELSE [ch EXCEPT ![c].msbNext = ~second]
        /\ heard' = IF latched /\ ch[c].access = "LsbThenMsb"
                    THEN [heard EXCEPT ![c] = IF second THEN [@ EXCEPT !.msb = Msb(val)]
                                                        ELSE [@ EXCEPT !.lsb = Lsb(val)]]
                    ELSE heard
        /\ UNCHANGED <<gate, now, ran, writes, restores>>

(* handle_port61, a write: bit 0 is the gate.  Raising it restarts a channel *)
(* that was loaded.                                                          *)
WritePort61(on) ==
    LET rises == on /\ ~gate[Gated] /\ ch[Gated].running
    IN  /\ Write
        /\ gate' = [gate EXCEPT ![Gated] = on]
        /\ ch' = IF rises THEN [ch EXCEPT ![Gated].start = now] ELSE ch
        /\ ran' = IF rises THEN [ran EXCEPT ![Gated] = 0] ELSE ran
        /\ UNCHANGED <<now, heard, restores>>

(* handle_port61, a read: bit 5 is the channel's OUT pin.                    *)
Out == ch[Gated].mode = 0 /\ ch[Gated].running /\ ReadCount(Gated) = 0

(* The host's clock moves on under a running guest.                          *)
Tick ==
    /\ now < MaxTime
    /\ now' = now + 1
    /\ ran' = [c \in Channels |-> ran[c] + 1]
    /\ UNCHANGED <<ch, gate, heard, writes, restores>>

(* snapshot_capture: the ticks since the anchor, for a channel that runs.    *)
Elapsed(c) == IF ch[c].running THEN Minus(now, ch[c].start) ELSE 0

\* Faulty: the time that had elapsed is forgotten.
ReanchorAtNow(at, c) == at

(* snapshot_apply: the anchor is put that far before the new clock's `at`.   *)
Reanchor(at, c) == Minus(at, Elapsed(c))

(* The VM is saved, and a new process restores it at some tick of its own.   *)
SaveRestore(at) ==
    /\ restores < MaxRestores
    /\ restores' = restores + 1
    /\ now' = at
    /\ ch' = [c \in Channels |-> [ch[c] EXCEPT !.start = Reanchor(at, c)]]
    /\ UNCHANGED <<gate, ran, heard, writes>>

Next ==
    \/ \E c \in Channels :
           \/ LatchCommand(c)
           \/ \E a \in Access, m \in Modes : ProgramChannel(c, a, m)
           \/ \E b \in Bytes : WriteCounter(c, b)
           \/ ReadCounter(c)
    \/ \E some \in SUBSET Channels : Cardinality(some) > 1 /\ ReadBack(some)
    \/ \E on \in BOOLEAN : WritePort61(on)
    \/ Tick
    \/ \E at \in {0, 1} : SaveRestore(at)

Spec == Init /\ [][Next]_vars

-----------------------------------------------------------------------------
(* The count a guest reads after a latch command is the one the counter      *)
(* showed at the latch, whole: its two bytes are of one count however much   *)
(* time passes, whatever was half-read before, and across a save.  Both bytes *)
(* of the count are the latched one's as soon as both were read.             *)
LatchIsOneCount ==
    \A c \in Channels :
        /\ heard[c].lsb # Byte => heard[c].lsb = Lsb(heard[c].want)
        /\ heard[c].msb # Byte =>
               /\ heard[c].lsb # Byte
               /\ heard[c].lsb + Byte * heard[c].msb = heard[c].want

(* A loaded channel shows what a counter of the guest's own running time     *)
(* would show: the time the VM spent in a file is not counted, and neither a *)
(* new process's clock nor its wrap shows.  So a one-shot that expired stays *)
(* expired, the OUT pin included, until it is loaded or gated again.  (A     *)
(* reload of 0 stands for 2^16, which a count cannot show: in the tick it is *)
(* loaded the pin reads as expired, so the pin is stated for the others.)    *)
CountsGuestTime ==
    \A c \in Channels : ch[c].running =>
        /\ ReadCount(c) = Shows(c, ran[c])
        /\ c = Gated /\ gate[c] /\ ch[c].mode = 0 /\ ch[c].reload # 0 =>
               (Out <=> ran[c] >= ch[c].reload)
=============================================================================
