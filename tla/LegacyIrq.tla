----------------------------- MODULE LegacyIrq -----------------------------
(***************************************************************************)
(* The legacy interrupt path: the UART's transmit interrupt                *)
(* (src/devices/serial.rs), the 8259 pair (src/devices/pic.rs), and the    *)
(* BSP's run loop, which polls the pair's output and injects its vector as *)
(* an ExtINT when the guest can take one (src/whp/run_loop.rs).            *)
(*                                                                         *)
(* Lines is the set of ISA lines modelled, Com1 the UART's; the others are *)
(* raised by nobody but are latched and masked all the same. The guest's   *)
(* driver and WHP are external. Each chip register access is one step: it  *)
(* holds the chip's lock throughout, as the UART does while it raises.     *)
(***************************************************************************)
EXTENDS Integers

CONSTANTS Lines,    \* ISA lines in use, from 0..15
          Com1,     \* ISA_IRQ, the UART's line
          MaxWrites \* register writes the guest makes

LegacyIrqAssumption == Lines \subseteq 0..15 /\ Com1 \in Lines /\ MaxWrites \in Nat

CascadeIrq == 2
Chips == {"master", "slave"}

VARIABLES irr, mask,  \* sets of ISA lines
          step,       \* per chip: where its ICW sequence is
          ier, tx,    \* the UART: ETBEI, tx_irq_pending
          kicked, window, \* a cancel waits; an interrupt-window exit is asked for
          bsp,        \* guest, top, check (output seen) or enter
          ap,         \* another vCPU: run, or kick (its access asserted the output)
          canTake,    \* the BSP can take an interrupt
          event,      \* the line whose vector is injected, or -1
          served,     \* the line the BSP's handler serves, or -1
          acked,      \* it has acknowledged it at the PIC
          restarted,  \* the PIC was restarted since the condition was raised
          writes

chips == <<irr, mask, step>>
uart == <<ier, tx, restarted>>
loop == <<window, canTake, event, served, acked>>
vars == <<chips, uart, kicked, bsp, ap, loop, writes>>

Of(line) == IF line < 8 THEN "master" ELSE "slave"

Init ==
    /\ irr = {} /\ mask = Lines \cup {CascadeIrq} /\ step = [c \in Chips |-> "Idle"]
    /\ ier = FALSE /\ tx = FALSE
    /\ kicked = FALSE /\ window = FALSE /\ bsp = "top" /\ ap = "run" /\ canTake = TRUE
    /\ event = -1 /\ served = -1 /\ acked = FALSE /\ restarted = FALSE /\ writes = 0

\* Inner::highest: master lines by number, the slave's at the cascade's place.
Requests(i, k) ==
    {l \in i \ k : Of(l) = "master"}
    \cup (IF CascadeIrq \in k THEN {} ELSE {l \in i \ k : Of(l) = "slave"})
Rank(l) == IF Of(l) = "master" THEN 10 * l ELSE 10 * CascadeIrq + l - 15
Highest(i, k) == CHOOSE l \in Requests(i, k) : \A o \in Requests(i, k) : Rank(l) <= Rank(o)
Output(i, k) == Requests(i, k) # {}

\* The chips' ports may be accessed from the BSP, whose exit brings it back to
\* the top of its loop, or from another vCPU.
Cpus == {"bsp", "ap"}
Access(v) ==
    /\ writes < MaxWrites /\ writes' = writes + 1
    /\ IF v = "bsp" THEN bsp = "guest" /\ bsp' = "top" ELSE ap = "run" /\ UNCHANGED bsp

\* notify, after the pair's lock: a cancel of the BSP's run. On the BSP itself
\* it is pending for the next run.
Notify(v, asserted) ==
    IF v = "bsp" THEN kicked' = (kicked \/ asserted) /\ UNCHANGED ap
    ELSE ap' = (IF asserted THEN "kick" ELSE "run") /\ UNCHANGED kicked

Kick ==
    /\ ap = "kick" /\ ap' = "run" /\ kicked' = TRUE
    /\ UNCHANGED <<chips, uart, bsp, loop, writes>>

\* Faulty: nobody is notified.
RaiseQuiet(v, l) == irr' = irr \cup {l} /\ Notify(v, FALSE)

\* raise: latch the line; notify if the output is now asserted.
Raise(v, l) == irr' = irr \cup {l} /\ Notify(v, Output(irr \cup {l}, mask))

\* maybe_raise_tx_irq
MaybeRaiseTxIrq(v, enabled) ==
    IF enabled /\ ~tx THEN tx' = TRUE /\ restarted' = FALSE /\ Raise(v, Com1)
    ELSE UNCHANGED <<tx, restarted, irr, kicked, ap>>

\* THR: a byte to stdout, then the transmit interrupt.
WriteThr(v) ==
    /\ Access(v)
    /\ MaybeRaiseTxIrq(v, ier)
    /\ UNCHANGED <<mask, step, ier, loop>>

\* IER: enabling raises, disabling drops the pending condition.
WriteIer(v, on) ==
    /\ Access(v)
    /\ ier' = on
    /\ IF on /\ ~ier THEN MaybeRaiseTxIrq(v, TRUE)
       ELSE tx' = (tx /\ on) /\ UNCHANGED <<restarted, irr, kicked, ap>>
    /\ UNCHANGED <<mask, step, loop>>

\* handle_chip: ICW1 restarts a chip, masked and with nothing latched; the
\* data port then takes ICW2, ICW3 and, if ICW1 asked for it (left open here),
\* ICW4 before it takes masks again.
WriteIcw1(v, c) ==
    /\ Access(v)
    /\ step' = [step EXCEPT ![c] = "Icw2"]
    /\ mask' = mask \cup {l \in Lines \cup {CascadeIrq} : Of(l) = c}
    /\ irr' = {l \in irr : Of(l) # c}
    /\ restarted' = (restarted \/ c = Of(Com1))
    /\ UNCHANGED <<ier, tx, kicked, ap, loop>>

WriteIcw(v, c) ==
    /\ Access(v) /\ step[c] # "Idle"
    /\ \E after \in CASE step[c] = "Icw2" -> {"Icw3"} [] step[c] = "Icw3" -> {"Icw4", "Idle"}
                     [] OTHER -> {"Idle"} : step' = [step EXCEPT ![c] = after]
    /\ UNCHANGED <<irr, mask, uart, kicked, ap, loop>>

\* Faulty: unmasking notifies nobody.
UnmasksQuietly(k) == FALSE

\* OCW1: unmasking a latched request notifies.
Unmasks(k) == mask \ k # {} /\ Output(irr, k)
WriteMask(v, l) ==
    /\ Access(v) /\ step[Of(l)] = "Idle"
    /\ LET k == IF l \in mask THEN mask \ {l} ELSE mask \cup {l}
       IN mask' = k /\ Notify(v, Unmasks(k))
    /\ UNCHANGED <<irr, step, uart, loop>>

\* The BSP's guest disables or enables interrupts outside a handler; enabling
\* them exits at once if a window was asked for.
ToggleIf ==
    /\ bsp = "guest" /\ served = -1 /\ writes < MaxWrites /\ writes' = writes + 1
    /\ canTake' = ~canTake
    /\ bsp' = IF window /\ canTake' THEN "top" ELSE bsp
    /\ window' = (window /\ ~canTake')
    /\ UNCHANGED <<chips, uart, kicked, ap, event, served, acked>>

\* deliver_ext_int, at the top of every pass of the loop.
Poll ==
    /\ bsp = "top"
    /\ bsp' = IF Output(irr, mask) THEN "check" ELSE "enter"
    /\ UNCHANGED <<chips, uart, kicked, ap, loop, writes>>

AskWindow ==
    /\ bsp = "check" /\ ~(canTake /\ event = -1)
    /\ window' = TRUE /\ bsp' = "enter"
    /\ UNCHANGED <<chips, uart, kicked, ap, canTake, event, served, acked, writes>>

\* Faulty: the INTA cycle before the check that its vector can be injected.
AcknowledgeEarly ==
    /\ bsp = "check" /\ Output(irr, mask)
    /\ irr' = irr \ {Highest(irr, mask)}
    /\ event' = IF canTake /\ event = -1 THEN Highest(irr, mask) ELSE event
    /\ bsp' = "enter"
    /\ UNCHANGED <<mask, step, uart, kicked, ap, window, canTake, served, acked, writes>>

\* The INTA cycle; the request may have gone since it was seen.
Acknowledge ==
    /\ bsp = "check" /\ canTake /\ event = -1
    /\ IF Output(irr, mask)
       THEN irr' = irr \ {Highest(irr, mask)} /\ event' = Highest(irr, mask)
       ELSE UNCHANGED <<irr, event>>
    /\ bsp' = "enter"
    /\ UNCHANGED <<mask, step, uart, kicked, ap, window, canTake, served, acked, writes>>

\* WHvRunVirtualProcessor: a cancel returns at once; else the injected event
\* starts the guest's handler.
Run ==
    /\ bsp = "enter"
    /\ IF kicked THEN kicked' = FALSE /\ bsp' = "top" /\ UNCHANGED <<event, served, canTake, acked>>
       ELSE /\ bsp' = "guest" /\ UNCHANGED kicked
            /\ IF event # -1
               THEN served' = event /\ event' = -1 /\ canTake' = FALSE /\ acked' = FALSE
               ELSE UNCHANGED <<event, served, canTake, acked>>
    /\ UNCHANGED <<chips, uart, ap, window, writes>>

Canceled ==
    /\ bsp = "guest" /\ kicked
    /\ kicked' = FALSE /\ bsp' = "top"
    /\ UNCHANGED <<chips, uart, ap, loop, writes>>

\* The handler acknowledges at the PIC (mask_and_ack_8259A: a port access, so
\* an exit), reads IIR, which clears the UART's condition, and returns.
Eoi ==
    /\ bsp = "guest" /\ served # -1 /\ ~acked
    /\ acked' = TRUE /\ bsp' = "top"
    /\ UNCHANGED <<chips, uart, kicked, ap, window, canTake, event, served, writes>>

ReadIir ==
    /\ bsp = "guest" /\ served = Com1 /\ acked /\ tx
    /\ tx' = FALSE /\ bsp' = "top"
    /\ UNCHANGED <<chips, ier, restarted, kicked, ap, loop, writes>>

Iret ==
    /\ bsp = "guest" /\ served # -1 /\ acked /\ (served = Com1 => ~tx)
    /\ served' = -1 /\ canTake' = TRUE
    /\ bsp' = IF window THEN "top" ELSE bsp
    /\ window' = FALSE
    /\ UNCHANGED <<chips, uart, kicked, ap, event, acked, writes>>

\* snapshot_capture and apply: the registers and the vCPU come back, a cancel
\* and a window request do not; every vCPU starts at the top of its loop.
Restore ==
    /\ bsp = "top" /\ ap = "run" /\ (kicked \/ window)
    /\ kicked' = FALSE /\ window' = FALSE
    /\ UNCHANGED <<chips, uart, bsp, ap, canTake, event, served, acked, writes>>

Next ==
    \/ \E v \in Cpus : \/ WriteThr(v) \/ (\E on \in BOOLEAN : WriteIer(v, on))
                       \/ (\E c \in Chips : WriteIcw1(v, c) \/ WriteIcw(v, c))
                       \/ (\E l \in Lines \cup {CascadeIrq} : WriteMask(v, l))
    \/ Kick \/ ToggleIf \/ Poll \/ AskWindow \/ Acknowledge \/ Run \/ Canceled
    \/ Eoi \/ ReadIir \/ Iret \/ Restore

Spec == Init /\ [][Next]_vars

TypeOK ==
    /\ irr \subseteq Lines /\ mask \subseteq Lines \cup {CascadeIrq}
    /\ step \in [Chips -> {"Idle", "Icw2", "Icw3", "Icw4"}]
    /\ ier \in BOOLEAN /\ tx \in BOOLEAN /\ kicked \in BOOLEAN /\ window \in BOOLEAN
    /\ bsp \in {"top", "check", "enter", "guest"} /\ canTake \in BOOLEAN
    /\ ap \in {"run", "kick"} /\ acked \in BOOLEAN /\ restarted \in BOOLEAN
    /\ event \in Lines \cup {-1} /\ served \in Lines \cup {-1} /\ writes \in 0..MaxWrites

\* A PIC request is never stranded ("so a PIC request is never stranded"):
\* while the output is asserted and the BSP runs the guest, a cancel waits or
\* is about to be sent, the guest is asked for an interrupt window it does not
\* have, or a vector is on its way whose acknowledgement exits.
RequestIsNoticed ==
    bsp \in {"enter", "guest"} /\ Output(irr, mask) =>
        \/ kicked \/ ap = "kick"
        \/ window /\ ~canTake
        \/ event # -1
        \/ served # -1 /\ ~acked

\* The UART never holds its interrupt condition with nothing on its way to
\* clear it: while the condition is pending, the line is latched, its vector
\* injected, or its handler has yet to read IIR -- unless the guest restarted
\* the PIC, which drops latched requests, since it was raised.
TxIrqIsHeld ==
    tx => Com1 \in irr \/ event = Com1 \/ served = Com1 \/ restarted
=============================================================================
