---------------------------- MODULE ConsoleDevice -----------------------------
(***************************************************************************)
(* virtio-console (src/virtio/console.rs) and the byte reader that feeds it   *)
(* (spawn_byte_reader in src/main.rs).  Bytes typed on the host wait in        *)
(* rx_pending and go into the driver's buffers; two threads drain it: the     *)
(* reader, with each block it reads, and the thread that serves the driver's   *)
(* notification.  What the driver prints goes to stdout.                      *)
(*                                                                         *)
(* Typed bytes are numbered, so that order and loss can be seen.  The ring's   *)
(* positions are plain numbers; Virtqueue has their wrapping and its fences.  *)
(***************************************************************************)
EXTENDS Integers, Sequences

CONSTANTS Size,     \* buffers the receive ring holds
          Room,     \* bytes one buffer takes
          MaxTyped, MaxPosts, MaxPrints   \* bounds on what the two sides do

ConsoleAssumption ==
  /\ {Size, Room} \subseteq Nat \ {0}
  /\ {MaxTyped, MaxPosts, MaxPrints} \subseteq Nat

ConsoleThreads == {"reader", "pump"}
Unlocked == "none"

VARIABLES
  typed, forwarded,           \* bytes typed; the last one given to write_host_input
  escape,                     \* spawn_byte_reader: a Ctrl+A was the last byte
  stopping,                   \* what Ctrl+A asked of GracefulStop: "no", "asked" or "now"
  pending,                    \* rx_pending
  avail, taken, availEvent,   \* the receive ring
  filled, armed, read,        \* used and not seen by the driver; used_event is set; what it read
  ready, drvOk, kick, irq,    \* Virtqueue::ready, the driver's state, the doorbell, an interrupt
  lock, pc, any,              \* rx_pending's and rxq's locks, held together; per thread
  prints, shown, txDone       \* transmit: chains printed, on stdout, given back

rx == <<avail, taken, availEvent, filled, armed, read>>
host == <<typed, forwarded, escape, stopping>>
tx == <<prints, shown, txDone>>
run == <<lock, pc, any>>
vars == <<host, pending, rx, ready, drvOk, kick, irq, run, tx>>

Init ==
  /\ typed = 0 /\ forwarded = 0 /\ escape = FALSE /\ stopping = "no" /\ pending = <<>>
  /\ avail = 0 /\ taken = 0 /\ availEvent = 0 /\ filled = <<>> /\ armed = TRUE /\ read = <<>>
  /\ ready = TRUE /\ drvOk = "ok" /\ kick = FALSE /\ irq = FALSE
  /\ lock = Unlocked /\ pc = [t \in ConsoleThreads |-> "idle"] /\ any = FALSE
  /\ prints = 0 /\ shown = <<>> /\ txDone = 0

Goto(t, step) == pc' = [pc EXCEPT ![t] = step]
At(t, step) == pc[t] = step

-----------------------------------------------------------------------------
(* The host: spawn_byte_reader and write_host_input                        *)

\* A byte other than Ctrl+A outside the escape is forwarded; write_host_input
\* appends it under both locks and drains if the queue is ready.
TypeByte ==
  /\ At("reader", "idle") /\ stopping # "now" /\ typed < MaxTyped /\ ~escape /\ lock = Unlocked
  /\ typed' = typed + 1 /\ forwarded' = forwarded + 1
  /\ pending' = Append(pending, forwarded + 1)
  /\ any' = FALSE
  /\ IF ready THEN lock' = "reader" /\ Goto("reader", "pop")
     ELSE UNCHANGED <<lock, pc>>
  /\ UNCHANGED <<escape, stopping, rx, ready, drvOk, kick, irq, tx>>

\* Ctrl+A is swallowed; the byte after it asks for a shutdown, quits at once, is
\* a literal Ctrl+A, or is swallowed as well.
CtrlA ==
  /\ At("reader", "idle") /\ stopping # "now" /\ typed < MaxTyped /\ ~escape
  /\ typed' = typed + 1 /\ escape' = TRUE
  /\ UNCHANGED <<forwarded, stopping, pending, rx, ready, drvOk, kick, irq, run, tx>>

HostKey(key) ==
  /\ At("reader", "idle") /\ escape
  /\ escape' = FALSE
  /\ stopping' = CASE key = "x" -> "now" [] key = "s" -> "asked" [] OTHER -> stopping
  /\ UNCHANGED <<typed, forwarded, pending, rx, ready, drvOk, kick, irq, run, tx>>

LiteralCtrlA ==
  /\ At("reader", "idle") /\ escape /\ lock = Unlocked
  /\ escape' = FALSE /\ forwarded' = forwarded + 1
  /\ pending' = Append(pending, forwarded + 1) /\ any' = FALSE
  /\ IF ready THEN lock' = "reader" /\ Goto("reader", "pop")
     ELSE UNCHANGED <<lock, pc>>
  /\ UNCHANGED <<typed, stopping, rx, ready, drvOk, kick, irq, tx>>

-----------------------------------------------------------------------------
(* notify_queue and drain_rx                                               *)

Notify ==
  /\ At("pump", "idle") /\ kick /\ lock = Unlocked
  /\ kick' = FALSE /\ any' = FALSE
  /\ IF ready THEN lock' = "pump" /\ Goto("pump", "pop") ELSE UNCHANGED <<lock, pc>>
  /\ UNCHANGED <<host, pending, rx, ready, drvOk, irq, tx>>

Min2(a, b) == IF a < b THEN a ELSE b

\* Faulty: what does not fit the buffer is dropped with it.
DrainRxDrops(t) ==
  /\ At(t, "pop") /\ pending # <<>> /\ taken < avail
  /\ taken' = taken + 1 /\ availEvent' = taken + 1
  /\ filled' = filled \o SubSeq(pending, 1, Min2(Room, Len(pending)))
  /\ pending' = <<>> /\ any' = TRUE
  /\ UNCHANGED <<host, avail, armed, read, ready, drvOk, kick, irq, lock, pc, tx>>

\* One round of the loop: a chain is popped, filled from the front of the backlog
\* and pushed.
DrainRx(t) ==
  /\ At(t, "pop") /\ pending # <<>> /\ taken < avail
  /\ LET n == Min2(Room, Len(pending)) IN
     /\ filled' = filled \o SubSeq(pending, 1, n)
     /\ pending' = SubSeq(pending, n + 1, Len(pending))
  /\ taken' = taken + 1 /\ availEvent' = taken + 1 /\ any' = TRUE
  /\ UNCHANGED <<host, avail, armed, read, ready, drvOk, kick, irq, lock, pc, tx>>

\* pop_into on an empty ring: a kick is asked for, then the ring looked at again.
DrainDry(t) ==
  /\ At(t, "pop") /\ pending # <<>> /\ taken = avail
  /\ availEvent' = taken /\ Goto(t, "recheck")
  /\ UNCHANGED <<host, pending, avail, taken, filled, armed, read, ready, drvOk, kick, irq,
                 lock, any, tx>>
DrainRecheck(t) ==
  /\ At(t, "recheck")
  /\ Goto(t, IF taken < avail THEN "pop" ELSE "done")
  /\ UNCHANGED <<host, pending, rx, ready, drvOk, kick, irq, lock, any, tx>>
DrainEmpty(t) ==
  /\ At(t, "pop") /\ pending = <<>>
  /\ Goto(t, "done")
  /\ UNCHANGED <<host, pending, rx, ready, drvOk, kick, irq, lock, any, tx>>

\* should_interrupt_driver under the locks, raise after them.
DrainEnd(t) ==
  /\ At(t, "done")
  /\ lock' = Unlocked /\ any' = FALSE
  /\ LET interrupt == any /\ armed IN
     /\ armed' = (armed /\ ~any)
     /\ Goto(t, IF interrupt THEN "raise" ELSE "idle")
  /\ UNCHANGED <<host, pending, avail, taken, availEvent, filled, read, ready, drvOk, kick, irq, tx>>
Raise(t) ==
  /\ At(t, "raise")
  /\ irq' = TRUE /\ Goto(t, "idle")
  /\ UNCHANGED <<host, pending, rx, ready, drvOk, kick, lock, any, tx>>

-----------------------------------------------------------------------------
(* drain_tx: the chains printed so far, in order, then given back           *)

DrainTx ==
  /\ At("pump", "idle") /\ ready /\ txDone < prints
  /\ shown' = shown \o [i \in 1..(prints - txDone) |-> txDone + i] /\ txDone' = prints
  /\ UNCHANGED <<host, pending, rx, ready, drvOk, kick, irq, run, prints>>

-----------------------------------------------------------------------------
(* The driver (external)                                                   *)

Post ==
  /\ drvOk = "ok" /\ avail < MaxPosts /\ avail - taken < Size
  /\ avail' = avail + 1 /\ drvOk' = "posted"
  /\ UNCHANGED <<host, pending, taken, availEvent, filled, armed, read, ready, kick, irq, run, tx>>
Kick ==
  /\ drvOk = "posted"
  /\ drvOk' = "ok" /\ kick' = (kick \/ availEvent = avail - 1)
  /\ UNCHANGED <<host, pending, rx, ready, irq, run, tx>>
\* hvc_poll: everything used is read and used_event set for the next.
ReadAll ==
  /\ drvOk = "ok" /\ irq
  /\ irq' = FALSE /\ read' = read \o filled /\ filled' = <<>> /\ armed' = TRUE
  /\ UNCHANGED <<host, pending, avail, taken, availEvent, ready, drvOk, kick, run, tx>>
PrintLine ==
  /\ drvOk = "ok" /\ prints < MaxPrints
  /\ prints' = prints + 1
  /\ UNCHANGED <<host, pending, rx, ready, drvOk, kick, irq, run, shown, txDone>>

\* ConsoleDevice::reset: the backlog first, then the queues, each under its own
\* lock.
ResetPending ==
  /\ drvOk = "ok" /\ lock = Unlocked
  /\ drvOk' = "cleared" /\ pending' = <<>>
  /\ UNCHANGED <<host, rx, ready, kick, irq, run, tx>>
ResetQueues ==
  /\ drvOk = "cleared" /\ lock = Unlocked
  /\ drvOk' = "down" /\ ready' = FALSE
  /\ avail' = 0 /\ taken' = 0 /\ availEvent' = 0 /\ filled' = <<>> /\ armed' = TRUE /\ read' = <<>>
  /\ prints' = 0 /\ shown' = <<>> /\ txDone' = 0
  /\ UNCHANGED <<host, pending, kick, irq, run>>
\* enable_queue, then driver_ok; the new driver posts and kicks.
Enable ==
  /\ drvOk = "down" /\ lock = Unlocked
  /\ drvOk' = "ok" /\ ready' = TRUE
  /\ UNCHANGED <<host, pending, rx, kick, irq, run, tx>>

-----------------------------------------------------------------------------
HostStep == TypeByte \/ CtrlA \/ LiteralCtrlA \/ \E key \in {"s", "x", "other"}: HostKey(key)
DrainStep(t) == DrainRx(t) \/ DrainDry(t) \/ DrainRecheck(t) \/ DrainEmpty(t)
                \/ DrainEnd(t) \/ Raise(t)
Driver == Post \/ Kick \/ ReadAll \/ PrintLine \/ ResetPending \/ ResetQueues \/ Enable
Next == HostStep \/ Notify \/ DrainTx \/ Driver \/ \E t \in ConsoleThreads: DrainStep(t)

Spec == Init /\ [][Next]_vars

-----------------------------------------------------------------------------
TypeOK ==
  /\ avail \in 0..MaxPosts /\ taken \in 0..avail /\ availEvent \in 0..avail
  /\ lock \in ConsoleThreads \cup {Unlocked} /\ txDone \in 0..prints
  /\ drvOk \in {"ok", "posted", "cleared", "down"} /\ stopping \in {"no", "asked", "now"}
  /\ {escape, armed, ready, kick, irq, any} \subseteq BOOLEAN

\* hvc0 gets what was typed, in order and whole, whichever of the two threads
\* moves a byte: what the driver read, what lies in its ring and what waits are
\* consecutive bytes that end with the last one forwarded, since the last reset;
\* and nothing typed stays behind: with both threads idle and no kick on its way,
\* bytes wait only for buffers, and a driver with used buffers has an interrupt.
TypedArrives ==
  LET all == read \o filled \o pending IN
  /\ drvOk # "cleared" => \A i \in 1..Len(all): all[i] = forwarded - Len(all) + i
  /\ (\A t \in ConsoleThreads: At(t, "idle")) /\ drvOk = "ok" /\ ~kick =>
       /\ pending # <<>> => ~ready \/ avail = taken
       /\ filled # <<>> => irq
=============================================================================
