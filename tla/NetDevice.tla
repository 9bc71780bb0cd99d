------------------------------ MODULE NetDevice -------------------------------
(***************************************************************************)
(* The receive path of virtio-net (src/virtio/net.rs): frames that a backend *)
(* injects go into the driver's buffers, or into a backlog where the ring    *)
(* has too few; the backend is told to stop when the backlog is deep and     *)
(* woken when it has drained; interrupts may wait for the end of a burst.    *)
(*                                                                         *)
(* Two threads deliver: the backend's owner and the doorbell pump, which     *)
(* serves the driver's refills and, with the loopback backend, injects what  *)
(* the driver sends.  A frame is the number of buffers it needs.  Ring       *)
(* positions are plain numbers and stores are seen at once: wrapping and     *)
(* fences are Virtqueue's.                                                   *)
(***************************************************************************)
EXTENDS Integers, Sequences

CONSTANTS Size,        \* buffers the ring holds
          Pool,        \* RX_POOL_SLOTS
          High, Low,   \* RX_BACKLOG_HIGH, RX_BACKLOG_LOW
          Batch,       \* RX_NOTIFY_BATCH
          Tries,       \* the attempts of deliver_frame, 4
          MaxFrame,    \* buffers of the largest frame
          MaxInjects, MaxPosts, MaxResets   \* bounds on frames, buffers and resets

NetAssumption ==
  /\ {Size, Pool, High, Batch, Tries, MaxFrame} \subseteq Nat \ {0} /\ Low \in Nat
  /\ Low < High /\ High <= Pool /\ {MaxInjects, MaxPosts, MaxResets} \subseteq Nat

NetThreads == {"owner", "pump"}
NoLock == "none"

VARIABLES
  avail, reaped, asleep, due,   \* the driver: buffers posted, frames' buffers taken back,
                                \* waiting for an interrupt, a kick still to decide about
  driver,                       \* "ok", or its step of a reset
  availEvent, used,             \* guest RAM
  ready, lastAvail, signaled,   \* struct Virtqueue
  kick, irq,                    \* the doorbell's event; an interrupt is pending
  lock,                         \* RxPool's mutex
  backlog, rxBacklog, rxWake,   \* RxPool::pending, its published length, rx_wake
  unsignaled,                   \* rx_unsignaled
  pc, loc,                      \* per thread: its place and its locals
  paused, woken, burst,         \* the owner: told to stop; on_rx_space came; notify_rx is due
  injects, resets

ring == <<avail, reaped, asleep, due, driver, availEvent, used, ready, lastAvail, signaled>>
flow == <<backlog, rxBacklog, rxWake, unsignaled>>
owner == <<paused, woken, burst>>
vars == <<ring, kick, irq, lock, flow, pc, loc, owner, injects, resets>>

NoLoc == [frame |-> 0, notify |-> FALSE, drain |-> FALSE, any |-> FALSE,
          cursor |-> 0, got |-> 0, tries |-> 0, left |-> 0]

Init ==
  /\ avail = 0 /\ reaped = 0 /\ asleep = FALSE /\ due = FALSE /\ driver = "ok"
  /\ availEvent = 0 /\ used = 0 /\ ready = TRUE /\ lastAvail = 0 /\ signaled = 0
  /\ kick = FALSE /\ irq = FALSE /\ lock = NoLock
  /\ backlog = <<>> /\ rxBacklog = 0 /\ rxWake = FALSE /\ unsignaled = 0
  /\ pc = [t \in NetThreads |-> "idle"] /\ loc = [t \in NetThreads |-> NoLoc]
  /\ paused = FALSE /\ woken = FALSE /\ burst = FALSE
  /\ injects = 0 /\ resets = 0

Goto(t, step) == pc' = [pc EXCEPT ![t] = step]
Forget(t) == loc' = [loc EXCEPT ![t] = NoLoc]
At(t, steps) == pc[t] \in steps
\* A thread is between taking the queue's lock and letting go of it.
InRing == \E t \in NetThreads: At(t, {"pop", "arm", "recheck", "rewind", "publish"})

-----------------------------------------------------------------------------
(* The driver (external): it refills, then decides about the kick, and sleeps  *)
(* only after it has looked at the used ring once more.                        *)

Refill ==
  /\ driver = "ok" /\ avail < MaxPosts /\ avail - reaped < Size /\ ~due
  /\ avail' = avail + 1 /\ due' = TRUE
  /\ UNCHANGED <<reaped, asleep, driver, availEvent, used, ready, lastAvail, signaled,
                 kick, irq, lock, flow, pc, loc, owner, injects, resets>>

KickPrepare ==
  /\ driver = "ok" /\ due
  /\ due' = FALSE /\ kick' = (kick \/ availEvent = avail - 1)
  /\ UNCHANGED <<avail, reaped, asleep, driver, availEvent, used, ready, lastAvail, signaled,
                 irq, lock, flow, pc, loc, owner, injects, resets>>

NapiPoll ==
  /\ driver = "ok" /\ ~asleep
  /\ IF reaped < used THEN reaped' = used /\ UNCHANGED asleep
     ELSE asleep' = TRUE /\ UNCHANGED reaped
  /\ UNCHANGED <<avail, due, driver, availEvent, used, ready, lastAvail, signaled,
                 kick, irq, lock, flow, pc, loc, owner, injects, resets>>

TakeIrq ==
  /\ driver = "ok" /\ irq
  /\ irq' = FALSE /\ asleep' = FALSE
  /\ UNCHANGED <<avail, reaped, due, driver, availEvent, used, ready, lastAvail, signaled,
                 kick, lock, flow, pc, loc, owner, injects, resets>>

-----------------------------------------------------------------------------
(* NetDevice::reset, on a vCPU                                             *)

\* Faulty: the backend is not woken by a reset.
WakeUnlessReset(left) ==
  IF left > 0 /\ left <= Low /\ rxWake THEN rxWake' = FALSE /\ woken' = TRUE
  ELSE UNCHANGED <<rxWake, woken>>

\* maybe_wake_backend; on_rx_space posts to the owner, who sees it when it gets to
\* it.
WakeBackend(left) ==
  IF left <= Low /\ rxWake THEN rxWake' = FALSE /\ woken' = TRUE
  ELSE UNCHANGED <<rxWake, woken>>

ResetClear ==
  /\ driver = "ok" /\ ~due /\ resets < MaxResets /\ lock = NoLock
  /\ driver' = "cleared" /\ resets' = resets + 1 /\ backlog' = <<>>
  /\ UNCHANGED <<avail, reaped, asleep, due, availEvent, used, ready, lastAvail, signaled,
                 kick, irq, lock, rxBacklog, rxWake, unsignaled, pc, loc, owner, injects>>
\* The length is stored after the lock is let go.
ResetStore ==
  /\ driver = "cleared"
  /\ driver' = "stored" /\ rxBacklog' = 0
  /\ UNCHANGED <<avail, reaped, asleep, due, availEvent, used, ready, lastAvail, signaled,
                 kick, irq, lock, backlog, rxWake, unsignaled, pc, loc, owner, injects, resets>>
ResetWake ==
  /\ driver = "stored"
  /\ driver' = "woken" /\ WakeBackend(0)
  /\ UNCHANGED <<avail, reaped, asleep, due, availEvent, used, ready, lastAvail, signaled,
                 kick, irq, lock, backlog, rxBacklog, unsignaled, pc, loc, paused, burst,
                 injects, resets>>
ResetQueue ==
  /\ driver = "woken" /\ ~InRing
  /\ driver' = "down" /\ ready' = FALSE
  /\ avail' = 0 /\ reaped' = 0 /\ asleep' = FALSE /\ availEvent' = 0 /\ used' = 0
  /\ lastAvail' = 0 /\ signaled' = 0
  /\ UNCHANGED <<due, kick, irq, lock, flow, pc, loc, owner, injects, resets>>
\* enable_queue; a driver posts its first buffers and kicks.
Enable ==
  /\ driver = "down" /\ ~InRing
  /\ driver' = "ok" /\ ready' = TRUE
  /\ UNCHANGED <<avail, reaped, asleep, due, availEvent, used, lastAvail, signaled,
                 kick, irq, lock, flow, pc, loc, owner, injects, resets>>

-----------------------------------------------------------------------------
(* inject_rx_frame and deliver_rx                                          *)

\* The fast path tries the ring when nothing waits; otherwise the frame waits.
InjectFrame(t, n, notify) ==
  /\ At(t, {"idle"}) /\ lock = NoLock /\ injects < MaxInjects
  /\ lock' = t /\ injects' = injects + 1
  /\ loc' = [loc EXCEPT ![t] = [NoLoc EXCEPT !.frame = n, !.notify = notify, !.cursor = lastAvail]]
  /\ Goto(t, IF ready /\ backlog = <<>> THEN "pop" ELSE "queue")
  /\ UNCHANGED <<ring, kick, irq, flow, resets>>

\* inject_rx_gso_batched.
Inject(n) == /\ ~paused /\ ~woken /\ InjectFrame("owner", n, FALSE)
             /\ burst' = TRUE /\ UNCHANGED <<paused, woken>>
\* pump_tx with LoopbackBackend: what the driver sends comes back.
Loopback(n) == InjectFrame("pump", n, TRUE) /\ UNCHANGED owner

Queue(t) ==
  /\ At(t, {"queue"})
  /\ lock' = NoLock
  /\ IF Len(backlog) < Pool
     THEN /\ backlog' = Append(backlog, loc[t].frame)
          /\ rxBacklog' = Len(backlog) + 1
          /\ Goto(t, "deliver")
     ELSE UNCHANGED <<backlog, rxBacklog>> /\ Goto(t, "idle")
  /\ Forget(t)
  /\ UNCHANGED <<ring, kick, irq, rxWake, unsignaled, owner, injects, resets>>

\* notify_queue of the receive queue.
PumpWake ==
  /\ At("pump", {"idle"}) /\ kick
  /\ kick' = FALSE /\ Goto("pump", "deliver")
  /\ UNCHANGED <<ring, irq, lock, flow, loc, owner, injects, resets>>

DeliverRx(t) ==
  /\ At(t, {"deliver"}) /\ lock = NoLock
  /\ lock' = t
  /\ IF ready /\ backlog # <<>>
     THEN /\ loc' = [loc EXCEPT ![t] = [NoLoc EXCEPT !.frame = Head(backlog), !.drain = TRUE,
                                                     !.cursor = lastAvail]]
          /\ Goto(t, "pop")
     ELSE loc' = [loc EXCEPT ![t] = [NoLoc EXCEPT !.drain = TRUE]] /\ Goto(t, "left")
  /\ UNCHANGED <<ring, kick, irq, flow, owner, injects, resets>>

-----------------------------------------------------------------------------
(* deliver_frame, under both locks, the driver going on                    *)

Pop(t) ==
  /\ At(t, {"pop"})
  /\ IF lastAvail < avail
     THEN /\ lastAvail' = lastAvail + 1 /\ availEvent' = lastAvail + 1
          /\ loc' = [loc EXCEPT ![t].got = @ + 1]
          /\ Goto(t, IF loc[t].got + 1 = loc[t].frame THEN "publish" ELSE "pop")
     ELSE Goto(t, "arm") /\ UNCHANGED <<lastAvail, availEvent, loc>>
  /\ UNCHANGED <<avail, reaped, asleep, due, driver, used, ready, signaled,
                 kick, irq, lock, flow, owner, injects, resets>>

\* arm_kick_and_recheck.
Arm(t) ==
  /\ At(t, {"arm"})
  /\ availEvent' = lastAvail /\ Goto(t, "recheck")
  /\ UNCHANGED <<avail, reaped, asleep, due, driver, used, ready, lastAvail, signaled,
                 kick, irq, lock, flow, loc, owner, injects, resets>>

Fail(t) == Goto(t, IF loc[t].drain THEN "left" ELSE "queue")

\* Dry: no buffer at all, or too few of a ring that could hold the frame; what
\* a whole ring cannot hold is published cut short.
Recheck(t) ==
  /\ At(t, {"recheck"})
  /\ IF lastAvail < avail THEN Goto(t, "pop")
     ELSE IF loc[t].got = 0 THEN Fail(t)
     ELSE Goto(t, IF loc[t].got < Size THEN "rewind" ELSE "publish")
  /\ UNCHANGED <<ring, kick, irq, lock, flow, loc, owner, injects, resets>>

\* Faulty: the kick is asked for at the buffer the frame starts with.
RewindRearmed(t) ==
  /\ At(t, {"rewind"})
  /\ lastAvail' = loc[t].cursor /\ availEvent' = loc[t].cursor
  /\ loc' = [loc EXCEPT ![t].got = 0, ![t].tries = @ + 1]
  /\ IF avail # lastAvail /\ loc[t].tries + 1 < Tries THEN Goto(t, "pop") ELSE Fail(t)
  /\ UNCHANGED <<avail, reaped, asleep, due, driver, used, ready, signaled,
                 kick, irq, lock, flow, owner, injects, resets>>

\* rewind_avail: the buffers are given back and avail_event stays where the ring
\* ran dry; tried again at once if there is more now, a few times.
Rewind(t) ==
  /\ At(t, {"rewind"})
  /\ lastAvail' = loc[t].cursor
  /\ loc' = [loc EXCEPT ![t].got = 0, ![t].tries = @ + 1]
  /\ IF avail # lastAvail /\ loc[t].tries + 1 < Tries THEN Goto(t, "pop") ELSE Fail(t)
  /\ UNCHANGED <<avail, reaped, asleep, due, driver, availEvent, used, ready, signaled,
                 kick, irq, lock, flow, owner, injects, resets>>

\* Faulty: off by one, an element published where the driver sleeps is not new.
DecideLate(newUsed) == asleep /\ signaled < reaped /\ reaped < newUsed

\* should_interrupt_driver: a sleeping driver asks to be told of the next element.
Decide(newUsed) == asleep /\ signaled <= reaped /\ reaped < newUsed

\* All of the frame's buffers with one used.idx.  The fast path decides about the
\* interrupt and lets go of the locks; the drain goes on with the next frame.
Publish(t) ==
  /\ At(t, {"publish"})
  /\ used' = used + loc[t].got
  /\ LET rest == Tail(backlog) IN
     IF loc[t].drain
     THEN /\ backlog' = rest
          /\ loc' = [loc EXCEPT ![t] = [NoLoc EXCEPT !.drain = TRUE, !.any = TRUE,
                       !.frame = IF rest = <<>> THEN 0 ELSE Head(rest), !.cursor = lastAvail]]
          /\ Goto(t, IF rest = <<>> THEN "left" ELSE "pop")
          /\ UNCHANGED <<signaled, lock>>
     ELSE /\ lock' = NoLock /\ Forget(t) /\ UNCHANGED backlog
          /\ IF loc[t].notify
             THEN /\ signaled' = used'
                  /\ Goto(t, IF Decide(used') THEN "raise" ELSE "idle")
             ELSE Goto(t, "count") /\ UNCHANGED signaled
  /\ UNCHANGED <<avail, reaped, asleep, due, driver, availEvent, ready, lastAvail,
                 kick, irq, rxBacklog, rxWake, unsignaled, owner, injects, resets>>

\* The end of deliver_rx, still under the locks.
Left(t) ==
  /\ At(t, {"left"})
  /\ lock' = NoLock /\ rxBacklog' = Len(backlog)
  /\ loc' = [loc EXCEPT ![t].left = Len(backlog)]
  /\ IF loc[t].any /\ ready
     THEN signaled' = used /\ Goto(t, IF Decide(used) THEN "raise" ELSE "wake")
     ELSE UNCHANGED signaled /\ Goto(t, "wake")
  /\ UNCHANGED <<avail, reaped, asleep, due, driver, availEvent, used, ready, lastAvail,
                 kick, irq, backlog, rxWake, unsignaled, owner, injects, resets>>

Raise(t) ==
  /\ At(t, {"raise"})
  /\ irq' = TRUE /\ Goto(t, IF loc[t].drain THEN "wake" ELSE "idle")
  /\ UNCHANGED <<ring, kick, lock, flow, loc, owner, injects, resets>>

Wake(t) ==
  /\ At(t, {"wake"})
  /\ WakeBackend(loc[t].left) /\ Goto(t, "idle") /\ Forget(t)
  /\ UNCHANGED <<ring, kick, irq, lock, backlog, rxBacklog, unsignaled, paused, burst,
                 injects, resets>>

-----------------------------------------------------------------------------
(* Batched interrupts: inject_rx_gso_batched and notify_rx                 *)

Count(t) ==
  /\ At(t, {"count"})
  /\ unsignaled' = unsignaled + 1
  /\ Goto(t, IF unsignaled + 1 >= Batch THEN "notify" ELSE "idle")
  /\ UNCHANGED <<ring, kick, irq, lock, backlog, rxBacklog, rxWake, loc, owner, injects, resets>>

\* The owner, when its burst is over.
EndBurst ==
  /\ At("owner", {"idle"}) /\ burst
  /\ burst' = FALSE /\ Goto("owner", "notify")
  /\ UNCHANGED <<ring, kick, irq, lock, flow, loc, paused, woken, injects, resets>>

NotifyRx(t) ==
  /\ At(t, {"notify"})
  /\ unsignaled' = 0 /\ Goto(t, IF unsignaled = 0 THEN "idle" ELSE "decide")
  /\ UNCHANGED <<ring, kick, irq, lock, backlog, rxBacklog, rxWake, loc, owner, injects, resets>>

NotifyDecide(t) ==
  /\ At(t, {"decide"}) /\ ~InRing
  /\ signaled' = (IF ready THEN used ELSE signaled)
  /\ Goto(t, IF ready /\ Decide(used) THEN "raise" ELSE "idle")
  /\ UNCHANGED <<avail, reaped, asleep, due, driver, availEvent, used, ready, lastAvail,
                 kick, irq, lock, flow, loc, owner, injects, resets>>

-----------------------------------------------------------------------------
(* rx_congested, on the owner, before it sends                             *)

\* Faulty: the length is not looked at again after the flag is set.
ArmWakeOnly ==
  /\ At("owner", {"congested"})
  /\ rxWake' = TRUE /\ paused' = TRUE /\ Goto("owner", "idle")
  /\ UNCHANGED <<ring, kick, irq, lock, backlog, rxBacklog, unsignaled, loc, woken, burst,
                 injects, resets>>

AskCongested ==
  /\ At("owner", {"idle"}) /\ ~paused /\ ~woken /\ rxBacklog >= High
  /\ Goto("owner", "congested")
  /\ UNCHANGED <<ring, kick, irq, lock, flow, loc, owner, injects, resets>>
ArmWake ==
  /\ At("owner", {"congested"})
  /\ rxWake' = TRUE /\ Goto("owner", "armed")
  /\ UNCHANGED <<ring, kick, irq, lock, backlog, rxBacklog, unsignaled, loc, owner, injects, resets>>
Congested ==
  /\ At("owner", {"armed"})
  /\ paused' = (rxBacklog >= High) /\ Goto("owner", "idle")
  /\ UNCHANGED <<ring, kick, irq, lock, flow, loc, woken, burst, injects, resets>>

\* The owner gets on_rx_space's message and sends again.
Resume ==
  /\ At("owner", {"idle"}) /\ woken
  /\ woken' = FALSE /\ paused' = FALSE
  /\ UNCHANGED <<ring, kick, irq, lock, flow, pc, loc, burst, injects, resets>>

-----------------------------------------------------------------------------
Driver == Refill \/ KickPrepare \/ NapiPoll \/ TakeIrq
Reset == ResetClear \/ ResetStore \/ ResetWake \/ ResetQueue \/ Enable
DeliverFrame(t) == Pop(t) \/ Arm(t) \/ Recheck(t) \/ Rewind(t) \/ Publish(t)
ThreadStep(t) ==
  \/ Queue(t) \/ DeliverRx(t) \/ DeliverFrame(t) \/ Left(t) \/ Raise(t) \/ Wake(t)
  \/ Count(t) \/ NotifyRx(t) \/ NotifyDecide(t)
Owner == \/ \E n \in 1..MaxFrame: Inject(n)
         \/ EndBurst \/ AskCongested \/ ArmWake \/ Congested \/ Resume
Next == \/ Driver \/ Reset \/ Owner \/ PumpWake \/ Loopback(1)
        \/ \E t \in NetThreads: ThreadStep(t)

Spec == Init /\ [][Next]_vars

-----------------------------------------------------------------------------
(* Properties                                                              *)

TypeOK ==
  /\ avail \in 0..MaxPosts /\ lastAvail \in 0..avail /\ availEvent \in 0..avail
  /\ used \in 0..lastAvail /\ reaped \in 0..used /\ signaled \in 0..used
  /\ Len(backlog) <= Pool /\ rxBacklog \in 0..Pool /\ unsignaled \in 0..MaxInjects
  /\ {asleep, due, ready, kick, irq, rxWake, paused, woken, burst} \subseteq BOOLEAN
  /\ lock \in NetThreads \cup {NoLock}

Quiet == /\ \A t \in NetThreads: pc[t] = "idle"
         /\ driver = "ok" /\ ~kick /\ ~due /\ ~burst

\* Nothing polls the receive ring and no interrupt is repeated: when no thread is
\* at work and no kick is on its way, the frame that waits first lacks buffers,
\* though the buffers it was tried with were given back (rewind_avail), and a
\* driver asleep has taken everything published, though a burst puts its
\* interrupt off (notify_rx).
RxNothingStrands ==
  Quiet =>
    /\ backlog # <<>> => avail - lastAvail < Size /\ avail - lastAvail < Head(backlog)
    /\ asleep /\ ~irq => reaped = used

\* "A drain racing the arm either sees the flag (and wakes us) or has already
\* stored the lower depth" (rx_congested): a backend told to stop is woken, or
\* the backlog is still above the low mark with the flag set, so that the drain
\* to come will wake it; resets included.
SenderIsWoken ==
  (\A t \in NetThreads: pc[t] = "idle") /\ driver \in {"ok", "down"} /\ paused /\ ~woken =>
    rxWake /\ Len(backlog) > Low
=============================================================================
